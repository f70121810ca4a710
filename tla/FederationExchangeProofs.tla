------------------------ MODULE FederationExchangeProofs ------------------------
(* Theorems about a partner's calls and the events it reads back, for any   *)
(* number of calls, bodies, events and faults, and any page size: about the *)
(* key of the calls, then about the stream of the events, then about both   *)
(* together.  The composition is each of its parts, and the stream tells of *)
(* the key what happened.                                                   *)
EXTENDS FederationExchange, FiniteSetTheorems, TLAPS

-----------------------------------------------------------------------------
(* One idempotency key: the inductive invariant. *)

RecordType ==
  [status: {"NONE", "IN_PROGRESS", "FAILED", "COMPLETED"},
   body: Bodies \cup {NoBody}, response: Nat, expired: BOOLEAN]

CallType ==
  [step: {"unsent", "read", "claim", "run", "save", "undo",
          "answered", "refused", "failed", "crashed"},
   body: Bodies \cup {NoBody}, response: Nat]

Typed ==
  /\ record \in RecordType
  /\ call \in [Calls -> CallType]
  /\ effects \in Nat
  /\ faults \in 0..MaxFaults
  /\ unrecorded \in BOOLEAN

(* A call that got past the record has the body the record was created for. *)
BodyMatches ==
  \A c \in Calls :
    call[c].step \in {"claim", "run", "save", "undo", "answered"} =>
      record.status # "NONE" /\ record.body = call[c].body

(* The key has one holder, and while it has one the record says so, except *)
(* between a success that was recorded unnoticed and its being undone.     *)
KeyHeld ==
  /\ \A c, d \in Calls : Running(c) /\ Running(d) => c = d
  /\ \A c \in Calls : Running(c) =>
       \/ record.status = "IN_PROGRESS"
       \/ record.status = "COMPLETED" /\ call[c].step = "undo" /\ unrecorded

(* The response that is or will be recorded is that of an effect. *)
RealResponse ==
  /\ record.status = "COMPLETED" => record.response \in 1..effects
  /\ \A c \in Calls : call[c].step = "save" => call[c].response \in 1..effects

(* Whoever may still run the operation has found it without effect. *)
FirstEffect ==
  ~unrecorded =>
    /\ effects <= 1
    /\ record.status \in {"NONE", "FAILED"} => effects = 0
    /\ \A c \in Calls : call[c].step \in {"run", "undo"} => effects = 0
    /\ \A c \in Calls : call[c].step = "answered" =>
         record.status = "COMPLETED" /\ call[c].response = record.response

KeyInv == Typed /\ BodyMatches /\ KeyHeld /\ RealResponse /\ FirstEffect

LEMMA InitKeyInv == Init => KeyInv
<1> SUFFICES ASSUME Init PROVE KeyInv
  OBVIOUS
<1> USE IdempotencyAssumption DEF Init
<1>1. Typed
  <2>1. NoRecord \in RecordType
    BY DEF NoRecord, RecordType
  <2>2. Unsent \in CallType
    BY DEF Unsent, CallType
  <2>3. faults \in 0..MaxFaults
    OBVIOUS
  <2>4. record \in RecordType /\ call \in [Calls -> CallType]
    BY <2>1, <2>2
  <2>5. effects \in Nat
    OBVIOUS
  <2>6. unrecorded \in BOOLEAN
    OBVIOUS
  <2> QED
    BY <2>3, <2>4, <2>5, <2>6 DEF Typed
<1>2. \A c \in Calls : call[c].step = "unsent"
  BY DEF Unsent
<1>3. record.status = "NONE"
  BY DEF NoRecord
<1>4. BodyMatches
  BY <1>2 DEF BodyMatches
<1>5. KeyHeld
  BY <1>2 DEF KeyHeld, Running
<1>6. RealResponse
  BY <1>2, <1>3 DEF RealResponse
<1>7. FirstEffect
  BY <1>2 DEF FirstEffect
<1> QED
  BY <1>1, <1>4, <1>5, <1>6, <1>7 DEF KeyInv

(* A step of one call leaves the other calls alone. *)
LEMMA OneCall ==
  ASSUME call \in [Calls -> CallType], NEW c \in Calls, NEW new \in CallType,
         call' = [call EXCEPT ![c] = new]
  PROVE  /\ call' \in [Calls -> CallType]
         /\ call'[c] = new
         /\ \A d \in Calls \ {c} : call'[d] = call[d]
OBVIOUS

LEMMA OnlyStep ==
  ASSUME Typed, NEW c \in Calls,
         NEW step \in {"unsent", "read", "claim", "run", "save", "undo",
                       "answered", "refused", "failed", "crashed"},
         Becomes(c, step)
  PROVE  /\ call' \in [Calls -> CallType]
         /\ call'[c].step = step /\ call'[c].body = call[c].body
         /\ call'[c].response = call[c].response
         /\ \A d \in Calls \ {c} : call'[d] = call[d]
<1> DEFINE new == [step |-> step, body |-> call[c].body, response |-> call[c].response]
<1>1. call[c] \in CallType
  BY DEF Typed
<1>2. new \in CallType
  BY <1>1 DEF CallType
<1>3. [call[c] EXCEPT !.step = step] = new
  BY <1>1 DEF CallType
<1>4. call' = [call EXCEPT ![c] = [call[c] EXCEPT !.step = step]]
  BY DEF Becomes
<1> QED
  BY <1>2, <1>3, <1>4, OneCall DEF Typed

(* What rewriting the status does to the record. *)
LEMMA StatusRewritten ==
  ASSUME Typed, NEW status \in {"NONE", "IN_PROGRESS", "FAILED", "COMPLETED"},
         NEW new, new = [record EXCEPT !.status = status]
  PROVE  /\ new \in RecordType
         /\ new.status = status /\ new.response = record.response
         /\ new.body = record.body
BY DEF Typed, RecordType

Responds(c, step, response) ==
  call' = [call EXCEPT ![c].step = step, ![c].response = response]

Sends(c, step, body) ==
  call' = [call EXCEPT ![c].step = step, ![c].body = body]

(* What a step that also keeps a response does to the calls. *)
LEMMA RespondsEffect ==
  ASSUME call \in [Calls -> CallType], NEW c \in Calls, NEW response \in Nat,
         NEW step \in {"unsent", "read", "claim", "run", "save", "undo",
                       "answered", "refused", "failed", "crashed"},
         Responds(c, step, response)
  PROVE  /\ call' \in [Calls -> CallType]
         /\ call'[c].step = step /\ call'[c].body = call[c].body
         /\ call'[c].response = response
         /\ \A d \in Calls \ {c} : call'[d] = call[d]
<1> DEFINE new == [call[c] EXCEPT !.step = step, !.response = response]
<1>1. call[c] \in CallType
  OBVIOUS
<1>2. new \in CallType
  BY <1>1 DEF CallType
<1>3. new.step = step /\ new.body = call[c].body /\ new.response = response
  BY <1>1 DEF CallType
<1>4. call' = [call EXCEPT ![c] = new]
  BY DEF Responds
<1> HIDE DEF new
<1>5. /\ call' \in [Calls -> CallType] /\ call'[c] = new
      /\ \A d \in Calls \ {c} : call'[d] = call[d]
  BY <1>2, <1>4
<1> QED
  BY <1>3, <1>5

(* What a step that also takes a body does to the calls. *)
LEMMA SendsEffect ==
  ASSUME call \in [Calls -> CallType], NEW c \in Calls, NEW body \in Bodies,
         NEW step \in {"unsent", "read", "claim", "run", "save", "undo",
                       "answered", "refused", "failed", "crashed"},
         Sends(c, step, body)
  PROVE  /\ call' \in [Calls -> CallType]
         /\ call'[c].step = step /\ call'[c].body = body
         /\ call'[c].response = call[c].response
         /\ \A d \in Calls \ {c} : call'[d] = call[d]
<1> DEFINE new == [call[c] EXCEPT !.step = step, !.body = body]
<1>1. call[c] \in CallType
  OBVIOUS
<1>2. new \in CallType
  BY <1>1 DEF CallType
<1>3. new.step = step /\ new.body = body /\ new.response = call[c].response
  BY <1>1 DEF CallType
<1>4. call' = [call EXCEPT ![c] = new]
  BY DEF Sends
<1> HIDE DEF new
<1>5. /\ call' \in [Calls -> CallType] /\ call'[c] = new
      /\ \A d \in Calls \ {c} : call'[d] = call[d]
  BY <1>2, <1>4
<1> QED
  BY <1>3, <1>5

(* What recording a success does to the record. *)
LEMMA CompletedEffect ==
  ASSUME Typed, NEW response \in Nat
  PROVE  /\ Completed(response) \in RecordType
         /\ Completed(response).status = "COMPLETED"
         /\ Completed(response).response = response
         /\ Completed(response).body = record.body
BY DEF Typed, Completed, RecordType

(* A call that only looks at the key, or gives up, keeps the invariant. *)
LEMMA StepsAside ==
  ASSUME KeyInv, NEW c \in Calls, call' \in [Calls -> CallType],
         call'[c].step \in {"read", "refused", "failed", "crashed"},
         \A d \in Calls \ {c} : call'[d] = call[d],
         UNCHANGED <<record, effects, unrecorded>>, faults' \in 0..MaxFaults
  PROVE  KeyInv'
<1>0. Typed /\ BodyMatches /\ KeyHeld /\ RealResponse /\ FirstEffect
  BY DEF KeyInv
<1>1. Typed'
  BY <1>0 DEF Typed
<1>2. BodyMatches'
  BY <1>0 DEF BodyMatches
<1>3. KeyHeld'
  BY <1>0 DEF KeyHeld, Running
<1>4. RealResponse'
  BY <1>0 DEF RealResponse
<1>5. FirstEffect'
  BY <1>0 DEF FirstEffect
<1> QED
  BY <1>1, <1>2, <1>3, <1>4, <1>5 DEF KeyInv

(* Every step keeps the invariant: one case per action. *)
LEMMA NextKeyInv == KeyInv /\ [Next]_vars => KeyInv'
<1> SUFFICES ASSUME KeyInv, [Next]_vars PROVE KeyInv'
  OBVIOUS
<1> USE IdempotencyAssumption
<1>0. Typed /\ BodyMatches /\ KeyHeld /\ RealResponse /\ FirstEffect
  BY DEF KeyInv
<1>1. ASSUME NEW c \in Calls, NEW body \in Bodies, create(c, body) PROVE KeyInv'
  <2>1. call[c].step = "unsent" /\ call \in [Calls -> CallType]
    BY <1>0, <1>1 DEF Typed, create
  <2>3. CASE record.status = "NONE"
    <3>1. Sends(c, "run", body)
      BY <1>1, <2>3 DEF create, Sends
    <3>2. /\ call' \in [Calls -> CallType]
          /\ call'[c].step = "run" /\ call'[c].body = body
          /\ \A d \in Calls \ {c} : call'[d] = call[d]
      BY <2>1, <3>1, SendsEffect
    <3>3. /\ record' \in RecordType
          /\ record'.status = "IN_PROGRESS" /\ record'.body = body
      <4> DEFINE inserted == [NoRecord EXCEPT !.status = "IN_PROGRESS", !.body = body]
      <4>1. inserted \in RecordType
        BY DEF NoRecord, RecordType
      <4>2. inserted.status = "IN_PROGRESS" /\ inserted.body = body
        BY DEF NoRecord
      <4>3. record' = inserted
        BY <1>1, <2>3 DEF create
      <4> HIDE DEF inserted
      <4> QED
        BY <4>1, <4>2, <4>3
    <3>4. UNCHANGED <<effects, faults, unrecorded>>
      BY <1>1 DEF create
    <3>5. Typed'
      BY <1>0, <3>2, <3>3, <3>4 DEF Typed
    <3>6. BodyMatches'
      BY <1>0, <2>3, <3>2, <3>3 DEF BodyMatches
    <3>7. KeyHeld'
      BY <1>0, <2>3, <3>2, <3>3, <3>4 DEF KeyHeld, BodyMatches, Running
    <3>8. RealResponse'
      BY <1>0, <3>2, <3>3, <3>4 DEF RealResponse
    <3>9. FirstEffect'
      BY <1>0, <2>3, <3>2, <3>3, <3>4 DEF FirstEffect, BodyMatches
    <3> QED
      BY <3>5, <3>6, <3>7, <3>8, <3>9 DEF KeyInv
  <2>4. CASE record.status # "NONE"
    <3>1. Sends(c, "read", body)
      BY <1>1, <2>4 DEF create, Sends
    <3>2. /\ call' \in [Calls -> CallType] /\ call'[c].step = "read"
          /\ \A d \in Calls \ {c} : call'[d] = call[d]
      BY <2>1, <3>1, SendsEffect
    <3>3. UNCHANGED <<record, effects, faults, unrecorded>>
      BY <1>1, <2>4 DEF create
    <3> QED
      BY <1>0, <3>2, <3>3, StepsAside DEF Typed
  <2> QED
    BY <2>3, <2>4
<1>2. ASSUME NEW c \in Calls, readRecord(c) PROVE KeyInv'
  <2>1. call[c] \in CallType /\ call[c].step = "read"
    BY <1>0, <1>2 DEF Typed, readRecord
  <2>2. UNCHANGED <<record, effects, faults, unrecorded>>
    BY <1>2 DEF readRecord
  <2>3. CASE /\ Usable(c) /\ record.status = "COMPLETED"
             /\ call' = [call EXCEPT ![c].step = "answered",
                                     ![c].response = record.response]
    <3>1. Responds(c, "answered", record.response)
      BY <2>3 DEF Responds
    <3>2. record.response \in Nat /\ call \in [Calls -> CallType]
      BY <1>0 DEF Typed, RecordType
    <3>4. /\ call' \in [Calls -> CallType] /\ call'[c].step = "answered"
          /\ call'[c].body = call[c].body
          /\ call'[c].response = record.response
          /\ \A d \in Calls \ {c} : call'[d] = call[d]
      BY <3>1, <3>2, RespondsEffect
    <3>5. Typed'
      BY <1>0, <2>2, <3>4 DEF Typed
    <3>6. BodyMatches'
      BY <1>0, <2>2, <2>3, <3>4 DEF BodyMatches, Usable
    <3>7. KeyHeld'
      BY <1>0, <2>2, <3>4 DEF KeyHeld, Running
    <3>8. RealResponse'
      BY <1>0, <2>2, <3>4 DEF RealResponse
    <3>9. FirstEffect'
      BY <1>0, <2>2, <2>3, <3>4 DEF FirstEffect
    <3> QED
      BY <3>5, <3>6, <3>7, <3>8, <3>9 DEF KeyInv
  <2>4. ASSUME NEW step \in {"claim", "refused"}, Becomes(c, step),
               step = "claim" => Usable(c) /\ record.status = "FAILED"
        PROVE  KeyInv'
    <3>4. /\ call' \in [Calls -> CallType] /\ call'[c].step = step
          /\ call'[c].body = call[c].body
          /\ \A d \in Calls \ {c} : call'[d] = call[d]
      BY <1>0, <2>4, OnlyStep
    <3>5. Typed'
      BY <1>0, <2>2, <3>4 DEF Typed
    <3>6. BodyMatches'
      BY <1>0, <2>2, <2>4, <3>4 DEF BodyMatches, Usable
    <3>7. KeyHeld'
      BY <1>0, <2>2, <3>4 DEF KeyHeld, Running
    <3>8. RealResponse'
      BY <1>0, <2>2, <3>4 DEF RealResponse
    <3>9. FirstEffect'
      BY <1>0, <2>2, <3>4 DEF FirstEffect
    <3> QED
      BY <3>5, <3>6, <3>7, <3>8, <3>9 DEF KeyInv
  <2> QED
    BY <1>2, <2>3, <2>4 DEF readRecord
<1>3. ASSUME NEW c \in Calls, claim(c) PROVE KeyInv'
  <2>1. call[c].step = "claim" /\ UNCHANGED <<effects, faults, unrecorded>>
    BY <1>3 DEF claim
  <2>2. CASE record.status = "FAILED"
    <3>3. /\ record' \in RecordType /\ record'.status = "IN_PROGRESS"
          /\ record'.response = record.response /\ record'.body = record.body
      BY <1>0, <1>3, <2>2, StatusRewritten DEF claim
    <3>4. /\ call' \in [Calls -> CallType] /\ call'[c].step = "run"
          /\ call'[c].body = call[c].body
          /\ \A d \in Calls \ {c} : call'[d] = call[d]
      BY <1>0, <1>3, <2>2, OnlyStep DEF claim
    <3>5. Typed'
      BY <1>0, <2>1, <3>3, <3>4 DEF Typed
    <3>6. BodyMatches'
      BY <1>0, <2>1, <3>3, <3>4 DEF BodyMatches
    <3>7. KeyHeld'
      BY <1>0, <2>1, <2>2, <3>3, <3>4 DEF KeyHeld, Running
    <3>8. RealResponse'
      BY <1>0, <2>1, <3>3, <3>4 DEF RealResponse
    <3>9. FirstEffect'
      BY <1>0, <2>1, <2>2, <3>3, <3>4 DEF FirstEffect
    <3> QED
      BY <3>5, <3>6, <3>7, <3>8, <3>9 DEF KeyInv
  <2>3. CASE record.status # "FAILED"
    <3>3. UNCHANGED record
      BY <1>3, <2>3 DEF claim
    <3>4. /\ call' \in [Calls -> CallType] /\ call'[c].step = "refused"
          /\ \A d \in Calls \ {c} : call'[d] = call[d]
      BY <1>0, <1>3, <2>3, OnlyStep DEF claim
    <3> QED
      BY <1>0, <2>1, <3>3, <3>4, StepsAside DEF Typed
  <2> QED
    BY <2>2, <2>3
<1>4. ASSUME NEW c \in Calls, operate(c) PROVE KeyInv'
  <2>1. call[c].step = "run" /\ call \in [Calls -> CallType]
    BY <1>0, <1>4 DEF Typed, operate
  <2>2. /\ effects' = effects + 1 /\ effects + 1 \in Nat
        /\ UNCHANGED <<record, faults, unrecorded>>
    BY <1>0, <1>4 DEF Typed, operate
  <2>3. Responds(c, "save", effects + 1)
    BY <1>4 DEF operate, Responds
  <2>4. /\ call' \in [Calls -> CallType] /\ call'[c].step = "save"
        /\ call'[c].body = call[c].body /\ call'[c].response = effects + 1
        /\ \A d \in Calls \ {c} : call'[d] = call[d]
    BY <2>1, <2>2, <2>3, RespondsEffect
  <2>5. Typed'
    BY <1>0, <2>1, <2>2, <2>4 DEF Typed
  <2>6. BodyMatches'
    BY <1>0, <2>1, <2>2, <2>4 DEF BodyMatches
  <2>7. KeyHeld'
    BY <1>0, <2>1, <2>2, <2>4 DEF KeyHeld, Running
  <2>8. RealResponse'
    BY <1>0, <2>1, <2>2, <2>4 DEF RealResponse, Typed
  <2>9. FirstEffect'
    BY <1>0, <2>1, <2>2, <2>4 DEF FirstEffect, KeyHeld, Running, Typed
  <2> QED
    BY <2>5, <2>6, <2>7, <2>8, <2>9 DEF KeyInv
<1>5. ASSUME NEW c \in Calls, operateBreaks(c) PROVE KeyInv'
  <2>1. call[c].step = "run"
    BY <1>5 DEF operateBreaks
  <2>2. /\ effects' = effects + 1 /\ effects' \in Nat
        /\ unrecorded' = TRUE /\ UNCHANGED record
    BY <1>0, <1>5 DEF Typed, operateBreaks
  <2>3. faults' \in 0..MaxFaults
    BY <1>0, <1>5 DEF Typed, operateBreaks
  <2>4. /\ call' \in [Calls -> CallType] /\ call'[c].step = "undo"
        /\ call'[c].body = call[c].body
        /\ \A d \in Calls \ {c} : call'[d] = call[d]
    BY <1>0, <1>5, OnlyStep DEF operateBreaks
  <2>5. Typed'
    BY <1>0, <2>1, <2>2, <2>3, <2>4 DEF Typed
  <2>6. BodyMatches'
    BY <1>0, <2>1, <2>2, <2>3, <2>4 DEF BodyMatches
  <2>7. KeyHeld'
    BY <1>0, <2>1, <2>2, <2>3, <2>4 DEF KeyHeld, Running
  <2>8. RealResponse'
    BY <1>0, <2>1, <2>2, <2>3, <2>4 DEF RealResponse, Typed
  <2>9. FirstEffect'
    BY <1>0, <2>1, <2>2, <2>3, <2>4 DEF FirstEffect, KeyHeld, Running, Typed
  <2> QED
    BY <2>5, <2>6, <2>7, <2>8, <2>9 DEF KeyInv
<1>6. ASSUME NEW c \in Calls, operateFails(c) PROVE KeyInv'
  <2>1. call[c].step = "run" /\ UNCHANGED <<record, effects, faults, unrecorded>>
    BY <1>6 DEF operateFails
  <2>4. /\ call' \in [Calls -> CallType] /\ call'[c].step = "undo"
        /\ call'[c].body = call[c].body
        /\ \A d \in Calls \ {c} : call'[d] = call[d]
    BY <1>0, <1>6, OnlyStep DEF operateFails
  <2>5. Typed'
    BY <1>0, <2>1, <2>4 DEF Typed
  <2>6. BodyMatches'
    BY <1>0, <2>1, <2>4 DEF BodyMatches
  <2>7. KeyHeld'
    BY <1>0, <2>1, <2>4 DEF KeyHeld, Running
  <2>8. RealResponse'
    BY <1>0, <2>1, <2>4 DEF RealResponse, Typed
  <2>9. FirstEffect'
    BY <1>0, <2>1, <2>4 DEF FirstEffect, KeyHeld, Running, Typed
  <2> QED
    BY <2>5, <2>6, <2>7, <2>8, <2>9 DEF KeyInv
<1>7. ASSUME NEW c \in Calls, save(c) PROVE KeyInv'
  <2>1. call[c].step = "save" /\ UNCHANGED <<effects, faults, unrecorded>>
    BY <1>7 DEF save
  <2>2. call[c].response \in Nat
    BY <1>0 DEF Typed, CallType
  <2>3. /\ record' \in RecordType /\ record'.status = "COMPLETED"
        /\ record'.response = call[c].response /\ record'.body = record.body
    <3>1. record' = Completed(call[c].response)
      BY <1>7 DEF save
    <3> QED
      BY <1>0, <2>2, <3>1, CompletedEffect
  <2>4. /\ call' \in [Calls -> CallType] /\ call'[c].step = "answered"
        /\ call'[c].body = call[c].body /\ call'[c].response = call[c].response
        /\ \A d \in Calls \ {c} : call'[d] = call[d]
    BY <1>0, <1>7, OnlyStep DEF save
  <2>5. Typed'
    BY <1>0, <2>1, <2>3, <2>4 DEF Typed
  <2>6. BodyMatches'
    BY <1>0, <2>1, <2>3, <2>4 DEF BodyMatches
  <2>7. KeyHeld'
    BY <1>0, <2>1, <2>3, <2>4 DEF KeyHeld, Running
  <2>8. RealResponse'
    BY <1>0, <2>1, <2>3, <2>4 DEF RealResponse, Typed
  <2>9. FirstEffect'
    BY <1>0, <2>1, <2>3, <2>4 DEF FirstEffect, KeyHeld, Running, Typed
  <2> QED
    BY <2>5, <2>6, <2>7, <2>8, <2>9 DEF KeyInv
<1>8. ASSUME NEW c \in Calls, saveFails(c) PROVE KeyInv'
  <2>1. call[c].step = "save" /\ unrecorded' = TRUE /\ UNCHANGED effects
    BY <1>8 DEF saveFails
  <2>2. call[c].response \in Nat /\ faults' \in 0..MaxFaults
    BY <1>0, <1>8 DEF Typed, CallType, saveFails
  <2>3. /\ record' \in RecordType /\ record'.body = record.body
        /\ \/ record' = record
           \/ record'.status = "COMPLETED" /\ record'.response = call[c].response
    <3>1. \/ record' = record
          \/ record' = Completed(call[c].response)
      BY <1>8 DEF saveFails
    <3>2. CASE record' = record
      BY <1>0, <3>2 DEF Typed
    <3>3. CASE record' = Completed(call[c].response)
      BY <1>0, <2>2, <3>3, CompletedEffect
    <3> QED
      BY <3>1, <3>2, <3>3
  <2>4. /\ call' \in [Calls -> CallType] /\ call'[c].step = "undo"
        /\ call'[c].body = call[c].body
        /\ \A d \in Calls \ {c} : call'[d] = call[d]
    BY <1>0, <1>8, OnlyStep DEF saveFails
  <2>5. Typed'
    BY <1>0, <2>1, <2>2, <2>3, <2>4 DEF Typed
  <2>6. BodyMatches'
    BY <1>0, <2>1, <2>2, <2>3, <2>4 DEF BodyMatches
  <2>7. KeyHeld'
    BY <1>0, <2>1, <2>2, <2>3, <2>4 DEF KeyHeld, Running
  <2>8. RealResponse'
    BY <1>0, <2>1, <2>2, <2>3, <2>4 DEF RealResponse, Typed
  <2>9. FirstEffect'
    BY <1>0, <2>1, <2>2, <2>3, <2>4 DEF FirstEffect, KeyHeld, Running, Typed
  <2> QED
    BY <2>5, <2>6, <2>7, <2>8, <2>9 DEF KeyInv
<1>9. ASSUME NEW c \in Calls, undo(c) PROVE KeyInv'
  <2>1. call[c].step = "undo" /\ UNCHANGED <<effects, unrecorded>>
    BY <1>9 DEF undo
  <2>2. /\ call' \in [Calls -> CallType] /\ call'[c].step = "failed"
        /\ \A d \in Calls \ {c} : call'[d] = call[d]
    BY <1>0, <1>9, OnlyStep DEF undo
  <2>3. CASE faults < MaxFaults /\ faults' = faults + 1 /\ UNCHANGED record
    BY <1>0, <2>1, <2>2, <2>3, StepsAside DEF Typed
  <2>4. CASE record' = [record EXCEPT !.status = "FAILED"] /\ UNCHANGED faults
    <3>1. /\ record' \in RecordType /\ record'.status = "FAILED"
          /\ record'.body = record.body
      BY <1>0, <2>4, StatusRewritten
    <3>5. Typed'
      BY <1>0, <2>1, <2>2, <2>4, <3>1 DEF Typed
    <3>6. BodyMatches'
      BY <1>0, <2>1, <2>2, <2>4, <3>1 DEF BodyMatches
    <3>7. KeyHeld'
      BY <1>0, <2>1, <2>2, <2>4, <3>1 DEF KeyHeld, Running
    <3>8. RealResponse'
      BY <1>0, <2>1, <2>2, <2>4, <3>1 DEF RealResponse, Typed
    <3>9. FirstEffect'
      BY <1>0, <2>1, <2>2, <2>4, <3>1 DEF FirstEffect, KeyHeld, Running, Typed
    <3> QED
      BY <3>5, <3>6, <3>7, <3>8, <3>9 DEF KeyInv
  <2> QED
    BY <1>9, <2>3, <2>4 DEF undo
<1>10. ASSUME NEW c \in Calls, crash(c) PROVE KeyInv'
  <2>1. faults' \in 0..MaxFaults /\ UNCHANGED <<record, effects, unrecorded>>
    BY <1>0, <1>10 DEF crash, Typed
  <2>2. /\ call' \in [Calls -> CallType] /\ call'[c].step = "crashed"
        /\ \A d \in Calls \ {c} : call'[d] = call[d]
    BY <1>0, <1>10, OnlyStep DEF crash
  <2> QED
    BY <2>1, <2>2, StepsAside
<1>11. ASSUME expire PROVE KeyInv'
  <2>1. /\ record' \in RecordType /\ record'.status = record.status
        /\ record'.body = record.body /\ record'.response = record.response
    BY <1>0, <1>11 DEF expire, Typed, RecordType
  <2>2. UNCHANGED <<call, effects, faults, unrecorded>>
    BY <1>11 DEF expire
  <2>5. Typed'
    BY <1>0, <2>1, <2>2 DEF Typed
  <2>6. BodyMatches'
    BY <1>0, <2>1, <2>2 DEF BodyMatches
  <2>7. KeyHeld'
    BY <1>0, <2>1, <2>2 DEF KeyHeld, Running
  <2>8. RealResponse'
    BY <1>0, <2>1, <2>2 DEF RealResponse, Typed
  <2>9. FirstEffect'
    BY <1>0, <2>1, <2>2 DEF FirstEffect, KeyHeld, Running, Typed
  <2> QED
    BY <2>5, <2>6, <2>7, <2>8, <2>9 DEF KeyInv
<1>12. ASSUME UNCHANGED vars PROVE KeyInv'
  <2>2. UNCHANGED <<record, call, effects, faults, unrecorded>>
    BY <1>12 DEF vars
  <2>5. Typed'
    BY <1>0, <2>2 DEF Typed
  <2>6. BodyMatches'
    BY <1>0, <2>2 DEF BodyMatches
  <2>7. KeyHeld'
    BY <1>0, <2>2 DEF KeyHeld, Running
  <2>8. RealResponse'
    BY <1>0, <2>2 DEF RealResponse, Typed
  <2>9. FirstEffect'
    BY <1>0, <2>2 DEF FirstEffect, KeyHeld, Running, Typed
  <2> QED
    BY <2>5, <2>6, <2>7, <2>8, <2>9 DEF KeyInv
<1> QED
  BY <1>1, <1>2, <1>3, <1>4, <1>5, <1>6, <1>7, <1>8, <1>9, <1>10, <1>11, <1>12
     DEF Next

THEOREM KeySafe == Spec => []KeyInv
BY InitKeyInv, NextKeyInv, PTL DEF Spec

-----------------------------------------------------------------------------
(* The columns hold their types, and a completed record has the response   *)
(* of an effect.                                                           *)
THEOREM TypeCorrect == Spec => []TypeOK
<1>1. KeyInv => TypeOK
  BY DEF KeyInv, Typed, RealResponse, TypeOK, RecordType, CallType
<1> QED
  BY KeySafe, <1>1, PTL

(* At most one call holds the key, whichever calls raced to create or to   *)
(* claim it.                                                               *)
THEOREM KeyHasOneRunner == Spec => []OneRunner
<1>1. KeyInv => OneRunner
  BY DEF KeyInv, KeyHeld, BodyMatches, OneRunner, Running
<1> QED
  BY KeySafe, <1>1, PTL

(* However many calls carry the key, the operation takes effect once, as   *)
(* long as a success that happened could be recorded.                      *)
THEOREM TakesEffectOnce == Spec => []EffectOnce
<1>1. KeyInv => EffectOnce
  BY DEF KeyInv, FirstEffect, EffectOnce
<1> QED
  BY KeySafe, <1>1, PTL

(* All answered calls have the same body and got the recorded response.    *)
THEOREM CallersAgree == Spec => []AnswersAgree
<1>1. KeyInv => AnswersAgree
  BY DEF KeyInv, FirstEffect, BodyMatches, AnswersAgree
<1> QED
  BY KeySafe, <1>1, PTL

-----------------------------------------------------------------------------
(* The key as the partner sees it: the protocol implements IdempotentKey.  *)

(* The record has a body once it was created, and a call once it was sent. *)
Bodied ==
  /\ record.status = "NONE" <=> record.body = NoBody
  /\ \A c \in Calls : call[c].step = "unsent" <=> call[c].body = NoBody

LEMMA InitBodied == Init => Bodied
<1> SUFFICES ASSUME Init PROVE Bodied
  OBVIOUS
<1>1. record.status = "NONE" /\ record.body = NoBody
  BY DEF Init, NoRecord
<1>2. \A c \in Calls : call[c].step = "unsent" /\ call[c].body = NoBody
  BY DEF Init, Unsent
<1> QED
  BY <1>1, <1>2 DEF Bodied

(* A step of a call on its way, which keeps the body of the record. *)
Onward(c) ==
  /\ call[c].step \notin {"unsent", "answered"} /\ call'[c].step # "unsent"
  /\ call'[c].body = call[c].body
  /\ \A d \in Calls \ {c} : call'[d] = call[d]
  /\ record'.body = record.body
  /\ record.status = "NONE" <=> record'.status = "NONE"

LEMMA OnwardBodied ==
  ASSUME Bodied, NEW c \in Calls, Onward(c)
  PROVE  Bodied' /\ record'.body = record.body /\ Sent' = Sent
<1>1. \A d \in Calls : call'[d].body = call[d].body
  BY DEF Onward
<1>2. Sent' = Sent
  BY <1>1 DEF Sent
<1>3. Bodied'
  BY DEF Onward, Bodied
<1> QED
  BY <1>2, <1>3 DEF Onward

(* A call that is not answered tells the partner nothing, ... *)
LEMMA OnwardTellsNothing ==
  ASSUME Bodied, NEW c \in Calls, Onward(c), call'[c].step # "answered"
  PROVE  Bodied' /\ record'.body = record.body /\ Sent' = Sent /\ Answers' = Answers
<1>1. \A d \in Calls : /\ call'[d].step = "answered" <=> call[d].step = "answered"
                       /\ call[d].step = "answered" => call'[d] = call[d]
  BY DEF Onward
<1>2. Answers' = Answers
  BY <1>1 DEF Answers
<1> QED
  BY <1>2, OnwardBodied

(* ... and one that is hears of an effect of the request it carried.       *)
LEMMA OnwardAnswers ==
  ASSUME KeyInv, Bodied, NEW c \in Calls, Onward(c), call'[c].step = "answered",
         record.status # "NONE", record.body = call[c].body,
         call'[c].response \in 1..effects, UNCHANGED <<effects, unrecorded>>
  PROVE  Bodied' /\ Key!Answer(c)
<1> DEFINE response == call'[c].response
<1>1. Answers[c] = 0
  BY DEF Onward, Answers
<1>2. Answers' = [Answers EXCEPT ![c] = response]
  <2>1. \A d \in Calls \ {c} : call'[d] = call[d]
    BY DEF Onward
  <2> QED
    BY <2>1 DEF Answers
<1>3. Answers'[c] = response
  BY DEF Answers
<1>4. Sent[c] = record.body /\ record.body \in Bodies
  BY DEF Sent, Bodied, KeyInv, Typed, RecordType
<1>5. Bodied' /\ record'.body = record.body /\ Sent' = Sent
  BY OnwardBodied
<1> HIDE DEF response
<1> QED
  BY <1>1, <1>2, <1>3, <1>4, <1>5 DEF Key!Answer, response

(* What is created is what the key stands for. *)
LEMMA CreateSends ==
  ASSUME KeyInv, Bodied, NEW c \in Calls, NEW body \in Bodies, create(c, body)
  PROVE  Bodied' /\ Key!Send(c)
<1>1. call[c].step = "unsent" /\ call \in [Calls -> CallType] /\ body # NoBody
  BY IdempotencyAssumption DEF create, KeyInv, Typed
<1>2. \E step \in {"run", "read"} : Sends(c, step, body)
  BY DEF create, Sends
<1>3. /\ call'[c].step \in {"run", "read"} /\ call'[c].body = body
      /\ \A d \in Calls \ {c} : call'[d] = call[d]
  BY <1>1, <1>2, SendsEffect
<1>4. /\ record'.status # "NONE"
      /\ record'.body = IF record.body = NoBody THEN body ELSE record.body
  <2>1. CASE record.status = "NONE"
    <3>1. record' = [NoRecord EXCEPT !.status = "IN_PROGRESS", !.body = body]
      BY <2>1 DEF create
    <3>2. record'.status = "IN_PROGRESS" /\ record'.body = body
      BY <3>1 DEF NoRecord
    <3> QED
      BY <2>1, <3>2 DEF Bodied
  <2>2. CASE record.status # "NONE"
    BY <2>2 DEF create, Bodied
  <2> QED
    BY <2>1, <2>2
<1>5. Bodied'
  BY <1>1, <1>3, <1>4 DEF Bodied
<1>6. Sent[c] = NoBody /\ Sent'[c] = body /\ Sent' = [Sent EXCEPT ![c] = body]
  BY <1>1, <1>3 DEF Sent, Bodied
<1>7. Answers' = Answers
  BY <1>1, <1>3 DEF Answers
<1>8. UNCHANGED <<effects, unrecorded>>
  BY DEF create
<1> QED
  BY <1>4, <1>5, <1>6, <1>7, <1>8 DEF Key!Send

(* What the steps of a call on its way do to it and to the record. *)
LEMMA StepsOnward ==
  ASSUME KeyInv, NEW c \in Calls, NEW step \in {"claim", "run", "save", "undo",
           "answered", "refused", "failed", "crashed"},
         call[c].step \notin {"unsent", "answered"},
         \/ Becomes(c, step)
         \/ \E response \in Nat : Responds(c, step, response),
         record'.body = record.body,
         record.status = "NONE" <=> record'.status = "NONE"
  PROVE  Onward(c) /\ call'[c].step = step
<1>0. Typed /\ call \in [Calls -> CallType]
  BY DEF KeyInv, Typed
<1>1. CASE Becomes(c, step)
  BY <1>0, <1>1, OnlyStep DEF Onward
<1>2. ASSUME NEW response \in Nat, Responds(c, step, response)
      PROVE  Onward(c) /\ call'[c].step = step
  BY <1>0, <1>2, RespondsEffect DEF Onward
<1> QED
  BY <1>1, <1>2

(* A call that reads or claims the record is answered, or goes on unheard. *)
LEMMA LookingImplements ==
  ASSUME KeyInv, Bodied, NEW c \in Calls, readRecord(c) \/ claim(c)
  PROVE  Bodied' /\ [Key!Next]_Key!keyVars
<1>0. Typed /\ RealResponse /\ BodyMatches /\ UNCHANGED <<effects, unrecorded>>
  BY DEF KeyInv, readRecord, claim
<1>1. call[c].step \in {"read", "claim"}
  BY DEF readRecord, claim
<1>2. CASE /\ readRecord(c) /\ Usable(c) /\ record.status = "COMPLETED"
           /\ Responds(c, "answered", record.response)
  <2>1. record.response \in 1..effects /\ record.response \in Nat /\ record' = record
    BY <1>0, <1>2 DEF RealResponse, Typed, RecordType, readRecord
  <2>2. Onward(c) /\ call'[c].step = "answered"
    BY <1>1, <1>2, <2>1, StepsOnward
  <2>3. call'[c].response = record.response
    BY <1>0, <1>2, <2>1, RespondsEffect DEF Typed
  <2>4. record.status # "NONE" /\ record.body = call[c].body
    BY <1>2 DEF Usable
  <2> QED
    BY <1>0, <2>1, <2>2, <2>3, <2>4, OnwardAnswers DEF Key!Next
<1>3. ASSUME NEW step \in {"claim", "run", "refused"}, Becomes(c, step),
             record'.body = record.body, record.status = "NONE" <=> record'.status = "NONE"
      PROVE  Bodied' /\ [Key!Next]_Key!keyVars
  <2>1. Onward(c) /\ call'[c].step = step
    BY <1>1, <1>3, StepsOnward
  <2> QED
    BY <1>0, <1>3, <2>1, OnwardTellsNothing DEF Key!keyVars
<1>4. CASE claim(c) /\ record.status = "FAILED"
  <2>1. record' = [record EXCEPT !.status = "IN_PROGRESS"] /\ Becomes(c, "run")
    BY <1>4 DEF claim
  <2>2. record'.status = "IN_PROGRESS" /\ record'.body = record.body
    BY <1>0, <2>1, StatusRewritten
  <2> QED
    BY <1>3, <1>4, <2>1, <2>2
<1>5. CASE claim(c) /\ record.status # "FAILED"
  BY <1>3, <1>5 DEF claim
<1>6. CASE readRecord(c)
  BY <1>2, <1>3, <1>6 DEF readRecord, Responds
<1> QED
  BY <1>4, <1>5, <1>6

(* Only whoever found the key without effect, or after a success that went *)
(* unrecorded, takes effect.                                               *)
LEMMA OperatingTakesEffect ==
  ASSUME KeyInv, Bodied, NEW c \in Calls, operate(c) \/ operateBreaks(c)
  PROVE  Bodied' /\ Key!TakeEffect
<1>0. Typed /\ BodyMatches /\ FirstEffect /\ effects \in Nat
  BY DEF KeyInv, Typed
<1>1. /\ call[c].step = "run" /\ record' = record /\ effects' = effects + 1
      /\ unrecorded' \in {unrecorded, TRUE}
  BY DEF operate, operateBreaks
<1>2. Onward(c) /\ call'[c].step \in {"save", "undo"}
  <2>1. CASE operate(c)
    <3>1. Responds(c, "save", effects + 1) /\ effects + 1 \in Nat
      BY <1>0, <1>1, <2>1 DEF operate, Responds
    <3> QED
      BY <1>1, <3>1, StepsOnward
  <2>2. CASE operateBreaks(c)
    <3>1. Becomes(c, "undo")
      BY <2>2 DEF operateBreaks
    <3> QED
      BY <1>1, <3>1, StepsOnward
  <2> QED
    BY <2>1, <2>2
<1>3. effects = 0 \/ unrecorded
  BY <1>0, <1>1 DEF FirstEffect
<1>4. record.body \in Bodies /\ Sent[c] = record.body
  BY <1>0, <1>1 DEF BodyMatches, Bodied, Typed, RecordType, Sent
<1>5. Bodied' /\ record'.body = record.body /\ Sent' = Sent /\ Answers' = Answers
  BY <1>2, OnwardTellsNothing
<1> QED
  BY <1>1, <1>3, <1>4, <1>5 DEF Key!TakeEffect

(* Saving answers, and what fails to save loses the success. *)
LEMMA SavingImplements ==
  ASSUME KeyInv, Bodied, NEW c \in Calls, save(c) \/ saveFails(c)
  PROVE  Bodied' /\ [Key!Next]_Key!keyVars
<1> DEFINE response == call[c].response
<1>0. /\ Typed /\ BodyMatches /\ RealResponse /\ unrecorded \in BOOLEAN
      /\ effects \in Nat /\ response \in Nat /\ call[c].step = "save"
  BY DEF KeyInv, Typed, CallType, save, saveFails
<1>1. response \in 1..effects /\ effects > 0
  BY <1>0 DEF RealResponse
<1>2. record.status # "NONE" /\ record.body = call[c].body
  BY <1>0 DEF BodyMatches
<1>3. record' \in {record, Completed(response)}
  BY DEF save, saveFails
<1>4. record'.body = record.body /\ record'.status # "NONE"
  BY <1>0, <1>2, <1>3, CompletedEffect
<1>5. CASE save(c)
  <2>1. Becomes(c, "answered") /\ UNCHANGED <<effects, unrecorded>>
    BY <1>5 DEF save
  <2>2. Onward(c) /\ call'[c].step = "answered"
    BY <1>0, <1>2, <1>4, <2>1, StepsOnward
  <2>3. call'[c].response = response
    BY <1>0, <2>1, OnlyStep
  <2> QED
    BY <1>1, <1>2, <2>1, <2>2, <2>3, OnwardAnswers DEF Key!Next
<1>6. CASE saveFails(c)
  <2>1. Becomes(c, "undo") /\ effects' = effects /\ unrecorded' = TRUE
    BY <1>6 DEF saveFails
  <2>2. Onward(c) /\ call'[c].step = "undo"
    BY <1>0, <1>2, <1>4, <2>1, StepsOnward
  <2>3. Bodied' /\ record'.body = record.body /\ Sent' = Sent /\ Answers' = Answers
    BY <2>2, OnwardTellsNothing
  <2>4. CASE unrecorded
    BY <1>0, <2>1, <2>3, <2>4 DEF Key!keyVars
  <2>5. CASE ~unrecorded
    BY <1>1, <2>1, <2>3, <2>5 DEF Key!LoseSuccess, Key!Next
  <2> QED
    BY <2>4, <2>5
<1> QED
  BY <1>5, <1>6

(* Whoever fails, undoes or dies tells the partner nothing. *)
LEMMA EndingStutters ==
  ASSUME KeyInv, Bodied, NEW c \in Calls, operateFails(c) \/ undo(c) \/ crash(c)
  PROVE  Bodied' /\ UNCHANGED Key!keyVars
<1>0. Typed /\ BodyMatches /\ UNCHANGED <<effects, unrecorded>>
  BY DEF KeyInv, operateFails, undo, crash
<1>1. call[c].step \in {"read", "claim", "run", "save", "undo"}
  BY DEF operateFails, undo, crash
<1>2. /\ record'.body = record.body
      /\ record.status = "NONE" <=> record'.status = "NONE"
  <2>1. CASE record' = record
    BY <2>1
  <2>2. CASE undo(c) /\ record' = [record EXCEPT !.status = "FAILED"]
    <3>1. record'.status = "FAILED" /\ record'.body = record.body
      BY <1>0, <2>2, StatusRewritten
    <3> QED
      BY <1>0, <2>2, <3>1 DEF BodyMatches, undo
  <2> QED
    BY <2>1, <2>2 DEF operateFails, undo, crash
<1>3. \E step \in {"undo", "failed", "crashed"} : Becomes(c, step)
  BY DEF operateFails, undo, crash
<1>4. Onward(c) /\ call'[c].step # "answered"
  BY <1>1, <1>2, <1>3, StepsOnward
<1> QED
  BY <1>0, <1>4, OnwardTellsNothing DEF Key!keyVars

(* Every step of the protocol is a move of the key, or a stutter. *)
LEMMA NextImplementsKey ==
  KeyInv /\ Bodied /\ [Next]_vars => Bodied' /\ [Key!Next]_Key!keyVars
<1> SUFFICES ASSUME KeyInv, Bodied, [Next]_vars
             PROVE  Bodied' /\ [Key!Next]_Key!keyVars
  OBVIOUS
<1>1. ASSUME NEW c \in Calls, NEW body \in Bodies, create(c, body)
      PROVE  Bodied' /\ [Key!Next]_Key!keyVars
  BY <1>1, CreateSends DEF Key!Next
<1>2. ASSUME NEW c \in Calls, operate(c) \/ operateBreaks(c)
      PROVE  Bodied' /\ [Key!Next]_Key!keyVars
  BY <1>2, OperatingTakesEffect DEF Key!Next
<1>3. CASE expire
  <2>1. /\ record'.status = record.status /\ record'.body = record.body
        /\ UNCHANGED <<call, effects, unrecorded>>
    BY <1>3 DEF expire, KeyInv, Typed, RecordType
  <2> QED
    BY <2>1 DEF Bodied, Sent, Answers, Key!keyVars
<1>4. CASE UNCHANGED vars
  BY <1>4 DEF vars, Bodied, Sent, Answers, Key!keyVars
<1> QED
  BY <1>1, <1>2, <1>3, <1>4, LookingImplements, SavingImplements, EndingStutters DEF Next

LEMMA InitImplementsKey == Init => Key!Init
<1> SUFFICES ASSUME Init PROVE Key!Init
  OBVIOUS
<1>1. \A c \in Calls : call[c].step = "unsent" /\ call[c].body = NoBody
  BY DEF Init, Unsent
<1>2. Sent = [c \in Calls |-> NoBody] /\ Answers = [c \in Calls |-> 0]
  BY <1>1 DEF Sent, Answers
<1>3. record.body = NoBody /\ effects = 0 /\ unrecorded = FALSE
  BY DEF Init, NoRecord
<1> QED
  BY <1>2, <1>3 DEF Key!Init

(* However the calls of a key race, fail and crash, the partner sees a key *)
(* whose request takes effect once, or again only after a success that     *)
(* could not be recorded, and answers that tell of its effects.            *)
THEOREM FollowsKey == Spec => ImplementsKey
<1> QED
  BY KeySafe, InitBodied, InitImplementsKey, NextImplementsKey, PTL
     DEF Spec, ImplementsKey, Key!Spec

-----------------------------------------------------------------------------
(* The stream a partner pages through: the inductive invariant. *)

CursorType == [createdAt: Stamps \cup {0}, id: Events \cup {0}]

StreamTyped ==
  /\ clock \in Stamps
  /\ row \in [Events -> RowType]
  /\ cursor \in CursorType
  /\ page \in [sent: BOOLEAN, events: SUBSET Events]
  /\ received \in Seq(SUBSET Events)
  /\ late \in SUBSET Events

(* Nothing is on its way but what was sent, and only what is committed is. *)
OnRecord ==
  /\ ~page.sent => page.events = {}
  /\ page.events \subseteq Committed
  /\ \A i \in DOMAIN received : received[i] \subseteq Committed
  /\ late \subseteq Committed

(* The cursor stands between what was received and what is on its way. *)
CursorBetween ==
  /\ \A i \in DOMAIN received : \A e \in received[i] : ~After(e)
  /\ \A e \in page.events : After(e)

(* What a page went past is on a page, or was committed after it. *)
OnlyLatePassed ==
  \A e \in Committed : Passed(e) =>
    e \in late \/ e \in page.events \/ \E i \in DOMAIN received : e \in received[i]

StreamInv ==
  StreamTyped /\ OnRecord /\ CursorBetween /\ OnlyLatePassed /\ ReplayedInOrder

LEMMA StreamInvImplies == StreamInv => ReplayTypeOK /\ OnlyLateMissed
<1> SUFFICES ASSUME StreamInv PROVE ReplayTypeOK /\ OnlyLateMissed
  OBVIOUS
<1> USE DEF StreamInv
<1>1. page \in [sent: BOOLEAN, events: SUBSET Committed]
  BY DEF StreamTyped, OnRecord
<1>2. received \in Seq(SUBSET Committed)
  <2>1. Len(received) \in Nat /\ received = [i \in 1..Len(received) |-> received[i]]
    BY DEF StreamTyped
  <2>2. \A i \in 1..Len(received) : received[i] \in SUBSET Committed
    BY DEF OnRecord, StreamTyped
  <2>3. received \in [1..Len(received) -> SUBSET Committed]
    BY <2>1, <2>2
  <2> QED
    BY <2>1, <2>3
<1>3. late \in SUBSET Committed
  BY DEF OnRecord
<1>4. ReplayTypeOK
  BY <1>1, <1>2, <1>3 DEF ReplayTypeOK, StreamTyped, CursorType
<1>5. OnlyLateMissed
  BY DEF OnlyLateMissed, OnlyLatePassed, CursorBetween, Passed
<1> QED
  BY <1>4, <1>5

(* Rows and the cursor are told apart by a total order. *)
LEMMA Ordered ==
  ASSUME StreamTyped
  PROVE  /\ \A e, f \in Events : ~Before(f, e) => e = f \/ Before(e, f)
         /\ \A e, f \in Events : ~Before(e, f) \/ ~Before(f, e)
         /\ \A e, f \in Events : ~After(e) /\ After(f) => Before(e, f)
         /\ \A e, f, g \in Events : Before(e, f) /\ ~Before(g, f) => Before(e, g)
<1>1. \A e \in Events : row[e].createdAt \in Nat /\ e \in Nat
  BY ReplayAssumption DEF StreamTyped, RowType, Stamps
<1>2. cursor.createdAt \in Nat /\ cursor.id \in Nat
  <2>1. cursor.createdAt \in Stamps \cup {0} /\ cursor.id \in Events \cup {0}
    BY DEF StreamTyped, CursorType
  <2>2. Stamps \cup {0} \subseteq Nat /\ Events \cup {0} \subseteq Nat
    BY ReplayAssumption DEF Stamps
  <2> QED
    BY <2>1, <2>2
<1>3. \A e, f \in Events : ~Before(f, e) => e = f \/ Before(e, f)
  BY <1>1 DEF Before
<1>4. \A e, f \in Events : ~Before(e, f) \/ ~Before(f, e)
  BY <1>1 DEF Before
<1>5. ASSUME NEW e \in Events, NEW f \in Events, ~After(e), After(f)
      PROVE  Before(e, f)
  <2> DEFINE a == row[e].createdAt
             b == row[f].createdAt
             k == cursor.createdAt
  <2>1. a \in Nat /\ b \in Nat /\ k \in Nat /\ e \in Nat /\ f \in Nat /\ cursor.id \in Nat
    BY <1>1, <1>2
  <2>2. ~(a > k) /\ ~(a = k /\ e > cursor.id)
    BY <1>5 DEF After
  <2>3. b > k \/ (b = k /\ f > cursor.id)
    BY <1>5 DEF After
  <2> HIDE DEF a, b, k
  <2>4. a < b \/ (a = b /\ e < f)
    BY <2>1, <2>2, <2>3
  <2> QED
    BY <2>4 DEF Before, a, b
<1>6. ASSUME NEW e \in Events, NEW f \in Events, NEW g \in Events,
             Before(e, f), ~Before(g, f)
      PROVE  Before(e, g)
  <2>1. f = g \/ Before(f, g)
    BY <1>3, <1>6
  <2>2. CASE Before(f, g)
    BY <1>1, <1>6, <2>2 DEF Before
  <2> QED
    BY <1>6, <2>1, <2>2
<1> QED
  BY <1>3, <1>4, <1>5, <1>6

LEMMA InitStreamInv == ReplayInit => StreamInv
<1> SUFFICES ASSUME ReplayInit PROVE StreamInv
  OBVIOUS
<1> USE DEF ReplayInit
<1>1. StreamTyped
  <2>1. NoRow \in RowType /\ 1 \in Stamps
    BY ReplayAssumption DEF NoRow, RowType, Stamps
  <2>2. received \in Seq(SUBSET Events)
    OBVIOUS
  <2> QED
    BY <2>1, <2>2 DEF StreamTyped, CursorType, NoCursor, NoAnswer
<1>2. Committed = {} /\ page.events = {} /\ DOMAIN received = {}
  BY DEF Committed, NoRow, NoAnswer
<1> QED
  BY <1>1, <1>2 DEF StreamInv, OnRecord, CursorBetween, OnlyLatePassed,
                    ReplayedInOrder

-----------------------------------------------------------------------------
(* Preservation. *)

(* A step that leaves the partner alone and the stamps of what is          *)
(* committed, and commits nothing that a page has passed unless as late.   *)
LEMMA WritingKeepsInv ==
  ASSUME StreamInv, UNCHANGED partner,
         clock' \in Stamps, row' \in [Events -> RowType], late' \in SUBSET Events,
         \A e \in Committed : row'[e] = row[e],
         late \subseteq late',
         \A e \in Events : row'[e].state = "COMMITTED" =>
           e \in Committed \/ (row'[e].createdAt = row[e].createdAt
                               /\ (Passed(e) => e \in late')),
         \A e \in late' : e \in late \/ row'[e].state = "COMMITTED"
  PROVE  StreamInv'
<1> USE DEF StreamInv
<1>0. cursor' = cursor /\ page' = page /\ received' = received
  BY DEF partner
<1>1. StreamTyped'
  BY <1>0 DEF StreamTyped
<1>2. Committed \subseteq Committed'
  BY DEF Committed
<1>3. \A e \in Committed' : row'[e].createdAt = row[e].createdAt
  BY DEF Committed
<1>4. \A e \in Committed' : After(e)' <=> After(e)
  BY <1>0, <1>3 DEF After
<1>5. \A e, f \in Committed' : Before(e, f)' <=> Before(e, f)
  BY <1>3 DEF Before
<1>6. page.events \subseteq Committed
  BY DEF OnRecord
<1>7. \A i \in DOMAIN received : received[i] \subseteq Committed
  BY DEF OnRecord
<1>8. OnRecord'
  BY <1>0, <1>2 DEF OnRecord, Committed
<1>9. CursorBetween'
  BY <1>0, <1>2, <1>4, <1>6, <1>7 DEF CursorBetween
<1>10. ReplayedInOrder'
  BY <1>0, <1>2, <1>5, <1>7 DEF ReplayedInOrder
<1>11. \A e \in Committed' : Passed(e)' <=> Passed(e)
  BY <1>0, <1>2, <1>4, <1>5, <1>6 DEF Passed
<1>12. OnlyLatePassed'
  <2> SUFFICES ASSUME NEW e \in Committed', Passed(e)
               PROVE  \/ e \in late' \/ e \in page.events
                      \/ \E i \in DOMAIN received : e \in received[i]
    BY <1>0, <1>11 DEF OnlyLatePassed
  <2>1. CASE e \in Committed
    BY <2>1 DEF OnlyLatePassed
  <2>2. CASE e \notin Committed
    BY <2>2 DEF Committed
  <2> QED
    BY <2>1, <2>2
<1> QED
  BY <1>1, <1>8, <1>9, <1>10, <1>12

LEMMA AppendKeepsInv ==
  ASSUME StreamInv, NEW e \in Events, append(e) PROVE StreamInv'
<1> USE DEF StreamInv
<1>1. [state |-> "OPEN", createdAt |-> clock] \in RowType
  BY DEF StreamTyped, RowType
<1>2. row' \in [Events -> RowType] /\ \A f \in Events \ {e} : row'[f] = row[f]
  BY <1>1 DEF append, StreamTyped
<1>3. row'[e].state = "OPEN"
  BY DEF append, StreamTyped
<1>4. e \notin Committed
  BY DEF append, Committed
<1>5. UNCHANGED partner /\ late' = late /\ clock' = clock
  BY DEF append
<1>6. late \subseteq Committed
  BY DEF OnRecord
<1>7. \A f \in Committed : row'[f] = row[f]
  BY <1>2, <1>4 DEF Committed
<1>8. \A f \in Events : row'[f].state = "COMMITTED" => f \in Committed
  BY <1>2, <1>3 DEF Committed
<1> QED
  BY <1>2, <1>5, <1>6, <1>7, <1>8, WritingKeepsInv DEF StreamTyped

(* What changing a state does to the rows. *)
LEMMA StateRewritten ==
  ASSUME StreamTyped, NEW e \in Events,
         NEW s \in {"NONE", "OPEN", "COMMITTED", "ABORTED"},
         row' = [row EXCEPT ![e].state = s]
  PROVE  /\ row' \in [Events -> RowType]
         /\ row'[e].state = s /\ row'[e].createdAt = row[e].createdAt
         /\ \A f \in Events \ {e} : row'[f] = row[f]
<1> DEFINE new == [state |-> s, createdAt |-> row[e].createdAt]
<1>1. row[e] \in RowType
  BY DEF StreamTyped
<1>2. new \in RowType /\ [row[e] EXCEPT !.state = s] = new
  BY <1>1 DEF RowType
<1>3. row' = [row EXCEPT ![e] = new]
  BY <1>2
<1> QED
  BY <1>2, <1>3 DEF StreamTyped

LEMMA CommitKeepsInv ==
  ASSUME StreamInv, NEW e \in Events, commit(e) PROVE StreamInv'
<1> USE DEF StreamInv
<1>1. /\ row' \in [Events -> RowType]
      /\ row'[e].state = "COMMITTED" /\ row'[e].createdAt = row[e].createdAt
      /\ \A f \in Events \ {e} : row'[f] = row[f]
  BY StateRewritten DEF commit
<1>2. UNCHANGED partner /\ clock' = clock
  BY DEF commit
<1>3. late \subseteq late' /\ late' \subseteq late \cup {e} /\ (Passed(e) => e \in late')
  BY DEF commit
<1>4. late' \in SUBSET Events /\ late \subseteq Committed
  BY <1>3 DEF StreamTyped, OnRecord
<1>5. e \notin Committed
  BY DEF commit, Committed
<1>6. \A f \in Committed : row'[f] = row[f]
  BY <1>1, <1>5 DEF Committed
<1>7. \A f \in Events : row'[f].state = "COMMITTED" => f \in Committed \/ f = e
  BY <1>1 DEF Committed
<1>8. \A f \in late' : f \in late \/ row'[f].state = "COMMITTED"
  BY <1>1, <1>3
<1> QED
  BY <1>1, <1>2, <1>3, <1>4, <1>6, <1>7, <1>8, WritingKeepsInv DEF StreamTyped

LEMMA RollbackKeepsInv ==
  ASSUME StreamInv, NEW e \in Events, rollback(e) PROVE StreamInv'
<1> USE DEF StreamInv
<1>1. /\ row' \in [Events -> RowType]
      /\ row'[e].state = "ABORTED"
      /\ \A f \in Events \ {e} : row'[f] = row[f]
  BY StateRewritten DEF rollback
<1>2. UNCHANGED partner /\ clock' = clock /\ late' = late
  BY DEF rollback
<1>3. e \notin Committed /\ late \subseteq Committed
  BY DEF rollback, Committed, OnRecord
<1>4. \A f \in Committed : row'[f] = row[f]
  BY <1>1, <1>3 DEF Committed
<1>5. \A f \in Events : row'[f].state = "COMMITTED" => f \in Committed
  BY <1>1 DEF Committed
<1> QED
  BY <1>1, <1>2, <1>3, <1>4, <1>5, WritingKeepsInv DEF StreamTyped

LEMMA TickKeepsInv == ASSUME StreamInv, tick PROVE StreamInv'
<1>1. clock' \in Stamps
  BY ReplayAssumption DEF StreamInv, StreamTyped, tick, Stamps
<1>2. UNCHANGED partner /\ row' = row /\ late' = late
  BY DEF tick
<1>3. \A f \in Events : row'[f].state = "COMMITTED" => f \in Committed
  BY <1>2 DEF Committed
<1> QED
  BY <1>1, <1>2, <1>3, WritingKeepsInv DEF StreamInv, StreamTyped

-----------------------------------------------------------------------------
(* A page is cut from the front: what is before an event of it is on it. *)
LEMMA PageIsPrefix ==
  ASSUME StreamTyped, NEW e \in Unread, NEW f \in FirstOf(Unread), ~Before(f, e)
  PROVE  e \in FirstOf(Unread)
<1> DEFINE ahead(g) == {h \in Unread : Before(h, g)}
<1>0. Unread \subseteq Events /\ f \in Unread
  BY DEF Unread, Committed, FirstOf
<1>1. IsFiniteSet(Unread)
  BY <1>0, ReplayAssumption, FS_Subset
<1>2. ahead(f) \subseteq Unread
  OBVIOUS
<1>3. IsFiniteSet(ahead(f))
  BY <1>1, <1>2, FS_Subset
<1>4. ahead(e) \subseteq ahead(f)
  BY <1>0, Ordered
<1>5. IsFiniteSet(ahead(e)) /\ Cardinality(ahead(e)) <= Cardinality(ahead(f))
  BY <1>3, <1>4, FS_Subset
<1>6. Cardinality(ahead(e)) \in Nat /\ Cardinality(ahead(f)) \in Nat
  BY <1>3, <1>5, FS_CardinalityType
<1>7. Cardinality(ahead(f)) < Limit
  BY DEF FirstOf
<1>8. Cardinality(ahead(e)) < Limit
  BY <1>5, <1>6, <1>7, ReplayAssumption
<1> QED
  BY <1>8 DEF FirstOf

LEMMA ReplayKeepsInv == ASSUME StreamInv, replay PROVE StreamInv'
<1> USE DEF StreamInv
<1>1. /\ page' = [sent |-> TRUE, events |-> FirstOf(Unread)]
      /\ UNCHANGED <<clock, row, cursor, received, late>>
  BY DEF replay, Answer
<1>2. FirstOf(Unread) \subseteq Unread /\ Unread \subseteq Committed
  BY DEF FirstOf, Unread
<1>3. page.events = {}
  BY DEF replay, OnRecord
<1>4. StreamTyped'
  BY <1>1, <1>2 DEF StreamTyped, Committed
<1>5. Committed' = Committed /\ \A e \in Events : After(e)' <=> After(e)
  BY <1>1 DEF Committed, After
<1>6. OnRecord'
  BY <1>1, <1>2, <1>5 DEF OnRecord
<1>7. CursorBetween'
  <2>1. \A i \in DOMAIN received : \A e \in received[i] : e \in Events /\ ~After(e)
    BY DEF CursorBetween, OnRecord, Committed
  <2>2. \A e \in FirstOf(Unread) : e \in Events /\ After(e)
    BY <1>2 DEF Unread, Committed
  <2> QED
    BY <1>1, <1>5, <2>1, <2>2 DEF CursorBetween
<1>8. ReplayedInOrder'
  BY <1>1 DEF ReplayedInOrder, Before
<1>9. OnlyLatePassed'
  <2> SUFFICES ASSUME NEW e \in Committed, Passed(e)'
               PROVE  \/ e \in late \/ e \in FirstOf(Unread)
                      \/ \E i \in DOMAIN received : e \in received[i]
    BY <1>1, <1>5 DEF OnlyLatePassed
  <2>0. e \in Events
    BY DEF Committed
  <2>1. CASE ~After(e)
    BY <2>1, <1>3 DEF OnlyLatePassed, Passed
  <2>2. CASE After(e)
    <3>1. e \in Unread
      BY <2>2 DEF Unread
    <3>2. PICK f \in FirstOf(Unread) : ~Before(f, e)
      BY <1>1, <1>5, <2>0, <2>2 DEF Passed, Before
    <3> QED
      BY <3>1, <3>2, PageIsPrefix
  <2> QED
    BY <2>1, <2>2
<1> QED
  BY <1>4, <1>6, <1>7, <1>8, <1>9

(* A page without an answer left on its way. *)
LEMMA NoPageKeepsInv ==
  ASSUME StreamInv, page' = NoAnswer, UNCHANGED <<clock, row, cursor, received, late>>
  PROVE  StreamInv'
<1> USE DEF StreamInv
<1>1. page'.events = {} /\ ~page'.sent /\ page' \in [sent: BOOLEAN, events: SUBSET Events]
  BY DEF NoAnswer
<1>2. StreamTyped'
  BY <1>1 DEF StreamTyped
<1>3. Committed' = Committed
  BY DEF Committed
<1>4. \A e : After(e)' <=> After(e)
  BY DEF After
<1>5. OnRecord' /\ CursorBetween'
  BY <1>1, <1>3, <1>4 DEF OnRecord, CursorBetween
<1>6. ReplayedInOrder'
  BY DEF ReplayedInOrder, Before
<1>7. OnlyLatePassed'
  BY <1>1, <1>3, <1>4 DEF OnlyLatePassed, Passed, CursorBetween
<1> QED
  BY <1>2, <1>5, <1>6, <1>7

LEMMA ReceiveKeepsInv == ASSUME StreamInv, receive PROVE StreamInv'
<1> USE DEF StreamInv
<1>1. CASE page.events = {}
  BY <1>1, NoPageKeepsInv DEF receive
<1>2. CASE page.events # {}
  <2>1. PICK last \in page.events :
          /\ \A f \in page.events : ~Before(last, f)
          /\ cursor' = [createdAt |-> row[last].createdAt, id |-> last]
    BY <1>2 DEF receive
  <2>2. /\ received' = Append(received, page.events)
        /\ page'.events = {} /\ ~page'.sent
        /\ page' \in [sent: BOOLEAN, events: SUBSET Events]
        /\ UNCHANGED <<clock, row, late>>
    BY <1>2 DEF receive, NoAnswer
  <2>3. page.events \subseteq Committed /\ Committed \subseteq Events
    BY DEF OnRecord, Committed
  <2>4. Committed' = Committed /\ \A e, f : Before(e, f)' <=> Before(e, f)
    BY <2>2 DEF Committed, Before
  <2>5. \A e \in Events : After(e)' <=> Before(last, e)
    BY <2>1, <2>2, <2>3 DEF After, Before
  <2>6. StreamTyped'
    <3>1. row[last].createdAt \in Stamps \cup {0} /\ last \in Events
      BY <2>3 DEF StreamTyped, RowType
    <3>2. received' \in Seq(SUBSET Events)
      BY <2>2, <2>3 DEF StreamTyped
    <3> QED
      BY <2>1, <2>2, <3>1, <3>2 DEF StreamTyped, CursorType
  <2>7. /\ DOMAIN received' = 1..(Len(received) + 1) /\ DOMAIN received = 1..Len(received)
        /\ Len(received) \in Nat
        /\ \A i \in DOMAIN received : received'[i] = received[i]
        /\ received'[Len(received) + 1] = page.events
    BY <2>2 DEF StreamTyped
  <2>8. OnRecord'
    BY <2>2, <2>3, <2>4, <2>7 DEF OnRecord
  <2>9. \A i \in DOMAIN received : \A e \in received[i] : e \in Events /\ ~After(e)
    BY <2>3 DEF OnRecord, CursorBetween
  <2>10. \A f \in page.events : After(f)
    BY DEF CursorBetween
  <2>11. \A i \in DOMAIN received : \A e \in received[i], f \in page.events : Before(e, f)
    BY <2>3, <2>9, <2>10, Ordered
  <2>12. CursorBetween'
    <3>1. \A i \in DOMAIN received : \A e \in received[i] : ~Before(last, e)
      BY <2>3, <2>9, <2>11, Ordered
    <3> QED
      BY <2>1, <2>2, <2>3, <2>5, <2>7, <2>9, <3>1 DEF CursorBetween
  <2>13. ReplayedInOrder'
    <3> SUFFICES ASSUME NEW i \in DOMAIN received', NEW j \in DOMAIN received', i < j,
                        NEW e \in received'[i], NEW f \in received'[j]
                 PROVE  Before(e, f)
      BY <2>4 DEF ReplayedInOrder
    <3>1. CASE j = Len(received) + 1
      BY <3>1, <2>7, <2>11
    <3>2. CASE j # Len(received) + 1
      BY <3>2, <2>7 DEF ReplayedInOrder
    <3> QED
      BY <3>1, <3>2
  <2>14. OnlyLatePassed'
    <3> SUFFICES ASSUME NEW e \in Committed, Passed(e)'
                 PROVE  \/ e \in late
                        \/ \E i \in DOMAIN received' : e \in received'[i]
      BY <2>2, <2>4 DEF OnlyLatePassed
    <3>1. ~Before(last, e)
      BY <2>2, <2>3, <2>5 DEF Passed
    <3>2. Passed(e)
      BY <3>1 DEF Passed
    <3>3. \/ e \in late \/ e \in page.events
          \/ \E i \in DOMAIN received : e \in received[i]
      BY <3>2 DEF OnlyLatePassed
    <3> QED
      BY <3>3, <2>7
  <2> QED
    BY <2>6, <2>8, <2>12, <2>13, <2>14
<1> QED
  BY <1>1, <1>2

LEMMA StartOverKeepsInv == ASSUME StreamInv, startOver PROVE StreamInv'
<1> USE DEF StreamInv
<1>1. /\ cursor' = [createdAt |-> 0, id |-> 0] /\ received' = << >> /\ late' = {}
      /\ UNCHANGED <<clock, row, page>>
  BY DEF startOver, NoCursor
<1>2. page.events = {}
  BY DEF startOver, OnRecord
<1>3. StreamTyped'
  BY <1>1 DEF StreamTyped, CursorType
<1>4. Committed' = Committed
  BY <1>1 DEF Committed
<1>5. OnRecord' /\ CursorBetween' /\ ReplayedInOrder'
  BY <1>1, <1>2, <1>4 DEF OnRecord, CursorBetween, ReplayedInOrder
<1>6. \A e \in Committed : After(e)'
  <2> TAKE e \in Committed
  <2>1. row[e].createdAt \in Nat /\ e \in Nat \ {0}
    BY ReplayAssumption DEF StreamTyped, RowType, Stamps, Committed
  <2> QED
    BY <1>1, <2>1 DEF After
<1>7. OnlyLatePassed'
  BY <1>1, <1>2, <1>4, <1>6 DEF OnlyLatePassed, Passed
<1> QED
  BY <1>3, <1>5, <1>7

(* Every step of the stream and its partner keeps the invariant. *)
LEMMA StreamStep == ASSUME StreamInv, [ReplayNext]_replayVars PROVE StreamInv'
<1>1. ASSUME NEW e \in Events, append(e) \/ commit(e) \/ rollback(e) PROVE StreamInv'
  BY <1>1, AppendKeepsInv, CommitKeepsInv, RollbackKeepsInv
<1>2. CASE tick
  BY <1>2, TickKeepsInv
<1>3. CASE Partner
  <2>1. ASSUME loseAnswer PROVE StreamInv'
    BY <2>1, NoPageKeepsInv DEF loseAnswer
  <2> QED
    BY <1>3, <2>1, ReplayKeepsInv, ReceiveKeepsInv, StartOverKeepsInv DEF Partner
<1>4. CASE UNCHANGED replayVars
  <2>1. UNCHANGED partner /\ clock' = clock /\ row' = row /\ late' = late
    BY <1>4 DEF replayVars, partner
  <2>2. \A f \in Events : row'[f].state = "COMMITTED" => f \in Committed
    BY <2>1 DEF Committed
  <2> QED
    BY <2>1, <2>2, WritingKeepsInv DEF StreamInv, StreamTyped
<1> QED
  BY <1>1, <1>2, <1>3, <1>4 DEF ReplayNext

-----------------------------------------------------------------------------
LEMMA StreamInvariant == ReplaySpec => []StreamInv
<1>1. ReplayInit => StreamInv
  BY InitStreamInv
<1>2. StreamInv /\ [ReplayNext]_replayVars => StreamInv'
  BY StreamStep
<1> QED
  BY <1>1, <1>2, PTL DEF ReplaySpec

(* No page repeats an event or comes before an older one. *)
THEOREM ReplayIsOrdered == ReplaySpec => []ReplayedInOrder
<1>1. StreamInv => ReplayedInOrder
  BY DEF StreamInv
<1> QED
  BY <1>1, StreamInvariant, PTL

(* A partner that follows the cursor misses nothing but what was committed *)
(* after a page had passed it.                                             *)
THEOREM ReplayMissesOnlyLate == ReplaySpec => []OnlyLateMissed
<1>1. StreamInv => OnlyLateMissed
  BY StreamInvImplies
<1> QED
  BY <1>1, StreamInvariant, PTL

-----------------------------------------------------------------------------
(* Every step is a step of either part, or leaves it alone. *)

LEMMA KeyStepOrStutter == [ExchangeNext]_exchangeVars => [Next]_vars
<1> SUFFICES ASSUME [ExchangeNext]_exchangeVars PROVE [Next]_vars
  OBVIOUS
<1>1. ASSUME NEW c \in Calls, begin(c) \/ takesEffect(c) \/ ends(c) \/ keyed(c)
      PROVE  [Next]_vars
  <2>1. CASE begin(c)
    BY <2>1 DEF begin
  <2>2. CASE takesEffect(c)
    BY <2>2 DEF takesEffect, Next
  <2>3. CASE ends(c)
    BY <2>3 DEF ends, Next
  <2>4. CASE keyed(c)
    BY <2>4 DEF keyed, Next
  <2> QED
    BY <1>1, <2>1, <2>2, <2>3, <2>4
<1>2. CASE others
  BY <1>2 DEF others
<1>3. CASE expire
  BY <1>3 DEF Next
<1>4. CASE UNCHANGED exchangeVars
  BY <1>4 DEF exchangeVars
<1> QED
  BY <1>1, <1>2, <1>3, <1>4 DEF ExchangeNext

LEMMA StreamStepOrStutter == [ExchangeNext]_exchangeVars => [ReplayNext]_replayVars
<1> SUFFICES ASSUME [ExchangeNext]_exchangeVars PROVE [ReplayNext]_replayVars
  OBVIOUS
<1>1. ASSUME NEW c \in Calls, begin(c) \/ takesEffect(c) \/ ends(c) \/ keyed(c)
      PROVE  [ReplayNext]_replayVars
  <2>0. c \in Events
    BY ExchangeAssumption
  <2>1. CASE begin(c)
    BY <2>0, <2>1 DEF begin, ReplayNext
  <2>2. CASE takesEffect(c)
    BY <2>0, <2>2 DEF takesEffect, ReplayNext
  <2>3. CASE ends(c)
    BY <2>0, <2>3 DEF ends, undone, ReplayNext
  <2>4. CASE keyed(c)
    BY <2>4 DEF keyed
  <2> QED
    BY <1>1, <2>1, <2>2, <2>3, <2>4
<1>2. CASE others
  BY <1>2 DEF others, ReplayNext
<1>3. CASE UNCHANGED replayVars
  BY <1>3
<1>4. CASE UNCHANGED exchangeVars
  BY <1>4 DEF exchangeVars
<1> QED
  BY <1>1, <1>2, <1>3, <1>4 DEF ExchangeNext

(* The calls of the exchange behave as the calls of one key do: what holds  *)
(* of FederationIdempotency holds here.                                     *)
THEOREM ExchangeRunsKey == ExchangeSpec => Spec
<1>1. ExchangeInit => Init
  BY DEF ExchangeInit
<1> QED
  BY <1>1, KeyStepOrStutter, PTL DEF ExchangeSpec, Spec

(* The events of the exchange are written and read back as those of any     *)
(* organization: what holds of OutboxReplay holds here.                     *)
THEOREM ExchangeRunsStream == ExchangeSpec => ReplaySpec
<1>1. ExchangeInit => ReplayInit
  BY DEF ExchangeInit
<1> QED
  BY <1>1, StreamStepOrStutter, PTL DEF ExchangeSpec, ReplaySpec

-----------------------------------------------------------------------------
(* The invariant that ties the two. *)

OpenWhileRunning ==
  \A c \in Calls :
    row[c].state = "OPEN" => call[c].step = "run" /\ call[c].body \notin Silent

AnswerHasEffect == \A c \in Calls : call[c].step = "answered" => effects > 0

OneEventEach ==
  IF record.body \in Silent THEN Effective = {} ELSE Cardinality(Effective) = effects

(* Nothing takes effect before the key has its record, and so its request. *)
NewKeyIsUnused == record.status = "NONE" => effects = 0

ExchangeInv ==
  /\ KeyInv /\ StreamInv
  /\ OpenWhileRunning /\ AnswerHasEffect /\ OneEventEach /\ NewKeyIsUnused

LEMMA FiniteCalls == IsFiniteSet(Calls) /\ IsFiniteSet(Effective)
<1>1. IsFiniteSet(Calls)
  BY ExchangeAssumption, ReplayAssumption, FS_Subset
<1>2. Effective \subseteq Calls
  BY DEF Effective
<1> QED
  BY <1>1, <1>2, FS_Subset

LEMMA InitExchangeInv == ExchangeInit => ExchangeInv
<1> SUFFICES ASSUME ExchangeInit PROVE ExchangeInv
  OBVIOUS
<1>1. KeyInv /\ StreamInv
  BY InitKeyInv, InitStreamInv DEF ExchangeInit
<1>2. \A c \in Calls : row[c].state = "NONE"
  BY ExchangeAssumption DEF ExchangeInit, ReplayInit, NoRow
<1>3. OpenWhileRunning
  BY <1>2 DEF OpenWhileRunning
<1>4. AnswerHasEffect
  BY DEF AnswerHasEffect, ExchangeInit, Init, Unsent
<1>5. Effective = {} /\ effects = 0
  BY <1>2 DEF Effective, ExchangeInit, Init
<1>6. OneEventEach /\ NewKeyIsUnused
  BY <1>5, FS_EmptySet DEF OneEventEach, NewKeyIsUnused
<1> QED
  BY <1>1, <1>3, <1>4, <1>6 DEF ExchangeInv

(* What a step of a call leaves alone. *)
LEMMA CallFrame ==
  ASSUME KeyInv, NEW c \in Calls, 
         \/ \E body \in Bodies : create(c, body)
         \/ readRecord(c) \/ claim(c) \/ save(c) \/ saveFails(c) \/ undo(c)
         \/ operate(c) \/ operateBreaks(c) \/ operateFails(c) \/ crash(c)
  PROVE  \A d \in Calls \ {c} : call'[d] = call[d]
<1>1. call \in [Calls -> CallType]
  BY DEF KeyInv, Typed
<1>2. ASSUME NEW body, create(c, body) PROVE \A d \in Calls \ {c} : call'[d] = call[d]
  BY <1>1, <1>2 DEF create
<1>3. ASSUME NEW step, Becomes(c, step) PROVE \A d \in Calls \ {c} : call'[d] = call[d]
  BY <1>1, <1>3 DEF Becomes
<1>4. ASSUME readRecord(c) PROVE \A d \in Calls \ {c} : call'[d] = call[d]
  BY <1>1, <1>3, <1>4 DEF readRecord
<1>5. ASSUME operate(c) PROVE \A d \in Calls \ {c} : call'[d] = call[d]
  BY <1>1, <1>5 DEF operate
<1> QED
  BY <1>2, <1>3, <1>4, <1>5
     DEF claim, save, saveFails, undo, operateBreaks, operateFails, crash

(* Events of no call leave what the calls did as it was. *)
LEMMA RowsOfCallsKept ==
  ASSUME ExchangeInv, UNCHANGED vars, KeyInv', StreamInv',
         \A c \in Calls : row'[c] = row[c]
  PROVE  ExchangeInv'
<1>1. UNCHANGED <<record, call, effects>>
  BY DEF vars
<1>2. Effective' = Effective
  BY DEF Effective
<1> QED
  BY <1>1, <1>2
     DEF ExchangeInv, OpenWhileRunning, AnswerHasEffect, OneEventEach, NewKeyIsUnused

(* A record is made for a request once and for all, before any effect. *)
LEMMA RequestIsKept ==
  ASSUME ExchangeInv, NEW c \in Calls, keyed(c)
  PROVE  /\ effects = 0 \/ record'.body = record.body
         /\ record'.status = "NONE" => record.status = "NONE"
<1>0. record \in RecordType /\ NewKeyIsUnused
  BY DEF ExchangeInv, KeyInv, Typed
<1>1. CASE \E body \in Bodies : create(c, body)
  <2>1. PICK body \in Bodies : create(c, body)
    BY <1>1
  <2>2. CASE record.status = "NONE"
    BY <1>0, <2>2 DEF NewKeyIsUnused
  <2>3. CASE record.status # "NONE"
    BY <2>1, <2>3 DEF create
  <2> QED
    BY <2>2, <2>3
<1>2. CASE readRecord(c)
  BY <1>2 DEF readRecord
<1>3. CASE claim(c)
  BY <1>0, <1>3 DEF claim, RecordType
<1>4. CASE undo(c)
  BY <1>0, <1>4 DEF undo, RecordType
<1>5. CASE save(c) \/ saveFails(c)
  BY <1>0, <1>5 DEF save, saveFails, Completed, RecordType
<1> QED
  BY <1>1, <1>2, <1>3, <1>4, <1>5 DEF keyed

(* As long as nothing took effect there is no event of a call. *)
LEMMA NoEventYet ==
  ASSUME ExchangeInv, effects = 0 PROVE Effective = {}
<1>1. CASE record.body \in Silent
  BY <1>1 DEF ExchangeInv, OneEventEach
<1>2. CASE record.body \notin Silent
  BY <1>2, FiniteCalls, FS_EmptySet DEF ExchangeInv, OneEventEach
<1> QED
  BY <1>1, <1>2

(* A step of a call's record answers it only once it has an effect. *)
LEMMA KeyedKeepsInv ==
  ASSUME ExchangeInv, NEW c \in Calls, keyed(c), KeyInv', StreamInv'
  PROVE  ExchangeInv'
<1>0. KeyInv /\ OpenWhileRunning /\ AnswerHasEffect /\ OneEventEach
  BY DEF ExchangeInv
<1>1. row' = row /\ Effective' = Effective
  BY DEF keyed, replayVars, Effective
<1>2. effects' = effects /\ effects \in Nat
  BY <1>0 DEF keyed, create, readRecord, claim, save, saveFails, undo, KeyInv, Typed
<1>3. \A d \in Calls \ {c} : call'[d] = call[d]
  BY <1>0, CallFrame DEF keyed
<1>4. call[c].step # "run"
  BY DEF keyed, create, readRecord, claim, save, saveFails, undo
<1>5. OpenWhileRunning'
  BY <1>0, <1>1, <1>3, <1>4 DEF OpenWhileRunning
<1>6. OneEventEach' /\ NewKeyIsUnused'
  <2>1. effects = 0 \/ record'.body = record.body
    BY RequestIsKept
  <2>2. CASE effects = 0
    BY <1>1, <1>2, <2>2, NoEventYet, FS_EmptySet DEF OneEventEach, NewKeyIsUnused
  <2>3. CASE record'.body = record.body
    BY <1>0, <1>1, <1>2, <2>3, RequestIsKept
       DEF OneEventEach, NewKeyIsUnused, ExchangeInv
  <2> QED
    BY <2>1, <2>2, <2>3
<1>7. call'[c].step = "answered" => effects > 0
  <2> SUFFICES ASSUME call'[c].step = "answered" PROVE effects > 0
    OBVIOUS
  <2>0. call \in [Calls -> CallType] /\ call[c] \in CallType
    BY <1>0 DEF KeyInv, Typed
  <2>1. ASSUME NEW body \in Bodies, create(c, body) PROVE effects > 0
    <3>1. Sends(c, "run", body) \/ Sends(c, "read", body)
      BY <2>1 DEF create, Sends
    <3> QED
      BY <2>0, <3>1, SendsEffect
  <2>2. ASSUME NEW step \in {"claim", "run", "refused", "undo", "failed"}, Becomes(c, step)
        PROVE  effects > 0
    BY <1>0, <2>2, OnlyStep DEF KeyInv
  <2>3. ASSUME readRecord(c) PROVE effects > 0
    <3>1. CASE record.status = "COMPLETED"
      BY <1>0, <1>2, <3>1 DEF KeyInv, RealResponse
    <3>2. CASE record.status # "COMPLETED"
      BY <2>2, <2>3, <3>2 DEF readRecord
    <3> QED
      BY <3>1, <3>2
  <2>4. ASSUME save(c) PROVE effects > 0
    BY <1>0, <1>2, <2>4 DEF save, KeyInv, RealResponse
  <2> QED
    BY <2>1, <2>2, <2>3, <2>4 DEF keyed, claim, saveFails, undo
<1>8. AnswerHasEffect'
  BY <1>0, <1>2, <1>3, <1>7 DEF AnswerHasEffect
<1> QED
  BY <1>5, <1>6, <1>8 DEF ExchangeInv

(* The operation and its event, if it has one, take effect together. *)
LEMMA EffectKeepsInv ==
  ASSUME ExchangeInv, NEW c \in Calls, takesEffect(c), KeyInv', StreamInv'
  PROVE  ExchangeInv'
<1>0. /\ KeyInv /\ StreamInv /\ OpenWhileRunning /\ AnswerHasEffect
      /\ OneEventEach /\ NewKeyIsUnused
  BY DEF ExchangeInv
<1>1. effects' = effects + 1 /\ effects \in Nat /\ record' = record
  BY <1>0 DEF takesEffect, operate, operateBreaks, KeyInv, Typed
<1>2. \A d \in Calls \ {c} : call'[d] = call[d]
  BY <1>0, CallFrame DEF takesEffect
<1>3. call[c].step = "run"
  BY DEF takesEffect, operate, operateBreaks
<1>4. record.status # "NONE" /\ record.body = call[c].body
  BY <1>0, <1>3 DEF KeyInv, BodyMatches
<1>5. AnswerHasEffect' /\ NewKeyIsUnused'
  BY <1>1, <1>4 DEF AnswerHasEffect, NewKeyIsUnused
<1>6. CASE call[c].body \in Silent
  <2>1. row' = row /\ Effective' = Effective
    BY <1>6 DEF takesEffect, replayVars, Effective
  <2>2. OneEventEach'
    BY <1>0, <1>1, <1>4, <1>6, <2>1 DEF OneEventEach
  <2>3. row[c].state # "OPEN"
    BY <1>0, <1>3, <1>6 DEF OpenWhileRunning
  <2>4. OpenWhileRunning'
    BY <1>0, <1>2, <2>1, <2>3 DEF OpenWhileRunning
  <2> QED
    BY <1>5, <2>2, <2>4 DEF ExchangeInv
<1>7. CASE call[c].body \notin Silent
  <2>1. c \in Events /\ row[c].state = "OPEN"
    BY <1>7, ExchangeAssumption DEF takesEffect, commit
  <2>2. row'[c].state = "COMMITTED" /\ \A e \in Events \ {c} : row'[e] = row[e]
    BY <1>0, <1>7, <2>1, StateRewritten DEF takesEffect, commit, StreamInv
  <2>3. Effective' = Effective \cup {c} /\ c \notin Effective
    BY <2>1, <2>2, ExchangeAssumption DEF Effective
  <2>4. OneEventEach'
    BY <1>0, <1>1, <1>4, <1>7, <2>3, FiniteCalls, FS_AddElement DEF OneEventEach
  <2>5. OpenWhileRunning'
    BY <1>0, <1>2, <2>2, ExchangeAssumption DEF OpenWhileRunning
  <2> QED
    BY <1>5, <2>4, <2>5 DEF ExchangeInv
<1> QED
  BY <1>6, <1>7

(* A call that fails or dies leaves no event behind. *)
LEMMA EndKeepsInv ==
  ASSUME ExchangeInv, NEW c \in Calls, ends(c), KeyInv', StreamInv'
  PROVE  ExchangeInv'
<1>0. KeyInv /\ StreamInv /\ OpenWhileRunning /\ AnswerHasEffect /\ OneEventEach
  BY DEF ExchangeInv
<1>1. effects' = effects /\ record' = record
  BY DEF ends, operateFails, crash
<1>2. \A d \in Calls \ {c} : call'[d] = call[d]
  BY <1>0, CallFrame DEF ends
<1>3. call'[c].step \in {"undo", "crashed"}
  BY <1>0, OnlyStep DEF ends, operateFails, crash, KeyInv
<1>4. c \in Events
  BY ExchangeAssumption
<1>5. /\ row'[c].state # "OPEN"
      /\ row'[c].state = "COMMITTED" <=> row[c].state = "COMMITTED"
      /\ \A e \in Events \ {c} : row'[e] = row[e]
  <2>1. CASE row[c].state = "OPEN"
    BY <1>0, <1>4, <2>1, StateRewritten DEF ends, undone, rollback, StreamInv
  <2>2. CASE row[c].state # "OPEN"
    BY <2>2 DEF ends, undone, replayVars
  <2> QED
    BY <2>1, <2>2
<1>6. Effective' = Effective
  BY <1>5, ExchangeAssumption DEF Effective
<1>7. OpenWhileRunning'
  BY <1>0, <1>2, <1>5, ExchangeAssumption DEF OpenWhileRunning
<1>8. AnswerHasEffect'
  BY <1>0, <1>1, <1>2, <1>3 DEF AnswerHasEffect
<1> QED
  BY <1>0, <1>1, <1>6, <1>7, <1>8 DEF ExchangeInv, OneEventEach, NewKeyIsUnused

(* Every step of the exchange keeps the invariant. *)
LEMMA ExchangeStep == ExchangeInv /\ [ExchangeNext]_exchangeVars => ExchangeInv'
<1> SUFFICES ASSUME ExchangeInv, [ExchangeNext]_exchangeVars PROVE ExchangeInv'
  OBVIOUS
<1>0. KeyInv' /\ StreamInv'
  BY KeyStepOrStutter, StreamStepOrStutter, NextKeyInv, StreamStep DEF ExchangeInv
<1>1. row \in [Events -> RowType]
  BY DEF ExchangeInv, StreamInv, StreamTyped
<1>2. ASSUME NEW c \in Calls, begin(c) PROVE ExchangeInv'
  <2>1. /\ c \in Events /\ call[c].step = "run" /\ call[c].body \notin Silent
        /\ UNCHANGED <<record, call, effects>>
    BY <1>2, ExchangeAssumption DEF begin, vars
  <2>2. row'[c].state = "OPEN" /\ row[c].state = "NONE" /\ \A e \in Events \ {c} : row'[e] = row[e]
    BY <1>1, <1>2, <2>1 DEF begin, append
  <2>3. Effective' = Effective
    BY <2>2, ExchangeAssumption DEF Effective
  <2>4. OpenWhileRunning'
    BY <2>1, <2>2, ExchangeAssumption DEF OpenWhileRunning, ExchangeInv
  <2> QED
    BY <1>0, <2>1, <2>3, <2>4
       DEF ExchangeInv, AnswerHasEffect, OneEventEach, NewKeyIsUnused
<1>3. CASE others
  <2>1. \A c \in Calls : row'[c] = row[c]
    <3>1. ASSUME NEW e \in Events \ Calls, append(e) \/ commit(e) \/ rollback(e)
          PROVE  \A c \in Calls : row'[c] = row[c]
      BY <1>1, <3>1, ExchangeAssumption DEF append, commit, rollback
    <3>2. ASSUME tick \/ Partner PROVE row' = row
      BY <3>2 DEF tick, Partner, replay, receive, loseAnswer, startOver
    <3> QED
      BY <1>3, <3>1, <3>2 DEF others
  <2> QED
    BY <1>0, <1>3, <2>1, RowsOfCallsKept DEF others
<1>4. ASSUME expire, UNCHANGED replayVars PROVE ExchangeInv'
  <2>1. UNCHANGED <<call, effects, row>> /\ Effective' = Effective
    BY <1>4 DEF expire, replayVars, Effective
  <2>2. record'.body = record.body /\ record'.status = record.status
    BY <1>4 DEF expire, ExchangeInv, KeyInv, Typed, RecordType
  <2> QED
    BY <1>0, <2>1, <2>2
       DEF ExchangeInv, OpenWhileRunning, AnswerHasEffect, OneEventEach, NewKeyIsUnused
<1>5. CASE UNCHANGED exchangeVars
  <2>1. UNCHANGED vars /\ row' = row
    BY <1>5 DEF exchangeVars, replayVars
  <2> QED
    BY <1>0, <2>1, RowsOfCallsKept
<1> QED
  BY <1>0, <1>2, <1>3, <1>4, <1>5, KeyedKeepsInv, EffectKeepsInv, EndKeepsInv
     DEF ExchangeNext

LEMMA ExchangeInvariant == ExchangeSpec => []ExchangeInv
BY InitExchangeInv, ExchangeStep, PTL DEF ExchangeSpec

-----------------------------------------------------------------------------
(* Both parts hold their types, and a transaction is open only while its    *)
(* call is running.                                                         *)
THEOREM ExchangeTypeCorrect == ExchangeSpec => []ExchangeTypeOK
<1>1. KeyInv => TypeOK
  BY DEF KeyInv, Typed, RealResponse, TypeOK, RecordType, CallType
<1>2. ExchangeInv => ExchangeTypeOK
  BY <1>1, StreamInvImplies DEF ExchangeInv, ExchangeTypeOK, OpenWhileRunning
<1> QED
  BY <1>2, ExchangeInvariant, PTL

(* Of a request that has an event, the stream has one event per effect, at  *)
(* most one in all, and one as soon as a call has been answered; of any     *)
(* other request it has none.                                               *)
THEOREM StreamIsTold == ExchangeSpec => []StreamTellsEffects
<1>1. ExchangeInv => StreamTellsEffects
  <2> SUFFICES ASSUME ExchangeInv, record.body \notin Silent PROVE StreamTellsEffects
    BY DEF StreamTellsEffects, ExchangeInv, OneEventEach
  <2>1. Cardinality(Effective) = effects /\ effects \in Nat
    BY DEF ExchangeInv, OneEventEach, KeyInv, Typed
  <2>2. ASSUME ~unrecorded, NEW c \in Effective, NEW d \in Effective PROVE c = d
    <3>1. effects <= 1
      BY <2>2 DEF ExchangeInv, KeyInv, FirstEffect
    <3>2. Cardinality(Effective) = 1
      BY <2>1, <2>2, <3>1, FiniteCalls, FS_EmptySet
    <3> QED
      BY <2>2, <3>2, FiniteCalls, FS_Singleton
  <2>3. ASSUME NEW c \in Calls, call[c].step = "answered" PROVE Effective # {}
    BY <2>1, <2>3, FS_EmptySet DEF ExchangeInv, AnswerHasEffect
  <2> QED
    BY <2>1, <2>2, <2>3 DEF StreamTellsEffects
<1> QED
  BY <1>1, ExchangeInvariant, PTL

(* The calls of the exchange never hold the key two at a time. *)
THEOREM ExchangeOneRunner == ExchangeSpec => []OneRunner
BY ExchangeRunsKey, KeyHasOneRunner, PTL

(* The operation takes effect once in the exchange. *)
THEOREM ExchangeEffectOnce == ExchangeSpec => []EffectOnce
BY ExchangeRunsKey, TakesEffectOnce, PTL

(* All calls that the exchange answers get one answer. *)
THEOREM ExchangeAnswersAgree == ExchangeSpec => []AnswersAgree
BY ExchangeRunsKey, CallersAgree, PTL

(* What the exchange's partner sees of its key is the abstract key. *)
THEOREM ExchangeFollowsKey == ExchangeSpec => ImplementsKey
BY ExchangeRunsKey, FollowsKey, PTL

(* The partner of the exchange reads each event once and in order. *)
THEOREM ExchangeIsOrdered == ExchangeSpec => []ReplayedInOrder
BY ExchangeRunsStream, ReplayIsOrdered, PTL

(* The partner of the exchange misses only what was committed late. *)
THEOREM ExchangeMissesOnlyLate == ExchangeSpec => []OnlyLateMissed
BY ExchangeRunsStream, ReplayMissesOnlyLate, PTL
=============================================================================
