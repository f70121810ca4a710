------------------------ MODULE FederationIdempotency ------------------------
(***************************************************************************)
(* One idempotency key of a federation client: what                        *)
(* federation-idempotency.service.ts does with the calls that carry it,    *)
(* concurrently or one after the other.                                    *)
(*                                                                         *)
(* Every access to the key's record is a transaction of its own, and so is *)
(* the operation: they are the steps here.  Any of them can fail, and the  *)
(* process can die between two of them.                                    *)
(***************************************************************************)
EXTENDS Naturals, FiniteSets

CONSTANTS
  Calls,      \* API calls that carry the key
  Bodies,     \* request fingerprints
  NoBody,
  MaxFaults   \* bound of the model: crashes and failed writes

ASSUME IdempotencyAssumption == NoBody \notin Bodies /\ MaxFaults \in Nat

VARIABLES
  record,     \* federation_idempotency_records, the row of the key
  call,       \* how far each call is
  effects,    \* how often the operation has taken effect
  faults,
  unrecorded  \* history: an effect whose success could not be recorded

vars == <<record, call, effects, faults, unrecorded>>

NoRecord == [status |-> "NONE", body |-> NoBody, response |-> 0, expired |-> FALSE]
Unsent   == [step |-> "unsent", body |-> NoBody, response |-> 0]

Init ==
  /\ record = NoRecord
  /\ call = [c \in Calls |-> Unsent]
  /\ effects = 0
  /\ faults = 0
  /\ unrecorded = FALSE

-----------------------------------------------------------------------------
Becomes(c, step) == call' = [call EXCEPT ![c].step = step]

(* Mutant of create: an upsert that takes the record over. *)
createOrTake(c, body) ==
  /\ call[c].step = "unsent"
  /\ record' = [NoRecord EXCEPT !.status = "IN_PROGRESS", !.body = body]
  /\ call' = [call EXCEPT ![c].step = "run", ![c].body = body]
  /\ UNCHANGED <<effects, faults, unrecorded>>

(* The insert is unique per client, organization and key: the first call   *)
(* goes on to run the operation, every other one looks at the record.      *)
create(c, body) ==
  /\ call[c].step = "unsent"
  /\ IF record.status = "NONE"
       THEN /\ record' = [NoRecord EXCEPT !.status = "IN_PROGRESS", !.body = body]
            /\ call' = [call EXCEPT ![c].step = "run", ![c].body = body]
       ELSE /\ call' = [call EXCEPT ![c].step = "read", ![c].body = body]
            /\ UNCHANGED record
  /\ UNCHANGED <<effects, faults, unrecorded>>

(* Mutant of Usable: the fingerprint is not compared. *)
UsableByAny(c) == ~record.expired

Usable(c) == ~record.expired /\ record.body = call[c].body

(* A completed call is answered again, a failed one may be claimed. *)
readRecord(c) ==
  /\ call[c].step = "read"
  /\ \/ /\ Usable(c) /\ record.status = "COMPLETED"
        /\ call' = [call EXCEPT ![c].step = "answered",
                                ![c].response = record.response]
     \/ Usable(c) /\ record.status = "FAILED" /\ Becomes(c, "claim")
     \/ /\ Usable(c) => record.status = "IN_PROGRESS"
        /\ Becomes(c, "refused")
  /\ UNCHANGED <<record, effects, faults, unrecorded>>

(* Mutant of claim: the update matches whatever the status. *)
claimAny(c) ==
  /\ call[c].step = "claim"
  /\ record' = [record EXCEPT !.status = "IN_PROGRESS"] /\ Becomes(c, "run")
  /\ UNCHANGED <<effects, faults, unrecorded>>

(* The update matches only while the record is still FAILED. *)
claim(c) ==
  /\ call[c].step = "claim"
  /\ IF record.status = "FAILED"
       THEN record' = [record EXCEPT !.status = "IN_PROGRESS"] /\ Becomes(c, "run")
       ELSE Becomes(c, "refused") /\ UNCHANGED record
  /\ UNCHANGED <<effects, faults, unrecorded>>

(* The operation commits and yields its response, ... *)
operate(c) ==
  /\ call[c].step = "run"
  /\ effects' = effects + 1
  /\ call' = [call EXCEPT ![c].step = "save", ![c].response = effects']
  /\ UNCHANGED <<record, faults, unrecorded>>

(* ... or commits and throws all the same, ... *)
operateBreaks(c) ==
  /\ call[c].step = "run"
  /\ faults < MaxFaults
  /\ effects' = effects + 1
  /\ Becomes(c, "undo")
  /\ faults' = faults + 1
  /\ unrecorded' = TRUE
  /\ UNCHANGED record

(* ... or is refused by the domain without effect. *)
operateFails(c) ==
  /\ call[c].step = "run"
  /\ Becomes(c, "undo")
  /\ UNCHANGED <<record, effects, faults, unrecorded>>

(* Mutant of Completed: the response is not stored. *)
CompletedSilently(response) == [record EXCEPT !.status = "COMPLETED"]

Completed(response) ==
  [record EXCEPT !.status = "COMPLETED", !.response = response]

save(c) ==
  /\ call[c].step = "save"
  /\ record' = Completed(call[c].response)
  /\ Becomes(c, "answered")
  /\ UNCHANGED <<effects, faults, unrecorded>>

(* Saving throws, before or after the database has committed it. *)
saveFails(c) ==
  /\ call[c].step = "save"
  /\ faults < MaxFaults
  /\ record' \in {record, Completed(call[c].response)}
  /\ Becomes(c, "undo")
  /\ faults' = faults + 1
  /\ unrecorded' = TRUE
  /\ UNCHANGED effects

(* Mutant of undo: the record is deleted, for the key to be tried again. *)
undoForgets(c) ==
  /\ call[c].step = "undo"
  /\ \/ record' = NoRecord /\ UNCHANGED faults
     \/ faults < MaxFaults /\ faults' = faults + 1 /\ UNCHANGED record
  /\ Becomes(c, "failed")
  /\ UNCHANGED <<effects, unrecorded>>

(* The catch clause, whatever was thrown; its own failure is swallowed. *)
undo(c) ==
  /\ call[c].step = "undo"
  /\ \/ record' = [record EXCEPT !.status = "FAILED"] /\ UNCHANGED faults
     \/ faults < MaxFaults /\ faults' = faults + 1 /\ UNCHANGED record
  /\ Becomes(c, "failed")
  /\ UNCHANGED <<effects, unrecorded>>

crash(c) ==
  /\ call[c].step \in {"read", "claim", "run", "save", "undo"}
  /\ faults < MaxFaults
  /\ Becomes(c, "crashed")
  /\ faults' = faults + 1
  /\ UNCHANGED <<record, effects, unrecorded>>

(* A day passes.  An expired key is never used again. *)
expire ==
  /\ record.status # "NONE" /\ ~record.expired
  /\ record' = [record EXCEPT !.expired = TRUE]
  /\ UNCHANGED <<call, effects, faults, unrecorded>>

Next ==
  \/ \E c \in Calls :
       \/ \E body \in Bodies : create(c, body)
       \/ readRecord(c) \/ claim(c)
       \/ operate(c) \/ operateBreaks(c) \/ operateFails(c)
       \/ save(c) \/ saveFails(c) \/ undo(c) \/ crash(c)
  \/ expire

Spec == Init /\ [][Next]_vars

-----------------------------------------------------------------------------
(* Properties. *)

(* The columns hold their types, and a completed record has the response   *)
(* of an effect.                                                           *)
TypeOK ==
  /\ record \in [status: {"NONE", "IN_PROGRESS", "FAILED", "COMPLETED"},
                 body: Bodies \cup {NoBody}, response: Nat, expired: BOOLEAN]
  /\ call \in [Calls ->
       [step: {"unsent", "read", "claim", "run", "save", "undo",
               "answered", "refused", "failed", "crashed"},
        body: Bodies \cup {NoBody}, response: Nat]]
  /\ effects \in Nat
  /\ record.status = "COMPLETED" => record.response \in 1..effects
  /\ faults \in 0..MaxFaults
  /\ unrecorded \in BOOLEAN

Running(c) == call[c].step \in {"run", "save", "undo"}

(* At most one call at a time holds the key, whichever calls raced to      *)
(* create or to claim it, and it is a call the record was created for.     *)
OneRunner ==
  \A c, d \in Calls :
    Running(c) => /\ Running(d) => c = d
                  /\ record.body = call[c].body
                  /\ record.status = "IN_PROGRESS" \/ unrecorded

(* However many calls carry the key, crashing or not, the operation takes  *)
(* effect once, as long as a success that happened could be recorded.      *)
EffectOnce == ~unrecorded => effects <= 1

(* All calls that are answered get the answer of one and the same effect,  *)
(* and a call with another body than the first is never among them.        *)
AnswersAgree ==
  ~unrecorded =>
    \A c, d \in Calls : call[c].step = "answered" =>
      /\ record.status = "COMPLETED" /\ call[c].response = record.response
      /\ call[d].step = "answered" => call[c].body = call[d].body

-----------------------------------------------------------------------------
(* The key as the partner sees it. *)
Sent == [c \in Calls |-> call[c].body]
Answers ==
  [c \in Calls |-> IF call[c].step = "answered" THEN call[c].response ELSE 0]

Key == INSTANCE IdempotentKey WITH
  request <- record.body, sent <- Sent, answer <- Answers, lost <- unrecorded

(* Every step of the protocol is a step of the key, or none the partner    *)
(* can tell: however its calls race for the record, fail and crash, the    *)
(* request takes effect again only after a success that could not be       *)
(* recorded, and no call is answered but for that request and an effect.   *)
ImplementsKey == Key!Spec
=============================================================================
