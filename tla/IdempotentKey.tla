--------------------------- MODULE IdempotentKey ---------------------------
(***************************************************************************)
(* What an idempotency key promises the partner that uses it, whatever     *)
(* becomes of the calls: the request the key was first used for takes      *)
(* effect once, and every call that is answered carried that request and   *)
(* hears of an effect it had.  A success the service lost sight of breaks  *)
(* the first half of the promise, never the second.                        *)
(***************************************************************************)
EXTENDS Naturals

CONSTANTS Calls, Bodies, NoBody

VARIABLES request,   \* the body the key stands for
          sent,      \* the body each call carried
          effects,   \* how often the request took effect
          answer,    \* the effect each call was told of; 0 for none
          lost       \* a success went unrecorded

keyVars == <<request, sent, effects, answer, lost>>

Init ==
  /\ request = NoBody
  /\ sent = [c \in Calls |-> NoBody]
  /\ effects = 0
  /\ answer = [c \in Calls |-> 0]
  /\ lost = FALSE

(* The first call decides what the key stands for. *)
Send(c) ==
  /\ sent[c] = NoBody /\ sent'[c] \in Bodies
  /\ sent' = [sent EXCEPT ![c] = sent'[c]]
  /\ request' = IF request = NoBody THEN sent'[c] ELSE request
  /\ UNCHANGED <<effects, answer, lost>>

(* The request takes effect, for one of the calls that carry it. *)
TakeEffect ==
  /\ effects' = effects + 1
  /\ effects = 0 \/ lost
  /\ request \in Bodies /\ \E c \in Calls : sent[c] = request
  /\ lost' \in {lost, TRUE}
  /\ UNCHANGED <<request, sent, answer>>

LoseSuccess ==
  ~lost /\ lost' /\ effects > 0 /\ UNCHANGED <<request, sent, effects, answer>>

Answer(c) ==
  /\ sent[c] = request /\ request \in Bodies
  /\ answer[c] = 0 /\ answer'[c] \in 1..effects
  /\ answer' = [answer EXCEPT ![c] = answer'[c]]
  /\ UNCHANGED <<request, sent, effects, lost>>

Next == (\E c \in Calls : Send(c) \/ Answer(c)) \/ TakeEffect \/ LoseSuccess

Spec == Init /\ [][Next]_keyVars
=============================================================================
