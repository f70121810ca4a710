-------------------------- MODULE DeliveryAttempts --------------------------
(***************************************************************************)
(* What webhook delivery promises, independently of jobs, queues and what  *)
(* workers and dispatchers die of: the attempts at a delivery are numbered *)
(* in turn and made one at a time, each calls the partner at most once,    *)
(* an outcome is that of a call, and a delivery that has one is not        *)
(* attempted again until it is opened again.  A failure may be said again  *)
(* after others have gone on; what the delivery says then is nobody's      *)
(* outcome any more, and does not keep it from being attempted.            *)
(***************************************************************************)
EXTENDS Naturals

CONSTANTS Deliveries, Workers, MaxAttempts

VARIABLES
  begun,    \* numbers of the attempts at a delivery
  working,  \* who is making one
  called,   \* calls to the partner per attempt
  told,     \* deliveries the partner has accepted
  outcome   \* "NONE" while it is open, "OVERWRITTEN" by an old failure

attempts == <<begun, working, called, told, outcome>>

Init ==
  /\ begun = [d \in Deliveries |-> {}]
  /\ working = [d \in Deliveries |-> {}]
  /\ called = [d \in Deliveries |-> [n \in 1..MaxAttempts |-> 0]]
  /\ told = {}
  /\ outcome = [d \in Deliveries |-> "NONE"]

Begin(d, w, n) ==
  /\ outcome[d] \in {"NONE", "OVERWRITTEN"} /\ working[d] = {}
  /\ begun[d] = 1..(n - 1)
  /\ begun' = [begun EXCEPT ![d] = 1..n]
  /\ working' = [working EXCEPT ![d] = {w}]
  /\ outcome' = [outcome EXCEPT ![d] = "NONE"]
  /\ UNCHANGED <<called, told>>

(* Attempt n, the latest one, is in progress. *)
Latest(d, n) == working[d] # {} /\ begun[d] = 1..n

Call(d, n) ==
  /\ Latest(d, n) /\ called[d][n] = 0
  /\ called' = [called EXCEPT ![d][n] = 1]
  /\ told' \in {told, told \cup {d}}
  /\ UNCHANGED <<begun, working, outcome>>

(* The worker dies and leaves the delivery as it is, or it records what    *)
(* came of the call, or that it was the last one.                          *)
End(d, result) ==
  /\ working[d] # {}
  /\ result \in {"FAILED", "DELIVERED"} =>
       \E n \in 1..MaxAttempts : Latest(d, n) /\ called[d][n] = 1
  /\ result = "OVERWRITTEN" => outcome[d] = "OVERWRITTEN"
  /\ result = "DELIVERED" => d \in told
  /\ working' = [working EXCEPT ![d] = {}]
  /\ outcome' = [outcome EXCEPT ![d] = result]
  /\ UNCHANGED <<begun, called, told>>

(* An operator asks for a replay, or the address was found to be unsafe. *)
Reopen(d) ==
  /\ outcome[d] # "NONE"
  /\ outcome' = [outcome EXCEPT ![d] = "NONE"]
  /\ UNCHANGED <<begun, working, called, told>>

(* A worker that made a call and failed says so once more. *)
Overwrite(d) ==
  /\ \E n \in begun[d] : called[d][n] = 1
  /\ outcome' = [outcome EXCEPT ![d] = "OVERWRITTEN"]
  /\ UNCHANGED <<begun, working, called, told>>

Next == \E d \in Deliveries :
  \/ \E n \in 1..MaxAttempts : Call(d, n) \/ \E w \in Workers : Begin(d, w, n)
  \/ \E result \in {"NONE", "FAILED", "DELIVERED", "OVERWRITTEN"} : End(d, result)
  \/ Reopen(d) \/ Overwrite(d)

Spec == Init /\ [][Next]_attempts
=============================================================================
