---------------------------- MODULE LeaveAccount ----------------------------
(***************************************************************************)
(* What a leave balance promises, independently of the requests, approvals *)
(* and ledger rows behind it: the days an employee is entitled to are at   *)
(* every moment either free, held for a request, or spent.  Days move      *)
(* between those three places; only granting an entitlement changes how    *)
(* many there are.                                                         *)
(***************************************************************************)
EXTENDS Integers

CONSTANT Periods          \* the leave years an employee may hold a balance for

VARIABLES entitled,       \* days granted so far, adjustments included
          held,           \* days reserved by requests
          spent,          \* days used by approved leave
          free            \* days that may still be requested

account == <<entitled, held, spent, free>>

None == [p \in Periods |-> 0]

Init == entitled = None /\ held = None /\ spent = None /\ free = None

(* n free days of period p are held for a request, ... *)
Hold(p) ==
  \E n \in 1..free[p] :
    /\ free' = [free EXCEPT ![p] = @ - n]
    /\ held' = [held EXCEPT ![p] = @ + n]
    /\ UNCHANGED <<entitled, spent>>

(* ... given back, ... *)
Release(p) ==
  \E n \in 1..held[p] :
    /\ held' = [held EXCEPT ![p] = @ - n]
    /\ free' = [free EXCEPT ![p] = @ + n]
    /\ UNCHANGED <<entitled, spent>>

(* ... or spent; *)
Spend(p) ==
  \E n \in 1..held[p] :
    /\ held' = [held EXCEPT ![p] = @ - n]
    /\ spent' = [spent EXCEPT ![p] = @ + n]
    /\ UNCHANGED <<entitled, free>>

(* and spent days become free again when approved leave is cancelled. *)
Return(p) ==
  \E n \in 1..spent[p] :
    /\ spent' = [spent EXCEPT ![p] = @ - n]
    /\ free' = [free EXCEPT ![p] = @ + n]
    /\ UNCHANGED <<entitled, held>>

(* The entitlement changes, and the free days with it by the same amount. *)
Grant(p) ==
  /\ entitled' = [entitled EXCEPT ![p] = @ + free'[p] - free[p]]
  /\ free'[p] >= 0
  /\ free' = [free EXCEPT ![p] = free'[p]]
  /\ UNCHANGED <<held, spent>>

(* The transaction that opens a balance may already hold days of it. *)
OpenAndHold(p) ==
  \E n \in 1..entitled'[p] :
    /\ entitled[p] = 0 /\ free[p] = 0 /\ held[p] = 0
    /\ entitled' = [entitled EXCEPT ![p] = entitled'[p]]
    /\ held' = [held EXCEPT ![p] = n]
    /\ free' = [free EXCEPT ![p] = entitled'[p] - n]
    /\ UNCHANGED spent

Next == \E p \in Periods :
  Hold(p) \/ Release(p) \/ Spend(p) \/ Return(p) \/ Grant(p) \/ OpenAndHold(p)

Spec == Init /\ [][Next]_account

(* No day is lost and none is invented. *)
Balanced == \A p \in Periods : free[p] + held[p] + spent[p] = entitled[p]
=============================================================================
