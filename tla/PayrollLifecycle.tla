-------------------------- MODULE PayrollLifecycle --------------------------
(***************************************************************************)
(* What the payroll runs of a period promise, independently of who         *)
(* calculates, approves or corrects them and when: the figures of a run    *)
(* are settled by calculations and frozen by its approval, and a run that  *)
(* was released leaves only by being superseded, in one step, by a draft   *)
(* that corrects it.                                                       *)
(***************************************************************************)
CONSTANTS Runs, NoRun, Figures, NoFigures

VARIABLES status,      \* of each run; "NONE" before it is opened
          figures,     \* what the run's lines were calculated from
          corrects     \* the run that this one replaces

lifecycle == <<status, figures, corrects>>

Init == /\ status = [r \in Runs |-> "NONE"]
        /\ figures = [r \in Runs |-> NoFigures]
        /\ corrects = [r \in Runs |-> NoRun]

Moves(r, from, to) ==
  /\ status[r] \in from
  /\ status' = [status EXCEPT ![r] = to]

Open(r) == Moves(r, {"NONE"}, "DRAFT") /\ UNCHANGED <<figures, corrects>>

Calculate(r) ==
  /\ Moves(r, {"DRAFT", "CALCULATED"}, "CALCULATED")
  /\ figures'[r] \in Figures
  /\ figures' = [figures EXCEPT ![r] = figures'[r]]
  /\ UNCHANGED corrects

(* Settled without a calculation, approved, released, locked, abandoned. *)
Advance(r) ==
  /\ \/ Moves(r, {"DRAFT"}, "CALCULATED")
     \/ Moves(r, {"CALCULATED"}, "APPROVED")
     \/ Moves(r, {"APPROVED"}, "RELEASED")
     \/ Moves(r, {"RELEASED"}, "LOCKED")
     \/ Moves(r, {"DRAFT", "CALCULATED"}, "VOIDED")
  /\ UNCHANGED <<figures, corrects>>

Correct(r, q) ==
  /\ status[r] \in {"RELEASED", "LOCKED"} /\ status[q] = "NONE"
  /\ status' = [status EXCEPT ![r] = "CORRECTED", ![q] = "DRAFT"]
  /\ corrects' = [corrects EXCEPT ![q] = r]
  /\ UNCHANGED figures

Next == \E r \in Runs :
  Open(r) \/ Calculate(r) \/ Advance(r) \/ \E q \in Runs : Correct(r, q)

Spec == Init /\ [][Next]_lifecycle
=============================================================================
