--------------------------- MODULE AdvanceRecovery ---------------------------
(***************************************************************************)
(* Salary advances of one employee and their recovery from net pay by      *)
(* payroll runs: payroll-advances.service.ts, and the part of              *)
(* payroll-calculation.service.ts that reads the advances, unwinds what an *)
(* earlier calculation of the run recovered and recovers again.            *)
(*                                                                         *)
(* A calculation locks its run and nothing else: it reads the advances,    *)
(* and updates them later.  It is two steps here.  The unwinding reads the *)
(* advances once more just before it writes them; both are in the second   *)
(* step.                                                                   *)
(***************************************************************************)
EXTENDS Integers, FiniteSets, Functions

CONSTANTS
  NAdvances,   \* advances the employee may request, numbered by requestedAt
  Runs,        \* payroll runs, of different periods
  Amounts,     \* amounts that are requested and approved
  NetPay,      \* net pay a run may leave before advances are recovered
  LastDay,     \* bound of the model: advances are decided on days 1..LastDay
  PeriodEnd,   \* of each run
  Cutoff       \* salary credit date of each run's period, or the period's end

Advances == 1..NAdvances

ASSUME RecoveryAssumption ==
  /\ NAdvances \in Nat
  /\ IsFiniteSet(Runs)
  /\ Amounts \subseteq Nat \ {0}
  /\ NetPay \subseteq Int
  /\ LastDay \in Nat \ {0}
  /\ \A r \in Runs : PeriodEnd[r] \in Nat /\ Cutoff[r] \in Nat

VARIABLES
  today,
  advance,    \* salary_advances
  recovery,   \* salary_advance_recoveries: amount per run and advance
  run,        \* the runs; APPROVED stands for released and locked as well
  net,        \* net pay before recoveries, as the run last computed it
  calc,       \* what each calculation in flight has read
  overlapped, \* history: two calculations have been in flight at once
  unwound     \* history: advances that some recalculation unwound

vars == <<today, advance, recovery, run, net, calc, overlapped, unwound>>

NoAdvance == [status |-> "NONE", requested |-> 0, approved |-> 0,
              recovered |-> 0, approvedOn |-> 0]
NoRecovery == [a \in Advances |-> 0]
NoCalc == [open |-> FALSE, net |-> 0, advances |-> [a \in Advances |-> NoAdvance]]

Init ==
  /\ today = 1
  /\ advance = [a \in Advances |-> NoAdvance]
  /\ recovery = [r \in Runs |-> NoRecovery]
  /\ run = [r \in Runs |-> [status |-> "DRAFT", stale |-> FALSE]]
  /\ net = [r \in Runs |-> 0]
  /\ calc = [r \in Runs |-> NoCalc]
  /\ overlapped = FALSE
  /\ unwound = {}

-----------------------------------------------------------------------------
AtLeast(x, y) == IF x >= y THEN x ELSE y
AtMost(x, y)  == IF x <= y THEN x ELSE y

Recoverable == {"APPROVED", "PARTIALLY_RECOVERED"}

(* The advances a run recovers: open ones, approved by the run's cutoff. *)
Due(r, adv) == {a \in Advances : /\ adv[a].status \in Recoverable
                                 /\ adv[a].approvedOn <= Cutoff[r]}

(* Mutants of allocateAdvanceRecovery: negative net pay is recovered from; *)
(* what was recovered before is forgotten.                                 *)
allocateUnfloored(adv, available) ==
  AtMost(AtLeast(0, adv.approved - adv.recovered), available)

allocateAnew(adv, available) == AtMost(adv.approved, AtLeast(0, available))

allocateAdvanceRecovery(adv, available) ==
  AtMost(AtLeast(0, adv.approved - adv.recovered), AtLeast(0, available))

(* Mutant of Available: every advance sees the whole net pay. *)
AvailableToEach(r, adv, pay) == [k \in Advances |-> pay]

(* The net pay left when it is the turn of advance k; oldest first. *)
Available(r, adv, pay) ==
  LET left[k \in 1..(NAdvances + 1)] ==
        IF k = 1 THEN pay
        ELSE IF k - 1 \in Due(r, adv)
          THEN left[k - 1] - allocateAdvanceRecovery(adv[k - 1], left[k - 1])
          ELSE left[k - 1]
  IN left

(* computePayrollLine: what the run recovers of each advance. *)
Recoveries(r, adv, pay) ==
  [a \in Advances |->
     IF a \in Due(r, adv)
       THEN allocateAdvanceRecovery(adv[a], Available(r, adv, pay)[a]) ELSE 0]

(* The advance without what this run recovered of it before. *)
Unwind(adv, amount) ==
  LET left == AtLeast(0, adv.recovered - amount) IN
  IF amount = 0 THEN adv
  ELSE [adv EXCEPT !.recovered = left,
          !.status = IF left = 0 THEN "APPROVED" ELSE "PARTIALLY_RECOVERED"]

(* Mutant of Recover: the amount replaces what earlier runs recovered. *)
RecoverOnly(read, amount) ==
  [read EXCEPT !.recovered = amount,
     !.status = IF amount >= read.approved
                  THEN "RECOVERED" ELSE "PARTIALLY_RECOVERED"]

(* The advance after the run recovered amount of it, computed from the     *)
(* advance as the calculation READ it.                                     *)
Recover(read, amount) ==
  [read EXCEPT !.recovered = @ + amount,
     !.status = IF read.recovered + amount >= read.approved
                  THEN "RECOVERED" ELSE "PARTIALLY_RECOVERED"]

Staled(rs) == [r \in Runs |->
  IF r \in rs /\ run[r].status = "CALCULATED"
    THEN [run[r] EXCEPT !.stale = TRUE] ELSE run[r]]

-----------------------------------------------------------------------------
requestAdvance(a) ==
  /\ advance[a].status = "NONE"
  /\ a > 1 => advance[a - 1].status # "NONE"
  /\ \E n \in Amounts :
       advance' = [advance EXCEPT ![a].status = "REQUESTED", ![a].requested = n]
  /\ UNCHANGED <<today, recovery, run, net, calc, overlapped, unwound>>

(* decideAdvance holds the advance's row lock throughout. *)
approveAdvance(a) ==
  /\ advance[a].status = "REQUESTED"
  /\ \E n \in {m \in Amounts : m <= advance[a].requested} :
       advance' = [advance EXCEPT ![a].status = "APPROVED", ![a].approved = n,
                                  ![a].approvedOn = today]
  /\ run' = Staled({r \in Runs : PeriodEnd[r] >= today})
  /\ UNCHANGED <<today, recovery, net, calc, overlapped, unwound>>

refuseAdvance(a) ==
  /\ advance[a].status = "REQUESTED"
  /\ advance' = [advance EXCEPT ![a].status = "REJECTED"]
  /\ UNCHANGED <<today, recovery, run, net, calc, overlapped, unwound>>

(* Any other input of the run changes: the calculated run becomes stale. *)
inputChange(r) ==
  /\ run' = Staled({r})
  /\ run' # run
  /\ UNCHANGED <<today, advance, recovery, net, calc, overlapped, unwound>>

calculateRead(r) ==
  /\ ~calc[r].open
  /\ \/ run[r].status = "DRAFT"
     \/ run[r].status = "CALCULATED" /\ run[r].stale
  /\ \E pay \in NetPay :
       calc' = [calc EXCEPT ![r] = [open |-> TRUE, net |-> pay, advances |-> advance]]
  /\ overlapped' = (overlapped \/ \E q \in Runs : calc[q].open)
  /\ UNCHANGED <<today, advance, recovery, run, net, unwound>>

calculateWrite(r) ==
  LET read   == calc[r].advances
      before == recovery[r]
      now    == Recoveries(r, read, calc[r].net)
  IN
  /\ calc[r].open
  /\ recovery' = [recovery EXCEPT ![r] = now]
  /\ advance' = [a \in Advances |->
       IF now[a] > 0
         THEN [advance[a] EXCEPT !.recovered = Recover(read[a], now[a]).recovered,
                                 !.status = Recover(read[a], now[a]).status]
         ELSE Unwind(advance[a], before[a])]
  /\ net' = [net EXCEPT ![r] = calc[r].net]
  /\ run' = [run EXCEPT ![r] = [status |-> "CALCULATED", stale |-> FALSE]]
  /\ calc' = [calc EXCEPT ![r] = NoCalc]
  /\ unwound' = unwound \cup {a \in Advances : before[a] > 0}
  /\ UNCHANGED <<today, overlapped>>

calculateFails(r) ==
  /\ calc[r].open
  /\ calc' = [calc EXCEPT ![r] = NoCalc]
  /\ UNCHANGED <<today, advance, recovery, run, net, overlapped, unwound>>

(* advance of payroll-runs.service.ts: a run is settled without being       *)
(* calculated, approved or voided; none of this touches the advances.      *)
advanceRun(r) ==
  /\ ~calc[r].open
  /\ ~run[r].stale
  /\ \E target \in CASE run[r].status = "DRAFT"      -> {"CALCULATED", "VOIDED"}
                     [] run[r].status = "CALCULATED" -> {"APPROVED", "VOIDED"}
                     [] OTHER                        -> {} :
       run' = [run EXCEPT ![r].status = target]
  /\ UNCHANGED <<today, advance, recovery, net, calc, overlapped, unwound>>

nextDay ==
  /\ today < LastDay
  /\ today' = today + 1
  /\ UNCHANGED <<advance, recovery, run, net, calc, overlapped, unwound>>

Next ==
  \/ \E a \in Advances : requestAdvance(a) \/ approveAdvance(a) \/ refuseAdvance(a)
  \/ \E r \in Runs : \/ calculateRead(r) \/ calculateWrite(r) \/ calculateFails(r)
                     \/ inputChange(r) \/ advanceRun(r)
  \/ nextDay

Spec == Init /\ [][Next]_vars

-----------------------------------------------------------------------------
(* Properties. *)

AdvanceType ==
  [status: {"NONE", "REQUESTED", "APPROVED", "REJECTED",
            "PARTIALLY_RECOVERED", "RECOVERED"},
   requested: Nat, approved: Nat, recovered: Nat, approvedOn: Nat]

(* Money is never negative, and the columns hold their types. *)
TypeOK ==
  /\ today \in 1..LastDay
  /\ advance \in [Advances -> AdvanceType]
  /\ recovery \in [Runs -> [Advances -> Nat]]
  /\ run \in [Runs -> [status: {"DRAFT", "CALCULATED", "APPROVED", "VOIDED"},
                       stale: BOOLEAN]]
  /\ net \in [Runs -> Int]
  /\ calc \in [Runs -> [open: BOOLEAN, net: Int, advances: [Advances -> AdvanceType]]]
  /\ overlapped \in BOOLEAN
  /\ unwound \subseteq Advances

RecoveredBy(a) == SumFunctionOnSet([r \in Runs |-> recovery[r][a]], Runs)

(* An advance's status tells how much of it is recovered, even when two    *)
(* calculations overwrite each other: never more than the advance was.     *)
(* As long as they do not overlap, the rows claim no more than that either,*)
(* however often runs are calculated again.                                *)
NeverOverRecovered ==
  \A a \in Advances :
    LET adv == advance[a] IN
    /\ CASE adv.status = "RECOVERED" -> adv.recovered = adv.approved
         [] adv.status = "PARTIALLY_RECOVERED" ->
              0 < adv.recovered /\ adv.recovered < adv.approved
         [] OTHER -> adv.recovered = 0
    /\ ~overlapped => RecoveredBy(a) <= adv.recovered

(* What a run recovers, of all advances together, is covered by the net    *)
(* pay it was taken from.                                                  *)
RecoveryWithinNetPay ==
  \A r \in Runs :
    SumFunctionOnSet(recovery[r], Advances) <= AtLeast(0, net[r])

(* The recovered amount of an advance that no recalculation has unwound is *)
(* what its recovery rows say.                                             *)
RowsExplainRecovered ==
  ~overlapped => \A a \in Advances \ unwound :
    RecoveredBy(a) = advance[a].recovered

(* docs/backend-gaps.md: advances are "recovered from net pay, capped at   *)
(* what remains, and reversed on recalculation".  Once no calculation is   *)
(* in flight, the rows explain every advance, recalculated or not.         *)
ReversedOnRecalculation ==
  ~overlapped => \A a \in Advances : RecoveredBy(a) = advance[a].recovered
=============================================================================
