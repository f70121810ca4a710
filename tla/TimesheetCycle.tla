---------------------------- MODULE TimesheetCycle ----------------------------
(***************************************************************************)
(* The timesheet of one employee for one period, which stands for one work *)
(* day: derived from attendance, completed with manual entries, submitted, *)
(* recalled and decided step by step (apps/api/src/modules/timesheets), and *)
(* what the payroll run of the period makes of its hours.                  *)
(*                                                                         *)
(* A handler is one transaction at READ COMMITTED.  derive updates the     *)
(* sheet, and so locks it, before it reads or writes anything else of it:  *)
(* it is one step.  submit checks the status again under a row lock, the   *)
(* hours before it.  unsubmit, decide and addManualEntry never lock: they  *)
(* act on an earlier reading, and decide on two, since the approvals it    *)
(* includes are a statement of their own.                                  *)
(***************************************************************************)
EXTENDS Integers, FiniteSets

CONSTANTS
  Users,      \* who may decide timesheets, other than the employee
  Sessions,   \* API requests in flight at the same time
  NoUser,     \* an open transaction that decides nothing
  NoSession,  \* what is one step has no open transaction
  NSteps,     \* steps of the timesheet approval policy
  Approvers,  \* whom assertApprover lets decide each step
  DayMinutes, \* MINUTES_PER_DAY
  Attendance  \* minutes the attendance record may say at a derivation

Steps == 1..NSteps

ASSUME TimesheetAssumption ==
  /\ NSteps \in Nat \ {0}
  /\ Approvers \in [Steps -> SUBSET Users]
  /\ DayMinutes \in Nat \ {0}
  /\ Attendance \subseteq Nat
  /\ NoUser \notin Users /\ NoSession \notin Sessions

VARIABLES
  sheet,    \* timesheets: status (NONE: no row yet) and totalMinutes
  entries,  \* timesheet_entries: minutes from attendance and by hand
  approval, \* timesheet_approvals, one row per approver
  payroll,  \* the run of the period until it is approved
  tx,       \* what each open transaction has read
  overtaken,\* history: a transaction wrote on a reading that was out of date
  carried   \* history: submitted with approvals of an earlier submission

vars == <<sheet, entries, approval, payroll, tx, overtaken, carried>>

(* An approval with the hours its approver saw, which the table has not. *)
NoApproval == [step |-> 0, verdict |-> "NONE", hours |-> 0]
NoApprovals == [u \in Users |-> NoApproval]
NoSheet == [status |-> "NONE", total |-> 0]
Reading(op, user, step, minutes) ==
  [op |-> op, user |-> user, step |-> step, minutes |-> minutes, late |-> FALSE]
Idle == Reading("none", NoUser, 0, 0)

Init ==
  /\ sheet = NoSheet
  /\ entries = [attendance |-> 0, manual |-> 0]
  /\ approval = NoApprovals
  /\ payroll = [status |-> "DRAFT", stale |-> FALSE, hours |-> 0]
  /\ tx = [s \in Sessions |-> Idle]
  /\ overtaken = FALSE
  /\ carried = FALSE

-----------------------------------------------------------------------------
Begin(s, record) ==
  /\ tx[s] = Idle
  /\ tx' = [tx EXCEPT ![s] = record]
  /\ UNCHANGED <<sheet, entries, approval, payroll, overtaken, carried>>

(* Every other open transaction has now read a sheet that is out of date. *)
Outdated(s) ==
  [t \in Sessions |-> IF t = s \/ tx[t] = Idle
                        THEN Idle ELSE [tx[t] EXCEPT !.late = TRUE]]

(* The commit of a transaction that does not look again at what it read. *)
Commit(s, op) ==
  /\ tx[s].op = op
  /\ tx' = Outdated(s)
  /\ overtaken' = (overtaken \/ tx[s].late)

(* Mutant of Marked: the run is not marked. *)
NotMarked == payroll

(* markPayrollStale: the run after one of its inputs changed. *)
Marked == IF payroll.status = "CALCULATED"
            THEN [payroll EXCEPT !.stale = TRUE] ELSE payroll

-----------------------------------------------------------------------------
(* Mutant of DerivedTotal: manual entries drop out of the totals. *)
AttendanceTotal(minutes) == minutes

(* Totals are summed over the entries that survive the derivation. *)
DerivedTotal(minutes) == minutes + entries.manual

(* The sheet is rebuilt: attendance entries replaced, manual ones kept,     *)
(* approvals deleted, the status reset whatever it was.                    *)
derive(minutes) ==
  /\ sheet' = [status |-> "DRAFT", total |-> DerivedTotal(minutes)]
  /\ entries' = [entries EXCEPT !.attendance = minutes]
  /\ approval' = NoApprovals
  /\ payroll' = Marked
  /\ overtaken' = FALSE
  /\ carried' = FALSE
  /\ tx' = Outdated(NoSession)

addManualEntryRead(s, minutes) ==
  /\ sheet.status # "APPROVED"
  /\ entries.attendance + entries.manual + minutes <= DayMinutes
  /\ Begin(s, Reading("enter", NoUser, 0, minutes))

(* Mutant of addManualEntryWrite: the sheet stays what it is. *)
addManualEntryKeep(s) ==
  /\ Commit(s, "enter")
  /\ sheet' = [sheet EXCEPT !.total = @ + tx[s].minutes]
  /\ entries' = [entries EXCEPT !.manual = @ + tx[s].minutes]
  /\ UNCHANGED <<approval, payroll, carried>>

(* The entry, and the sheet back in draft; what was approved is kept. *)
addManualEntryWrite(s) ==
  /\ Commit(s, "enter")
  /\ sheet' = [status |-> "DRAFT", total |-> sheet.total + tx[s].minutes]
  /\ entries' = [entries EXCEPT !.manual = @ + tx[s].minutes]
  /\ UNCHANGED <<approval, payroll, carried>>

submitRead(s) ==
  /\ sheet.status = "DRAFT" /\ sheet.total > 0
  /\ Begin(s, Reading("submit", NoUser, 0, 0))

(* The status is read again under the row lock; the hours are not. *)
submitWrite(s) ==
  /\ Commit(s, "submit")
  /\ sheet.status = "DRAFT"
  /\ sheet' = [sheet EXCEPT !.status = "SUBMITTED"]
  /\ carried' = (carried \/ approval # NoApprovals)
  /\ UNCHANGED <<entries, approval, payroll>>

unsubmitRead(s) ==
  /\ sheet.status = "SUBMITTED"
  /\ Begin(s, Reading("unsubmit", NoUser, 0, 0))

unsubmitWrite(s) ==
  /\ Commit(s, "unsubmit")
  /\ sheet' = [sheet EXCEPT !.status = "DRAFT"]
  /\ UNCHANGED <<entries, approval, payroll, carried>>

(* The steps no row of rows stands for, whatever its verdict. *)
Pending(rows) == {n \in Steps : \A u \in Users : rows[u].verdict # "NONE"
                                                   => rows[u].step # n}

First(ns) == CHOOSE n \in ns : \A m \in ns : n <= m

(* Mutant of MayDecide: assertApprover is not called. *)
AnyoneDecides(u) == TRUE

(* assertApprover, when there is a step left to decide. *)
MayDecide(u) == LET pending == Pending(approval) IN
  pending # {} => u \in Approvers[First(pending)]

(* Mutant of pendingStep: the decided steps are counted. *)
pendingStepCounted == Cardinality(Steps \ Pending(approval)) + 1

(* pendingStep?.id: 0 stands for null. *)
pendingStep ==
  IF Pending(approval) = {} THEN 0 ELSE First(Pending(approval))

(* What the approver sees: a sheet that awaits approval, and its hours. *)
decideRead(s, u) ==
  /\ sheet.status = "SUBMITTED"
  /\ Begin(s, Reading("look", u, 0, sheet.total))

(* The included approvals are read after the sheet, and with them the step *)
(* that is pending.                                                        *)
decideApprovals(s) ==
  /\ tx[s].op = "look"
  /\ MayDecide(tx[s].user)
  /\ tx' = [tx EXCEPT ![s].op = "decide", ![s].step = pendingStep]
  /\ UNCHANGED <<sheet, entries, approval, payroll, overtaken, carried>>

(* pendingStep?.stepNumber ?? 1, and the test for a later step. *)
hasMoreSteps(step) == (IF step = 0 THEN 1 ELSE step) < NSteps

(* One row per approver (unique key); the sheet's status is written from   *)
(* what was read.                                                          *)
decideWrite(s, verdict) ==
  LET more == hasMoreSteps(tx[s].step) IN
  /\ Commit(s, "decide")
  /\ approval[tx[s].user] = NoApproval
  /\ approval' = [approval EXCEPT ![tx[s].user] =
       [step |-> tx[s].step, verdict |-> verdict, hours |-> tx[s].minutes]]
  /\ sheet' = [sheet EXCEPT !.status =
       IF verdict = "REJECTED" \/ ~more THEN verdict ELSE "SUBMITTED"]
  /\ payroll' = IF more THEN payroll ELSE Marked
  /\ UNCHANGED <<entries, carried>>

rollback(s) ==
  /\ tx[s] # Idle
  /\ tx' = [tx EXCEPT ![s] = Idle]
  /\ UNCHANGED <<sheet, entries, approval, payroll, overtaken, carried>>

(* What a run pays for: the hours of an approved sheet. *)
ApprovedHours == IF sheet.status = "APPROVED" THEN sheet.total ELSE 0

(* One step here: what overlaps a calculation is the subject of PayrollRun. *)
calculate ==
  /\ payroll.status = "DRAFT" \/ payroll.stale
  /\ sheet.status \in {"NONE", "APPROVED"}
  /\ payroll' = [status |-> "CALCULATED", stale |-> FALSE,
                 hours |-> ApprovedHours]
  /\ UNCHANGED <<sheet, entries, approval, tx, overtaken, carried>>

Next ==
  \/ \E minutes \in Attendance : derive(minutes)
  \/ calculate
  \/ \E s \in Sessions :
       \/ \E minutes \in 1..DayMinutes : addManualEntryRead(s, minutes)
       \/ \E u \in Users : decideRead(s, u)
       \/ submitRead(s) \/ unsubmitRead(s) \/ decideApprovals(s)
       \/ addManualEntryWrite(s) \/ submitWrite(s) \/ unsubmitWrite(s)
       \/ \E verdict \in {"APPROVED", "REJECTED"} : decideWrite(s, verdict)
       \/ rollback(s)

Spec == Init /\ [][Next]_vars

-----------------------------------------------------------------------------
(* Properties. *)

SheetType == [status: {"NONE", "DRAFT", "SUBMITTED", "APPROVED", "REJECTED"},
              total: Nat]

ApprovalType == [step: 0..NSteps, verdict: {"NONE", "APPROVED", "REJECTED"},
                 hours: Nat]

ReadingType == [op: {"none", "enter", "submit", "unsubmit", "look", "decide"},
                user: Users \cup {NoUser}, step: 0..NSteps, minutes: Nat,
                late: BOOLEAN]

(* The variables hold what the schema lets the rows hold; in particular an *)
(* approval names a step of the policy, or none.                           *)
TypeOK ==
  /\ sheet \in SheetType
  /\ entries \in [attendance: Nat, manual: Nat]
  /\ approval \in [Users -> ApprovalType]
  /\ payroll \in [status: {"DRAFT", "CALCULATED"}, stale: BOOLEAN, hours: Nat]
  /\ tx \in [Sessions -> ReadingType]
  /\ overtaken \in BOOLEAN /\ carried \in BOOLEAN

(* The total payroll and the submitter's check read is the sum of the      *)
(* entries, although manual entries increment it and derivations recompute *)
(* it (timesheet-periods.service.ts: totals are summed from the sheet's    *)
(* own entries).                                                           *)
TotalsAgree == sheet.total = entries.attendance + entries.manual

(* Hours do not change under an approval: an approved sheet whose entries  *)
(* change is no longer approved, whatever read it before it was approved.  *)
ApprovedHoursFrozen ==
  [][sheet.status = "APPROVED" /\ sheet'.status = "APPROVED"
       => entries' = entries /\ sheet'.total = sheet.total]_vars

EveryStepApproved ==
  \A n \in Steps : \E u \in Approvers[n] :
    approval[u] = [step |-> n, verdict |-> "APPROVED", hours |-> sheet.total]

(* An approved sheet was approved at every step of its policy, by someone  *)
(* the step names, who saw the hours it has; unless a handler overtook     *)
(* another, or rows of an earlier submission were carried into this one.   *)
ApprovedByPolicy ==
  sheet.status = "APPROVED" /\ ~overtaken /\ ~carried => EveryStepApproved

(* A calculated run that does not say it is stale pays for the hours that  *)
(* are approved now (decide and derive mark it), unless a handler overtook *)
(* another.                                                                *)
PayrollPaysApproved ==
  payroll.status = "CALCULATED" /\ ~payroll.stale /\ ~overtaken
    => payroll.hours = ApprovedHours

(* timesheet-periods.service.ts: "TimesheetApproval holds the current cycle *)
(* rather than a history"; so every step of an approved sheet was approved *)
(* since it was last submitted, where no handler overtook another.         *)
ApprovalsAreCurrent ==
  sheet.status = "APPROVED" /\ ~overtaken => EveryStepApproved
=============================================================================
