----------------------------- MODULE PayrollRun -----------------------------
(***************************************************************************)
(* The payroll runs of one pay period: calculation, approval and release,  *)
(* adjustments, corrections, payments, and the marking of a calculated run *)
(* as stale when one of its inputs changes (apps/api/src/modules/payroll). *)
(*                                                                         *)
(* A handler is one PostgreSQL transaction at READ COMMITTED.  calculate   *)
(* and advance take the run's row with FOR UPDATE before they read it;     *)
(* lock says who holds a row.  advance is one step: everything it reads is *)
(* under that lock.  calculate is two steps, because what it reads (time,  *)
(* leave, salaries) is not locked.  addAdjustment, correct and             *)
(* markPaymentPaid read without a lock and write later, and a change of    *)
(* attendance, leave, time or pay marks the runs it sees before its own    *)
(* writes commit.  What calculate reads beside these, the terms of a pay   *)
(* component or a payroll calendar, is changed without marking any run.    *)
(***************************************************************************)
EXTENDS Integers

CONSTANTS
  Runs,           \* payroll runs that may be created for the period
  Sessions,       \* API requests in flight at the same time
  NoRun,          \* "no run": a session's, or that an original corrects
  NoSession,      \* the row lock of a run is free
  MaxInputs,      \* bound of the model: changes of inputs that mark runs
  MaxTerms,       \* bound of the model: changes of inputs that mark nothing
  MaxAdjustments  \* bound of the model: adjustments of one run

Editable == {"DRAFT", "CALCULATED"}
Active   == {"DRAFT", "CALCULATED", "APPROVED"}
Paying   == {"RELEASED", "LOCKED"}
Statuses == {"NONE", "VOIDED", "CORRECTED"} \cup Active \cup Paying

(* The statuses a caller may ask advance for (payroll.dto.ts). *)
Targets == {"CALCULATED", "APPROVED", "RELEASED", "LOCKED", "VOIDED"}

ASSUME PayrollAssumption ==
  /\ NoRun \notin Runs /\ NoSession \notin Sessions
  /\ MaxInputs \in Nat /\ MaxTerms \in Nat /\ MaxAdjustments \in Nat

VARIABLES
  run,      \* payroll_runs with what their line items were computed from
  inputs,   \* how many changes of inputs that mark runs are committed
  terms,    \* ... and of inputs that mark nothing: components, calendars
  adjusted, \* payroll_adjustments: rows per run
  paid,     \* how often the payment of the run's line was recorded PAID
  lock,     \* which session holds a run's row
  tx,       \* what each open transaction has read
  raced     \* history: runs that two transactions worked on at once

vars == <<run, inputs, terms, adjusted, paid, lock, tx, raced>>

NoFigures == [inputs |-> -1, terms |-> -1, adjusted |-> -1]
Idle == [op |-> "none", run |-> NoRun, seen |-> "NONE",
         figures |-> NoFigures, marks |-> {}]
NewRun == [status |-> "NONE", stale |-> FALSE, corrects |-> NoRun,
           figures |-> NoFigures, payslips |-> FALSE]

Init ==
  /\ run = [r \in Runs |-> NewRun]
  /\ inputs = 0
  /\ terms = 0
  /\ adjusted = [r \in Runs |-> 0]
  /\ paid = [r \in Runs |-> 0]
  /\ lock = [r \in Runs |-> NoSession]
  /\ tx = [s \in Sessions |-> Idle]
  /\ raced = {}

-----------------------------------------------------------------------------
Free(r) == lock[r] = NoSession

(* A FOR UPDATE blocks foreign keys to the row; a plain update does not. *)
KeyFree(r) == \A s \in Sessions : lock[r] = s => tx[s].op = "change"

(* What a transaction works on: an input change concerns every editable run. *)
Touched(t) ==
  IF t.op = "change" THEN {r \in Runs : run[r].status \in Editable} ELSE {t.run}

Open(r) == {s \in Sessions : r \in Touched(tx[s])}

Begin(s, record) ==
  /\ tx[s] = Idle
  /\ tx' = [tx EXCEPT ![s] = record]
  /\ raced' = raced \cup {r \in Runs \cap Touched(record) : Open(r) # {}}

(* Commit or rollback: the session is idle again and its row locks free. *)
End(s) ==
  /\ tx' = [tx EXCEPT ![s] = Idle]
  /\ lock' = [r \in Runs |-> IF lock[r] = s THEN NoSession ELSE lock[r]]

validTransition(current, target) ==
  \/ current = "DRAFT"      /\ target \in {"CALCULATED", "VOIDED"}
  \/ current = "CALCULATED" /\ target \in {"APPROVED", "VOIDED"}
  \/ current = "APPROVED"   /\ target = "RELEASED"
  \/ current = "RELEASED"   /\ target \in {"LOCKED", "CORRECTED"}
  \/ current = "LOCKED"     /\ target = "CORRECTED"

-----------------------------------------------------------------------------
(* Nothing keeps a second original from being created for the period. *)
createRun(r) ==
  /\ run[r].status = "NONE"
  /\ run' = [run EXCEPT ![r].status = "DRAFT"]
  /\ UNCHANGED <<inputs, terms, adjusted, paid, lock, tx, raced>>

(* The guard that lets a run be calculated, read under its row lock. *)
Calculable(r) == \/ run[r].status = "DRAFT"
                 \/ run[r].status = "CALCULATED" /\ run[r].stale

(* What a calculation of r computes its lines from. *)
Reading(r) == [inputs |-> inputs, terms |-> terms, adjusted |-> adjusted[r]]

(* Mutant of calculateRead: the run's row is not locked. *)
calculateUnlocked(s, r) ==
  /\ Calculable(r)
  /\ Begin(s, [Idle EXCEPT !.op = "calculate", !.run = r,
                 !.figures = Reading(r)])
  /\ UNCHANGED <<run, inputs, terms, adjusted, paid, lock>>

(* Mutant of calculateRead: the inputs of before the last change. *)
calculateBehind(s, r) ==
  /\ Free(r) /\ Calculable(r)
  /\ Begin(s, [Idle EXCEPT !.op = "calculate", !.run = r,
                 !.figures = [Reading(r) EXCEPT !.inputs = @ - 1]])
  /\ lock' = [lock EXCEPT ![r] = s]
  /\ UNCHANGED <<run, inputs, terms, adjusted, paid>>

calculateRead(s, r) ==
  /\ Free(r) /\ Calculable(r)
  /\ Begin(s, [Idle EXCEPT !.op = "calculate", !.run = r,
                 !.figures = Reading(r)])
  /\ lock' = [lock EXCEPT ![r] = s]
  /\ UNCHANGED <<run, inputs, terms, adjusted, paid>>

(* Lines and payments are deleted and written again from what was read. *)
calculateWrite(s) ==
  LET r == tx[s].run IN
  /\ tx[s].op = "calculate"
  /\ run' = [run EXCEPT ![r].status = "CALCULATED", ![r].stale = FALSE,
                        ![r].figures = tx[s].figures]
  /\ paid' = [paid EXCEPT ![r] = 0]
  /\ End(s)
  /\ UNCHANGED <<inputs, terms, adjusted, raced>>

(* Mutant of advance: a stale run is let through. *)
advanceStale(r, target) ==
  /\ Free(r)
  /\ validTransition(run[r].status, target)
  /\ run' = [run EXCEPT ![r].status = target]
  /\ UNCHANGED <<inputs, terms, adjusted, paid, lock, tx, raced>>

(* Approve, release, lock or void; releasing issues a payslip per line. *)
advance(r, target) ==
  /\ Free(r)
  /\ validTransition(run[r].status, target)
  /\ ~run[r].stale
  /\ run' = [run EXCEPT ![r].status = target,
                        ![r].payslips = @ \/ /\ target = "RELEASED"
                                             /\ run[r].figures # NoFigures]
  /\ raced' = IF \E s \in Open(r) : tx[s].op = "adjust"
                THEN raced \cup {r} ELSE raced
  /\ UNCHANGED <<inputs, terms, adjusted, paid, lock, tx>>

addAdjustmentRead(s, r) ==
  /\ run[r].status \in Editable
  /\ Begin(s, [Idle EXCEPT !.op = "adjust", !.run = r,
                           !.seen = run[r].status])
  /\ UNCHANGED <<run, inputs, terms, adjusted, paid, lock>>

(* The foreign key of the inserted adjustment waits for a FOR UPDATE of the *)
(* run, and the update of a calculated run for any lock of it.  Neither     *)
(* looks at the status again.                                               *)
addAdjustmentWrite(s) ==
  LET r == tx[s].run IN
  /\ tx[s].op = "adjust"
  /\ KeyFree(r) /\ (tx[s].seen = "CALCULATED" => Free(r))
  /\ adjusted[r] < MaxAdjustments
  /\ adjusted' = [adjusted EXCEPT ![r] = @ + 1]
  /\ run' = [run EXCEPT ![r].stale = @ \/ tx[s].seen = "CALCULATED"]
  /\ End(s)
  /\ UNCHANGED <<inputs, terms, paid, raced>>

correctRead(s, r) ==
  /\ validTransition(run[r].status, "CORRECTED")
  /\ \A q \in Runs : run[q].status \notin Active
  /\ Begin(s, [Idle EXCEPT !.op = "correct", !.run = r,
                           !.seen = run[r].status])
  /\ UNCHANGED <<run, inputs, terms, adjusted, paid, lock>>

(* The unique key over the period and the correction link. *)
Uncorrected(r) == \A q \in Runs : run[q].corrects # r

(* The original is superseded and its replacement q drafted. *)
correctWrite(s, q) ==
  LET r == tx[s].run IN
  /\ tx[s].op = "correct" /\ Free(r)
  /\ run[q].status = "NONE"
  /\ Uncorrected(r)
  /\ run' = [run EXCEPT ![r].status = "CORRECTED",
                        ![q] = [NewRun EXCEPT !.status = "DRAFT",
                                              !.corrects = r]]
  /\ End(s)
  /\ UNCHANGED <<inputs, terms, adjusted, paid, raced>>

(* Mutant of Markable: the change forgets to mark the runs. *)
NothingMarked == {}

(* A transaction that changes attendance, leave, timesheets, advances,      *)
(* salaries, an employee's components, policies or statutory rules calls    *)
(* markPayrollStale, which updates (and so locks) the runs that are         *)
(* CALCULATED and not stale yet ...                                         *)
Markable == {r \in Runs : run[r].status = "CALCULATED" /\ ~run[r].stale}

changeMark(s) ==
  /\ inputs < MaxInputs
  /\ \A r \in Markable : Free(r)
  /\ Begin(s, [Idle EXCEPT !.op = "change", !.marks = Markable])
  /\ lock' = [r \in Runs |-> IF r \in Markable THEN s ELSE lock[r]]
  /\ UNCHANGED <<run, inputs, terms, adjusted, paid>>

(* ... and then commits the change and the marks together. *)
changeCommit(s) ==
  /\ tx[s].op = "change"
  /\ inputs < MaxInputs
  /\ inputs' = inputs + 1
  /\ run' = [r \in Runs |-> IF r \in tx[s].marks
                              THEN [run[r] EXCEPT !.stale = TRUE] ELSE run[r]]
  /\ End(s)
  /\ UNCHANGED <<terms, adjusted, paid, raced>>

(* updateComponent, updateCalendar and other handlers change what calculate *)
(* reads in one statement and mark no run: the calculated ones keep figures *)
(* of the old terms, and nothing says so.                                   *)
updateComponent ==
  /\ terms < MaxTerms
  /\ terms' = terms + 1
  /\ UNCHANGED <<run, inputs, adjusted, paid, lock, tx, raced>>

(* Mutant of markPaymentPaidRead: the existing payment is not looked at. *)
markPaidAgain(s, r) ==
  /\ run[r].status \in Paying /\ run[r].figures # NoFigures
  /\ paid[r] < 2
  /\ Begin(s, [Idle EXCEPT !.op = "pay", !.run = r])
  /\ UNCHANGED <<run, inputs, terms, adjusted, paid, lock>>

markPaymentPaidRead(s, r) ==
  /\ run[r].status \in Paying /\ run[r].figures # NoFigures
  /\ paid[r] = 0
  /\ Begin(s, [Idle EXCEPT !.op = "pay", !.run = r])
  /\ UNCHANGED <<run, inputs, terms, adjusted, paid, lock>>

markPaymentPaidWrite(s) ==
  /\ tx[s].op = "pay"
  /\ paid' = [paid EXCEPT ![tx[s].run] = @ + 1]
  /\ End(s)
  /\ UNCHANGED <<run, inputs, terms, adjusted, raced>>

rollback(s) ==
  /\ tx[s] # Idle
  /\ End(s)
  /\ UNCHANGED <<run, inputs, terms, adjusted, paid, raced>>

Commit(s) ==
  \/ calculateWrite(s) \/ addAdjustmentWrite(s) \/ changeCommit(s)
  \/ markPaymentPaidWrite(s) \/ \E q \in Runs : correctWrite(s, q)

Next ==
  \/ \E r \in Runs : createRun(r) \/ \E target \in Targets : advance(r, target)
  \/ \E s \in Sessions, r \in Runs :
       \/ calculateRead(s, r) \/ addAdjustmentRead(s, r)
       \/ correctRead(s, r) \/ markPaymentPaidRead(s, r)
  \/ \E s \in Sessions : changeMark(s) \/ Commit(s) \/ rollback(s)
  \/ updateComponent

Spec == Init /\ [][Next]_vars

-----------------------------------------------------------------------------
(* Properties. *)

FiguresType == {NoFigures} \cup [inputs: Nat, terms: Nat, adjusted: Nat]

RunType == [status: Statuses, stale: BOOLEAN, corrects: Runs \cup {NoRun},
            figures: FiguresType, payslips: BOOLEAN]

TxType == [op: {"none", "calculate", "adjust", "correct", "change", "pay"},
           run: Runs \cup {NoRun}, seen: Statuses,
           figures: FiguresType, marks: SUBSET Runs]

(* The variables hold what the schema lets the rows hold. *)
TypeOK ==
  /\ run \in [Runs -> RunType]
  /\ inputs \in Nat /\ terms \in Nat
  /\ adjusted \in [Runs -> Nat]
  /\ paid \in [Runs -> Nat]
  /\ lock \in [Runs -> Sessions \cup {NoSession}]
  /\ tx \in [Sessions -> TxType]
  /\ raced \subseteq Runs

(* The runs follow the abstract lifecycle although correct writes a status *)
(* on the strength of an earlier, unlocked reading: figures change only    *)
(* before approval, and superseding a run opens its correction with it.    *)
Lifecycle == INSTANCE PayrollLifecycle WITH
  Figures   <- [inputs: Nat, terms: Nat, adjusted: Nat],
  status    <- [r \in Runs |-> run[r].status],
  figures   <- [r \in Runs |-> run[r].figures],
  corrects  <- [r \in Runs |-> run[r].corrects]

ImplementsLifecycle == Lifecycle!Spec

(* Whoever holds a run's row works on that run, and a transaction that      *)
(* calculates or has marked a run still finds it as it left it.             *)
LocksProtect ==
  /\ \A r \in Runs : ~Free(r) =>
       \/ tx[lock[r]].run = r /\ tx[lock[r]].op = "calculate"
       \/ r \in tx[lock[r]].marks
  /\ \A s \in Sessions :
       /\ tx[s].op = "calculate" =>
            lock[tx[s].run] = s /\ Calculable(tx[s].run)
       /\ \A r \in tx[s].marks : lock[r] = s /\ r \in Markable

Calculated(r) ==
  run[r].status = "CALCULATED" /\ ~run[r].stale /\ run[r].figures # NoFigures

(* A calculated run that does not say it is stale shows the current         *)
(* adjustments and the current state of the inputs whose handlers mark      *)
(* runs, unless such a change or an adjustment was in flight while it was   *)
(* being calculated (raced).  It says nothing of the terms nobody marks     *)
(* runs for: a run may show old ones, and be approved with them.            *)
FiguresCurrent ==
  \A r \in Runs \ raced : Calculated(r) =>
    /\ run[r].figures.inputs = inputs
    /\ run[r].figures.adjusted = adjusted[r]

(* A run that is marked stale can still be calculated again: no approved,  *)
(* released or voided run is stale, unless it was advanced while an        *)
(* adjustment of it was in flight (raced).                                 *)
StaleIsCalculable ==
  \A r \in Runs \ raced : run[r].stale => run[r].status = "CALCULATED"

(* A run is superseded exactly when it has a replacement, and has only one: *)
(* two corrections of a run at the same time do not both succeed.          *)
OneReplacement ==
  \A r \in Runs :
    /\ run[r].status = "CORRECTED" <=> \E q \in Runs : run[q].corrects = r
    /\ \A p, q \in Runs : run[p].corrects = r /\ run[q].corrects = r => p = q

(* Payments and payslips belong to runs that were released, and stay with  *)
(* them when they are locked or corrected: nothing recalculates, voids or  *)
(* deletes a run once it has paid someone.                                 *)
PaidOnlyAfterRelease ==
  \A r \in Runs : paid[r] > 0 \/ run[r].payslips =>
    run[r].status \in Paying \cup {"CORRECTED"}

(* A payment is recorded once, unless two callers recorded it at once. *)
PaidOnce == \A r \in Runs \ raced : paid[r] <= 1

(* prisma/models/payroll.prisma, of PayrollRun.calculationStaleAt: "Set when *)
(* an input changes after a run was calculated."  Here of every input and    *)
(* without regard to what was in flight, once all transactions have ended.   *)
ChangesMarkStale ==
  (\A s \in Sessions : tx[s] = Idle) =>
    \A r \in Runs : Calculated(r) => run[r].figures = Reading(r)
=============================================================================
