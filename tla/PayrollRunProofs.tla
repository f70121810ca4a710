-------------------------- MODULE PayrollRunProofs --------------------------
(* Theorems about the payroll runs of a period, for any number of runs,    *)
(* sessions, input changes and adjustments.                                *)
EXTENDS PayrollRun, TLAPS

-----------------------------------------------------------------------------
(* The inductive invariant. *)

(* Once a run was released it stays in one of these statuses. *)
Settled == Paying \cup {"CORRECTED"}

(* An open transaction works on a run that was created; one that corrects  *)
(* a run or records a payment read it as released, and such runs stay so;  *)
(* one that calculates has figures.                                        *)
WorksOnRun(t) ==
  /\ t.op \in {"calculate", "adjust", "correct", "pay"} =>
       t.run \in Runs /\ run[t.run].status # "NONE"
  /\ t.op \in {"correct", "pay"} => run[t.run].status \in Settled
  /\ t.op = "calculate" => t.figures \in [inputs: Nat, terms: Nat, adjusted: Nat]

WorkInProgress == \A s \in Sessions : WorksOnRun(tx[s])

(* A run that was not created has nothing. *)
Uncreated == \A r \in Runs : run[r].status = "NONE" => run[r] = NewRun

RunInv ==
  /\ TypeOK
  /\ LocksProtect
  /\ WorkInProgress
  /\ Uncreated
  /\ OneReplacement
  /\ PaidOnlyAfterRelease

LEMMA InitRunInv == Init => RunInv
<1> SUFFICES ASSUME Init PROVE RunInv
  OBVIOUS
<1> USE PayrollAssumption DEF Init
<1>1. NewRun \in RunType
  BY DEF NewRun, RunType, FiguresType, NoFigures, Statuses
<1>2. Idle \in TxType
  BY DEF Idle, TxType, FiguresType, NoFigures, Statuses
<1>3. TypeOK
  BY <1>1, <1>2 DEF TypeOK
<1>4. \A r \in Runs : run[r].status = "NONE" /\ run[r].corrects = NoRun /\ run[r] = NewRun /\ ~run[r].payslips
  BY DEF NewRun
<1>5. \A s \in Sessions : tx[s].op = "none" /\ tx[s].marks = {}
  BY DEF Idle
<1>6. LocksProtect
  BY <1>5 DEF LocksProtect, Free
<1>7. WorkInProgress
  BY <1>5 DEF WorkInProgress, WorksOnRun
<1>8. OneReplacement
  BY <1>4 DEF OneReplacement
<1>9. PaidOnlyAfterRelease
  BY <1>4 DEF PaidOnlyAfterRelease
<1> QED
  BY <1>3, <1>4, <1>6, <1>7, <1>8, <1>9 DEF RunInv, Uncreated

-----------------------------------------------------------------------------
(* Transactions and row locks. *)

(* A transaction begins on runs whose rows are free, with what it has read. *)
LEMMA BeginStep ==
  ASSUME RunInv, NEW s \in Sessions, NEW record \in TxType,
         Begin(s, record), UNCHANGED <<run, inputs, terms, adjusted, paid>>,
         lock' \in [Runs -> Sessions \cup {NoSession}],
         \A r \in Runs : lock'[r] = lock[r] \/ Free(r),
         \A r \in Runs : lock'[r] # lock[r] =>
           /\ lock'[r] = s
           /\ \/ record.op = "calculate" /\ record.run = r
              \/ r \in record.marks,
         record.op = "calculate" =>
           record.run \in Runs /\ lock'[record.run] = s /\ Calculable(record.run),
         \A r \in record.marks : lock'[r] = s /\ r \in Markable,
         WorksOnRun(record)
  PROVE  RunInv'
<1> USE PayrollAssumption
<1>1. tx[s] = Idle /\ tx' \in [Sessions -> TxType] /\ tx'[s] = record
      /\ \A t \in Sessions \ {s} : tx'[t] = tx[t]
  BY DEF Begin, RunInv, TypeOK
<1>2. raced' \subseteq Runs
  BY DEF Begin, RunInv, TypeOK
<1>3. TypeOK'
  BY <1>1, <1>2 DEF RunInv, TypeOK
<1>4. tx[s].op = "none" /\ tx[s].marks = {}
  BY <1>1 DEF Idle
<1>5. \A r \in Runs : lock[r] # s
  BY <1>4 DEF RunInv, LocksProtect, Free
<1>6. LocksProtect'
  <2>1. ASSUME NEW r \in Runs, lock'[r] # NoSession
        PROVE  \/ tx'[lock'[r]].run = r /\ tx'[lock'[r]].op = "calculate"
               \/ r \in tx'[lock'[r]].marks
    <3>1. CASE lock'[r] # lock[r]
      BY <3>1, <1>1
    <3>2. CASE lock'[r] = lock[r]
      <4>1. lock[r] \in Sessions \ {s}
        BY <2>1, <3>2, <1>5 DEF RunInv, TypeOK
      <4> QED
        BY <2>1, <3>2, <4>1, <1>1 DEF RunInv, LocksProtect, Free
    <3> QED
      BY <3>1, <3>2
  <2>2. ASSUME NEW t \in Sessions, tx'[t].op = "calculate"
        PROVE  lock'[tx'[t].run] = t /\ Calculable(tx'[t].run)
    <3>1. CASE t = s
      BY <2>2, <3>1, <1>1
    <3>2. CASE t # s
      <4>1. tx'[t] = tx[t]
        BY <3>2, <1>1
      <4>2. tx[t].run \in Runs
        BY <4>1, <2>2 DEF RunInv, WorkInProgress, WorksOnRun
      <4>3. lock[tx[t].run] = t /\ Calculable(tx[t].run)
        BY <4>1, <2>2 DEF RunInv, LocksProtect
      <4>4. lock'[tx[t].run] = lock[tx[t].run]
        BY <4>2, <4>3 DEF Free
      <4> QED
        BY <4>1, <4>3, <4>4
    <3> QED
      BY <3>1, <3>2
  <2>3. ASSUME NEW t \in Sessions, NEW r \in tx'[t].marks
        PROVE  lock'[r] = t /\ r \in Markable
    <3>1. CASE t = s
      BY <2>3, <3>1, <1>1
    <3>2. CASE t # s
      <4>1. r \in tx[t].marks
        BY <3>2, <1>1
      <4>2. lock[r] = t /\ r \in Markable
        BY <4>1 DEF RunInv, LocksProtect
      <4>3. r \in Runs
        BY <4>2 DEF Markable
      <4> QED
        BY <4>2, <4>3 DEF Free
    <3> QED
      BY <3>1, <3>2
  <2> QED
    BY <2>1, <2>2, <2>3 DEF LocksProtect, Free, Calculable, Markable
<1>7. WorkInProgress'
  BY <1>1 DEF RunInv, WorkInProgress, WorksOnRun
<1>8. Uncreated' /\ OneReplacement' /\ PaidOnlyAfterRelease'
  BY DEF RunInv, Uncreated, OneReplacement, PaidOnlyAfterRelease
<1> QED
  BY <1>3, <1>6, <1>7, <1>8 DEF RunInv

(* Runs that settled stay settled, and those of others' locks stay as they *)
(* are: what open transactions of other sessions rely on.                  *)
Respects(s) ==
  /\ \A r \in Runs : run[r].status # "NONE" => run'[r].status # "NONE"
  /\ \A r \in Runs : run[r].status \in Settled => run'[r].status \in Settled
  /\ \A r \in Runs : run'[r] = run[r] \/ Free(r) \/ lock[r] = s

(* A transaction ends: its own rows are free, the others' are protected. *)
LEMMA EndStep ==
  ASSUME RunInv, NEW s \in Sessions, End(s), Respects(s)
  PROVE  /\ tx' \in [Sessions -> TxType]
         /\ lock' \in [Runs -> Sessions \cup {NoSession}]
         /\ LocksProtect' /\ WorkInProgress'
<1> USE PayrollAssumption
<1>1. Idle \in TxType /\ Idle.op = "none" /\ Idle.marks = {}
  BY DEF Idle, TxType, FiguresType, NoFigures, Statuses
<1>2. tx' \in [Sessions -> TxType] /\ tx'[s] = Idle
      /\ \A t \in Sessions \ {s} : tx'[t] = tx[t]
  BY <1>1 DEF End, RunInv, TypeOK
<1>3. lock' \in [Runs -> Sessions \cup {NoSession}]
  BY DEF End, RunInv, TypeOK
<1>4. \A r \in Runs : /\ lock[r] = s => lock'[r] = NoSession
                      /\ lock[r] # s => lock'[r] = lock[r]
  BY DEF End
<1>5. LocksProtect'
  <2>1. ASSUME NEW r \in Runs, lock'[r] # NoSession
        PROVE  \/ tx'[lock'[r]].run = r /\ tx'[lock'[r]].op = "calculate"
               \/ r \in tx'[lock'[r]].marks
    <3>1. lock'[r] = lock[r] /\ lock[r] \in Sessions \ {s}
      BY <2>1, <1>3, <1>4
    <3> QED
      BY <2>1, <3>1, <1>2 DEF RunInv, LocksProtect, Free
  <2>2. ASSUME NEW t \in Sessions, tx'[t].op = "calculate"
        PROVE  lock'[tx'[t].run] = t /\ Calculable(tx[t].run)'
    <3>1. t # s /\ tx'[t] = tx[t]
      BY <2>2, <1>1, <1>2
    <3>2. tx[t].run \in Runs
      BY <3>1, <2>2 DEF RunInv, WorkInProgress, WorksOnRun
    <3>3. lock[tx[t].run] = t /\ Calculable(tx[t].run)
      BY <3>1, <2>2 DEF RunInv, LocksProtect
    <3>4. t # NoSession
      OBVIOUS
    <3>5. run'[tx[t].run] = run[tx[t].run]
      BY <3>1, <3>2, <3>3, <3>4 DEF Respects, Free
    <3> QED
      BY <3>1, <3>2, <3>3, <3>5, <1>4 DEF Calculable
  <2>3. ASSUME NEW t \in Sessions, NEW r \in tx'[t].marks
        PROVE  lock'[r] = t /\ r \in Markable'
    <3>1. t # s /\ r \in tx[t].marks
      BY <2>3, <1>1, <1>2
    <3>2. lock[r] = t /\ r \in Markable
      BY <3>1 DEF RunInv, LocksProtect
    <3>3. r \in Runs /\ t # NoSession
      BY <3>2 DEF Markable
    <3>4. run'[r] = run[r]
      BY <3>1, <3>2, <3>3 DEF Respects, Free
    <3> QED
      BY <3>1, <3>2, <3>3, <3>4, <1>4 DEF Markable
  <2> QED
    BY <2>1, <2>2, <2>3 DEF LocksProtect, Free, Calculable, Markable
<1>6. WorkInProgress'
  <2> SUFFICES ASSUME NEW t \in Sessions PROVE WorksOnRun(tx[t])'
    BY DEF WorkInProgress
  <2>1. CASE t = s
    BY <2>1, <1>1, <1>2 DEF WorksOnRun
  <2>2. CASE t # s
    BY <2>2, <1>2 DEF WorksOnRun, RunInv, WorkInProgress, Respects
  <2> QED
    BY <2>1, <2>2
<1> QED
  BY <1>2, <1>3, <1>5, <1>6

(* The same for a step that is no part of an open transaction. *)
LEMMA AloneStep ==
  ASSUME RunInv, UNCHANGED <<tx, lock>>, Respects(NoSession)
  PROVE  LocksProtect' /\ WorkInProgress'
<1> USE PayrollAssumption
<1>1. \A s \in Sessions, r \in Runs : lock[r] = s => run'[r] = run[r]
  BY DEF Respects, Free
<1>2. LocksProtect'
  <2>1. \A r \in Runs : lock[r] # NoSession =>
          \/ tx[lock[r]].run = r /\ tx[lock[r]].op = "calculate"
          \/ r \in tx[lock[r]].marks
    BY DEF RunInv, LocksProtect, Free
  <2>2. ASSUME NEW s \in Sessions, tx[s].op = "calculate"
        PROVE  lock[tx[s].run] = s /\ Calculable(tx[s].run)'
    <3>1. tx[s].run \in Runs
      BY <2>2 DEF RunInv, WorkInProgress, WorksOnRun
    <3>2. lock[tx[s].run] = s /\ Calculable(tx[s].run)
      BY <2>2 DEF RunInv, LocksProtect
    <3> QED
      BY <3>1, <3>2, <1>1 DEF Calculable
  <2>3. ASSUME NEW s \in Sessions, NEW r \in tx[s].marks
        PROVE  lock[r] = s /\ r \in Markable'
    <3>1. lock[r] = s /\ r \in Markable
      BY DEF RunInv, LocksProtect
    <3> QED
      BY <3>1, <1>1 DEF Markable
  <2> QED
    BY <2>1, <2>2, <2>3 DEF LocksProtect, Free, Calculable, Markable
<1>3. WorkInProgress'
  BY DEF WorkInProgress, WorksOnRun, RunInv, Respects
<1> QED
  BY <1>2, <1>3

(* No transaction holds a run that was not created. *)
LEMMA UncreatedIsFree ==
  ASSUME RunInv, NEW r \in Runs, run[r].status = "NONE"
  PROVE  Free(r)
<1> SUFFICES ASSUME ~Free(r) PROVE FALSE
  OBVIOUS
<1>1. lock[r] \in Sessions
  BY DEF RunInv, TypeOK, Free
<1>2. CASE tx[lock[r]].run = r /\ tx[lock[r]].op = "calculate"
  BY <1>1, <1>2 DEF RunInv, LocksProtect, Calculable
<1>3. CASE r \in tx[lock[r]].marks
  BY <1>1, <1>3 DEF RunInv, LocksProtect, Markable
<1> QED
  BY <1>2, <1>3 DEF RunInv, LocksProtect

(* A change of one run that neither supersedes it nor makes it a           *)
(* replacement.                                                            *)
LEMMA OneRunChanges ==
  ASSUME RunInv, NEW r \in Runs,
         \A q \in Runs \ {r} : run'[q] = run[q],
         run'[r].corrects = run[r].corrects, run'[r].status # "NONE",
         run'[r].status = "CORRECTED" <=> run[r].status = "CORRECTED"
  PROVE  Uncreated' /\ OneReplacement'
<1>1. Uncreated'
  BY DEF RunInv, Uncreated
<1>2. \A q \in Runs : /\ run'[q].corrects = run[q].corrects
                      /\ run'[q].status = "CORRECTED" <=> run[q].status = "CORRECTED"
  OBVIOUS
<1>3. OneReplacement'
  BY <1>2 DEF RunInv, OneReplacement
<1> QED
  BY <1>1, <1>3

-----------------------------------------------------------------------------
(* One lemma per operation. *)

LEMMA CreateRunStep ==
  ASSUME RunInv, NEW r \in Runs, createRun(r)
  PROVE  RunInv'
<1> USE DEF createRun
<1>1. run' \in [Runs -> RunType]
  BY DEF RunInv, TypeOK, RunType, Statuses, Active
<1>2. /\ run'[r].status = "DRAFT" /\ run'[r].corrects = run[r].corrects
      /\ run'[r].payslips = run[r].payslips
      /\ \A q \in Runs \ {r} : run'[q] = run[q]
  BY DEF RunInv, TypeOK, RunType
<1>3. Uncreated' /\ OneReplacement'
  BY <1>2, OneRunChanges
<1>4. Respects(NoSession)
  BY <1>2, UncreatedIsFree DEF Respects, Settled, Paying
<1>5. LocksProtect' /\ WorkInProgress'
  BY <1>4, AloneStep
<1>6. TypeOK'
  BY <1>1 DEF RunInv, TypeOK
<1>7. PaidOnlyAfterRelease'
  BY <1>2 DEF RunInv, PaidOnlyAfterRelease, Paying
<1> QED
  BY <1>3, <1>5, <1>6, <1>7 DEF RunInv

LEMMA AdvanceStep ==
  ASSUME RunInv, NEW r \in Runs, NEW target \in Targets, advance(r, target)
  PROVE  RunInv'
<1> DEFINE slips == run[r].payslips \/ /\ target = "RELEASED"
                                       /\ run[r].figures # NoFigures
<1>1. run' \in [Runs -> RunType]
  <2>1. run' = [run EXCEPT ![r].status = target, ![r].payslips = slips]
    BY DEF advance
  <2>2. slips \in BOOLEAN
    BY DEF RunInv, TypeOK, RunType
  <2>3. target \in Statuses
    BY DEF Targets, Statuses, Active, Paying
  <2> HIDE DEF slips
  <2>4. [run[r] EXCEPT !.status = target, !.payslips = slips] \in RunType
    <3>1. run[r] \in RunType
      BY DEF RunInv, TypeOK
    <3> QED
      BY <2>2, <2>3, <3>1 DEF RunType
  <2>5. run' = [run EXCEPT ![r] = [run[r] EXCEPT !.status = target, !.payslips = slips]]
    BY <2>1
  <2> QED
    BY <2>4, <2>5 DEF RunInv, TypeOK
<1>2. /\ run'[r].status = target /\ run'[r].corrects = run[r].corrects
      /\ \A q \in Runs \ {r} : run'[q] = run[q]
  BY DEF advance, RunInv, TypeOK, RunType
<1>12. run'[r].payslips => run[r].payslips \/ target = "RELEASED"
  BY DEF advance, RunInv, TypeOK, RunType
<1>3. target \notin {"NONE", "CORRECTED", "DRAFT"}
      /\ run[r].status \notin {"NONE", "CORRECTED"}
  BY DEF Targets, advance, validTransition
<1>4. Uncreated' /\ OneReplacement'
  BY <1>2, <1>3, OneRunChanges
<1>5. run[r].status \in Settled \/ target = "RELEASED" => target \in Settled
  BY <1>3 DEF advance, validTransition, Settled, Paying
<1>6. Respects(NoSession)
  BY <1>2, <1>3, <1>5 DEF Respects, advance
<1>7. LocksProtect' /\ WorkInProgress'
  BY <1>6, AloneStep DEF advance
<1>8. raced' \subseteq Runs
  BY DEF advance, RunInv, TypeOK
<1>9. TypeOK'
  BY <1>1, <1>8 DEF advance, RunInv, TypeOK
<1>10. paid' = paid
  BY DEF advance
<1>11. PaidOnlyAfterRelease'
  BY <1>2, <1>5, <1>10, <1>12 DEF RunInv, PaidOnlyAfterRelease, Settled
<1> QED
  BY <1>4, <1>7, <1>9, <1>11 DEF RunInv

LEMMA CalculateReadStep ==
  ASSUME RunInv, NEW s \in Sessions, NEW r \in Runs, calculateRead(s, r)
  PROVE  RunInv'
<1> DEFINE figures == Reading(r)
           record == [op |-> "calculate", run |-> r, seen |-> "NONE",
                      figures |-> figures, marks |-> {}]
<1>1. record \in TxType
  BY DEF Reading, TxType, Statuses, FiguresType, RunInv, TypeOK
<1>2. record = [Idle EXCEPT !.op = "calculate", !.run = r, !.figures = figures]
  <2> SUFFICES ASSUME NEW t, t = [Idle EXCEPT !.op = "calculate", !.run = r,
                                              !.figures = figures]
               PROVE  t = record
    OBVIOUS
  <2> QED
    BY DEF Idle
<1>3. Begin(s, record)
  BY <1>2 DEF calculateRead
<1>4. lock' = [lock EXCEPT ![r] = s] /\ Free(r) /\ Calculable(r)
      /\ UNCHANGED <<run, inputs, terms, adjusted, paid>>
  BY DEF calculateRead
<1>5. lock' \in [Runs -> Sessions \cup {NoSession}] /\ lock'[r] = s
      /\ \A q \in Runs \ {r} : lock'[q] = lock[q]
  BY <1>4 DEF RunInv, TypeOK
<1>6. record.op = "calculate" /\ record.run = r /\ record.marks = {}
  OBVIOUS
<1>7. WorksOnRun(record)
  BY <1>4 DEF Reading, WorksOnRun, Calculable, RunInv, TypeOK
<1> HIDE DEF record
<1> QED
  BY <1>1, <1>3, <1>4, <1>5, <1>6, <1>7, BeginStep

(* Reading without a lock, for an adjustment, a correction or a payment. *)
LEMMA ReadStep ==
  ASSUME RunInv, NEW s \in Sessions, NEW r \in Runs,
         NEW op \in {"adjust", "correct", "pay"}, NEW seen \in Statuses,
         Begin(s, [op |-> op, run |-> r, seen |-> seen,
                   figures |-> NoFigures, marks |-> {}]),
         run[r].status # "NONE", op # "adjust" => run[r].status \in Settled,
         UNCHANGED <<run, inputs, terms, adjusted, paid, lock>>
  PROVE  RunInv'
<1> DEFINE record == [op |-> op, run |-> r, seen |-> seen,
                      figures |-> NoFigures, marks |-> {}]
<1>1. record \in TxType
  BY DEF TxType, FiguresType
<1>2. record.op = op /\ record.run = r /\ record.marks = {}
  OBVIOUS
<1>3. WorksOnRun(record)
  BY DEF WorksOnRun
<1>4. lock' \in [Runs -> Sessions \cup {NoSession}]
  BY DEF RunInv, TypeOK
<1>5. Begin(s, record)
  OBVIOUS
<1> HIDE DEF record
<1> QED
  BY <1>1, <1>2, <1>3, <1>4, <1>5, BeginStep

LEMMA ReadingStep ==
  ASSUME RunInv, NEW s \in Sessions, NEW r \in Runs,
         addAdjustmentRead(s, r) \/ correctRead(s, r) \/ markPaymentPaidRead(s, r)
  PROVE  RunInv'
<1>1. run[r].status \in Statuses /\ "NONE" \in Statuses
  BY DEF RunInv, TypeOK, RunType, Statuses
<1>2. CASE addAdjustmentRead(s, r)
  <2>1. [Idle EXCEPT !.op = "adjust", !.run = r, !.seen = run[r].status]
        = [op |-> "adjust", run |-> r, seen |-> run[r].status,
           figures |-> NoFigures, marks |-> {}]
    <3> SUFFICES ASSUME NEW t, t = [Idle EXCEPT !.op = "adjust", !.run = r, !.seen = run[r].status]
                 PROVE  t = [op |-> "adjust", run |-> r, seen |-> run[r].status,
                             figures |-> NoFigures, marks |-> {}]
      OBVIOUS
    <3> QED
      BY DEF Idle
  <2> QED
    BY <1>1, <1>2, <2>1, ReadStep DEF addAdjustmentRead, Editable
<1>3. CASE correctRead(s, r)
  <2>1. [Idle EXCEPT !.op = "correct", !.run = r, !.seen = run[r].status]
        = [op |-> "correct", run |-> r, seen |-> run[r].status,
           figures |-> NoFigures, marks |-> {}]
    <3> SUFFICES ASSUME NEW t, t = [Idle EXCEPT !.op = "correct", !.run = r, !.seen = run[r].status]
                 PROVE  t = [op |-> "correct", run |-> r, seen |-> run[r].status,
                             figures |-> NoFigures, marks |-> {}]
      OBVIOUS
    <3> QED
      BY DEF Idle
  <2>2. run[r].status \in Settled
    BY <1>3 DEF correctRead, validTransition, Settled, Paying
  <2> QED
    BY <1>1, <1>3, <2>1, <2>2, ReadStep DEF correctRead, validTransition
<1>4. CASE markPaymentPaidRead(s, r)
  <2>1. [Idle EXCEPT !.op = "pay", !.run = r]
        = [op |-> "pay", run |-> r, seen |-> "NONE",
           figures |-> NoFigures, marks |-> {}]
    <3> SUFFICES ASSUME NEW t, t = [Idle EXCEPT !.op = "pay", !.run = r]
                 PROVE  t = [op |-> "pay", run |-> r, seen |-> "NONE",
                             figures |-> NoFigures, marks |-> {}]
      OBVIOUS
    <3> QED
      BY DEF Idle
  <2>2. run[r].status \in Settled
    BY <1>4 DEF markPaymentPaidRead, Settled
  <2> QED
    BY <1>1, <1>4, <2>1, <2>2, ReadStep DEF markPaymentPaidRead, Paying
<1> QED
  BY <1>2, <1>3, <1>4

LEMMA ChangeMarkStep ==
  ASSUME RunInv, NEW s \in Sessions, changeMark(s)
  PROVE  RunInv'
<1> DEFINE record == [op |-> "change", run |-> NoRun, seen |-> "NONE",
                      figures |-> NoFigures, marks |-> Markable]
<1>1. Markable \subseteq Runs
  BY DEF Markable
<1>2. record \in TxType
  BY <1>1 DEF TxType, Statuses, FiguresType
<1>3. record = [Idle EXCEPT !.op = "change", !.marks = Markable]
  <2> SUFFICES ASSUME NEW t, t = [Idle EXCEPT !.op = "change",
                                              !.marks = Markable]
               PROVE  t = record
    OBVIOUS
  <2> QED
    BY DEF Idle
<1>4. Begin(s, record)
  BY <1>3 DEF changeMark
<1>5. \A r \in Runs : /\ r \in Markable => lock'[r] = s /\ Free(r)
                      /\ r \notin Markable => lock'[r] = lock[r]
  BY DEF changeMark
<1>6. lock' \in [Runs -> Sessions \cup {NoSession}]
  BY DEF changeMark, RunInv, TypeOK
<1>7. record.op = "change" /\ record.marks = Markable
  OBVIOUS
<1>8. WorksOnRun(record)
  BY DEF WorksOnRun
<1>9. UNCHANGED <<run, inputs, terms, adjusted, paid>>
  BY DEF changeMark
<1> HIDE DEF record
<1> QED
  BY <1>1, <1>2, <1>4, <1>5, <1>6, <1>7, <1>8, <1>9, BeginStep

LEMMA CalculateWriteStep ==
  ASSUME RunInv, NEW s \in Sessions, calculateWrite(s)
  PROVE  RunInv'
<1> DEFINE r == tx[s].run
<1>1. r \in Runs /\ lock[r] = s /\ Calculable(r) /\ tx[s].figures \in FiguresType
  BY DEF calculateWrite, RunInv, WorkInProgress, WorksOnRun, LocksProtect,
         TypeOK, TxType
<1> HIDE DEF r
<1>2. run' = [run EXCEPT ![r].status = "CALCULATED", ![r].stale = FALSE,
                         ![r].figures = tx[s].figures]
  BY DEF calculateWrite, r
<1>3. run' \in [Runs -> RunType]
  <2>1. "CALCULATED" \in Statuses /\ FALSE \in BOOLEAN
    BY DEF Statuses, Active
  <2> DEFINE new == [run[r] EXCEPT !.status = "CALCULATED", !.stale = FALSE,
                                   !.figures = tx[s].figures]
  <2>2. run[r] \in RunType
    BY <1>1 DEF RunInv, TypeOK
  <2>3. new \in RunType
    BY <1>1, <2>1, <2>2 DEF RunType
  <2> QED
    BY <1>1, <1>2, <2>3 DEF RunInv, TypeOK
<1>4. /\ run'[r].status = "CALCULATED" /\ run'[r].corrects = run[r].corrects
      /\ run'[r].payslips = run[r].payslips
      /\ \A q \in Runs \ {r} : run'[q] = run[q]
  BY <1>1, <1>2 DEF RunInv, TypeOK, RunType
<1>5. run[r].status \in {"DRAFT", "CALCULATED"}
  BY <1>1 DEF Calculable
<1>6. Uncreated' /\ OneReplacement'
  BY <1>1, <1>4, <1>5, OneRunChanges
<1>7. Respects(s)
  BY <1>1, <1>4, <1>5 DEF Respects, Settled, Paying
<1>8. tx' \in [Sessions -> TxType] /\ LocksProtect' /\ WorkInProgress'
      /\ lock' \in [Runs -> Sessions \cup {NoSession}]
  BY <1>7, EndStep DEF calculateWrite
<1>9. paid' = [paid EXCEPT ![r] = 0] /\ UNCHANGED <<inputs, terms, adjusted, raced>>
  BY DEF calculateWrite, r
<1>10. TypeOK'
  BY <1>3, <1>8, <1>9 DEF RunInv, TypeOK
<1>11. PaidOnlyAfterRelease'
  BY <1>1, <1>4, <1>5, <1>9 DEF RunInv, TypeOK, PaidOnlyAfterRelease, Paying
<1> QED
  BY <1>6, <1>8, <1>10, <1>11 DEF RunInv

LEMMA AddAdjustmentWriteStep ==
  ASSUME RunInv, NEW s \in Sessions, addAdjustmentWrite(s)
  PROVE  RunInv'
<1> DEFINE r == tx[s].run
           stale == run[r].stale \/ tx[s].seen = "CALCULATED"
<1>1. r \in Runs
  BY DEF addAdjustmentWrite, RunInv, WorkInProgress, WorksOnRun
<1>2. stale \in BOOLEAN /\ (stale = run[r].stale \/ Free(r))
  BY <1>1 DEF addAdjustmentWrite, RunInv, TypeOK, RunType
<1>3. /\ run' = [run EXCEPT ![r].stale = stale]
      /\ adjusted' = [adjusted EXCEPT ![r] = @ + 1]
      /\ UNCHANGED <<inputs, terms, paid, raced>> /\ End(s)
  BY DEF addAdjustmentWrite
<1> HIDE DEF r, stale
<1>4. run' \in [Runs -> RunType]
  BY <1>1, <1>2, <1>3 DEF RunInv, TypeOK, RunType
<1>5. /\ run'[r].status = run[r].status /\ run'[r].corrects = run[r].corrects
      /\ run'[r].payslips = run[r].payslips
      /\ \A q \in Runs \ {r} : run'[q] = run[q]
  BY <1>1, <1>3 DEF RunInv, TypeOK, RunType
<1>6. stale = run[r].stale => run'[r] = run[r]
  <2>1. run[r] \in RunType /\ run'[r] = [run[r] EXCEPT !.stale = stale]
    BY <1>1, <1>3 DEF RunInv, TypeOK
  <2> QED
    BY <2>1 DEF RunType
<1>7. run[r].status # "NONE"
  BY DEF addAdjustmentWrite, RunInv, WorkInProgress, WorksOnRun, r
<1>8. Uncreated' /\ OneReplacement'
  BY <1>1, <1>5, <1>7, OneRunChanges
<1>9. Respects(s)
  BY <1>1, <1>2, <1>5, <1>6 DEF Respects
<1>10. tx' \in [Sessions -> TxType] /\ LocksProtect' /\ WorkInProgress'
      /\ lock' \in [Runs -> Sessions \cup {NoSession}]
  BY <1>3, <1>9, EndStep
<1>11. TypeOK'
  BY <1>1, <1>3, <1>4, <1>10 DEF RunInv, TypeOK
<1>12. PaidOnlyAfterRelease'
  BY <1>1, <1>3, <1>5 DEF RunInv, PaidOnlyAfterRelease
<1> QED
  BY <1>8, <1>10, <1>11, <1>12 DEF RunInv

LEMMA ChangeCommitStep ==
  ASSUME RunInv, NEW s \in Sessions, changeCommit(s)
  PROVE  RunInv'
<1>1. \A r \in tx[s].marks : r \in Runs /\ lock[r] = s /\ r \in Markable
  BY DEF RunInv, LocksProtect, Markable
<1>2. /\ \A r \in Runs : run'[r] = IF r \in tx[s].marks
                                     THEN [run[r] EXCEPT !.stale = TRUE] ELSE run[r]
      /\ inputs' = inputs + 1 /\ UNCHANGED <<terms, adjusted, paid, raced>> /\ End(s)
  BY DEF changeCommit
<1>3. ASSUME NEW r \in Runs
      PROVE  /\ [run[r] EXCEPT !.stale = TRUE] \in RunType
             /\ run'[r].status = run[r].status
             /\ run'[r].corrects = run[r].corrects
             /\ run'[r].payslips = run[r].payslips
  BY <1>2 DEF RunInv, TypeOK, RunType
<1>4. run' \in [Runs -> RunType]
  BY <1>3 DEF changeCommit, RunInv, TypeOK
<1>5. Uncreated'
  BY <1>1, <1>2, <1>3 DEF RunInv, Uncreated, Markable
<1>6. OneReplacement'
  <2>1. \A r \in Runs : /\ run'[r].status = run[r].status
                        /\ run'[r].corrects = run[r].corrects
    BY <1>3
  <2> QED
    BY <2>1 DEF RunInv, OneReplacement
<1>7. Respects(s)
  BY <1>1, <1>2, <1>3 DEF Respects
<1>8. tx' \in [Sessions -> TxType] /\ LocksProtect' /\ WorkInProgress'
      /\ lock' \in [Runs -> Sessions \cup {NoSession}]
  BY <1>2, <1>7, EndStep
<1>9. TypeOK'
  BY <1>2, <1>4, <1>8 DEF RunInv, TypeOK
<1>10. PaidOnlyAfterRelease'
  BY <1>2, <1>3 DEF RunInv, PaidOnlyAfterRelease
<1> QED
  BY <1>5, <1>6, <1>8, <1>9, <1>10 DEF RunInv

(* Payments, and transactions that end without effect. *)
LEMMA OnlyPaid ==
  ASSUME RunInv, NEW s \in Sessions, End(s),
         UNCHANGED <<run, inputs, terms, adjusted, raced>>,
         paid' \in [Runs -> Nat],
         \A r \in Runs : paid'[r] > 0 =>
           paid[r] > 0 \/ run[r].status \in Settled
  PROVE  RunInv'
<1>1. Respects(s)
  BY DEF Respects
<1>2. tx' \in [Sessions -> TxType] /\ LocksProtect' /\ WorkInProgress'
      /\ lock' \in [Runs -> Sessions \cup {NoSession}]
  BY <1>1, EndStep
<1>3. TypeOK'
  BY <1>2 DEF RunInv, TypeOK
<1>4. Uncreated' /\ OneReplacement'
  BY DEF RunInv, Uncreated, OneReplacement
<1>5. PaidOnlyAfterRelease'
  BY DEF RunInv, PaidOnlyAfterRelease, Settled
<1> QED
  BY <1>2, <1>3, <1>4, <1>5 DEF RunInv

LEMMA PaymentStep ==
  ASSUME RunInv, NEW s \in Sessions, markPaymentPaidWrite(s) \/ rollback(s)
  PROVE  RunInv'
<1>1. CASE markPaymentPaidWrite(s)
  <2> DEFINE r == tx[s].run
  <2>1. r \in Runs /\ run[r].status \in Settled
    BY <1>1 DEF markPaymentPaidWrite, RunInv, WorkInProgress, WorksOnRun
  <2>2. paid' = [paid EXCEPT ![r] = @ + 1]
    BY <1>1 DEF markPaymentPaidWrite
  <2> HIDE DEF r
  <2>3. paid' \in [Runs -> Nat] /\ \A q \in Runs \ {r} : paid'[q] = paid[q]
    BY <2>1, <2>2 DEF RunInv, TypeOK
  <2> QED
    BY <1>1, <2>1, <2>3, OnlyPaid DEF markPaymentPaidWrite
<1>2. CASE rollback(s)
  BY <1>2, OnlyPaid DEF rollback, RunInv, TypeOK
<1> QED
  BY <1>1, <1>2

(* The unique key is what keeps a superseded run from being superseded     *)
(* again, since the status was read without a lock.                        *)
LEMMA CorrectWriteStep ==
  ASSUME RunInv, NEW s \in Sessions, NEW q \in Runs, correctWrite(s, q)
  PROVE  RunInv'
<1> DEFINE r == tx[s].run
           draft == [NewRun EXCEPT !.status = "DRAFT", !.corrects = r]
<1>1. /\ r \in Runs /\ run[r].status \in Settled /\ Free(r)
      /\ run[q].status = "NONE" /\ Uncorrected(r) /\ End(s)
      /\ UNCHANGED <<inputs, terms, adjusted, paid, raced>>
  BY DEF correctWrite, RunInv, WorkInProgress, WorksOnRun
<1>2. run[r].status # "CORRECTED" /\ r # q
  BY <1>1 DEF Uncorrected, RunInv, OneReplacement, Settled, Paying
<1>3. run' = [run EXCEPT ![r].status = "CORRECTED", ![q] = draft]
  BY DEF correctWrite
<1> HIDE DEF r
<1>4. draft \in RunType /\ draft.status = "DRAFT" /\ draft.corrects = r
      /\ ~draft.payslips
  BY <1>1 DEF NewRun, RunType, Statuses, Active, FiguresType, NoFigures
<1> HIDE DEF draft
<1>5. /\ run'[r].status = "CORRECTED" /\ run'[r].corrects = run[r].corrects
      /\ run'[r].payslips = run[r].payslips /\ run'[q] = draft
      /\ \A p \in Runs \ {r, q} : run'[p] = run[p]
  BY <1>1, <1>2, <1>3, <1>4 DEF RunInv, TypeOK, RunType
<1>6. run' \in [Runs -> RunType]
  BY <1>1, <1>3, <1>4 DEF RunInv, TypeOK, RunType, Statuses
<1>7. Uncreated'
  BY <1>4, <1>5 DEF RunInv, Uncreated
<1>8. run[q].corrects = NoRun /\ ~run[q].payslips
  BY <1>1 DEF RunInv, Uncreated, NewRun
<1>9. OneReplacement'
  BY <1>1, <1>2, <1>4, <1>5, <1>8, PayrollAssumption
     DEF RunInv, OneReplacement, Uncorrected
<1>10. Respects(s)
  BY <1>1, <1>4, <1>5, UncreatedIsFree DEF Respects, Settled, Paying
<1>11. tx' \in [Sessions -> TxType] /\ LocksProtect' /\ WorkInProgress'
      /\ lock' \in [Runs -> Sessions \cup {NoSession}]
  BY <1>1, <1>10, EndStep
<1>12. TypeOK'
  BY <1>1, <1>6, <1>11 DEF RunInv, TypeOK
<1>13. PaidOnlyAfterRelease'
  BY <1>1, <1>4, <1>5 DEF RunInv, PaidOnlyAfterRelease, Paying
<1> QED
  BY <1>7, <1>9, <1>11, <1>12, <1>13 DEF RunInv

LEMMA NextRunInv == RunInv /\ [Next]_vars => RunInv'
<1> SUFFICES ASSUME RunInv, [Next]_vars PROVE RunInv'
  OBVIOUS
<1>1. CASE UNCHANGED vars
  BY <1>1 DEF vars, RunInv, TypeOK, LocksProtect, Free, Calculable, Markable,
              WorkInProgress, WorksOnRun, Uncreated, OneReplacement,
              PaidOnlyAfterRelease
<1>2. ASSUME NEW r \in Runs, createRun(r)
      PROVE  RunInv'
  BY <1>2, CreateRunStep
<1>3. ASSUME NEW r \in Runs, NEW target \in Targets, advance(r, target)
      PROVE  RunInv'
  BY <1>3, AdvanceStep
<1>4. ASSUME NEW s \in Sessions, NEW r \in Runs,
             \/ calculateRead(s, r) \/ addAdjustmentRead(s, r)
             \/ correctRead(s, r) \/ markPaymentPaidRead(s, r)
      PROVE  RunInv'
  BY <1>4, CalculateReadStep, ReadingStep
<1>5. ASSUME NEW s \in Sessions, changeMark(s) \/ Commit(s) \/ rollback(s)
      PROVE  RunInv'
  BY <1>5, ChangeMarkStep, CalculateWriteStep, AddAdjustmentWriteStep,
     ChangeCommitStep, PaymentStep, CorrectWriteStep DEF Commit
<1>6. CASE updateComponent
  BY <1>6 DEF updateComponent, RunInv, TypeOK, LocksProtect, Free, Calculable, Markable,
              WorkInProgress, WorksOnRun, Uncreated, OneReplacement,
              PaidOnlyAfterRelease
<1> QED
  BY <1>1, <1>2, <1>3, <1>4, <1>5, <1>6 DEF Next

THEOREM RunInvariant == Spec => []RunInv
<1> QED
  BY InitRunInv, NextRunInv, PTL DEF Spec

-----------------------------------------------------------------------------
(* Theorems. *)

(* The variables hold what the schema lets the rows hold. *)
THEOREM TypeCorrect == Spec => []TypeOK
<1>1. RunInv => TypeOK
  BY DEF RunInv
<1> QED
  BY <1>1, RunInvariant, PTL

(* What a transaction that holds a run's row has found stays true until it *)
(* ends.                                                                   *)
THEOREM RowsAreProtected == Spec => []LocksProtect
<1>1. RunInv => LocksProtect
  BY DEF RunInv
<1> QED
  BY <1>1, RunInvariant, PTL

(* However many corrections of a run overlap, one of them replaces it. *)
THEOREM ReplacedOnce == Spec => []OneReplacement
<1>1. RunInv => OneReplacement
  BY DEF RunInv
<1> QED
  BY <1>1, RunInvariant, PTL

(* Payments and payslips belong to runs that were released. *)
THEOREM OnlyReleasedRunsPay == Spec => []PaidOnlyAfterRelease
<1>1. RunInv => PaidOnlyAfterRelease
  BY DEF RunInv
<1> QED
  BY <1>1, RunInvariant, PTL

-----------------------------------------------------------------------------
(* What holds of a run as long as no two transactions worked on it at once. *)

Works(s, r) ==
  tx[s].op \in {"calculate", "adjust", "correct", "pay"} /\ tx[s].run = r

(* Figures of the current adjustments and marking inputs, of any terms. *)
Reflects(r, figures) ==
  figures.inputs = inputs /\ figures.adjusted = adjusted[r]

(* One transaction works on the run; what it read is what there is, and no *)
(* input changes under a calculation; a change that is open has marked the *)
(* run if it shows figures.                                                *)
Calm(r) ==
  /\ \A s, t \in Sessions : Works(s, r) /\ Works(t, r) => s = t
  /\ \A s \in Sessions :
       /\ Works(s, r) /\ tx[s].op = "calculate" =>
            /\ Reflects(r, tx[s].figures)
            /\ \A t \in Sessions : tx[t].op # "change"
       /\ Works(s, r) /\ tx[s].op = "adjust" => run[r].status = tx[s].seen
       /\ Works(s, r) /\ tx[s].op = "pay" => paid[r] = 0
       /\ tx[s].op = "change" /\ Calculated(r) => r \in tx[s].marks
  /\ run[r].status = "DRAFT" => run[r].figures = NoFigures
  /\ Calculated(r) => Reflects(r, run[r].figures)
  /\ run[r].stale => run[r].status = "CALCULATED"
  /\ paid[r] <= 1

CalmRuns == \A r \in Runs \ raced : Calm(r)

(* Transactions that begin leave the run calm, or it counts as raced. *)
LEMMA CalmBegin ==
  ASSUME RunInv, NEW s \in Sessions, NEW record, NEW r \in Runs, Calm(r),
         Begin(s, record), r \notin raced', UNCHANGED <<run, inputs, terms, adjusted, paid>>,
         record.op = "calculate" /\ record.run = r =>
           Reflects(r, record.figures) /\ run[r].status \in Editable,
         record.op = "adjust" /\ record.run = r => run[r].status = record.seen,
         record.op = "pay" /\ record.run = r => paid[r] = 0,
         record.op = "change" => record.marks = Markable
  PROVE  Calm(r)'
<1>1. tx'[s] = record /\ \A t \in Sessions \ {s} : tx'[t] = tx[t]
  BY DEF Begin, RunInv, TypeOK
<1>2. r \in Touched(record) => \A t \in Sessions : r \notin Touched(tx[t])
  BY DEF Begin, Open
<1>3. ASSUME NEW a \in Sessions, NEW b \in Sessions, Works(a, r)', Works(b, r)'
      PROVE  a = b
  <2>1. ASSUME NEW t \in Sessions, t # s, Works(t, r)' PROVE r \in Touched(tx[t])
    BY <1>1, <2>1 DEF Works, Touched
  <2>2. Works(s, r)' => r \in Touched(record)
    BY <1>1 DEF Works, Touched
  <2>3. a # s /\ b # s => Works(a, r) /\ Works(b, r)
    BY <1>1, <1>3 DEF Works
  <2> QED
    BY <1>2, <1>3, <2>1, <2>2, <2>3 DEF Calm
<1>4. ASSUME NEW a \in Sessions, Works(a, r)', tx'[a].op = "calculate"
      PROVE  /\ Reflects(r, tx'[a].figures)
             /\ \A t \in Sessions : tx'[t].op # "change"
  <2>1. CASE a = s
    <3>1. r \in Touched(record) /\ run[r].status \in Editable
          /\ Reflects(r, record.figures)
      BY <1>1, <1>4, <2>1 DEF Works, Touched
    <3>2. \A t \in Sessions : tx[t].op # "change"
      BY <1>2, <3>1 DEF Touched
    <3> QED
      BY <1>1, <1>4, <2>1, <3>1, <3>2
  <2>2. CASE a # s
    <3>1. Works(a, r) /\ tx[a].op = "calculate" /\ r \in Touched(tx[a])
      BY <1>1, <1>4, <2>2 DEF Works, Touched
    <3>2. /\ Reflects(r, tx[a].figures)
          /\ \A t \in Sessions : tx[t].op # "change"
      BY <3>1 DEF Calm
    <3>3. run[r].status \in Editable
      BY <3>1 DEF RunInv, LocksProtect, Calculable, Editable, Works
    <3>4. record.op # "change"
      BY <1>2, <3>1, <3>3 DEF Touched
    <3> QED
      BY <1>1, <2>2, <3>2, <3>4
  <2> QED
    BY <2>1, <2>2
<1>5. ASSUME NEW a \in Sessions
      PROVE  /\ Works(a, r)' /\ tx'[a].op = "adjust" => run[r].status = tx'[a].seen
             /\ Works(a, r)' /\ tx'[a].op = "pay" => paid[r] = 0
             /\ tx'[a].op = "change" /\ Calculated(r) => r \in tx'[a].marks
  <2>1. CASE a = s
    BY <1>1, <2>1 DEF Works, Calculated, Markable
  <2>2. CASE a # s
    BY <1>1, <2>2 DEF Calm, Works
  <2> QED
    BY <2>1, <2>2
<1>6. /\ run[r].status = "DRAFT" => run[r].figures = NoFigures
      /\ Calculated(r) => Reflects(r, run[r].figures)
      /\ run[r].stale => run[r].status = "CALCULATED"
      /\ paid[r] <= 1
  BY DEF Calm
<1> QED
  BY <1>3, <1>4, <1>5, <1>6 DEF Calm, Reflects, Calculated

(* A step in which transactions only end keeps the run calm if it keeps    *)
(* what those that go on have read of it.                                  *)
LEMMA CalmStep ==
  ASSUME NEW r \in Runs, Calm(r),
         \A t \in Sessions : tx'[t] = tx[t] \/ tx'[t].op = "none",
         \A t \in Sessions : tx'[t] = tx[t] /\ Works(t, r) =>
           /\ tx[t].op = "calculate" => inputs' = inputs /\ adjusted'[r] = adjusted[r]
           /\ tx[t].op = "adjust" => run'[r].status = run[r].status
           /\ tx[t].op = "pay" => paid'[r] = paid[r],
         Calculated(r)' => Calculated(r) \/ \A t \in Sessions : tx'[t].op # "change",
         run'[r].status = "DRAFT" => run'[r].figures = NoFigures,
         Calculated(r)' => Reflects(r, run[r].figures)',
         run'[r].stale => run'[r].status = "CALCULATED",
         paid'[r] <= 1
  PROVE  Calm(r)'
<1>1. \A t \in Sessions : Works(t, r)' => Works(t, r) /\ tx'[t] = tx[t]
  BY DEF Works
<1>2. \A s, t \in Sessions : Works(s, r)' /\ Works(t, r)' => s = t
  BY <1>1 DEF Calm
<1>3. ASSUME NEW s \in Sessions, Works(s, r)', tx'[s].op = "calculate"
      PROVE  /\ Reflects(r, tx[s].figures)'
             /\ \A t \in Sessions : tx'[t].op # "change"
  <2>1. Works(s, r) /\ tx'[s] = tx[s] /\ tx[s].op = "calculate"
    BY <1>1, <1>3
  <2>2. /\ Reflects(r, tx[s].figures)
        /\ \A t \in Sessions : tx[t].op # "change"
    BY <2>1 DEF Calm
  <2> QED
    BY <2>1, <2>2 DEF Reflects
<1>4. ASSUME NEW s \in Sessions
      PROVE  /\ Works(s, r)' /\ tx'[s].op = "adjust" => run'[r].status = tx'[s].seen
             /\ Works(s, r)' /\ tx'[s].op = "pay" => paid'[r] = 0
             /\ tx'[s].op = "change" /\ Calculated(r)' => r \in tx'[s].marks
  BY <1>1 DEF Calm
<1> QED
  BY <1>2, <1>3, <1>4 DEF Calm
(* Readings: they begin with what there is. *)
LEMMA ReadKeepsCalm ==
  ASSUME RunInv, NEW r \in Runs, Calm(r), r \notin raced', NEW s \in Sessions,
         \/ changeMark(s)
         \/ \E q \in Runs : \/ calculateRead(s, q) \/ addAdjustmentRead(s, q)
                           \/ correctRead(s, q) \/ markPaymentPaidRead(s, q)
  PROVE  Calm(r)'
<1>1. CASE changeMark(s)
  <2> DEFINE record == [Idle EXCEPT !.op = "change", !.marks = Markable]
  <2>1. record.op = "change" /\ record.marks = Markable
    BY DEF Idle
  <2>2. Begin(s, record) /\ UNCHANGED <<run, inputs, terms, adjusted, paid>>
    BY <1>1 DEF changeMark
  <2> HIDE DEF record
  <2> QED
    BY <2>1, <2>2, CalmBegin
<1>2. ASSUME NEW q \in Runs, calculateRead(s, q) PROVE Calm(r)'
  <2> DEFINE record == [Idle EXCEPT !.op = "calculate", !.run = q,
                          !.figures = Reading(q)]
  <2>1. /\ record.op = "calculate" /\ record.run = q
        /\ record.figures = Reading(q)
    BY DEF Idle
  <2>2. Begin(s, record) /\ UNCHANGED <<run, inputs, terms, adjusted, paid>>
        /\ run[q].status \in Editable
    BY <1>2 DEF calculateRead, Calculable, Editable
  <2> HIDE DEF record
  <2> QED
    BY <2>1, <2>2, CalmBegin DEF Reflects, Reading
<1>3. ASSUME NEW q \in Runs, addAdjustmentRead(s, q) PROVE Calm(r)'
  <2> DEFINE record == [Idle EXCEPT !.op = "adjust", !.run = q,
                                    !.seen = run[q].status]
  <2>1. record.op = "adjust" /\ record.run = q /\ record.seen = run[q].status
    BY DEF Idle
  <2>2. Begin(s, record) /\ UNCHANGED <<run, inputs, terms, adjusted, paid>>
    BY <1>3 DEF addAdjustmentRead
  <2> HIDE DEF record
  <2> QED
    BY <2>1, <2>2, CalmBegin
<1>4. ASSUME NEW q \in Runs, correctRead(s, q) PROVE Calm(r)'
  <2> DEFINE record == [Idle EXCEPT !.op = "correct", !.run = q,
                                    !.seen = run[q].status]
  <2>1. record.op = "correct"
    BY DEF Idle
  <2>2. Begin(s, record) /\ UNCHANGED <<run, inputs, terms, adjusted, paid>>
    BY <1>4 DEF correctRead
  <2> HIDE DEF record
  <2> QED
    BY <2>1, <2>2, CalmBegin
<1>5. ASSUME NEW q \in Runs, markPaymentPaidRead(s, q) PROVE Calm(r)'
  <2> DEFINE record == [Idle EXCEPT !.op = "pay", !.run = q]
  <2>1. record.op = "pay" /\ record.run = q
    BY DEF Idle
  <2>2. Begin(s, record) /\ UNCHANGED <<run, inputs, terms, adjusted, paid>> /\ paid[q] = 0
    BY <1>5 DEF markPaymentPaidRead
  <2> HIDE DEF record
  <2> QED
    BY <2>1, <2>2, CalmBegin
<1> QED
  BY <1>1, <1>2, <1>3, <1>4, <1>5

(* Steps without a transaction of their own. *)
LEMMA AloneKeepsCalm ==
  ASSUME RunInv, NEW r \in Runs, Calm(r), r \notin raced', NEW q \in Runs,
         createRun(q) \/ \E target \in Targets : advance(q, target)
  PROVE  Calm(r)'
<1>1. CASE createRun(q)
  <2>1. /\ run[q].status = "NONE" /\ UNCHANGED <<inputs, terms, adjusted, paid, tx>>
        /\ run'[q].status = "DRAFT" /\ run'[q].stale = run[q].stale
        /\ run'[q].figures = run[q].figures
        /\ \A p \in Runs \ {q} : run'[p] = run[p]
    BY <1>1 DEF createRun, RunInv, TypeOK, RunType
  <2>2. run[q].figures = NoFigures /\ ~run[q].stale
    BY <2>1 DEF RunInv, Uncreated, NewRun
  <2>3. \A t \in Sessions : ~Works(t, q)
    BY <2>1 DEF RunInv, WorkInProgress, WorksOnRun, Works
  <2>4. CASE r = q
    BY <2>1, <2>2, <2>3, <2>4, CalmStep DEF Calculated, Calm
  <2>5. CASE r # q
    <3>1. /\ (Calculated(r)' <=> Calculated(r)) /\ run'[r] = run[r]
          /\ \A f : Reflects(r, f)' <=> Reflects(r, f)
      BY <2>1, <2>5 DEF Calculated, Reflects
    <3> QED
      BY <2>1, <3>1, CalmStep DEF Calm
  <2> QED
    BY <2>4, <2>5
<1>2. ASSUME NEW target \in Targets, advance(q, target) PROVE Calm(r)'
  <2> DEFINE slips == run[q].payslips \/ /\ target = "RELEASED"
                                         /\ run[q].figures # NoFigures
  <2>0. /\ run' = [run EXCEPT ![q].status = target, ![q].payslips = slips]
        /\ validTransition(run[q].status, target) /\ ~run[q].stale
        /\ UNCHANGED <<inputs, terms, adjusted, paid, tx>>
    BY <1>2 DEF advance
  <2> HIDE DEF slips
  <2>1. /\ validTransition(run[q].status, target) /\ ~run[q].stale
        /\ UNCHANGED <<inputs, terms, adjusted, paid, tx>>
        /\ run'[q].status = target /\ run'[q].stale = run[q].stale
        /\ run'[q].figures = run[q].figures
        /\ \A p \in Runs \ {q} : run'[p] = run[p]
    BY <2>0 DEF RunInv, TypeOK, RunType
  <2>2. CASE r = q
    <3>1. \A t \in Sessions : Works(t, r) => tx[t].op # "adjust"
      BY <1>2, <2>2 DEF advance, Open, Touched, Works
    <3>2. Calculated(r)' => FALSE
      BY <2>1, <2>2 DEF validTransition, Calculated, Calm
    <3>3. run'[r].status # "DRAFT"
      BY <2>1, <2>2 DEF Targets
    <3> QED
      BY <2>1, <2>2, <3>1, <3>2, <3>3, CalmStep DEF Calm
  <2>3. CASE r # q
    <3>1. /\ (Calculated(r)' <=> Calculated(r)) /\ run'[r] = run[r]
          /\ \A f : Reflects(r, f)' <=> Reflects(r, f)
      BY <2>1, <2>3 DEF Calculated, Reflects
    <3> QED
      BY <2>1, <3>1, CalmStep DEF Calm
  <2> QED
    BY <2>2, <2>3
<1> QED
  BY <1>1, <1>2

(* The transaction that ends, and all the others. *)
LEMMA Ended ==
  ASSUME RunInv, NEW s \in Sessions, End(s)
  PROVE  tx'[s].op = "none" /\ \A t \in Sessions \ {s} : tx'[t] = tx[t]
BY DEF End, RunInv, TypeOK, Idle

LEMMA CalculateKeepsCalm ==
  ASSUME RunInv, NEW r \in Runs, Calm(r), NEW s \in Sessions, calculateWrite(s)
  PROVE  Calm(r)'
<1>1. PICK q \in Runs : q = tx[s].run /\ Works(s, q)
  BY DEF calculateWrite, RunInv, WorkInProgress, WorksOnRun, Works
<1>2. tx'[s].op = "none" /\ \A t \in Sessions \ {s} : tx'[t] = tx[t]
  BY Ended DEF calculateWrite
<1>3. /\ run'[q].status = "CALCULATED" /\ run'[q].stale = FALSE
      /\ run'[q].figures = tx[s].figures /\ paid'[q] = 0
      /\ \A p \in Runs \ {q} : run'[p] = run[p] /\ paid'[p] = paid[p]
      /\ UNCHANGED <<inputs, terms, adjusted>> /\ tx[s].op = "calculate"
  <2>1. run \in [Runs -> RunType] /\ paid \in [Runs -> Nat]
    BY DEF RunInv, TypeOK
  <2> QED
    BY <1>1, <2>1 DEF calculateWrite, RunType
<1>4. CASE r = q
  <2>1. \A t \in Sessions : Works(t, r) => t = s
    BY <1>1, <1>4 DEF Calm
  <2>2. Reflects(r, tx[s].figures) /\ \A t \in Sessions : tx[t].op # "change"
    BY <1>1, <1>3, <1>4 DEF Calm
  <2>3. \A t \in Sessions : tx'[t] = tx[t] => ~Works(t, r)
    BY <1>2, <1>3, <2>1
  <2>4. Reflects(r, run[r].figures)'
    BY <1>3, <1>4, <2>2 DEF Reflects
  <2>5. \A t \in Sessions : tx'[t].op # "change"
    BY <1>2, <2>2
  <2> QED
    BY <1>2, <1>3, <1>4, <2>3, <2>4, <2>5, CalmStep
<1>5. CASE r # q
  <2>1. /\ (Calculated(r)' <=> Calculated(r)) /\ run'[r] = run[r] /\ paid'[r] = paid[r]
        /\ inputs' = inputs /\ adjusted'[r] = adjusted[r]
        /\ \A f : Reflects(r, f)' <=> Reflects(r, f)
    BY <1>3, <1>5 DEF Calculated, Reflects
  <2>2. \A t \in Sessions : tx'[t] = tx[t] \/ tx'[t].op = "none"
    BY <1>2
  <2> QED
    BY <2>1, <2>2, CalmStep DEF Calm
<1> QED
  BY <1>4, <1>5

LEMMA AdjustmentKeepsCalm ==
  ASSUME RunInv, NEW r \in Runs, Calm(r), NEW s \in Sessions,
         addAdjustmentWrite(s)
  PROVE  Calm(r)'
<1>1. PICK q \in Runs : q = tx[s].run /\ Works(s, q)
  BY DEF addAdjustmentWrite, RunInv, WorkInProgress, WorksOnRun, Works
<1>2. tx'[s].op = "none" /\ \A t \in Sessions \ {s} : tx'[t] = tx[t]
  BY Ended DEF addAdjustmentWrite
<1>3. /\ run'[q].status = run[q].status /\ run'[q].figures = run[q].figures
      /\ run'[q].stale = (run[q].stale \/ tx[s].seen = "CALCULATED")
      /\ \A p \in Runs \ {q} : run'[p] = run[p] /\ adjusted'[p] = adjusted[p]
      /\ UNCHANGED <<inputs, terms, paid>> /\ tx[s].op = "adjust"
  BY <1>1 DEF addAdjustmentWrite, RunInv, TypeOK, RunType
<1>4. CASE r = q
  <2>1. \A t \in Sessions : Works(t, r) => t = s
    BY <1>1, <1>4 DEF Calm
  <2>2. run[r].status = tx[s].seen
    BY <1>1, <1>3, <1>4 DEF Calm
  <2>3. \A t \in Sessions : tx'[t] = tx[t] => ~Works(t, r)
    BY <1>2, <1>3, <2>1
  <2>4. ~Calculated(r)'
    BY <1>3, <1>4, <2>2 DEF Calculated
  <2>5. run'[r].stale => run'[r].status = "CALCULATED"
    BY <1>3, <1>4, <2>2 DEF Calm
  <2> QED
    BY <1>2, <1>3, <1>4, <2>3, <2>4, <2>5, CalmStep DEF Calm
<1>5. CASE r # q
  <2>1. /\ (Calculated(r)' <=> Calculated(r)) /\ run'[r] = run[r] /\ paid'[r] = paid[r]
        /\ inputs' = inputs /\ adjusted'[r] = adjusted[r]
        /\ \A f : Reflects(r, f)' <=> Reflects(r, f)
    BY <1>3, <1>5 DEF Calculated, Reflects
  <2>2. \A t \in Sessions : tx'[t] = tx[t] \/ tx'[t].op = "none"
    BY <1>2
  <2> QED
    BY <2>1, <2>2, CalmStep DEF Calm
<1> QED
  BY <1>4, <1>5

LEMMA ChangeKeepsCalm ==
  ASSUME RunInv, NEW r \in Runs, Calm(r), NEW s \in Sessions, changeCommit(s)
  PROVE  Calm(r)'
<1>1. tx[s].op = "change" /\ UNCHANGED <<adjusted, paid>>
  BY DEF changeCommit
<1>2. tx'[s].op = "none" /\ \A t \in Sessions \ {s} : tx'[t] = tx[t]
  BY Ended DEF changeCommit
<1>3. \A t \in Sessions : Works(t, r) => tx[t].op # "calculate"
  BY <1>1 DEF Calm
<1>4. CASE r \in tx[s].marks
  <2>1. run'[r].stale = TRUE /\ run'[r].status = run[r].status
    BY <1>4 DEF changeCommit, RunInv, TypeOK, RunType
  <2>2. run[r].status = "CALCULATED"
    BY <1>4 DEF RunInv, LocksProtect, Markable
  <2> QED
    BY <1>1, <1>2, <1>3, <2>1, <2>2, CalmStep DEF Calculated, Calm
<1>5. CASE r \notin tx[s].marks
  <2>1. run'[r] = run[r]
    BY <1>5 DEF changeCommit
  <2>2. ~Calculated(r)
    BY <1>1, <1>5 DEF Calm
  <2>3. ~Calculated(r)'
    BY <2>1, <2>2 DEF Calculated
  <2> QED
    BY <1>1, <1>2, <1>3, <2>1, <2>3, CalmStep DEF Calm
<1> QED
  BY <1>4, <1>5

LEMMA CorrectKeepsCalm ==
  ASSUME RunInv, NEW r \in Runs, Calm(r), NEW s \in Sessions, NEW q \in Runs,
         correctWrite(s, q)
  PROVE  Calm(r)'
<1>1. PICK p \in Runs : p = tx[s].run /\ Works(s, p) /\ run[p].status \in Settled
  BY DEF correctWrite, RunInv, WorkInProgress, WorksOnRun, Works
<1>2. tx'[s].op = "none" /\ \A t \in Sessions \ {s} : tx'[t] = tx[t]
  BY Ended DEF correctWrite
<1>3. p # q /\ run[q].status = "NONE" /\ UNCHANGED <<inputs, terms, adjusted, paid>>
      /\ tx[s].op = "correct"
  BY <1>1 DEF correctWrite, Settled, Paying
<1> DEFINE draft == [NewRun EXCEPT !.status = "DRAFT", !.corrects = p]
<1>4. run' = [run EXCEPT ![p].status = "CORRECTED", ![q] = draft]
  BY <1>1 DEF correctWrite
<1>5. draft.status = "DRAFT" /\ draft.figures = NoFigures /\ draft.stale = FALSE
  BY DEF NewRun
<1> HIDE DEF draft
<1>6. /\ run'[p].status = "CORRECTED" /\ run'[p].stale = run[p].stale
      /\ run'[q] = draft
      /\ \A x \in Runs \ {p, q} : run'[x] = run[x]
  BY <1>3, <1>4 DEF RunInv, TypeOK, RunType
<1>7. CASE r = p
  <2>1. \A t \in Sessions : Works(t, r) => t = s
    BY <1>1, <1>7 DEF Calm
  <2>2. ~run[r].stale
    BY <1>1, <1>7 DEF Calm, Settled, Paying
  <2>3. \A t \in Sessions : tx'[t] = tx[t] => ~Works(t, r)
    BY <1>2, <1>3, <2>1
  <2>4. ~Calculated(r)'
    BY <1>6, <1>7 DEF Calculated
  <2> QED
    BY <1>2, <1>3, <1>6, <1>7, <2>2, <2>3, <2>4, CalmStep DEF Calm
<1>8. CASE r = q
  <2>1. \A t \in Sessions : ~Works(t, r)
    BY <1>3, <1>8 DEF RunInv, WorkInProgress, WorksOnRun, Works
  <2>2. ~Calculated(r)'
    BY <1>5, <1>6, <1>8 DEF Calculated
  <2> QED
    BY <1>2, <1>3, <1>5, <1>6, <1>8, <2>1, <2>2, CalmStep DEF Calm
<1>9. CASE r # p /\ r # q
  BY <1>2, <1>3, <1>6, <1>9, CalmStep DEF Calm, Calculated, Reflects
<1> QED
  BY <1>7, <1>8, <1>9

LEMMA PaymentKeepsCalm ==
  ASSUME RunInv, NEW r \in Runs, Calm(r), NEW s \in Sessions,
         markPaymentPaidWrite(s) \/ rollback(s)
  PROVE  Calm(r)'
<1>1. tx'[s].op = "none" /\ \A t \in Sessions \ {s} : tx'[t] = tx[t]
  BY Ended DEF markPaymentPaidWrite, rollback
<1>2. UNCHANGED <<run, inputs, terms, adjusted>>
  BY DEF markPaymentPaidWrite, rollback
<1>3. CASE markPaymentPaidWrite(s)
  <2>1. PICK q \in Runs : q = tx[s].run /\ Works(s, q)
    BY <1>3 DEF markPaymentPaidWrite, RunInv, WorkInProgress, WorksOnRun, Works
  <2>2. /\ paid'[q] = paid[q] + 1 /\ \A p \in Runs \ {q} : paid'[p] = paid[p]
        /\ tx[s].op = "pay"
    BY <1>3, <2>1 DEF markPaymentPaidWrite, RunInv, TypeOK
  <2>3. CASE r = q
    <3>1. \A t \in Sessions : Works(t, r) => t = s
      BY <2>1, <2>3 DEF Calm
    <3>2. paid'[r] = 1
      BY <2>1, <2>2, <2>3 DEF Calm
    <3>3. \A t \in Sessions : tx'[t] = tx[t] => ~Works(t, r)
      BY <1>1, <2>2, <3>1
    <3> QED
      BY <1>1, <1>2, <3>2, <3>3, CalmStep DEF Calm, Calculated, Reflects
  <2>4. CASE r # q
    <3>1. /\ (Calculated(r)' <=> Calculated(r)) /\ paid'[r] = paid[r]
          /\ \A f : Reflects(r, f)' <=> Reflects(r, f)
      BY <1>2, <2>2, <2>4 DEF Calculated, Reflects
    <3> QED
      BY <1>1, <1>2, <3>1, CalmStep DEF Calm
  <2> QED
    BY <2>3, <2>4
<1>4. CASE rollback(s)
  <2>1. paid' = paid
    BY <1>4 DEF rollback
  <2> QED
    BY <1>1, <1>2, <2>1, CalmStep DEF Calm, Calculated, Reflects
<1> QED
  BY <1>3, <1>4

(* What was raced stays raced, and what was not stays calm. *)
LEMMA NextCalm == RunInv /\ CalmRuns /\ [Next]_vars => CalmRuns'
<1> SUFFICES ASSUME RunInv, CalmRuns, [Next]_vars,
                    NEW r \in Runs, r \notin raced'
             PROVE  Calm(r)'
  BY DEF CalmRuns
<1>1. raced \subseteq raced'
  BY DEF Next, Commit, vars, createRun, advance, calculateRead, addAdjustmentRead,
         correctRead, markPaymentPaidRead, changeMark, calculateWrite,
         addAdjustmentWrite, changeCommit, markPaymentPaidWrite, correctWrite,
         rollback, updateComponent, Begin
<1>2. Calm(r)
  BY <1>1 DEF CalmRuns
<1>3. CASE UNCHANGED vars
  BY <1>2, <1>3 DEF vars, Calm, Works, Calculated, Reflects
<1>4. CASE updateComponent
  BY <1>2, <1>4 DEF updateComponent, Calm, Works, Calculated, Reflects
<1>5. CASE Next
  BY <1>2, <1>4, <1>5, ReadKeepsCalm, AloneKeepsCalm, CalculateKeepsCalm,
     AdjustmentKeepsCalm, ChangeKeepsCalm, CorrectKeepsCalm, PaymentKeepsCalm
     DEF Next, Commit
<1> QED
  BY <1>3, <1>5

LEMMA InitCalm == Init => CalmRuns
<1> SUFFICES ASSUME Init, NEW r \in Runs PROVE Calm(r)
  BY DEF CalmRuns
<1>1. /\ run[r].status = "NONE" /\ ~run[r].stale /\ paid[r] = 0
      /\ \A s \in Sessions : tx[s].op = "none"
  BY DEF Init, NewRun, Idle
<1> QED
  BY <1>1 DEF Calm, Works, Calculated

LEMMA AlwaysCalm == Spec => [](RunInv /\ CalmRuns)
BY InitRunInv, NextRunInv, InitCalm, NextCalm, PTL DEF Spec

(* Whatever else is calculated, adjusted or corrected at the same time, a   *)
(* run nobody raced on shows the current adjustments and the inputs whose   *)
(* changes mark runs, or says that it is stale.  What updateComponent and   *)
(* its like change, the terms, is no part of the statement.                 *)
THEOREM FiguresAreCurrent == Spec => []FiguresCurrent
<1>1. CalmRuns => FiguresCurrent
  BY DEF CalmRuns, Calm, Reflects, FiguresCurrent
<1> QED
  BY <1>1, AlwaysCalm, PTL

(* A run nobody raced on is only ever stale where it can be calculated.    *)
THEOREM StaleRunsCalculable == Spec => []StaleIsCalculable
<1>1. CalmRuns => StaleIsCalculable
  BY DEF CalmRuns, Calm, StaleIsCalculable
<1> QED
  BY <1>1, AlwaysCalm, PTL

(* A run nobody raced on has one payment. *)
THEOREM PaymentRecordedOnce == Spec => []PaidOnce
<1>1. CalmRuns => PaidOnce
  BY DEF CalmRuns, Calm, PaidOnce
<1> QED
  BY <1>1, AlwaysCalm, PTL

-----------------------------------------------------------------------------
(* The runs follow the abstract lifecycle. *)

(* A step that changes neither status, figures nor correction links. *)
LEMMA Stutters ==
  ASSUME \A r \in Runs : /\ run'[r].status = run[r].status
                         /\ run'[r].figures = run[r].figures
                         /\ run'[r].corrects = run[r].corrects
  PROVE  [Lifecycle!Next]_Lifecycle!lifecycle
BY DEF Lifecycle!lifecycle

LEMMA CreateOpens ==
  ASSUME RunInv, NEW r \in Runs, createRun(r)
  PROVE  Lifecycle!Open(r)
<1>1. /\ run'[r].status = "DRAFT" /\ run'[r].corrects = run[r].corrects
      /\ run'[r].figures = run[r].figures /\ run[r].status = "NONE"
      /\ \A q \in Runs \ {r} : run'[q] = run[q]
  BY DEF createRun, RunInv, TypeOK, RunType
<1> QED
  BY <1>1 DEF Lifecycle!Open, Lifecycle!Moves

LEMMA AdvanceAdvances ==
  ASSUME RunInv, NEW r \in Runs, NEW target \in Targets, advance(r, target)
  PROVE  Lifecycle!Advance(r)
<1>1. /\ run'[r].status = target /\ run'[r].corrects = run[r].corrects
      /\ run'[r].figures = run[r].figures
      /\ \A q \in Runs \ {r} : run'[q] = run[q]
  BY DEF advance, RunInv, TypeOK, RunType
<1>2. validTransition(run[r].status, target) /\ target # "CORRECTED"
  BY DEF advance, Targets
<1> QED
  BY <1>1, <1>2 DEF Lifecycle!Advance, Lifecycle!Moves, validTransition

LEMMA CalculateCalculates ==
  ASSUME RunInv, NEW s \in Sessions, calculateWrite(s),
         NEW r \in Runs, r = tx[s].run
  PROVE  Lifecycle!Calculate(r)
<1>1. /\ run[r].status \in {"DRAFT", "CALCULATED"}
      /\ tx[s].figures \in [inputs: Nat, terms: Nat, adjusted: Nat]
  BY DEF calculateWrite, RunInv, WorkInProgress, WorksOnRun, LocksProtect,
         Calculable
<1>2. run' = [run EXCEPT ![r].status = "CALCULATED", ![r].stale = FALSE,
                         ![r].figures = tx[s].figures]
  BY DEF calculateWrite
<1>3. /\ run'[r].status = "CALCULATED" /\ run'[r].corrects = run[r].corrects
      /\ run'[r].figures = tx[s].figures
      /\ \A q \in Runs \ {r} : run'[q] = run[q]
  <2>1. run \in [Runs -> RunType]
    BY DEF RunInv, TypeOK
  <2> QED
    BY <1>2, <2>1 DEF RunType
<1> QED
  BY <1>1, <1>3 DEF Lifecycle!Calculate, Lifecycle!Moves

LEMMA CorrectCorrects ==
  ASSUME RunInv, NEW s \in Sessions, NEW q \in Runs, correctWrite(s, q)
  PROVE  Lifecycle!Correct(tx[s].run, q)
<1> DEFINE r == tx[s].run
           draft == [NewRun EXCEPT !.status = "DRAFT", !.corrects = r]
<1>1. /\ r \in Runs /\ run[r].status \in Settled
      /\ run[q].status = "NONE" /\ Uncorrected(r)
  BY DEF correctWrite, RunInv, WorkInProgress, WorksOnRun
<1>2. run[r].status \in {"RELEASED", "LOCKED"} /\ r # q
  BY <1>1 DEF Uncorrected, RunInv, OneReplacement, Settled, Paying
<1>3. run' = [run EXCEPT ![r].status = "CORRECTED", ![q] = draft]
  BY DEF correctWrite
<1> HIDE DEF r
<1>4. draft.status = "DRAFT" /\ draft.corrects = r /\ draft.figures = NoFigures
  BY DEF NewRun
<1>5. run[q].figures = NoFigures
  BY <1>1 DEF RunInv, Uncreated, NewRun
<1> HIDE DEF draft
<1>6. /\ run'[r].status = "CORRECTED" /\ run'[r].corrects = run[r].corrects
      /\ run'[r].figures = run[r].figures /\ run'[q] = draft
      /\ \A p \in Runs \ {r, q} : run'[p] = run[p]
  BY <1>1, <1>2, <1>3 DEF RunInv, TypeOK, RunType
<1>7. PICK p \in Runs : p = r
  BY <1>1
<1>8. [u \in Runs |-> run[u].status]'
        = [[u \in Runs |-> run[u].status] EXCEPT ![p] = "CORRECTED", ![q] = "DRAFT"]
  BY <1>2, <1>4, <1>6, <1>7
<1>9. [u \in Runs |-> run[u].corrects]'
        = [[u \in Runs |-> run[u].corrects] EXCEPT ![q] = p]
  BY <1>4, <1>6, <1>7
<1>10. UNCHANGED [u \in Runs |-> run[u].figures]
  BY <1>4, <1>5, <1>6
<1>11. Lifecycle!Correct(p, q)
  BY <1>1, <1>2, <1>7, <1>8, <1>9, <1>10 DEF Lifecycle!Correct
<1> QED
  BY <1>7, <1>11 DEF r

LEMMA MarkingStutters ==
  ASSUME RunInv, NEW s \in Sessions, addAdjustmentWrite(s) \/ changeCommit(s)
  PROVE  [Lifecycle!Next]_Lifecycle!lifecycle
<1>1. CASE addAdjustmentWrite(s)
  <2> DEFINE r == tx[s].run
             stale == run[r].stale \/ tx[s].seen = "CALCULATED"
  <2>1. r \in Runs /\ run' = [run EXCEPT ![r].stale = stale]
    BY <1>1 DEF addAdjustmentWrite, RunInv, WorkInProgress, WorksOnRun
  <2> HIDE DEF r, stale
  <2>2. \A q \in Runs : /\ run'[q].status = run[q].status
                        /\ run'[q].figures = run[q].figures
                        /\ run'[q].corrects = run[q].corrects
    BY <2>1 DEF RunInv, TypeOK, RunType
  <2> QED
    BY <2>2, Stutters
<1>2. CASE changeCommit(s)
  <2>1. ASSUME NEW q \in Runs
        PROVE  /\ run'[q].status = run[q].status
               /\ run'[q].figures = run[q].figures
               /\ run'[q].corrects = run[q].corrects
    <3>1. run[q] \in RunType
      BY DEF RunInv, TypeOK
    <3>2. run'[q] = IF q \in tx[s].marks
                      THEN [run[q] EXCEPT !.stale = TRUE] ELSE run[q]
      BY <1>2 DEF changeCommit
    <3> QED
      BY <3>1, <3>2 DEF RunType
  <2> QED
    BY <2>1, Stutters
<1> QED
  BY <1>1, <1>2

LEMMA StepImplements ==
  RunInv /\ [Next]_vars => [Lifecycle!Next]_Lifecycle!lifecycle
<1> SUFFICES ASSUME RunInv, [Next]_vars
             PROVE  [Lifecycle!Next]_Lifecycle!lifecycle
  OBVIOUS
<1>1. CASE run' = run
  BY <1>1, Stutters
<1>2. ASSUME NEW r \in Runs, createRun(r)
      PROVE  Lifecycle!Next
  BY <1>2, CreateOpens DEF Lifecycle!Next
<1>3. ASSUME NEW r \in Runs, NEW target \in Targets, advance(r, target)
      PROVE  Lifecycle!Next
  BY <1>3, AdvanceAdvances DEF Lifecycle!Next
<1>4. ASSUME NEW s \in Sessions, calculateWrite(s)
      PROVE  Lifecycle!Next
  <2>1. PICK r \in Runs : r = tx[s].run
    BY <1>4 DEF calculateWrite, RunInv, WorkInProgress, WorksOnRun
  <2>2. Lifecycle!Calculate(r)
    BY <1>4, <2>1, CalculateCalculates
  <2> QED
    BY <2>2 DEF Lifecycle!Next
<1>5. ASSUME NEW s \in Sessions, NEW q \in Runs, correctWrite(s, q)
      PROVE  Lifecycle!Next
  <2>1. tx[s].run \in Runs
    BY <1>5 DEF correctWrite, RunInv, WorkInProgress, WorksOnRun
  <2> QED
    BY <1>5, <2>1, CorrectCorrects DEF Lifecycle!Next
<1>6. ASSUME NEW s \in Sessions, addAdjustmentWrite(s) \/ changeCommit(s)
      PROVE  [Lifecycle!Next]_Lifecycle!lifecycle
  BY <1>6, MarkingStutters
<1>7. ASSUME NEW s \in Sessions, NEW r \in Runs,
             \/ calculateRead(s, r) \/ addAdjustmentRead(s, r)
             \/ correctRead(s, r) \/ markPaymentPaidRead(s, r)
      PROVE  run' = run
  BY <1>7 DEF calculateRead, addAdjustmentRead, correctRead, markPaymentPaidRead
<1>8. ASSUME NEW s \in Sessions,
             changeMark(s) \/ markPaymentPaidWrite(s) \/ rollback(s)
      PROVE  run' = run
  BY <1>8 DEF changeMark, markPaymentPaidWrite, rollback
<1>9. ASSUME updateComponent PROVE run' = run
  BY <1>9 DEF updateComponent
<1> QED
  BY <1>1, <1>2, <1>3, <1>4, <1>5, <1>6, <1>7, <1>8, <1>9 DEF Next, Commit, vars

LEMMA InitImplements == Init => Lifecycle!Init
BY DEF Init, NewRun, Lifecycle!Init

(* Every behaviour of the runs is one of the abstract lifecycle, whatever  *)
(* handlers overlap.                                                       *)
THEOREM FollowsLifecycle == Spec => ImplementsLifecycle
<1> QED
  BY InitImplements, StepImplements, RunInvariant, PTL
     DEF Spec, ImplementsLifecycle, Lifecycle!Spec
=============================================================================
