-------------------------- MODULE TimesheetCycleProofs --------------------------
(* Theorems about the timesheet of one period, for any approval policy, any  *)
(* number of approvers and requests in flight, and any hours.                *)
EXTENDS TimesheetCycle, WellFoundedInduction, TLAPS

-----------------------------------------------------------------------------
(* The inductive invariant. *)

DecidersNamed ==
  \A s \in Sessions : tx[s].op \in {"look", "decide"} => tx[s].user \in Users

(* What a transaction read still holds, unless it is out of date.           *)
Fresh ==
  \A s \in Sessions : ~tx[s].late =>
    /\ tx[s].op = "enter" => sheet.status # "APPROVED"
    /\ tx[s].op \in {"unsubmit", "look", "decide"} => sheet.status = "SUBMITTED"
    /\ tx[s].op \in {"look", "decide"} => tx[s].minutes = sheet.total
    /\ tx[s].op = "decide" => tx[s].step = pendingStep /\ MayDecide(tx[s].user)

Row(n) == [step |-> n, verdict |-> "APPROVED", hours |-> sheet.total]

(* The first k steps are approved and no other step is decided.             *)
ApprovedUpTo(k) ==
  /\ \A n \in 1..k : \E u \in Approvers[n] : approval[u] = Row(n)
  /\ \A u \in Users : approval[u].verdict # "NONE" => approval[u].step \in 1..k

(* A submitted sheet is approved step by step, and has a step left.         *)
DecidedInTurn ==
  sheet.status = "SUBMITTED" /\ ~overtaken /\ ~carried =>
    \E k \in 0..(NSteps - 1) : ApprovedUpTo(k)

CycleInv ==
  /\ TypeOK /\ DecidersNamed /\ Fresh /\ DecidedInTurn
  /\ TotalsAgree /\ PayrollPaysApproved /\ ApprovedByPolicy

LEMMA ReadingTyped ==
  ASSUME NEW op \in {"none", "enter", "submit", "unsubmit", "look", "decide"},
         NEW user \in Users \cup {NoUser}, NEW step \in 0..NSteps, NEW minutes \in Nat
  PROVE  /\ Reading(op, user, step, minutes) \in ReadingType
         /\ Reading(op, user, step, minutes).op = op
         /\ Reading(op, user, step, minutes).user = user
         /\ Reading(op, user, step, minutes).step = step
         /\ Reading(op, user, step, minutes).minutes = minutes
         /\ ~Reading(op, user, step, minutes).late
BY DEF Reading, ReadingType

LEMMA IdleTyped == Idle \in ReadingType /\ Idle.op = "none"
<1>1. 0 \in 0..NSteps
  BY TimesheetAssumption
<1> QED
  BY <1>1, ReadingTyped DEF Idle

LEMMA InitCycleInv == Init => CycleInv
<1> SUFFICES ASSUME Init PROVE CycleInv
  OBVIOUS
<1> USE DEF Init
<1>1. /\ sheet.status = "NONE" /\ sheet.total = 0
      /\ entries.attendance = 0 /\ entries.manual = 0
      /\ payroll.status = "DRAFT"
  BY DEF NoSheet
<1>2. TypeOK
  <2>1. sheet \in SheetType /\ entries \in [attendance: Nat, manual: Nat]
    BY DEF NoSheet, SheetType
  <2>2. NoApproval \in ApprovalType
    BY TimesheetAssumption DEF NoApproval, ApprovalType
  <2>3. approval \in [Users -> ApprovalType]
    BY <2>2 DEF NoApprovals
  <2>4. tx \in [Sessions -> ReadingType]
    BY IdleTyped
  <2>5. payroll \in [status: {"DRAFT", "CALCULATED"}, stale: BOOLEAN, hours: Nat]
    OBVIOUS
  <2> QED
    BY <2>1, <2>3, <2>4, <2>5 DEF TypeOK
<1>3. DecidersNamed /\ Fresh
  BY IdleTyped DEF DecidersNamed, Fresh
<1>4. DecidedInTurn /\ ApprovedByPolicy /\ TotalsAgree /\ PayrollPaysApproved
  BY <1>1 DEF DecidedInTurn, ApprovedByPolicy, TotalsAgree, PayrollPaysApproved
<1> QED
  BY <1>2, <1>3, <1>4 DEF CycleInv

-----------------------------------------------------------------------------
(* Reading. *)

LEMMA FirstIsLeast ==
  ASSUME NEW ns \in SUBSET Nat, ns # {}
  PROVE  First(ns) \in ns /\ \A m \in ns : First(ns) <= m
<1> DEFINE Less == OpToRel(<, Nat)
<1>1. \A a, b \in Nat : a < b => <<a, b>> \in Less
  BY DEF OpToRel
<1>2. IsWellFoundedOn(Less, Nat)
  BY NatLessThanWellFounded
<1> HIDE DEF Less
<1>3. PICK n \in ns : \A m \in ns : ~(<<m, n>> \in Less)
  BY <1>2, WFMin, Zenon
<1>4. ASSUME NEW m \in ns PROVE n <= m
  <2>1. m \in Nat /\ n \in Nat
    OBVIOUS
  <2>2. ~(m < n)
    BY <1>1, <1>3, <2>1
  <2> QED
    BY <2>1, <2>2
<1> QED
  BY <1>4 DEF First

LEMMA PendingStepTyped == pendingStep \in 0..NSteps
<1>1. CASE Pending(approval) = {}
  BY <1>1, TimesheetAssumption DEF pendingStep
<1>2. CASE Pending(approval) # {}
  <2>1. Pending(approval) \subseteq Steps /\ Steps \subseteq Nat
    BY TimesheetAssumption DEF Pending, Steps
  <2>2. First(Pending(approval)) \in Pending(approval)
    BY <1>2, <2>1, FirstIsLeast
  <2> QED
    BY <1>2, <2>1, <2>2, TimesheetAssumption DEF pendingStep, Steps
<1> QED
  BY <1>1, <1>2

(* With the first k steps approved, the step that is pending is the next.   *)
LEMMA NextStepPends ==
  ASSUME TypeOK, NEW k \in 0..(NSteps - 1), ApprovedUpTo(k)
  PROVE  pendingStep = k + 1 /\ Pending(approval) # {}
<1>1. k + 1 \in Pending(approval)
  BY TimesheetAssumption DEF Pending, ApprovedUpTo, Steps
<1>2. \A n \in Pending(approval) : k + 1 <= n
  <2> SUFFICES ASSUME NEW n \in Pending(approval), n \in 1..k PROVE FALSE
    BY TimesheetAssumption DEF Pending, Steps
  <2>1. PICK u \in Approvers[n] : approval[u] = Row(n)
    BY DEF ApprovedUpTo
  <2>2. u \in Users
    BY <2>1, TimesheetAssumption DEF Steps
  <2> QED
    BY <2>1, <2>2 DEF Pending, Row
<1>3. Pending(approval) \subseteq Nat
  BY TimesheetAssumption DEF Pending, Steps
<1>4. First(Pending(approval)) = k + 1
  <2>1. /\ First(Pending(approval)) \in Pending(approval)
        /\ First(Pending(approval)) <= k + 1
    BY <1>1, <1>3, FirstIsLeast
  <2> QED
    BY <2>1, <1>2, <1>3
<1> QED
  BY <1>1, <1>4 DEF pendingStep

(* A transaction whose reading, unless it is out of date, still holds.      *)
WellRead(record) ==
  /\ record \in ReadingType /\ record.op # "none"
  /\ record.op \in {"look", "decide"} => record.user \in Users
  /\ ~record.late =>
       /\ record.op = "enter" => sheet.status # "APPROVED"
       /\ record.op \in {"unsubmit", "look", "decide"} => sheet.status = "SUBMITTED"
       /\ record.op \in {"look", "decide"} => record.minutes = sheet.total
       /\ record.op = "decide" => record.step = pendingStep /\ MayDecide(record.user)

LEMMA ReadingKeepsInv ==
  ASSUME CycleInv, NEW s \in Sessions, NEW record, WellRead(record),
         tx' = [tx EXCEPT ![s] = record],
         UNCHANGED <<sheet, entries, approval, payroll, overtaken, carried>>
  PROVE  CycleInv'
<1>1. /\ tx' = [tx EXCEPT ![s] = record]
      /\ UNCHANGED <<sheet, entries, approval, payroll, overtaken, carried>>
  OBVIOUS
<1>2. tx \in [Sessions -> ReadingType] /\ record \in ReadingType
  BY DEF CycleInv, TypeOK, WellRead
<1>3. TypeOK'
  BY <1>1, <1>2 DEF CycleInv, TypeOK
<1>4. \A t \in Sessions : tx'[t] = IF t = s THEN record ELSE tx[t]
  BY <1>1, <1>2
<1>5. DecidersNamed'
  BY <1>4 DEF CycleInv, DecidersNamed, WellRead
<1>6. Fresh'
  BY <1>1, <1>4 DEF CycleInv, Fresh, WellRead, pendingStep, MayDecide
<1>7. DecidedInTurn' /\ ApprovedByPolicy'
  BY <1>1 DEF CycleInv, DecidedInTurn, ApprovedByPolicy, ApprovedUpTo, Row, EveryStepApproved
<1>8. TotalsAgree' /\ PayrollPaysApproved'
  BY <1>1 DEF CycleInv, TotalsAgree, PayrollPaysApproved, ApprovedHours
<1> QED
  BY <1>3, <1>5, <1>6, <1>7, <1>8 DEF CycleInv

LEMMA ReadsKeepInv ==
  ASSUME CycleInv, NEW s \in Sessions,
         \/ \E minutes \in 1..DayMinutes : addManualEntryRead(s, minutes)
         \/ \E u \in Users : decideRead(s, u)
         \/ submitRead(s) \/ unsubmitRead(s) \/ decideApprovals(s)
  PROVE  CycleInv'
<1>1. 0 \in 0..NSteps /\ 0 \in Nat
  BY TimesheetAssumption
<1>2. ASSUME NEW minutes \in 1..DayMinutes, addManualEntryRead(s, minutes) PROVE CycleInv'
  <2>1. minutes \in Nat
    BY TimesheetAssumption
  <2>2. WellRead(Reading("enter", NoUser, 0, minutes))
    BY <1>1, <1>2, <2>1, ReadingTyped DEF WellRead, addManualEntryRead
  <2> QED
    BY <1>2, <2>2, ReadingKeepsInv DEF addManualEntryRead, Begin
<1>3. ASSUME NEW u \in Users, decideRead(s, u) PROVE CycleInv'
  <2>1. sheet.total \in Nat
    BY DEF CycleInv, TypeOK, SheetType
  <2>2. WellRead(Reading("look", u, 0, sheet.total))
    BY <1>1, <1>3, <2>1, ReadingTyped DEF WellRead, decideRead
  <2> QED
    BY <1>3, <2>2, ReadingKeepsInv DEF decideRead, Begin
<1>4. ASSUME submitRead(s) PROVE CycleInv'
  <2>1. WellRead(Reading("submit", NoUser, 0, 0))
    BY <1>1, <1>4, ReadingTyped DEF WellRead, submitRead
  <2> QED
    BY <1>4, <2>1, ReadingKeepsInv DEF submitRead, Begin
<1>5. ASSUME unsubmitRead(s) PROVE CycleInv'
  <2>1. WellRead(Reading("unsubmit", NoUser, 0, 0))
    BY <1>1, <1>5, ReadingTyped DEF WellRead, unsubmitRead
  <2> QED
    BY <1>5, <2>1, ReadingKeepsInv DEF unsubmitRead, Begin
<1>6. ASSUME decideApprovals(s) PROVE CycleInv'
  <2> DEFINE record == [tx[s] EXCEPT !.op = "decide", !.step = pendingStep]
  <2>1. tx \in [Sessions -> ReadingType] /\ tx[s] \in ReadingType /\ tx[s].op = "look"
    BY <1>6 DEF CycleInv, TypeOK, decideApprovals
  <2>2. /\ record \in ReadingType /\ record.op = "decide"
        /\ record.step = pendingStep /\ record.user = tx[s].user
        /\ record.minutes = tx[s].minutes /\ record.late = tx[s].late
    BY <2>1, PendingStepTyped DEF ReadingType
  <2>3. MayDecide(tx[s].user) /\ tx' = [tx EXCEPT ![s] = record]
    BY <1>6, <2>1 DEF decideApprovals
  <2> HIDE DEF record
  <2>4. WellRead(record)
    BY <2>1, <2>2, <2>3 DEF WellRead, CycleInv, DecidersNamed, Fresh
  <2> QED
    BY <1>6, <2>3, <2>4, ReadingKeepsInv DEF decideApprovals
<1> QED
  BY <1>2, <1>3, <1>4, <1>5, <1>6

-----------------------------------------------------------------------------
(* Writing. *)

(* After a write no open transaction's reading is relied on.                *)
LEMMA NothingReliedOn ==
  ASSUME TypeOK, DecidersNamed, NEW s, tx' = Outdated(s)
  PROVE  tx' \in [Sessions -> ReadingType] /\ DecidersNamed' /\ Fresh'
<1>1. ASSUME NEW t \in Sessions
      PROVE  /\ tx'[t] \in ReadingType
             /\ ~tx'[t].late => tx'[t].op = "none"
             /\ tx'[t].op \in {"look", "decide"} => tx'[t].user \in Users
  <2>1. tx'[t] = Idle \/ tx'[t] = [tx[t] EXCEPT !.late = TRUE]
    BY DEF Outdated
  <2>2. CASE tx'[t] = Idle
    BY <2>2, IdleTyped
  <2>3. CASE tx'[t] = [tx[t] EXCEPT !.late = TRUE]
    <3>1. tx[t] \in ReadingType
      BY DEF TypeOK
    <3>2. /\ tx'[t] \in ReadingType /\ tx'[t].late
          /\ tx'[t].op = tx[t].op /\ tx'[t].user = tx[t].user
      BY <2>3, <3>1 DEF ReadingType
    <3> QED
      BY <3>2 DEF DecidersNamed
  <2> QED
    BY <2>1, <2>2, <2>3
<1>2. tx' \in [Sessions -> ReadingType]
  BY <1>1 DEF Outdated
<1> QED
  BY <1>1, <1>2 DEF DecidersNamed, Fresh

LEMMA WriteKeepsInv ==
  ASSUME CycleInv, NEW s, tx' = Outdated(s),
         sheet' \in SheetType, entries' \in [attendance: Nat, manual: Nat],
         approval' \in [Users -> ApprovalType],
         payroll' \in [status: {"DRAFT", "CALCULATED"}, stale: BOOLEAN, hours: Nat],
         overtaken' \in BOOLEAN, carried' \in BOOLEAN,
         DecidedInTurn', TotalsAgree', PayrollPaysApproved', ApprovedByPolicy'
  PROVE  CycleInv'
<1>1. tx' \in [Sessions -> ReadingType] /\ DecidersNamed' /\ Fresh'
  BY NothingReliedOn DEF CycleInv
<1>2. TypeOK'
  BY <1>1 DEF TypeOK
<1> QED
  BY <1>1, <1>2 DEF CycleInv

LEMMA MarkedTyped ==
  ASSUME TypeOK
  PROVE  /\ Marked \in [status: {"DRAFT", "CALCULATED"}, stale: BOOLEAN, hours: Nat]
         /\ Marked.status = "CALCULATED" => Marked.stale
BY DEF TypeOK, Marked

LEMMA CommitFacts ==
  ASSUME CycleInv, NEW s \in Sessions, NEW op, Commit(s, op)
  PROVE  /\ tx[s].op = op /\ tx' = Outdated(s) /\ overtaken' \in BOOLEAN
         /\ ~overtaken' => ~overtaken /\ ~tx[s].late
         /\ tx[s] \in ReadingType
<1>1. tx[s] \in ReadingType /\ tx[s].late \in BOOLEAN /\ overtaken \in BOOLEAN
  BY DEF CycleInv, TypeOK, ReadingType
<1> QED
  BY <1>1 DEF Commit

LEMMA DeriveKeepsInv ==
  ASSUME CycleInv, NEW minutes \in Attendance, derive(minutes)
  PROVE  CycleInv'
<1> USE DEF derive
<1>1. minutes \in Nat /\ entries \in [attendance: Nat, manual: Nat]
  BY TimesheetAssumption DEF CycleInv, TypeOK
<1>2. /\ sheet' \in SheetType /\ sheet'.status = "DRAFT"
      /\ sheet'.total = minutes + entries.manual
  BY <1>1 DEF SheetType, DerivedTotal
<1>3. /\ entries' \in [attendance: Nat, manual: Nat]
      /\ entries'.attendance = minutes /\ entries'.manual = entries.manual
  BY <1>1
<1>4. approval' \in [Users -> ApprovalType]
  BY TimesheetAssumption DEF NoApprovals, NoApproval, ApprovalType
<1>5. /\ payroll' \in [status: {"DRAFT", "CALCULATED"}, stale: BOOLEAN, hours: Nat]
      /\ payroll'.status = "CALCULATED" => payroll'.stale
  BY MarkedTyped DEF CycleInv
<1>6. TotalsAgree' /\ PayrollPaysApproved' /\ DecidedInTurn' /\ ApprovedByPolicy'
  BY <1>2, <1>3, <1>5 DEF TotalsAgree, PayrollPaysApproved, DecidedInTurn, ApprovedByPolicy
<1> QED
  BY <1>2, <1>3, <1>4, <1>5, <1>6, WriteKeepsInv

LEMMA EnterKeepsInv ==
  ASSUME CycleInv, NEW s \in Sessions, addManualEntryWrite(s)
  PROVE  CycleInv'
<1> USE DEF addManualEntryWrite
<1>1. /\ tx[s].op = "enter" /\ tx' = Outdated(s) /\ overtaken' \in BOOLEAN
      /\ ~overtaken' => ~overtaken /\ ~tx[s].late
      /\ tx[s].minutes \in Nat
  BY CommitFacts DEF ReadingType
<1>2. /\ entries \in [attendance: Nat, manual: Nat] /\ sheet.total \in Nat
      /\ approval' \in [Users -> ApprovalType] /\ carried' \in BOOLEAN
      /\ payroll' \in [status: {"DRAFT", "CALCULATED"}, stale: BOOLEAN, hours: Nat]
  BY DEF CycleInv, TypeOK, SheetType
<1>3. /\ sheet' \in SheetType /\ sheet'.status = "DRAFT"
      /\ sheet'.total = sheet.total + tx[s].minutes
  BY <1>1, <1>2 DEF SheetType
<1>4. /\ entries' \in [attendance: Nat, manual: Nat]
      /\ entries'.attendance = entries.attendance
      /\ entries'.manual = entries.manual + tx[s].minutes
  BY <1>1, <1>2
<1>5. TotalsAgree'
  BY <1>1, <1>2, <1>3, <1>4 DEF CycleInv, TotalsAgree
<1>6. PayrollPaysApproved'
  BY <1>1, <1>3 DEF CycleInv, Fresh, PayrollPaysApproved, ApprovedHours
<1>7. DecidedInTurn' /\ ApprovedByPolicy'
  BY <1>3 DEF DecidedInTurn, ApprovedByPolicy
<1> QED
  BY <1>1, <1>2, <1>3, <1>4, <1>5, <1>6, <1>7, WriteKeepsInv

LEMMA SubmitKeepsInv ==
  ASSUME CycleInv, NEW s \in Sessions, submitWrite(s)
  PROVE  CycleInv'
<1> USE DEF submitWrite
<1>1. /\ tx' = Outdated(s) /\ overtaken' \in BOOLEAN
      /\ ~overtaken' => ~overtaken
  BY CommitFacts
<1>2. /\ sheet \in SheetType /\ carried \in BOOLEAN
      /\ entries' \in [attendance: Nat, manual: Nat]
      /\ approval' \in [Users -> ApprovalType]
      /\ payroll' \in [status: {"DRAFT", "CALCULATED"}, stale: BOOLEAN, hours: Nat]
  BY DEF CycleInv, TypeOK
<1>3. carried' \in BOOLEAN /\ (~carried' => approval' = NoApprovals)
  BY <1>2
<1>4. sheet' \in SheetType /\ sheet'.status = "SUBMITTED" /\ sheet'.total = sheet.total
  BY <1>2 DEF SheetType
<1>5. TotalsAgree' /\ ApprovedByPolicy' /\ PayrollPaysApproved'
  BY <1>1, <1>4 DEF CycleInv, TotalsAgree, ApprovedByPolicy, PayrollPaysApproved, ApprovedHours
<1>6. DecidedInTurn'
  <2> SUFFICES ASSUME ~carried' PROVE ApprovedUpTo(0)'
    BY TimesheetAssumption DEF DecidedInTurn
  <2>1. \A u \in Users : approval'[u].verdict = "NONE"
    BY <1>3 DEF NoApprovals, NoApproval
  <2> QED
    BY <2>1 DEF ApprovedUpTo
<1> QED
  BY <1>1, <1>2, <1>3, <1>4, <1>5, <1>6, WriteKeepsInv

LEMMA UnsubmitKeepsInv ==
  ASSUME CycleInv, NEW s \in Sessions, unsubmitWrite(s)
  PROVE  CycleInv'
<1> USE DEF unsubmitWrite
<1>1. /\ tx[s].op = "unsubmit" /\ tx' = Outdated(s) /\ overtaken' \in BOOLEAN
      /\ ~overtaken' => ~overtaken /\ ~tx[s].late
  BY CommitFacts
<1>2. /\ sheet \in SheetType /\ carried' \in BOOLEAN
      /\ entries' \in [attendance: Nat, manual: Nat]
      /\ approval' \in [Users -> ApprovalType]
      /\ payroll' \in [status: {"DRAFT", "CALCULATED"}, stale: BOOLEAN, hours: Nat]
  BY DEF CycleInv, TypeOK
<1>3. sheet' \in SheetType /\ sheet'.status = "DRAFT" /\ sheet'.total = sheet.total
  BY <1>2 DEF SheetType
<1>4. TotalsAgree' /\ ApprovedByPolicy' /\ DecidedInTurn'
  BY <1>3 DEF CycleInv, TotalsAgree, ApprovedByPolicy, DecidedInTurn
<1>5. PayrollPaysApproved'
  BY <1>1, <1>3 DEF CycleInv, Fresh, PayrollPaysApproved, ApprovedHours
<1> QED
  BY <1>1, <1>2, <1>3, <1>4, <1>5, WriteKeepsInv

LEMMA DecideTyped ==
  ASSUME CycleInv, NEW s \in Sessions, NEW verdict \in {"APPROVED", "REJECTED"},
         decideWrite(s, verdict)
  PROVE  /\ tx[s].op = "decide" /\ tx' = Outdated(s) /\ overtaken' \in BOOLEAN
         /\ ~overtaken' => ~overtaken /\ ~tx[s].late
         /\ tx[s].user \in Users /\ approval[tx[s].user].verdict = "NONE"
         /\ approval' \in [Users -> ApprovalType]
         /\ \A u \in Users : approval'[u] = IF u = tx[s].user
              THEN [step |-> tx[s].step, verdict |-> verdict, hours |-> tx[s].minutes]
              ELSE approval[u]
         /\ sheet' \in SheetType /\ sheet'.total = sheet.total
         /\ sheet'.status = IF verdict = "REJECTED" \/ ~hasMoreSteps(tx[s].step)
                              THEN verdict ELSE "SUBMITTED"
         /\ payroll' \in [status: {"DRAFT", "CALCULATED"}, stale: BOOLEAN, hours: Nat]
         /\ carried' = carried /\ carried \in BOOLEAN
         /\ entries' = entries /\ entries \in [attendance: Nat, manual: Nat]
<1> USE DEF decideWrite
<1>1. /\ tx[s].op = "decide" /\ tx' = Outdated(s) /\ overtaken' \in BOOLEAN
      /\ ~overtaken' => ~overtaken /\ ~tx[s].late
      /\ tx[s] \in ReadingType
  BY CommitFacts
<1>2. tx[s].user \in Users /\ tx[s].step \in 0..NSteps /\ tx[s].minutes \in Nat
  BY <1>1 DEF CycleInv, DecidersNamed, ReadingType
<1>3. /\ sheet \in SheetType /\ approval \in [Users -> ApprovalType]
      /\ payroll \in [status: {"DRAFT", "CALCULATED"}, stale: BOOLEAN, hours: Nat]
      /\ carried \in BOOLEAN /\ entries \in [attendance: Nat, manual: Nat]
  BY DEF CycleInv, TypeOK
<1>4. [step |-> tx[s].step, verdict |-> verdict, hours |-> tx[s].minutes] \in ApprovalType
  BY <1>2 DEF ApprovalType
<1>5. /\ approval' \in [Users -> ApprovalType]
      /\ \A u \in Users : approval'[u] = IF u = tx[s].user
           THEN [step |-> tx[s].step, verdict |-> verdict, hours |-> tx[s].minutes]
           ELSE approval[u]
  BY <1>2, <1>3, <1>4
<1>6. /\ sheet' \in SheetType /\ sheet'.total = sheet.total
      /\ sheet'.status = IF verdict = "REJECTED" \/ ~hasMoreSteps(tx[s].step)
                           THEN verdict ELSE "SUBMITTED"
  BY <1>3 DEF SheetType
<1>7. payroll' \in [status: {"DRAFT", "CALCULATED"}, stale: BOOLEAN, hours: Nat]
  BY <1>3, MarkedTyped DEF CycleInv
<1>8. approval[tx[s].user].verdict = "NONE"
  BY DEF NoApproval
<1> QED
  BY <1>1, <1>2, <1>3, <1>5, <1>6, <1>7, <1>8

(* A decision taken in time is that of the next step, by who may take it,   *)
(* on the hours the sheet has.                                              *)
LEMMA DecisionInTurn ==
  ASSUME CycleInv, NEW s \in Sessions, NEW verdict \in {"APPROVED", "REJECTED"},
         decideWrite(s, verdict), ~overtaken', ~carried
  PROVE  \E k \in 0..(NSteps - 1) :
           /\ hasMoreSteps(tx[s].step) <=> k + 1 < NSteps
           /\ verdict = "APPROVED" => ApprovedUpTo(k + 1)'
<1>1. /\ tx[s].op = "decide" /\ ~overtaken /\ ~tx[s].late /\ tx[s].user \in Users
      /\ approval[tx[s].user].verdict = "NONE"
      /\ sheet'.total = sheet.total
  BY DecideTyped
<1>2. \A u \in Users : approval'[u] = IF u = tx[s].user
        THEN [step |-> tx[s].step, verdict |-> verdict, hours |-> tx[s].minutes]
        ELSE approval[u]
  BY DecideTyped
<1>3. /\ sheet.status = "SUBMITTED" /\ tx[s].minutes = sheet.total
      /\ tx[s].step = pendingStep /\ MayDecide(tx[s].user)
  BY <1>1 DEF CycleInv, Fresh
<1>4. PICK k \in 0..(NSteps - 1) : ApprovedUpTo(k)
  BY <1>1, <1>3 DEF CycleInv, DecidedInTurn
<1>5. pendingStep = k + 1 /\ Pending(approval) # {}
  BY <1>4, NextStepPends DEF CycleInv
<1>6. tx[s].user \in Approvers[k + 1]
  BY <1>3, <1>5 DEF MayDecide, pendingStep
<1>7. hasMoreSteps(tx[s].step) <=> k + 1 < NSteps
  BY <1>3, <1>5 DEF hasMoreSteps
<1>8. ASSUME verdict = "APPROVED" PROVE ApprovedUpTo(k + 1)'
  <2>1. ASSUME NEW n \in 1..(k + 1)
        PROVE  \E u \in Approvers[n] : approval'[u] = Row(n)'
    <3>1. CASE n = k + 1
      BY <1>1, <1>2, <1>3, <1>5, <1>6, <1>8, <3>1 DEF Row
    <3>2. CASE n # k + 1
      <4>1. n \in 1..k
        BY <3>2
      <4>2. PICK u \in Approvers[n] : approval[u] = Row(n)
        BY <1>4, <4>1 DEF ApprovedUpTo
      <4>3. u \in Users
        BY <4>1, <4>2, TimesheetAssumption DEF Steps
      <4>4. approval[u].verdict = "APPROVED"
        BY <4>2 DEF Row
      <4>5. approval'[u] = approval[u]
        BY <1>1, <1>2, <4>3, <4>4
      <4> QED
        BY <1>1, <4>2, <4>5 DEF Row
    <3> QED
      BY <3>1, <3>2
  <2>2. ASSUME NEW u \in Users, approval'[u].verdict # "NONE"
        PROVE  approval'[u].step \in 1..(k + 1)
    <3>1. CASE u = tx[s].user
      BY <1>2, <1>3, <1>5, <3>1
    <3>2. CASE u # tx[s].user
      BY <1>2, <1>4, <2>2, <3>2 DEF ApprovedUpTo
    <3> QED
      BY <3>1, <3>2
  <2> QED
    BY <2>1, <2>2 DEF ApprovedUpTo
<1> QED
  BY <1>7, <1>8

LEMMA DecideKeepsInv ==
  ASSUME CycleInv, NEW s \in Sessions, NEW verdict \in {"APPROVED", "REJECTED"},
         decideWrite(s, verdict)
  PROVE  CycleInv'
<1>1. /\ tx[s].op = "decide" /\ tx' = Outdated(s) /\ overtaken' \in BOOLEAN
      /\ ~overtaken' => ~overtaken /\ ~tx[s].late
      /\ approval' \in [Users -> ApprovalType]
      /\ sheet' \in SheetType /\ sheet'.total = sheet.total
      /\ sheet'.status = IF verdict = "REJECTED" \/ ~hasMoreSteps(tx[s].step)
                           THEN verdict ELSE "SUBMITTED"
      /\ payroll' \in [status: {"DRAFT", "CALCULATED"}, stale: BOOLEAN, hours: Nat]
      /\ carried' = carried /\ carried \in BOOLEAN
      /\ entries' = entries /\ entries \in [attendance: Nat, manual: Nat]
  BY DecideTyped
<1>2. TotalsAgree'
  BY <1>1 DEF CycleInv, TotalsAgree
<1>3. PayrollPaysApproved'
  <2> SUFFICES ASSUME ~overtaken' PROVE PayrollPaysApproved'
    BY DEF PayrollPaysApproved
  <2>1. sheet.status = "SUBMITTED"
    BY <1>1 DEF CycleInv, Fresh
  <2>2. CASE hasMoreSteps(tx[s].step)
    <3>1. payroll' = payroll /\ sheet'.status # "APPROVED"
      BY <1>1, <2>2 DEF decideWrite
    <3> QED
      BY <1>1, <2>1, <3>1 DEF CycleInv, PayrollPaysApproved, ApprovedHours
  <2>3. CASE ~hasMoreSteps(tx[s].step)
    <3>1. payroll' = Marked
      BY <2>3 DEF decideWrite
    <3> QED
      BY <3>1, MarkedTyped DEF CycleInv, PayrollPaysApproved
  <2> QED
    BY <2>2, <2>3
<1>4. DecidedInTurn'
  <2> SUFFICES ASSUME sheet'.status = "SUBMITTED", ~overtaken', ~carried'
               PROVE  \E k \in 0..(NSteps - 1) : ApprovedUpTo(k)'
    BY DEF DecidedInTurn
  <2>1. PICK k \in 0..(NSteps - 1) : /\ hasMoreSteps(tx[s].step) <=> k + 1 < NSteps
                                     /\ verdict = "APPROVED" => ApprovedUpTo(k + 1)'
    BY <1>1, DecisionInTurn
  <2>2. verdict = "APPROVED" /\ k + 1 \in 0..(NSteps - 1)
    BY <1>1, <2>1, TimesheetAssumption
  <2> QED
    BY <2>1, <2>2
<1>5. ApprovedByPolicy'
  <2> SUFFICES ASSUME sheet'.status = "APPROVED", ~overtaken', ~carried'
               PROVE  EveryStepApproved'
    BY DEF ApprovedByPolicy
  <2>1. PICK k \in 0..(NSteps - 1) : /\ hasMoreSteps(tx[s].step) <=> k + 1 < NSteps
                                     /\ verdict = "APPROVED" => ApprovedUpTo(k + 1)'
    BY <1>1, DecisionInTurn
  <2>2. verdict = "APPROVED" /\ k + 1 = NSteps
    BY <1>1, <2>1, TimesheetAssumption
  <2> QED
    BY <2>1, <2>2 DEF ApprovedUpTo, EveryStepApproved, Row, Steps
<1> QED
  BY <1>1, <1>2, <1>3, <1>4, <1>5, WriteKeepsInv

LEMMA RollbackKeepsInv ==
  ASSUME CycleInv, NEW s \in Sessions, rollback(s)
  PROVE  CycleInv'
<1> USE DEF rollback
<1>1. tx \in [Sessions -> ReadingType]
  BY DEF CycleInv, TypeOK
<1>2. \A t \in Sessions : tx'[t] = IF t = s THEN Idle ELSE tx[t]
  BY <1>1
<1>3. TypeOK'
  BY <1>1, IdleTyped DEF CycleInv, TypeOK
<1>4. DecidersNamed'
  BY <1>2, IdleTyped DEF CycleInv, DecidersNamed
<1>5. Fresh'
  BY <1>2, IdleTyped DEF CycleInv, Fresh, pendingStep, MayDecide
<1>6. DecidedInTurn' /\ ApprovedByPolicy'
  BY DEF CycleInv, DecidedInTurn, ApprovedByPolicy, ApprovedUpTo, Row, EveryStepApproved
<1>7. TotalsAgree' /\ PayrollPaysApproved'
  BY DEF CycleInv, TotalsAgree, PayrollPaysApproved, ApprovedHours
<1> QED
  BY <1>3, <1>4, <1>5, <1>6, <1>7 DEF CycleInv

LEMMA CalculateKeepsInv == CycleInv /\ calculate => CycleInv'
<1> SUFFICES ASSUME CycleInv, calculate PROVE CycleInv'
  OBVIOUS
<1> USE DEF calculate
<1>1. ApprovedHours \in Nat /\ ApprovedHours' = ApprovedHours
  BY DEF CycleInv, TypeOK, SheetType, ApprovedHours
<1>2. TypeOK'
  BY <1>1 DEF CycleInv, TypeOK
<1>3. DecidersNamed' /\ Fresh'
  BY DEF CycleInv, DecidersNamed, Fresh, pendingStep, MayDecide
<1>4. DecidedInTurn' /\ ApprovedByPolicy'
  BY DEF CycleInv, DecidedInTurn, ApprovedByPolicy, ApprovedUpTo, Row, EveryStepApproved
<1>5. TotalsAgree' /\ PayrollPaysApproved'
  BY <1>1 DEF CycleInv, TotalsAgree, PayrollPaysApproved
<1> QED
  BY <1>2, <1>3, <1>4, <1>5 DEF CycleInv

LEMMA StepKeepsInv == CycleInv /\ [Next]_vars => CycleInv'
<1> SUFFICES ASSUME CycleInv, [Next]_vars PROVE CycleInv'
  OBVIOUS
<1>1. CASE UNCHANGED vars
  BY <1>1 DEF vars, CycleInv, TypeOK, DecidersNamed, Fresh, DecidedInTurn, TotalsAgree,
              PayrollPaysApproved, ApprovedByPolicy, ApprovedUpTo, Row, EveryStepApproved,
              ApprovedHours, pendingStep, MayDecide
<1>2. CASE \E minutes \in Attendance : derive(minutes)
  BY <1>2, DeriveKeepsInv
<1>3. CASE calculate
  BY <1>3, CalculateKeepsInv
<1>4. ASSUME NEW s \in Sessions,
             \/ \E minutes \in 1..DayMinutes : addManualEntryRead(s, minutes)
             \/ \E u \in Users : decideRead(s, u)
             \/ submitRead(s) \/ unsubmitRead(s) \/ decideApprovals(s)
      PROVE  CycleInv'
  BY <1>4, ReadsKeepInv
<1>5. ASSUME NEW s \in Sessions,
             addManualEntryWrite(s) \/ submitWrite(s) \/ unsubmitWrite(s) \/ rollback(s)
      PROVE  CycleInv'
  BY <1>5, EnterKeepsInv, SubmitKeepsInv, UnsubmitKeepsInv, RollbackKeepsInv
<1>6. ASSUME NEW s \in Sessions,
             \E verdict \in {"APPROVED", "REJECTED"} : decideWrite(s, verdict)
      PROVE  CycleInv'
  BY <1>6, DecideKeepsInv
<1> QED
  BY <1>1, <1>2, <1>3, <1>4, <1>5, <1>6 DEF Next

LEMMA CycleInvariant == Spec => []CycleInv
BY InitCycleInv, StepKeepsInv, PTL DEF Spec

-----------------------------------------------------------------------------
(* The theorems. *)

(* The rows hold what the schema lets them hold.                            *)
THEOREM CycleTypeCorrect == Spec => []TypeOK
<1>1. CycleInv => TypeOK
  BY DEF CycleInv
<1> QED
  BY CycleInvariant, <1>1, PTL

(* addManualEntry's increment and derive's sum keep the total the sum of    *)
(* the entries, whatever interleaves.                                       *)
THEOREM TotalIsSum == Spec => []TotalsAgree
<1>1. CycleInv => TotalsAgree
  BY DEF CycleInv
<1> QED
  BY CycleInvariant, <1>1, PTL

(* An approved sheet has the approval of every step on the hours it has,    *)
(* for any policy: decide finds the pending step and assertApprover checks  *)
(* it, unless a handler overtook another or rows were carried over.         *)
THEOREM SheetFollowsPolicy == Spec => []ApprovedByPolicy
<1>1. CycleInv => ApprovedByPolicy
  BY DEF CycleInv
<1> QED
  BY CycleInvariant, <1>1, PTL

(* derive and decide mark the run before its hours differ from the approved *)
(* ones.                                                                    *)
THEOREM RunPaysApproved == Spec => []PayrollPaysApproved
<1>1. CycleInv => PayrollPaysApproved
  BY DEF CycleInv
<1> QED
  BY CycleInvariant, <1>1, PTL

(* No handler changes the hours of a sheet and leaves it approved, not even *)
(* one that acts on a reading that is out of date.                          *)
THEOREM HoursStayFrozen == Spec => ApprovedHoursFrozen
<1> DEFINE Frozen == sheet.status = "APPROVED" /\ sheet'.status = "APPROVED"
                       => entries' = entries /\ sheet'.total = sheet.total
<1>1. ASSUME CycleInv, [Next]_vars PROVE Frozen
  <2>1. sheet \in SheetType
    BY <1>1 DEF CycleInv, TypeOK
  <2>2. CASE sheet' = sheet /\ entries' = entries
    BY <2>2
  <2>3. CASE \E minutes \in Attendance : derive(minutes)
    <3>1. sheet'.status = "DRAFT"
      BY <2>3 DEF derive
    <3> QED
      BY <3>1
  <2>4. CASE \E s \in Sessions : addManualEntryWrite(s)
    <3>1. sheet'.status = "DRAFT"
      BY <2>4 DEF addManualEntryWrite
    <3> QED
      BY <3>1
  <2>5. CASE \E s \in Sessions : submitWrite(s) \/ unsubmitWrite(s)
    <3>1. entries' = entries /\ sheet'.total = sheet.total
      BY <2>1, <2>5 DEF submitWrite, unsubmitWrite, SheetType
    <3> QED
      BY <3>1
  <2>6. CASE \E s \in Sessions, verdict \in {"APPROVED", "REJECTED"} : decideWrite(s, verdict)
    BY <1>1, <2>6, DecideTyped
  <2> QED
    BY <1>1, <2>2, <2>3, <2>4, <2>5, <2>6
    DEF Next, vars, calculate, addManualEntryRead, decideRead, decideApprovals, submitRead,
        unsubmitRead, Begin, rollback
<1>2. CycleInv /\ [Next]_vars => [Frozen]_vars
  BY <1>1
<1> QED
  BY CycleInvariant, <1>2, PTL DEF Spec, ApprovedHoursFrozen
=============================================================================
