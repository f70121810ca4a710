---------------------------- MODULE AttendanceDay ----------------------------
(***************************************************************************)
(* One employee's attendance on one day: punches, corrections and their    *)
(* approval, the check-out nobody made, and the review of a check-in on a  *)
(* granted optional holiday.  apps/api/src/modules/attendance.             *)
(*                                                                         *)
(* A punch and a holiday decision take the record's row lock before they   *)
(* read the punches: each is one step.  A correction is decided without a  *)
(* lock: its status is read, then its approvals and the day's punches, and *)
(* the decision is written later; a check-out is proposed by a form or by  *)
(* the nightly sweep, both of which look first and insert later.           *)
(*                                                                         *)
(* Time is counted in instants, of which one punch takes one: no two       *)
(* punches of the day are at the same instant.  The employee's next punch  *)
(* is on the following day.                                                *)
(***************************************************************************)
EXTENDS Naturals, Sequences, FiniteSets, SequencesExt

CONSTANTS
  Deciders,       \* calls of decideCorrection
  Requesters,     \* calls of requestMissingCheckOut and runs of the sweep
  NSteps,         \* steps of the ATTENDANCE_CORRECTION policy
  MaxShift,       \* a check-out is at most this long after its check-in
  Cutoff,         \* the organization's autoCheckOutAt
  DayEnd,         \* the last instant of the day
  Stated,         \* bound of the model: the times people state
  MaxTime,        \* bound of the model: the last instant
  MaxPunches,     \* bound of the model: punches of the day
  MaxCorrections  \* bound of the model: corrections of the day

Instants    == 1..MaxTime
NoTime      == 0
Corrections == 1..MaxCorrections
NoOne       == 0

ASSUME AttendanceAssumption ==
  /\ NSteps \in Nat \ {0}
  /\ MaxShift \in Nat /\ MaxTime \in Nat
  /\ Cutoff \in Instants /\ DayEnd \in Instants
  /\ Stated \subseteq Instants
  /\ MaxPunches \in Nat /\ MaxCorrections \in Nat

VARIABLES
  now,        \* the clock
  punches,    \* attendance_punches of the day, in order of creation
  record,     \* attendance_records: status and worked time
  correction, \* attendance_corrections and their attendance_approvals
  decider,    \* what each decision has read
  contested,  \* history: corrections two decisions worked on at once
  requester,  \* what each proposal of a check-out has found
  nextPunch,  \* the employee's first punch on a later day
  granted,    \* the optional holiday is CONFIRMED for the employee
  reviewing,  \* an attendance_holiday_reviews row is PENDING
  outcome     \* the latest decided review's outcome

vars == <<now, punches, record, correction, decider, contested, requester,
          nextPunch, granted, reviewing, outcome>>

day     == <<punches, record>>
holiday == <<granted, reviewing, outcome>>

NoRecord     == [status |-> "NONE", worked |-> 0]
NoCorrection == [status |-> "NONE", kind |-> "NONE", in |-> NoTime,
                 out |-> NoTime, approvals |-> << >>]
Idle         == [step |-> "idle", of |-> NoOne, verdict |-> "NONE",
                 decided |-> 0, seen |-> << >>, at |-> NoTime,
                 replaced |-> FALSE]
Asleep       == [step |-> "idle", at |-> NoTime]

Init ==
  /\ now = 1
  /\ punches = << >>
  /\ record = NoRecord
  /\ correction = [c \in Corrections |-> NoCorrection]
  /\ decider = [d \in Deciders |-> Idle]
  /\ contested = {}
  /\ requester = [r \in Requesters |-> Asleep]
  /\ nextPunch = NoTime
  /\ granted = FALSE
  /\ reviewing = FALSE
  /\ outcome = "NONE"

-----------------------------------------------------------------------------
(* Punches and what they add up to. *)

Distinct(ps) == \A i, j \in DOMAIN ps : ps[i].at = ps[j].at => i = j

(* The punches' numbers, oldest punch first. *)
Before(ps, i) ==
  {j \in DOMAIN ps : ps[j].at < ps[i].at \/ (ps[j].at = ps[i].at /\ j < i)}

Order(ps) ==
  [n \in DOMAIN ps |-> CHOOSE i \in DOMAIN ps : Cardinality(Before(ps, i)) = n - 1]

InOrder(ps) == [n \in DOMAIN ps |-> ps[Order(ps)[n]]]

(* hasOpenPunch. *)
Open(ps) == ps # << >> /\ Last(InOrder(ps)).type = "IN"

(* attendanceTotals, of a list in the order it is given. *)
Total(list) ==
  LET take(sum, p) ==
        IF p.type = "IN" /\ sum.open = NoTime THEN [sum EXCEPT !.open = p.at]
        ELSE IF p.type = "OUT" /\ sum.open # NoTime
          THEN [worked |-> sum.worked + (IF p.at > sum.open THEN p.at - sum.open ELSE 0),
                open |-> NoTime]
        ELSE sum
  IN FoldLeft(take, [worked |-> 0, open |-> NoTime], list)

Worked(list)    == Total(list).worked
Completed(list) == Total(list).worked > 0 /\ Total(list).open = NoTime

Recorded(ps) ==
  [status |-> IF Completed(InOrder(ps)) THEN "COMPLETED" ELSE "OPEN",
   worked |-> Worked(InOrder(ps))]

(* A punch of the employee is at the present instant; one entered for them *)
(* by somebody else, or imported, at the time stated.  A check-out needs   *)
(* the latest punch to be a check-in, a check-in that it is none; the day  *)
(* may have several sessions.                                              *)
punch(type, at) ==
  /\ Len(punches) < MaxPunches
  /\ (type = "OUT") = Open(punches)
  /\ punches' = Append(punches, [type |-> type, at |-> at])
  /\ Distinct(punches')
  /\ record' = Recorded(punches')
  /\ UNCHANGED <<now, correction, decider, contested, requester, nextPunch,
                 holiday>>

(* The employee punches on the following day. *)
punchNextDay ==
  /\ now > DayEnd /\ nextPunch = NoTime
  /\ nextPunch' = now
  /\ UNCHANGED <<now, day, correction, decider, contested, requester,
                 holiday>>

tick ==
  /\ now < MaxTime
  /\ now' = now + 1
  /\ UNCHANGED <<day, correction, decider, contested, requester, nextPunch,
                 holiday>>

-----------------------------------------------------------------------------
(* Raising a correction. *)

Free == {c \in Corrections : correction[c].status = "NONE"}

Raised(kind, in, out) ==
  [status |-> "PENDING", kind |-> kind, in |-> in, out |-> out, approvals |-> << >>]

raise(kind, in, out) ==
  \E c \in Free :
    /\ \A b \in Free : c <= b
    /\ correction' = [correction EXCEPT ![c] = Raised(kind, in, out)]

(* requestCorrection: the first check-in, the first check-out, or neither, *)
(* is to be moved.                                                         *)
requestCorrection(in, out) ==
  /\ record.status # "NONE"
  /\ in = out => in = NoTime
  /\ raise("MOVE", in, out)
  /\ UNCHANGED <<now, day, decider, contested, requester, nextPunch,
                 holiday>>

(* assertValidMissingCheckOut. *)
ValidCheckOut(ps, at) ==
  LET last == Last(InOrder(ps)).at IN
  /\ Open(ps)
  /\ last < at /\ at <= now /\ at - last <= MaxShift
  /\ last < nextPunch => at < nextPunch

CheckOutPending ==
  \E c \in Corrections :
    correction[c].status = "PENDING" /\ correction[c].kind = "CHECK_OUT"

(* requestMissingCheckOut: the day and its pending corrections are read. *)
requestMissingCheckOut(r, at) ==
  /\ requester[r].step = "idle"
  /\ record.status # "NONE"
  /\ ValidCheckOut(punches, at)
  /\ ~CheckOutPending
  /\ requester' = [requester EXCEPT ![r] = [step |-> "create", at |-> at]]
  /\ UNCHANGED <<now, day, correction, decider, contested, nextPunch,
                 holiday>>

(* closeOrganization reads the open days that are past their cutoff, ... *)
sweep(r) ==
  /\ requester[r].step = "idle"
  /\ record.status = "OPEN" /\ now >= Cutoff
  /\ Open(punches)
  /\ requester' = [requester EXCEPT ![r] = [step |-> "close", at |-> Cutoff]]
  /\ UNCHANGED <<now, day, correction, decider, contested, nextPunch,
                 holiday>>

(* ... and closeDay, in a transaction of its own, the pending corrections. *)
closeDay(r) ==
  /\ requester[r].step = "close"
  /\ requester' = [requester EXCEPT ![r] =
       IF CheckOutPending THEN Asleep ELSE [@ EXCEPT !.step = "create"]]
  /\ UNCHANGED <<now, day, correction, decider, contested, nextPunch,
                 holiday>>

createCheckOut(r) ==
  /\ requester[r].step = "create"
  /\ raise("CHECK_OUT", NoTime, requester[r].at)
  /\ requester' = [requester EXCEPT ![r] = Asleep]
  /\ UNCHANGED <<now, day, decider, contested, nextPunch, holiday>>

-----------------------------------------------------------------------------
(* decideCorrection. *)

Verdicts == {"APPROVED", "REJECTED"}

Of(d) == correction[decider[d].of]

(* A decision reads the correction, which has to be pending, ... *)
decideRead(d, c) ==
  /\ decider[d] = Idle
  /\ correction[c].status = "PENDING"
  /\ decider' = [decider EXCEPT
       ![d].step = "read", ![d].of = c, ![d].at = correction[c].out]
  /\ contested' = IF \E e \in Deciders : decider[e].of = c
                    THEN contested \cup {c} ELSE contested
  /\ UNCHANGED <<now, day, correction, requester, nextPunch, holiday>>

(* Mutant of StepLeft: a decision is taken though no step is left. *)
AnyStepLeft(d) == TRUE

StepLeft(d) == Len(Of(d).approvals) < NSteps

(* ... then its approvals, which leave a step to decide, and, where that   *)
(* may be the final one, the punches of now.  The queries are separate:    *)
(* another decision may be committed between the two.  The approver may    *)
(* put another time in place of a proposed check-out.                      *)
decideApprovals(d, verdict, at) ==
  /\ decider[d].step = "read"
  /\ at # NoTime => Of(d).kind = "CHECK_OUT"
  /\ StepLeft(d)
  /\ LET decided == Len(Of(d).approvals) IN
     decider' = [decider EXCEPT ![d] =
       [step |-> "write", of |-> @.of, verdict |-> verdict, decided |-> decided,
        seen |-> IF verdict = "APPROVED" /\ decided + 1 = NSteps
                   THEN punches ELSE << >>,
        at |-> IF at # NoTime THEN at ELSE @.at, replaced |-> at # NoTime]]
  /\ UNCHANGED <<now, day, correction, contested, requester, nextPunch,
                 holiday>>

(* Mutant of FirstForStep: no unique key. *)
AnyForStep(d) == TRUE

(* One approval per correction and step: attendance_approvals' unique key. *)
FirstForStep(d) == Len(Of(d).approvals) = decider[d].decided

LastStep(d) == decider[d].decided + 1 = NSteps

Final(d)     == decider[d].verdict = "REJECTED" \/ LastStep(d)
TakesPart(d) == decider[d].verdict = "APPROVED" /\ LastStep(d)

Decided(d) ==
  [status |-> IF Final(d) THEN decider[d].verdict ELSE "PENDING",
   kind |-> Of(d).kind, in |-> Of(d).in,
   out |-> IF decider[d].replaced THEN decider[d].at ELSE Of(d).out,
   approvals |-> Append(Of(d).approvals, decider[d].verdict)]

approve(d) == correction' = [correction EXCEPT ![decider[d].of] = Decided(d)]

Rest(d) == decider' = [decider EXCEPT ![d] = Idle]

(* A rejection, or an approval that leaves steps to take. *)
decide(d) ==
  /\ decider[d].step = "write"
  /\ FirstForStep(d) /\ ~TakesPart(d)
  /\ approve(d) /\ Rest(d)
  /\ UNCHANGED <<now, day, contested, requester, nextPunch, holiday>>

(* correctionPunchUpdates: which punch of those read is moved, if any. *)
FirstOf(ps, type) ==
  {i \in DOMAIN ps :
     /\ ps[i].type = type
     /\ \A j \in DOMAIN ps : ps[j].type = type => ps[i].at <= ps[j].at}

MovedTo(d, type) ==
  IF Of(d).kind = "CHECK_OUT" THEN NoTime
  ELSE IF type = "IN" THEN Of(d).in ELSE Of(d).out

Moves(d) ==
  [i \in DOMAIN decider[d].seen |->
     LET type == decider[d].seen[i].type IN
     IF i \in FirstOf(decider[d].seen, type) THEN MovedTo(d, type) ELSE NoTime]

Moved(ps, moves) ==
  [i \in DOMAIN ps |->
     IF i \in DOMAIN moves /\ moves[i] # NoTime
       THEN [ps[i] EXCEPT !.at = moves[i]] ELSE ps[i]]

Movable(d) ==
  LET seen == decider[d].seen
      after == Moved(seen, Moves(d))
  IN
  /\ \A type \in {"IN", "OUT"} :
       MovedTo(d, type) # NoTime => FirstOf(seen, type) # {}
  /\ \A i \in FirstOf(seen, "IN"), j \in FirstOf(seen, "OUT") :
       after[i].at <= after[j].at

Corrected(list) == [status |-> "CORRECTED", worked |-> Worked(list)]

(* Mutant of decideMove: the record keeps its status. *)
decideMoveKeeping(d) ==
  /\ decider[d].step = "write" /\ Of(d).kind = "MOVE"
  /\ FirstForStep(d) /\ TakesPart(d) /\ Movable(d)
  /\ approve(d) /\ Rest(d)
  /\ punches' = Moved(punches, Moves(d))
  /\ Distinct(punches')
  /\ LET seen == decider[d].seen
         after == Moved(seen, Moves(d))
     IN record' = [record EXCEPT !.worked =
                     Worked([n \in DOMAIN seen |-> after[Order(seen)[n]]])]
  /\ UNCHANGED <<now, contested, requester, nextPunch, holiday>>

(* The final approval of a move: the punches read are moved, and the day   *)
(* is totalled over them, in the order they were read in.                  *)
decideMove(d) ==
  /\ decider[d].step = "write" /\ Of(d).kind = "MOVE"
  /\ FirstForStep(d) /\ TakesPart(d) /\ Movable(d)
  /\ approve(d) /\ Rest(d)
  /\ punches' = Moved(punches, Moves(d))
  /\ Distinct(punches')
  /\ LET seen == decider[d].seen
         after == Moved(seen, Moves(d))
     IN record' = Corrected([n \in DOMAIN seen |-> after[Order(seen)[n]]])
  /\ UNCHANGED <<now, contested, requester, nextPunch, holiday>>

(* Mutant of Closable: the check-out is validated against what was read. *)
ClosableAsRead(d) == ValidCheckOut(decider[d].seen, decider[d].at)

Closable(d) == ValidCheckOut(punches, decider[d].at)

(* addMissingCheckOut: the record is locked and the punches read again. *)
decideCheckOut(d) ==
  /\ decider[d].step = "write" /\ Of(d).kind = "CHECK_OUT"
  /\ FirstForStep(d) /\ TakesPart(d) /\ Movable(d) /\ Closable(d)
  /\ Len(punches) < MaxPunches
  /\ approve(d) /\ Rest(d)
  /\ punches' = Append(punches, [type |-> "OUT", at |-> decider[d].at])
  /\ record' = Corrected(InOrder(punches'))
  /\ UNCHANGED <<now, contested, requester, nextPunch, holiday>>

(* The transaction is rolled back: no step is left to decide, somebody     *)
(* decided it before, or the correction no longer fits the day.            *)
decideRefused(d) ==
  /\ \/ decider[d].step = "read" /\ ~StepLeft(d)
     \/ decider[d].step = "write" /\ ~FirstForStep(d)
     \/ /\ decider[d].step = "write" /\ TakesPart(d)
        /\ ~Movable(d) \/ (Of(d).kind = "CHECK_OUT" /\ ~Closable(d))
  /\ Rest(d)
  /\ UNCHANGED <<now, day, correction, contested, requester, nextPunch,
                 holiday>>

-----------------------------------------------------------------------------
(* The optional holiday. *)

(* holidayConflictState, and NONE where it is null. *)
Conflict ==
  IF ~granted THEN IF outcome = "CONVERT" THEN "CONVERTED" ELSE "NONE"
  ELSE IF punches = << >> THEN "NONE"
  ELSE IF record.status = "REJECTED" /\ outcome = "KEEP" THEN "KEPT"
  ELSE IF reviewing THEN "AWAITING_DECISION" ELSE "AWAITING_REASON"

(* The employee explains the check-in. *)
requestReview ==
  /\ Conflict = "AWAITING_REASON"
  /\ reviewing' = TRUE
  /\ UNCHANGED <<now, day, correction, decider, contested, requester,
                 nextPunch, granted, outcome>>

(* Mutant of keepHoliday: the worked time stays on the record. *)
keepHolidayWorked ==
  /\ reviewing /\ granted
  /\ record' = [record EXCEPT !.status = "REJECTED"]
  /\ reviewing' = FALSE /\ outcome' = "KEEP"
  /\ UNCHANGED <<now, punches, correction, decider, contested, requester,
                 nextPunch, granted>>

(* decide, once the review, the record and the selection are locked. *)
keepHoliday ==
  /\ reviewing /\ granted
  /\ record' = [status |-> "REJECTED", worked |-> 0]
  /\ reviewing' = FALSE /\ outcome' = "KEEP"
  /\ UNCHANGED <<now, punches, correction, decider, contested, requester,
                 nextPunch, granted>>

convertToWorkingDay ==
  /\ reviewing /\ granted
  /\ granted' = FALSE
  /\ reviewing' = FALSE /\ outcome' = "CONVERT"
  /\ UNCHANGED <<now, day, correction, decider, contested, requester,
                 nextPunch>>

(* The holiday was cancelled meanwhile: there is nothing left to decide. *)
closeReview ==
  /\ reviewing /\ ~granted
  /\ reviewing' = FALSE
  /\ UNCHANGED <<now, day, correction, decider, contested, requester,
                 nextPunch, granted, outcome>>

(* The employee selects the holiday, or cancels it, until the day is over. *)
selectHoliday ==
  /\ ~granted /\ now <= DayEnd
  /\ granted' = TRUE
  /\ UNCHANGED <<now, day, correction, decider, contested, requester,
                 nextPunch, reviewing, outcome>>

cancelSelection ==
  /\ granted /\ now <= DayEnd
  /\ granted' = FALSE
  /\ UNCHANGED <<now, day, correction, decider, contested, requester,
                 nextPunch, reviewing, outcome>>

-----------------------------------------------------------------------------
Decide(d) == decide(d) \/ decideMove(d) \/ decideCheckOut(d) \/ decideRefused(d)

Next ==
  \/ \E type \in {"IN", "OUT"}, at \in {now} \cup Stated : punch(type, at)
  \/ punchNextDay \/ tick
  \/ \E in, out \in Stated \cup {NoTime} : requestCorrection(in, out)
  \/ \E r \in Requesters :
       \/ \E at \in Stated : requestMissingCheckOut(r, at)
       \/ sweep(r) \/ closeDay(r) \/ createCheckOut(r)
  \/ \E d \in Deciders :
       \/ \E c \in Corrections : decideRead(d, c)
       \/ \E verdict \in Verdicts, at \in Stated \cup {NoTime} :
            decideApprovals(d, verdict, at)
       \/ Decide(d)
  \/ requestReview \/ keepHoliday \/ convertToWorkingDay \/ closeReview
  \/ selectHoliday \/ cancelSelection

Spec == Init /\ [][Next]_vars

-----------------------------------------------------------------------------
(* Properties. *)

PunchType == [type: {"IN", "OUT"}, at: Instants]

CorrectionType ==
  [status: {"NONE", "PENDING"} \cup Verdicts, kind: {"NONE", "MOVE", "CHECK_OUT"},
   in: Instants \cup {NoTime}, out: Instants \cup {NoTime},
   approvals: Seq(Verdicts)]

DeciderType ==
  [step: {"idle", "read", "write"}, of: Corrections \cup {NoOne},
   verdict: Verdicts \cup {"NONE"}, decided: 0..(NSteps - 1), seen: Seq(PunchType),
   at: Instants \cup {NoTime}, replaced: BOOLEAN]

TypeOK ==
  /\ now \in Instants
  /\ punches \in Seq(PunchType)
  /\ record \in [status: {"NONE", "OPEN", "COMPLETED", "CORRECTED", "REJECTED"},
                 worked: Nat]
  /\ correction \in [Corrections -> CorrectionType]
  /\ decider \in [Deciders -> DeciderType]
  /\ contested \subseteq Corrections
  /\ requester \in [Requesters -> [step: {"idle", "close", "create"},
                                   at: Instants \cup {NoTime}]]
  /\ nextPunch \in Instants \cup {NoTime}
  /\ granted \in BOOLEAN /\ reviewing \in BOOLEAN
  /\ outcome \in {"NONE", "KEEP", "CONVERT"}

(* A day that is OPEN or COMPLETED adds up: its worked time, and whether   *)
(* it is complete, are those of the punches it has now, however corrections*)
(* of it were approved, refused or overtaken.  (A CORRECTED day need not:  *)
(* the totals of a moved punch are those of the punches that were read.)   *)
UncorrectedDayAddsUp ==
  record.status \in {"OPEN", "COMPLETED"} => record = Recorded(punches)

(* Whoever else approved, punched or corrected since the check-out was     *)
(* asked for, an approved correction adds one only to a day that still     *)
(* ends with a check-in: after it, at a time that is over and before the   *)
(* employee's next punch, and the day is totalled with it.                 *)
AddedCheckOutClosesDay ==
  [][\A c \in Corrections :
       /\ correction[c].kind = "CHECK_OUT"
       /\ correction[c].status # "APPROVED" /\ correction'[c].status = "APPROVED"
       => /\ Open(punches)
          /\ \E at \in Instants :
               /\ Last(InOrder(punches)).at < at /\ at <= now
               /\ Last(InOrder(punches)).at < nextPunch => at < nextPunch
               /\ punches' = Append(punches, [type |-> "OUT", at |-> at])
          /\ record'.worked = Worked(InOrder(punches'))]_vars

(* However the decisions overlap, a correction is APPROVED only by the     *)
(* verdict of the policy's last step, once every step before has one, and  *)
(* REJECTED only by the latest verdict.  One that no two decisions worked  *)
(* on at once is approved by every step, or rejected by one of them, and   *)
(* what it was decided stays decided.  (Of one that two worked on, a step  *)
(* refused between the readings of the other counts as decided.)           *)
ApprovedByEveryStep ==
  \A c \in Corrections :
    LET k == correction[c] IN
    /\ k.status = "APPROVED" =>
         Len(k.approvals) = NSteps /\ Last(k.approvals) = "APPROVED"
    /\ k.status \in {"NONE", "PENDING"} => Len(k.approvals) < NSteps
    /\ k.status = "REJECTED" =>
         k.approvals # << >> /\ Last(k.approvals) = "REJECTED"
    /\ c \notin contested =>
         \A n \in DOMAIN k.approvals :
           k.approvals[n] = "REJECTED" =>
             k.status = "REJECTED" /\ n = Len(k.approvals)

(* No day counts both as a kept holiday and as worked time: when a punch   *)
(* or a correction adds worked time to it again, the conflict is open      *)
(* again and waits for the employee or a manager.                          *)
NeverHolidayAndWork ==
  /\ Conflict = "KEPT" => record.worked = 0
  /\ granted /\ record.worked > 0 => Conflict \in {"AWAITING_REASON", "AWAITING_DECISION"}
=============================================================================
