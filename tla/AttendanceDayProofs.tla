-------------------------- MODULE AttendanceDayProofs --------------------------
(* Theorems about an employee's attendance on one day, for any number of    *)
(* approvers, forms, sweeps, corrections, punches and approval steps.       *)
EXTENDS AttendanceDay, SumTheorems, TLAPS

-----------------------------------------------------------------------------
(* The inductive invariant. *)

Moments == Instants \cup {NoTime}

RequesterType == [step: {"idle", "close", "create"}, at: Moments]

Typed ==
  /\ now \in Instants
  /\ punches \in Seq(PunchType)
  /\ correction \in [Corrections -> CorrectionType]
  /\ decider \in [Deciders -> DeciderType]
  /\ contested \subseteq Corrections
  /\ requester \in [Requesters -> RequesterType]

(* A decision works on a correction somebody raised, and on one that is     *)
(* still pending unless another decision works, or worked, on it too.       *)
ReadingHolds ==
  \A d \in Deciders : decider[d].step # "idle" =>
    /\ decider[d].of \in Corrections
    /\ Of(d).status # "NONE"
    /\ Of(d).kind = "CHECK_OUT" => decider[d].at \in Instants
    /\ decider[d].of \notin contested => Of(d).status = "PENDING"
    /\ decider[d].step = "write" => decider[d].verdict \in Verdicts

OverlapIsContested ==
  \A d, e \in Deciders :
    /\ d # e /\ decider[d].of = decider[e].of
    /\ decider[d].step # "idle" /\ decider[e].step # "idle"
    => decider[d].of \in contested

(* A check-out that is proposed has a time. *)
CheckOutsTimed ==
  /\ \A r \in Requesters : requester[r].step # "idle" => requester[r].at \in Instants
  /\ \A c \in Corrections :
       correction[c].status # "NONE" /\ correction[c].kind = "CHECK_OUT" =>
         correction[c].out \in Instants

(* Nothing is recorded, asked for or reviewed on a day without a punch. *)
NothingYet ==
  punches = << >> =>
    /\ record = NoRecord /\ ~reviewing
    /\ \A c \in Corrections : correction[c].status = "NONE"
    /\ \A r \in Requesters : requester[r].step = "idle"

RejectedUnworked == record.status = "REJECTED" => record.worked = 0

DayInv ==
  /\ Typed /\ ReadingHolds /\ OverlapIsContested /\ CheckOutsTimed /\ NothingYet
  /\ RejectedUnworked /\ ApprovedByEveryStep /\ UncorrectedDayAddsUp

LEMMA InitDayInv == Init => DayInv
<1> SUFFICES ASSUME Init PROVE DayInv
  OBVIOUS
<1> USE DEF Init
<1>1. Typed
  <2>1. NoCorrection \in CorrectionType
    BY DEF NoCorrection, CorrectionType, NoTime
  <2>2. Idle \in DeciderType
    BY AttendanceAssumption DEF Idle, DeciderType, NoTime, NoOne
  <2>3. Asleep \in RequesterType
    BY DEF Asleep, RequesterType, Moments
  <2>4. 1 \in Instants
    BY AttendanceAssumption DEF Instants
  <2>5. punches \in Seq(PunchType)
    OBVIOUS
  <2> QED
    BY <2>1, <2>2, <2>3, <2>4, <2>5 DEF Typed
<1>2. \A c \in Corrections : correction[c].status = "NONE" /\ correction[c].approvals = << >>
  BY DEF NoCorrection
<1>3. \A d \in Deciders : decider[d].step = "idle"
  BY DEF Idle
<1>4. \A r \in Requesters : requester[r].step = "idle"
  BY DEF Asleep
<1>5. ReadingHolds /\ OverlapIsContested
  BY <1>3 DEF ReadingHolds, OverlapIsContested
<1>6. CheckOutsTimed
  BY <1>2, <1>4 DEF CheckOutsTimed
<1>7. NothingYet
  BY <1>2, <1>4 DEF NothingYet
<1>8. ApprovedByEveryStep
  BY <1>2, AttendanceAssumption DEF ApprovedByEveryStep
<1>9. RejectedUnworked /\ UncorrectedDayAddsUp
  BY DEF RejectedUnworked, UncorrectedDayAddsUp, NoRecord
<1> QED
  BY <1>1, <1>5, <1>6, <1>7, <1>8, <1>9 DEF DayInv

-----------------------------------------------------------------------------
(* Punches and reviews: the corrections are left alone. *)

LEMMA DayChanges ==
  ASSUME DayInv, now' \in Instants, punches' \in Seq(PunchType),
         UNCHANGED <<correction, decider, contested, requester>>,
         punches' = << >> => punches = << >> /\ record' = record /\ ~reviewing',
         record'.status = "REJECTED" => record'.worked = 0,
         record'.status \in {"OPEN", "COMPLETED"} => record' = Recorded(punches')
  PROVE  DayInv'
<1>0. /\ Typed /\ ReadingHolds /\ OverlapIsContested /\ CheckOutsTimed
      /\ NothingYet /\ ApprovedByEveryStep
  BY DEF DayInv
<1>1. Typed'
  BY <1>0 DEF Typed
<1>2. ReadingHolds' /\ OverlapIsContested'
  BY <1>0 DEF ReadingHolds, OverlapIsContested, Of
<1>3. CheckOutsTimed'
  BY <1>0 DEF CheckOutsTimed
<1>4. NothingYet'
  BY <1>0 DEF NothingYet
<1>5. ApprovedByEveryStep'
  BY <1>0 DEF ApprovedByEveryStep
<1>6. RejectedUnworked' /\ UncorrectedDayAddsUp'
  BY DEF RejectedUnworked, UncorrectedDayAddsUp
<1> QED
  BY <1>1, <1>2, <1>3, <1>4, <1>5, <1>6 DEF DayInv

LEMMA PunchKeepsInv ==
  ASSUME DayInv, NEW type \in {"IN", "OUT"}, NEW at \in {now} \cup Stated, punch(type, at)
  PROVE  DayInv'
<1>0. Typed
  BY DEF DayInv
<1>1. at \in Instants
  BY <1>0, AttendanceAssumption DEF Typed
<1>2. [type |-> type, at |-> at] \in PunchType
  BY <1>1 DEF PunchType
<1>3. punches' = Append(punches, [type |-> type, at |-> at])
  BY DEF punch
<1>4. punches' \in Seq(PunchType) /\ punches' # << >>
  BY <1>0, <1>2, <1>3 DEF Typed
<1>5. /\ record' = Recorded(punches')
      /\ UNCHANGED <<now, correction, decider, contested, requester>>
  BY DEF punch
<1>6. record'.status # "REJECTED"
  BY <1>5 DEF Recorded
<1> QED
  BY <1>0, <1>4, <1>5, <1>6, DayChanges DEF Typed

LEMMA RestKeepsInv ==
  ASSUME DayInv, 
         \/ punchNextDay \/ tick \/ requestReview \/ keepHoliday
         \/ convertToWorkingDay \/ closeReview \/ selectHoliday \/ cancelSelection
  PROVE  DayInv'
<1>0. Typed /\ NothingYet /\ RejectedUnworked /\ UncorrectedDayAddsUp
  BY DEF DayInv
<1> USE DEF Typed
<1>1. /\ punches' = punches
      /\ UNCHANGED <<correction, decider, contested, requester>>
  BY DEF punchNextDay, tick, requestReview, keepHoliday, convertToWorkingDay,
         closeReview, selectHoliday, cancelSelection, day
<1>2. now' \in Instants
  <2>1. now' = now \/ (now < MaxTime /\ now' = now + 1)
    BY DEF punchNextDay, tick, requestReview, keepHoliday, convertToWorkingDay,
           closeReview, selectHoliday, cancelSelection
  <2> QED
    BY <1>0, <2>1, AttendanceAssumption DEF Instants
<1>3. CASE keepHoliday
  <2>1. punches # << >>
    BY <1>0, <1>3 DEF keepHoliday, NothingYet
  <2>2. record' = [status |-> "REJECTED", worked |-> 0]
    BY <1>3 DEF keepHoliday
  <2> QED
    BY <1>0, <1>1, <1>2, <2>1, <2>2, DayChanges
<1>4. CASE ~keepHoliday
  <2>1. record' = record
    BY <1>4 DEF punchNextDay, tick, requestReview, convertToWorkingDay,
                closeReview, selectHoliday, cancelSelection, day
  <2>2. reviewing' => reviewing \/ punches # << >>
    <3>1. requestReview => punches # << >>
      BY DEF requestReview, Conflict
    <3> QED
      BY <1>4, <3>1 DEF punchNextDay, tick, convertToWorkingDay, closeReview,
                        selectHoliday, cancelSelection, holiday
  <2>3. punches' = << >> => punches = << >> /\ record' = record /\ ~reviewing'
    BY <1>0, <1>1, <2>1, <2>2 DEF NothingYet
  <2>4. record'.status = "REJECTED" => record'.worked = 0
    BY <1>0, <2>1 DEF RejectedUnworked
  <2>5. record'.status \in {"OPEN", "COMPLETED"} => record' = Recorded(punches')
    BY <1>0, <1>1, <2>1 DEF UncorrectedDayAddsUp
  <2> QED
    BY <1>0, <1>1, <1>2, <2>3, <2>4, <2>5, DayChanges
<1> QED
  BY <1>3, <1>4

-----------------------------------------------------------------------------
(* Raising corrections. *)

LEMMA RaiseEffect ==
  ASSUME Typed, NEW kind \in {"MOVE", "CHECK_OUT"}, NEW in \in Moments, NEW out \in Moments,
         raise(kind, in, out)
  PROVE  \E c \in Corrections :
           /\ correction[c].status = "NONE"
           /\ correction' \in [Corrections -> CorrectionType]
           /\ correction'[c] = Raised(kind, in, out)
           /\ \A b \in Corrections \ {c} : correction'[b] = correction[b]
<1> DEFINE new == Raised(kind, in, out)
<1>1. PICK c \in Free : correction' = [correction EXCEPT ![c] = new]
  BY DEF raise
<1>3. Raised(kind, in, out) \in CorrectionType
  <2>1. << >> \in Seq(Verdicts)
    OBVIOUS
  <2> QED
    BY <2>1 DEF Raised, CorrectionType, Moments
<1>4. c \in Corrections /\ correction[c].status = "NONE"
  BY <1>1 DEF Free
<1>5. /\ correction' \in [Corrections -> CorrectionType]
      /\ correction'[c] = new
      /\ \A b \in Corrections \ {c} : correction'[b] = correction[b]
  BY <1>1, <1>3, <1>4 DEF Typed
<1> QED
  BY <1>4, <1>5

(* A new correction waits for all its approvals, and nobody has read it. *)
LEMMA RaiseKeepsInv ==
  ASSUME DayInv, NEW kind \in {"MOVE", "CHECK_OUT"}, NEW in \in Moments, NEW out \in Moments,
         raise(kind, in, out),
         kind = "CHECK_OUT" => out \in Instants,
         punches # << >>, requester' \in [Requesters -> RequesterType],
         \A r \in Requesters : requester'[r].step # "idle" => requester'[r].at \in Instants,
         UNCHANGED <<now, day, decider, contested>>
  PROVE  DayInv'
<1>0. /\ Typed /\ ReadingHolds /\ OverlapIsContested /\ CheckOutsTimed /\ NothingYet
      /\ RejectedUnworked /\ ApprovedByEveryStep /\ UncorrectedDayAddsUp
  BY DEF DayInv
<1>1. PICK c \in Corrections :
        /\ correction[c].status = "NONE"
        /\ correction' \in [Corrections -> CorrectionType]
        /\ correction'[c] = Raised(kind, in, out)
        /\ \A b \in Corrections \ {c} : correction'[b] = correction[b]
  BY <1>0, RaiseEffect
<1>2. /\ correction'[c].status = "PENDING" /\ correction'[c].approvals = << >>
      /\ correction'[c].kind = kind /\ correction'[c].out = out
  BY <1>1 DEF Raised
<1>3. UNCHANGED <<now, punches, record, decider, contested>>
  BY DEF day
<1>4. Typed'
  BY <1>0, <1>1, <1>3 DEF Typed
<1>5. ReadingHolds' /\ OverlapIsContested'
  <2>1. ASSUME NEW d \in Deciders, decider[d].step # "idle"
        PROVE  correction'[decider[d].of] = correction[decider[d].of]
    BY <1>0, <1>1, <2>1 DEF ReadingHolds, Of
  <2> QED
    BY <1>0, <1>3, <2>1 DEF ReadingHolds, OverlapIsContested, Of
<1>6. CheckOutsTimed'
  BY <1>0, <1>1, <1>2 DEF CheckOutsTimed
<1>7. NothingYet' /\ RejectedUnworked' /\ UncorrectedDayAddsUp'
  BY <1>0, <1>3 DEF NothingYet, RejectedUnworked, UncorrectedDayAddsUp
<1>8. ApprovedByEveryStep'
  BY <1>0, <1>1, <1>2, AttendanceAssumption DEF ApprovedByEveryStep
<1> QED
  BY <1>4, <1>5, <1>6, <1>7, <1>8 DEF DayInv

LEMMA RequestKeepsInv ==
  ASSUME DayInv, NEW in \in Stated \cup {NoTime}, NEW out \in Stated \cup {NoTime},
         requestCorrection(in, out)
  PROVE  DayInv'
<1>0. Typed /\ CheckOutsTimed /\ NothingYet
  BY DEF DayInv
<1>1. in \in Moments /\ out \in Moments
  BY AttendanceAssumption DEF Moments
<1>2. punches # << >>
  BY <1>0 DEF requestCorrection, NothingYet, NoRecord
<1>3. /\ raise("MOVE", in, out)
      /\ UNCHANGED <<now, day, decider, contested, requester>>
  BY DEF requestCorrection
<1> QED
  BY <1>0, <1>1, <1>2, <1>3, RaiseKeepsInv DEF Typed, CheckOutsTimed

(* A form or a sweep gets on, with a time to propose. *)
LEMMA ProposingKeepsInv ==
  ASSUME DayInv, NEW r \in Requesters,
         \/ \E at \in Stated : requestMissingCheckOut(r, at)
         \/ sweep(r) \/ closeDay(r)
  PROVE  DayInv'
<1>0. /\ Typed /\ ReadingHolds /\ OverlapIsContested /\ CheckOutsTimed /\ NothingYet
      /\ RejectedUnworked /\ ApprovedByEveryStep /\ UncorrectedDayAddsUp
  BY DEF DayInv
<1>1. UNCHANGED <<now, punches, record, correction, decider, contested, reviewing>>
  BY DEF requestMissingCheckOut, sweep, closeDay, day, holiday
<1>2. PICK new \in RequesterType :
        /\ requester' = [requester EXCEPT ![r] = new]
        /\ new.step # "idle" => new.at \in Instants
  <2>1. ASSUME NEW at \in Stated, requestMissingCheckOut(r, at)
        PROVE  \E new \in RequesterType :
                 /\ requester' = [requester EXCEPT ![r] = new]
                 /\ new.step # "idle" => new.at \in Instants
    <3> DEFINE new == [step |-> "create", at |-> at]
    <3>1. new \in RequesterType /\ new.at \in Instants
      BY AttendanceAssumption DEF RequesterType, Moments
    <3>2. requester' = [requester EXCEPT ![r] = new]
      BY <2>1 DEF requestMissingCheckOut
    <3> QED
      BY <3>1, <3>2
  <2>2. ASSUME sweep(r)
        PROVE  \E new \in RequesterType :
                 /\ requester' = [requester EXCEPT ![r] = new]
                 /\ new.step # "idle" => new.at \in Instants
    <3> DEFINE new == [step |-> "close", at |-> Cutoff]
    <3>1. new \in RequesterType /\ new.at \in Instants
      BY AttendanceAssumption DEF RequesterType, Moments
    <3>2. requester' = [requester EXCEPT ![r] = new]
      BY <2>2 DEF sweep
    <3> QED
      BY <3>1, <3>2
  <2>3. ASSUME closeDay(r)
        PROVE  \E new \in RequesterType :
                 /\ requester' = [requester EXCEPT ![r] = new]
                 /\ new.step # "idle" => new.at \in Instants
    <3>0. requester[r] \in RequesterType
      BY <1>0 DEF Typed
    <3> DEFINE new == [step |-> "create", at |-> requester[r].at]
    <3>1. new = [requester[r] EXCEPT !.step = "create"]
      BY <3>0 DEF RequesterType
    <3>2. requester[r].at \in Instants
      BY <1>0, <2>3 DEF closeDay, CheckOutsTimed
    <3>3. new \in RequesterType /\ new.at \in Instants
      BY <3>2 DEF RequesterType, Moments
    <3>4. Asleep \in RequesterType /\ Asleep.step = "idle"
      BY DEF Asleep, RequesterType, Moments
    <3>5. \/ requester' = [requester EXCEPT ![r] = Asleep]
          \/ requester' = [requester EXCEPT ![r] = new]
      BY <2>3, <3>1 DEF closeDay
    <3> QED
      BY <3>3, <3>4, <3>5
  <2> QED
    BY <2>1, <2>2, <2>3
<1>3. /\ requester' \in [Requesters -> RequesterType]
      /\ requester'[r] = new
      /\ \A q \in Requesters \ {r} : requester'[q] = requester[q]
  BY <1>0, <1>2 DEF Typed
<1>4. punches # << >>
  BY <1>0 DEF requestMissingCheckOut, sweep, closeDay, NothingYet, NoRecord
<1>5. Typed'
  BY <1>0, <1>1, <1>3 DEF Typed
<1>6. ReadingHolds' /\ OverlapIsContested'
  BY <1>0, <1>1 DEF ReadingHolds, OverlapIsContested, Of
<1>7. CheckOutsTimed'
  BY <1>0, <1>1, <1>2, <1>3 DEF CheckOutsTimed
<1>8. NothingYet' /\ RejectedUnworked' /\ UncorrectedDayAddsUp'
  BY <1>0, <1>1, <1>4 DEF NothingYet, RejectedUnworked, UncorrectedDayAddsUp
<1>9. ApprovedByEveryStep'
  BY <1>0, <1>1 DEF ApprovedByEveryStep
<1> QED
  BY <1>5, <1>6, <1>7, <1>8, <1>9 DEF DayInv

LEMMA CreateKeepsInv ==
  ASSUME DayInv, NEW r \in Requesters, createCheckOut(r) PROVE DayInv'
<1>0. Typed /\ CheckOutsTimed /\ NothingYet
  BY DEF DayInv
<1>1. requester[r].step = "create" /\ requester[r].at \in Instants
  BY <1>0 DEF createCheckOut, CheckOutsTimed
<1>2. punches # << >>
  BY <1>0, <1>1 DEF NothingYet
<1>3. /\ raise("CHECK_OUT", NoTime, requester[r].at)
      /\ requester' = [requester EXCEPT ![r] = Asleep]
      /\ UNCHANGED <<now, day, decider, contested>>
  BY DEF createCheckOut
<1>4. Asleep \in RequesterType /\ Asleep.step = "idle"
  BY DEF Asleep, RequesterType, Moments
<1>5. /\ requester' \in [Requesters -> RequesterType]
      /\ \A q \in Requesters : requester'[q].step # "idle" => requester'[q].at \in Instants
  BY <1>0, <1>3, <1>4 DEF Typed, CheckOutsTimed
<1>6. NoTime \in Moments /\ requester[r].at \in Moments
  BY <1>1 DEF Moments
<1> QED
  BY <1>0, <1>1, <1>2, <1>3, <1>5, <1>6, RaiseKeepsInv

-----------------------------------------------------------------------------
(* Decisions. *)

(* One decision has read more; the corrections and the day are as before.   *)
LEMMA ReadingKeepsInv ==
  ASSUME DayInv, NEW d \in Deciders, NEW read \in DeciderType,
         decider' = [decider EXCEPT ![d] = read],
         contested \subseteq contested', contested' \subseteq Corrections,
         UNCHANGED <<now, day, correction, requester, reviewing>>,
         read.of \in Corrections, correction[read.of].status # "NONE",
         correction[read.of].kind = "CHECK_OUT" => read.at \in Instants,
         read.of \notin contested' => correction[read.of].status = "PENDING",
         read.step = "write" => read.verdict \in Verdicts,
         \A e \in Deciders \ {d} :
           decider[e].step # "idle" /\ decider[e].of = read.of => read.of \in contested'
  PROVE  DayInv'
<1>0. /\ Typed /\ ReadingHolds /\ OverlapIsContested /\ CheckOutsTimed /\ NothingYet
      /\ RejectedUnworked /\ ApprovedByEveryStep /\ UncorrectedDayAddsUp
  BY DEF DayInv
<1>1. /\ decider' \in [Deciders -> DeciderType]
      /\ decider'[d] = read
      /\ \A e \in Deciders \ {d} : decider'[e] = decider[e]
  BY <1>0 DEF Typed
<1>2. UNCHANGED <<now, punches, record, correction, requester, reviewing>>
  BY DEF day
<1>3. Typed'
  BY <1>0, <1>1, <1>2 DEF Typed
<1>4. ReadingHolds'
  <2> SUFFICES ASSUME NEW e \in Deciders, decider'[e].step # "idle"
               PROVE  /\ decider'[e].of \in Corrections
                      /\ correction[decider'[e].of].status # "NONE"
                      /\ correction[decider'[e].of].kind = "CHECK_OUT" =>
                           decider'[e].at \in Instants
                      /\ decider'[e].of \notin contested' =>
                           correction[decider'[e].of].status = "PENDING"
                      /\ decider'[e].step = "write" => decider'[e].verdict \in Verdicts
    BY <1>2 DEF ReadingHolds, Of
  <2>1. CASE e = d
    BY <1>1, <2>1
  <2>2. CASE e # d
    BY <1>0, <1>1, <2>2 DEF ReadingHolds, Of
  <2> QED
    BY <2>1, <2>2
<1>5. OverlapIsContested'
  <2> SUFFICES ASSUME NEW e \in Deciders, NEW f \in Deciders,
                      e # f, decider'[e].of = decider'[f].of,
                      decider'[e].step # "idle", decider'[f].step # "idle"
               PROVE  decider'[e].of \in contested'
    BY DEF OverlapIsContested
  <2>1. CASE e = d \/ f = d
    BY <1>1, <2>1
  <2>2. CASE e # d /\ f # d
    BY <1>0, <1>1, <2>2 DEF OverlapIsContested
  <2> QED
    BY <2>1, <2>2
<1>6. CheckOutsTimed' /\ NothingYet' /\ RejectedUnworked' /\ UncorrectedDayAddsUp'
  BY <1>0, <1>2 DEF CheckOutsTimed, NothingYet, RejectedUnworked, UncorrectedDayAddsUp
<1>7. ApprovedByEveryStep'
  BY <1>0, <1>2 DEF ApprovedByEveryStep
<1> QED
  BY <1>3, <1>4, <1>5, <1>6, <1>7 DEF DayInv

LEMMA DecideReadKeepsInv ==
  ASSUME DayInv, NEW d \in Deciders, NEW c \in Corrections, decideRead(d, c)
  PROVE  DayInv'
<1>0. Typed /\ CheckOutsTimed
  BY DEF DayInv
<1> DEFINE read == [decider[d] EXCEPT !.step = "read", !.of = c, !.at = correction[c].out]
<1>1. correction[c] \in CorrectionType /\ correction[c].status = "PENDING"
  BY <1>0 DEF decideRead, Typed
<1>2. decider[d] \in DeciderType
  BY <1>0 DEF Typed
<1>3. /\ read \in DeciderType
      /\ read.step = "read" /\ read.of = c /\ read.at = correction[c].out
  BY <1>1, <1>2 DEF DeciderType, CorrectionType
<1>4. decider' = [decider EXCEPT ![d] = read]
  BY <1>0 DEF decideRead, Typed
<1>5. /\ contested \subseteq contested' /\ contested' \subseteq Corrections
      /\ (\E e \in Deciders : decider[e].of = c) => c \in contested'
  BY <1>0 DEF decideRead, Typed
<1>6. UNCHANGED <<now, day, correction, requester, reviewing>>
  BY DEF decideRead, holiday
<1>7. correction[c].kind = "CHECK_OUT" => correction[c].out \in Instants
  BY <1>0, <1>1 DEF CheckOutsTimed
<1> HIDE DEF read
<1> QED
  BY <1>1, <1>3, <1>4, <1>5, <1>6, <1>7, ReadingKeepsInv

LEMMA DecideApprovalsKeepsInv ==
  ASSUME DayInv, NEW d \in Deciders, NEW verdict \in Verdicts,
         NEW at \in Stated \cup {NoTime}, decideApprovals(d, verdict, at)
  PROVE  DayInv'
<1>0. Typed /\ ReadingHolds /\ OverlapIsContested
  BY DEF DayInv
<1> DEFINE decided == Len(Of(d).approvals)
           seen == IF verdict = "APPROVED" /\ decided + 1 = NSteps
                     THEN punches ELSE << >>
           time == IF at # NoTime THEN at ELSE decider[d].at
           read == [step |-> "write", of |-> decider[d].of, verdict |-> verdict,
                    decided |-> decided, seen |-> seen, at |-> time,
                    replaced |-> at # NoTime]
<1>1. /\ decider[d].step = "read" /\ decider[d].of \in Corrections
      /\ decider[d] \in DeciderType /\ Of(d) \in CorrectionType
  BY <1>0 DEF decideApprovals, ReadingHolds, Typed, Of
<1>2. decided \in 0..(NSteps - 1)
  <2>1. decided \in Nat /\ decided < NSteps
    BY <1>1 DEF CorrectionType, decideApprovals, StepLeft
  <2> QED
    BY <2>1, AttendanceAssumption
<1>3. seen \in Seq(PunchType)
  <2>1. << >> \in Seq(PunchType) /\ punches \in Seq(PunchType)
    BY <1>0 DEF Typed
  <2> QED
    BY <2>1
<1>4. time \in Moments /\ (Of(d).kind = "CHECK_OUT" => time \in Instants)
  BY <1>0, <1>1, AttendanceAssumption DEF Moments, DeciderType, ReadingHolds
<1>5. decider' = [decider EXCEPT ![d] = read]
  BY <1>0 DEF decideApprovals, Typed
<1> HIDE DEF seen, time, decided
<1>6. read \in DeciderType
  BY <1>1, <1>2, <1>3, <1>4 DEF DeciderType, Moments
<1>7. UNCHANGED <<now, day, correction, contested, requester, reviewing>>
  BY DEF decideApprovals, holiday
<1>8. /\ read.of = decider[d].of /\ read.at = time /\ read.verdict = verdict
      /\ Of(d) = correction[decider[d].of]
  BY DEF Of
<1>9. \A e \in Deciders \ {d} :
        decider[e].step # "idle" /\ decider[e].of = decider[d].of =>
          decider[d].of \in contested
  BY <1>0, <1>1 DEF OverlapIsContested
<1>10. /\ Of(d).status # "NONE"
       /\ decider[d].of \notin contested => Of(d).status = "PENDING"
       /\ contested \subseteq Corrections
  BY <1>0, <1>1 DEF ReadingHolds, Typed
<1> HIDE DEF read
<1>11. /\ contested \subseteq contested' /\ contested' \subseteq Corrections
       /\ UNCHANGED <<now, day, correction, requester, reviewing>>
  BY <1>7, <1>10
<1>12. /\ read.of \in Corrections /\ correction[read.of].status # "NONE"
       /\ correction[read.of].kind = "CHECK_OUT" => read.at \in Instants
       /\ read.of \notin contested' => correction[read.of].status = "PENDING"
       /\ read.verdict \in Verdicts
  BY <1>1, <1>4, <1>7, <1>8, <1>10
<1>13. \A e \in Deciders \ {d} :
         decider[e].step # "idle" /\ decider[e].of = read.of => read.of \in contested'
  BY <1>7, <1>8, <1>9
<1> QED
  BY <1>5, <1>6, <1>11, <1>12, <1>13, ReadingKeepsInv

(* The decider is done. *)
LEMMA RestEffect ==
  ASSUME Typed, NEW d \in Deciders, Rest(d)
  PROVE  /\ decider' \in [Deciders -> DeciderType]
         /\ decider'[d].step = "idle"
         /\ \A e \in Deciders \ {d} : decider'[e] = decider[e]
<1>1. Idle \in DeciderType
  <2>1. << >> \in Seq(PunchType) /\ 0 \in 0..(NSteps - 1)
    BY AttendanceAssumption
  <2> QED
    BY <2>1 DEF Idle, DeciderType, NoOne
<1>2. Idle.step = "idle"
  BY DEF Idle
<1> QED
  BY <1>1, <1>2 DEF Rest, Typed

(* What a decision makes of its correction. *)
LEMMA DecidedEffect ==
  ASSUME Typed, ReadingHolds, NEW d \in Deciders, decider[d].step = "write"
  PROVE  /\ Decided(d) \in CorrectionType
         /\ Decided(d).status = IF Final(d) THEN decider[d].verdict ELSE "PENDING"
         /\ Decided(d).kind = Of(d).kind
         /\ Decided(d).out \in {decider[d].at, Of(d).out}
         /\ Decided(d).approvals = Append(Of(d).approvals, decider[d].verdict)
<1>1. Of(d) \in CorrectionType /\ decider[d].verdict \in Verdicts
  BY DEF Typed, ReadingHolds, Of
<1>2. decider[d].at \in Moments
  BY DEF Typed, DeciderType, Moments
<1> DEFINE status == IF Final(d) THEN decider[d].verdict ELSE "PENDING"
           approvals == Append(Of(d).approvals, decider[d].verdict)
           time == IF decider[d].replaced THEN decider[d].at ELSE Of(d).out
           new == [status |-> status, kind |-> Of(d).kind, in |-> Of(d).in,
                   out |-> time, approvals |-> approvals]
<1>3. status \in {"PENDING"} \cup Verdicts
  BY <1>1
<1>4. approvals \in Seq(Verdicts)
  BY <1>1 DEF CorrectionType
<1>6. Decided(d) = new
  BY DEF Decided
<1>5. time \in {decider[d].at, Of(d).out}
  OBVIOUS
<1> HIDE DEF status, approvals, time
<1>7. new \in CorrectionType
  BY <1>1, <1>2, <1>3, <1>4, <1>5 DEF CorrectionType, Moments
<1> HIDE DEF new
<1>8. /\ new.status = status /\ new.kind = Of(d).kind /\ new.out = time
      /\ new.approvals = approvals
  BY DEF new
<1> QED
  BY <1>5, <1>6, <1>7, <1>8 DEF status, approvals

(* The correction is decided once more and the reading is used up; whoever  *)
(* works on the correction as well has made it contested.                   *)
LEMMA ApproveKeepsCorrections ==
  ASSUME DayInv, NEW d \in Deciders, decider[d].step = "write", FirstForStep(d),
         approve(d), Rest(d), UNCHANGED <<contested, requester>>
  PROVE  /\ correction' \in [Corrections -> CorrectionType]
         /\ decider' \in [Deciders -> DeciderType]
         /\ ReadingHolds' /\ OverlapIsContested' /\ CheckOutsTimed'
         /\ ApprovedByEveryStep'
<1>0. /\ Typed /\ ReadingHolds /\ OverlapIsContested /\ CheckOutsTimed
      /\ ApprovedByEveryStep
  BY DEF DayInv
<1> DEFINE c == decider[d].of
           verdict == decider[d].verdict
           new == Decided(d)
<1>1. /\ c \in Corrections /\ verdict \in Verdicts
      /\ Of(d) = correction[c] /\ correction[c] \in CorrectionType
      /\ correction[c].status # "NONE"
      /\ c \notin contested => correction[c].status = "PENDING"
      /\ Len(correction[c].approvals) = decider[d].decided
  BY <1>0 DEF ReadingHolds, Of, Typed, FirstForStep
<1>2. /\ new \in CorrectionType
      /\ new.status = IF Final(d) THEN verdict ELSE "PENDING"
      /\ new.kind = correction[c].kind
      /\ new.out \in {decider[d].at, correction[c].out}
      /\ new.approvals = Append(correction[c].approvals, verdict)
  BY <1>0, <1>1, DecidedEffect
<1>3. correction' = [correction EXCEPT ![c] = new]
  BY DEF approve
<1>4. decider[d].decided \in 0..(NSteps - 1)
  BY <1>0 DEF Typed, DeciderType
<1>5. Final(d) <=> verdict = "REJECTED" \/ decider[d].decided + 1 = NSteps
  BY DEF Final, LastStep
<1>6. correction[c].kind = "CHECK_OUT" =>
        decider[d].at \in Instants /\ correction[c].out \in Instants
  BY <1>0, <1>1 DEF ReadingHolds, CheckOutsTimed
<1> HIDE DEF new, c, verdict
<1>7. /\ correction' \in [Corrections -> CorrectionType]
      /\ correction'[c] = new
      /\ \A b \in Corrections \ {c} : correction'[b] = correction[b]
  BY <1>0, <1>1, <1>2, <1>3 DEF Typed
<1>8. /\ decider' \in [Deciders -> DeciderType]
      /\ decider'[d].step = "idle"
      /\ \A e \in Deciders \ {d} : decider'[e] = decider[e]
  BY <1>0, RestEffect
<1>9. /\ Len(new.approvals) = Len(correction[c].approvals) + 1
      /\ Len(correction[c].approvals) \in Nat
      /\ \A n \in 1..Len(correction[c].approvals) :
           new.approvals[n] = correction[c].approvals[n]
      /\ new.approvals[Len(new.approvals)] = verdict
      /\ DOMAIN new.approvals = 1..(Len(correction[c].approvals) + 1)
  BY <1>1, <1>2 DEF CorrectionType
<1>10. ReadingHolds' /\ OverlapIsContested'
  <2>1. OverlapIsContested'
    BY <1>0, <1>8 DEF OverlapIsContested
  <2> SUFFICES ASSUME NEW e \in Deciders, decider'[e].step # "idle"
               PROVE  /\ decider'[e].of \in Corrections
                      /\ correction'[decider'[e].of].status # "NONE"
                      /\ correction'[decider'[e].of].kind = "CHECK_OUT" =>
                           decider'[e].at \in Instants
                      /\ decider'[e].of \notin contested' =>
                           correction'[decider'[e].of].status = "PENDING"
                      /\ decider'[e].step = "write" => decider'[e].verdict \in Verdicts
    BY <2>1 DEF ReadingHolds, Of
  <2>2. e # d /\ decider'[e] = decider[e] /\ decider[e].step # "idle"
    BY <1>8
  <2>3. /\ decider[e].of \in Corrections
        /\ correction[decider[e].of].status # "NONE"
        /\ correction[decider[e].of].kind = "CHECK_OUT" => decider[e].at \in Instants
        /\ decider[e].of \notin contested => correction[decider[e].of].status = "PENDING"
        /\ decider[e].step = "write" => decider[e].verdict \in Verdicts
    BY <1>0, <2>2 DEF ReadingHolds, Of
  <2>4. CASE decider[e].of = c
    <3>1. c \in contested
      BY <1>0, <2>2, <2>4 DEF OverlapIsContested, c
    <3>2. new.status # "NONE"
      BY <1>1, <1>2 DEF Verdicts
    <3> QED
      BY <1>2, <1>7, <2>2, <2>3, <2>4, <3>1, <3>2
  <2>5. CASE decider[e].of # c
    BY <1>7, <2>2, <2>3, <2>5
  <2> QED
    BY <2>4, <2>5
<1>11. CheckOutsTimed'
  <2>1. new.kind = "CHECK_OUT" => new.out \in Instants
    BY <1>2, <1>6
  <2> QED
    BY <1>0, <1>7, <2>1, <1>1 DEF CheckOutsTimed
<1>12. ApprovedByEveryStep'
  <2> SUFFICES ASSUME NEW b \in Corrections
               PROVE  /\ correction'[b].status = "APPROVED" =>
                           /\ Len(correction'[b].approvals) = NSteps
                           /\ Last(correction'[b].approvals) = "APPROVED"
                      /\ correction'[b].status \in {"NONE", "PENDING"} =>
                           Len(correction'[b].approvals) < NSteps
                      /\ correction'[b].status = "REJECTED" =>
                           /\ correction'[b].approvals # << >>
                           /\ Last(correction'[b].approvals) = "REJECTED"
                      /\ b \notin contested =>
                           \A n \in DOMAIN correction'[b].approvals :
                             correction'[b].approvals[n] = "REJECTED" =>
                               /\ correction'[b].status = "REJECTED"
                               /\ n = Len(correction'[b].approvals)
    BY DEF ApprovedByEveryStep
  <2>1. CASE b # c
    BY <1>0, <1>7, <2>1 DEF ApprovedByEveryStep
  <2>2. CASE b = c
    <3>1. Last(new.approvals) = verdict /\ new.approvals # << >>
      BY <1>9 DEF Last
    <3>2. c \notin contested =>
            \A n \in DOMAIN new.approvals :
              new.approvals[n] = "REJECTED" =>
                new.status = "REJECTED" /\ n = Len(new.approvals)
      <4> SUFFICES ASSUME c \notin contested,
                          NEW n \in DOMAIN new.approvals, new.approvals[n] = "REJECTED"
                   PROVE  new.status = "REJECTED" /\ n = Len(new.approvals)
        OBVIOUS
      <4>1. \A k \in 1..Len(correction[c].approvals) :
              correction[c].approvals[k] # "REJECTED"
        BY <1>0, <1>1, <1>9 DEF ApprovedByEveryStep, CorrectionType
      <4>2. n = Len(new.approvals)
        BY <1>9, <4>1
      <4>3. verdict = "REJECTED"
        BY <1>9, <4>2
      <4> QED
        BY <1>2, <1>5, <4>2, <4>3 DEF verdict
    <3>3. new.status = "APPROVED" => Len(new.approvals) = NSteps /\ verdict = "APPROVED"
      BY <1>1, <1>2, <1>4, <1>5, <1>9
    <3>4. new.status \in {"NONE", "PENDING"} => Len(new.approvals) < NSteps
      BY <1>1, <1>2, <1>4, <1>5, <1>9, AttendanceAssumption DEF Verdicts
    <3>5. new.status = "REJECTED" => verdict = "REJECTED"
      BY <1>2
    <3> QED
      BY <1>7, <2>2, <3>1, <3>2, <3>3, <3>4, <3>5
  <2> QED
    BY <2>1, <2>2
<1> QED
  BY <1>7, <1>8, <1>10, <1>11, <1>12

(* Only a day with a punch is decided about. *)
LEMMA DecidedDayHasPunch ==
  ASSUME DayInv, NEW d \in Deciders, decider[d].step = "write"
  PROVE  punches # << >>
<1>1. Of(d).status # "NONE" /\ decider[d].of \in Corrections
  BY DEF DayInv, ReadingHolds
<1> QED
  BY <1>1 DEF DayInv, NothingYet, Of

LEMMA ApproveKeepsInv ==
  ASSUME DayInv, NEW d \in Deciders, decider[d].step = "write", FirstForStep(d),
         approve(d), Rest(d), UNCHANGED <<now, contested, requester>>,
         punches' \in Seq(PunchType), punches' # << >>,
         (record' = record /\ punches' = punches) \/ record'.status = "CORRECTED"
  PROVE  DayInv'
<1>0. Typed /\ RejectedUnworked /\ UncorrectedDayAddsUp
  BY DEF DayInv
<1>1. /\ correction' \in [Corrections -> CorrectionType]
      /\ decider' \in [Deciders -> DeciderType]
      /\ ReadingHolds' /\ OverlapIsContested' /\ CheckOutsTimed'
      /\ ApprovedByEveryStep'
  BY ApproveKeepsCorrections
<1>2. Typed'
  BY <1>0, <1>1 DEF Typed
<1>3. NothingYet'
  BY DEF NothingYet
<1>4. RejectedUnworked' /\ UncorrectedDayAddsUp'
  BY <1>0 DEF RejectedUnworked, UncorrectedDayAddsUp
<1> QED
  BY <1>1, <1>2, <1>3, <1>4 DEF DayInv

(* Moving punches keeps their number and their types. *)
LEMMA MovedTyped ==
  ASSUME Typed, ReadingHolds, NEW d \in Deciders, decider[d].step = "write",
         NEW ps \in Seq(PunchType)
  PROVE  Moved(ps, Moves(d)) \in Seq(PunchType)
<1>1. Of(d) \in CorrectionType
  BY DEF Typed, ReadingHolds, Of
<1>2. \A type : MovedTo(d, type) \in Moments
  BY <1>1 DEF MovedTo, CorrectionType, Moments
<1>3. \A i \in DOMAIN Moves(d) : Moves(d)[i] \in Moments
  BY <1>2 DEF Moves, Moments
<1> DEFINE moves == Moves(d)
<1> HIDE DEF moves
<1>4. \A i \in DOMAIN moves : moves[i] # NoTime => moves[i] \in Instants
  BY <1>3 DEF Moments, moves
<1>5. ASSUME NEW i \in DOMAIN ps
      PROVE  (IF i \in DOMAIN moves /\ moves[i] # NoTime
                THEN [ps[i] EXCEPT !.at = moves[i]] ELSE ps[i]) \in PunchType
  <2>1. ps[i] \in PunchType
    OBVIOUS
  <2>2. CASE i \in DOMAIN moves /\ moves[i] # NoTime
    BY <1>4, <2>1, <2>2 DEF PunchType
  <2> QED
    BY <2>1, <2>2
<1>6. Len(ps) \in Nat /\ DOMAIN ps = 1..Len(ps)
  OBVIOUS
<1>7. Moved(ps, moves) \in [1..Len(ps) -> PunchType]
  BY <1>5, <1>6 DEF Moved
<1> QED
  BY <1>6, <1>7 DEF moves

LEMMA DecideKeepsInv ==
  ASSUME DayInv, NEW d \in Deciders, Decide(d) PROVE DayInv'
<1>0. Typed /\ ReadingHolds
  BY DEF DayInv
<1>1. ~decideRefused(d) => decider[d].step = "write"
  BY DEF Decide, decide, decideMove, decideCheckOut
<1>2. punches \in Seq(PunchType) /\ (~decideRefused(d) => punches # << >>)
  BY <1>0, <1>1, DecidedDayHasPunch DEF Typed
<1>3. CASE ~decideRefused(d) /\ decide(d)
  <2>1. /\ FirstForStep(d) /\ approve(d) /\ Rest(d)
        /\ UNCHANGED <<now, contested, requester, punches, record>>
    BY <1>3 DEF decide, day
  <2> QED
    BY <1>1, <1>2, <1>3, <2>1, ApproveKeepsInv
<1>4. CASE ~decideRefused(d) /\ decideMove(d)
  <2>1. /\ FirstForStep(d) /\ approve(d) /\ Rest(d)
        /\ UNCHANGED <<now, contested, requester>>
        /\ punches' = Moved(punches, Moves(d))
    BY <1>4 DEF decideMove
  <2>2. record'.status = "CORRECTED"
    BY <1>4 DEF decideMove, Corrected
  <2>3. punches' \in Seq(PunchType)
    BY <1>0, <1>1, <1>2, <1>4, <2>1, MovedTyped
  <2>4. DOMAIN punches' = DOMAIN punches
    BY <2>1 DEF Moved
  <2>5. punches' # << >>
    BY <1>2, <1>4, <2>3, <2>4
  <2> QED
    BY <1>1, <1>4, <2>1, <2>2, <2>3, <2>5, ApproveKeepsInv
<1>5. CASE ~decideRefused(d) /\ decideCheckOut(d)
  <2>1. /\ FirstForStep(d) /\ approve(d) /\ Rest(d)
        /\ UNCHANGED <<now, contested, requester>>
        /\ punches' = Append(punches, [type |-> "OUT", at |-> decider[d].at])
    BY <1>5 DEF decideCheckOut
  <2>2. record'.status = "CORRECTED"
    BY <1>5 DEF decideCheckOut, Corrected
  <2>3. decider[d].at \in Instants
    BY <1>0, <1>1, <1>5 DEF decideCheckOut, ReadingHolds
  <2>4. [type |-> "OUT", at |-> decider[d].at] \in PunchType
    BY <2>3 DEF PunchType
  <2>5. punches' \in Seq(PunchType) /\ punches' # << >>
    BY <1>2, <2>1, <2>4
  <2> QED
    BY <1>1, <1>5, <2>1, <2>2, <2>5, ApproveKeepsInv
<1>6. CASE decideRefused(d)
  <2>1. /\ decider' \in [Deciders -> DeciderType]
        /\ decider'[d].step = "idle"
        /\ \A e \in Deciders \ {d} : decider'[e] = decider[e]
    BY <1>0, <1>6, RestEffect DEF decideRefused
  <2>2. UNCHANGED <<now, punches, record, correction, contested, requester, reviewing>>
    BY <1>6 DEF decideRefused, day, holiday
  <2>3. Typed'
    BY <1>0, <2>1, <2>2 DEF Typed
  <2>4. \A e \in Deciders : decider'[e].step # "idle" => decider'[e] = decider[e]
    BY <2>1
  <2>5. ReadingHolds' /\ OverlapIsContested'
    BY <1>0, <2>2, <2>4 DEF DayInv, ReadingHolds, OverlapIsContested, Of
  <2> QED
    BY <2>2, <2>3, <2>5 DEF DayInv, CheckOutsTimed, NothingYet, RejectedUnworked,
                           ApprovedByEveryStep, UncorrectedDayAddsUp
<1> QED
  BY <1>3, <1>4, <1>5, <1>6 DEF Decide

(* Every step keeps the invariant. *)
LEMMA NextDayInv == DayInv /\ [Next]_vars => DayInv'
<1> SUFFICES ASSUME DayInv, [Next]_vars PROVE DayInv'
  OBVIOUS
<1>1. CASE UNCHANGED vars
  <2>1. UNCHANGED <<now, punches, record, correction, decider, contested, requester,
                    reviewing>>
    BY <1>1 DEF vars
  <2> QED
    BY <2>1, DayChanges DEF DayInv, Typed, NothingYet, RejectedUnworked,
                            UncorrectedDayAddsUp
<1>2. CASE Next
  BY <1>2, PunchKeepsInv, RestKeepsInv, RequestKeepsInv, ProposingKeepsInv,
     CreateKeepsInv, DecideReadKeepsInv, DecideApprovalsKeepsInv, DecideKeepsInv
     DEF Next
<1> QED
  BY <1>1, <1>2

LEMMA DayInvariant == Spec => []DayInv
BY InitDayInv, NextDayInv, PTL DEF Spec

-----------------------------------------------------------------------------
(* The order of the punches, and what they add up to. *)

LEMMA BeforeIsOrder ==
  ASSUME NEW ps \in Seq(PunchType), NEW i \in DOMAIN ps, NEW j \in DOMAIN ps
  PROVE  /\ i \notin Before(ps, i)
         /\ i # j => i \in Before(ps, j) \/ j \in Before(ps, i)
         /\ i \in Before(ps, j) => Before(ps, i) \subseteq Before(ps, j)
<1>1. \A k \in DOMAIN ps : ps[k].at \in Nat /\ k \in Nat
  <2>1. DOMAIN ps = 1..Len(ps) /\ \A k \in DOMAIN ps : ps[k] \in PunchType
    OBVIOUS
  <2>2. \A p \in PunchType : p.at \in Nat
    BY AttendanceAssumption DEF PunchType, Instants
  <2> QED
    BY <2>1, <2>2
<1> QED
  BY <1>1 DEF Before

LEMMA BeforeCounted ==
  ASSUME NEW ps \in Seq(PunchType), NEW i \in DOMAIN ps
  PROVE  /\ IsFiniteSet(Before(ps, i))
         /\ Cardinality(Before(ps, i)) \in 0..(Len(ps) - 1)
         /\ \A j \in DOMAIN ps : i \in Before(ps, j) =>
              Cardinality(Before(ps, i)) < Cardinality(Before(ps, j))
<1>1. /\ Len(ps) \in Nat /\ DOMAIN ps = 1..Len(ps)
      /\ IsFiniteSet(DOMAIN ps) /\ Cardinality(DOMAIN ps) = Len(ps)
  <2>1. Len(ps) \in Nat /\ DOMAIN ps = 1..Len(ps)
    OBVIOUS
  <2>2. /\ IsFiniteSet(1..Len(ps))
        /\ Cardinality(1..Len(ps)) = IF 1 > Len(ps) THEN 0 ELSE Len(ps) - 1 + 1
    BY <2>1, FS_Interval
  <2> QED
    BY <2>1, <2>2
<1>2. ASSUME NEW j \in DOMAIN ps
      PROVE  /\ Before(ps, j) \in SUBSET DOMAIN ps /\ IsFiniteSet(Before(ps, j))
             /\ Cardinality(Before(ps, j)) \in Nat
  <2>1. Before(ps, j) \in SUBSET DOMAIN ps
    BY DEF Before
  <2> QED
    BY <1>1, <2>1, FS_Subset, FS_CardinalityType
<1>3. Cardinality(Before(ps, i)) < Len(ps)
  <2>1. Before(ps, i) # DOMAIN ps
    BY BeforeIsOrder
  <2> QED
    BY <1>1, <1>2, <2>1, FS_Subset
<1>4. ASSUME NEW j \in DOMAIN ps, i \in Before(ps, j)
      PROVE  Cardinality(Before(ps, i)) < Cardinality(Before(ps, j))
  <2>1. Before(ps, i) \in SUBSET Before(ps, j) /\ Before(ps, i) # Before(ps, j)
    BY <1>4, BeforeIsOrder
  <2> QED
    BY <1>2, <2>1, FS_Subset
<1> QED
  BY <1>1, <1>2, <1>3, <1>4

(* Every place of the order is taken by one punch. *)
LEMMA OrderDef ==
  ASSUME NEW ps \in Seq(PunchType), NEW n \in DOMAIN ps
  PROVE  /\ Order(ps)[n] \in DOMAIN ps
         /\ Cardinality(Before(ps, Order(ps)[n])) = n - 1
<1> DEFINE D == DOMAIN ps
           P == 0..(Len(ps) - 1)
           place == [i \in D |-> Cardinality(Before(ps, i))]
<1>1. Len(ps) \in Nat /\ D = 1..Len(ps)
  OBVIOUS
<1>2. place \in [D -> P]
  BY BeforeCounted
<1>3. ASSUME NEW i \in D, NEW j \in D, place[i] = place[j] PROVE i = j
  <2>1. i \in Before(ps, j) => place[i] < place[j]
    BY BeforeCounted
  <2>2. j \in Before(ps, i) => place[j] < place[i]
    BY BeforeCounted
  <2>3. place[i] \in Nat /\ place[j] \in Nat
    BY <1>2
  <2> HIDE DEF place
  <2> QED
    BY <1>3, <2>1, <2>2, <2>3, BeforeIsOrder
<1>4. place \in Injection(D, P)
  <2> HIDE DEF place
  <2>1. \A i, j \in D : place[i] = place[j] => i = j
    BY <1>3
  <2> QED
    BY <1>2, <2>1 DEF Injection, IsInjective
<1>5. IsFiniteSet(D) /\ IsFiniteSet(P) /\ Cardinality(D) = Cardinality(P)
  <2>1. /\ IsFiniteSet(1..Len(ps))
        /\ Cardinality(1..Len(ps)) = IF 1 > Len(ps) THEN 0 ELSE Len(ps) - 1 + 1
    BY <1>1, FS_Interval
  <2>2. /\ IsFiniteSet(P)
        /\ Cardinality(P) = IF 0 > Len(ps) - 1 THEN 0 ELSE Len(ps) - 1 - 0 + 1
    <3>1. 0 \in Int /\ Len(ps) - 1 \in Int
      BY <1>1
    <3> QED
      BY <3>1, FS_Interval
  <2>3. Cardinality(D) = Len(ps) /\ Cardinality(P) = Len(ps)
    BY <1>1, <2>1, <2>2
  <2> QED
    BY <1>1, <2>1, <2>2, <2>3
<1>6. place \in Surjection(D, P)
  <2> HIDE DEF place, P, D
  <2> QED
    BY <1>4, <1>5, FS_Injection
<1>7. \E i \in D : place[i] = n - 1
  <2>1. n - 1 \in P
    BY <1>1
  <2> HIDE DEF place, P
  <2> QED
    BY <1>6, <2>1 DEF Surjection
<1>8. \E i \in DOMAIN ps : Cardinality(Before(ps, i)) = n - 1
  BY <1>7
<1> QED
  BY <1>8 DEF Order

(* The day's punches are sorted by time: none is left out, none counts      *)
(* twice, and whatever is added up is added up in the order it happened.    *)
THEOREM PunchesSorted ==
  ASSUME NEW ps \in Seq(PunchType)
  PROVE  /\ InOrder(ps) \in Seq(PunchType) /\ Len(InOrder(ps)) = Len(ps)
         /\ \A m, n \in DOMAIN ps : m < n => InOrder(ps)[m].at <= InOrder(ps)[n].at
         /\ Order(ps) \in Bijection(DOMAIN ps, DOMAIN ps)
<1> DEFINE D == DOMAIN ps
           o == Order(ps)
<1>1. Len(ps) \in Nat /\ D = 1..Len(ps) /\ \A i \in D : ps[i] \in PunchType
  OBVIOUS
<1>2. \A n \in D : o[n] \in D /\ Cardinality(Before(ps, o[n])) = n - 1
  BY OrderDef
<1>3. DOMAIN o = D /\ \A n \in D : InOrder(ps)[n] = ps[o[n]]
  BY DEF Order, InOrder
<1>4. InOrder(ps) \in [1..Len(ps) -> PunchType]
  <2>1. InOrder(ps) = [n \in 1..Len(ps) |-> ps[o[n]]]
    BY <1>1 DEF InOrder
  <2> HIDE DEF o
  <2> QED
    BY <1>1, <1>2, <2>1
<1>5. InOrder(ps) \in Seq(PunchType) /\ Len(InOrder(ps)) = Len(ps)
  BY <1>1, <1>4
<1> HIDE DEF o
<1>6. ASSUME NEW m \in D, NEW n \in D, m < n
      PROVE  InOrder(ps)[m].at <= InOrder(ps)[n].at
  <2>1. o[m] \in D /\ o[n] \in D /\ o[m] # o[n]
    BY <1>1, <1>2, <1>6
  <2>2. ~(o[n] \in Before(ps, o[m]))
    <3>1. o[n] \in Before(ps, o[m]) => n - 1 < m - 1
      BY <1>2, <2>1, BeforeCounted
    <3> QED
      BY <1>1, <1>6, <3>1
  <2>3. o[m] \in Before(ps, o[n])
    BY <2>1, <2>2, BeforeIsOrder
  <2>4. ps[o[m]].at \in Nat /\ ps[o[n]].at \in Nat
    BY <1>1, <2>1, AttendanceAssumption DEF PunchType, Instants
  <2>5. ps[o[m]].at <= ps[o[n]].at
    BY <2>3, <2>4 DEF Before
  <2> QED
    BY <1>3, <2>5
<1>7. o \in Bijection(D, D)
  <2>1. o \in [D -> D]
    BY <1>2, <1>3 DEF o, Order
  <2>2. \A m, n \in D : o[m] = o[n] => m = n
    BY <1>1, <1>2
  <2>3. o \in Injection(D, D)
    BY <2>1, <2>2 DEF Injection, IsInjective
  <2>4. IsFiniteSet(D)
    BY <1>1, FS_Interval
  <2>5. o \in Surjection(D, D)
    <3> HIDE DEF D
    <3> QED
      BY <2>3, <2>4, FS_Injection
  <2> QED
    BY <2>3, <2>5 DEF Bijection
<1> QED
  BY <1>5, <1>6, <1>7 DEF o

(* attendanceTotals: the fold is well-defined. *)
SumType == [worked: Nat, open: Moments]

Start == [worked |-> 0, open |-> NoTime]

TakeOne(sum, p) ==
  IF p.type = "IN" /\ sum.open = NoTime THEN [sum EXCEPT !.open = p.at]
  ELSE IF p.type = "OUT" /\ sum.open # NoTime
    THEN [worked |-> sum.worked + (IF p.at > sum.open THEN p.at - sum.open ELSE 0),
          open |-> NoTime]
  ELSE sum

TotalBy(list, g, s) ==
  IF s = {} THEN Start ELSE TakeOne(g[s \ {Max(s)}], list[Max(s)])

IsTotals(g, list) == g = [s \in SUBSET DOMAIN list |-> TotalBy(list, g, s)]

LEMMA MaxIn ==
  ASSUME NEW n \in Nat, NEW s \in SUBSET (1..n), s # {}
  PROVE  Max(s) \in s /\ \A x \in s : x <= Max(s)
<1> DEFINE below == {n - x : x \in s}
<1>1. below \in SUBSET Nat /\ below # {}
  OBVIOUS
<1>2. PICK b \in below : \A c \in below : b <= c
  <2> HIDE DEF below
  <2> QED
    BY <1>1, LeastNumber
<1>3. PICK m \in s : b = n - m
  BY <1>2
<1>4. \A x \in s : x <= m
  <2> TAKE x \in s
  <2>1. b <= n - x
    BY <1>2
  <2> QED
    BY <1>3, <2>1
<1>5. \E x \in s : \A y \in s : x >= y
  BY <1>4
<1>6. Max(s) \in s /\ \A y \in s : Max(s) >= y
  BY <1>5 DEF Max
<1> QED
  BY <1>6

LEMMA TotalsExist ==
  ASSUME NEW list \in Seq(PunchType) PROVE \E g : IsTotals(g, list)
<1> DEFINE S == DOMAIN list
           Upto(n) == {s \in SUBSET S : Cardinality(s) <= n}
           Good(n) == \E g : g = [s \in Upto(n) |-> TotalBy(list, g, s)]
           bad     == {n \in Nat : ~Good(n)}
<1>0. Len(list) \in Nat /\ S = 1..Len(list) /\ IsFiniteSet(S)
  <2>1. Len(list) \in Nat /\ S = 1..Len(list)
    OBVIOUS
  <2> QED
    BY <2>1, FS_Interval
<1> HIDE DEF S
<1>1. \A s \in SUBSET S : IsFiniteSet(s) /\ Cardinality(s) \in Nat
  BY <1>0, FS_Subset, FS_CardinalityType
<1>2. bad = {}
  <2> SUFFICES ASSUME bad # {} PROVE FALSE
    OBVIOUS
  <2>1. PICK n \in bad : \A m \in bad : n <= m
    <3>1. bad \in SUBSET Nat
      OBVIOUS
    <3> HIDE DEF bad
    <3> QED
      BY <3>1, LeastNumber
  <2>2. n # 0
    <3>1. \A s \in Upto(0) : s = {}
      BY <1>1, FS_EmptySet
    <3> DEFINE g == [s \in Upto(0) |-> Start]
    <3>2. g = [s \in Upto(0) |-> TotalBy(list, g, s)]
      BY <3>1 DEF TotalBy
    <3>3. Good(0)
      BY <3>2
    <3> QED
      BY <3>3
  <2>3. n - 1 \in Nat /\ Good(n - 1)
    <3>1. n \in Nat /\ n - 1 \in Nat /\ ~(n <= n - 1)
      BY <2>1, <2>2
    <3> HIDE DEF Good
    <3> QED
      BY <2>1, <3>1
  <2>4. PICK g : g = [s \in Upto(n - 1) |-> TotalBy(list, g, s)]
    BY <2>3
  <2> DEFINE h == [s \in Upto(n) |-> TotalBy(list, g, s)]
  <2>5. ASSUME NEW s \in Upto(n) PROVE TotalBy(list, g, s) = TotalBy(list, h, s)
    <3>1. CASE s = {}
      BY <3>1 DEF TotalBy
    <3>2. CASE s # {}
      <4> DEFINE less == s \ {Max(s)}
      <4>1. Max(s) \in s
        BY <1>0, <3>2, MaxIn
      <4>2. less \in SUBSET S /\ Cardinality(less) = Cardinality(s) - 1
        BY <1>1, <4>1, FS_RemoveElement
      <4>3. less \in Upto(n) /\ less \in Upto(n - 1)
        BY <1>1, <2>3, <4>2
      <4>4. h[less] = g[less]
        <5> HIDE DEF less
        <5>1. h[less] = TotalBy(list, g, less)
          BY <4>3
        <5>2. g[less] = TotalBy(list, g, less)
          BY <4>3, <2>4
        <5> QED
          BY <5>1, <5>2
      <4> QED
        BY <3>2, <4>4 DEF TotalBy
    <3> QED
      BY <3>1, <3>2
  <2>6. h = [s \in Upto(n) |-> TotalBy(list, h, s)]
    BY <2>5
  <2>7. Good(n)
    <3> HIDE DEF h
    <3> QED
      BY <2>6
  <2> QED
    BY <2>1, <2>7
<1> DEFINE N == Cardinality(S)
<1>3. N \in Nat /\ Upto(N) = SUBSET S
  BY <1>0, <1>1, FS_Subset
<1>4. Good(N)
  BY <1>2, <1>3
<1> QED
  BY <1>3, <1>4 DEF IsTotals, S

LEMMA TakeOneTyped ==
  ASSUME NEW sum \in SumType, NEW p \in PunchType PROVE TakeOne(sum, p) \in SumType
<1>1. /\ sum.worked \in Nat /\ sum.open \in Nat /\ sum.open \in Moments
      /\ p.at \in Nat /\ p.at \in Moments /\ NoTime \in Moments
  BY AttendanceAssumption DEF SumType, PunchType, Moments, Instants, NoTime
<1>2. [sum EXCEPT !.open = p.at] \in SumType
  BY <1>1 DEF SumType
<1>3. sum.worked + (IF p.at > sum.open THEN p.at - sum.open ELSE 0) \in Nat
  BY <1>1
<1>4. [worked |-> sum.worked + (IF p.at > sum.open THEN p.at - sum.open ELSE 0),
       open |-> NoTime] \in SumType
  BY <1>1, <1>3 DEF SumType
<1> QED
  BY <1>2, <1>4 DEF TakeOne

(* The totals are those of the punches taken one by one, in their order.    *)
LEMMA TotalSteps ==
  ASSUME NEW list \in Seq(PunchType)
  PROVE  \E t : /\ t[0] = Start /\ t[Len(list)] = Total(list)
                /\ \A n \in 1..Len(list) : t[n] = TakeOne(t[n - 1], list[n])
<1> DEFINE table == CHOOSE g : IsTotals(g, list)
           S == DOMAIN list
           t == [n \in 0..Len(list) |-> table[1..n]]
<1>1. IsTotals(table, list)
  BY TotalsExist, Zenon
<1>2. Total(list) = table[S]
  BY DEF Total, FoldLeft, MapThenFoldSet, IsTotals, TotalBy, TakeOne, Start
<1> HIDE DEF table
<1>3. Len(list) \in Nat /\ S = 1..Len(list)
  OBVIOUS
<1>4. \A s \in SUBSET S : table[s] = TotalBy(list, table, s)
  BY <1>1 DEF IsTotals
<1>5. t[0] = Start
  <2>1. 1..0 = {} /\ {} \in SUBSET S /\ t[0] = table[1..0]
    BY <1>3
  <2> QED
    BY <1>4, <2>1 DEF TotalBy
<1>6. t[Len(list)] = Total(list)
  BY <1>2, <1>3
<1>7. ASSUME NEW n \in 1..Len(list) PROVE t[n] = TakeOne(t[n - 1], list[n])
  <2>1. 1..n \in SUBSET S /\ 1..n # {} /\ n \in 1..n
        /\ n \in Nat /\ 1..n \in SUBSET (1..n)
    <3>1. n \in Nat /\ n \in 1..n
      BY <1>3
    <3>2. 1..n \subseteq 1..Len(list)
      BY <1>3
    <3> QED
      BY <1>3, <3>1, <3>2
  <2>2. Max(1..n) = n
    <3>1. Max(1..n) \in 1..n /\ n <= Max(1..n)
      BY <2>1, MaxIn
    <3> QED
      BY <2>1, <3>1
  <2>3. (1..n) \ {n} = 1..(n - 1)
    BY <1>3
  <2>4. table[1..n] = TakeOne(table[1..(n - 1)], list[n])
    BY <1>4, <2>1, <2>2, <2>3 DEF TotalBy
  <2>5. t[n] = table[1..n] /\ t[n - 1] = table[1..(n - 1)]
    BY <1>3
  <2> QED
    BY <2>4, <2>5
<1> HIDE DEF t
<1> QED
  BY <1>5, <1>6, <1>7

(* Each of these totals is one.                                             *)
LEMMA StepsTyped ==
  ASSUME NEW list \in Seq(PunchType), NEW t, t[0] = Start,
         \A n \in 1..Len(list) : t[n] = TakeOne(t[n - 1], list[n]),
         NEW m \in 0..Len(list)
  PROVE  t[m] \in SumType
<1> DEFINE bad == {n \in 0..Len(list) : t[n] \notin SumType}
<1>0. Len(list) \in Nat /\ \A n \in 1..Len(list) : list[n] \in PunchType
  OBVIOUS
<1>1. bad = {}
  <2> SUFFICES ASSUME bad # {} PROVE FALSE
    OBVIOUS
  <2>1. PICK n \in bad : \A k \in bad : n <= k
    <3>1. bad \in SUBSET Nat
      OBVIOUS
    <3> HIDE DEF bad
    <3> QED
      BY <3>1, LeastNumber
  <2>2. n # 0
    <3>1. Start \in SumType
      BY DEF Start, SumType, Moments
    <3> QED
      BY <2>1, <3>1
  <2>3. n \in 1..Len(list) /\ n - 1 \in 0..Len(list) /\ ~(n <= n - 1)
    BY <1>0, <2>1, <2>2
  <2>4. t[n - 1] \in SumType
    BY <2>1, <2>3
  <2> QED
    BY <1>0, <2>1, <2>3, <2>4, TakeOneTyped
<1> QED
  BY <1>1

LEMMA TotalTyped ==
  ASSUME NEW list \in Seq(PunchType) PROVE Total(list) \in SumType
<1>1. PICK t : /\ t[0] = Start /\ t[Len(list)] = Total(list)
               /\ \A n \in 1..Len(list) : t[n] = TakeOne(t[n - 1], list[n])
  BY TotalSteps
<1>2. Len(list) \in 0..Len(list)
  OBVIOUS
<1>3. t[Len(list)] \in SumType
  BY <1>1, <1>2, StepsTyped
<1> QED
  BY <1>1, <1>3

(* What lay within an earlier span lies within a longer one, ... *)
LEMMA StillWithin ==
  ASSUME NEW first \in Nat, NEW w \in Nat, NEW before \in Nat, NEW at \in Nat,
         before <= at
  PROVE  /\ w <= before - first => w <= at - first
         /\ w <= before => w <= at
OBVIOUS

(* ... and so does what a session adds to it that ends later. *)
LEMMA SessionWithin ==
  ASSUME NEW first \in Nat, NEW w \in Nat, NEW o \in Nat, NEW at \in Nat,
         w <= o - first, o <= at
  PROVE  w + (IF at > o THEN at - o ELSE 0) <= at - first
<1>1. CASE at > o
  BY <1>1
<1>2. CASE ~(at > o)
  <2>1. at = o
    BY <1>2
  <2> QED
    BY <1>2, <2>1
<1> QED
  BY <1>1, <1>2

(* Of punches in the order of their times, the worked time lies between the *)
(* first and the last; a session that is still open is no part of it.       *)
LEMMA TotalWithin ==
  ASSUME NEW list \in Seq(PunchType), list # << >>,
         \A m, n \in DOMAIN list : m < n => list[m].at <= list[n].at
  PROVE  /\ Worked(list) <= list[Len(list)].at - list[1].at
         /\ list[Len(list)].type = "IN" => Total(list).open # NoTime
<1> DEFINE L == Len(list)
           first == list[1].at
           Within(sum, n) ==
             IF sum.open = NoTime THEN sum.worked <= list[n].at - first
             ELSE sum.worked <= sum.open - first /\ sum.open <= list[n].at
<1>1. PICK t : /\ t[0] = Start /\ t[Len(list)] = Total(list)
               /\ \A n \in 1..Len(list) : t[n] = TakeOne(t[n - 1], list[n])
  BY TotalSteps
<1>2. \A n \in 0..L : t[n] \in SumType
  BY <1>1, StepsTyped
<1>3. L \in Nat /\ L >= 1 /\ DOMAIN list = 1..L /\ \A n \in 1..L : list[n] \in PunchType
  OBVIOUS
<1>4. \A n \in 1..L : list[n].at \in Nat /\ list[n].at # NoTime /\ list[n].type \in {"IN", "OUT"}
  <2>1. \A p \in PunchType : p.at \in Nat /\ p.at # NoTime /\ p.type \in {"IN", "OUT"}
    BY AttendanceAssumption DEF PunchType, Instants, NoTime
  <2> QED
    BY <1>3, <2>1
<1>5. \A n \in 0..L : t[n].worked \in Nat /\ t[n].open \in Nat
  <2>1. \A sum \in SumType : sum.worked \in Nat /\ sum.open \in Nat
    BY AttendanceAssumption DEF SumType, Moments, Instants, NoTime
  <2> QED
    BY <1>2, <2>1
<1>6. Within(t[1], 1)
  <2>1. t[1] = TakeOne(Start, list[1])
    BY <1>1, <1>3
  <2> QED
    BY <1>3, <1>4, <2>1 DEF TakeOne, Start, NoTime
<1>7. ASSUME NEW n \in 2..L, Within(t[n - 1], n - 1) PROVE Within(t[n], n)
  <2>1. t[n] = TakeOne(t[n - 1], list[n])
    BY <1>1, <1>3
  <2>2. /\ n \in 1..L /\ n - 1 \in 1..L /\ n - 1 \in 0..L
        /\ list[n - 1].at <= list[n].at /\ first <= list[n].at
    BY <1>3
  <2>3. t[n - 1] \in SumType
    BY <1>2, <2>2
  <2> DEFINE w == t[n - 1].worked
             o == t[n - 1].open
  <2>4. /\ w \in Nat /\ o \in Nat /\ list[n - 1].at \in Nat /\ list[n].at \in Nat
        /\ first \in Nat /\ list[n].at # NoTime
    BY <1>3, <1>4, <1>5, <2>2
  <2>5. t[n - 1] = [worked |-> w, open |-> o]
    BY <2>3 DEF SumType
  <2>6. CASE list[n].type = "IN" /\ o = NoTime
    <3>1. t[n].worked = w /\ t[n].open = list[n].at
      BY <2>1, <2>5, <2>6 DEF TakeOne
    <3>2. w <= list[n - 1].at - first
      BY <1>7, <2>6
    <3>3. w <= list[n].at - first
      BY <2>2, <2>4, <3>2, StillWithin
    <3> QED
      BY <2>4, <3>1, <3>3
  <2>7. CASE list[n].type = "OUT" /\ o # NoTime
    <3>1. /\ t[n].worked = w + (IF list[n].at > o THEN list[n].at - o ELSE 0)
          /\ t[n].open = NoTime
      BY <2>1, <2>7 DEF TakeOne
    <3>2. w <= o - first /\ o <= list[n - 1].at
      BY <1>7, <2>7
    <3>3. o <= list[n].at
      BY <2>2, <2>4, <3>2, StillWithin
    <3>4. w + (IF list[n].at > o THEN list[n].at - o ELSE 0) <= list[n].at - first
      <4> HIDE DEF w, o, first
      <4> QED
        BY <2>4, <3>2, <3>3, SessionWithin
    <3>5. t[n].worked <= list[n].at - first
      BY <3>1, <3>4
    <3> QED
      BY <3>1, <3>5
  <2>8. CASE /\ ~(list[n].type = "IN" /\ o = NoTime)
             /\ ~(list[n].type = "OUT" /\ o # NoTime)
    <3>1. t[n] = t[n - 1]
      BY <2>1, <2>8 DEF TakeOne
    <3>2. CASE o = NoTime
      <4>1. w <= list[n - 1].at - first
        BY <1>7, <3>2
      <4>2. w <= list[n].at - first
        BY <2>2, <2>4, <4>1, StillWithin
      <4> QED
        BY <3>1, <3>2, <4>2
    <3>3. CASE o # NoTime
      <4>1. w <= o - first /\ o <= list[n - 1].at
        BY <1>7, <3>3
      <4>2. o <= list[n].at
        BY <2>2, <2>4, <4>1, StillWithin
      <4> QED
        BY <3>1, <3>3, <4>1, <4>2
    <3> QED
      BY <3>2, <3>3
  <2> QED
    BY <2>6, <2>7, <2>8
<1> DEFINE bad == {n \in 1..L : ~Within(t[n], n)}
<1>8. bad = {}
  <2> SUFFICES ASSUME bad # {} PROVE FALSE
    OBVIOUS
  <2>1. PICK n \in bad : \A k \in bad : n <= k
    <3>1. bad \in SUBSET Nat
      OBVIOUS
    <3> HIDE DEF bad
    <3> QED
      BY <3>1, LeastNumber
  <2> HIDE DEF Within
  <2>2. n # 1
    BY <1>6, <2>1
  <2>3. n \in 2..L /\ n - 1 \in 1..L /\ ~(n <= n - 1)
    BY <1>3, <2>1, <2>2
  <2>4. Within(t[n - 1], n - 1)
    BY <2>1, <2>3
  <2> QED
    BY <1>7, <2>1, <2>3, <2>4
<1>9. Within(t[L], L)
  <2> HIDE DEF Within
  <2> QED
    BY <1>3, <1>8
<1>10. Worked(list) <= list[L].at - first
  BY <1>1, <1>3, <1>4, <1>5, <1>9 DEF Worked
<1>11. list[L].type = "IN" => Total(list).open # NoTime
  <2> SUFFICES ASSUME list[L].type = "IN" PROVE t[L].open # NoTime
    BY <1>1
  <2>1. t[L] = TakeOne(t[L - 1], list[L]) /\ t[L - 1] \in SumType
    BY <1>1, <1>2, <1>3
  <2>2. list[L].at # NoTime
    BY <1>3, <1>4
  <2> QED
    BY <2>1, <2>2 DEF TakeOne, SumType
<1> QED
  BY <1>10, <1>11

LEMMA WorkedTyped ==
  ASSUME NEW list \in Seq(PunchType) PROVE Worked(list) \in Nat
BY TotalTyped DEF Worked, SumType

-----------------------------------------------------------------------------
(* What is recorded of the day. *)

RecordType ==
  [status: {"NONE", "OPEN", "COMPLETED", "CORRECTED", "REJECTED"}, worked: Nat]

RestTyped ==
  /\ record \in RecordType
  /\ nextPunch \in Moments
  /\ granted \in BOOLEAN /\ reviewing \in BOOLEAN
  /\ outcome \in {"NONE", "KEEP", "CONVERT"}

LEMMA RecordedTyped ==
  ASSUME NEW ps \in Seq(PunchType)
  PROVE  Recorded(ps) \in RecordType /\ Corrected(InOrder(ps)) \in RecordType
<1>1. Worked(InOrder(ps)) \in Nat
  BY PunchesSorted, WorkedTyped
<1> QED
  BY <1>1 DEF Recorded, Corrected, RecordType

LEMMA MoveRecordTyped ==
  ASSUME DayInv, NEW d \in Deciders, decideMove(d) PROVE record' \in RecordType
<1> DEFINE seen  == decider[d].seen
           after == Moved(seen, Moves(d))
           list  == [n \in DOMAIN seen |-> after[Order(seen)[n]]]
<1>1. Typed /\ ReadingHolds /\ decider[d].step = "write" /\ record' = Corrected(list)
  BY DEF DayInv, decideMove
<1>2. seen \in Seq(PunchType)
  BY <1>1 DEF Typed, DeciderType
<1>3. after \in Seq(PunchType) /\ DOMAIN after = DOMAIN seen
  BY <1>1, <1>2, MovedTyped DEF Moved
<1> HIDE DEF seen, after
<1>4. \A n \in DOMAIN seen : after[Order(seen)[n]] \in PunchType
  <2> SUFFICES ASSUME NEW n \in DOMAIN seen PROVE after[Order(seen)[n]] \in PunchType
    OBVIOUS
  <2>1. Order(seen)[n] \in DOMAIN after
    BY <1>2, <1>3, OrderDef
  <2> QED
    BY <1>3, <2>1
<1>5. list \in Seq(PunchType)
  <2>1. Len(seen) \in Nat /\ DOMAIN seen = 1..Len(seen)
    BY <1>2
  <2>2. list \in [1..Len(seen) -> PunchType]
    BY <1>4, <2>1
  <2> QED
    BY <2>1, <2>2
<1> HIDE DEF list
<1>6. Worked(list) \in Nat
  BY <1>5, WorkedTyped
<1> QED
  BY <1>1, <1>6 DEF Corrected, RecordType

LEMMA NextRestTyped == DayInv /\ RestTyped /\ [Next]_vars => RestTyped'
<1> SUFFICES ASSUME DayInv, RestTyped, [Next]_vars PROVE RestTyped'
  OBVIOUS
<1>0. /\ now \in Instants /\ punches \in Seq(PunchType) /\ punches' \in Seq(PunchType)
      /\ now \in Moments
  <2>1. DayInv'
    BY NextDayInv
  <2> QED
    BY <2>1 DEF DayInv, Typed, Moments
<1>1. ASSUME NEW type, NEW at, punch(type, at) PROVE RestTyped'
  <2>1. record' = Recorded(punches')
    BY <1>1 DEF punch
  <2> QED
    BY <1>0, <1>1, <2>1, RecordedTyped DEF punch, holiday, RestTyped
<1>2. CASE punchNextDay
  BY <1>0, <1>2 DEF punchNextDay, day, holiday, RestTyped
<1>3. ASSUME UNCHANGED <<record, nextPunch, holiday>> PROVE RestTyped'
  BY <1>3 DEF holiday, RestTyped
<1>4. CASE tick
  BY <1>3, <1>4 DEF tick, day
<1>5. ASSUME NEW in, NEW out, requestCorrection(in, out) PROVE RestTyped'
  BY <1>3, <1>5 DEF requestCorrection, day
<1>6. ASSUME NEW r \in Requesters,
             \/ \E at \in Stated : requestMissingCheckOut(r, at)
             \/ sweep(r) \/ closeDay(r) \/ createCheckOut(r)
      PROVE  RestTyped'
  BY <1>3, <1>6 DEF requestMissingCheckOut, sweep, closeDay, createCheckOut, day
<1>7. ASSUME NEW d \in Deciders,
             \/ \E c \in Corrections : decideRead(d, c)
             \/ \E verdict \in Verdicts, at \in Stated \cup {NoTime} :
                  decideApprovals(d, verdict, at)
      PROVE  RestTyped'
  BY <1>3, <1>7 DEF decideRead, decideApprovals, day
<1>8. ASSUME NEW d \in Deciders, decide(d) \/ decideRefused(d) PROVE RestTyped'
  BY <1>3, <1>8 DEF decide, decideRefused, day
<1>9. ASSUME NEW d \in Deciders, decideMove(d) PROVE RestTyped'
  BY <1>9, MoveRecordTyped DEF decideMove, holiday, RestTyped
<1>10. ASSUME NEW d \in Deciders, decideCheckOut(d) PROVE RestTyped'
  <2>1. record' = Corrected(InOrder(punches'))
    BY <1>10 DEF decideCheckOut
  <2> QED
    BY <1>0, <1>10, <2>1, RecordedTyped DEF decideCheckOut, holiday, RestTyped
<1>11. CASE requestReview \/ convertToWorkingDay \/ closeReview
            \/ selectHoliday \/ cancelSelection
  BY <1>11 DEF requestReview, convertToWorkingDay, closeReview, selectHoliday,
     cancelSelection, day, RestTyped
<1>12. CASE keepHoliday
  BY <1>12 DEF keepHoliday, RestTyped, RecordType
<1>13. CASE UNCHANGED vars
  BY <1>3, <1>13 DEF vars, holiday
<1> QED
  BY <1>1, <1>2, <1>4, <1>5, <1>6, <1>7, <1>8, <1>9, <1>10, <1>11, <1>12, <1>13
     DEF Next, Decide

-----------------------------------------------------------------------------
(* Whatever is punched, corrected, decided or reviewed, rows and readings   *)
(* hold their types: the worked time of a day is a natural number.          *)
THEOREM DayTypeCorrect == Spec => []TypeOK
<1>1. Init => RestTyped
  <2> SUFFICES ASSUME Init PROVE RestTyped
    OBVIOUS
  <2>1. record \in RecordType
    BY DEF Init, RecordType, NoRecord
  <2>2. nextPunch \in Moments /\ outcome \in {"NONE", "KEEP", "CONVERT"}
    BY DEF Init, Moments
  <2>3. granted \in BOOLEAN /\ reviewing \in BOOLEAN
    BY Zenon DEF Init
  <2> QED
    BY <2>1, <2>2, <2>3 DEF RestTyped
<1>2. DayInv /\ RestTyped => TypeOK
  BY DEF DayInv, Typed, RestTyped, TypeOK, Moments, RequesterType, RecordType
<1> QED
  BY <1>1, <1>2, InitDayInv, NextDayInv, NextRestTyped, PTL DEF Spec

(* A correction is APPROVED by the verdict of the policy's last step, once  *)
(* every step before has one, and, unless two decisions worked on it at     *)
(* once, by every step; and it stays as it was decided.                     *)
THEOREM CorrectionsAreApproved == Spec => []ApprovedByEveryStep
<1>1. DayInv => ApprovedByEveryStep
  BY DEF DayInv
<1> QED
  BY <1>1, DayInvariant, PTL

(* A day nobody corrected adds up. *)
THEOREM DayAddsUp == Spec => []UncorrectedDayAddsUp
<1>1. DayInv => UncorrectedDayAddsUp
  BY DEF DayInv
<1> QED
  BY <1>1, DayInvariant, PTL

(* A day nobody corrected has no more worked time than passed between its   *)
(* first and its last punch, whatever order they were entered or imported   *)
(* in, and one that is COMPLETED does not end with a check-in.              *)
DayWithinPunches ==
  /\ record.status \in {"OPEN", "COMPLETED"} =>
       record.worked <= Last(InOrder(punches)).at - InOrder(punches)[1].at
  /\ record.status = "COMPLETED" => ~Open(punches)

THEOREM DayIsWithinPunches == Spec => []DayWithinPunches
<1>1. DayInv => DayWithinPunches
  <2> SUFFICES ASSUME DayInv, record.status \in {"OPEN", "COMPLETED"}
               PROVE  DayWithinPunches
    BY DEF DayWithinPunches
  <2> DEFINE list == InOrder(punches)
  <2>1. punches \in Seq(PunchType) /\ punches # << >> /\ record = Recorded(punches)
    BY DEF DayInv, Typed, NothingYet, NoRecord, UncorrectedDayAddsUp
  <2>2. /\ list \in Seq(PunchType) /\ list # << >>
        /\ \A m, n \in DOMAIN list : m < n => list[m].at <= list[n].at
    <3>1. /\ list \in Seq(PunchType) /\ Len(list) = Len(punches)
          /\ \A m, n \in DOMAIN punches : m < n => list[m].at <= list[n].at
      BY <2>1, PunchesSorted
    <3>2. DOMAIN list = DOMAIN punches
      BY DEF InOrder
    <3>3. Len(punches) # 0
      BY <2>1
    <3> HIDE DEF list
    <3> QED
      BY <3>1, <3>2, <3>3
  <2> HIDE DEF list
  <2>3. /\ Worked(list) <= list[Len(list)].at - list[1].at
        /\ list[Len(list)].type = "IN" => Total(list).open # NoTime
    BY <2>2, TotalWithin
  <2>4. /\ record.worked = Worked(list)
        /\ record.status = "COMPLETED" => Total(list).open = NoTime
    BY <2>1 DEF Recorded, Completed, list
  <2> QED
    BY <2>3, <2>4 DEF DayWithinPunches, Open, Last, list
<1> QED
  BY <1>1, DayInvariant, PTL

(* No day counts both as a kept holiday and as worked time. *)
THEOREM HolidayOrWork == Spec => []NeverHolidayAndWork
<1>1. DayInv => NeverHolidayAndWork
  <2> SUFFICES ASSUME DayInv PROVE NeverHolidayAndWork
    OBVIOUS
  <2>1. Conflict = "KEPT" => record.worked = 0
    BY DEF Conflict, DayInv, RejectedUnworked
  <2>2. record.worked > 0 => punches # << >> /\ record.status # "REJECTED"
    BY DEF DayInv, NothingYet, NoRecord, RejectedUnworked
  <2> QED
    BY <2>1, <2>2 DEF NeverHolidayAndWork, Conflict
<1> QED
  BY <1>1, DayInvariant, PTL

(* An approved check-out is added to a day that ends with a check-in, at a  *)
(* time that is over and before the next punch, and is counted.             *)
THEOREM CheckOutClosesDay == Spec => AddedCheckOutClosesDay
<1> DEFINE added(c) ==
      /\ correction[c].kind = "CHECK_OUT"
      /\ correction[c].status # "APPROVED" /\ correction'[c].status = "APPROVED"
      closes ==
      /\ Open(punches)
      /\ \E at \in Instants :
           /\ Last(InOrder(punches)).at < at /\ at <= now
           /\ Last(InOrder(punches)).at < nextPunch => at < nextPunch
           /\ punches' = Append(punches, [type |-> "OUT", at |-> at])
      /\ record'.worked = Worked(InOrder(punches'))
<1>1. ASSUME DayInv, [Next]_vars, NEW c \in Corrections, added(c) PROVE closes
  <2>0. Typed /\ ReadingHolds /\ correction'[c] # correction[c]
    BY <1>1 DEF DayInv
  <2>1. ASSUME NEW d \in Deciders, Decide(d) PROVE closes
    <3>1. decider[d].step = "write" /\ FirstForStep(d) /\ approve(d)
      BY <2>0, <2>1 DEF Decide, decide, decideMove, decideCheckOut, decideRefused
    <3>2. decider[d].of = c /\ Of(d) = correction[c] /\ correction'[c] = Decided(d)
      BY <2>0, <3>1 DEF approve, Typed, Of
    <3>3. TakesPart(d)
      BY <1>1, <2>0, <3>1, <3>2, DecidedEffect DEF Final, TakesPart
    <3>4. decideCheckOut(d)
      BY <1>1, <2>1, <3>1, <3>2, <3>3 DEF Decide, decide, decideMove, decideRefused
    <3>5. decider[d].at \in Instants
      BY <1>1, <2>0, <3>1, <3>2 DEF ReadingHolds
    <3>6. /\ Open(punches)
          /\ Last(InOrder(punches)).at < decider[d].at /\ decider[d].at <= now
          /\ Last(InOrder(punches)).at < nextPunch => decider[d].at < nextPunch
      BY <3>4 DEF decideCheckOut, Closable, ValidCheckOut
    <3>7. punches' = Append(punches, [type |-> "OUT", at |-> decider[d].at])
      BY <3>4 DEF decideCheckOut
    <3>8. record'.worked = Worked(InOrder(punches'))
      BY <3>4 DEF decideCheckOut, Corrected
    <3> QED
      BY <3>5, <3>6, <3>7, <3>8
  <2>2. ASSUME NEW kind \in {"MOVE", "CHECK_OUT"}, NEW in \in Moments,
               NEW out \in Moments, raise(kind, in, out)
        PROVE  FALSE
    <3>1. PICK b \in Corrections :
            /\ correction'[b] = Raised(kind, in, out)
            /\ \A a \in Corrections \ {b} : correction'[a] = correction[a]
      BY <2>0, <2>2, RaiseEffect
    <3>2. correction'[b].status = "PENDING"
      BY <3>1 DEF Raised
    <3> QED
      BY <1>1, <2>0, <3>1, <3>2
  <2>3. ASSUME NEW in \in Stated \cup {NoTime}, NEW out \in Stated \cup {NoTime},
               requestCorrection(in, out)
        PROVE  FALSE
    <3>1. in \in Moments /\ out \in Moments
      BY AttendanceAssumption DEF Moments
    <3> QED
      BY <2>2, <2>3, <3>1 DEF requestCorrection
  <2>4. ASSUME NEW r \in Requesters, createCheckOut(r) PROVE FALSE
    <3>1. NoTime \in Moments /\ requester[r].at \in Moments
      BY <2>0 DEF Typed, RequesterType, Moments
    <3> QED
      BY <2>2, <2>4, <3>1 DEF createCheckOut
  <2>5. \/ \E d \in Deciders : Decide(d)
        \/ \E in, out \in Stated \cup {NoTime} : requestCorrection(in, out)
        \/ \E r \in Requesters : createCheckOut(r)
    BY <1>1, <2>0
       DEF Next, vars, punch, punchNextDay, tick, requestMissingCheckOut, sweep,
           closeDay, decideRead, decideApprovals, requestReview, keepHoliday, convertToWorkingDay,
           closeReview, selectHoliday, cancelSelection
  <2> QED
    BY <2>1, <2>3, <2>4, <2>5
<1>2. DayInv /\ [Next]_vars =>
        [\A c \in Corrections : added(c) => closes]_vars
  BY <1>1
<1> QED
  BY <1>2, DayInvariant, PTL DEF Spec, AddedCheckOutClosesDay
=============================================================================
