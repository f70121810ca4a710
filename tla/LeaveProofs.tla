---------------------------- MODULE LeaveProofs -----------------------------
(* Theorems about Leave, for any number of requests, sessions, days,       *)
(* approval steps and any entitlements and adjustments.                    *)
EXTENDS Leave, SumTheorems, TLAPS

USE DEF Entitled, Held, Spent, Free

-----------------------------------------------------------------------------
(* Facts about the operators of the workflow. *)

(* The number of working days in a span of dates is a natural number. *)
LEMMA WorkingDaysNat ==
  ASSUME NEW first \in Calendar, NEW last \in Calendar
  PROVE  workingDays(first, last) \in Nat
<1>1. IsFiniteSet(first..last)
  BY FS_Interval DEF Calendar
<1>2. IsFiniteSet((first..last) \cap WorkDays)
  BY <1>1, FS_Subset
<1> QED
  BY <1>2, FS_CardinalityType DEF workingDays

(* Every date belongs to one of the two leave years. *)
LEMMA LeavePeriodType ==
  ASSUME NEW d PROVE leavePeriod(d) \in Periods
BY DEF leavePeriod, Periods

(* A movement that passes the CHECK constraint yields a well-formed balance *)
(* with the same total.                                                     *)
LEMMA MovesKeepBalance ==
  ASSUME NEW b \in BalanceType, NEW n \in Nat, NEW c,
         \/ c = Reserve(b, n) \/ c = Release(b, n)
         \/ c = Use(b, n)     \/ c = Reverse(b, n),
         AmountsCheck(c)
  PROVE  /\ c \in BalanceType
         /\ c.available + c.reserved + c.used = b.available + b.reserved + b.used
         /\ c.accrued = b.accrued /\ c.adjusted = b.adjusted
<1> DEFINE Fields == /\ c.available \in Nat /\ c.reserved \in Nat /\ c.used \in Nat
                     /\ c.accrued = b.accrued /\ c.adjusted = b.adjusted
                     /\ c.available + c.reserved + c.used
                          = b.available + b.reserved + b.used
<1>1. CASE c = Reserve(b, n)
  <2>1. Fields
    BY <1>1 DEF BalanceType, Reserve, AmountsCheck
  <2>2. c \in BalanceType
    BY <1>1, <2>1 DEF BalanceType, Reserve
  <2> QED
    BY <2>1, <2>2
<1>2. CASE c = Release(b, n)
  <2>1. Fields
    BY <1>2 DEF BalanceType, Release, AmountsCheck
  <2>2. c \in BalanceType
    BY <1>2, <2>1 DEF BalanceType, Release
  <2> QED
    BY <2>1, <2>2
<1>3. CASE c = Use(b, n)
  <2>1. Fields
    BY <1>3 DEF BalanceType, Use, AmountsCheck
  <2>2. c \in BalanceType
    BY <1>3, <2>1 DEF BalanceType, Use
  <2> QED
    BY <2>1, <2>2
<1>4. CASE c = Reverse(b, n)
  <2>1. Fields
    BY <1>4 DEF BalanceType, Reverse, AmountsCheck
  <2>2. c \in BalanceType
    BY <1>4, <2>1 DEF BalanceType, Reverse
  <2> QED
    BY <2>1, <2>2
<1> QED
  BY <1>1, <1>2, <1>3, <1>4

-----------------------------------------------------------------------------
(* A request that was raised has days; a transaction works on a raised     *)
(* request; a leave year without a balance row has nothing in it.          *)

Raised == \A r \in Requests : req[r].status # "NONE" => req[r].days >= 1

TxOnRaised ==
  \A s \in Sessions : tx[s] # Idle =>
    /\ tx[s].req \in Requests
    /\ req[tx[s].req].status # "NONE"

Closed == \A p \in Periods \ opened : bal[p] = EmptyBalance

AccountInv == TypeOK /\ Raised /\ TxOnRaised /\ Closed /\ EntitlementConserved

LEMMA InitAccountInv == Init => AccountInv
<1> SUFFICES ASSUME Init PROVE AccountInv
  OBVIOUS
<1> USE LeaveAssumption DEF Init
<1>1. TypeOK
  <2>1. EmptyBalance \in BalanceType
    BY DEF EmptyBalance, Provisioned, BalanceType
  <2>2. NoRecord \in DayType
    BY DEF NoRecord, DayType
  <2>3. Idle \in TxType
    BY DEF Idle, TxType
  <2>4. NoRows \in [RowTypes -> Nat]
    BY DEF NoRows
  <2>5. req \in [Requests -> RequestType]
    BY DEF RequestType, Statuses, Verdicts, Undecided, Calendar
  <2> QED
    BY <2>1, <2>2, <2>3, <2>4, <2>5 DEF TypeOK
<1>2. Raised
  BY DEF Raised
<1>3. TxOnRaised
  BY DEF TxOnRaised
<1>4. Closed
  BY DEF Closed
<1>5. EntitlementConserved
  BY DEF EntitlementConserved, Account!Balanced, EmptyBalance, Provisioned
<1> QED
  BY <1>1, <1>2, <1>3, <1>4, <1>5 DEF AccountInv

(* A movement of days in an open leave year keeps the balances in order. *)
LEMMA MoveStep ==
  ASSUME AccountInv, NEW p \in opened, NEW n \in Nat, NEW c,
         \/ c = Reserve(bal[p], n) \/ c = Release(bal[p], n)
         \/ c = Use(bal[p], n)     \/ c = Reverse(bal[p], n),
         AmountsCheck(c),
         bal' = [bal EXCEPT ![p] = c], opened' = opened
  PROVE  /\ bal' \in [Periods -> BalanceType]
         /\ Closed'
         /\ EntitlementConserved'
<1>1. p \in Periods /\ bal[p] \in BalanceType
  BY DEF AccountInv, TypeOK
<1>2. /\ c \in BalanceType
      /\ c.available + c.reserved + c.used
           = bal[p].available + bal[p].reserved + bal[p].used
      /\ c.accrued = bal[p].accrued /\ c.adjusted = bal[p].adjusted
  BY <1>1, MovesKeepBalance
<1>3. bal' \in [Periods -> BalanceType]
  BY <1>2 DEF AccountInv, TypeOK
<1>4. Closed'
  BY DEF Closed, AccountInv
<1>5. EntitlementConserved'
  BY <1>1, <1>2 DEF AccountInv, TypeOK, EntitlementConserved, Account!Balanced
<1> QED
  BY <1>3, <1>4, <1>5

(* Starting a transaction on a raised request. *)
LEMMA BeginStep ==
  ASSUME AccountInv, NEW s \in Sessions, NEW r \in Requests, NEW t \in TxType,
         Begin(s, r, t), t.req = r, req[r].status # "NONE",
         UNCHANGED <<req, bal, opened, ledger, day>>
  PROVE  AccountInv'
<1>1. TypeOK'
  BY DEF AccountInv, TypeOK, Begin
<1>2. TxOnRaised'
  BY DEF AccountInv, TypeOK, TxOnRaised, Begin
<1> QED
  BY <1>1, <1>2 DEF AccountInv, Raised, Closed, EntitlementConserved,
     Account!Balanced

(* A later reading of an open transaction. *)
LEMMA ReadingStep ==
  ASSUME AccountInv, NEW s \in Sessions, decideApprovals(s)
  PROVE  AccountInv'
<1>1. PICK k \in Steps : tx' = [tx EXCEPT ![s].step = k]
  BY DEF decideApprovals
<1>2. k \in 0..NSteps
  BY LeaveAssumption DEF Steps
<1>3. [tx[s] EXCEPT !.step = k] \in TxType
  BY <1>2 DEF AccountInv, TypeOK, TxType
<1>4. TypeOK'
  BY <1>1, <1>3 DEF decideApprovals, AccountInv, TypeOK
<1>5. tx[s] # Idle /\ tx[s] \in TxType
  BY DEF decideApprovals, Idle, AccountInv, TypeOK
<1>6. tx'[s].req = tx[s].req /\ \A t \in Sessions \ {s} : tx'[t] = tx[t]
  BY <1>1, <1>5 DEF AccountInv, TypeOK, TxType
<1>7. TxOnRaised'
  BY <1>5, <1>6 DEF decideApprovals, AccountInv, TxOnRaised
<1> QED
  BY <1>4, <1>7 DEF decideApprovals, AccountInv, Raised, Closed,
     EntitlementConserved, Account!Balanced

(* Ending a transaction, whatever its writes did to requests and balances. *)
LEMMA EndStep ==
  ASSUME AccountInv, NEW s \in Sessions, End(s),
         \A r \in Requests :
           /\ req[r].status # "NONE" => req'[r].status # "NONE"
           /\ req'[r].days = req[r].days,
         \A r \in Requests : req[r].status = "NONE" => req'[r].status = "NONE"
  PROVE  /\ tx' \in [Sessions -> TxType]
         /\ TxOnRaised'
         /\ Raised'
<1>1. Idle \in TxType
  BY LeaveAssumption DEF Idle, TxType
<1>2. tx' \in [Sessions -> TxType]
  BY <1>1 DEF End, AccountInv, TypeOK
<1>3. TxOnRaised'
  BY DEF End, AccountInv, TypeOK, TxOnRaised
<1>4. Raised'
  BY DEF AccountInv, Raised
<1> QED
  BY <1>2, <1>3, <1>4

(* One more row of a type in the ledger of a request. *)
LEMMA PostStep ==
  ASSUME TypeOK, NEW r \in Requests, NEW t \in RowTypes, Post(r, t)
  PROVE  ledger' \in [Requests -> [RowTypes -> Nat]]
BY DEF TypeOK, Post

(* Marking and clearing leave days keeps the calendar well formed. *)
LEMMA CalendarStep ==
  ASSUME TypeOK, NEW r
  PROVE  markLeaveDays(r) \in [Calendar -> DayType]
         /\ clearLeaveDays(r) \in [Calendar -> DayType]
<1>1. NoRecord \in DayType
  BY DEF NoRecord, DayType
<1> QED
  BY <1>1 DEF TypeOK, markLeaveDays, clearLeaveDays, DayType

(* Writing a new status, or a verdict and a status, leaves dates and days. *)
LEMMA RequestStep ==
  ASSUME AccountInv, NEW r \in Requests, req[r].status # "NONE",
         NEW final \in Statuses \ {"NONE"},
         \/ req' = [req EXCEPT ![r].status = final]
         \/ \E k \in Steps, v \in Verdicts : RecordVerdict(r, k, v, final)
  PROVE  /\ req' \in [Requests -> RequestType]
         /\ \A q \in Requests :
              /\ req[q].status # "NONE" <=> req'[q].status # "NONE"
              /\ req'[q].days = req[q].days
<1> USE DEF AccountInv, TypeOK, RequestType
<1>1. CASE req' = [req EXCEPT ![r].status = final]
  <2>1. [req[r] EXCEPT !.status = final] \in RequestType
    OBVIOUS
  <2> QED
    BY <1>1, <2>1
<1>2. ASSUME NEW k \in Steps, NEW v \in Verdicts, RecordVerdict(r, k, v, final)
      PROVE  /\ req' \in [Requests -> RequestType]
             /\ \A q \in Requests :
                  /\ req[q].status # "NONE" <=> req'[q].status # "NONE"
                  /\ req'[q].days = req[q].days
  <2> DEFINE a == [req[r].approvals EXCEPT ![k] = v]
             new == [req[r] EXCEPT !.approvals = a, !.status = final]
  <2>1. a \in [Steps -> Verdicts]
    OBVIOUS
  <2>2. req' = [req EXCEPT ![r] = new]
    BY <1>2 DEF RecordVerdict
  <2> HIDE DEF a
  <2>3. new \in RequestType /\ new.days = req[r].days /\ new.status = final
    BY <2>1
  <2> HIDE DEF new
  <2> QED
    BY <2>2, <2>3
<1> QED
  BY <1>1, <1>2

(* A handler that moves days of one balance, rewrites its request and ends *)
(* its transaction.                                                        *)
LEMMA CommitStep ==
  ASSUME AccountInv, NEW s \in Sessions, NEW r \in Requests, r = tx[s].req,
         tx[s] # Idle, End(s), BalanceFound(r),
         NEW final \in Statuses \ {"NONE"},
         \/ req' = [req EXCEPT ![r].status = final]
         \/ \E k \in Steps, v \in Verdicts : RecordVerdict(r, k, v, final),
         NEW c, AmountsCheck(c),
         \/ c = Release(bal[BalanceOf(r)], req[r].days)
         \/ c = Use(bal[BalanceOf(r)], req[r].days)
         \/ c = Reverse(bal[BalanceOf(r)], req[r].days),
         bal' = [bal EXCEPT ![BalanceOf(r)] = c],
         NEW t \in RowTypes, Post(r, t),
         \/ day' = day \/ day' = markLeaveDays(r) \/ day' = clearLeaveDays(r),
         UNCHANGED <<opened, contended>>
  PROVE  AccountInv'
<1>1. req[r].status # "NONE"
  BY DEF AccountInv, TxOnRaised
<1>2. /\ req' \in [Requests -> RequestType]
      /\ \A q \in Requests : /\ req[q].status # "NONE" <=> req'[q].status # "NONE"
                             /\ req'[q].days = req[q].days
  BY <1>1, RequestStep
<1>3. /\ tx' \in [Sessions -> TxType]
      /\ TxOnRaised'
      /\ Raised'
  BY <1>2, EndStep
<1>4. BalanceOf(r) \in opened /\ req[r].days \in Nat
  BY DEF BalanceFound, BalanceOf, AccountInv, TypeOK, RequestType
<1>5. /\ bal' \in [Periods -> BalanceType]
      /\ Closed'
      /\ EntitlementConserved'
  BY <1>4, MoveStep
<1>6. ledger' \in [Requests -> [RowTypes -> Nat]]
  BY PostStep DEF AccountInv
<1>7. day' \in [Calendar -> DayType]
  BY CalendarStep DEF AccountInv, TypeOK
<1> QED
  BY <1>2, <1>3, <1>5, <1>6, <1>7 DEF AccountInv, TypeOK

(* Opening a balance, alone or for the request about to reserve from it.   *)
LEMMA ProvisionedType ==
  ASSUME NEW a \in Entitlements
  PROVE  /\ Provisioned(a) \in BalanceType
         /\ Provisioned(a).adjusted = 0
         /\ Provisioned(a).available + Provisioned(a).reserved
              + Provisioned(a).used = Provisioned(a).accrued
BY LeaveAssumption DEF Provisioned, BalanceType

LEMMA CreateStep ==
  ASSUME AccountInv, NEW r \in Requests, NEW f \in Calendar, NEW l \in Calendar,
         createRequest(r, f, l)
  PROVE  AccountInv'
<1> DEFINE p == leavePeriod(f)
           n == workingDays(f, l)
<1>1. p \in Periods /\ n \in Nat \ {0}
  BY LeavePeriodType, WorkingDaysNat DEF createRequest
<1>2. PICK start \in IF p \in opened THEN {bal[p]}
                     ELSE {Provisioned(a) : a \in Entitlements} :
        /\ start.available >= n
        /\ bal' = [bal EXCEPT ![p] = Reserve(start, n)]
  BY DEF createRequest
<1>3. /\ req' = [req EXCEPT ![r] =
                   [status |-> "PENDING", first |-> f, last |-> l, days |-> n,
                    approvals |-> Undecided]]
      /\ req[r].status = "NONE"
      /\ opened' = opened \cup {p}
      /\ Post(r, "RESERVATION")
      /\ UNCHANGED <<day, tx, contended>>
  BY DEF createRequest
<1> HIDE DEF p, n
<1>4. /\ start \in BalanceType
      /\ start.available + start.reserved + start.used
           = start.accrued + start.adjusted
  <2>1. CASE p \in opened
    BY <1>1, <1>2, <2>1 DEF AccountInv, TypeOK, BalanceType, EntitlementConserved,
       Account!Balanced
  <2>2. CASE p \notin opened
    <3>1. PICK a \in Entitlements : start = Provisioned(a)
      BY <1>2, <2>2
    <3> QED
      BY <3>1, ProvisionedType DEF BalanceType
  <2> QED
    BY <2>1, <2>2
<1>5. AmountsCheck(Reserve(start, n))
  BY <1>1, <1>2, <1>4 DEF AmountsCheck, Reserve, BalanceType
<1>6. /\ Reserve(start, n) \in BalanceType
      /\ Reserve(start, n).available + Reserve(start, n).reserved
           + Reserve(start, n).used
         = Reserve(start, n).accrued + Reserve(start, n).adjusted
  BY <1>1, <1>4, <1>5, MovesKeepBalance
<1>7. TypeOK'
  <2>1. [status |-> "PENDING", first |-> f, last |-> l, days |-> n,
         approvals |-> Undecided] \in RequestType
    BY <1>1 DEF RequestType, Statuses, Undecided, Verdicts
  <2>2. ledger' \in [Requests -> [RowTypes -> Nat]]
    BY <1>3, PostStep DEF AccountInv, RowTypes
  <2> QED
    BY <1>1, <1>2, <1>3, <1>6, <2>1, <2>2 DEF AccountInv, TypeOK
<1>8. Raised'
  BY <1>1, <1>3 DEF AccountInv, TypeOK, Raised
<1>9. TxOnRaised'
  BY <1>3 DEF AccountInv, TypeOK, TxOnRaised
<1>10. Closed'
  BY <1>2, <1>3 DEF AccountInv, Closed
<1>11. EntitlementConserved'
  BY <1>1, <1>2, <1>6 DEF AccountInv, TypeOK, EntitlementConserved,
     Account!Balanced
<1> QED
  BY <1>7, <1>8, <1>9, <1>10, <1>11 DEF AccountInv

LEMMA ProvisionStep ==
  ASSUME AccountInv, NEW p \in Periods, provisionBalance(p)
  PROVE  AccountInv'
<1>1. PICK a \in Entitlements : bal' = [bal EXCEPT ![p] = Provisioned(a)]
  BY DEF provisionBalance
<1>2. TypeOK'
  BY <1>1, ProvisionedType DEF AccountInv, TypeOK, provisionBalance
<1>3. Closed'
  BY <1>1 DEF AccountInv, Closed, provisionBalance
<1>4. EntitlementConserved'
  BY <1>1, ProvisionedType DEF AccountInv, TypeOK, BalanceType,
     EntitlementConserved, Account!Balanced
<1> QED
  BY <1>2, <1>3, <1>4 DEF AccountInv, Raised, TxOnRaised, provisionBalance

LEMMA AdjustStep ==
  ASSUME AccountInv, NEW p \in Periods, adjustBalance(p)
  PROVE  AccountInv'
<1> DEFINE b(n) == [bal[p] EXCEPT !.available = @ + n, !.adjusted = @ + n]
<1>1. PICK n \in Adjustments : AmountsCheck(b(n)) /\ bal' = [bal EXCEPT ![p] = b(n)]
  BY DEF adjustBalance
<1>2. n \in Int /\ bal[p] \in BalanceType
  BY LeaveAssumption DEF AccountInv, TypeOK
<1>3. /\ b(n).available \in Nat /\ b(n).adjusted \in Int
      /\ b(n).reserved = bal[p].reserved /\ b(n).used = bal[p].used
      /\ b(n).accrued = bal[p].accrued
      /\ b(n).available = bal[p].available + n
      /\ b(n).adjusted = bal[p].adjusted + n
  BY <1>1, <1>2 DEF AmountsCheck, BalanceType
<1>4. b(n) \in BalanceType
  BY <1>2, <1>3 DEF BalanceType
<1> HIDE DEF b
<1>5. TypeOK'
  BY <1>1, <1>4 DEF AccountInv, TypeOK, adjustBalance
<1>6. Closed'
  BY <1>1 DEF AccountInv, Closed, adjustBalance
<1>7. b(n).available + b(n).reserved + b(n).used = b(n).accrued + b(n).adjusted
  <2>1. bal[p].available + bal[p].reserved + bal[p].used
          = bal[p].accrued + bal[p].adjusted
    BY DEF AccountInv, EntitlementConserved, Account!Balanced
  <2> QED
    BY <1>2, <1>3, <2>1 DEF BalanceType
<1>8. EntitlementConserved'
  BY <1>1, <1>7 DEF AccountInv, TypeOK, EntitlementConserved, Account!Balanced
<1> QED
  BY <1>5, <1>6, <1>8 DEF AccountInv, Raised, TxOnRaised, adjustBalance

(* Every step keeps the account invariant. *)
LEMMA NextAccountInv == AccountInv /\ [Next]_vars => AccountInv'
<1> SUFFICES ASSUME AccountInv, [Next]_vars PROVE AccountInv'
  OBVIOUS
<1> USE LeaveAssumption
<1>1. ASSUME NEW p \in Periods, provisionBalance(p) PROVE AccountInv'
  BY <1>1, ProvisionStep
<1>2. ASSUME NEW p \in Periods, adjustBalance(p) PROVE AccountInv'
  BY <1>2, AdjustStep
<1>3. ASSUME NEW r \in Requests, NEW f \in Calendar, NEW l \in Calendar,
             createRequest(r, f, l)
      PROVE  AccountInv'
  BY <1>3, CreateStep
<1>4. ASSUME NEW s \in Sessions, NEW r \in Requests, decideRead(s, r)
      PROVE  AccountInv'
  <2>1. [op |-> "decide", req |-> r, step |-> 0, seen |-> "PENDING"] \in TxType
    BY DEF TxType
  <2> QED
    BY <1>4, <2>1, BeginStep DEF decideRead
<1>5. ASSUME NEW s \in Sessions, NEW r \in Requests, cancelRead(s, r)
      PROVE  AccountInv'
  <2>1. [op |-> "cancel", req |-> r, step |-> 0, seen |-> req[r].status] \in TxType
    BY <1>5 DEF TxType, cancelRead
  <2> QED
    BY <1>5, <2>1, BeginStep DEF cancelRead
<1>6. ASSUME NEW s \in Sessions, tx[s].op # "none"
      PROVE  tx[s] # Idle /\ tx[s].req \in Requests
  BY <1>6 DEF Idle, AccountInv, TxOnRaised
<1>7. ASSUME NEW s \in Sessions, approveStep(s) PROVE AccountInv'
  <2> DEFINE r == tx[s].req
  <2>1. tx[s] # Idle /\ r \in Requests /\ tx[s].step \in Steps
    BY <1>6, <1>7 DEF approveStep, Steps
  <2>2. RecordVerdict(r, tx[s].step, "APPROVED", "PENDING") /\ End(s)
        /\ UNCHANGED <<bal, opened, ledger, day, contended>>
    BY <1>7 DEF approveStep
  <2>3. req[r].status # "NONE"
    BY <2>1 DEF AccountInv, TxOnRaised
  <2> HIDE DEF r
  <2>4. /\ req' \in [Requests -> RequestType]
        /\ \A q \in Requests : /\ req[q].status # "NONE" <=> req'[q].status # "NONE"
                               /\ req'[q].days = req[q].days
    <3>1. "PENDING" \in Statuses \ {"NONE"} /\ "APPROVED" \in Verdicts
      BY DEF Statuses, Verdicts
    <3> QED
      BY <2>1, <2>2, <2>3, <3>1, RequestStep
  <2>5. tx' \in [Sessions -> TxType] /\ TxOnRaised' /\ Raised'
    BY <2>2, <2>4, EndStep
  <2> QED
    BY <2>2, <2>4, <2>5 DEF AccountInv, TypeOK, Closed, EntitlementConserved,
       Account!Balanced
<1>8. ASSUME NEW s \in Sessions, approveFinal(s) PROVE AccountInv'
  <2>1. tx[s] # Idle /\ tx[s].req \in Requests /\ NSteps \in Steps
    BY <1>6, <1>8 DEF approveFinal, Steps
  <2>2. "APPROVED" \in Statuses \ {"NONE"} /\ "APPROVED" \in Verdicts
        /\ "USAGE" \in RowTypes
    BY DEF Statuses, Verdicts, RowTypes
  <2> QED
    BY <1>8, <2>1, <2>2, CommitStep DEF approveFinal
<1>9. ASSUME NEW s \in Sessions, reject(s) PROVE AccountInv'
  <2>1. tx[s] # Idle /\ tx[s].req \in Requests /\ tx[s].step \in Steps
    BY <1>6, <1>9 DEF reject
  <2>2. "REJECTED" \in Statuses \ {"NONE"} /\ "REJECTED" \in Verdicts
        /\ "RELEASE" \in RowTypes
    BY DEF Statuses, Verdicts, RowTypes
  <2> QED
    BY <1>9, <2>1, <2>2, CommitStep DEF reject, releaseReservation
<1>10. ASSUME NEW s \in Sessions, cancelPending(s) PROVE AccountInv'
  <2>1. tx[s] # Idle /\ tx[s].req \in Requests
    BY <1>6, <1>10 DEF cancelPending
  <2>2. "CANCELLED" \in Statuses \ {"NONE"} /\ "RELEASE" \in RowTypes
    BY DEF Statuses, RowTypes
  <2> QED
    BY <1>10, <2>1, <2>2, CommitStep DEF cancelPending, releaseReservation
<1>11. ASSUME NEW s \in Sessions, cancelApproved(s) PROVE AccountInv'
  <2>1. tx[s] # Idle /\ tx[s].req \in Requests
    BY <1>6, <1>11 DEF cancelApproved
  <2>2. "CANCELLED" \in Statuses \ {"NONE"} /\ "REVERSAL" \in RowTypes
    BY DEF Statuses, RowTypes
  <2> QED
    BY <1>11, <2>1, <2>2, CommitStep DEF cancelApproved
<1>12. ASSUME NEW s \in Sessions, rollback(s) PROVE AccountInv'
  <2>1. tx' \in [Sessions -> TxType] /\ TxOnRaised' /\ Raised'
    BY <1>12, EndStep DEF rollback
  <2> QED
    BY <1>12, <2>1 DEF rollback, AccountInv, TypeOK, Closed,
       EntitlementConserved, Account!Balanced
<1>13. ASSUME NEW d \in EventDays, punch(d) \/ linkRecord(d) PROVE AccountInv'
  <2> DEFINE new(st, pu, li) == [status |-> st, punched |-> pu, linked |-> li]
  <2>0. /\ day[d].status \in {"NONE", "PRESENT", "ON_LEAVE"}
        /\ day[d].punched \in BOOLEAN /\ day[d].linked \in BOOLEAN
        /\ day[d] = new(day[d].status, day[d].punched, day[d].linked)
    BY DEF AccountInv, TypeOK, DayType
  <2>a. \E st \in {"NONE", "PRESENT", "ON_LEAVE"}, pu \in BOOLEAN, li \in BOOLEAN :
           day' = [day EXCEPT ![d] = new(st, pu, li)]
    <3>1. CASE punch(d)
      <4>1. PICK named \in BOOLEAN :
              day' = [day EXCEPT ![d] =
                        new(IF named \/ day[d].status = "NONE" THEN "PRESENT"
                            ELSE day[d].status, TRUE, day[d].linked)]
        BY <3>1 DEF punch
      <4>2. (IF named \/ day[d].status = "NONE" THEN "PRESENT"
              ELSE day[d].status) \in {"NONE", "PRESENT", "ON_LEAVE"}
        BY <2>0
      <4> QED
        BY <4>1, <4>2, <2>0
    <3>2. CASE linkRecord(d)
      <4>1. day' = [day EXCEPT ![d] = new(day[d].status, day[d].punched, TRUE)]
        BY <3>2 DEF linkRecord
      <4> QED
        BY <4>1, <2>0
    <3> QED
      BY <1>13, <3>1, <3>2
  <2>b. \A st \in {"NONE", "PRESENT", "ON_LEAVE"}, pu \in BOOLEAN, li \in BOOLEAN :
          new(st, pu, li) \in DayType
    BY DEF DayType
  <2> HIDE DEF new
  <2>1. day' \in [Calendar -> DayType]
    BY <2>a, <2>b DEF AccountInv, TypeOK
  <2> QED
    BY <1>13, <2>1 DEF punch, linkRecord, AccountInv, TypeOK, Raised, TxOnRaised,
       Closed, EntitlementConserved, Account!Balanced
<1>14. CASE UNCHANGED vars
  BY <1>14 DEF vars, AccountInv, TypeOK, Raised, TxOnRaised, Closed,
     EntitlementConserved, Account!Balanced
<1>15. ASSUME NEW s \in Sessions, decideApprovals(s) PROVE AccountInv'
  BY <1>15, ReadingStep
<1> QED
  BY <1>1, <1>2, <1>3, <1>4, <1>5, <1>7, <1>8, <1>9, <1>10, <1>11, <1>12, <1>13,
     <1>14, <1>15 DEF Next, Commit

(* Every reachable state is well typed and its balances conserve the       *)
(* entitlement, however the handlers interleave.                           *)
THEOREM AccountSafe == Spec => []AccountInv
BY InitAccountInv, NextAccountInv, PTL DEF Spec

(* The columns always hold what the schema lets them hold. *)
THEOREM TypeCorrect == Spec => []TypeOK
<1>1. AccountInv => TypeOK
  BY DEF AccountInv
<1> QED
  BY AccountSafe, <1>1, PTL

(* No day of an employee's entitlement is lost or invented by the leave    *)
(* handlers, however they interleave.                                      *)
THEOREM Conservation == Spec => []EntitlementConserved
<1>1. AccountInv => EntitlementConserved
  BY DEF AccountInv
<1> QED
  BY AccountSafe, <1>1, PTL

-----------------------------------------------------------------------------
(* Decisions follow the policy.  Who decides a step has read a verdict on  *)
(* every earlier step, and no verdict is ever taken back: so steps are     *)
(* decided in order, and the last one makes the request APPROVED.  Whether *)
(* the earlier verdicts are approvals is a matter of who raced: below.     *)

TxInTurn ==
  \A s \in Sessions : tx[s].op = "decide" =>
    \A j \in 1..(tx[s].step - 1) : req[tx[s].req].approvals[j] # "NONE"

DecidedInOrder ==
  \A r \in Requests :
    /\ \A k \in Steps : req[r].approvals[k] # "NONE" =>
         \A j \in 1..(k - 1) : req[r].approvals[j] # "NONE"
    /\ req[r].status = "APPROVED" => req[r].approvals[NSteps] = "APPROVED"

UnraisedIsBlank ==
  \A r \in Requests : req[r].status = "NONE" =>
    req[r].approvals = Undecided /\ ledger[r] = NoRows

PolicyInv ==
  AccountInv /\ DecidedInOrder /\ TxInTurn /\ UnraisedIsBlank

LEMMA InitPolicyInv == Init => PolicyInv
<1> SUFFICES ASSUME Init PROVE PolicyInv
  OBVIOUS
<1>1. AccountInv
  BY InitAccountInv
<1>2. \A s \in Sessions : tx[s].op = "none"
  BY DEF Init, Idle
<1>3. \A r \in Requests, k \in Steps : req[r].approvals[k] = "NONE"
  BY DEF Init, Undecided
<1>4. \A r \in Requests : req[r].status = "NONE"
  BY DEF Init
<1>5. DecidedInOrder /\ TxInTurn
  BY <1>2, <1>3, <1>4 DEF DecidedInOrder, TxInTurn
<1>6. UnraisedIsBlank
  BY DEF Init, UnraisedIsBlank
<1> QED
  BY <1>1, <1>5, <1>6 DEF PolicyInv

(* What a recorded verdict changes. *)
LEMMA VerdictEffect ==
  ASSUME TypeOK, NEW r \in Requests, NEW k \in Steps, NEW v \in Verdicts,
         NEW final \in Statuses, RecordVerdict(r, k, v, final)
  PROVE  /\ req[r].approvals[k] = "NONE"
         /\ req'[r].status = final
         /\ req'[r].approvals[k] = v
         /\ \A j \in Steps \ {k} : req'[r].approvals[j] = req[r].approvals[j]
         /\ req'[r].first = req[r].first /\ req'[r].last = req[r].last
         /\ \A q \in Requests \ {r} : req'[q] = req[q]
<1> DEFINE a == [req[r].approvals EXCEPT ![k] = v]
           new == [req[r] EXCEPT !.approvals = a, !.status = final]
<1>1. req[r] \in RequestType
  BY DEF TypeOK
<1>2. /\ a[k] = v
      /\ \A j \in Steps \ {k} : a[j] = req[r].approvals[j]
  BY <1>1 DEF RequestType
<1>3. req' = [req EXCEPT ![r] = new] /\ req[r].approvals[k] = "NONE"
  BY DEF RecordVerdict
<1> HIDE DEF a
<1>4. /\ new.approvals = a /\ new.status = final
      /\ new.first = req[r].first /\ new.last = req[r].last
  BY <1>1 DEF RequestType
<1> HIDE DEF new
<1>5. req'[r] = new /\ \A q \in Requests \ {r} : req'[q] = req[q]
  BY <1>3 DEF TypeOK
<1> QED
  BY <1>2, <1>3, <1>4, <1>5

(* The verdict a step records, and the status it writes with it. *)
Written(k, v, final) ==
  \/ v = "APPROVED" /\ final = "PENDING" /\ k # NSteps
  \/ v = "APPROVED" /\ final = "APPROVED" /\ k = NSteps
  \/ v = "REJECTED" /\ final = "REJECTED"

(* Requests change in four ways: not at all, raised, decided, cancelled.   *)
LEMMA RequestChanges ==
  ASSUME AccountInv, [Next]_vars
  PROVE  \/ /\ UNCHANGED <<req, ledger>>
            /\ \/ UNCHANGED tx
               \/ \E s \in Sessions : End(s)
               \/ \E s \in Sessions, r \in Requests : decideRead(s, r)
               \/ \E s \in Sessions : decideApprovals(s)
               \/ \E s \in Sessions, r \in Requests : cancelRead(s, r)
         \/ \E r \in Requests, f \in Calendar, l \in Calendar : createRequest(r, f, l)
         \/ \E s \in Sessions :
              /\ tx[s].op # "none" /\ End(s) /\ BalanceFound(tx[s].req)
              /\ \E t \in RowTypes : Post(tx[s].req, t) \/ ledger' = ledger
              /\ \/ req' = [req EXCEPT ![tx[s].req].status = "CANCELLED"]
                 \/ /\ tx[s].op = "decide" /\ tx[s].step \in Steps
                    /\ \E v \in Verdicts, final \in Statuses :
                         /\ Written(tx[s].step, v, final)
                         /\ RecordVerdict(tx[s].req, tx[s].step, v, final)
<1>0. /\ {"NONE", "APPROVED", "REJECTED"} \subseteq Verdicts
      /\ {"PENDING", "APPROVED", "REJECTED"} \subseteq Statuses
      /\ {"RELEASE", "USAGE", "REVERSAL"} \subseteq RowTypes
  BY DEF Verdicts, Statuses, RowTypes
<1>1. ASSUME NEW s \in Sessions, approveStep(s)
      PROVE  /\ tx[s].op = "decide" /\ tx[s].step \in Steps
             /\ End(s) /\ BalanceFound(tx[s].req)
             /\ ledger' = ledger /\ Written(tx[s].step, "APPROVED", "PENDING")
             /\ RecordVerdict(tx[s].req, tx[s].step, "APPROVED", "PENDING")
  <2>1. tx[s].step # NSteps /\ tx[s].step \in Steps
    BY <1>1, LeaveAssumption DEF approveStep, Steps
  <2> QED
    BY <1>1, <2>1 DEF approveStep, Written
<1>2. ASSUME NEW s \in Sessions, approveFinal(s)
      PROVE  /\ tx[s].op = "decide" /\ tx[s].step \in Steps
             /\ End(s) /\ BalanceFound(tx[s].req)
             /\ Post(tx[s].req, "USAGE") /\ Written(tx[s].step, "APPROVED", "APPROVED")
             /\ RecordVerdict(tx[s].req, tx[s].step, "APPROVED", "APPROVED")
  BY <1>2, LeaveAssumption DEF approveFinal, Written, Steps
<1>3. ASSUME NEW s \in Sessions, reject(s)
      PROVE  /\ tx[s].op = "decide" /\ tx[s].step \in Steps
             /\ End(s) /\ BalanceFound(tx[s].req)
             /\ Post(tx[s].req, "RELEASE") /\ Written(tx[s].step, "REJECTED", "REJECTED")
             /\ RecordVerdict(tx[s].req, tx[s].step, "REJECTED", "REJECTED")
  BY <1>3 DEF reject, releaseReservation, Written
<1>4. ASSUME NEW s \in Sessions, cancelPending(s) \/ cancelApproved(s)
      PROVE  /\ tx[s].op = "cancel" /\ End(s) /\ BalanceFound(tx[s].req)
             /\ Post(tx[s].req, "RELEASE") \/ Post(tx[s].req, "REVERSAL")
             /\ req' = [req EXCEPT ![tx[s].req].status = "CANCELLED"]
  BY <1>4 DEF cancelPending, cancelApproved, releaseReservation
<1>5. ASSUME NEW s \in Sessions, rollback(s)
      PROVE  UNCHANGED <<req, ledger>> /\ End(s)
  BY <1>5 DEF rollback
<1>6. ASSUME \/ \E p \in Periods : provisionBalance(p) \/ adjustBalance(p)
             \/ \E d \in EventDays : punch(d) \/ linkRecord(d)
             \/ UNCHANGED vars
      PROVE  UNCHANGED <<req, ledger, tx>>
  BY <1>6 DEF provisionBalance, adjustBalance, punch, linkRecord, vars
<1>7. ASSUME NEW s \in Sessions, NEW r \in Requests, decideRead(s, r) \/ cancelRead(s, r)
      PROVE  UNCHANGED <<req, ledger>>
  BY <1>7 DEF decideRead, cancelRead
<1>8. ASSUME NEW s \in Sessions, decideApprovals(s) PROVE UNCHANGED <<req, ledger>>
  BY <1>8 DEF decideApprovals
<1> QED
  BY <1>0, <1>1, <1>2, <1>3, <1>4, <1>5, <1>6, <1>7, <1>8 DEF Next, Commit

(* A verdict recorded in turn keeps the decisions in order. *)
LEMMA VerdictKeepsOrder ==
  ASSUME PolicyInv, NEW s \in Sessions, tx[s].op = "decide", tx[s].step \in Steps,
         End(s), NEW v \in Verdicts, NEW final \in Statuses,
         Written(tx[s].step, v, final),
         RecordVerdict(tx[s].req, tx[s].step, v, final)
  PROVE  DecidedInOrder' /\ TxInTurn'
<1> DEFINE r == tx[s].req
           k == tx[s].step
<1>1. r \in Requests /\ k \in Steps /\ TypeOK /\ NSteps \in Nat
  BY LeaveAssumption DEF PolicyInv, AccountInv, TxOnRaised, Idle
<1>2. /\ req[r].approvals[k] = "NONE"
      /\ req'[r].status = final
      /\ req'[r].approvals[k] = v
      /\ \A j \in Steps \ {k} : req'[r].approvals[j] = req[r].approvals[j]
      /\ \A q \in Requests \ {r} : req'[q] = req[q]
  BY <1>1, VerdictEffect
<1>3. \A j \in 1..(k - 1) : req[r].approvals[j] # "NONE"
  BY DEF PolicyInv, TxInTurn
<1>4. Written(k, v, final)
  OBVIOUS
<1>5. \A t \in Sessions : tx'[t] = IF t = s THEN Idle ELSE tx[t]
  BY <1>1 DEF End, TypeOK
<1> HIDE DEF r, k
<1>6. v # "NONE"
  BY <1>4 DEF Written
<1>7. \A q \in Requests, m \in Steps :
        req[q].approvals[m] # "NONE" => req'[q].approvals[m] # "NONE"
  BY <1>1, <1>2, <1>6
<1>8. ASSUME NEW q \in Requests, NEW m \in Steps, req'[q].approvals[m] # "NONE",
             NEW j \in 1..(m - 1)
      PROVE  req'[q].approvals[j] # "NONE"
  <2>1. j \in Steps
    BY <1>1 DEF Steps
  <2>2. req[q].approvals[j] # "NONE"
    <3>1. CASE q = r /\ m = k
      BY <1>3, <3>1
    <3>2. CASE ~(q = r /\ m = k)
      <4>1. req[q].approvals[m] # "NONE"
        BY <1>2, <1>8, <3>2
      <4> QED
        BY <4>1 DEF PolicyInv, DecidedInOrder
    <3> QED
      BY <3>1, <3>2
  <2> QED
    BY <1>7, <2>1, <2>2
<1>9. ASSUME NEW q \in Requests, req'[q].status = "APPROVED"
      PROVE  req'[q].approvals[NSteps] = "APPROVED"
  <2>1. CASE q = r
    BY <1>2, <1>4, <1>9, <2>1 DEF Written
  <2>2. CASE q # r
    BY <1>2, <1>9, <2>2 DEF PolicyInv, DecidedInOrder
  <2> QED
    BY <2>1, <2>2
<1>10. DecidedInOrder'
  BY <1>8, <1>9 DEF DecidedInOrder
<1>11. TxInTurn'
  <2>1. ASSUME NEW t \in Sessions, tx'[t].op = "decide",
               NEW j \in 1..(tx'[t].step - 1)
        PROVE  req'[tx'[t].req].approvals[j] # "NONE"
    <3>1. tx'[t] = tx[t] /\ tx[t] # Idle
      BY <1>5, <2>1 DEF Idle
    <3>2. tx[t].req \in Requests /\ tx[t].step \in 0..NSteps
      BY <1>1, <3>1 DEF PolicyInv, AccountInv, TxOnRaised, TypeOK, TxType
    <3>3. req[tx[t].req].approvals[j] # "NONE"
      BY <2>1, <3>1 DEF PolicyInv, TxInTurn
    <3>4. j \in Steps
      BY <1>1, <2>1, <3>1, <3>2 DEF Steps
    <3> QED
      BY <1>7, <3>1, <3>2, <3>3, <3>4
  <2> QED
    BY <2>1 DEF TxInTurn
<1> QED
  BY <1>10, <1>11

(* Steps that leave the recorded verdicts alone: what they do to statuses  *)
(* and transactions keeps the order of decisions.                          *)
LEMMA OrderKept ==
  ASSUME PolicyInv,
         \A q \in Requests :
           /\ req'[q].approvals = req[q].approvals
           /\ req'[q].status = req[q].status \/ req'[q].status = "CANCELLED",
         \A t \in Sessions :
           tx'[t].op = "decide" =>
             \/ tx'[t] = tx[t]
             \/ \A j \in 1..(tx'[t].step - 1) :
                  req[tx'[t].req].approvals[j] # "NONE" /\ tx'[t].req \in Requests
  PROVE  DecidedInOrder' /\ TxInTurn'
<1>1. DecidedInOrder'
  BY DEF PolicyInv, DecidedInOrder
<1>2. TxInTurn'
  <2>1. ASSUME NEW t \in Sessions, tx'[t].op = "decide",
               NEW j \in 1..(tx'[t].step - 1)
        PROVE  req'[tx'[t].req].approvals[j] # "NONE"
    <3>1. CASE tx'[t] = tx[t]
      <4>1. tx[t] # Idle
        BY <2>1, <3>1 DEF Idle
      <4>2. tx[t].req \in Requests
        BY <4>1 DEF PolicyInv, AccountInv, TxOnRaised
      <4> QED
        BY <2>1, <3>1, <4>2 DEF PolicyInv, TxInTurn
    <3> QED
      BY <2>1, <3>1
  <2> QED
    BY <2>1 DEF TxInTurn
<1> QED
  BY <1>1, <1>2

(* Raising a request: nothing was decided on it and nobody works on it.    *)
LEMMA CreateEffect ==
  ASSUME TypeOK, NEW r \in Requests, NEW f, NEW l, createRequest(r, f, l)
  PROVE  /\ req[r].status = "NONE" /\ req'[r].status = "PENDING"
         /\ req'[r].first = f /\ req'[r].approvals = Undecided
         /\ \A q \in Requests \ {r} : req'[q] = req[q]
         /\ \A q \in Requests \ {r} : ledger'[q] = ledger[q]
         /\ ledger[r] = NoRows => ledger'[r] = Rows(1, 0, 0, 0)
         /\ tx' = tx
<1> DEFINE new == [status |-> "PENDING", first |-> f, last |-> l,
                   days |-> workingDays(f, l), approvals |-> Undecided]
<1>1. req' = [req EXCEPT ![r] = new] /\ req[r].status = "NONE" /\ tx' = tx
      /\ Post(r, "RESERVATION")
  BY DEF createRequest
<1>2. req'[r] = new /\ \A q \in Requests \ {r} : req'[q] = req[q]
  BY <1>1 DEF TypeOK
<1>3. /\ ledger'[r] = [ledger[r] EXCEPT !["RESERVATION"] = @ + 1]
      /\ \A q \in Requests \ {r} : ledger'[q] = ledger[q]
  BY <1>1 DEF TypeOK, Post
<1>4. ledger[r] = NoRows => ledger'[r] = Rows(1, 0, 0, 0)
  BY <1>3 DEF NoRows, Rows, RowTypes
<1> QED
  BY <1>1, <1>2, <1>3, <1>4

LEMMA CreateKeepsOrder ==
  ASSUME PolicyInv, NEW r \in Requests, NEW f, NEW l, createRequest(r, f, l)
  PROVE  DecidedInOrder' /\ TxInTurn' /\ UnraisedIsBlank'
<1>1. TypeOK
  BY DEF PolicyInv, AccountInv
<1>2. /\ req[r].status = "NONE" /\ req'[r].status = "PENDING"
      /\ req'[r].approvals = Undecided
      /\ \A q \in Requests \ {r} : req'[q] = req[q] /\ ledger'[q] = ledger[q]
      /\ tx' = tx
  BY <1>1, CreateEffect
<1>3. \A k \in Steps : req'[r].approvals[k] = "NONE"
  BY <1>2 DEF Undecided
<1>4. \A t \in Sessions : tx[t] # Idle => tx[t].req \in Requests \ {r}
  BY <1>2 DEF PolicyInv, AccountInv, TxOnRaised
<1>5. DecidedInOrder'
  BY <1>2, <1>3 DEF PolicyInv, DecidedInOrder
<1>6. TxInTurn'
  BY <1>2, <1>4 DEF PolicyInv, TxInTurn, Idle
<1>7. UnraisedIsBlank'
  BY <1>2 DEF PolicyInv, UnraisedIsBlank
<1> QED
  BY <1>5, <1>6, <1>7

(* What a commit does to the request its transaction works on. *)
LEMMA CommitEffect ==
  ASSUME AccountInv, NEW s \in Sessions, tx[s].op # "none", End(s),
         \E t \in RowTypes : Post(tx[s].req, t) \/ ledger' = ledger,
         \/ req' = [req EXCEPT ![tx[s].req].status = "CANCELLED"]
         \/ /\ tx[s].op = "decide" /\ tx[s].step \in Steps
            /\ \E v \in Verdicts, final \in Statuses :
                 /\ Written(tx[s].step, v, final)
                 /\ RecordVerdict(tx[s].req, tx[s].step, v, final)
  PROVE  /\ tx[s].req \in Requests /\ req[tx[s].req].status # "NONE"
         /\ req'[tx[s].req].status # "NONE"
         /\ req'[tx[s].req].first = req[tx[s].req].first
         /\ req'[tx[s].req].last = req[tx[s].req].last
         /\ \A q \in Requests \ {tx[s].req} :
              req'[q] = req[q] /\ ledger'[q] = ledger[q]
<1> DEFINE r == tx[s].req
<1>1. TypeOK /\ tx[s] # Idle
  BY DEF AccountInv, Idle
<1>2. r \in Requests /\ req[r].status # "NONE"
  BY <1>1 DEF AccountInv, TxOnRaised
<1>3. \A q \in Requests \ {r} : ledger'[q] = ledger[q]
  BY <1>1, <1>2 DEF TypeOK, Post
<1>4. CASE req' = [req EXCEPT ![r].status = "CANCELLED"]
  <2>1. /\ req'[r].status = "CANCELLED" /\ req'[r].first = req[r].first
        /\ req'[r].last = req[r].last
    BY <1>1, <1>2, <1>4 DEF TypeOK, RequestType
  <2> QED
    BY <1>1, <1>2, <1>3, <1>4, <2>1 DEF TypeOK
<1>5. ASSUME tx[s].step \in Steps, NEW v \in Verdicts, NEW final \in Statuses,
             Written(tx[s].step, v, final), RecordVerdict(r, tx[s].step, v, final)
      PROVE  /\ req'[r].status # "NONE" /\ req'[r].first = req[r].first
             /\ req'[r].last = req[r].last
             /\ \A q \in Requests \ {r} : req'[q] = req[q]
  <2>1. final # "NONE"
    BY <1>5 DEF Written
  <2> QED
    BY <1>1, <1>2, <1>5, <2>1, VerdictEffect
<1> QED
  BY <1>2, <1>3, <1>4, <1>5

(* Every step keeps the order of decisions. *)
LEMMA NextPolicyInv == PolicyInv /\ [Next]_vars => PolicyInv'
<1> SUFFICES ASSUME PolicyInv, [Next]_vars PROVE PolicyInv'
  OBVIOUS
<1>1. AccountInv /\ TypeOK
  BY DEF PolicyInv, AccountInv
<1>2. AccountInv'
  BY <1>1, NextAccountInv
<1>3. CASE UNCHANGED <<req, ledger>>
  <2>1. UnraisedIsBlank'
    BY <1>3 DEF PolicyInv, UnraisedIsBlank
  <2>2. ASSUME \A t \in Sessions :
                 tx'[t].op = "decide" =>
                   \/ tx'[t] = tx[t]
                   \/ \A j \in 1..(tx'[t].step - 1) :
                        req[tx'[t].req].approvals[j] # "NONE"
                        /\ tx'[t].req \in Requests
        PROVE  PolicyInv'
    BY <1>2, <1>3, <2>1, <2>2, OrderKept DEF PolicyInv
  <2>3. CASE UNCHANGED tx
    BY <2>2, <2>3
  <2>4. ASSUME NEW s \in Sessions, End(s) PROVE PolicyInv'
    BY <1>1, <2>2, <2>4 DEF End, TypeOK, Idle
  <2>5. ASSUME NEW s \in Sessions, NEW r \in Requests, decideRead(s, r)
        PROVE  PolicyInv'
    <3>1. /\ tx'[s].step = 0
          /\ \A t \in Sessions \ {s} : tx'[t] = tx[t]
      BY <1>1, <2>5 DEF decideRead, Begin, TypeOK
    <3>2. 1..(tx'[s].step - 1) = {}
      BY <3>1
    <3> QED
      BY <2>2, <3>1, <3>2
  <2>9. ASSUME NEW s \in Sessions, decideApprovals(s) PROVE PolicyInv'
    <3>1. PICK k \in Steps :
            PendingStep(tx[s].req, k) /\ tx' = [tx EXCEPT ![s].step = k]
      BY <2>9 DEF decideApprovals
    <3>2. tx[s].req \in Requests
      BY <1>1, <2>9 DEF decideApprovals, AccountInv, TxOnRaised, Idle
    <3>3. /\ tx'[s].req = tx[s].req /\ tx'[s].step = k
          /\ \A t \in Sessions \ {s} : tx'[t] = tx[t]
      BY <1>1, <3>1 DEF TypeOK, TxType
    <3>4. \A j \in 1..(k - 1) : req[tx[s].req].approvals[j] # "NONE"
      BY <3>1 DEF PendingStep
    <3> QED
      BY <2>2, <3>2, <3>3, <3>4
  <2>6. ASSUME NEW s \in Sessions, NEW r \in Requests, cancelRead(s, r)
        PROVE  PolicyInv'
    <3>1. tx'[s].op = "cancel" /\ \A t \in Sessions \ {s} : tx'[t] = tx[t]
      BY <1>1, <2>6 DEF cancelRead, Begin, TypeOK
    <3> QED
      BY <2>2, <3>1
  <2>7. \/ UNCHANGED tx
        \/ \E s \in Sessions : End(s)
        \/ \E s \in Sessions, r \in Requests : decideRead(s, r)
        \/ \E s \in Sessions : decideApprovals(s)
        \/ \E s \in Sessions, r \in Requests : cancelRead(s, r)
        \/ \E r \in Requests, f \in Calendar, l \in Calendar :
             createRequest(r, f, l)
    BY <1>1, RequestChanges
  <2>8. ASSUME NEW r \in Requests, NEW f, NEW l, createRequest(r, f, l)
        PROVE  PolicyInv'
    BY <1>2, <2>8, CreateKeepsOrder DEF PolicyInv
  <2> QED
    BY <2>3, <2>4, <2>5, <2>6, <2>7, <2>8, <2>9
<1>4. ASSUME NEW r \in Requests, NEW f \in Calendar, NEW l \in Calendar,
             createRequest(r, f, l)
      PROVE  PolicyInv'
  BY <1>2, <1>4, CreateKeepsOrder DEF PolicyInv
<1>5. ASSUME NEW s \in Sessions, tx[s].op # "none", End(s),
             \E t \in RowTypes : Post(tx[s].req, t) \/ ledger' = ledger,
             \/ req' = [req EXCEPT ![tx[s].req].status = "CANCELLED"]
             \/ /\ tx[s].op = "decide" /\ tx[s].step \in Steps
                /\ \E v \in Verdicts, final \in Statuses :
                     /\ Written(tx[s].step, v, final)
                     /\ RecordVerdict(tx[s].req, tx[s].step, v, final)
      PROVE  PolicyInv'
  <2>1. /\ tx[s].req \in Requests /\ req[tx[s].req].status # "NONE"
        /\ req'[tx[s].req].status # "NONE"
        /\ \A q \in Requests \ {tx[s].req} :
             req'[q] = req[q] /\ ledger'[q] = ledger[q]
    BY <1>1, <1>5, CommitEffect
  <2>2. UnraisedIsBlank'
    BY <2>1 DEF PolicyInv, UnraisedIsBlank
  <2>3. CASE req' = [req EXCEPT ![tx[s].req].status = "CANCELLED"]
    <3>1. \A q \in Requests :
            /\ req'[q].approvals = req[q].approvals
            /\ req'[q].status = req[q].status \/ req'[q].status = "CANCELLED"
      BY <1>1, <2>1, <2>3 DEF TypeOK, RequestType
    <3>2. \A t \in Sessions : tx'[t].op = "decide" => tx'[t] = tx[t]
      BY <1>1, <1>5 DEF End, TypeOK, Idle
    <3> QED
      BY <1>2, <2>2, <3>1, <3>2, OrderKept DEF PolicyInv
  <2>4. CASE tx[s].op = "decide" /\ tx[s].step \in Steps /\
             \E v \in Verdicts, final \in Statuses :
               /\ Written(tx[s].step, v, final)
               /\ RecordVerdict(tx[s].req, tx[s].step, v, final)
    BY <1>2, <1>5, <2>2, <2>4, VerdictKeepsOrder DEF PolicyInv
  <2> QED
    BY <1>5, <2>3, <2>4
<1> QED
  BY <1>1, <1>3, <1>4, <1>5, RequestChanges

(* The unique key on (request, step) and the once-only createRequest make  *)
(* every recorded verdict final, whatever races.                           *)
THEOREM DecisionsFinal == Spec => DecisionsAreFinal
<1> DEFINE Kept == \A r \in Requests, k \in Steps :
                     req[r].approvals[k] # "NONE" =>
                       req'[r].approvals[k] = req[r].approvals[k]
<1>1. ASSUME PolicyInv, [Next]_vars PROVE Kept
  <2>1. AccountInv /\ TypeOK
    BY <1>1 DEF PolicyInv, AccountInv
  <2>2. ASSUME NEW r \in Requests, NEW f, NEW l, createRequest(r, f, l) PROVE Kept
    <3>1. /\ req[r].status = "NONE"
          /\ \A q \in Requests \ {r} : req'[q] = req[q]
      BY <2>1, <2>2, CreateEffect
    <3>2. \A k \in Steps : req[r].approvals[k] = "NONE"
      BY <1>1, <3>1 DEF PolicyInv, UnraisedIsBlank, Undecided
    <3> QED
      BY <3>1, <3>2
  <2>3. ASSUME NEW s \in Sessions, tx[s].op # "none",
               req' = [req EXCEPT ![tx[s].req].status = "CANCELLED"]
        PROVE  Kept
    <3>1. tx[s].req \in Requests
      BY <2>1, <2>3 DEF AccountInv, TxOnRaised, Idle
    <3> QED
      BY <2>1, <2>3, <3>1 DEF TypeOK, RequestType
  <2>4. ASSUME NEW s \in Sessions, tx[s].op = "decide", tx[s].step \in Steps,
               NEW v \in Verdicts, NEW final \in Statuses,
               RecordVerdict(tx[s].req, tx[s].step, v, final)
        PROVE  Kept
    <3>1. tx[s].req \in Requests /\ tx[s].step \in Steps
      BY <2>1, <2>4 DEF AccountInv, TxOnRaised, Idle
    <3> QED
      BY <2>1, <2>4, <3>1, VerdictEffect
  <2>5. CASE req' = req
    BY <2>5
  <2> HIDE DEF Kept
  <2> QED
    BY <1>1, <2>1, <2>2, <2>3, <2>4, <2>5, RequestChanges
<1> QED
  BY InitPolicyInv, NextPolicyInv, <1>1, PTL DEF Spec, DecisionsAreFinal

-----------------------------------------------------------------------------
(* Requests across the year end: they find no balance to settle on.        *)

LEMMA NextCrossYear ==
  PolicyInv /\ CrossYearRequestStaysPending /\ [Next]_vars
    => CrossYearRequestStaysPending'
<1> DEFINE Crosses(r) == leavePeriod(req[r].first) # leavePeriod(req[r].last)
           Waits(r) == req[r].status = "PENDING" /\ ledger[r] = Rows(1, 0, 0, 0)
           Stays(r) == req[r].status # "NONE" /\ Crosses(r) => Waits(r)
<1> SUFFICES ASSUME PolicyInv, \A r \in Requests : Stays(r), [Next]_vars
             PROVE  \A r \in Requests : Stays(r)'
  BY DEF CrossYearRequestStaysPending
<1>1. AccountInv /\ TypeOK
  BY DEF PolicyInv, AccountInv
<1>2. ASSUME NEW r \in Requests, req'[r] = req[r], ledger'[r] = ledger[r]
      PROVE  Stays(r)'
  BY <1>2 DEF leavePeriod, Rows
<1>3. CASE UNCHANGED <<req, ledger>>
  BY <1>2, <1>3
<1>4. ASSUME NEW r \in Requests, NEW f, NEW l, createRequest(r, f, l)
      PROVE  \A q \in Requests : Stays(q)'
  <2>1. /\ req[r].status = "NONE" /\ req'[r].status = "PENDING"
        /\ \A q \in Requests \ {r} : req'[q] = req[q]
        /\ \A q \in Requests \ {r} : ledger'[q] = ledger[q]
        /\ ledger[r] = NoRows => ledger'[r] = Rows(1, 0, 0, 0)
    BY <1>1, <1>4, CreateEffect
  <2>2. ledger[r] = NoRows
    BY <2>1 DEF PolicyInv, UnraisedIsBlank
  <2>3. Stays(r)'
    BY <2>1, <2>2 DEF Rows
  <2> QED
    BY <1>2, <2>1, <2>3
<1>5. ASSUME NEW s \in Sessions, tx[s].op # "none", End(s),
             BalanceFound(tx[s].req),
             \E t \in RowTypes : Post(tx[s].req, t) \/ ledger' = ledger,
             \/ req' = [req EXCEPT ![tx[s].req].status = "CANCELLED"]
             \/ /\ tx[s].op = "decide" /\ tx[s].step \in Steps
                /\ \E v \in Verdicts, final \in Statuses :
                     /\ Written(tx[s].step, v, final)
                     /\ RecordVerdict(tx[s].req, tx[s].step, v, final)
      PROVE  \A q \in Requests : Stays(q)'
  <2>1. PICK r \in Requests :
          /\ r = tx[s].req
          /\ req'[r].first = req[r].first /\ req'[r].last = req[r].last
          /\ \A q \in Requests \ {r} : req'[q] = req[q] /\ ledger'[q] = ledger[q]
    BY <1>1, <1>5, CommitEffect
  <2>2. ~Crosses(r)'
    BY <1>5, <2>1 DEF BalanceFound, leavePeriod
  <2> QED
    BY <1>2, <2>1, <2>2
<1> HIDE DEF Stays
<1> QED
  BY <1>1, <1>3, <1>4, <1>5, RequestChanges

(* A request whose dates cross the year end keeps its reservation and can  *)
(* never be finished, whoever decides or cancels it.                       *)
THEOREM CrossYearStays == Spec => []CrossYearRequestStaysPending
<1>1. Init => CrossYearRequestStaysPending
  BY DEF Init, CrossYearRequestStaysPending
<1> QED
  BY InitPolicyInv, NextPolicyInv, <1>1, NextCrossYear, PTL DEF Spec

-----------------------------------------------------------------------------
(* What a request nobody raced on leaves behind.  One transaction works on *)
(* it, which finds the status it has read.                                 *)

Alone(r) ==
  /\ \A s, t \in Sessions : tx[s].req = r /\ tx[t].req = r => s = t
  /\ \A s \in Sessions : tx[s].req = r =>
       /\ req[r].status = tx[s].seen
       /\ tx[s].op = "decide" => tx[s].seen = "PENDING"

CalmRequests == \A r \in Requests \ contended : Alone(r) /\ Story(r)

(* The two halves of ApprovedLeaveOnCalendar. *)
NoGhost ==
  \A d \in Calendar :
    day[d].status = "ON_LEAVE" /\ ~day[d].punched /\ ~day[d].linked =>
      \E r \in Requests : req[r].status = "APPROVED" /\ d \in leaveDates(r)

Shown(r) == \A d \in leaveDates(r) : day[d].punched \/ day[d].status = "ON_LEAVE"

Undisturbed(r) ==
  \A q \in Requests \ {r} : req[q].status # "NONE" => ~Overlap(r, q)

AllShown ==
  \A r \in Requests : req[r].status = "APPROVED" /\ Undisturbed(r) => Shown(r)

(* The ledger row a commit adds, the status and the calendar it leaves. *)
Settles(s, new) ==
  LET r == tx[s].req
      posted(type) == ledger'[r] = [ledger[r] EXCEPT ![type] = @ + 1]
  IN
  \/ /\ tx[s].op = "decide" /\ new = "PENDING"
     /\ ledger'[r] = ledger[r] /\ day' = day
  \/ /\ tx[s].op = "decide" /\ new = "APPROVED"
     /\ posted("USAGE") /\ day' = markLeaveDays(r)
  \/ /\ \/ tx[s].op = "decide" /\ new = "REJECTED"
        \/ tx[s].op = "cancel" /\ tx[s].seen = "PENDING" /\ new = "CANCELLED"
     /\ posted("RELEASE") /\ day' = day
  \/ /\ tx[s].op = "cancel" /\ tx[s].seen = "APPROVED" /\ new = "CANCELLED"
     /\ posted("REVERSAL") /\ day' = clearLeaveDays(r)

LEMMA CommitSettles ==
  ASSUME AccountInv, NEW s \in Sessions, Commit(s)
  PROVE  /\ tx[s] # Idle /\ End(s) /\ contended' = contended
         /\ tx[s].req \in Requests /\ req[tx[s].req].status # "NONE"
         /\ req'[tx[s].req].first = req[tx[s].req].first
         /\ req'[tx[s].req].last = req[tx[s].req].last
         /\ \A q \in Requests \ {tx[s].req} :
              req'[q] = req[q] /\ ledger'[q] = ledger[q]
         /\ req'[tx[s].req].status # "NONE"
         /\ Settles(s, req'[tx[s].req].status)
<1> DEFINE r == tx[s].req
           After(new) == /\ req'[r].status = new
                         /\ req'[r].first = req[r].first
                         /\ req'[r].last = req[r].last
                         /\ \A q \in Requests \ {r} : req'[q] = req[q]
<1>1. tx[s].op # "none" /\ End(s) /\ contended' = contended /\ TypeOK
  BY DEF Commit, approveStep, approveFinal, reject, cancelPending, cancelApproved,
         AccountInv
<1>2. tx[s] # Idle /\ r \in Requests /\ req[r].status # "NONE"
  BY <1>1 DEF Idle, AccountInv, TxOnRaised
<1>3. ASSUME NEW t \in RowTypes, Post(r, t)
      PROVE  /\ ledger'[r] = [ledger[r] EXCEPT ![t] = @ + 1]
             /\ \A q \in Requests \ {r} : ledger'[q] = ledger[q]
  BY <1>1, <1>2, <1>3 DEF Post, TypeOK
<1>4. /\ {"NONE", "APPROVED", "REJECTED"} \subseteq Verdicts
      /\ {"PENDING", "APPROVED", "REJECTED"} \subseteq Statuses
      /\ {"RELEASE", "USAGE", "REVERSAL"} \subseteq RowTypes
  BY DEF Verdicts, Statuses, RowTypes
<1>5. ASSUME NEW v \in Verdicts, NEW final \in Statuses, tx[s].step \in Steps,
             RecordVerdict(r, tx[s].step, v, final)
      PROVE  After(final)
  BY <1>1, <1>2, <1>5, VerdictEffect
<1>6. ASSUME req' = [req EXCEPT ![r].status = "CANCELLED"] PROVE After("CANCELLED")
  BY <1>1, <1>2, <1>6 DEF TypeOK, RequestType
<1> HIDE DEF After
<1>7. CASE approveStep(s)
  <2>1. After("PENDING") /\ ledger' = ledger /\ day' = day /\ tx[s].op = "decide"
    <3>1. tx[s].step \in Steps
      BY <1>7, LeaveAssumption DEF approveStep, Steps
    <3> QED
      BY <1>4, <1>5, <1>7, <3>1 DEF approveStep
  <2> QED
    BY <1>1, <1>2, <2>1 DEF After, Settles
<1>8. CASE approveFinal(s)
  <2>1. /\ After("APPROVED") /\ Post(r, "USAGE") /\ day' = markLeaveDays(r)
        /\ tx[s].op = "decide"
    <3>1. tx[s].step \in Steps
      BY <1>8, LeaveAssumption DEF approveFinal, Steps
    <3> QED
      BY <1>4, <1>5, <1>8, <3>1 DEF approveFinal
  <2> QED
    BY <1>1, <1>2, <1>3, <1>4, <2>1 DEF After, Settles
<1>9. CASE reject(s)
  <2>1. After("REJECTED") /\ Post(r, "RELEASE") /\ day' = day /\ tx[s].op = "decide"
    BY <1>4, <1>5, <1>9 DEF reject, releaseReservation
  <2> QED
    BY <1>1, <1>2, <1>3, <1>4, <2>1 DEF After, Settles
<1>10. CASE cancelPending(s)
  <2>1. /\ After("CANCELLED") /\ Post(r, "RELEASE") /\ day' = day
        /\ tx[s].op = "cancel" /\ tx[s].seen = "PENDING"
    BY <1>6, <1>10 DEF cancelPending, releaseReservation
  <2> QED
    BY <1>1, <1>2, <1>3, <1>4, <2>1 DEF After, Settles
<1>11. CASE cancelApproved(s)
  <2>1. /\ After("CANCELLED") /\ Post(r, "REVERSAL") /\ day' = clearLeaveDays(r)
        /\ tx[s].op = "cancel" /\ tx[s].seen = "APPROVED"
    BY <1>6, <1>11 DEF cancelApproved
  <2> QED
    BY <1>1, <1>2, <1>3, <1>4, <2>1 DEF After, Settles
<1> QED
  BY <1>7, <1>8, <1>9, <1>10, <1>11 DEF Commit

(* What a commit writes continues the story of a calm request. *)
LEMMA SettlesStory ==
  ASSUME AccountInv, NEW s \in Sessions, Commit(s), NEW r, r = tx[s].req,
         Alone(r), Story(r)
  PROVE  Story(r)'
<1>1. /\ r \in Requests /\ req[r].status # "NONE" /\ Settles(s, req'[r].status)
  BY CommitSettles
<1>2. /\ req[r].status = tx[s].seen
      /\ tx[s].op = "decide" => tx[s].seen = "PENDING"
  BY DEF Alone
<1>3. CASE req[r].status = "PENDING"
  <2>1. ledger[r] = Rows(1, 0, 0, 0)
    BY <1>3 DEF Story
  <2>2. [ledger[r] EXCEPT !["USAGE"] = @ + 1] = Rows(1, 0, 1, 0)
    BY <2>1 DEF Rows, RowTypes
  <2>3. [ledger[r] EXCEPT !["RELEASE"] = @ + 1] = Rows(1, 1, 0, 0)
    BY <2>1 DEF Rows, RowTypes
  <2>4. \/ req'[r].status = "PENDING" /\ ledger'[r] = Rows(1, 0, 0, 0)
        \/ req'[r].status = "APPROVED" /\ ledger'[r] = Rows(1, 0, 1, 0)
        \/ req'[r].status \in {"REJECTED", "CANCELLED"} /\ ledger'[r] = Rows(1, 1, 0, 0)
    BY <1>1, <1>2, <1>3, <2>1, <2>2, <2>3 DEF Settles
  <2> QED
    BY <2>4 DEF Story, Rows
<1>4. CASE req[r].status = "APPROVED"
  <2>1. ledger[r] = Rows(1, 0, 1, 0)
    BY <1>4 DEF Story
  <2>2. [ledger[r] EXCEPT !["REVERSAL"] = @ + 1] = Rows(1, 0, 1, 1)
    BY <2>1 DEF Rows, RowTypes
  <2>3. req'[r].status = "CANCELLED" /\ ledger'[r] = Rows(1, 0, 1, 1)
    BY <1>1, <1>2, <1>4, <2>2 DEF Settles
  <2> QED
    BY <2>3 DEF Story, Rows
<1>5. req[r].status \in {"PENDING", "APPROVED"}
  BY <1>1, <1>2 DEF Settles
<1> QED
  BY <1>3, <1>4, <1>5

(* A transaction that begins finds the request as it is, and alone, or the *)
(* request counts as contended.                                            *)
LEMMA BeginCalm ==
  ASSUME AccountInv, CalmRequests, NEW s \in Sessions, NEW r \in Requests,
         NEW record, Begin(s, r, record), UNCHANGED <<req, ledger>>,
         record.req = r, record.seen = req[r].status,
         record.op = "decide" => record.seen = "PENDING"
  PROVE  CalmRequests'
<1>1. tx'[s] = record /\ \A t \in Sessions \ {s} : tx'[t] = tx[t]
  BY DEF Begin, AccountInv, TypeOK
<1>2. contended \subseteq contended'
  BY DEF Begin
<1>3. r \notin contended' => \A t \in Sessions : tx[t].req # r
  BY DEF Begin
<1>4. ASSUME NEW q \in Requests \ contended' PROVE (Alone(q) /\ Story(q))'
  <2>1. Alone(q) /\ Story(q)
    BY <1>2, <1>4 DEF CalmRequests
  <2>2. Story(q)'
    BY <2>1 DEF Story, Rows
  <2>3. CASE q = r
    BY <1>1, <1>3, <1>4, <2>2, <2>3 DEF Alone
  <2>4. CASE q # r
    BY <1>1, <2>1, <2>2, <2>4 DEF Alone
  <2> QED
    BY <2>2, <2>3, <2>4
<1> QED
  BY <1>4 DEF CalmRequests

(* Sessions that end, and requests that stay, keep a request calm. *)
LEMMA StaysCalm ==
  ASSUME AccountInv, NEW q \in Requests, Alone(q),
         req'[q].status = req[q].status \/ \A t \in Sessions : tx'[t].req # q,
         \A t \in Sessions : tx'[t] = tx[t] \/ tx'[t] = Idle
  PROVE  Alone(q)'
<1>1. Idle.req # q
  BY LeaveAssumption DEF Idle
<1> QED
  BY <1>1 DEF Alone

LEMMA NextCalmRequests == PolicyInv /\ CalmRequests /\ [Next]_vars => CalmRequests'
<1> SUFFICES ASSUME PolicyInv, CalmRequests, [Next]_vars PROVE CalmRequests'
  OBVIOUS
<1>1. AccountInv /\ TypeOK
  BY DEF PolicyInv, AccountInv
<1>2. Idle.req = NoRequest /\ NoRequest \notin Requests
  BY LeaveAssumption DEF Idle
<1>3. ASSUME UNCHANGED <<req, ledger, contended>>,
             \A t \in Sessions : tx'[t] = tx[t] \/ tx'[t] = Idle
      PROVE  CalmRequests'
  BY <1>1, <1>3, StaysCalm DEF CalmRequests, Story, Rows
<1>4. ASSUME \/ \E p \in Periods : provisionBalance(p) \/ adjustBalance(p)
             \/ \E d \in EventDays : punch(d) \/ linkRecord(d)
             \/ UNCHANGED vars
      PROVE  CalmRequests'
  BY <1>3, <1>4 DEF provisionBalance, adjustBalance, punch, linkRecord, vars
<1>5. ASSUME NEW s \in Sessions, rollback(s) PROVE CalmRequests'
  BY <1>1, <1>3, <1>5 DEF rollback, End, TypeOK
<1>6. ASSUME NEW s \in Sessions, NEW r \in Requests, decideRead(s, r)
      PROVE  CalmRequests'
  BY <1>1, <1>6, BeginCalm DEF decideRead
<1>7. ASSUME NEW s \in Sessions, NEW r \in Requests, cancelRead(s, r)
      PROVE  CalmRequests'
  BY <1>1, <1>7, BeginCalm DEF cancelRead
<1>10. ASSUME NEW s \in Sessions, decideApprovals(s) PROVE CalmRequests'
  <2>1. /\ UNCHANGED <<req, ledger, contended>>
        /\ \A t \in Sessions :
             tx'[t].req = tx[t].req /\ tx'[t].seen = tx[t].seen /\ tx'[t].op = tx[t].op
    BY <1>1, <1>10 DEF decideApprovals, TypeOK, TxType
  <2>2. ASSUME NEW q \in Requests, Alone(q) PROVE Alone(q)'
    BY <2>1, <2>2 DEF Alone
  <2>3. ASSUME NEW q \in Requests, Story(q) PROVE Story(q)'
    BY <2>1, <2>3 DEF Story
  <2> QED
    BY <2>1, <2>2, <2>3 DEF CalmRequests
<1>8. ASSUME NEW r \in Requests, NEW f, NEW l, createRequest(r, f, l)
      PROVE  CalmRequests'
  <2>1. /\ req[r].status = "NONE" /\ req'[r].status = "PENDING" /\ tx' = tx
        /\ \A q \in Requests \ {r} : req'[q] = req[q] /\ ledger'[q] = ledger[q]
        /\ ledger[r] = NoRows => ledger'[r] = Rows(1, 0, 0, 0)
    BY <1>1, <1>8, CreateEffect
  <2>2. ledger'[r] = Rows(1, 0, 0, 0) /\ contended' = contended
    BY <1>8, <2>1 DEF PolicyInv, UnraisedIsBlank, createRequest
  <2>3. \A t \in Sessions : tx[t].req # r
    BY <1>1, <1>2, <2>1 DEF AccountInv, TxOnRaised
  <2>4. Alone(r)' /\ Story(r)'
    BY <2>1, <2>2, <2>3 DEF Alone, Story, Rows
  <2>5. ASSUME NEW q \in Requests \ {r}, Alone(q), Story(q) PROVE Alone(q)' /\ Story(q)'
    <3>1. req'[q] = req[q] /\ ledger'[q] = ledger[q] /\ tx' = tx
      BY <2>1
    <3>2. Alone(q)'
      BY <2>5, <3>1 DEF Alone
    <3>3. Story(q)'
      BY <2>5, <3>1 DEF Story
    <3> QED
      BY <3>2, <3>3
  <2> QED
    BY <2>2, <2>4, <2>5 DEF CalmRequests
<1>9. ASSUME NEW s \in Sessions, Commit(s) PROVE CalmRequests'
  <2>1. PICK r \in Requests :
        /\ r = tx[s].req /\ tx[s] # Idle /\ End(s) /\ contended' = contended
        /\ \A q \in Requests \ {r} : req'[q] = req[q] /\ ledger'[q] = ledger[q]
    BY <1>1, <1>9, CommitSettles
  <2>2. \A t \in Sessions : tx'[t] = IF t = s THEN Idle ELSE tx[t]
    BY <1>1, <2>1 DEF End, TypeOK
  <2>3. ASSUME Alone(r), Story(r) PROVE Alone(r)' /\ Story(r)'
    <3>1. Story(r)'
      BY <1>1, <1>9, <2>1, <2>3, SettlesStory
    <3>2. \A t \in Sessions : tx'[t].req # r
      BY <1>2, <2>1, <2>2, <2>3 DEF Alone
    <3> QED
      BY <1>1, <2>1, <2>2, <2>3, <3>1, <3>2, StaysCalm
  <2>4. \A q \in Requests \ {r} : Alone(q) /\ Story(q) => Alone(q)' /\ Story(q)'
    BY <1>1, <2>1, <2>2, StaysCalm DEF Story, Rows
  <2> QED
    BY <2>1, <2>3, <2>4 DEF CalmRequests
<1> QED
  BY <1>4, <1>5, <1>6, <1>7, <1>8, <1>9, <1>10 DEF Next

LEMMA InitCalmRequests == Init => CalmRequests /\ NoGhost /\ AllShown
<1> SUFFICES ASSUME Init PROVE CalmRequests /\ NoGhost /\ AllShown
  OBVIOUS
<1>1. CalmRequests
  BY LeaveAssumption DEF Init, CalmRequests, Alone, Story, Idle
<1>2. NoGhost
  BY DEF Init, NoGhost, NoRecord
<1>3. AllShown
  BY DEF Init, AllShown
<1> QED
  BY <1>1, <1>2, <1>3

(* Who raced stays known. *)
LEMMA ContendedGrows == [Next]_vars => contended \subseteq contended'
BY DEF Next, vars, Commit, provisionBalance, adjustBalance, createRequest, decideRead,
       decideApprovals, cancelRead, Begin, approveStep, approveFinal, reject, cancelPending,
       cancelApproved, rollback, punch, linkRecord

-----------------------------------------------------------------------------
(* The verdicts of a request nobody raced on.  Its one transaction finds   *)
(* it still PENDING, a refusal settles it, and no verdict is ever taken    *)
(* back: so every verdict follows approvals only.                          *)

Refused(r) == \E k \in Steps : req[r].approvals[k] = "REJECTED"

CalmVerdicts ==
  \A r \in Requests \ contended :
    /\ Refused(r) => req[r].status \in {"REJECTED", "CANCELLED"}
    /\ \A k \in Steps : req[r].approvals[k] # "NONE" =>
         \A j \in 1..(k - 1) : req[r].approvals[j] = "APPROVED"

(* A calm request decided in turn has the approval of every step before.   *)
LEMMA CalmTurn ==
  ASSUME PolicyInv, CalmRequests, CalmVerdicts, NEW s \in Sessions,
         tx[s].op = "decide", tx[s].step \in Steps, tx[s].req \notin contended
  PROVE  /\ \A j \in 1..(tx[s].step - 1) : req[tx[s].req].approvals[j] = "APPROVED"
         /\ ~Refused(tx[s].req)
<1> DEFINE r == tx[s].req
<1>1. r \in Requests \ contended /\ req[r].approvals \in [Steps -> Verdicts]
  BY DEF PolicyInv, AccountInv, TxOnRaised, Idle, TypeOK, RequestType
<1>2. req[r].status = "PENDING"
  BY <1>1 DEF CalmRequests, Alone
<1>3. ~Refused(r)
  BY <1>1, <1>2 DEF CalmVerdicts
<1>4. ASSUME NEW j \in 1..(tx[s].step - 1) PROVE req[r].approvals[j] = "APPROVED"
  <2>1. j \in Steps
    BY LeaveAssumption DEF Steps
  <2>2. req[r].approvals[j] # "NONE"
    BY DEF PolicyInv, TxInTurn
  <2> QED
    BY <1>1, <1>3, <2>1, <2>2 DEF Refused, Verdicts
<1> QED
  BY <1>3, <1>4

(* Steps that leave a request as it is, but perhaps cancel it. *)
LEMMA CalmVerdictsKept ==
  ASSUME CalmVerdicts, contended \subseteq contended',
         \A q \in Requests :
           /\ req'[q].approvals = req[q].approvals
           /\ req'[q].status = req[q].status \/ req'[q].status = "CANCELLED"
  PROVE  CalmVerdicts'
BY DEF CalmVerdicts, Refused

LEMMA NextCalmVerdicts ==
  PolicyInv /\ CalmRequests /\ CalmVerdicts /\ [Next]_vars => CalmVerdicts'
<1> SUFFICES ASSUME PolicyInv, CalmRequests, CalmVerdicts, [Next]_vars
             PROVE  CalmVerdicts'
  OBVIOUS
<1>1. AccountInv /\ TypeOK /\ contended \subseteq contended'
  BY ContendedGrows DEF PolicyInv, AccountInv
<1>2. CASE UNCHANGED req
  BY <1>1, <1>2, CalmVerdictsKept
<1>3. ASSUME NEW r \in Requests, NEW f, NEW l, createRequest(r, f, l)
      PROVE  CalmVerdicts'
  <2>1. /\ req'[r].approvals = Undecided
        /\ \A q \in Requests \ {r} : req'[q] = req[q]
    BY <1>1, <1>3, CreateEffect
  <2>2. \A k \in Steps : req'[r].approvals[k] = "NONE"
    BY <2>1 DEF Undecided
  <2>3. \A q \in Requests \ {r} : Refused(q)' <=> Refused(q)
    BY <2>1 DEF Refused
  <2>4. ~Refused(r)'
    BY <2>2 DEF Refused
  <2> QED
    BY <1>1, <2>1, <2>2, <2>3, <2>4 DEF CalmVerdicts
<1>4. ASSUME NEW s \in Sessions, tx[s].op # "none",
             req' = [req EXCEPT ![tx[s].req].status = "CANCELLED"]
      PROVE  CalmVerdicts'
  <2>1. tx[s].req \in Requests
    BY <1>1, <1>4 DEF AccountInv, TxOnRaised, Idle
  <2>2. \A q \in Requests :
          /\ req'[q].approvals = req[q].approvals
          /\ req'[q].status = req[q].status \/ req'[q].status = "CANCELLED"
    BY <1>1, <1>4, <2>1 DEF TypeOK, RequestType
  <2> QED
    BY <1>1, <2>2, CalmVerdictsKept
<1>5. ASSUME NEW s \in Sessions, tx[s].op = "decide", tx[s].step \in Steps,
             NEW v \in Verdicts, NEW final \in Statuses,
             Written(tx[s].step, v, final),
             RecordVerdict(tx[s].req, tx[s].step, v, final)
      PROVE  CalmVerdicts'
  <2>1. PICK r \in Requests, k \in Steps : r = tx[s].req /\ k = tx[s].step
    BY <1>1, <1>5 DEF AccountInv, TxOnRaised, Idle
  <2>2. /\ req[r].approvals[k] = "NONE"
        /\ req'[r].status = final
        /\ req'[r].approvals[k] = v
        /\ \A j \in Steps \ {k} : req'[r].approvals[j] = req[r].approvals[j]
        /\ \A q \in Requests \ {r} : req'[q] = req[q]
    BY <1>1, <1>5, <2>1, VerdictEffect
  <2>3. r \notin contended =>
          /\ \A j \in 1..(k - 1) : req[r].approvals[j] = "APPROVED"
          /\ ~Refused(r)
    BY <1>5, <2>1, CalmTurn
  <2>4. \A m \in Steps : m > k => req[r].approvals[m] = "NONE"
    BY <2>1, <2>2, LeaveAssumption DEF PolicyInv, DecidedInOrder, Steps
  <2>5. Written(k, v, final)
    BY <1>5, <2>1
  <2>6. ASSUME r \notin contended', Refused(r)'
        PROVE  req'[r].status \in {"REJECTED", "CANCELLED"}
    <3>1. PICK m \in Steps : req'[r].approvals[m] = "REJECTED"
      BY <2>6 DEF Refused
    <3>2. m = k
      BY <1>1, <2>2, <2>3, <2>6, <3>1 DEF Refused
    <3> QED
      BY <2>2, <2>5, <3>1, <3>2 DEF Written
  <2>7. ASSUME r \notin contended', NEW m \in Steps, req'[r].approvals[m] # "NONE",
               NEW j \in 1..(m - 1)
        PROVE  req'[r].approvals[j] = "APPROVED"
    <3>1. j \in Steps /\ m \in 1..NSteps /\ k \in 1..NSteps /\ j < m
      BY <2>1, LeaveAssumption DEF Steps
    <3>2. m = k \/ (m # k /\ req[r].approvals[m] # "NONE")
      BY <2>2, <2>7
    <3>3. ~(m > k)
      BY <2>4, <3>2, <3>1
    <3>4. j \in 1..(k - 1) /\ j # k
      BY <3>1, <3>3, LeaveAssumption
    <3> QED
      BY <1>1, <2>2, <2>3, <2>7, <3>1, <3>4
  <2>8. \A q \in Requests \ {r} : Refused(q)' <=> Refused(q)
    BY <2>2 DEF Refused
  <2>9. ASSUME NEW q \in Requests \ contended', q # r
        PROVE  /\ Refused(q)' => req'[q].status \in {"REJECTED", "CANCELLED"}
               /\ \A m \in Steps : req'[q].approvals[m] # "NONE" =>
                    \A j \in 1..(m - 1) : req'[q].approvals[j] = "APPROVED"
    BY <1>1, <2>2, <2>8, <2>9 DEF CalmVerdicts
  <2> QED
    BY <2>6, <2>7, <2>9 DEF CalmVerdicts
<1> QED
  BY <1>1, <1>2, <1>3, <1>4, <1>5, RequestChanges

(* Decisions follow the policy, for any number of requests, steps and      *)
(* sessions: whatever races, no step is decided before its predecessors    *)
(* and an APPROVED request was approved by the last step; on a request no  *)
(* two transactions worked on at once nothing is decided after a refusal,  *)
(* and what is APPROVED was approved by every step.                        *)
THEOREM PolicyIsFollowed == Spec => []PolicyFollowed
<1>1. PolicyInv /\ CalmVerdicts => PolicyFollowed
  <2> SUFFICES ASSUME PolicyInv, CalmVerdicts, NEW r \in Requests
               PROVE  /\ \A k \in Steps : req[r].approvals[k] # "NONE" =>
                           \A j \in 1..(k - 1) :
                             /\ req[r].approvals[j] # "NONE"
                             /\ r \notin contended => req[r].approvals[j] = "APPROVED"
                      /\ req[r].status = "APPROVED" =>
                           req[r].approvals[NSteps] = "APPROVED"
                      /\ req[r].status = "APPROVED" /\ r \notin contended =>
                           \A k \in Steps : req[r].approvals[k] = "APPROVED"
    BY DEF PolicyFollowed
  <2>1. \A k \in Steps : req[r].approvals[k] # "NONE" =>
          \A j \in 1..(k - 1) :
            /\ req[r].approvals[j] # "NONE"
            /\ r \notin contended => req[r].approvals[j] = "APPROVED"
    BY DEF PolicyInv, DecidedInOrder, CalmVerdicts
  <2>2. req[r].status = "APPROVED" => req[r].approvals[NSteps] = "APPROVED"
    BY DEF PolicyInv, DecidedInOrder
  <2>3. ASSUME req[r].status = "APPROVED", r \notin contended, NEW k \in Steps
        PROVE  req[r].approvals[k] = "APPROVED"
    <3>1. NSteps \in Steps /\ (k = NSteps \/ k \in 1..(NSteps - 1))
      BY LeaveAssumption DEF Steps
    <3> QED
      BY <2>1, <2>2, <2>3, <3>1
  <2> QED
    BY <2>1, <2>2, <2>3
<1>2. Init => PolicyInv /\ CalmRequests /\ CalmVerdicts
  <2> SUFFICES ASSUME Init PROVE PolicyInv /\ CalmRequests /\ CalmVerdicts
    OBVIOUS
  <2>1. \A r \in Requests, k \in Steps : req[r].approvals[k] = "NONE"
    BY DEF Init, Undecided
  <2>2. CalmVerdicts
    BY <2>1 DEF CalmVerdicts, Refused
  <2> QED
    BY <2>2, InitPolicyInv, InitCalmRequests
<1>3. (PolicyInv /\ CalmRequests /\ CalmVerdicts) /\ [Next]_vars
        => (PolicyInv /\ CalmRequests /\ CalmVerdicts)'
  BY NextPolicyInv, NextCalmRequests, NextCalmVerdicts
<1> QED
  BY <1>1, <1>2, <1>3, PTL DEF Spec

-----------------------------------------------------------------------------
(* The ledger explains the balances. *)

Charged(p) == {r \in Requests : req[r].status # "NONE" /\ BalanceOf(r) = p}
Charge(p, t) == [r \in Charged(p) |-> ledger[r][t] * req[r].days]
Booked(p, t) == SumFunctionOnSet(Charge(p, t), Charged(p))

LedgerExplains == \A p \in Periods : ExplainsBalance(p)

LEMMA ExplainedByBooked ==
  ASSUME NEW p
  PROVE  /\ ExplainsBalance(p) <=>
              /\ bal[p].reserved = Booked(p, "RESERVATION") - Booked(p, "RELEASE")
                                     - Booked(p, "USAGE")
              /\ bal[p].used = Booked(p, "USAGE") - Booked(p, "REVERSAL")
         /\ ExplainsBalance(p)' <=>
              /\ bal'[p].reserved = Booked(p, "RESERVATION")' - Booked(p, "RELEASE")'
                                      - Booked(p, "USAGE")'
              /\ bal'[p].used = Booked(p, "USAGE")' - Booked(p, "REVERSAL")'
BY DEF ExplainsBalance, Booked, Charge, Charged

LEMMA ChargeTyped ==
  ASSUME TypeOK, NEW p, NEW t \in RowTypes
  PROVE  /\ IsFiniteSet(Charged(p))
         /\ \A r \in Charged(p) : /\ Charge(p, t)[r] = ledger[r][t] * req[r].days
                                  /\ Charge(p, t)[r] \in Int
         /\ Booked(p, t) \in Int
<1>1. IsFiniteSet(Charged(p)) /\ Charged(p) \subseteq Requests
  BY LeaveAssumption, FS_Subset DEF Charged
<1>2. ASSUME NEW r \in Charged(p)
      PROVE  /\ Charge(p, t)[r] = ledger[r][t] * req[r].days
             /\ Charge(p, t)[r] \in Int
  <2>1. ledger[r][t] \in Nat /\ req[r].days \in Nat
    BY <1>1 DEF TypeOK, RequestType
  <2> QED
    BY <2>1 DEF Charge
<1>3. Booked(p, t) \in Int
  BY <1>1, <1>2, SumInt DEF Booked
<1> QED
  BY <1>1, <1>2, <1>3

(* A row posted for a request changes what is booked by the request's days. *)
LEMMA BookedPosted ==
  ASSUME TypeOK, TypeOK', NEW r \in Requests,
         req[r].status # "NONE", req'[r].status # "NONE",
         req'[r].first = req[r].first, req'[r].days = req[r].days,
         \A q \in Requests \ {r} : req'[q] = req[q] /\ ledger'[q] = ledger[q],
         NEW t \in RowTypes, NEW n \in {0, 1},
         ledger'[r][t] = ledger[r][t] + n,
         NEW p \in Periods
  PROVE  Booked(p, t)' = Booked(p, t)
           + (IF p = BalanceOf(r) /\ n = 1 THEN req[r].days ELSE 0)
<1> DEFINE S == Charged(p)
           f == Charge(p, t)
           g == Charge(p, t)'
<1>1. Charged(p)' = S
  BY DEF Charged, BalanceOf
<1>2. IsFiniteSet(S) /\ \A q \in S : f[q] \in Int /\ f[q] = ledger[q][t] * req[q].days
  BY ChargeTyped
<1>3. \A q \in S : g[q] = ledger'[q][t] * req'[q].days
  BY <1>1 DEF Charge
<1>4. S \subseteq Requests /\ (r \in S <=> p = BalanceOf(r))
  BY DEF Charged
<1>5. /\ Booked(p, t) = SumFunctionOnSet(f, S)
      /\ Booked(p, t)' = SumFunctionOnSet(g, S)
      /\ Booked(p, t) \in Int
  BY <1>1, ChargeTyped DEF Booked
<1> HIDE DEF S, f, g
<1>6. \A q \in S : q # r => g[q] = f[q]
  BY <1>2, <1>3, <1>4
<1>7. CASE r \notin S
  <2>1. SumFunctionOnSet(g, S) = SumFunctionOnSet(f, S)
    BY <1>2, <1>6, <1>7, SumSame
  <2> QED
    BY <1>4, <1>5, <1>7, <2>1
<1>8. CASE r \in S
  <2>1. ledger[r][t] \in Nat /\ req[r].days \in Nat
    BY DEF TypeOK, RequestType
  <2>2. g[r] = (ledger[r][t] + n) * req[r].days /\ f[r] = ledger[r][t] * req[r].days
    BY <1>2, <1>3, <1>8
  <2>3. g[r] = f[r] + (IF n = 1 THEN req[r].days ELSE 0)
    BY <2>1, <2>2
  <2>4. f[r] \in Int /\ g[r] \in Int
    BY <1>2, <1>8, <2>1, <2>3
  <2>5. \A q \in S : f[q] \in Int /\ g[q] \in Int
    BY <1>2, <1>6, <2>4
  <2>6. SumFunctionOnSet(g, S) = (SumFunctionOnSet(f, S) - f[r]) + g[r]
    BY <1>2, <1>6, <1>8, <2>5, SumChanged
  <2> QED
    BY <1>4, <1>5, <1>8, <2>1, <2>3, <2>4, <2>6
<1> QED
  BY <1>7, <1>8

(* A new request is charged with what its first row books. *)
LEMMA BookedCreated ==
  ASSUME TypeOK, TypeOK', NEW r \in Requests,
         req[r].status = "NONE", req'[r].status # "NONE",
         \A q \in Requests \ {r} : req'[q] = req[q] /\ ledger'[q] = ledger[q],
         NEW t \in RowTypes, NEW n \in {0, 1}, ledger'[r][t] = n,
         NEW p \in Periods
  PROVE  Booked(p, t)' = Booked(p, t)
           + (IF p = leavePeriod(req'[r].first) /\ n = 1 THEN req'[r].days ELSE 0)
<1> DEFINE S == Charged(p)
           T == Charged(p)'
           f == Charge(p, t)
           g == Charge(p, t)'
<1>1. /\ T = IF p = leavePeriod(req'[r].first) THEN S \cup {r} ELSE S
      /\ r \notin S /\ S \subseteq Requests
  BY DEF Charged, BalanceOf
<1>2. IsFiniteSet(S) /\ \A q \in S : f[q] \in Int /\ f[q] = ledger[q][t] * req[q].days
  BY ChargeTyped
<1>3. \A q \in T : g[q] = ledger'[q][t] * req'[q].days
  BY DEF Charge
<1>4. /\ Booked(p, t) = SumFunctionOnSet(f, S)
      /\ Booked(p, t)' = SumFunctionOnSet(g, T)
      /\ Booked(p, t) \in Int
  BY ChargeTyped DEF Booked
<1> HIDE DEF S, T, f, g
<1>5. \A q \in S : g[q] = f[q]
  BY <1>1, <1>2, <1>3
<1>6. SumFunctionOnSet(g, S) = SumFunctionOnSet(f, S)
  BY <1>2, <1>5, SumSame
<1>7. CASE p # leavePeriod(req'[r].first)
  BY <1>1, <1>4, <1>6, <1>7
<1>8. CASE p = leavePeriod(req'[r].first)
  <2>1. T = S \cup {r} /\ T \ {r} = S /\ r \in T
    BY <1>1, <1>8
  <2>2. IsFiniteSet(T)
    BY <1>2, <2>1, FS_AddElement
  <2>3. req'[r].days \in Nat
    BY DEF TypeOK, RequestType
  <2>4. g[r] = n * req'[r].days
    BY <1>3, <2>1
  <2>5. g[r] = IF n = 1 THEN req'[r].days ELSE 0
    BY <2>3, <2>4
  <2>6. \A q \in T : g[q] \in Int
    BY <1>2, <1>5, <2>1, <2>3, <2>5
  <2>7. SumFunctionOnSet(g, T) = g[r] + SumFunctionOnSet(g, T \ {r})
    BY <2>1, <2>2, <2>6, SumWithout
  <2> QED
    BY <1>4, <1>6, <1>8, <2>1, <2>3, <2>5, <2>7
<1> QED
  BY <1>7, <1>8

(* A commit moves the days of its request as the row it posts says. *)
LEMMA CommitMoves ==
  ASSUME AccountInv, NEW s \in Sessions, Commit(s), NEW r, r = tx[s].req
  PROVE  LET p == BalanceOf(r)
             moves(c) == bal' = [bal EXCEPT ![p] = c]
         IN  /\ p \in Periods /\ req'[r].days = req[r].days
             /\ \/ ledger' = ledger /\ bal' = bal
                \/ Post(r, "RELEASE") /\ moves(Release(bal[p], req[r].days))
                \/ Post(r, "USAGE") /\ moves(Use(bal[p], req[r].days))
                \/ Post(r, "REVERSAL") /\ moves(Reverse(bal[p], req[r].days))
<1>1. r \in Requests /\ req[r].status # "NONE" /\ tx[s] # Idle
  BY CommitSettles
<1>2. BalanceOf(r) \in Periods
  BY LeavePeriodType DEF BalanceOf
<1>3. {"PENDING", "APPROVED", "REJECTED", "CANCELLED"} \subseteq Statuses \ {"NONE"}
      /\ {"APPROVED", "REJECTED"} \subseteq Verdicts
  BY DEF Statuses, Verdicts
<1>4. 1..(NSteps - 1) \subseteq Steps /\ NSteps \in Steps
  BY LeaveAssumption DEF Steps
<1>5. req'[r].days = req[r].days
  <2>1. ASSUME NEW final \in Statuses \ {"NONE"},
               req' = [req EXCEPT ![r].status = final] \/
               \E k \in Steps, v \in Verdicts : RecordVerdict(r, k, v, final)
        PROVE  req'[r].days = req[r].days
    BY <1>1, <2>1, RequestStep
  <2>2. \/ /\ tx[s].op = "decide" /\ tx[s].step \in Steps
           /\ \/ RecordVerdict(r, tx[s].step, "APPROVED", "PENDING")
              \/ RecordVerdict(r, tx[s].step, "APPROVED", "APPROVED")
              \/ RecordVerdict(r, tx[s].step, "REJECTED", "REJECTED")
        \/ req' = [req EXCEPT ![r].status = "CANCELLED"]
    BY <1>4 DEF Commit, approveStep, approveFinal, reject, cancelPending, cancelApproved
  <2> QED
    BY <1>3, <2>1, <2>2
<1> QED
  BY <1>2, <1>5 DEF Commit, approveStep, approveFinal, reject, cancelPending,
     cancelApproved, releaseReservation

LEMMA NextLedgerExplains == PolicyInv /\ LedgerExplains /\ [Next]_vars => LedgerExplains'
<1> SUFFICES ASSUME PolicyInv, LedgerExplains, [Next]_vars PROVE LedgerExplains'
  OBVIOUS
<1>0. /\ AccountInv /\ AccountInv' /\ TypeOK /\ TypeOK'
      /\ {"RESERVATION", "RELEASE", "USAGE", "REVERSAL"} \subseteq RowTypes
      /\ \A p \in Periods : bal[p] \in BalanceType
  <2>1. AccountInv /\ AccountInv'
    BY NextAccountInv DEF PolicyInv
  <2> QED
    BY <2>1 DEF AccountInv, TypeOK, RowTypes
<1>1. ASSUME UNCHANGED <<req, ledger>>,
             \A p \in Periods : bal'[p].reserved = bal[p].reserved
                                /\ bal'[p].used = bal[p].used
      PROVE  LedgerExplains'
  <2>1. \A p, t : Booked(p, t)' = Booked(p, t)
    BY <1>1 DEF Booked, Charge, Charged, BalanceOf
  <2> QED
    BY <1>1, <2>1, ExplainedByBooked DEF LedgerExplains
<1>2. ASSUME NEW p \in Periods, provisionBalance(p) PROVE LedgerExplains'
  <2>1. PICK a \in Entitlements : bal' = [bal EXCEPT ![p] = Provisioned(a)]
    BY <1>2 DEF provisionBalance
  <2>2. bal[p] = Provisioned(0)
    BY <1>0, <1>2 DEF provisionBalance, AccountInv, Closed, EmptyBalance
  <2>3. \A q \in Periods : bal'[q].reserved = bal[q].reserved /\ bal'[q].used = bal[q].used
    BY <1>0, <2>1, <2>2 DEF Provisioned, AccountInv, TypeOK
  <2> QED
    BY <1>1, <1>2, <2>3 DEF provisionBalance
<1>3. ASSUME NEW p \in Periods, adjustBalance(p) PROVE LedgerExplains'
  <2>1. PICK n \in Adjustments :
          bal' = [bal EXCEPT ![p] = [bal[p] EXCEPT !.available = @ + n, !.adjusted = @ + n]]
    BY <1>3 DEF adjustBalance
  <2>2. \A q \in Periods : bal'[q].reserved = bal[q].reserved /\ bal'[q].used = bal[q].used
    BY <1>0, <2>1 DEF AccountInv, TypeOK, BalanceType
  <2> QED
    BY <1>1, <1>3, <2>2 DEF adjustBalance
<1>4. ASSUME NEW r \in Requests, NEW f \in Calendar, NEW l \in Calendar,
             createRequest(r, f, l)
      PROVE  LedgerExplains'
  <2> DEFINE p == leavePeriod(f)
             n == workingDays(f, l)
  <2>1. /\ p \in Periods /\ n \in Nat /\ req[r].status = "NONE"
        /\ req' = [req EXCEPT ![r] =
                     [status |-> "PENDING", first |-> f, last |-> l, days |-> n,
                      approvals |-> Undecided]]
    BY <1>4, LeavePeriodType, WorkingDaysNat DEF createRequest
  <2>2. PICK start \in IF p \in opened THEN {bal[p]}
                       ELSE {Provisioned(a) : a \in Entitlements} :
          bal' = [bal EXCEPT ![p] = Reserve(start, n)]
    BY <1>4 DEF createRequest
  <2>3. /\ req'[r].status = "PENDING" /\ req'[r].first = f /\ req'[r].days = n
        /\ \A q \in Requests \ {r} : req'[q] = req[q] /\ ledger'[q] = ledger[q]
        /\ ledger'[r] = Rows(1, 0, 0, 0)
    BY <1>0, <1>4, <2>1, CreateEffect DEF PolicyInv, UnraisedIsBlank, TypeOK
  <2> HIDE DEF p, n
  <2>4. /\ start.reserved = bal[p].reserved /\ start.used = bal[p].used
        /\ start \in BalanceType
    <3>1. CASE p \in opened
      BY <1>0, <2>1, <2>2, <3>1
    <3>2. CASE p \notin opened
      <4>1. bal[p] = Provisioned(0)
        BY <1>0, <2>1, <3>2 DEF AccountInv, Closed, EmptyBalance
      <4>2. PICK a \in Entitlements : start = Provisioned(a)
        BY <2>2, <3>2
      <4> QED
        BY <4>1, <4>2, ProvisionedType DEF Provisioned
    <3> QED
      BY <3>1, <3>2
  <2>5. /\ bal'[p].reserved = bal[p].reserved + n /\ bal'[p].used = bal[p].used
        /\ \A q \in Periods : q # p => bal'[q] = bal[q]
    BY <1>0, <2>1, <2>2, <2>4 DEF Reserve, BalanceType, AccountInv, TypeOK
  <2>6. /\ ledger'[r]["RESERVATION"] = 1 /\ ledger'[r]["RELEASE"] = 0
        /\ ledger'[r]["USAGE"] = 0 /\ ledger'[r]["REVERSAL"] = 0
    BY <1>0, <2>3 DEF Rows
  <2>7. ASSUME NEW q \in Periods
        PROVE  /\ Booked(q, "RESERVATION")' =
                    Booked(q, "RESERVATION") + (IF q = p THEN n ELSE 0)
               /\ \A t \in {"RELEASE", "USAGE", "REVERSAL"} :
                    Booked(q, t)' = Booked(q, t)
    <3>1. p = leavePeriod(req'[r].first) /\ req'[r].status # "NONE"
      BY <2>3 DEF p
    <3>2. Booked(q, "RESERVATION")' =
            Booked(q, "RESERVATION")
              + (IF q = leavePeriod(req'[r].first) /\ 1 = 1 THEN req'[r].days ELSE 0)
      BY <1>0, <2>1, <2>3, <2>6, <3>1, BookedCreated
    <3>3. ASSUME NEW t \in {"RELEASE", "USAGE", "REVERSAL"}
          PROVE  Booked(q, t)' = Booked(q, t)
      <4>1. t \in RowTypes /\ ledger'[r][t] = 0 /\ Booked(q, t) \in Int
        BY <1>0, <2>6, ChargeTyped
      <4>2. Booked(q, t)' = Booked(q, t)
              + (IF q = leavePeriod(req'[r].first) /\ 0 = 1 THEN req'[r].days ELSE 0)
        BY <1>0, <2>1, <2>3, <3>1, <4>1, BookedCreated
      <4> QED
        BY <4>1, <4>2
    <3> QED
      BY <2>3, <3>1, <3>2, <3>3
  <2>8. ASSUME NEW q \in Periods PROVE ExplainsBalance(q)'
    <3>1. /\ bal[q].reserved = Booked(q, "RESERVATION") - Booked(q, "RELEASE")
                                 - Booked(q, "USAGE")
          /\ bal[q].used = Booked(q, "USAGE") - Booked(q, "REVERSAL")
      BY ExplainedByBooked DEF LedgerExplains
    <3>2. /\ Booked(q, "RESERVATION") \in Int /\ Booked(q, "RELEASE") \in Int
          /\ Booked(q, "USAGE") \in Int /\ Booked(q, "REVERSAL") \in Int
      BY <1>0, ChargeTyped
    <3>3. bal'[q].reserved = bal[q].reserved + (IF q = p THEN n ELSE 0)
          /\ bal'[q].used = bal[q].used
      BY <1>0, <2>5 DEF BalanceType
    <3> QED
      BY <2>1, <2>7, <3>1, <3>2, <3>3, ExplainedByBooked
  <2> QED
    BY <2>8 DEF LedgerExplains
<1>5. ASSUME NEW s \in Sessions, Commit(s) PROVE LedgerExplains'
  <2>1. PICK r \in Requests :
        /\ r = tx[s].req /\ req[r].status # "NONE" /\ req'[r].status # "NONE"
        /\ req'[r].first = req[r].first
        /\ \A q \in Requests \ {r} : req'[q] = req[q] /\ ledger'[q] = ledger[q]
    BY <1>0, <1>5, CommitSettles
  <2> DEFINE p == BalanceOf(r)
             n == req[r].days
             b == bal[p]
  <2>2. /\ p \in Periods /\ req'[r].days = n
        /\ \/ ledger' = ledger /\ bal' = bal
           \/ Post(r, "RELEASE") /\ bal' = [bal EXCEPT ![p] = Release(b, n)]
           \/ Post(r, "USAGE") /\ bal' = [bal EXCEPT ![p] = Use(b, n)]
           \/ Post(r, "REVERSAL") /\ bal' = [bal EXCEPT ![p] = Reverse(b, n)]
    BY <1>0, <1>5, <2>1, CommitMoves
  <2>3. b \in BalanceType /\ n \in Nat
    BY <1>0, <2>2 DEF TypeOK, RequestType
  <2>4. ASSUME NEW t \in RowTypes, NEW m \in {0, 1}, ledger'[r][t] = ledger[r][t] + m,
               NEW q \in Periods
        PROVE  Booked(q, t)' = Booked(q, t) + (IF q = p /\ m = 1 THEN n ELSE 0)
    <3>1. /\ TypeOK /\ TypeOK' /\ req[r].status # "NONE" /\ req'[r].status # "NONE"
          /\ req'[r].first = req[r].first /\ req'[r].days = req[r].days
          /\ \A o \in Requests \ {r} : req'[o] = req[o] /\ ledger'[o] = ledger[o]
      BY <1>0, <2>1, <2>2
    <3>2. Booked(q, t)' = Booked(q, t)
            + (IF q = BalanceOf(r) /\ m = 1 THEN req[r].days ELSE 0)
      BY <2>4, <3>1, BookedPosted
    <3> QED
      BY <3>2
  <2>5. ASSUME NEW type \in {"RELEASE", "USAGE", "REVERSAL"}, Post(r, type),
               NEW q \in Periods, NEW t \in RowTypes
        PROVE  Booked(q, t)' = Booked(q, t) + (IF q = p /\ t = type THEN n ELSE 0)
    <3>1. /\ ledger'[r][t] = ledger[r][t] + (IF t = type THEN 1 ELSE 0)
          /\ Booked(q, t) \in Int
      BY <1>0, <2>5, ChargeTyped DEF Post, TypeOK
    <3>2. CASE t = type
      BY <2>4, <3>1, <3>2
    <3>3. CASE t # type
      BY <2>4, <3>1, <3>3
    <3> QED
      BY <3>2, <3>3
  <2>6. ASSUME NEW q \in Periods
        PROVE  /\ bal[q].reserved = Booked(q, "RESERVATION") - Booked(q, "RELEASE")
                                      - Booked(q, "USAGE")
               /\ bal[q].used = Booked(q, "USAGE") - Booked(q, "REVERSAL")
               /\ Booked(q, "RESERVATION") \in Int /\ Booked(q, "RELEASE") \in Int
               /\ Booked(q, "USAGE") \in Int /\ Booked(q, "REVERSAL") \in Int
    BY <1>0, ExplainedByBooked, ChargeTyped DEF LedgerExplains
  <2> HIDE DEF p, n, b
  <2>7. CASE ledger' = ledger /\ bal' = bal
    <3>1. ASSUME NEW q \in Periods, NEW t \in RowTypes PROVE Booked(q, t)' = Booked(q, t)
      <4>1. ledger'[r][t] = ledger[r][t] + 0 /\ Booked(q, t) \in Int
        BY <1>0, <2>7, ChargeTyped DEF TypeOK
      <4> QED
        BY <2>4, <4>1
    <3> QED
      BY <1>0, <2>6, <2>7, <3>1, ExplainedByBooked DEF LedgerExplains
  <2>8. ASSUME NEW type \in {"RELEASE", "USAGE", "REVERSAL"}, Post(r, type),
               NEW held \in Int, NEW spent \in Int,
               /\ type = "RELEASE"  => held = 0 - n /\ spent = 0
               /\ type = "USAGE"    => held = 0 - n /\ spent = n
               /\ type = "REVERSAL" => held = 0 /\ spent = 0 - n,
               \A q \in Periods :
                 /\ bal'[q].reserved = bal[q].reserved + (IF q = p THEN held ELSE 0)
                 /\ bal'[q].used = bal[q].used + (IF q = p THEN spent ELSE 0),
               NEW q \in Periods
        PROVE  ExplainsBalance(q)'
    <3>1. /\ Booked(q, "RESERVATION")' = Booked(q, "RESERVATION")
          /\ Booked(q, "RELEASE")' =
                Booked(q, "RELEASE") + (IF q = p /\ type = "RELEASE" THEN n ELSE 0)
          /\ Booked(q, "USAGE")' =
                Booked(q, "USAGE") + (IF q = p /\ type = "USAGE" THEN n ELSE 0)
          /\ Booked(q, "REVERSAL")' =
                Booked(q, "REVERSAL") + (IF q = p /\ type = "REVERSAL" THEN n ELSE 0)
      <4>1. \A t \in RowTypes :
              Booked(q, t)' = Booked(q, t) + (IF q = p /\ t = type THEN n ELSE 0)
        BY <2>5, <2>8
      <4> QED
        BY <1>0, <2>6, <4>1
    <3>2. /\ bal'[q].reserved = bal[q].reserved + (IF q = p THEN held ELSE 0)
          /\ bal'[q].used = bal[q].used + (IF q = p THEN spent ELSE 0)
      BY <2>8
    <3> QED
      BY <2>3, <2>6, <2>8, <3>1, <3>2, ExplainedByBooked
  <2>9. /\ Release(b, n).reserved = b.reserved + (0 - n) /\ Release(b, n).used = b.used
        /\ Use(b, n).reserved = b.reserved + (0 - n) /\ Use(b, n).used = b.used + n
        /\ Reverse(b, n).reserved = b.reserved /\ Reverse(b, n).used = b.used + (0 - n)
        /\ b.reserved \in Int /\ b.used \in Int /\ b = bal[p]
    BY <2>3 DEF Release, Use, Reverse, BalanceType, b
  <2>10. \A q \in Periods : bal[q].reserved \in Int /\ bal[q].used \in Int
    BY <1>0 DEF BalanceType
  <2>11. ASSUME NEW c, bal' = [bal EXCEPT ![p] = c], NEW q \in Periods
         PROVE  bal'[q] = IF q = p THEN c ELSE bal[q]
    BY <1>0, <2>11 DEF TypeOK
  <2>12. CASE Post(r, "RELEASE") /\ bal' = [bal EXCEPT ![p] = Release(b, n)]
    <3>1. \A q \in Periods :
            /\ bal'[q].reserved = bal[q].reserved + (IF q = p THEN 0 - n ELSE 0)
            /\ bal'[q].used = bal[q].used + (IF q = p THEN 0 ELSE 0)
      <4>1. \A q \in Periods : bal'[q] = IF q = p THEN Release(b, n) ELSE bal[q]
        BY <2>11, <2>12
      <4> QED
        BY <2>9, <2>10, <4>1
    <3>2. ASSUME NEW q \in Periods PROVE ExplainsBalance(q)'
      BY <2>3, <2>8, <2>12, <3>1
    <3> QED
      BY <3>2 DEF LedgerExplains
  <2>13. CASE Post(r, "USAGE") /\ bal' = [bal EXCEPT ![p] = Use(b, n)]
    <3>1. \A q \in Periods :
            /\ bal'[q].reserved = bal[q].reserved + (IF q = p THEN 0 - n ELSE 0)
            /\ bal'[q].used = bal[q].used + (IF q = p THEN n ELSE 0)
      <4>1. \A q \in Periods : bal'[q] = IF q = p THEN Use(b, n) ELSE bal[q]
        BY <2>11, <2>13
      <4> QED
        BY <2>9, <2>10, <4>1
    <3>2. ASSUME NEW q \in Periods PROVE ExplainsBalance(q)'
      BY <2>3, <2>8, <2>13, <3>1
    <3> QED
      BY <3>2 DEF LedgerExplains
  <2>14. CASE Post(r, "REVERSAL") /\ bal' = [bal EXCEPT ![p] = Reverse(b, n)]
    <3>1. \A q \in Periods :
            /\ bal'[q].reserved = bal[q].reserved + (IF q = p THEN 0 ELSE 0)
            /\ bal'[q].used = bal[q].used + (IF q = p THEN 0 - n ELSE 0)
      <4>1. \A q \in Periods : bal'[q] = IF q = p THEN Reverse(b, n) ELSE bal[q]
        BY <2>11, <2>14
      <4> QED
        BY <2>9, <2>10, <4>1
    <3>2. ASSUME NEW q \in Periods PROVE ExplainsBalance(q)'
      BY <2>3, <2>8, <2>14, <3>1
    <3> QED
      BY <3>2 DEF LedgerExplains
  <2> QED
    BY <2>2, <2>7, <2>12, <2>13, <2>14 DEF p, n, b
<1>6. ASSUME \/ \E s \in Sessions, r \in Requests : decideRead(s, r) \/ cancelRead(s, r)
             \/ \E s \in Sessions : decideApprovals(s) \/ rollback(s)
             \/ \E d \in EventDays : punch(d) \/ linkRecord(d)
             \/ UNCHANGED vars
      PROVE  LedgerExplains'
  <2>1. UNCHANGED <<req, ledger, bal>>
    BY <1>6 DEF decideRead, decideApprovals, cancelRead, rollback, punch, linkRecord, vars
  <2> QED
    BY <1>1, <2>1
<1> QED
  BY <1>2, <1>3, <1>4, <1>5, <1>6 DEF Next

LEMMA InitLedgerExplains == Init => LedgerExplains
<1> SUFFICES ASSUME Init, NEW p \in Periods PROVE ExplainsBalance(p)
  BY DEF LedgerExplains
<1>1. \A t : Booked(p, t) = 0
  <2>1. Charged(p) = {}
    BY DEF Init, Charged
  <2> QED
    BY <2>1, SumEmpty DEF Booked
<1>2. bal[p].reserved = 0 /\ bal[p].used = 0
  BY DEF Init, EmptyBalance, Provisioned
<1> QED
  BY <1>1, <1>2, ExplainedByBooked

(* For any requests, sessions, policy and racing handlers: what is reserved *)
(* and used in a leave year is what the ledger rows of its requests add up  *)
(* to, and the rows of a request nobody raced on are those of its status.   *)
THEOREM LedgerTells == Spec => []LedgerTellsStory
<1>1. PolicyInv /\ CalmRequests /\ LedgerExplains => LedgerTellsStory
  BY DEF CalmRequests, LedgerExplains, LedgerTellsStory
<1>2. Init => PolicyInv /\ CalmRequests /\ LedgerExplains
  BY InitPolicyInv, InitCalmRequests, InitLedgerExplains
<1>3. (PolicyInv /\ CalmRequests /\ LedgerExplains) /\ [Next]_vars
        => (PolicyInv /\ CalmRequests /\ LedgerExplains)'
  BY NextPolicyInv, NextCalmRequests, NextLedgerExplains
<1> QED
  BY <1>1, <1>2, <1>3, PTL DEF Spec

-----------------------------------------------------------------------------
(* The calendar. *)

Calendared == NoGhost /\ AllShown

(* Requests keep their dates, and those that were raised stay raised: who  *)
(* is undisturbed now was so before.                                       *)
LEMMA UndisturbedBefore ==
  ASSUME NEW r \in Requests,
         \A q \in Requests : req[q].status # "NONE" =>
           /\ req'[q].status # "NONE"
           /\ req'[q].first = req[q].first /\ req'[q].last = req[q].last,
         req[r].status # "NONE", Undisturbed(r)'
  PROVE  Undisturbed(r)
BY DEF Undisturbed, Overlap, leaveDates

(* The calendar stays right when attendance leaves leave days alone. *)
LEMMA AttendanceKeepsCalendar ==
  ASSUME Calendared, UNCHANGED req, NEW d \in Calendar, TypeOK,
         \A e \in Calendar \ {d} : day'[e] = day[e],
         day[d].punched => day'[d].punched,
         day'[d].punched \/ day'[d].linked,
         day'[d].punched \/ day'[d].status = day[d].status
  PROVE  Calendared'
<1>1. NoGhost'
  <2>1. ASSUME NEW e \in Calendar, day'[e].status = "ON_LEAVE",
               ~day'[e].punched, ~day'[e].linked
        PROVE  \E r \in Requests : req'[r].status = "APPROVED" /\ e \in leaveDates(r)'
    BY <2>1 DEF Calendared, NoGhost, leaveDates
  <2> QED
    BY <2>1 DEF NoGhost
<1>2. ASSUME NEW r \in Requests, req'[r].status = "APPROVED", Undisturbed(r)'
      PROVE  Shown(r)'
  <2>1. Undisturbed(r)
    BY <1>2 DEF Undisturbed, Overlap, leaveDates
  <2>2. Shown(r)
    BY <1>2, <2>1 DEF Calendared, AllShown
  <2>3. leaveDates(r) \subseteq Calendar /\ leaveDates(r)' = leaveDates(r)
    BY LeaveAssumption DEF leaveDates, TypeOK, RequestType, Calendar
  <2> QED
    BY <2>2, <2>3 DEF Shown
<1> QED
  BY <1>1, <1>2 DEF Calendared, AllShown

(* What marking and clearing do to a day. *)
LEMMA DaysMarked ==
  ASSUME TypeOK, NEW r \in Requests, NEW d \in Calendar
  PROVE  /\ d \notin leaveDates(r) =>
              markLeaveDays(r)[d] = day[d] /\ clearLeaveDays(r)[d] = day[d]
         /\ d \in leaveDates(r) =>
              /\ markLeaveDays(r)[d].punched \/ markLeaveDays(r)[d].status = "ON_LEAVE"
              /\ ~ /\ clearLeaveDays(r)[d].status = "ON_LEAVE"
                   /\ ~clearLeaveDays(r)[d].punched /\ ~clearLeaveDays(r)[d].linked
         /\ day[d].punched \/ day[d].status = "ON_LEAVE" =>
              markLeaveDays(r)[d].punched \/ markLeaveDays(r)[d].status = "ON_LEAVE"
<1>1. day[d] \in DayType
  BY DEF TypeOK
<1> QED
  BY <1>1 DEF markLeaveDays, clearLeaveDays, DayType, NoRecord

(* A commit on a calm request keeps the calendar right. *)
LEMMA CommitKeepsCalendar ==
  ASSUME AccountInv, Calendared, NEW s \in Sessions, Commit(s),
         NEW r, r = tx[s].req, Alone(r)
  PROVE  Calendared'
<1>1. /\ r \in Requests /\ req[r].status # "NONE" /\ req'[r].status # "NONE"
      /\ req'[r].first = req[r].first /\ req'[r].last = req[r].last
      /\ \A q \in Requests \ {r} : req'[q] = req[q]
      /\ Settles(s, req'[r].status)
  BY CommitSettles
<1>2. /\ req[r].status = tx[s].seen
      /\ tx[s].op = "decide" => tx[s].seen = "PENDING"
      /\ TypeOK
  BY DEF Alone, AccountInv
<1>3. \A q \in Requests : leaveDates(q)' = leaveDates(q) /\ leaveDates(q) \subseteq Calendar
  <2>1. \A q \in Requests : req'[q].first = req[q].first /\ req'[q].last = req[q].last
    BY <1>1
  <2>2. \A q \in Requests : req[q].first \in Calendar /\ req[q].last \in Calendar
    BY <1>2 DEF TypeOK, RequestType
  <2> QED
    BY <2>1, <2>2, LeaveAssumption DEF leaveDates, Calendar
<1>4. \/ day' = day /\ req[r].status = "PENDING" /\ req'[r].status # "APPROVED"
      \/ day' = markLeaveDays(r) /\ req[r].status = "PENDING" /\ req'[r].status = "APPROVED"
      \/ /\ day' = clearLeaveDays(r)
         /\ req[r].status = "APPROVED" /\ req'[r].status = "CANCELLED"
  BY <1>1, <1>2 DEF Settles
<1>5. ASSUME NEW d \in Calendar, day'[d].status = "ON_LEAVE",
             ~day'[d].punched, ~day'[d].linked
      PROVE  \E q \in Requests : req'[q].status = "APPROVED" /\ d \in leaveDates(q)
  <2>1. CASE req'[r].status = "APPROVED" /\ d \in leaveDates(r)
    BY <1>1, <2>1
  <2>2. CASE ~(req'[r].status = "APPROVED" /\ d \in leaveDates(r))
    <3>1. day'[d] = day[d]
      <4>1. CASE day' = day
        BY <4>1
      <4>2. CASE day' = markLeaveDays(r) /\ req'[r].status = "APPROVED"
        BY <1>1, <1>2, <2>2, <4>2, DaysMarked
      <4>3. CASE day' = clearLeaveDays(r)
        <5>1. d \notin leaveDates(r)
          BY <1>1, <1>2, <1>5, <4>3, DaysMarked
        <5> QED
          BY <1>1, <1>2, <4>3, <5>1, DaysMarked
      <4> QED
        BY <1>4, <4>1, <4>2, <4>3
    <3>2. PICK q \in Requests : req[q].status = "APPROVED" /\ d \in leaveDates(q)
      BY <1>5, <3>1 DEF Calendared, NoGhost
    <3>3. q # r
      BY <1>1, <1>2, <1>4, <1>5, <3>2, DaysMarked
    <3> QED
      BY <1>1, <3>2, <3>3
  <2> QED
    BY <2>1, <2>2
<1>6. ASSUME NEW q \in Requests, req'[q].status = "APPROVED", Undisturbed(q)',
             NEW d \in leaveDates(q)
      PROVE  day'[d].punched \/ day'[d].status = "ON_LEAVE"
  <2>1. d \in Calendar
    BY <1>3
  <2>2. CASE q = r
    <3>1. day' = markLeaveDays(r)
      BY <1>4, <1>6, <2>2
    <3> QED
      BY <1>1, <1>2, <1>6, <2>1, <2>2, <3>1, DaysMarked
  <2>3. CASE q # r
    <3>1. req[q].status = "APPROVED"
      BY <1>1, <1>6, <2>3
    <3>2. Undisturbed(q)
      BY <1>1, <1>6, <3>1, UndisturbedBefore
    <3>3. day[d].punched \/ day[d].status = "ON_LEAVE"
      BY <1>6, <3>1, <3>2 DEF Calendared, AllShown, Shown
    <3>4. d \notin leaveDates(r)
      BY <1>1, <1>6, <2>3, <3>2 DEF Undisturbed, Overlap
    <3> QED
      BY <1>1, <1>2, <1>4, <2>1, <3>3, <3>4, DaysMarked
  <2> QED
    BY <2>2, <2>3
<1> QED
  BY <1>3, <1>5, <1>6 DEF Calendared, NoGhost, AllShown, Shown

(* As long as nobody races, the calendar stays right. *)
LEMMA NextCalendared ==
  PolicyInv /\ CalmRequests /\ Calendared /\ contended = {} /\ [Next]_vars
    => Calendared'
<1> SUFFICES ASSUME PolicyInv, CalmRequests, Calendared, contended = {}, [Next]_vars
             PROVE  Calendared'
  OBVIOUS
<1>1. AccountInv /\ TypeOK
  BY DEF PolicyInv, AccountInv
<1>2. CASE UNCHANGED <<req, day>>
  BY <1>2 DEF Calendared, NoGhost, AllShown, Shown, Undisturbed, Overlap, leaveDates
<1>3. ASSUME NEW s \in Sessions, Commit(s) PROVE Calendared'
  <2>1. Alone(tx[s].req)
    BY <1>1, <1>3, CommitSettles DEF CalmRequests
  <2> QED
    BY <1>1, <1>3, <2>1, CommitKeepsCalendar
<1>4. ASSUME NEW d \in EventDays, punch(d) PROVE Calendared'
  <2>1. d \in Calendar /\ day[d] \in DayType
    BY <1>1, LeaveAssumption DEF TypeOK
  <2>2. UNCHANGED req /\ day'[d].punched
        /\ \A e \in Calendar \ {d} : day'[e] = day[e]
    BY <1>1, <1>4, <2>1 DEF punch, TypeOK
  <2> QED
    BY <1>1, <2>1, <2>2, AttendanceKeepsCalendar
<1>5. ASSUME NEW d \in EventDays, linkRecord(d) PROVE Calendared'
  <2>1. d \in Calendar
    BY LeaveAssumption
  <2>2. /\ UNCHANGED req /\ day'[d].linked
        /\ day'[d].status = day[d].status /\ day'[d].punched = day[d].punched
        /\ \A e \in Calendar \ {d} : day'[e] = day[e]
    BY <1>1, <1>5, <2>1 DEF linkRecord, TypeOK
  <2> QED
    BY <1>1, <2>1, <2>2, AttendanceKeepsCalendar
<1>6. ASSUME NEW r \in Requests, NEW f, NEW l, createRequest(r, f, l)
      PROVE  Calendared'
  <2>1. /\ req[r].status = "NONE" /\ req'[r].status = "PENDING"
        /\ \A q \in Requests \ {r} : req'[q] = req[q]
        /\ day' = day
    BY <1>1, <1>6, CreateEffect DEF createRequest
  <2>2. \A q \in Requests \ {r} : leaveDates(q)' = leaveDates(q)
    BY <2>1 DEF leaveDates
  <2>3. NoGhost'
    <3>1. ASSUME NEW d \in Calendar, day[d].status = "ON_LEAVE",
                 ~day[d].punched, ~day[d].linked
          PROVE  \E q \in Requests : req'[q].status = "APPROVED" /\ d \in leaveDates(q)'
      <4>1. PICK q \in Requests : req[q].status = "APPROVED" /\ d \in leaveDates(q)
        BY <3>1 DEF Calendared, NoGhost
      <4> QED
        BY <2>1, <2>2, <4>1
    <3> QED
      BY <2>1, <3>1 DEF NoGhost
  <2>4. ASSUME NEW q \in Requests, req'[q].status = "APPROVED", Undisturbed(q)'
        PROVE  Shown(q)'
    <3>1. q # r /\ req[q].status = "APPROVED"
      BY <2>1, <2>4
    <3>2. \A p \in Requests : req[p].status # "NONE" =>
            /\ req'[p].status # "NONE"
            /\ req'[p].first = req[p].first /\ req'[p].last = req[p].last
      BY <2>1
    <3>3. Undisturbed(q)
      BY <2>4, <3>1, <3>2, UndisturbedBefore
    <3> QED
      BY <2>1, <2>2, <3>1, <3>3 DEF Calendared, AllShown, Shown
  <2> QED
    BY <2>3, <2>4 DEF Calendared, AllShown
<1>7. ASSUME NEW s \in Sessions, NEW r \in Requests, decideRead(s, r) \/ cancelRead(s, r)
      PROVE  UNCHANGED <<req, day>>
  BY <1>7 DEF decideRead, cancelRead
<1>8. ASSUME \/ \E p \in Periods : provisionBalance(p) \/ adjustBalance(p)
             \/ \E s \in Sessions : decideApprovals(s) \/ rollback(s)
             \/ UNCHANGED vars
      PROVE  UNCHANGED <<req, day>>
  BY <1>8 DEF provisionBalance, adjustBalance, decideApprovals, rollback, vars
<1> QED
  BY <1>2, <1>3, <1>4, <1>5, <1>6, <1>7, <1>8 DEF Next

(* While no two transactions worked on one request, the calendar shows      *)
(* approved leave and no other, for any number of requests, any dates and   *)
(* whatever attendance and timesheets do to the days.                       *)
THEOREM CalendarShowsLeave == Spec => []ApprovedLeaveOnCalendar
<1> DEFINE CalendarInv ==
             PolicyInv /\ CalmRequests /\ (contended = {} => Calendared)
<1>1. Init => CalendarInv
  BY InitPolicyInv, InitCalmRequests DEF Calendared
<1>2. CalendarInv /\ [Next]_vars => CalendarInv'
  <2> SUFFICES ASSUME CalendarInv, [Next]_vars PROVE CalendarInv'
    OBVIOUS
  <2>1. PolicyInv' /\ CalmRequests'
    BY NextPolicyInv, NextCalmRequests
  <2>2. contended' = {} => Calendared'
    BY ContendedGrows, NextCalendared
  <2> QED
    BY <2>1, <2>2
<1>3. CalendarInv => ApprovedLeaveOnCalendar
  BY DEF Calendared, NoGhost, AllShown, Shown, Undisturbed, ApprovedLeaveOnCalendar
<1> QED
  BY <1>1, <1>2, <1>3, PTL DEF Spec

-----------------------------------------------------------------------------
(* The workflow implements the account.                                    *)

HIDE DEF Entitled, Held, Spent, Free

(* The columns of the account, one leave year apart. *)
LEMMA AccountColumns ==
  ASSUME NEW p \in Periods, \A q \in Periods \ {p} : bal'[q] = bal[q]
  PROVE  /\ Free' = [Free EXCEPT ![p] = bal'[p].available]
         /\ Held' = [Held EXCEPT ![p] = bal'[p].reserved]
         /\ Spent' = [Spent EXCEPT ![p] = bal'[p].used]
         /\ Entitled' = [Entitled EXCEPT ![p] = bal'[p].accrued + bal'[p].adjusted]
BY DEF Free, Held, Spent, Entitled

(* A step that replaces the balance of one leave year, as the account sees it. *)
LEMMA OneBalance ==
  ASSUME AccountInv, NEW p \in Periods, NEW c, bal' = [bal EXCEPT ![p] = c]
  PROVE  /\ bal[p] \in BalanceType
         /\ Free[p] = bal[p].available /\ Free' = [Free EXCEPT ![p] = c.available]
         /\ Held[p] = bal[p].reserved /\ Held' = [Held EXCEPT ![p] = c.reserved]
         /\ Spent[p] = bal[p].used /\ Spent' = [Spent EXCEPT ![p] = c.used]
         /\ Entitled[p] = bal[p].accrued + bal[p].adjusted
         /\ Entitled' = [Entitled EXCEPT ![p] = c.accrued + c.adjusted]
<1>1. /\ bal[p] \in BalanceType /\ bal'[p] = c
      /\ \A q \in Periods \ {p} : bal'[q] = bal[q]
  BY DEF AccountInv, TypeOK
<1>2. /\ Free[p] = bal[p].available /\ Held[p] = bal[p].reserved
      /\ Spent[p] = bal[p].used /\ Entitled[p] = bal[p].accrued + bal[p].adjusted
  BY DEF Free, Held, Spent, Entitled
<1> QED
  BY <1>1, <1>2, AccountColumns

(* A handler that moves the days of a request is one move of the account. *)
LEMMA MoveImplements ==
  ASSUME AccountInv, NEW p \in Periods, NEW n \in Nat \ {0}, NEW c,
         AmountsCheck(c), bal' = [bal EXCEPT ![p] = c],
         \/ c = Reserve(bal[p], n) \/ c = Release(bal[p], n)
         \/ c = Use(bal[p], n)     \/ c = Reverse(bal[p], n)
  PROVE  Account!Next
<1> DEFINE b == bal[p]
<1>1. /\ b \in BalanceType
      /\ Free[p] = b.available /\ Free' = [Free EXCEPT ![p] = c.available]
      /\ Held[p] = b.reserved /\ Held' = [Held EXCEPT ![p] = c.reserved]
      /\ Spent[p] = b.used /\ Spent' = [Spent EXCEPT ![p] = c.used]
      /\ Entitled[p] = b.accrued + b.adjusted
      /\ Entitled' = [Entitled EXCEPT ![p] = c.accrued + c.adjusted]
  BY OneBalance
<1>2. /\ b.available \in Nat /\ b.reserved \in Nat /\ b.used \in Nat
      /\ b.accrued \in Nat /\ b.adjusted \in Int
  BY <1>1 DEF BalanceType
<1>3. CASE c = Reserve(b, n)
  <2>1. /\ c.available = b.available - n /\ c.reserved = b.reserved + n
        /\ c.used = b.used /\ c.accrued = b.accrued /\ c.adjusted = b.adjusted
        /\ n \in 1..b.available
    BY <1>1, <1>2, <1>3 DEF Reserve, BalanceType, AmountsCheck
  <2>2. UNCHANGED <<Entitled, Spent>>
    BY <1>1, <2>1 DEF Entitled, Spent
  <2>3. Account!Hold(p)
    BY <1>1, <2>1, <2>2 DEF Account!Hold
  <2> QED
    BY <2>3 DEF Account!Next
<1>4. CASE c = Release(b, n)
  <2>1. /\ c.available = b.available + n /\ c.reserved = b.reserved - n
        /\ c.used = b.used /\ c.accrued = b.accrued /\ c.adjusted = b.adjusted
        /\ n \in 1..b.reserved
    BY <1>1, <1>2, <1>4 DEF Release, BalanceType, AmountsCheck
  <2>2. UNCHANGED <<Entitled, Spent>>
    BY <1>1, <2>1 DEF Entitled, Spent
  <2>3. Account!Release(p)
    BY <1>1, <2>1, <2>2 DEF Account!Release
  <2> QED
    BY <2>3 DEF Account!Next
<1>5. CASE c = Use(b, n)
  <2>1. /\ c.available = b.available /\ c.reserved = b.reserved - n
        /\ c.used = b.used + n /\ c.accrued = b.accrued /\ c.adjusted = b.adjusted
        /\ n \in 1..b.reserved
    BY <1>1, <1>2, <1>5 DEF Use, BalanceType, AmountsCheck
  <2>2. UNCHANGED <<Entitled, Free>>
    BY <1>1, <2>1 DEF Entitled, Free
  <2>3. Account!Spend(p)
    BY <1>1, <2>1, <2>2 DEF Account!Spend
  <2> QED
    BY <2>3 DEF Account!Next
<1>6. CASE c = Reverse(b, n)
  <2>1. /\ c.available = b.available + n /\ c.reserved = b.reserved
        /\ c.used = b.used - n /\ c.accrued = b.accrued /\ c.adjusted = b.adjusted
        /\ n \in 1..b.used
    BY <1>1, <1>2, <1>6 DEF Reverse, BalanceType, AmountsCheck
  <2>2. UNCHANGED <<Entitled, Held>>
    BY <1>1, <2>1 DEF Entitled, Held
  <2>3. Account!Return(p)
    BY <1>1, <2>1, <2>2 DEF Account!Return
  <2> QED
    BY <2>3 DEF Account!Next
<1> QED
  BY <1>3, <1>4, <1>5, <1>6

(* Opening a leave year grants its entitlement, and so does an adjustment. *)
LEMMA GrantImplements ==
  ASSUME AccountInv, NEW p \in Periods, provisionBalance(p) \/ adjustBalance(p)
  PROVE  Account!Next
<1> DEFINE Granted(c, n) ==
             /\ bal' = [bal EXCEPT ![p] = c]
             /\ c.available >= 0 /\ c.available = bal[p].available + n
             /\ c.reserved = bal[p].reserved /\ c.used = bal[p].used
             /\ c.accrued + c.adjusted = bal[p].accrued + bal[p].adjusted + n
<1>1. ASSUME NEW c, NEW n \in Int, Granted(c, n) PROVE Account!Next
  <2>1. /\ bal[p] \in BalanceType
        /\ Free[p] = bal[p].available /\ Free' = [Free EXCEPT ![p] = c.available]
        /\ Held[p] = bal[p].reserved /\ Held' = [Held EXCEPT ![p] = c.reserved]
        /\ Spent[p] = bal[p].used /\ Spent' = [Spent EXCEPT ![p] = c.used]
        /\ Entitled[p] = bal[p].accrued + bal[p].adjusted
        /\ Entitled' = [Entitled EXCEPT ![p] = c.accrued + c.adjusted]
    BY <1>1, OneBalance
  <2>2. UNCHANGED <<Held, Spent>>
    BY <1>1, <2>1 DEF Held, Spent
  <2>3. Free'[p] = c.available
    BY <2>1 DEF Free
  <2>4. c.accrued + c.adjusted = Entitled[p] + Free'[p] - Free[p]
    BY <1>1, <2>1, <2>3 DEF BalanceType
  <2>5. Account!Grant(p)
    BY <1>1, <2>1, <2>2, <2>3, <2>4 DEF Account!Grant
  <2> QED
    BY <2>5 DEF Account!Next
<1> HIDE DEF Granted
<1>2. CASE provisionBalance(p)
  <2>1. PICK a \in Entitlements : bal' = [bal EXCEPT ![p] = Provisioned(a)]
    BY <1>2 DEF provisionBalance
  <2>2. bal[p] = EmptyBalance /\ a \in Nat
    BY <1>2, LeaveAssumption DEF provisionBalance, AccountInv, Closed
  <2>3. Granted(Provisioned(a), a)
    BY <2>1, <2>2 DEF Granted, EmptyBalance, Provisioned
  <2> QED
    BY <1>1, <2>2, <2>3
<1>3. CASE adjustBalance(p)
  <2> DEFINE c(n) == [bal[p] EXCEPT !.available = @ + n, !.adjusted = @ + n]
  <2>1. PICK n \in Adjustments :
          AmountsCheck(c(n)) /\ bal' = [bal EXCEPT ![p] = c(n)]
    BY <1>3 DEF adjustBalance
  <2>2. n \in Int /\ bal[p] \in BalanceType
    BY LeaveAssumption DEF AccountInv, TypeOK
  <2>3. /\ c(n).available = bal[p].available + n
        /\ c(n).adjusted = bal[p].adjusted + n
        /\ c(n).reserved = bal[p].reserved /\ c(n).used = bal[p].used
        /\ c(n).accrued = bal[p].accrued
    BY <2>2 DEF BalanceType
  <2>4. c(n).available >= 0
    BY <2>1 DEF AmountsCheck
  <2> HIDE DEF c
  <2>5. c(n).accrued + c(n).adjusted = bal[p].accrued + bal[p].adjusted + n
    BY <2>2, <2>3 DEF BalanceType
  <2>6. Granted(c(n), n)
    BY <2>1, <2>3, <2>4, <2>5 DEF Granted
  <2> QED
    BY <1>1, <2>2, <2>6
<1> QED
  BY <1>2, <1>3

(* Raising a request holds its days, in a balance it may have to open.     *)
LEMMA CreateImplements ==
  ASSUME AccountInv, NEW r \in Requests, NEW f \in Calendar, NEW l \in Calendar,
         createRequest(r, f, l)
  PROVE  Account!Next
<1> DEFINE p == leavePeriod(f)
           n == workingDays(f, l)
<1>1. p \in Periods /\ n \in Nat \ {0}
  BY LeavePeriodType, WorkingDaysNat DEF createRequest
<1>2. PICK start \in IF p \in opened THEN {bal[p]}
                     ELSE {Provisioned(a) : a \in Entitlements} :
        /\ start.available >= n
        /\ bal' = [bal EXCEPT ![p] = Reserve(start, n)]
  BY DEF createRequest
<1> HIDE DEF p, n
<1>3. CASE p \in opened
  <2>1. AmountsCheck(Reserve(bal[p], n))
    BY <1>1, <1>2, <1>3 DEF AmountsCheck, Reserve, AccountInv, TypeOK, BalanceType
  <2> QED
    BY <1>1, <1>2, <1>3, <2>1, MoveImplements
<1>4. CASE p \notin opened
  <2>1. PICK a \in Entitlements : start = Provisioned(a)
    BY <1>2, <1>4
  <2>0. PICK c : c = Reserve(start, n)
    OBVIOUS
  <2>2. /\ c.available = a - n /\ c.reserved = n /\ c.used = 0
        /\ c.accrued + c.adjusted = a /\ n \in 1..a
    BY <1>1, <1>2, <2>0, <2>1, LeaveAssumption DEF Reserve, Provisioned
  <2>3. /\ bal[p].accrued + bal[p].adjusted = 0 /\ bal[p].available = 0
        /\ bal[p].reserved = 0 /\ bal[p].used = 0
    BY <1>1, <1>4 DEF AccountInv, Closed, EmptyBalance, Provisioned
  <2>4. bal' = [bal EXCEPT ![p] = c]
    BY <1>2, <2>0
  <2>5. /\ Free[p] = bal[p].available /\ Free' = [Free EXCEPT ![p] = c.available]
        /\ Held[p] = bal[p].reserved /\ Held' = [Held EXCEPT ![p] = c.reserved]
        /\ Spent[p] = bal[p].used /\ Spent' = [Spent EXCEPT ![p] = c.used]
        /\ Entitled[p] = bal[p].accrued + bal[p].adjusted
        /\ Entitled' = [Entitled EXCEPT ![p] = c.accrued + c.adjusted]
    BY <1>1, <2>4, OneBalance
  <2>6. UNCHANGED Spent
    BY <2>2, <2>3, <2>5 DEF Spent
  <2>7. Entitled'[p] = a
    BY <1>1, <2>2, <2>5 DEF Entitled
  <2>8. Account!OpenAndHold(p)
    BY <1>1, <2>2, <2>3, <2>5, <2>6, <2>7 DEF Account!OpenAndHold
  <2> QED
    BY <1>1, <2>8 DEF Account!Next
<1> QED
  BY <1>3, <1>4

(* Every step of the workflow is one move of the account, or none.         *)
LEMMA StepImplements == AccountInv /\ [Next]_vars => [Account!Next]_(Account!account)
<1> SUFFICES ASSUME AccountInv, [Next]_vars
             PROVE  [Account!Next]_(Account!account)
  OBVIOUS
<1>1. ASSUME NEW s \in Sessions, tx[s].op # "none", BalanceFound(tx[s].req)
      PROVE  /\ BalanceOf(tx[s].req) \in Periods
             /\ req[tx[s].req].days \in Nat \ {0}
  <2>1. tx[s].req \in Requests /\ req[tx[s].req].status # "NONE"
    BY <1>1 DEF AccountInv, TxOnRaised, Idle
  <2>2. req[tx[s].req].days \in Nat /\ req[tx[s].req].days >= 1
    BY <2>1 DEF AccountInv, TypeOK, RequestType, Raised
  <2> QED
    BY <2>2, LeavePeriodType DEF BalanceOf
<1>2. ASSUME NEW s \in Sessions, reject(s) \/ cancelPending(s) PROVE Account!Next
  BY <1>1, <1>2, MoveImplements DEF reject, cancelPending, releaseReservation
<1>3. ASSUME NEW s \in Sessions, approveFinal(s) PROVE Account!Next
  BY <1>1, <1>3, MoveImplements DEF approveFinal
<1>4. ASSUME NEW s \in Sessions, cancelApproved(s) PROVE Account!Next
  BY <1>1, <1>4, MoveImplements DEF cancelApproved
<1>5. ASSUME bal' = bal PROVE UNCHANGED Account!account
  BY <1>5 DEF Account!account, Entitled, Held, Spent, Free
<1>6. ASSUME NEW s \in Sessions, decideApprovals(s) \/ approveStep(s) \/ rollback(s)
      PROVE  bal' = bal
  BY <1>6 DEF decideApprovals, approveStep, rollback
<1>7. ASSUME NEW s \in Sessions, NEW r \in Requests, decideRead(s, r) \/ cancelRead(s, r)
      PROVE  bal' = bal
  BY <1>7 DEF decideRead, cancelRead
<1>8. ASSUME \/ \E d \in EventDays : punch(d) \/ linkRecord(d)
             \/ UNCHANGED vars
      PROVE  bal' = bal
  BY <1>8 DEF punch, linkRecord, vars
<1> QED
  BY <1>2, <1>3, <1>4, <1>5, <1>6, <1>7, <1>8, GrantImplements, CreateImplements
     DEF Next, Commit

(* The balances of an employee are the abstract leave account, whatever    *)
(* handlers overlap and whichever of them roll back.                       *)
THEOREM ImplementsTheAccount == Spec => ImplementsAccount
<1>1. Init => Account!Init
  BY DEF Init, Account!Init, Account!None, EmptyBalance, Provisioned,
     Entitled, Held, Spent, Free
<1> QED
  BY AccountSafe, <1>1, StepImplements, PTL DEF Spec, ImplementsAccount, Account!Spec
=============================================================================
