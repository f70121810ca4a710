------------------------------- MODULE Leave --------------------------------
(***************************************************************************)
(* The leave workflow of apps/api/src/modules/leave for one employee and   *)
(* one leave type: balances per leave year, requests, their multi-step     *)
(* decision, cancellation, the balance ledger and the attendance calendar. *)
(*                                                                         *)
(* Each API handler is one PostgreSQL transaction at READ COMMITTED.       *)
(* decide and cancel first read the request WITHOUT locking its row and    *)
(* act on that reading later, so the read, which leaves an open            *)
(* transaction in tx, and the commit of all its writes are steps of their  *)
(* own.  decide reads twice before it writes: Prisma loads the approvals   *)
(* of an include with a SELECT that follows the one of the request, and at *)
(* READ COMMITTED the two may see different states.                        *)
(* The writes are one step because the row lock taken by the first of them *)
(* (the request row, then the balance row) is held until the commit.       *)
(* createRequest re-checks what it read in the WHERE of its own update, so *)
(* its read adds no behaviour and it is one step.                          *)
(***************************************************************************)
EXTENDS Integers, FiniteSets, Functions

CONSTANTS
  Requests,      \* leave requests that may be raised
  Sessions,      \* API requests that can be in flight at the same time
  NoRequest,     \* a session that is idle works on this
  LastDay,       \* the calendar is 1..LastDay
  YearEnd,       \* last day of the first leave year
  WorkDays,      \* days of the calendar that are neither weekend nor holiday
  NSteps,        \* steps of the approval policy
  Entitlements,  \* amounts initialEntitlement can yield
  Adjustments,   \* amounts an administrator may adjust by
  MaxAdjusted,   \* bound of the model: total adjustment stays within it
  EventDays      \* bound of the model: days that see punches or timesheets

Calendar == 1..LastDay
Periods  == {1, 2}
Steps    == 1..NSteps
RowTypes == {"RESERVATION", "RELEASE", "USAGE", "REVERSAL"}
Verdicts == {"NONE", "APPROVED", "REJECTED"}
Statuses == {"NONE", "PENDING", "APPROVED", "REJECTED", "CANCELLED"}
Columns  == {"accrued", "adjusted", "available", "reserved", "used"}

ASSUME LeaveAssumption ==
  /\ IsFiniteSet(Requests) /\ NoRequest \notin Requests
  /\ LastDay \in Nat /\ YearEnd \in Calendar
  /\ WorkDays \subseteq Calendar
  /\ NSteps \in Nat \ {0}
  /\ Entitlements \subseteq Nat
  /\ Adjustments \subseteq Int
  /\ MaxAdjusted \in Nat
  /\ EventDays \subseteq Calendar

VARIABLES
  req,        \* leave_requests, with their leave_approvals rows
  bal,        \* leave_balances, one per leave year
  opened,     \* the leave years whose balance row exists
  ledger,     \* leave_balance_transactions: rows per request and type
  day,        \* attendance_records of the employee
  tx,         \* what each open transaction has read
  contended   \* history: requests two transactions worked on at once

vars == <<req, bal, opened, ledger, day, tx, contended>>

-----------------------------------------------------------------------------
(* Leave years, working days and the balance a request is charged to. *)

leavePeriod(d) == IF d <= YearEnd THEN 1 ELSE 2

leaveDates(r) == req[r].first..req[r].last

workingDays(first, last) == Cardinality((first..last) \cap WorkDays)

(* decide and cancel look for a balance whose period contains BOTH ends. *)
BalanceFound(r) ==
  /\ leavePeriod(req[r].first) = leavePeriod(req[r].last)
  /\ leavePeriod(req[r].first) \in opened

BalanceOf(r) == leavePeriod(req[r].first)

(* Mutant of AmountsCheck: the constraint is missing. *)
Unconstrained(b) == TRUE

(* The CHECK constraint leave_balances_amounts_check: a statement that    *)
(* breaks it aborts its transaction.                                      *)
AmountsCheck(b) ==
  b.accrued >= 0 /\ b.available >= 0 /\ b.reserved >= 0 /\ b.used >= 0

(* Mutant of Reverse: used days are dropped instead of given back. *)
DropUsed(b, n) == [b EXCEPT !.used = @ - n]

Reserve(b, n) == [b EXCEPT !.available = @ - n, !.reserved = @ + n]
Release(b, n) == [b EXCEPT !.reserved = @ - n, !.available = @ + n]
Use(b, n)     == [b EXCEPT !.reserved = @ - n, !.used = @ + n]
Reverse(b, n) == [b EXCEPT !.used = @ - n, !.available = @ + n]

(* A balance row as provisionBalance creates it. *)
Provisioned(amount) ==
  [accrued |-> amount, adjusted |-> 0, available |-> amount,
   reserved |-> 0, used |-> 0]

EmptyBalance == Provisioned(0)

-----------------------------------------------------------------------------
(* The attendance calendar. *)

NoRecord == [status |-> "NONE", punched |-> FALSE, linked |-> FALSE]

(* A day with punches is left alone; every other day of the request, work  *)
(* day or not, becomes ON_LEAVE.                                           *)
markLeaveDays(r) ==
  [d \in Calendar |->
     IF d \in leaveDates(r) /\ ~day[d].punched
       THEN [day[d] EXCEPT !.status = "ON_LEAVE"] ELSE day[d]]

(* Mutant of clearLeaveDays: a cancellation leaves the calendar alone. *)
keepLeaveDays(r) == day

(* Only rows nothing else hangs on are deleted. *)
clearLeaveDays(r) ==
  [d \in Calendar |->
     IF /\ d \in leaveDates(r)
        /\ day[d].status = "ON_LEAVE" /\ ~day[d].punched /\ ~day[d].linked
       THEN NoRecord ELSE day[d]]

-----------------------------------------------------------------------------
NoRows == [t \in RowTypes |-> 0]
Undecided == [k \in Steps |-> "NONE"]
Idle == [op |-> "none", req |-> NoRequest, step |-> 0, seen |-> "NONE"]

Post(r, type) == ledger' = [ledger EXCEPT ![r][type] = @ + 1]

Init ==
  /\ req = [r \in Requests |->
              [status |-> "NONE", first |-> 1, last |-> 1, days |-> 0,
               approvals |-> Undecided]]
  /\ bal = [p \in Periods |-> EmptyBalance]
  /\ opened = {}
  /\ ledger = [r \in Requests |-> NoRows]
  /\ day = [d \in Calendar |-> NoRecord]
  /\ tx = [s \in Sessions |-> Idle]
  /\ contended = {}

(* Mutant of provisionBalance: an existing balance is opened again. *)
provisionAgain(p) ==
  /\ \E amount \in Entitlements :
       bal' = [bal EXCEPT ![p] = Provisioned(amount)]
  /\ opened' = opened \cup {p}
  /\ UNCHANGED <<req, ledger, day, tx, contended>>

(* listBalances, assignTypeToBranch: open the balance of a leave year once. *)
provisionBalance(p) ==
  /\ p \notin opened
  /\ \E amount \in Entitlements :
       bal' = [bal EXCEPT ![p] = Provisioned(amount)]
  /\ opened' = opened \cup {p}
  /\ UNCHANGED <<req, ledger, day, tx, contended>>

(* adjustBalance: the administrator's correction of the available days. *)
adjustBalance(p) ==
  \E n \in Adjustments :
    LET b == [bal[p] EXCEPT !.available = @ + n, !.adjusted = @ + n] IN
    /\ p \in opened
    /\ b.adjusted \in (-MaxAdjusted)..MaxAdjusted
    /\ AmountsCheck(b)
    /\ bal' = [bal EXCEPT ![p] = b]
    /\ UNCHANGED <<req, opened, ledger, day, tx, contended>>

(* createRequest: provisions the leave year of the START date, creates the *)
(* PENDING request and reserves its working days with an update that only  *)
(* matches while enough days are available.                                *)
createRequest(r, first, last) ==
  LET p == leavePeriod(first)
      n == workingDays(first, last)
  IN
  /\ req[r].status = "NONE"
  /\ first <= last
  /\ n > 0
  /\ \E start \in IF p \in opened THEN {bal[p]}
                  ELSE {Provisioned(a) : a \in Entitlements} :
       /\ start.available >= n
       /\ bal' = [bal EXCEPT ![p] = Reserve(start, n)]
  /\ opened' = opened \cup {p}
  /\ req' = [req EXCEPT ![r] =
               [status |-> "PENDING", first |-> first, last |-> last,
                days |-> n, approvals |-> Undecided]]
  /\ Post(r, "RESERVATION")
  /\ UNCHANGED <<day, tx, contended>>

(* A transaction of session s starts working on r.  No lock is taken. *)
Begin(s, r, record) ==
  /\ tx[s] = Idle
  /\ tx' = [tx EXCEPT ![s] = record]
  /\ contended' = IF \E t \in Sessions : tx[t].req = r
                    THEN contended \cup {r} ELSE contended

End(s) == tx' = [tx EXCEPT ![s] = Idle]

(* Mutant of PendingStep: steps may be decided out of order. *)
OpenStep(r, k) == req[r].approvals[k] = "NONE"

(* The first step of the policy that has no approval row yet. *)
PendingStep(r, k) ==
  /\ req[r].approvals[k] = "NONE"
  /\ \A j \in 1..(k - 1) : req[r].approvals[j] # "NONE"

(* decide reads the request: it must be PENDING ... *)
decideRead(s, r) ==
  /\ req[r].status = "PENDING"
  /\ Begin(s, r, [op |-> "decide", req |-> r, step |-> 0,
                  seen |-> "PENDING"])
  /\ UNCHANGED <<req, bal, opened, ledger, day>>

(* ... and then its approvals, with the rows committed in between: the     *)
(* first step without a verdict, whatever the verdicts are, is the one it  *)
(* decides.                                                                *)
decideApprovals(s) ==
  /\ tx[s].op = "decide" /\ tx[s].step = 0
  /\ \E k \in Steps :
       /\ PendingStep(tx[s].req, k)
       /\ tx' = [tx EXCEPT ![s].step = k]
  /\ UNCHANGED <<req, bal, opened, ledger, day, contended>>

(* Mutant of RecordVerdict: no unique key on the approval row. *)
OverwriteVerdict(r, k, verdict, finalStatus) ==
  req' = [req EXCEPT ![r].approvals[k] = verdict, ![r].status = finalStatus]

(* The approval row is unique per (request, step); the status written is   *)
(* computed from what was read and replaces whatever the row holds now.    *)
RecordVerdict(r, k, verdict, finalStatus) ==
  /\ req[r].approvals[k] = "NONE"
  /\ req' = [req EXCEPT ![r].approvals[k] = verdict,
                        ![r].status = finalStatus]

approveStep(s) ==
  LET r == tx[s].req  k == tx[s].step IN
  /\ tx[s].op = "decide" /\ k \in 1..(NSteps - 1)
  /\ BalanceFound(r)
  /\ RecordVerdict(r, k, "APPROVED", "PENDING")
  /\ End(s)
  /\ UNCHANGED <<bal, opened, ledger, day, contended>>

approveFinal(s) ==
  LET r == tx[s].req
      b == Use(bal[BalanceOf(r)], req[r].days)
  IN
  /\ tx[s].op = "decide" /\ tx[s].step = NSteps
  /\ BalanceFound(r)
  /\ RecordVerdict(r, NSteps, "APPROVED", "APPROVED")
  /\ AmountsCheck(b)
  /\ bal' = [bal EXCEPT ![BalanceOf(r)] = b]
  /\ Post(r, "USAGE")
  /\ day' = markLeaveDays(r)
  /\ End(s)
  /\ UNCHANGED <<opened, contended>>

(* Mutant of releaseReservation: the ledger row is forgotten. *)
releaseUnposted(r) ==
  LET b == Release(bal[BalanceOf(r)], req[r].days) IN
  /\ AmountsCheck(b)
  /\ bal' = [bal EXCEPT ![BalanceOf(r)] = b]
  /\ UNCHANGED ledger

(* releaseReservation, shared by a rejection and a cancellation. *)
releaseReservation(r) ==
  LET b == Release(bal[BalanceOf(r)], req[r].days) IN
  /\ AmountsCheck(b)
  /\ bal' = [bal EXCEPT ![BalanceOf(r)] = b]
  /\ Post(r, "RELEASE")

reject(s) ==
  LET r == tx[s].req IN
  /\ tx[s].op = "decide" /\ tx[s].step \in Steps
  /\ BalanceFound(r)
  /\ RecordVerdict(r, tx[s].step, "REJECTED", "REJECTED")
  /\ releaseReservation(r)
  /\ End(s)
  /\ UNCHANGED <<opened, day, contended>>

cancelRead(s, r) ==
  /\ req[r].status \in {"PENDING", "APPROVED"}
  /\ Begin(s, r, [op |-> "cancel", req |-> r, step |-> 0,
                  seen |-> req[r].status])
  /\ UNCHANGED <<req, bal, opened, ledger, day>>

(* cancel of a request that was PENDING when it was read ... *)
cancelPending(s) ==
  LET r == tx[s].req IN
  /\ tx[s].op = "cancel" /\ tx[s].seen = "PENDING"
  /\ BalanceFound(r)
  /\ req' = [req EXCEPT ![r].status = "CANCELLED"]
  /\ releaseReservation(r)
  /\ End(s)
  /\ UNCHANGED <<opened, day, contended>>

(* ... and of one that was APPROVED: the used days return to available,    *)
(* and the calendar gives its days back.                                   *)
cancelApproved(s) ==
  LET r == tx[s].req
      b == Reverse(bal[BalanceOf(r)], req[r].days)
  IN
  /\ tx[s].op = "cancel" /\ tx[s].seen = "APPROVED"
  /\ BalanceFound(r)
  /\ req' = [req EXCEPT ![r].status = "CANCELLED"]
  /\ AmountsCheck(b)
  /\ bal' = [bal EXCEPT ![BalanceOf(r)] = b]
  /\ Post(r, "REVERSAL")
  /\ day' = clearLeaveDays(r)
  /\ End(s)
  /\ UNCHANGED <<opened, contended>>

(* A transaction rolls back: a guard, constraint or authorisation check    *)
(* failed, it timed out, or the process died.                              *)
rollback(s) ==
  /\ tx[s] # Idle
  /\ End(s)
  /\ UNCHANGED <<req, bal, opened, ledger, day, contended>>

(* Attendance as leave sees it: a punch opens the day's record or is added *)
(* to it; the caller may name a day status, and otherwise an existing      *)
(* record keeps the one it has.                                            *)
punch(d) ==
  /\ \E named \in BOOLEAN :
       day' = [day EXCEPT ![d] =
                 [status |-> IF named \/ @.status = "NONE" THEN "PRESENT"
                             ELSE @.status,
                  punched |-> TRUE, linked |-> @.linked]]
  /\ day' # day
  /\ UNCHANGED <<req, bal, opened, ledger, tx, contended>>

(* Deriving a timesheet (or raising a correction) hangs rows on a record.  *)
linkRecord(d) ==
  /\ day[d].status # "NONE" /\ ~day[d].linked
  /\ day' = [day EXCEPT ![d] = [status |-> @.status, punched |-> @.punched,
                                linked |-> TRUE]]
  /\ UNCHANGED <<req, bal, opened, ledger, tx, contended>>

Commit(s) == \/ approveStep(s) \/ approveFinal(s) \/ reject(s)
             \/ cancelPending(s) \/ cancelApproved(s)

Next ==
  \/ \E p \in Periods : provisionBalance(p) \/ adjustBalance(p)
  \/ \E r \in Requests, f \in Calendar, l \in Calendar : createRequest(r, f, l)
  \/ \E s \in Sessions, r \in Requests : decideRead(s, r) \/ cancelRead(s, r)
  \/ \E s \in Sessions : decideApprovals(s) \/ Commit(s) \/ rollback(s)
  \/ \E d \in EventDays : punch(d) \/ linkRecord(d)

Spec == Init /\ [][Next]_vars

-----------------------------------------------------------------------------
(* Properties. *)

RequestType ==
  [status: Statuses, first: Calendar, last: Calendar, days: Nat,
   approvals: [Steps -> Verdicts]]

BalanceType ==
  [accrued: Nat, adjusted: Int, available: Nat, reserved: Nat, used: Nat]

DayType ==
  [status: {"NONE", "PRESENT", "ON_LEAVE"}, punched: BOOLEAN, linked: BOOLEAN]

TxType ==
  [op: {"none", "decide", "cancel"}, req: Requests \cup {NoRequest},
   step: 0..NSteps, seen: {"NONE", "PENDING", "APPROVED"}]

(* The columns hold what the schema lets them hold. *)
TypeOK ==
  /\ req \in [Requests -> RequestType]
  /\ bal \in [Periods -> BalanceType]
  /\ opened \subseteq Periods
  /\ ledger \in [Requests -> [RowTypes -> Nat]]
  /\ day \in [Calendar -> DayType]
  /\ tx \in [Sessions -> TxType]
  /\ contended \subseteq Requests

(* The balance is the abstract leave account, whatever handlers overlap:   *)
(* every handler moves days between available, reserved and used of one    *)
(* leave year and none of them loses or invents a day.                     *)
Entitled == [p \in Periods |-> bal[p].accrued + bal[p].adjusted]
Held     == [p \in Periods |-> bal[p].reserved]
Spent    == [p \in Periods |-> bal[p].used]
Free     == [p \in Periods |-> bal[p].available]

Account == INSTANCE LeaveAccount
  WITH entitled <- Entitled, held <- Held, spent <- Spent, free <- Free

ImplementsAccount == Account!Spec

(* The entitlement of every leave year is fully accounted for. *)
EntitlementConserved == Account!Balanced

(* The rows a request's history must have left in the ledger. *)
Rows(reserved, released, used, reversed) ==
  [t \in RowTypes |-> CASE t = "RESERVATION" -> reserved
                        [] t = "RELEASE"     -> released
                        [] t = "USAGE"       -> used
                        [] t = "REVERSAL"    -> reversed]

Story(r) ==
  CASE req[r].status = "NONE"      -> ledger[r] = NoRows
    [] req[r].status = "PENDING"   -> ledger[r] = Rows(1, 0, 0, 0)
    [] req[r].status = "APPROVED"  -> ledger[r] = Rows(1, 0, 1, 0)
    [] req[r].status = "REJECTED"  -> ledger[r] = Rows(1, 1, 0, 0)
    [] req[r].status = "CANCELLED" -> ledger[r] \in {Rows(1, 1, 0, 0),
                                                     Rows(1, 0, 1, 1)}

ExplainsBalance(p) ==
  LET charged == {r \in Requests : req[r].status # "NONE" /\ BalanceOf(r) = p}
      rows(t) == SumFunctionOnSet([r \in charged |-> ledger[r][t] * req[r].days], charged)
  IN /\ bal[p].reserved = rows("RESERVATION") - rows("RELEASE") - rows("USAGE")
     /\ bal[p].used = rows("USAGE") - rows("REVERSAL")

(* The ledger tells the balance: what is reserved and used in a leave year *)
(* is what the rows of its requests say, even when handlers race.  As long *)
(* as no two transactions worked on a request at once, its rows are those  *)
(* of its status: reserved once, then either released once, or used once   *)
(* and reversed at most once.                                              *)
LedgerTellsStory ==
  /\ \A p \in Periods : ExplainsBalance(p)
  /\ \A r \in Requests : r \notin contended => Story(r)

(* A recorded decision is never overwritten, whatever races: approvers     *)
(* acting on the same step at the same time cannot both be recorded.       *)
DecisionsAreFinal ==
  [][\A r \in Requests, k \in Steps :
       req[r].approvals[k] # "NONE" =>
         req'[r].approvals[k] = req[r].approvals[k]]_vars

(* Steps are decided in policy order, and an APPROVED request has a        *)
(* verdict on every step and approval on the last, whatever races.  As     *)
(* long as no two transactions worked on a request at once, nothing is     *)
(* decided after a refusal and every step of an APPROVED request approved. *)
(* (Otherwise decide may read a request that is still PENDING and then the *)
(* approvals of a refusal committed in between: it approves the next step, *)
(* and the request with it, after the refusal.)                            *)
PolicyFollowed ==
  \A r \in Requests :
    LET verdict  == req[r].approvals
        approved == req[r].status = "APPROVED"
    IN
    /\ \A k \in Steps : verdict[k] # "NONE" =>
         \A j \in 1..(k - 1) :
           verdict[j] # "NONE" /\ (r \notin contended => verdict[j] = "APPROVED")
    /\ approved => verdict[NSteps] = "APPROVED"
    /\ approved /\ r \notin contended => \A k \in Steps : verdict[k] = "APPROVED"

Overlap(r, q) == leaveDates(r) \cap leaveDates(q) # {}

(* The calendar shows approved leave and no ghost of another: a day that   *)
(* shows ON_LEAVE and nothing else belongs to an approved request, and     *)
(* every day of approved leave shows it, unless the employee worked it or  *)
(* another request was raised over it.  (Races excluded: see contended.)   *)
ApprovedLeaveOnCalendar ==
  contended = {} =>
    /\ \A d \in Calendar :
         day[d].status = "ON_LEAVE" /\ ~day[d].punched /\ ~day[d].linked =>
           \E r \in Requests : req[r].status = "APPROVED" /\ d \in leaveDates(r)
    /\ \A r \in Requests :
         /\ req[r].status = "APPROVED"
         /\ \A q \in Requests \ {r} : req[q].status # "NONE" => ~Overlap(r, q)
         => \A d \in leaveDates(r) : day[d].punched \/ day[d].status = "ON_LEAVE"

(* Days are reserved in the leave year of the start date, but decisions    *)
(* and cancellations look for a balance holding both ends: a request that  *)
(* crosses the year end keeps its reservation and can never be finished.   *)
(* (FR-26 of docs/chore/PRD.v1.md asks for every leave to be decided or    *)
(* cancelled; this is what the code does instead, see the README.)         *)
CrossYearRequestStaysPending ==
  \A r \in Requests :
    req[r].status # "NONE" /\ leavePeriod(req[r].first) # leavePeriod(req[r].last)
      => req[r].status = "PENDING" /\ ledger[r] = Rows(1, 0, 0, 0)

(* docs/development/WORKFORCE_APPROVALS_COMPLETION_PLAN.md: a cancellation *)
(* must "Release the reservation once".  It does not when two run at once. *)
ReleasedOnce == \A r \in Requests : ledger[r]["RELEASE"] <= 1
=============================================================================
