# SmarTeams: a verification development

SmarTeams is a multi-tenant workforce platform: a NestJS API (`src/apps/api`) over PostgreSQL
(Prisma, row-level security per tenant) and Redis queues (BullMQ), two web clients, and a
federation interface through which partner products read events and issue commands. This
directory holds TLA+ models of the parts of the API that move days and money or talk to a
partner, TLC configurations that check them on small instances, and TLAPS proofs of what
matters most for instances of any size.

Contents: [inventory](#1-inventory-of-the-system) ·
[how the code becomes a model](#2-how-the-code-becomes-a-model) ·
[modules](#3-the-modules) · [runs](#4-the-runs) · [fairness](#5-fairness) ·
[disagreements found](#6-where-the-code-and-its-documents-part) · [proofs](#7-the-proofs) ·
[not modelled](#8-what-is-not-modelled) · [plan](#9-plan)

To use it: `tlasany M.tla` parses a module, `tlc -workers 2 -config X.cfg M` runs a configuration
(the module of a configuration is listed in section 4), `tlapm M.tla` checks the proofs of a module;
those with proofs end in `Proofs`, besides `SumTheorems`. `PROJECT.json` is the index: for every
definition the lines it translates, for every property a mutation of the model it detects, and the
hazards the properties are aimed at.

## 1. Inventory of the system

Paths are relative to `src/apps/api/src/modules` unless they say otherwise.

| Component | State it keeps | Operations | Talks to | What is hard | What makes it correct |
|---|---|---|---|---|---|
| Leave requests and balances (`leave/`) | `leave_requests`, `leave_approvals`, `leave_balances`, `leave_balance_transactions` | provision, adjust, request, decide a step, cancel | attendance calendar; marks payroll stale; events | decide and cancel act on unlocked readings, decide on two that need not agree; two leave years; overlapping requests | no day is lost; the ledger explains the balance; decisions follow the policy and are final; calendar agrees with requests |
| Payroll runs (`payroll/payroll-runs`, `-calculation`, `-staleness`) | `payroll_runs`, line items, adjustments, payslips | create, calculate, advance (approve, release, lock, void), adjust, correct; mark stale | reads leave, time, salaries, advances | a calculation reads dozens of unlocked tables; inputs change meanwhile; optimistic readings in adjust and correct | figures are current or marked stale; paid figures are frozen; one replacement per corrected run |
| Payments and salary advances (`payroll/payroll-advances`) | `salary_payments`, `salary_advances`, `salary_advance_recoveries` | request, decide, recover and unwind during a calculation, record a payment | payroll runs | recovery is read early and written late; recalculation undoes an earlier recovery | never recover more than was advanced, or than the net pay; rows explain amounts |
| Payroll arithmetic and statutory rules (`payroll-line-calculator`, `-component-rules`, `-statutory`) | none | compute a line from policies and inputs | called by calculate and preview | decimal rounding, proration, slabs | totals agree with components |
| Payroll settings, preview, payslip files | effective-dated rows; files | edit; read-only projections | inputs of payroll | effective dates | - |
| Outbox and webhooks (`federation/outbox`, `webhook`) | `outbox_events`, `webhook_subscriptions`, `webhook_deliveries`, `webhook_delivery_attempts`; queue jobs | append, dispatch, deliver, retry, dead-letter, replay, pull by cursor | every domain service; partners | at-least-once queue, process death between any two awaits, lost answers, a retry job that cannot be added, replay in between; the pull cursor orders by a time stamped before the commit | an attempt is sent once; what is recorded is true; deliveries are attempted; pages come in order and pass over nothing |
| Federation idempotency (`federation/federation-idempotency`) | `federation_idempotency_records` | run once per key: create, replay answer, claim after failure, complete | wraps federation commands | concurrent retries, failure after the effect, death while running | one effect, one answer |
| Federation authentication, grants, rate limits | clients, grants, tokens | issue, verify, revoke | every federation call | cached authorisation against revocation | a revoked grant stops working |
| Federated employees and approvals | identity links | translate to native services | native services | - | - |
| Timesheets (`timesheets/`) | periods, timesheets, entries, approvals | derive, enter time, submit, recall, decide | attendance, leave, payroll | recalls, entries and decisions act on unlocked readings; derivation resets sheets meanwhile; approvals outlive a submission | hours are approved by whom the policy names, and payroll pays those; totals are the sum of entries |
| Attendance punches (`attendance/attendance-punch`) | `attendance_punches`, `attendance_records` | punch in and out, totals and status of the day | leave calendar, timesheets, payroll staleness | punches stated for another time; punches beside decisions | the record adds up to the punches, and a check-out ends an open session |
| Corrections, missing and automatic check-outs (`attendance-corrections`, `attendance-auto-checkout`) | `attendance_corrections`, `attendance_approvals` | request a correction or a check-out, sweep open days, decide step by step | punches; approval policy | decided on unlocked readings of the correction, then of its approvals and punches; form and sweep look for each other before inserting | a correction has every step's approval, is applied once, and to the day it was meant for |
| Optional holidays (`holidays/employee-holidays`, `attendance-holiday-conflict`) | selections, `attendance_holiday_reviews` | select, cancel, explain a check-in, keep or convert | punches | selection, review and punches change beside one another | no day is a holiday and work |
| WebAuthn for attendance | challenges, credentials | enrol, assert | attendance punch | single use of a challenge | no challenge is used twice |
| Approvals (`approvals/`) | approval policies | resolve policy and approver | leave, timesheets, corrections | - | the right person decides |
| Sessions, login, reset (`auth/`) | sessions, refresh tokens, lockout | login, rotate, reset | every call | token reuse in parallel | a rotated token is dead |
| Employees, organizations, shifts, holidays, roles, compliance, platform | master data | record keeping | inputs of the rest | status changes against work in flight | - |
| Tenant database access (`infrastructure/database`) | none | one transaction per handler, tenant set per transaction | everything | isolation level; tenant leakage | every statement runs in its tenant |
| Web clients, UI packages, scripts | none of consequence | - | the API | - | - |

How they interact: a handler is a single database transaction, so components meet in shared tables,
not in messages. Leave decisions write the attendance calendar and mark payroll runs stale; payroll
reads leave, time and advances and writes back advances; a domain transaction may append an outbox
event, which the dispatcher turns into deliveries after the commit; partners come back through
federation commands, guarded by idempotency keys, and page through the same events by cursor. Only
the webhook path is asynchronous; elsewhere the concurrency is that of API requests on PostgreSQL at
READ COMMITTED.

## 2. How the code becomes a model

* **Transactions.** `TenantDatabaseService` runs a handler in one transaction at PostgreSQL's
  default isolation. A handler that locks what it reads (`FOR UPDATE`), or repeats its
  condition in the `WHERE` of its update, is one action. A handler that reads without a lock
  and writes later is two: a *read* action that leaves an open transaction in `tx` (or `calc`,
  `worker`, `call`), and a *write* action with all its writes, which commit together. Prisma loads
  an `include` with queries of its own (the schema does not turn on `relationJoins`), and at READ
  COMMITTED each sees what is committed by then: the three `decide` handlers, whose guards combine a
  row with its approvals, have a read action for each of the two. Row locks
  that matter between the two are a variable (`lock` in `PayrollRun`). Any open transaction may
  roll back: that is a failed guard, constraint or authorisation, a timeout, or the death of the
  process.
* **Constraints of the schema** (unique keys, CHECKs) are guards of the write, since a statement
  that breaks them aborts the transaction.
* **Where there is no transaction** (webhook delivery, idempotency) every awaited database
  access or call is a step of its own and the process may die between any two.
* **Data.** Employees, tenants and leave types are fixed: one employee and one leave type, one
  pay period (`PayrollRun`), one employee's advances, one idempotency key. None of these
  components compares rows of two such subjects. Days, months and amounts are small integers;
  payroll figures are represented by *which* inputs they were computed from, which is what
  staleness is about. Who may decide a step is a guard that can fail (roll back).
* **History variables** only remember; no action's guard reads them. `contended`, `raced` and
  `contested` hold the requests, runs or corrections that two transactions worked on at once,
  `overlapped` that two calculations did, `unwound` the advances a recalculation undid, `unrecorded`
  that an effect could not be recorded, `overwritten` the deliveries an old failure was written
  over, `overtaken` and `carried` that a timesheet handler wrote on an outdated reading and that a
  submission found earlier approvals, `sent` and `heard` what reached the partner, `late` the events
  that committed after a page had gone past them. A property that holds only without such an overlap
  says so in its antecedent; what happens with the overlap is then the subject of a *violation* run.
  The properties that do hold under every overlap carry no antecedent.
* **Bounds** (`MaxAdjusted`, `EventDays`, `MaxInputs`, `MaxTerms`, `MaxAdjustments`, `MaxFaults`,
  `MaxReplays`, `LastDay`, `MaxTime`, `MaxPunches`, `MaxCorrections`, `Stated`) appear in guards
  or in the ranges of inputs, are named as bounds where they are declared, and are parameters of
  the theorems. One run has a state constraint besides, `MCBound` in `MCAttendanceDay`: what
  competes for the day at once is two corrections, raised or about to be, and a decision of each; or
  two decisions of its one correction; or, with an optional holiday, one of each. It looks at
  `contested` to tell these apart, and only there does a history variable restrict a run.
* A definition introduced as *Mutant of X* is not used by the specification. It is what X would
  be after a plausible mistake, and shows that a property notices it.

## 3. The modules

**`LeaveAccount`** is what a leave balance promises: days are free, held or spent, and only
granting changes how many there are. **`Leave`** is the workflow that implements it.

| `Leave` | code |
|---|---|
| `req` with its `approvals` | `leave_requests`, `leave_approvals` (unique per request and step) |
| `bal`, `opened` | `leave_balances` per leave year; which rows exist |
| `ledger` | `leave_balance_transactions`, counted per request and type |
| `day` | `attendance_records`: status, has punches, is linked to a timesheet or correction |
| `provisionBalance`, `adjustBalance` | `leave-balance-ops.ts`, `leave-balances.service.ts` |
| `createRequest` | `leave-requests.service.ts`: provisioning of the start date's year, insert, conditional reservation |
| `decideRead`, `decideApprovals`, `approveStep`, `approveFinal`, `reject` | `decide` in `leave-decisions.service.ts`: the request, then its approvals, both without a lock; the writes, with `markLeaveDaysOnAttendance` |
| `cancelRead`, `cancelPending`, `cancelApproved` | `cancel`, with `clearLeaveDaysOnAttendance` |
| `punch`, `linkRecord` | attendance and timesheets as far as the calendar sees them |

**`PayrollLifecycle`** is what the runs of a period promise whoever works on them: figures
are settled by calculations, frozen by approval, and a released run leaves only by being
superseded, in one step, by a draft that corrects it. **`PayrollRun`** implements it.

| `PayrollRun` | code |
|---|---|
| `run` | `payroll_runs`: status, `calculationStaleAt`, correction link, what the lines were computed from, whether payslips exist |
| `inputs`, `terms`, `adjusted`, `paid` | committed changes of inputs whose handlers mark runs, and of those whose handlers do not; adjustments; payments recorded as paid |
| `lock`, `tx` | row locks held, and what each open transaction has read |
| `createRun`, `advance`, `addAdjustmentRead/Write`, `correctRead/Write` | `payroll-runs.service.ts` |
| `calculateRead`, `calculateWrite` | `payroll-calculation.service.ts`: lock and guards first, then unlocked reading; the rewriting of all lines |
| `changeMark`, `changeCommit` | any domain handler that calls `markPayrollStale` (leave, attendance, timesheets, compensation, policies, statutory rules, component assignments): the mark, then the commit |
| `updateComponent` | `payroll-components.service.ts`, and `updateCalendar` in `payroll-calendar.service.ts`: change what a calculation reads and mark nothing |
| `markPaymentPaidRead/Write` | `payroll-advances.service.ts` |

**`TimesheetCycle`** is one employee's sheet of one period, and the run that pays for it.

| `TimesheetCycle` | code |
|---|---|
| `sheet`, `entries` | `timesheets` (status and `totalMinutes`); `timesheet_entries`, attendance and manual minutes |
| `approval` | `timesheet_approvals`, one row per approver, with the hours the approver saw (history) |
| `payroll` | the period's run until it is approved: calculated from which hours, stale or not |
| `derive` | `timesheet-periods.service.ts`: one step, since its first write locks the sheet |
| `addManualEntryRead/Write` | `timesheet-entries.service.ts`, with the provisioning of a missing sheet |
| `submitRead/Write`, `unsubmitRead/Write`, `decideRead`, `decideApprovals`, `decideWrite` | `timesheet-lifecycle.service.ts`; submit looks at the status again under a lock, the others do not; decide reads the sheet, then its approvals |
| `calculate` | the guard and the reading of timesheets in `payroll-calculation.service.ts`; one step, because what overlaps a calculation is the subject of `PayrollRun` |

The period stands for one work day (the daily limit is per day), the policy stays the same, and
its approvers are other people than the employee (a partner's decisions, which may be the
employee's own, are not modelled).

**`AdvanceRecovery`** is one employee's advances over the runs of several periods:
`requestAdvance`, `approveAdvance`, `refuseAdvance`; `calculateRead` takes the copy of the
advances the code reads before it unwinds, `calculateWrite` computes the recoveries from that
copy (`allocateAdvanceRecovery`, oldest first, from the net pay that is left), and writes
absolute amounts. `inputChange` and `advanceRun` decide which runs can be calculated again.
`APPROVED` stands for released and locked too: advances cannot tell them apart. `run` and
`calculate` are shared with `PayrollRun`; the two modules look at disjoint data of the same
transaction, and repeating the guards keeps each small enough to check.

**`DeliveryAttempts`** is what delivery promises without jobs, queues and deaths: the attempts at
a delivery are numbered in turn and made one at a time, each calls the partner at most once, an
outcome is that of a call, and a delivery that has one is not attempted until it is opened again;
an old failure may be said once more over whatever came after it (`Overwrite`).
**`WebhookDelivery`** implements it, with a dead-lettered delivery as one still open (its first
worker may be sending while a second one rejects it), and
follows an event from the domain transaction to the partner: `append`;
`dispatchCommit` and `dispatchEnqueue` (the transaction, and the jobs added after it);
`deliverRead`, `deliverReject`, `deliverStart`, `deliverSend`, `deliverSucceeded` /
`deliverFailed`, `deliverRetry`, one per awaited step of `deliver`; `replayDelivery`,
`subscribe`, `revoke`. BullMQ is external: job ids are unique among waiting jobs, finished jobs
are removed, the job of a worker that died or stalled is handed out again or dropped (`crash`,
`stall`). `dispatchFails` and `dispatchOverlaps` are a dispatcher that dies after its commit
and one in another process that has read the same events. The partner may accept, refuse, or
accept while its answer is lost; recording the answer may fail (`recordFails`). After a refusal the
retry job is added inside the `try`, so when the queue throws, the catch clause records the failure a
second time, unconditionally, and adds the job again (`retryFails`); a delivery that this takes an
outcome from is in `overwritten` until a worker records one again.

**`IdempotentKey`** is what a key promises the partner: the first call decides which request it
stands for; that request takes effect once, or again after a success that went unrecorded; and a
call is answered only if it carried that request, with one of its effects.
**`FederationIdempotency`** implements it, call by call: `create` (unique insert), `readRecord`,
`claim` (an update that matches FAILED only), `operate` and its two ways of failing (with and
without effect), `save`, `saveFails`, `undo` (the catch clause), `crash`, `expire`.

**`OutboxReplay`** is the event stream a partner pages through. An event is inserted and stamped
by `append` in the transaction of what it reports (`outbox.service.ts`) and visible from its
`commit`; `rollback` and `tick` complete that side. `replay` reads a page after the cursor
(`webhook.service.ts`, ordered by `createdAt` and id, compared with `After`). The partner is
external: it takes a page in (`receive`), loses one (`loseAnswer`), or starts over without a
cursor (`startOver`). Stamps are milliseconds, since that is what the client writes and what a
cursor can hold.

**`FederationExchange`** composes the two: a partner that issues commands under one key and follows
the stream those commands write to, among everybody else's events. They meet in the operation.
`begin` is its transaction with the event in it; `takesEffect` is `operate` (or `operateBreaks`) and
the event's `commit` in one step. Not every command has an event: the requests in `Silent` (a
constant; which endpoints they are, section 6 says) take effect without one, and do no `begin`;
`ends` is a failure or a death and the rollback of what was open; `keyed` are the other steps of the
key, `others` everybody else.

**`AttendanceDay`** is one employee's attendance on one day, with the next day's first punch.

| `AttendanceDay` | code |
|---|---|
| `punches`, `record` | `attendance_punches` in order of creation; `attendance_records` (status, worked time) |
| `correction` | `attendance_corrections` with their `attendance_approvals` (unique per correction and step) |
| `granted`, `reviewing`, `outcome` | the optional holiday's selection; its pending review; the last decided one |
| `contested` | history: the corrections two decisions worked on at once |
| `decider`, `requester` | what an open decision has read; what a proposal of a check-out has found |
| `punch`, `punchNextDay` | `attendance-punch.service.ts`: the record is locked first, so one step; totals as in `attendanceTotals` |
| `requestCorrection`, `requestMissingCheckOut` | `attendance-corrections.service.ts` |
| `sweep`, `closeDay`, `createCheckOut` | `attendance-auto-checkout.service.ts`: the reading of open days, and a transaction per day |
| `decideRead`, `decideApprovals`, `decide`, `decideMove`, `decideCheckOut`, `decideRefused` | `decideCorrection`: the correction, then its approvals and punches, read without a lock; a refusal or an earlier step; the final approval of moved punches; of a check-out, which locks and reads the punches again; the roll back |
| `requestReview`, `keepHoliday`, `convertToWorkingDay`, `closeReview` | `attendance-holiday-conflict.ts`; `attendance-holiday-review.service.ts`, under locks |
| `selectHoliday`, `cancelSelection` | `employee-holidays.service.ts` |

The modules `MC...` instantiate these with model values, and symmetry where values are alike.
`XProofs` holds the theorems about `X`, for `Leave`, `PayrollRun`, `TimesheetCycle`,
`AdvanceRecovery`, `WebhookDelivery`, `FederationExchange` (with its parts, `FederationIdempotency`
and `OutboxReplay`) and `AttendanceDay`. `SumTheorems` has the lemmas about sums over finite sets
that the proofs about the ledger and the advances cite.

## 4. The runs

| Run | Configuration (module) | Question and answer | States |
|---|---|---|---|
| leave | `MCLeave.cfg` (`MCLeave`) | Do balances, ledger, approvals and calendar stay consistent whatever handlers of two requests overlap? Yes; the ledger's one-row-per-event story, the calendar, and that nothing follows a refusal, only where no two transactions worked on one request. | 451,140 |
| leave_cancel_race | `MCLeaveCancelRace.cfg` (`MCLeave`) | Is a reservation released once? **No**, when two handlers of one request overlap. | violation |
| payroll | `MCPayrollRun.cfg` (`MCPayrollRun`) | Do the runs of a period follow their lifecycle, and do their figures stay current or say that they are not? Yes, outside overlaps, as to the inputs whose handlers mark runs; not as to the others (section 6). | 1,131,654 |
| payroll_stale | `MCPayrollStale.cfg` (`MCPayrollRun`) | Does every change after a calculation mark the run? **No**, when it overlaps the calculation. | violation |
| timesheets | `MCTimesheetCycle.cfg` (`MCTimesheetCycle`) | Are the hours of an approved sheet those its approvers saw, step by step, and those payroll pays? Yes, in a first submission where no handler overtook another; totals and frozen hours always. | 1,117,716 |
| timesheet_resubmitted | `MCTimesheetStep.cfg` (`MCTimesheetCycle`) | Was every step of an approved sheet approved since its last submission? **No**, and nothing has to overlap. | violation |
| advances | `MCAdvanceRecovery.cfg` (`MCAdvanceRecovery`) | Is no more recovered than was advanced, or than the net pay? Yes; the amount recovered agrees with its rows until a recalculation unwinds them. | 421,718 |
| advance_recalculated | `MCAdvanceRecalculated.cfg` (`MCAdvanceRecovery`) | Is a recovery reversed on recalculation? **No**, and nothing has to overlap. | violation |
| webhooks | `MCWebhookDelivery.cfg` (`MCWebhookDelivery`) | With crashes, stalls, duplicated jobs and replays, is each numbered attempt sent once, is what is recorded true, do attempts follow one another, is each delivery attempted? Yes, except that a failing retry may write an old failure over a later outcome. | 18,764 |
| webhook_retry | `MCWebhookRetry.cfg` (`MCWebhookDelivery`) | Is a failed delivery retried? **No**. | violation |
| federation_exchange | `MCFederationExchange.cfg` (`MCFederationExchange`) | Do calls that share a key take effect once and agree on the answer, and does the partner's stream tell it of that effect, in order? Yes, for a request that has an event, unless a success could not be recorded or an event committed late. | 1,520,311 |
| attendance_day | `MCAttendanceDay.cfg` (`MCAttendanceDay`) | Do punches, corrections, proposed check-outs and the optional holiday stay consistent when decisions, forms, the sweep and punches overlap? Yes, and a correction has every step's approval unless two decisions of it overlapped; the totals of a CORRECTED day are not among the claims. | 255,774 |

What the properties say is written above each of them in the modules. The ones that took
thought:

* `ImplementsAccount` (leave): every interleaving of handlers, races included, is a movement of
  the abstract account. The races that exist (next section) take days from the *wrong* request,
  but never lose one; the first half of `LedgerTellsStory` says the same of the ledger, without
  any exemption.
* `LedgerTellsStory` (its second half), `ApprovedLeaveOnCalendar`: what one request's history leaves
  behind, for requests no two transactions worked on at once: one reservation, released or used
  once; its days on the calendar exactly while it is approved.
* `PolicyFollowed` (leave), `ApprovedByEveryStep` (attendance): what the two separate readings leave of
  the policy. Under every overlap the steps are decided in order, an approval rests on a verdict of
  every step and on approval of the last, and the unique key on (request or correction, step) makes
  one of two rival verdicts lose. That an *earlier* verdict was no refusal holds while no two
  transactions work on the request, or decisions on the correction, at once.
* `FiguresCurrent`, `StaleIsCalculable`: outside overlaps, an unmarked calculated run shows the
  current adjustments and the current inputs of those whose handlers mark runs, and a marked run can
  still be calculated. Nothing is said of the terms whose handlers mark nothing.
* `ImplementsLifecycle`: holds under every overlap; `correct` writes a status on the strength of
  an unlocked reading, and it is the unique key on the correction link that keeps it legal.
  Two runs show that a run is superseded together with its replacement; that overlapping
  corrections leave one replacement (`OneReplacement`) needs three, and is proved for any number.
* `ApprovedHoursFrozen` (timesheets): holds although a manual entry that read the sheet before
  its approval commits after it, because the entry puts the sheet back in draft.
* `NeverOverRecovered`: what is recovered stays within the advance, and an advance is RECOVERED
  exactly when all of it is, even when two calculations overwrite each other's amounts.
* `ImplementsAttempts`, `AttemptSentOnce`: the unique key on (delivery, attempt number) and the
  count written with each outcome are enough to make attempts follow one another, against a job
  handed out twice and a replay request in the middle of a call. The failure a worker records a second
  time, when its retry job cannot be added, is the one outcome that is not tied to a call of its own.
* `DeliveredWasHeard`: a second worker that read the delivery as pending may still dead-letter it
  after the first one delivered it (`deliverReject`), but cannot record as delivered what the
  partner did not accept.
* `ImplementsKey`: whatever calls race to create or to claim the record, fail in the middle or
  die, the partner can tell no step of theirs from one of the abstract key. It says what `EffectOnce`
  and `AnswersAgree` leave open: what becomes of the key *after* a success went unrecorded. Its
  request may take effect again, but what it stands for never changes, and no answer is made up.
* `StreamTellsEffects`: of a request that has an event, the stream has one per effect, so one in all
  however often the partner retried, and the effect of every answered call; of another it has none,
  although its calls are answered. It needs both parts: the key
  for the number of effects, the shared transaction for the event.
* `ReplayedInOrder` and `OnlyLateMissed` are stated over the pages the partner *has*, so a lost
  answer, a page that ends inside a millisecond and a fresh start are all inside them.
* `AddedCheckOutClosesDay`: the decision reads the day early, and the form and the sweep may both
  have proposed a check-out; it is the second reading, under the lock, that keeps the addition
  right.
* `NeverHolidayAndWork`: a kept holiday that is worked on again becomes an open conflict again.

**Bounds, and why they are enough.** Two sessions (workers) are the fewest that overlap, and the
properties speak of pairs; a third adds nothing a guard of the code can see, since handlers see each
other only through rows. Two requests can share a balance and overlap in dates; three calendar days
are two work days of one leave year and a day off in the next, so that requests can overlap, touch,
contain a free day and cross the year end; two approval steps give a first and a final one, and an
order. Two payroll runs are an original and its correction, or two originals; one change that marks
runs and one that does not, besides an adjustment, let a change fall before, in and after a
calculation (the violation run has two that mark). Two advances and two runs, net pay that is
negative or covers one advance and a part of the other, and a first period whose salary date lies
after its end. A timesheet has two steps, the second with two approvers (so that two may decide it
at once), and a day of one unit, so that attendance and manual entries share it and pass its limit.
Two attempts have a first, a last and a retry between; two faults of a delivery let one happen while
recovering from another; two replays likewise. Three calls of one key are a runner, a concurrent one
and a retry, with two bodies, one of which has no event, and one fault breaks any one of their steps
(the proofs hold for any number of faults); their events and one of somebody else, over two
milliseconds, make pages of two that end inside a millisecond, and events that commit on either side
of a page. A day of two instants and the first of the next has a check-in, a check-out before and
after the cutoff, a correction that swaps their order and one that reaches past the day; three
punches are a session and the start of another; two corrections can be decided in either order, and
two steps, deciders and requesters as above. People state one time there (`Stated`), which is the
one that can lie on either side of `now`. Symmetry is used only in runs without liveness. Deadlock
is checked for timesheets, which can always be derived again; elsewhere a bounded instance
legitimately comes to rest (all requests decided, all faults spent).

## 5. Fairness

Only `WebhookDelivery` states fairness. The dispatcher is weakly fair: it is a repeatable job
that runs every five seconds. A worker's steps are weakly fair: an `await` returns, or the
worker crashes, which is a fault of its own. Taking a given job is strongly fair, because the
queue hands jobs out in order and workers become free again and again. Nobody has to append an event,
subscribe, request a replay or crash. `FirstAttemptMade` excuses runs with a fault: a
dispatcher that dies after its commit leaves events READY without a job, and nothing in the
code makes up for it. The violation of `FailedIsRetried` needs no fault at all.

## 6. Where the code and its documents part

Each of these is a *violation* run: TLC finds a behaviour of the code, as modelled, that
contradicts a sentence of the repository.

1. **A cancelled reservation is released twice** (`leave-decisions.service.ts:165`). `cancel`
   reads the request without a lock and writes `CANCELLED` unconditionally. Two cancellations,
   or a cancellation and a decision, each release the reservation; the second release takes days
   that other requests of the year have reserved.
2. **A change during a calculation is lost** (`payroll-staleness.ts:30`). Marking looks for runs
   that are CALCULATED; a run that is being calculated for the first time is still DRAFT, and a
   recalculation clears the mark of a change whose effect it has not read.
3. **A recalculation does not reverse its recoveries** (`payroll-calculation.service.ts:238`). The
   advances are read before the previous recoveries are unwound: a fully recovered one is not
   among them and is released without being recovered again; a partly recovered one is written
   back with the old amount included.
4. **Approvals outlive their cycle** (`timesheet-lifecycle.service.ts:200`). `decide` takes any
   approval row for a decided step, whatever its verdict, and neither a recall nor a manual
   entry deletes the rows, as a derivation does. A sheet rejected at the first step, edited and
   submitted again is approved by the second step alone; when every step has a row, no approver
   is checked, and a policy of several steps starts again at "more steps", so that the sheet
   cannot be approved until it is derived.
5. **A failed webhook delivery is never retried** (`webhook.service.ts:175`). The retry job
   finds the status FAILED, which `deliver` ignores.

Met while modelling, without a run of their own. Each is in the model as it is in the code, and a
property that would fail because of it names it as an exemption (the history variables of section 2)
or does not speak of it:

* A leave across the leave year end can be requested and never approved, rejected or cancelled
  (`leave-requests.service.ts:249`): it is reserved in the start date's year, and decide and cancel
  look for a balance that holds both ends. FR-26 of `docs/chore/PRD.v1.md:128` asks for all three. The
  theorem `CrossYearStays` says what the code does, and no run certifies it as right.
* A step can be approved, and with it a leave or a correction, after an earlier step was refused
  (`leave-decisions.service.ts:45`, `attendance-corrections.service.ts:174`): the request is read as
  PENDING by one query and the refusal as a decided step by the next, and the verdict is then written
  unconditionally. A timesheet's decision reads in the same way (`timesheet-lifecycle.service.ts:167`).
  `contended` in `PolicyFollowed`, `contested` in `ApprovedByEveryStep`, `overtaken` in
  `ApprovedByPolicy`.
* Some inputs of a calculation change without marking the runs calculated from them, against
  `prisma/models/payroll.prisma:14` ("Set when an input changes after a run was calculated") and
  `verify-payroll-staleness.mjs:5`: the definition of a salary component
  (`payroll-components.service.ts:83`), the payroll calendar (`payroll-calendar.service.ts:88`),
  holidays (which `docs/backend-gaps.md:644` documents), and an advance approved after the period's
  end but before its salary date (`payroll-advances.service.ts:138` marks the runs from today on). No
  overlap is needed. `FiguresCurrent` is about the inputs that mark; the others are `terms` in
  `PayrollRun`.
* When the job that retries a delivery cannot be added, its failure is recorded again over whatever
  the delivery has become meanwhile, and its attempt count goes back
  (`webhook.service.ts:269-306`); the next replay then finds its attempt number taken until the count
  has caught up. `Overwrite` in `DeliveryAttempts`.
* Several commands run under an idempotency key and append no event: leave decisions and
  cancellations (`leave-decisions.service.ts:34-240`), subscribing (`webhook.service.ts:39`), asking for
  a replay (`webhook.service.ts:136`), and others whose operation has no `outbox.append`. FR-47
  (`docs/chore/PRD.v1.md:161`) names leave status changes among the events partners are sent. `Silent`
  in `StreamTellsEffects`.
* Two callers that record a payment at once both succeed, the later one over the first one's method and
  reference (`payroll-advances.service.ts:204`). `raced` in `PaidOnce`.
* An adjustment that read the run as editable and commits after its approval leaves an approved run
  stale, which can neither be calculated again nor released (`payroll-runs.service.ts:123`). `raced` in
  `StaleIsCalculable`.
* Voiding a calculated run leaves its recoveries on the advances (`payroll-runs.service.ts:260`). The
  documents promise a reversal for a recalculation only; `RowsExplainRecovered` counts those rows.
* Someone whom two steps of a policy name has one approval row per sheet
  (`prisma/models/operations.prisma:463`), so that their second decision is refused and the sheet stays
  submitted; the instance gives each step approvers of its own.

* An idempotent operation runs again when its success could not be recorded
  (`federation-idempotency.service.ts:94`): the catch clause covers the recording as well as the
  operation, against NFR-12 of `docs/chore/PRD.v1.md:196`. `unrecorded` in `EffectOnce`,
  `AnswersAgree` and `StreamTellsEffects`.
* An event that commits after a page with a later stamp was read is never on a page
  (`webhook.service.ts:111`), although the integration guide presents the cursor as the way to
  catch up. `late` in `OnlyLateMissed`.
* A form and a sweep that look for a pending check-out before either inserts its own leave two
  (`attendance-auto-checkout.service.ts:210`). No property forbids it; the second one can only be
  refused, which `AddedCheckOutClosesDay` implies.
* A CORRECTED day's worked time is that of the punches as read, not as they are when a punch came
  in between (`attendance-corrections.service.ts:265`). `UncorrectedDayAddsUp` leaves such days
  out.
* A holiday that was kept and whose selection is then cancelled leaves a day that is neither
  holiday nor work: the record stays REJECTED with no worked time.

## 7. The proofs

TLAPS checks every proof to its leaves. Nothing is assumed but the named assumptions on constants
(`LeaveAssumption`, `PayrollAssumption`, `TimesheetAssumption`, `RecoveryAssumption`,
`DeliveryAssumption`, `IdempotencyAssumption`, `ReplayAssumption`, `AttendanceAssumption`), which
say that constants have their types, and `ExchangeAssumption`, that a call has the number of an event
it may write and that requests without one are requests;
TLC evaluates them. `LeaveAssumption` and `RecoveryAssumption` also say that there are finitely
many requests and runs, as a table has finitely many rows: their amounts are added up. Every
theorem holds for any value of the constants: any number of requests, runs, approvers, workers,
calls, events, and any bounds.

Every property of a passing run is a theorem as well, `FirstAttemptMade` excepted.

**How sums and folds are proved about.** Induction theorems that take a predicate cannot be used
here, so an induction is written as the search for a least counterexample: the least number, or a
minimal subset of a finite set, for which the claim fails, cannot exist (`LeastNumber`,
`SmallestSet`). `SumTheorems` shows in this way that the recursive function behind
`SumFunctionOnSet` is well defined, that the order of the summands does not matter
(`SumWithout`), and what a changed summand does to a sum (`SumChanged`); `LeftDef` does the same
for `Available` and `TotalSteps` for the fold that totals a day's punches.

**Leave** (`LeaveProofs`): `TypeCorrect` (`[]TypeOK`), `Conservation` (`[]EntitlementConserved`),
`PolicyIsFollowed`, `DecisionsFinal`, `CrossYearStays`, `LedgerTells` (`[]LedgerTellsStory`),
`CalendarShowsLeave` and `ImplementsTheAccount` (`ImplementsAccount`). None of the formulas is
inductive alone. `AccountInv` adds that a raised request has at least one day (or a release of
"days" could be anything), that an open transaction works on a raised request and on a step of the
policy, and that a leave year without a balance row is empty (or opening it would discard days). The
lemma `MovesKeepBalance` is the heart: reserving, releasing, using and reversing keep the total, and
what the CHECK constraint lets pass is a well-formed row. `PolicyInv` adds what makes approvals
follow the policy although decisions are taken on old readings: whoever is about to decide a step
has read a verdict on every earlier one, and verdicts are never taken back (`TxInTurn`, from the
unique key), and an unraised request is blank. That no earlier verdict is a refusal is the half for
requests outside `contended` (`CalmVerdicts`): it needs that what such a request's one transaction
has read, by either query, is still so. `CalmRequests` is about requests outside `contended`: the
one transaction that works on such a request finds the status it has read, and so adds the row that
continues its story; while all requests are calm, marking and clearing keep the calendar right,
since only an approved request is cleared and nobody else's approved leave hangs on a day it shares.
`LedgerExplains` is the ledger's half that holds under every race: a commit moves the days of its
request between held and spent exactly as the one row it posts says (`CommitMoves`), and posting a
row changes what the rows of the request's year book by its days and those of the other year by
nothing (`BookedPosted`, from `SumChanged`). The refinement goes move by move: `MoveImplements`,
`GrantImplements` and `CreateImplements` show that a write of the workflow, read through `Entitled`,
`Held`, `Spent` and `Free`, is one move of the account.

**Payroll** (`PayrollRunProofs`): `TypeCorrect`, `RowsAreProtected` (`[]LocksProtect`: what a
transaction that holds a run's row has found stays true until it ends, although adjustments,
corrections and input changes write without having locked first), `ReplacedOnce`,
`OnlyReleasedRunsPay` (`[]PaidOnlyAfterRelease`), `FollowsLifecycle`, and, for runs no two
transactions worked on at once, `FiguresAreCurrent`, `StaleRunsCalculable` and
`PaymentRecordedOnce`. `RunInv` is the conjunction of the first four with two facts: an open
transaction works on a run that was created, corrections and payments on one that was released,
and a calculation has figures (`WorkInProgress`); a run that was not created has nothing
(`Uncreated`). The parts need each other: a released run is not calculated again because a
calculation's run is still calculable under its lock; a superseded run is not superseded again
because of the unique key *and* because `OneReplacement` held before. `BeginStep`, `EndStep` and
`AloneStep` say once what beginning, ending and stepping beside transactions does to locks; one
lemma per operation does the rest, and the same effects, read through the refinement mapping, give
`StepImplements`. The three theorems about currency rest on a second invariant, `CalmRuns`, about
runs outside `raced`: at most one transaction works on such a run; a change that is in progress
has marked it if it was calculated; and what a calculation has read is still what is committed, but
for the terms nobody marks runs for.

**Timesheets** (`TimesheetCycleProofs`): `CycleTypeCorrect`, `TotalIsSum`, `HoursStayFrozen`,
`SheetFollowsPolicy` and `RunPaysApproved`. `CycleInv` says which steps the approval rows stand for:
a submitted sheet has the approvals of its first steps in turn, of the hours it has, and a step left
(`DecidedInTurn`), and a transaction nobody overtook still finds the status, the hours and the
pending step it read (`Fresh`); a decision has read them in two queries, and what the first one read
is only relied on while no handler was late. The antecedents `overtaken` and `carried` are what
section 6 (item 4) shows to be necessary.

**Advances** (`AdvanceRecoveryProofs`): `RecoveryTypeCorrect`, `NeverOverRecovers`,
`RecoveryCovered` (`[]RecoveryWithinNetPay`), `RowsExplain` and `ApprovedRecoveriesStay` (an
action property: a run that is approved or voided keeps what it recovered and its net pay).
`AdvanceInv` adds to the properties what a calculation in flight may rely on. The advance it read
told how much was recovered, as the committed one does (`StatusesTell`), and has the approved
amount it still has (`ApprovedForGood`), so what the calculation writes over the amounts of an
overlapping one still lies within the advance. When calculations never overlap, what it read is what is
committed (`ReadsHold`), and the run's new rows replace its old ones in the sum of all rows
(`RowReplaced`). That a run's recoveries are covered by its net pay is a fact about the
operators: with `Available` as the running remainder, the recoveries of the first advances and
what is left make up the net pay (`RecoveriesSoFar`).

**Webhooks** (`WebhookDeliveryProofs`): `DeliveryTypeCorrect`, `EachAttemptSentOnce`,
`OneCallAtATime` (`[]OneCallInFlight`), `DeliveredIsHeard`, `SettledIsNotRetried` and
`FollowsAttempts` (`ImplementsAttempts`), all under faults. In `DeliveryInv`, attempts are recorded
in turn and at most the next one has been begun (`InTurn`); a worker that is past `deliverStart` has
the last number that was taken (`WorkersInTurn`), and since a number is taken once, by the unique
key, two workers of one delivery cannot both be there; only an attempt that was begun has been sent
(`SentWasTried`); and a success that is or will be recorded was heard (`SuccessHeard`).
`SettledIsNotRetried` is the safe side of what section 6 (item 5) finds missing: no job, however
often the queue hands it out, makes the partner hear of a FAILED or DELIVERED delivery again before
an operator asks for it, unless its outcome is an old failure written over a later one
(`overwritten`; `Rests` says which deliveries are meant). It needs `SettledAtRest`: nobody is in the
middle of an attempt at such a delivery, and whoever is about to begin one will find its number
taken. The refinement uses both and `CallMade` (an outcome about to be recorded is that of a call);
a failure that is recorded once more either changes nothing or is the abstract `Overwrite`
(`AgainOverwrites`). `StartBegins` is its core: whoever begins an attempt finds all earlier numbers
taken, nobody at work and no outcome; `SendCalls` and `WorkerEnds` do the rest of an attempt, a
death in the middle of one is an end without outcome (`RestingEndsOrStutters`), and what rejects or
replays a delivery with an outcome opens it again (`StatusReopens`).

**Idempotency** (`FederationExchangeProofs`, first part): `TypeCorrect`, `KeyHasOneRunner`
(`[]OneRunner`), `TakesEffectOnce` (`[]EffectOnce`), `CallersAgree` (`[]AnswersAgree`) and
`FollowsKey` (`ImplementsKey`).
`KeyInv` strengthens them: whoever got past the record has
its body (`BodyMatches`); there is one holder, and while there is one the record is IN_PROGRESS,
or COMPLETED when saving failed after its commit (`KeyHeld`); what is or will be recorded is the
response of an effect (`RealResponse`); and whoever may still run the operation has found it
without effect (`FirstEffect`). The last is why effects are at most one: a FAILED record, unless
a success went unrecorded, means no effect, so claiming it is safe. The refinement needs one fact
more, that the record and the calls have bodies from the first on (`Bodied`). Most steps are
`Onward`: a call on its way that leaves the record's body alone, and so moves the abstract key only
by being answered (`OnwardAnswers`), by taking effect (`OperatingTakesEffect`) or by losing a
success (`SavingImplements`).

**The stream** (second part): `ReplayIsOrdered` and `ReplayMissesOnlyLate`. In
`StreamInv` the cursor stands between what was received and what is on its way
(`CursorBetween`), and what a page went past is on a page or was committed after it
(`OnlyLatePassed`).

**The exchange** (third part): `ExchangeRunsKey` and `ExchangeRunsStream` show that the composition
is a behaviour of each part, so that the parts' theorems hold of it (`ExchangeOneRunner`,
`ExchangeEffectOnce`, `ExchangeAnswersAgree`, `ExchangeFollowsKey`, `ExchangeIsOrdered`,
`ExchangeMissesOnlyLate`). `ExchangeTypeCorrect` and `StreamIsTold` are what neither part can say;
`ExchangeInv` adds that, for a request that has an event, the number of effects is the number of
committed events of calls, and that a key nobody has used yet has none (`NewKeyIsUnused`); the
record keeps its body (`RequestIsKept`), so a request stays of its kind.

**Attendance** (`AttendanceDayProofs`): `DayTypeCorrect`, `CorrectionsAreApproved`, `DayAddsUp`,
`DayIsWithinPunches`, `HolidayOrWork` and `CheckOutClosesDay`. `DayInv` carries the facts they
share: a decision writes on the approvals and punches it has read, or its step is taken and the
unique key refuses it (`ReadingHolds`), while the status it read before them may be outdated once
the correction is `contested`; a check-out that is proposed has a time; nothing is recorded, asked
for or reviewed on a day without a punch; and a REJECTED record has no worked time. `PunchesSorted`
says that the operator which puts punches in order (each takes the place that as many lie before it
as the place counts) leaves none out and repeats none. With it, `DayIsWithinPunches` shows that a
day nobody corrected never has more worked time than passed between its first and its last punch,
however they were entered or imported, and that a COMPLETED day does not end with a check-in.

**Model-checked only**: liveness, `FirstAttemptMade`. Fairness and ENABLED are out of this prover's
reach. The properties of the *violation* runs are false, and so have no proof.

## 8. What is not modelled

* *Payroll arithmetic*: deterministic and without state; unit tests cover it. The models record
  which inputs a figure came from, not its digits. Rounding is planned as operators over small
  inputs.
* *Authorisation, permissions, tenants*: who may call an operation appears as a guard that can
  fail. Row-level security and the tenant setting of a transaction are assumed to work.
* *Cryptography and I/O*: tokens, WebAuthn assertions, webhook signatures, PDF and file storage.
  An unsafe webhook URL is a choice of `deliverRead`.
* *Sessions, login, reset*: token rotation and lockout counters are an authentication path of
  single-row updates, left to security review.
* *Grants and rate limits of partners*: a call that reaches a command has been authorised; a
  revocation beside a running call is planned.
* *Attendance*: corrections that a geofence or biometric check raises (they have no approval
  policy, and `decideCorrection` always refuses them), corrections raised through the federation,
  organizations with a single session per day, the night-shift exemption of the sweep, and the
  day status a decision rewrites from its snapshot.
* *Optional holidays*: allowances, pools, withdrawal of a holiday from the calendar. A holiday is
  one that may be selected.
* *Master data* (employees, organizations, shifts, holidays, roles, compliance, platform):
  single-row updates that reach the modelled parts as inputs.
* *Web clients and shared UI packages*: no state that matters to the API.
* *More than one employee, leave type or key at a time*: no handler compares two, except that a
  payroll run spans employees; per run, its figures are one value.

Simplifications worth knowing: the dispatcher is one process, and a second is the fault
`dispatchOverlaps`; an approval policy is fixed while a request is open; leave periods are two
adjacent years; no two punches of a day are at one instant (the time of a punch has milliseconds);
an outbox event's stamp is the client's, to the millisecond; deadlocks of the database (two
transactions that lock two runs in opposite order) appear as rollbacks; a transaction that commits
although its caller is told it failed occurs in an idempotent operation only (`operateBreaks`); of
the two queries of a decision only the order in the code occurs.

## 9. Plan

Done: `LeaveAccount`, `Leave`, `PayrollLifecycle`, `PayrollRun`, `TimesheetCycle`,
`AdvanceRecovery`, `DeliveryAttempts`, `WebhookDelivery`, `IdempotentKey`, `FederationIdempotency`,
`OutboxReplay`, `FederationExchange`, `AttendanceDay`, and the proofs of every safety property their
runs check. Next, in this order:

1. Grants and their revocation against requests in flight.
2. The day a correction changes, composed with the sheet that derives it (`AttendanceDay` with
   `TimesheetCycle`).
3. Line arithmetic as pure operators against a reference definition.
