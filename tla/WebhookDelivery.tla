--------------------------- MODULE WebhookDelivery ---------------------------
(***************************************************************************)
(* From the transactional outbox to a partner's webhook:                   *)
(* apps/api/src/modules/federation, outbox.service.ts, outbox-dispatch and *)
(* webhook processors, webhook.service.ts.                                 *)
(*                                                                         *)
(* The dispatcher commits one transaction and adds the delivery jobs to    *)
(* the queue after it.  A worker reads the delivery, commits the attempt,  *)
(* calls the partner, records the outcome and adds the retry job: each of  *)
(* these is a step, and a worker may die between any two of them.  The     *)
(* queue (BullMQ) is external: jobs have an id, adding an id that is       *)
(* already waiting changes nothing, a finished job is removed, and the job *)
(* of a worker that died or fell silent is given to another worker or      *)
(* dropped.                                                                *)
(***************************************************************************)
EXTENDS Naturals, FiniteSets

CONSTANTS
  Events, Subscriptions,
  Workers,      \* concurrent executions of WebhookProcessor
  NoJob,
  MaxAttempts,  \* attempts after which a delivery is dead-lettered (8)
  MaxFaults,    \* bound of the model: crashes, stalls, failed calls, overlaps
  MaxReplays    \* bound of the model: replays an operator requests

Deliveries == Events \X Subscriptions
Attempts   == 1..MaxAttempts
Jobs       == Deliveries \X (1..(MaxAttempts + 1))

ASSUME DeliveryAssumption ==
  /\ NoJob \notin Jobs
  /\ MaxAttempts \in Nat \ {0}
  /\ MaxFaults \in Nat /\ MaxReplays \in Nat

VARIABLES
  event,       \* outbox_events
  active,      \* webhook_subscriptions that are ACTIVE
  delivery,    \* webhook_deliveries and their webhook_delivery_attempts
  dispatching, \* deliveries the dispatcher committed and has yet to enqueue
  queue,       \* jobs waiting, delayed ones included
  worker,      \* what each worker is doing
  sent,        \* history: calls made to the partner per attempt
  heard,       \* history: deliveries the partner has accepted
  overwritten, \* history: deliveries that are FAILED because an earlier
               \* attempt was recorded again over what came after it
  faults, replays

vars == <<event, active, delivery, dispatching, queue, worker, sent, heard,
          overwritten, faults, replays>>

NoRow  == [status |-> "NONE", attemptCount |-> 0, tried |-> {}]
Resting == [step |-> "idle", job |-> NoJob, attempt |-> 0, answer |-> "NONE"]

Init ==
  /\ event = [e \in Events |-> "NONE"]
  /\ active \in SUBSET Subscriptions
  /\ delivery = [d \in Deliveries |-> NoRow]
  /\ dispatching = {}
  /\ queue = {}
  /\ worker = [w \in Workers |-> Resting]
  /\ sent = [d \in Deliveries |-> [n \in Attempts |-> 0]]
  /\ heard = {} /\ overwritten = {}
  /\ faults = 0 /\ replays = 0

-----------------------------------------------------------------------------
(* A domain transaction commits together with the event it appended. *)
append(e) ==
  /\ event[e] = "NONE"
  /\ event' = [event EXCEPT ![e] = "PENDING"]
  /\ UNCHANGED <<active, delivery, dispatching, queue, worker, sent, heard,
                 overwritten, faults, replays>>

(* Subscribing again revives a subscription that was paused or revoked. *)
subscribe(s) ==
  /\ s \notin active
  /\ active' = active \cup {s}
  /\ UNCHANGED <<event, delivery, dispatching, queue, worker, sent, heard,
                 overwritten, faults, replays>>

revoke(s) ==
  /\ s \in active
  /\ active' = active \ {s}
  /\ UNCHANGED <<event, delivery, dispatching, queue, worker, sent, heard,
                 overwritten, faults, replays>>

(* dispatchPending: one delivery per event and active subscription. *)
Pending == {e \in Events : event[e] = "PENDING"}

dispatchCommit ==
  /\ dispatching = {} /\ Pending # {}
  /\ dispatching' = Pending \X active
  /\ delivery' = [d \in Deliveries |->
       IF d \in Pending \X active /\ delivery[d].status = "NONE"
         THEN [delivery[d] EXCEPT !.status = "PENDING"] ELSE delivery[d]]
  /\ event' = [e \in Events |-> IF e \in Pending THEN "READY" ELSE event[e]]
  /\ UNCHANGED <<active, queue, worker, sent, heard, overwritten, faults,
                 replays>>

(* Mutant of FirstJobs: no job is added. *)
NoJobs(ds) == {}

FirstJobs(ds) == ds \X {1}

dispatchEnqueue ==
  /\ dispatching # {}
  /\ queue' = queue \cup FirstJobs(dispatching)
  /\ dispatching' = {}
  /\ UNCHANGED <<event, active, delivery, worker, sent, heard, overwritten,
                 faults, replays>>

(* The dispatcher dies, or the queue refuses: some jobs are never added. *)
dispatchFails ==
  /\ dispatching # {} /\ faults < MaxFaults
  /\ \E added \in SUBSET dispatching :
       added # dispatching /\ queue' = queue \cup FirstJobs(added)
  /\ dispatching' = {}
  /\ faults' = faults + 1
  /\ UNCHANGED <<event, active, delivery, worker, sent, heard, overwritten,
                 replays>>

(* The dispatcher of another process has read the same pending events and   *)
(* adds the same jobs, earlier than this one does.                         *)
dispatchOverlaps ==
  /\ dispatching # {} /\ faults < MaxFaults
  /\ queue' = queue \cup FirstJobs(dispatching)
  /\ faults' = faults + 1
  /\ UNCHANGED <<event, active, delivery, dispatching, worker, sent, heard,
                 overwritten, replays>>

-----------------------------------------------------------------------------
(* deliver. *)

Of(w) == worker[w].job[1]

Become(w, step) == worker' = [worker EXCEPT ![w].step = step]
Rest(w) == worker' = [worker EXCEPT ![w] = Resting]

(* Mutants of the operators below: the attempts on record are counted;     *)
(* there is no limit.                                                      *)
NextOnRecord(d) == Cardinality(delivery[d].tried) + 1
NeverExhausted(d) == FALSE

(* The status of d is written afresh. *)
Rewritten(d) == overwritten' = overwritten \ {d}

Deliverable(d) == delivery[d].status \in {"PENDING", "REPLAY_REQUESTED"}
NextAttempt(d) == delivery[d].attemptCount + 1
Exhausted(d) == delivery[d].attemptCount >= MaxAttempts

(* A job whose delivery is in any other status is done without effect. *)
deliverRead(w, job) ==
  LET d == job[1]
      next(step) == [step |-> step, job |-> job,
                     attempt |-> NextAttempt(d), answer |-> "NONE"]
  IN
  /\ worker[w].step = "idle"
  /\ job \in queue
  /\ queue' = queue \ {job}
  /\ IF ~Deliverable(d)
       THEN UNCHANGED worker
       ELSE \/ worker' = [worker EXCEPT ![w] = next("reject")]  \* unsafe URL
            \/ worker' = [worker EXCEPT ![w] =
                            next(IF Exhausted(d) THEN "reject" ELSE "start")]
  /\ UNCHANGED <<event, active, delivery, dispatching, sent, heard,
                 overwritten, faults, replays>>

deliverReject(w) ==
  /\ worker[w].step = "reject"
  /\ delivery' = [delivery EXCEPT ![Of(w)].status = "DEAD_LETTERED"]
  /\ Rewritten(Of(w))
  /\ Rest(w)
  /\ UNCHANGED <<event, active, dispatching, queue, sent, heard, faults,
                 replays>>

(* Mutant of FirstTry: the unique key is missing. *)
AnyTry(w) == TRUE

(* The attempt's row is unique per delivery and number. *)
FirstTry(w) == worker[w].attempt \notin delivery[Of(w)].tried

deliverStart(w) ==
  /\ worker[w].step = "start"
  /\ FirstTry(w)
  /\ delivery' = [delivery EXCEPT ![Of(w)].status = "PROCESSING",
                    ![Of(w)].tried = @ \cup {worker[w].attempt}]
  /\ Rewritten(Of(w))
  /\ Become(w, "send")
  /\ UNCHANGED <<event, active, dispatching, queue, sent, heard, faults,
                 replays>>

(* It exists already: the job fails and is removed. *)
deliverRefused(w) ==
  /\ worker[w].step = "start"
  /\ ~FirstTry(w)
  /\ Rest(w)
  /\ UNCHANGED <<event, active, delivery, dispatching, queue, sent, heard,
                 overwritten, faults, replays>>

(* The partner accepts or refuses the call, and its answer arrives or the *)
(* call breaks, which the worker cannot tell from a failure of its own.    *)
Called(w, accepted, answer) ==
  /\ worker[w].step = "send"
  /\ sent' = [sent EXCEPT ![Of(w)][worker[w].attempt] = @ + 1]
  /\ heard' = IF accepted THEN heard \cup {Of(w)} ELSE heard
  /\ worker' = [worker EXCEPT ![w].step = "record", ![w].answer = answer]
  /\ UNCHANGED <<event, active, delivery, dispatching, queue, overwritten,
                 faults, replays>>

(* Mutant of deliverSend: any answer of the partner counts as success. *)
deliverSendAny(w) ==
  \E accepted \in BOOLEAN, answer \in {"OK", "BROKEN"} :
    Called(w, accepted, answer)

deliverSend(w) ==
  \E accepted \in BOOLEAN :
    \/ Called(w, accepted, IF accepted THEN "OK" ELSE "REFUSED")
    \/ Called(w, accepted, "BROKEN")

Record(w, status) ==
  delivery' = [delivery EXCEPT ![Of(w)].status = status,
                               ![Of(w)].attemptCount = worker[w].attempt]

Last(w) == worker[w].attempt >= MaxAttempts

deliverSucceeded(w) ==
  /\ worker[w].step = "record" /\ worker[w].answer = "OK"
  /\ Record(w, "DELIVERED") /\ Rewritten(Of(w))
  /\ Rest(w)
  /\ UNCHANGED <<event, active, dispatching, queue, sent, heard, faults,
                 replays>>

deliverFailed(w) ==
  /\ worker[w].step = "record" /\ worker[w].answer # "OK"
  /\ \/ Last(w) /\ Record(w, "DEAD_LETTERED") /\ Rest(w)
     \/ ~Last(w) /\ Record(w, "FAILED") /\ Become(w, "retry")
  /\ Rewritten(Of(w))
  /\ UNCHANGED <<event, active, dispatching, queue, sent, heard, faults,
                 replays>>

(* Recording the answer throws, and the handler records a failure instead. *)
recordFails(w) ==
  /\ worker[w].step = "record" /\ worker[w].answer # "BROKEN"
  /\ faults < MaxFaults
  /\ worker' = [worker EXCEPT ![w].answer = "BROKEN"]
  /\ faults' = faults + 1
  /\ UNCHANGED <<event, active, delivery, dispatching, queue, sent, heard,
                 overwritten, replays>>

(* The retry job of a failed attempt, delayed by the backoff. *)
RetryJob(w) == <<Of(w), worker[w].attempt + 1>>

deliverRetry(w) ==
  /\ worker[w].step = "retry"
  /\ queue' = queue \cup {RetryJob(w)}
  /\ Rest(w)
  /\ UNCHANGED <<event, active, delivery, dispatching, sent, heard,
                 overwritten, faults, replays>>

(* The queue throws, with or without the job.  After a refusal this is     *)
(* still inside the try: the handler records the failure once more,        *)
(* whatever has become of the delivery in between, and adds the job again. *)
retryFails(w) ==
  /\ worker[w].step = "retry" /\ worker[w].answer = "REFUSED"
  /\ faults < MaxFaults
  /\ Record(w, "FAILED")
  /\ overwritten' = IF delivery' = delivery THEN overwritten
                    ELSE overwritten \cup {Of(w)}
  /\ queue' \in {queue, queue \cup {RetryJob(w)}}
  /\ worker' = [worker EXCEPT ![w].answer = "BROKEN"]
  /\ faults' = faults + 1
  /\ UNCHANGED <<event, active, dispatching, sent, heard, replays>>

(* The worker dies; its job is given to another one or dropped. *)
crash(w) ==
  /\ worker[w].step # "idle"
  /\ faults < MaxFaults
  /\ \/ queue' = queue \cup {worker[w].job}
     \/ UNCHANGED queue
  /\ Rest(w)
  /\ faults' = faults + 1
  /\ UNCHANGED <<event, active, delivery, dispatching, sent, heard,
                 overwritten, replays>>

(* The worker is so slow that its job is given to another one as well. *)
stall(w) ==
  /\ worker[w].step # "idle"
  /\ faults < MaxFaults
  /\ queue' = queue \cup {worker[w].job}
  /\ faults' = faults + 1
  /\ UNCHANGED <<event, active, delivery, dispatching, worker, sent, heard,
                 overwritten, replays>>

(* An operator asks for a replay: the status changes, nothing is enqueued. *)
replayDelivery(d) ==
  /\ delivery[d].status # "NONE"
  /\ replays < MaxReplays
  /\ delivery' = [delivery EXCEPT ![d].status = "REPLAY_REQUESTED"]
  /\ Rewritten(d)
  /\ replays' = replays + 1
  /\ UNCHANGED <<event, active, dispatching, queue, worker, sent, heard,
                 faults>>

Deliver(w) == \/ deliverReject(w) \/ deliverStart(w) \/ deliverRefused(w)
              \/ deliverSend(w) \/ deliverSucceeded(w) \/ deliverFailed(w)
              \/ deliverRetry(w)

Take(job) == \E w \in Workers : deliverRead(w, job)

Next ==
  \/ \E e \in Events : append(e)
  \/ \E s \in Subscriptions : subscribe(s) \/ revoke(s)
  \/ dispatchCommit \/ dispatchEnqueue \/ dispatchFails \/ dispatchOverlaps
  \/ \E job \in Jobs : Take(job)
  \/ \E w \in Workers : \/ Deliver(w) \/ recordFails(w) \/ retryFails(w)
                       \/ crash(w) \/ stall(w)
  \/ \E d \in Deliveries : replayDelivery(d)

Spec == Init /\ [][Next]_vars

(* The scheduler runs the dispatcher every five seconds, a worker goes on  *)
(* with what it does, and the queue hands out its jobs in order, so none   *)
(* waits for ever.  Nobody has to append, subscribe, replay or crash.      *)
Fairness ==
  /\ WF_vars(dispatchCommit) /\ WF_vars(dispatchEnqueue)
  /\ \A w \in Workers : WF_vars(Deliver(w))
  /\ \A job \in Jobs : SF_vars(Take(job))

FairSpec == Spec /\ Fairness

-----------------------------------------------------------------------------
(* Properties. *)

DeliveryType ==
  [status: {"NONE", "PENDING", "PROCESSING", "DELIVERED", "FAILED",
            "DEAD_LETTERED", "REPLAY_REQUESTED"},
   attemptCount: 0..MaxAttempts, tried: SUBSET Attempts]

WorkerType ==
  [step: {"idle", "reject", "start", "send", "record", "retry"},
   job: Jobs \cup {NoJob}, attempt: 0..(MaxAttempts + 1),
   answer: {"NONE", "OK", "REFUSED", "BROKEN"}]

(* Attempts are counted up to the limit and never beyond it. *)
TypeOK ==
  /\ event \in [Events -> {"NONE", "PENDING", "READY"}]
  /\ active \subseteq Subscriptions
  /\ delivery \in [Deliveries -> DeliveryType]
  /\ dispatching \subseteq Deliveries
  /\ queue \subseteq Jobs
  /\ worker \in [Workers -> WorkerType]
  /\ sent \in [Deliveries -> [Attempts -> Nat]]
  /\ heard \subseteq Deliveries /\ overwritten \subseteq Deliveries
  /\ faults \in 0..MaxFaults /\ replays \in 0..MaxReplays

Working(w) == worker[w].step \in {"send", "record"}

(* Whatever the queue does with a job, the partner is called at most once  *)
(* per numbered attempt.                                                   *)
AttemptSentOnce == \A d \in Deliveries, n \in Attempts : sent[d][n] <= 1

(* No two workers are calling the partner for one delivery, although its   *)
(* job may have been handed out twice and an operator may ask for a replay *)
(* in between.                                                             *)
OneCallInFlight ==
  \A v, w \in Workers : Working(v) /\ Working(w) /\ Of(v) = Of(w) => v = w

(* A delivery seen through DeliveryAttempts. *)
Settled == {"FAILED", "DELIVERED"}

Handlers(d) == {w \in Workers : Working(w) /\ Of(w) = d}
Outcome(d) == IF d \in overwritten THEN "OVERWRITTEN"
              ELSE IF delivery[d].status \in Settled THEN delivery[d].status
              ELSE "NONE"

Course == INSTANCE DeliveryAttempts WITH
  begun   <- [d \in Deliveries |-> delivery[d].tried],
  working <- [d \in Deliveries |-> Handlers(d)],
  called  <- sent,
  told    <- heard,
  outcome <- [d \in Deliveries |-> Outcome(d)]

(* Every delivery follows the abstract course of attempts, whatever is     *)
(* crashed, stalled, handed out twice or replayed: its attempts are        *)
(* numbered in turn and made by one worker at a time, what is recorded is  *)
(* the outcome of a call, and a delivery with an outcome is not attempted  *)
(* until it is opened again, by a replay or by an earlier failure that is  *)
(* recorded once more because its retry could not be queued.               *)
ImplementsAttempts == Course!Spec

(* A delivery is DELIVERED only if the partner accepted it, and the        *)
(* partner hears only of events that were committed and subscribed to.     *)
DeliveredWasHeard ==
  /\ \A d \in Deliveries : delivery[d].status = "DELIVERED" => d \in heard
  /\ \A d \in heard : event[d[1]] = "READY" /\ delivery[d].status # "NONE"

(* Every delivery that is created is attempted or rejected, unless a fault *)
(* interferes: the queue holds its job until a worker has acted on it.     *)
FirstAttemptMade ==
  \A d \in Deliveries :
    delivery[d].status = "PENDING" ~>
      \/ delivery[d].tried # {} \/ delivery[d].status = "DEAD_LETTERED"
      \/ faults > 0

(* docs/chore/PRD.v1.md, NFR-14: "Failed webhook deliveries shall be       *)
(* retried with backoff".  The retry job finds the status FAILED.          *)
FailedIsRetried ==
  \A d \in Deliveries :
    delivery[d].status = "FAILED" ~> delivery[d].status # "FAILED"
=============================================================================
