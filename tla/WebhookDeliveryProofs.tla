------------------------- MODULE WebhookDeliveryProofs -------------------------
(* Theorems about webhook deliveries, for any number of events,             *)
(* subscriptions, workers, faults, replays and attempts.                    *)
EXTENDS WebhookDelivery, TLAPS

-----------------------------------------------------------------------------
(* The inductive invariant. *)

Count(d) == delivery[d].attemptCount

(* Attempts are begun in turn, and the one that was recorded last is one of *)
(* them: the count may go back when an earlier one is recorded again.       *)
InTurn ==
  \A d \in Deliveries :
    /\ Count(d) > 0 => Count(d) \in delivery[d].tried
    /\ \A k \in delivery[d].tried : 1..k \subseteq delivery[d].tried

(* A worker has a job; one that is about to begin an attempt took a number  *)
(* before which all are taken, and if that one is not, nobody is working on *)
(* the delivery; one that has begun an attempt has the last number, which   *)
(* is not recorded yet; and one whose retry is due has an earlier one.      *)
Started == {"start", "send", "record", "retry"}

WorkersInTurn ==
  \A w \in Workers :
    /\ worker[w].step # "idle" => worker[w].job \in Jobs
    /\ worker[w].step \in Started => worker[w].attempt \in Attempts
    /\ worker[w].step = "start" =>
         1..(worker[w].attempt - 1) \subseteq delivery[Of(w)].tried
    /\ Working(w) => /\ worker[w].attempt \in delivery[Of(w)].tried
                     /\ delivery[Of(w)].tried \subseteq 1..worker[w].attempt
                     /\ Count(Of(w)) < worker[w].attempt
    /\ worker[w].step = "retry" => worker[w].attempt \in delivery[Of(w)].tried

FreshAlone ==
  \A v, w \in Workers : Working(v) /\ Of(v) = Of(w) =>
    /\ worker[w].step = "start" => ~FirstTry(w)
    /\ worker[w].step = "retry" => worker[w].attempt < worker[v].attempt

(* Only an attempt that was begun has been sent. *)
SentWasTried ==
  /\ \A d \in Deliveries, n \in Attempts : sent[d][n] > 0 => n \in delivery[d].tried
  /\ \A w \in Workers :
       worker[w].step = "send" => sent[Of(w)][worker[w].attempt] = 0

(* What is dispatched, queued or worked on is a delivery of a dispatched    *)
(* event.                                                                   *)
Known(d) == event[d[1]] = "READY" /\ delivery[d].status # "NONE"

AllKnown ==
  /\ \A d \in dispatching \cup heard : Known(d)
  /\ \A job \in queue : Known(job[1])
  /\ \A w \in Workers : worker[w].step # "idle" => Known(Of(w))

(* A success that will be recorded was heard. *)
SuccessHeard ==
  /\ \A d \in Deliveries : delivery[d].status = "DELIVERED" => d \in heard
  /\ \A w \in Workers : 
       worker[w].step = "record" /\ worker[w].answer = "OK" => Of(w) \in heard

DeliveryInv ==
  /\ TypeOK /\ InTurn /\ WorkersInTurn /\ FreshAlone /\ OneCallInFlight
  /\ SentWasTried /\ AttemptSentOnce /\ AllKnown /\ SuccessHeard

LEMMA InitDeliveryInv == Init => DeliveryInv
<1> SUFFICES ASSUME Init PROVE DeliveryInv
  OBVIOUS
<1> USE DEF Init
<1>1. NoRow \in DeliveryType /\ Resting \in WorkerType
  BY DeliveryAssumption DEF NoRow, Resting, DeliveryType, WorkerType
<1>2. TypeOK
  <2>1. /\ delivery \in [Deliveries -> DeliveryType]
        /\ worker \in [Workers -> WorkerType]
    BY <1>1
  <2>2. faults \in 0..MaxFaults /\ replays \in 0..MaxReplays
    BY DeliveryAssumption
  <2>3. sent \in [Deliveries -> [Attempts -> Nat]]
    OBVIOUS
  <2> QED
    BY <2>1, <2>2, <2>3 DEF TypeOK
<1>3. \A w \in Workers : worker[w].step = "idle"
  BY DEF Resting
<1>4. \A d \in Deliveries :
        Count(d) = 0 /\ delivery[d].tried = {} /\ delivery[d].status = "NONE"
  BY DEF Count, NoRow
<1>5. \A d \in Deliveries, n \in Attempts : sent[d][n] = 0
  OBVIOUS
<1>6. InTurn
  BY <1>4 DEF InTurn
<1>7. WorkersInTurn /\ FreshAlone /\ OneCallInFlight
  BY <1>3 DEF WorkersInTurn, FreshAlone, OneCallInFlight, Started, Working
<1>8. SentWasTried /\ AttemptSentOnce
  BY <1>3, <1>5 DEF SentWasTried, AttemptSentOnce
<1>9. AllKnown /\ SuccessHeard
  BY <1>3, <1>4 DEF AllKnown, SuccessHeard
<1> QED
  BY <1>2, <1>6, <1>7, <1>8, <1>9 DEF DeliveryInv

-----------------------------------------------------------------------------
(* Steps that neither begin an attempt nor send nor record it.              *)

(* A worker stays at what it does, gives it up, or takes a new job.         *)
Keeps(w) ==
  /\ worker'[w] \in WorkerType
  /\ \/ /\ worker'[w].step = worker[w].step /\ worker'[w].job = worker[w].job
        /\ worker'[w].attempt = worker[w].attempt
        /\ worker'[w].answer = "OK" => worker[w].answer = "OK"
     \/ worker'[w].step = "idle"
     \/ /\ worker'[w].step \in {"reject", "start"}
        /\ worker'[w].job \in Jobs /\ Known(worker'[w].job[1])
        /\ worker'[w].step = "start" =>
             /\ worker'[w].attempt \in Attempts
             /\ worker'[w].attempt = Count(worker'[w].job[1]) + 1

(* The number of an attempt that nobody is making.                          *)
Past(d, n) ==
  /\ n \in delivery[d].tried
  /\ \A v \in Workers : Working(v) /\ Of(v) = d => n < worker[v].attempt

(* A delivery keeps its attempts, the last recorded of which may be another *)
(* one, and gets no success and no fresh start.                             *)
RowKept(d) ==
  /\ delivery'[d] \in DeliveryType
  /\ \/ delivery'[d].attemptCount = delivery[d].attemptCount
     \/ Past(d, delivery'[d].attemptCount)
  /\ delivery'[d].tried = delivery[d].tried
  /\ delivery[d].status # "NONE" => delivery'[d].status # "NONE"
  /\ delivery'[d].status = "DELIVERED" => delivery[d].status = "DELIVERED"

(* The next number is taken while an attempt is being made. *)
LEMMA NextIsTaken ==
  ASSUME DeliveryInv, NEW v \in Workers, Working(v)
  PROVE  Count(Of(v)) + 1 \in delivery[Of(v)].tried
<1>1. worker[v].step \in Started /\ worker[v].step # "idle"
  BY DEF Working, Started
<1>2. Of(v) \in Deliveries
  BY <1>1 DEF DeliveryInv, WorkersInTurn, Of, Jobs
<1>3. Count(Of(v)) \in Nat
  BY <1>2, DeliveryAssumption DEF DeliveryInv, TypeOK, DeliveryType, Count
<1>4. /\ worker[v].attempt \in Nat /\ Count(Of(v)) < worker[v].attempt
      /\ 1..worker[v].attempt \subseteq delivery[Of(v)].tried
  BY <1>1, <1>2, DeliveryAssumption DEF DeliveryInv, WorkersInTurn, InTurn, Attempts
<1> QED
  BY <1>3, <1>4

LEMMA KeepingKeepsInv ==
  ASSUME DeliveryInv,
         event' \in [Events -> {"NONE", "PENDING", "READY"}],
         \A e \in Events : event[e] = "READY" => event'[e] = "READY",
         active' \subseteq Subscriptions,
         delivery' = [d \in Deliveries |-> delivery'[d]],
         \A d \in Deliveries : RowKept(d),
         worker' = [w \in Workers |-> worker'[w]],
         \A w \in Workers : Keeps(w),
         dispatching' \subseteq Deliveries,
         \A d \in dispatching' : d \in dispatching \/ Known(d)',
         queue' \subseteq Jobs,
         \A job \in queue' : job \in queue \/ Known(job[1])',
         UNCHANGED <<sent, heard>>, overwritten' \subseteq Deliveries,
         faults' \in 0..MaxFaults, replays' \in 0..MaxReplays
  PROVE  DeliveryInv'
<1>0. /\ TypeOK /\ InTurn /\ WorkersInTurn /\ FreshAlone /\ OneCallInFlight
      /\ SentWasTried /\ AttemptSentOnce /\ AllKnown /\ SuccessHeard
  BY DEF DeliveryInv
<1>1. TypeOK'
  <2>1. delivery' \in [Deliveries -> DeliveryType]
    BY DEF RowKept
  <2>2. worker' \in [Workers -> WorkerType]
    BY DEF Keeps
  <2> QED
    BY <1>0, <2>1, <2>2 DEF TypeOK
<1>2. \A d \in Deliveries :
        /\ delivery'[d].tried = delivery[d].tried
        /\ Count(d)' = Count(d) \/ Past(d, Count(d)')
  BY DEF RowKept, Count
<1>3. \A job \in Jobs : job[1] \in Deliveries /\ job[1][1] \in Events
  BY DEF Jobs, Deliveries
<1>4. \A d \in Deliveries : Known(d) => Known(d)'
  BY <1>3 DEF Known, RowKept, Deliveries
<1>5. InTurn'
  BY <1>0, <1>2 DEF InTurn, Past
<1>6. \A w \in Workers : worker'[w].step # "idle" =>
        worker'[w].job \in Jobs /\ Of(w)' \in Deliveries
  <2>1. \A w \in Workers : worker'[w].step # "idle" => worker'[w].job \in Jobs
    BY <1>0 DEF Keeps, WorkersInTurn
  <2> QED
    BY <1>3, <2>1 DEF Of
<1>7. \A w \in Workers : Working(w)' =>
        /\ Working(w) /\ worker'[w].step = worker[w].step
        /\ worker'[w].job = worker[w].job /\ Of(w)' = Of(w)
        /\ worker'[w].attempt = worker[w].attempt
        /\ worker'[w].answer = "OK" => worker[w].answer = "OK"
  BY <1>0 DEF Keeps, Working, Of
<1>8. \A w \in Workers : worker'[w].step \in {"start", "retry"} =>
        \/ /\ worker[w].step = worker'[w].step /\ Of(w)' = Of(w)
           /\ worker'[w].attempt = worker[w].attempt
        \/ /\ worker'[w].step = "start" /\ worker'[w].attempt = Count(Of(w)') + 1
           /\ worker'[w].attempt \in Attempts
  BY DEF Keeps, Of
<1>9. WorkersInTurn'
  <2> SUFFICES ASSUME NEW w \in Workers
               PROVE  /\ worker'[w].step \in Started => worker'[w].attempt \in Attempts
                      /\ worker'[w].step = "start" =>
                           1..(worker'[w].attempt - 1) \subseteq delivery'[Of(w)'].tried
                      /\ Working(w)' =>
                           /\ worker'[w].attempt \in delivery'[Of(w)'].tried
                           /\ delivery'[Of(w)'].tried \subseteq 1..worker'[w].attempt
                           /\ Count(Of(w))' < worker'[w].attempt
                      /\ worker'[w].step = "retry" =>
                           worker'[w].attempt \in delivery'[Of(w)'].tried
    BY <1>6 DEF WorkersInTurn
  <2>1. worker'[w].step \in Started => worker'[w].attempt \in Attempts
    BY <1>0 DEF Keeps, WorkersInTurn, Started
  <2>2. ASSUME worker'[w].step = "start"
        PROVE  1..(worker'[w].attempt - 1) \subseteq delivery'[Of(w)'].tried
    <3>1. Of(w)' \in Deliveries
      BY <1>6, <2>2
    <3>2. CASE worker'[w].attempt = Count(Of(w)') + 1
      <4>1. Count(Of(w)') \in Nat
        BY <1>0, <3>1, DeliveryAssumption DEF TypeOK, DeliveryType, Count
      <4>2. 1..Count(Of(w)') \subseteq delivery[Of(w)'].tried
        BY <1>0, <3>1, <4>1 DEF InTurn
      <4> QED
        BY <1>2, <3>1, <3>2, <4>1, <4>2
    <3>3. CASE /\ worker[w].step = "start" /\ Of(w)' = Of(w)
               /\ worker'[w].attempt = worker[w].attempt
      BY <1>0, <1>2, <3>1, <3>3 DEF WorkersInTurn
    <3> QED
      BY <1>8, <2>2, <3>2, <3>3
  <2>3. ASSUME Working(w)'
        PROVE  /\ worker'[w].attempt \in delivery'[Of(w)'].tried
               /\ delivery'[Of(w)'].tried \subseteq 1..worker'[w].attempt
               /\ Count(Of(w))' < worker'[w].attempt
    <3>1. Of(w)' \in Deliveries /\ Of(w)' = Of(w) /\ Working(w)
          /\ worker'[w].attempt = worker[w].attempt
      BY <1>6, <1>7, <2>3 DEF Working
    <3>2. Count(Of(w))' = Count(Of(w)) \/ Past(Of(w), Count(Of(w))')
      BY <1>2, <3>1 DEF Count
    <3>3. Count(Of(w))' < worker[w].attempt
      BY <1>0, <3>1, <3>2 DEF WorkersInTurn, Past
    <3> QED
      BY <1>0, <1>2, <3>1, <3>3 DEF WorkersInTurn
  <2>4. ASSUME worker'[w].step = "retry"
        PROVE  worker'[w].attempt \in delivery'[Of(w)'].tried
    BY <1>0, <1>2, <1>6, <1>8, <2>4 DEF WorkersInTurn
  <2> QED
    BY <2>1, <2>2, <2>3, <2>4
<1>10. FreshAlone' /\ OneCallInFlight'
  <2>1. OneCallInFlight'
    BY <1>0, <1>7 DEF OneCallInFlight
  <2>2. ASSUME NEW v \in Workers, NEW w \in Workers, Working(v)', Of(v)' = Of(w)'
        PROVE  /\ worker'[w].step = "start" =>
                    worker'[w].attempt \in delivery'[Of(w)'].tried
               /\ worker'[w].step = "retry" => worker'[w].attempt < worker'[v].attempt
    <3>1. Working(v) /\ Of(v) = Of(w)' /\ worker'[v].attempt = worker[v].attempt
      BY <1>7, <2>2
    <3>2. worker'[v].step # "idle"
      BY <2>2 DEF Working
    <3>3. /\ Of(v) \in Deliveries /\ delivery'[Of(w)'].tried = delivery[Of(v)].tried
          /\ Count(Of(v)) + 1 \in delivery[Of(v)].tried
      BY <1>2, <1>6, <2>2, <3>1, <3>2, NextIsTaken
    <3>4. CASE worker'[w].step = "start"
      BY <1>0, <1>8, <3>1, <3>3, <3>4 DEF FreshAlone, FirstTry
    <3>5. CASE worker'[w].step = "retry"
      BY <1>0, <1>8, <3>1, <3>5 DEF FreshAlone
    <3> QED
      BY <3>4, <3>5
  <2> QED
    BY <2>1, <2>2 DEF FreshAlone, FirstTry
<1>11. SentWasTried' /\ AttemptSentOnce'
  <2>1. AttemptSentOnce'
    BY <1>0 DEF AttemptSentOnce
  <2>2. \A w \in Workers :
          worker'[w].step = "send" => sent'[Of(w)'][worker'[w].attempt] = 0
    BY <1>0, <1>7 DEF SentWasTried, Working
  <2> QED
    BY <1>0, <1>2, <2>1, <2>2 DEF SentWasTried
<1>12. AllKnown'
  <2>1. \A d \in dispatching' \cup heard' : Known(d)'
    BY <1>0, <1>4 DEF AllKnown, TypeOK
  <2>2. \A job \in queue' : Known(job[1])'
    BY <1>0, <1>3, <1>4 DEF AllKnown
  <2>3. \A w \in Workers : worker'[w].step # "idle" => Known(Of(w))'
    <3> SUFFICES ASSUME NEW w \in Workers, worker'[w].step # "idle",
                        NEW d, d = worker'[w].job[1]
                 PROVE  Known(d)'
      BY DEF Of, Known
    <3>1. Known(d)
      BY <1>0 DEF Keeps, AllKnown, Of
    <3> QED
      BY <1>3, <1>4, <1>6, <3>1
  <2> QED
    BY <2>1, <2>2, <2>3 DEF AllKnown
<1>13. SuccessHeard'
  BY <1>0, <1>7 DEF SuccessHeard, RowKept, Working
<1> QED
  BY <1>1, <1>5, <1>9, <1>10, <1>11, <1>12, <1>13 DEF DeliveryInv

LEMMA RowsKept ==
  ASSUME TypeOK, UNCHANGED delivery
  PROVE  delivery' = [d \in Deliveries |-> delivery'[d]] /\ \A d \in Deliveries : RowKept(d)
BY DEF TypeOK, RowKept

LEMMA OneRowKept ==
  ASSUME TypeOK, NEW d \in Deliveries,
         NEW status \in {"DEAD_LETTERED", "REPLAY_REQUESTED"},
         delivery' = [delivery EXCEPT ![d].status = status]
  PROVE  delivery' = [e \in Deliveries |-> delivery'[e]] /\ \A e \in Deliveries : RowKept(e)
<1> DEFINE new == [status |-> status, attemptCount |-> delivery[d].attemptCount,
                   tried |-> delivery[d].tried]
<1>1. delivery[d] \in DeliveryType
  BY DEF TypeOK
<1>2. new \in DeliveryType /\ [delivery[d] EXCEPT !.status = status] = new
  BY <1>1 DEF DeliveryType
<1>3. delivery' = [delivery EXCEPT ![d] = new]
  BY <1>2
<1>4. /\ delivery' = [e \in Deliveries |-> delivery'[e]]
      /\ delivery'[d] = new /\ \A e \in Deliveries \ {d} : delivery'[e] = delivery[e]
  BY <1>3 DEF TypeOK
<1>5. RowKept(d)
  BY <1>2, <1>4 DEF RowKept
<1>6. \A e \in Deliveries \ {d} : RowKept(e)
  BY <1>4 DEF RowKept, TypeOK
<1> QED
  BY <1>4, <1>5, <1>6

LEMMA WorkersKept ==
  ASSUME TypeOK, UNCHANGED worker
  PROVE  worker' = [w \in Workers |-> worker'[w]] /\ \A w \in Workers : Keeps(w)
BY DEF TypeOK, Keeps

(* One worker goes on to something else. *)
LEMMA OneWorkerKept ==
  ASSUME TypeOK, NEW w \in Workers, NEW new \in WorkerType,
         worker' = [worker EXCEPT ![w] = new],
         \/ /\ new.step = worker[w].step /\ new.job = worker[w].job
            /\ new.attempt = worker[w].attempt
            /\ new.answer = "OK" => worker[w].answer = "OK"
         \/ new.step = "idle"
         \/ /\ new.step \in {"reject", "start"}
            /\ new.job \in Jobs /\ Known(new.job[1])
            /\ new.step = "start" =>
                 new.attempt \in Attempts /\ new.attempt = Count(new.job[1]) + 1
  PROVE  worker' = [v \in Workers |-> worker'[v]] /\ \A v \in Workers : Keeps(v)
<1>1. /\ worker' = [v \in Workers |-> worker'[v]]
      /\ worker'[w] = new /\ \A v \in Workers \ {w} : worker'[v] = worker[v]
  BY DEF TypeOK
<1>2. Keeps(w)
  BY <1>1 DEF Keeps
<1>3. \A v \in Workers \ {w} : Keeps(v)
  BY <1>1 DEF Keeps, TypeOK
<1> QED
  BY <1>1, <1>2, <1>3

LEMMA RestKept ==
  ASSUME TypeOK, NEW w \in Workers, Rest(w)
  PROVE  worker' = [v \in Workers |-> worker'[v]] /\ \A v \in Workers : Keeps(v)
<1>1. Resting \in WorkerType /\ Resting.step = "idle"
  BY DeliveryAssumption DEF Resting, WorkerType
<1> QED
  BY <1>1, OneWorkerKept DEF Rest

(* The outbox, the subscriptions and the dispatcher. *)
LEMMA DispatchKeepsInv ==
  ASSUME DeliveryInv,
         \/ \E e \in Events : append(e)
         \/ \E s \in Subscriptions : subscribe(s) \/ revoke(s)
         \/ dispatchEnqueue \/ dispatchFails \/ dispatchOverlaps
  PROVE  DeliveryInv'
<1>0. TypeOK /\ AllKnown
  BY DEF DeliveryInv
<1>1. UNCHANGED <<delivery, worker, sent, heard, overwritten, replays>>
  BY DEF append, subscribe, revoke, dispatchEnqueue, dispatchFails, dispatchOverlaps
<1>2. /\ event' \in [Events -> {"NONE", "PENDING", "READY"}]
      /\ \A e \in Events : event[e] = "READY" => event'[e] = "READY"
  BY <1>0 DEF append, subscribe, revoke, dispatchEnqueue, dispatchFails,
              dispatchOverlaps, TypeOK
<1>3. active' \subseteq Subscriptions
  BY <1>0 DEF append, subscribe, revoke, dispatchEnqueue, dispatchFails,
              dispatchOverlaps, TypeOK
<1>4. dispatching' \subseteq dispatching
  BY DEF append, subscribe, revoke, dispatchEnqueue, dispatchFails, dispatchOverlaps
<1>5. queue' \subseteq queue \cup FirstJobs(dispatching)
  BY DEF append, subscribe, revoke, dispatchEnqueue, dispatchFails, dispatchOverlaps,
         FirstJobs
<1>6. \A job \in FirstJobs(dispatching) : job \in Jobs /\ job[1] \in dispatching
  BY <1>0, DeliveryAssumption DEF FirstJobs, Jobs, TypeOK
<1>7. \A d \in dispatching : Known(d)'
  BY <1>0, <1>1, <1>2 DEF AllKnown, Known, TypeOK, Deliveries
<1>8. faults' \in 0..MaxFaults
  BY <1>0, DeliveryAssumption
     DEF append, subscribe, revoke, dispatchEnqueue, dispatchFails, dispatchOverlaps,
         TypeOK
<1>9. queue' \subseteq Jobs /\ \A job \in queue' : job \in queue \/ Known(job[1])'
  <2>1. \A job \in FirstJobs(dispatching) : job \in Jobs /\ Known(job[1])'
    BY <1>6, <1>7
  <2> QED
    BY <1>0, <1>5, <2>1 DEF TypeOK
<1>10. /\ dispatching' \subseteq Deliveries /\ overwritten' \subseteq Deliveries
       /\ replays' \in 0..MaxReplays
  BY <1>0, <1>1, <1>4 DEF TypeOK
<1> QED
  BY <1>0, <1>1, <1>2, <1>3, <1>4, <1>8, <1>9, <1>10, RowsKept, WorkersKept,
     KeepingKeepsInv

LEMMA CommitKeepsInv == ASSUME DeliveryInv, dispatchCommit PROVE DeliveryInv'
<1>0. TypeOK
  BY DEF DeliveryInv
<1> DEFINE made == Pending \X active
<1>1. made \subseteq Deliveries
  BY <1>0 DEF TypeOK, Deliveries, Pending
<1>2. /\ event' = [e \in Events |-> IF e \in Pending THEN "READY" ELSE event[e]]
      /\ dispatching' = made
      /\ UNCHANGED <<active, queue, worker, sent, heard, overwritten, faults, replays>>
  BY DEF dispatchCommit
<1>3. delivery' = [d \in Deliveries |->
        IF d \in made /\ delivery[d].status = "NONE"
          THEN [delivery[d] EXCEPT !.status = "PENDING"] ELSE delivery[d]]
  BY DEF dispatchCommit
<1> HIDE DEF made
<1>4. \A d \in Deliveries : RowKept(d) /\ (d \in made => delivery'[d].status # "NONE")
  <2> TAKE d \in Deliveries
  <2>1. delivery[d] \in DeliveryType
    BY <1>0 DEF TypeOK
  <2>2. CASE d \in made /\ delivery[d].status = "NONE"
    <3> DEFINE new == [status |-> "PENDING", attemptCount |-> delivery[d].attemptCount,
                       tried |-> delivery[d].tried]
    <3>1. new \in DeliveryType /\ [delivery[d] EXCEPT !.status = "PENDING"] = new
      BY <2>1 DEF DeliveryType
    <3>2. delivery'[d] = new
      BY <1>3, <2>2, <3>1
    <3> QED
      BY <3>1, <3>2, <2>2 DEF RowKept
  <2>3. CASE ~(d \in made /\ delivery[d].status = "NONE")
    <3>1. delivery'[d] = delivery[d]
      BY <1>3, <2>3
    <3> QED
      BY <2>1, <2>3, <3>1 DEF RowKept
  <2> QED
    BY <2>2, <2>3
<1>5. delivery' = [d \in Deliveries |-> delivery'[d]]
  BY <1>3
<1>6. \A d \in dispatching' : Known(d)'
  <2> SUFFICES ASSUME NEW d \in made PROVE event'[d[1]] = "READY" /\ delivery'[d].status # "NONE"
    BY <1>2 DEF Known
  <2>1. d[1] \in Pending /\ d[1] \in Events
    BY DEF made, Pending
  <2> QED
    BY <1>1, <1>2, <1>4, <2>1
<1>7. /\ event' \in [Events -> {"NONE", "PENDING", "READY"}]
      /\ \A e \in Events : event[e] = "READY" => event'[e] = "READY"
  BY <1>0, <1>2 DEF TypeOK
<1>8. /\ active' \subseteq Subscriptions /\ queue' \subseteq Jobs
      /\ faults' \in 0..MaxFaults /\ replays' \in 0..MaxReplays
      /\ dispatching' \subseteq Deliveries /\ overwritten' \subseteq Deliveries
  BY <1>0, <1>1, <1>2 DEF TypeOK
<1> QED
  BY <1>0, <1>2, <1>4, <1>5, <1>6, <1>7, <1>8, WorkersKept, KeepingKeepsInv

-----------------------------------------------------------------------------
(* The queue, its faults, and what a worker does before and after a call.   *)

LEMMA ReadKeepsInv ==
  ASSUME DeliveryInv, NEW w \in Workers, NEW job \in Jobs, deliverRead(w, job)
  PROVE  DeliveryInv'
<1>0. TypeOK /\ AllKnown
  BY DEF DeliveryInv
<1>1. /\ queue' = queue \ {job} /\ job \in queue
      /\ UNCHANGED <<event, active, delivery, dispatching, sent, heard, overwritten,
                     faults, replays>>
  BY DEF deliverRead
<1>2. worker' = [v \in Workers |-> worker'[v]] /\ \A v \in Workers : Keeps(v)
  <2> DEFINE d == job[1]
             next(step) == [step |-> step, job |-> job,
                            attempt |-> NextAttempt(d), answer |-> "NONE"]
  <2>1. d \in Deliveries /\ delivery[d] \in DeliveryType /\ Known(d)
    BY <1>0, <1>1 DEF Jobs, TypeOK, AllKnown
  <2>2. /\ Count(d) \in 0..MaxAttempts /\ NextAttempt(d) = Count(d) + 1
        /\ NextAttempt(d) \in 0..(MaxAttempts + 1)
    BY <2>1, DeliveryAssumption DEF DeliveryType, Count, NextAttempt
  <2>3. \A step \in {"reject", "start"} :
          /\ next(step) \in WorkerType
          /\ next(step).step = step /\ next(step).job = job
          /\ next(step).attempt = Count(d) + 1
    BY <2>2 DEF WorkerType
  <2>4. ~Exhausted(d) => Count(d) + 1 \in Attempts
    BY <2>2, DeliveryAssumption DEF Exhausted, Count, Attempts
  <2>5. \/ UNCHANGED worker
        \/ worker' = [worker EXCEPT ![w] = next("reject")]
        \/ ~Exhausted(d) /\ worker' = [worker EXCEPT ![w] = next("start")]
    BY DEF deliverRead
  <2> HIDE DEF d, next
  <2>7. CASE worker' = [worker EXCEPT ![w] = next("reject")]
    BY <1>0, <2>1, <2>3, <2>7, OneWorkerKept DEF d
  <2>8. CASE ~Exhausted(d) /\ worker' = [worker EXCEPT ![w] = next("start")]
    BY <1>0, <2>1, <2>3, <2>4, <2>8, OneWorkerKept DEF d
  <2> QED
    BY <1>0, <2>5, <2>7, <2>8, WorkersKept
<1> QED
  BY <1>0, <1>1, <1>2, RowsKept, KeepingKeepsInv DEF TypeOK

(* The delivery of a worker that has a job. *)
LEMMA JobTyped ==
  ASSUME DeliveryInv, NEW w \in Workers, worker[w].step # "idle"
  PROVE  /\ worker[w] \in WorkerType /\ worker[w].job \in Jobs
         /\ Of(w) \in Deliveries /\ Known(Of(w)) /\ delivery[Of(w)] \in DeliveryType
         /\ Count(Of(w)) \in 0..MaxAttempts
<1>1. worker[w] \in WorkerType /\ worker[w].job \in Jobs /\ Known(Of(w))
  BY DEF DeliveryInv, TypeOK, WorkersInTurn, AllKnown
<1>2. Of(w) \in Deliveries
  BY <1>1 DEF Of, Jobs
<1>3. delivery[Of(w)] \in DeliveryType
  BY <1>2 DEF DeliveryInv, TypeOK
<1> QED
  BY <1>1, <1>2, <1>3 DEF Count, DeliveryType

LEMMA RejectKeepsInv ==
  ASSUME DeliveryInv, NEW w \in Workers, deliverReject(w) \/ deliverRefused(w)
  PROVE  DeliveryInv'
<1>0. TypeOK
  BY DEF DeliveryInv
<1>1. UNCHANGED <<event, active, dispatching, queue, sent, heard, faults, replays>>
  BY DEF deliverReject, deliverRefused
<1>2. worker' = [v \in Workers |-> worker'[v]] /\ \A v \in Workers : Keeps(v)
  BY <1>0, RestKept DEF deliverReject, deliverRefused
<1>4. overwritten' \subseteq Deliveries
  BY <1>0 DEF deliverReject, deliverRefused, Rewritten, TypeOK
<1>3. delivery' = [d \in Deliveries |-> delivery'[d]] /\ \A d \in Deliveries : RowKept(d)
  <2>1. ASSUME deliverReject(w)
        PROVE  delivery' = [d \in Deliveries |-> delivery'[d]]
               /\ \A d \in Deliveries : RowKept(d)
    <3>1. Of(w) \in Deliveries
      BY <2>1, JobTyped DEF deliverReject
    <3> QED
      BY <1>0, <2>1, <3>1, OneRowKept DEF deliverReject
  <2> QED
    BY <1>0, <2>1, RowsKept DEF deliverRefused
<1> QED
  BY <1>0, <1>1, <1>2, <1>3, <1>4, KeepingKeepsInv DEF TypeOK

LEMMA ReplayKeepsInv ==
  ASSUME DeliveryInv, NEW d \in Deliveries, replayDelivery(d) PROVE DeliveryInv'
<1>0. TypeOK
  BY DEF DeliveryInv
<1>1. UNCHANGED <<event, active, dispatching, queue, worker, sent, heard, faults>>
  BY DEF replayDelivery
<1>2. replays' \in 0..MaxReplays /\ overwritten' \subseteq Deliveries
  BY <1>0, DeliveryAssumption DEF replayDelivery, Rewritten, TypeOK
<1>3. delivery' = [e \in Deliveries |-> delivery'[e]] /\ \A e \in Deliveries : RowKept(e)
  BY <1>0, OneRowKept DEF replayDelivery
<1> QED
  BY <1>0, <1>1, <1>2, <1>3, WorkersKept, KeepingKeepsInv DEF TypeOK

LEMMA RetryJobTyped ==
  ASSUME DeliveryInv, NEW w \in Workers, worker[w].step = "retry"
  PROVE  RetryJob(w) \in Jobs /\ RetryJob(w)[1] = Of(w) /\ Known(Of(w))
<1>1. Of(w) \in Deliveries /\ Known(Of(w)) /\ worker[w].attempt \in Attempts
  BY JobTyped DEF DeliveryInv, WorkersInTurn, Started
<1> QED
  BY <1>1, DeliveryAssumption DEF RetryJob, Jobs, Attempts

(* A retry, a crash or a stall puts a job of the same delivery in the queue.*)
LEMMA RequeueKeepsInv ==
  ASSUME DeliveryInv, NEW w \in Workers, deliverRetry(w) \/ crash(w) \/ stall(w)
  PROVE  DeliveryInv'
<1>0. TypeOK /\ WorkersInTurn
  BY DEF DeliveryInv
<1>1. UNCHANGED <<event, active, delivery, dispatching, sent, heard, overwritten, replays>>
  BY DEF deliverRetry, crash, stall
<1>2. faults' \in 0..MaxFaults
  BY <1>0, DeliveryAssumption DEF deliverRetry, crash, stall, TypeOK
<1>3. Rest(w) \/ UNCHANGED worker
  BY DEF deliverRetry, crash, stall
<1>4. worker' = [v \in Workers |-> worker'[v]] /\ \A v \in Workers : Keeps(v)
  BY <1>0, <1>3, RestKept, WorkersKept
<1>5. ASSUME queue' # queue
      PROVE  \E job \in Jobs : job[1] = Of(w) /\ queue' = queue \cup {job} /\ Known(Of(w))
  <2>1. CASE deliverRetry(w)
    BY <2>1, RetryJobTyped DEF deliverRetry
  <2>2. CASE crash(w) \/ stall(w)
    <3>1. worker[w].step # "idle" /\ queue' = queue \cup {worker[w].job}
      BY <1>5, <2>2 DEF crash, stall
    <3>2. worker[w].job \in Jobs /\ Known(Of(w))
      BY <3>1, JobTyped
    <3> QED
      BY <3>1, <3>2 DEF Of
  <2> QED
    BY <2>1, <2>2
<1>6. /\ queue' \subseteq Jobs
      /\ \A job \in queue' : job \in queue \/ Known(job[1])'
  <2>1. CASE queue' = queue
    BY <1>0, <2>1 DEF TypeOK
  <2>2. CASE queue' # queue
    <3>1. PICK job \in Jobs :
            job[1] = Of(w) /\ queue' = queue \cup {job} /\ Known(Of(w))
      BY <1>5, <2>2
    <3>2. Known(job[1])'
      BY <1>1, <3>1 DEF Known
    <3> QED
      BY <1>0, <3>1, <3>2 DEF TypeOK
  <2> QED
    BY <2>1, <2>2
<1> QED
  BY <1>0, <1>1, <1>2, <1>4, <1>6, RowsKept, KeepingKeepsInv DEF TypeOK

LEMMA BrokenKept ==
  ASSUME TypeOK, NEW w \in Workers, worker' = [worker EXCEPT ![w].answer = "BROKEN"]
  PROVE  /\ worker' = [v \in Workers |-> worker'[v]] /\ \A v \in Workers : Keeps(v)
         /\ worker'[w].step = worker[w].step /\ worker'[w].job = worker[w].job
         /\ worker'[w].attempt = worker[w].attempt
         /\ \A v \in Workers \ {w} : worker'[v] = worker[v]
<1> DEFINE new == [worker[w] EXCEPT !.answer = "BROKEN"]
<1>1. worker[w] \in WorkerType
  BY DEF TypeOK
<1>2. /\ new \in WorkerType /\ new.answer # "OK"
      /\ new.step = worker[w].step /\ new.job = worker[w].job
      /\ new.attempt = worker[w].attempt
  BY <1>1 DEF WorkerType
<1>3. worker' = [worker EXCEPT ![w] = new]
  OBVIOUS
<1> HIDE DEF new
<1>4. worker'[w] = new /\ \A v \in Workers \ {w} : worker'[v] = worker[v]
  BY <1>3 DEF TypeOK
<1> QED
  BY <1>2, <1>3, <1>4, OneWorkerKept

LEMMA RecordFailsKeepsInv ==
  ASSUME DeliveryInv, NEW w \in Workers, recordFails(w) PROVE DeliveryInv'
<1>0. TypeOK
  BY DEF DeliveryInv
<1>1. worker' = [v \in Workers |-> worker'[v]] /\ \A v \in Workers : Keeps(v)
  BY <1>0, BrokenKept DEF recordFails
<1>2. /\ UNCHANGED <<event, active, delivery, dispatching, queue, sent, heard,
                     overwritten, replays>>
      /\ faults' \in 0..MaxFaults
  BY <1>0, DeliveryAssumption DEF recordFails, TypeOK
<1> QED
  BY <1>0, <1>1, <1>2, RowsKept, KeepingKeepsInv DEF TypeOK

(* The failure of an attempt is recorded once more. *)
LEMMA RecordedAgain ==
  ASSUME DeliveryInv, NEW w \in Workers, worker[w].step = "retry", Record(w, "FAILED")
  PROVE  /\ delivery' = [e \in Deliveries |-> delivery'[e]]
         /\ \A e \in Deliveries : RowKept(e)
         /\ delivery'[Of(w)].status = "FAILED"
         /\ \A e \in Deliveries \ {Of(w)} : delivery'[e] = delivery[e]
<1> DEFINE d == Of(w)
           n == worker[w].attempt
           new == [delivery[d] EXCEPT !.status = "FAILED", !.attemptCount = n]
<1>0. TypeOK
  BY DEF DeliveryInv
<1>1. d \in Deliveries /\ delivery[d] \in DeliveryType /\ n \in Attempts
  BY JobTyped DEF DeliveryInv, WorkersInTurn, Started
<1>2. Past(d, n)
  BY DEF DeliveryInv, WorkersInTurn, FreshAlone, Past
<1>3. n \in 0..MaxAttempts
  BY <1>1, DeliveryAssumption DEF Attempts
<1> HIDE DEF d, n
<1>4. /\ new \in DeliveryType
      /\ new.status = "FAILED" /\ new.attemptCount = n /\ new.tried = delivery[d].tried
  BY <1>1, <1>3 DEF DeliveryType
<1>5. delivery' = [delivery EXCEPT ![d] = new]
  BY DEF Record, d, n
<1> HIDE DEF new
<1>6. /\ delivery' = [e \in Deliveries |-> delivery'[e]] /\ delivery'[d] = new
      /\ \A e \in Deliveries \ {d} : delivery'[e] = delivery[e]
  BY <1>0, <1>1, <1>5 DEF TypeOK
<1>7. RowKept(d)
  BY <1>2, <1>4, <1>6 DEF RowKept
<1>8. \A e \in Deliveries \ {d} : RowKept(e)
  BY <1>0, <1>6 DEF RowKept, TypeOK
<1> QED
  BY <1>4, <1>6, <1>7, <1>8 DEF d

LEMMA RetryFailsKeepsInv ==
  ASSUME DeliveryInv, NEW w \in Workers, retryFails(w) PROVE DeliveryInv'
<1>0. TypeOK
  BY DEF DeliveryInv
<1>1. worker' = [v \in Workers |-> worker'[v]] /\ \A v \in Workers : Keeps(v)
  BY <1>0, BrokenKept DEF retryFails
<1>2. delivery' = [e \in Deliveries |-> delivery'[e]] /\ \A e \in Deliveries : RowKept(e)
  BY RecordedAgain DEF retryFails
<1>3. /\ UNCHANGED <<event, active, dispatching, sent, heard, replays>>
      /\ faults' \in 0..MaxFaults
  BY <1>0, DeliveryAssumption DEF retryFails, TypeOK
<1>4. /\ RetryJob(w) \in Jobs /\ RetryJob(w)[1] = Of(w) /\ Known(Of(w))
      /\ Of(w) \in Deliveries
  BY RetryJobTyped, JobTyped DEF retryFails
<1>5. overwritten' \subseteq Deliveries
  BY <1>0, <1>4 DEF retryFails, TypeOK
<1>6. PICK job \in Jobs : job = RetryJob(w) /\ job[1] \in Deliveries /\ Known(job[1])
  BY <1>4
<1>7. /\ queue' \subseteq Jobs
      /\ \A j \in queue' : j \in queue \/ Known(j[1])'
  <2>1. queue' \subseteq queue \cup {job}
    BY <1>6 DEF retryFails
  <2>2. Known(job[1])'
    BY <1>2, <1>3, <1>6 DEF Known, RowKept
  <2> QED
    BY <1>0, <1>6, <2>1, <2>2 DEF TypeOK
<1> QED
  BY <1>0, <1>1, <1>2, <1>3, <1>5, <1>7, KeepingKeepsInv DEF TypeOK

-----------------------------------------------------------------------------
(* The attempt. *)

(* A worker goes on with its job. *)
LEMMA GoesOn ==
  ASSUME TypeOK, NEW w \in Workers, NEW step \in {"send", "record", "retry"},
         NEW answer \in {"OK", "REFUSED", "BROKEN"},
         worker' = [worker EXCEPT ![w].step = step, ![w].answer = answer]
  PROVE  /\ worker' \in [Workers -> WorkerType]
         /\ worker'[w].step = step /\ worker'[w].answer = answer
         /\ worker'[w].job = worker[w].job /\ worker'[w].attempt = worker[w].attempt
         /\ \A v \in Workers \ {w} : worker'[v] = worker[v]
<1> DEFINE new == [worker[w] EXCEPT !.step = step, !.answer = answer]
<1>1. worker[w] \in WorkerType
  BY DEF TypeOK
<1>2. new \in WorkerType
  BY <1>1 DEF WorkerType
<1>3. /\ new.step = step /\ new.job = worker[w].job
      /\ new.attempt = worker[w].attempt
  BY <1>1 DEF WorkerType
<1>4. new.answer = answer
  BY <1>1 DEF WorkerType
<1>5. worker' = [worker EXCEPT ![w] = new]
  OBVIOUS
<1> HIDE DEF new
<1>6. /\ worker' \in [Workers -> WorkerType] /\ worker'[w] = new
      /\ \A v \in Workers \ {w} : worker'[v] = worker[v]
  BY <1>2, <1>5 DEF TypeOK
<1> QED
  BY <1>3, <1>4, <1>6

LEMMA BecomeEffect ==
  ASSUME TypeOK, NEW w \in Workers, NEW step \in {"send", "record", "retry"},
         Become(w, step)
  PROVE  /\ worker' \in [Workers -> WorkerType]
         /\ worker'[w].step = step
         /\ worker'[w].job = worker[w].job /\ worker'[w].attempt = worker[w].attempt
         /\ \A v \in Workers \ {w} : worker'[v] = worker[v]
<1> DEFINE new == [worker[w] EXCEPT !.step = step]
<1>1. worker[w] \in WorkerType
  BY DEF TypeOK
<1>2. /\ new \in WorkerType
      /\ new.step = step /\ new.job = worker[w].job
      /\ new.attempt = worker[w].attempt
  BY <1>1 DEF WorkerType
<1>3. worker' = [worker EXCEPT ![w] = new]
  BY DEF Become
<1> HIDE DEF new
<1> QED
  BY <1>2, <1>3 DEF TypeOK

LEMMA SendEffect ==
  ASSUME TypeOK, NEW w \in Workers, deliverSend(w)
  PROVE  /\ worker'[w].step = "record"
         /\ worker'[w].job = worker[w].job /\ worker'[w].attempt = worker[w].attempt
         /\ \A v \in Workers \ {w} : worker'[v] = worker[v]
<1>1. PICK accepted \in BOOLEAN, answer \in {"OK", "REFUSED", "BROKEN"} :
        Called(w, accepted, answer)
  BY DEF deliverSend
<1> QED
  BY <1>1, GoesOn DEF Called

(* A number that is not taken comes after all that are. *)
LEMMA NewNumber ==
  ASSUME TypeOK, InTurn, NEW d \in Deliveries, NEW n \in Attempts,
         n \notin delivery[d].tried
  PROVE  delivery[d].tried \subseteq 1..(n - 1) /\ Count(d) < n
<1>1. /\ delivery[d].tried \subseteq Attempts /\ Count(d) \in Nat /\ n \in Nat /\ n > 0
      /\ Attempts \subseteq Nat /\ \A k \in Attempts : k > 0
  BY DeliveryAssumption DEF TypeOK, DeliveryType, Count, Attempts
<1>2. \A k \in delivery[d].tried : 1..k \subseteq delivery[d].tried
  BY DEF InTurn
<1>3. ASSUME NEW k \in delivery[d].tried PROVE k < n
  <2>1. n \notin 1..k
    BY <1>2
  <2>2. k \in Nat
    BY <1>1
  <2>3. n \in Nat /\ n > 0
    BY <1>1
  <2> QED
    BY <2>1, <2>2, <2>3
<1>4. delivery[d].tried \subseteq 1..(n - 1)
  <2> SUFFICES ASSUME NEW k \in delivery[d].tried PROVE k \in 1..(n - 1)
    OBVIOUS
  <2>1. k \in Nat /\ k > 0 /\ k < n /\ n \in Nat
    BY <1>1, <1>3
  <2> QED
    BY <2>1
<1>5. Count(d) < n
  BY <1>1, <1>3 DEF InTurn
<1> QED
  BY <1>4, <1>5

(* Beginning an attempt: its number is the next one, as the earlier ones    *)
(* are taken, and nobody is working on it, or its number were taken too.    *)
LEMMA StartKeepsInv ==
  ASSUME DeliveryInv, NEW w \in Workers, deliverStart(w) PROVE DeliveryInv'
<1>0. /\ TypeOK /\ InTurn /\ WorkersInTurn /\ FreshAlone /\ OneCallInFlight
      /\ SentWasTried /\ AttemptSentOnce /\ AllKnown /\ SuccessHeard
  BY DEF DeliveryInv
<1> DEFINE d == Of(w)
           n == worker[w].attempt
           new == [delivery[d] EXCEPT !.status = "PROCESSING", !.tried = @ \cup {n}]
<1>1. worker[w].step = "start" /\ n \notin delivery[d].tried
  BY DEF deliverStart, FirstTry
<1>2. /\ worker[w].job \in Jobs /\ d \in Deliveries /\ Known(d)
      /\ delivery[d] \in DeliveryType /\ Count(d) \in 0..MaxAttempts
  BY <1>1, JobTyped
<1>3. n \in Attempts /\ 1..(n - 1) \subseteq delivery[d].tried
  BY <1>0, <1>1 DEF WorkersInTurn, Started
<1>4. delivery[d].tried \subseteq 1..(n - 1) /\ Count(d) < n
  BY <1>0, <1>1, <1>2, <1>3, NewNumber
<1>5. \A v \in Workers : Working(v) => Of(v) # d
  BY <1>0, <1>1 DEF FreshAlone, deliverStart
<1>6. /\ new \in DeliveryType
      /\ new.status = "PROCESSING" /\ new.attemptCount = delivery[d].attemptCount
      /\ new.tried = delivery[d].tried \cup {n}
  BY <1>2, <1>3 DEF DeliveryType
<1>7. /\ delivery' \in [Deliveries -> DeliveryType]
      /\ delivery'[d] = new /\ \A e \in Deliveries \ {d} : delivery'[e] = delivery[e]
  <2>1. delivery' = [delivery EXCEPT ![d] = new]
    BY DEF deliverStart
  <2> HIDE DEF new
  <2> QED
    BY <1>0, <1>2, <1>6, <2>1 DEF TypeOK
<1>8. /\ worker' \in [Workers -> WorkerType]
      /\ worker'[w].step = "send"
      /\ worker'[w].job = worker[w].job /\ worker'[w].attempt = n
      /\ \A v \in Workers \ {w} : worker'[v] = worker[v]
  BY <1>0, BecomeEffect DEF deliverStart
<1>9. UNCHANGED <<event, active, dispatching, queue, sent, heard, faults, replays>>
  BY DEF deliverStart
<1>10. \A e \in Deliveries :
         /\ Count(e)' = Count(e)
         /\ delivery'[e].tried = IF e = d THEN delivery[e].tried \cup {n}
                                          ELSE delivery[e].tried
         /\ Known(e) => Known(e)'
         /\ delivery'[e].status = "DELIVERED" => delivery[e].status = "DELIVERED"
  BY <1>6, <1>7, <1>9 DEF Count, Known
<1> HIDE DEF d, n, new
<1>11. TypeOK'
  BY <1>0, <1>7, <1>8, <1>9 DEF TypeOK, deliverStart, Rewritten
<1>12. InTurn'
  <2> SUFFICES ASSUME NEW e \in Deliveries
               PROVE  /\ Count(e) > 0 => Count(e) \in delivery'[e].tried
                      /\ \A k \in delivery'[e].tried : 1..k \subseteq delivery'[e].tried
    BY <1>10 DEF InTurn
  <2>1. /\ Count(e) > 0 => Count(e) \in delivery[e].tried
        /\ \A k \in delivery[e].tried : 1..k \subseteq delivery[e].tried
    BY <1>0 DEF InTurn
  <2>2. 1..n \subseteq 1..(n - 1) \cup {n}
    BY <1>3, DeliveryAssumption DEF Attempts
  <2> QED
    BY <1>3, <1>10, <2>1, <2>2
<1>13. \A v \in Workers : worker'[v].step # "idle" =>
         worker'[v].job \in Jobs /\ worker'[v].job[1] \in Deliveries
  <2>1. \A job \in Jobs : job[1] \in Deliveries
    BY DEF Jobs
  <2> QED
    BY <1>0, <1>2, <1>8, <2>1 DEF WorkersInTurn
<1>14. WorkersInTurn'
  <2> SUFFICES ASSUME NEW v \in Workers
               PROVE  /\ worker'[v].step \in Started => worker'[v].attempt \in Attempts
                      /\ worker'[v].step = "start" =>
                           1..(worker'[v].attempt - 1) \subseteq delivery'[Of(v)'].tried
                      /\ Working(v)' =>
                           /\ worker'[v].attempt \in delivery'[Of(v)'].tried
                           /\ delivery'[Of(v)'].tried \subseteq 1..worker'[v].attempt
                           /\ Count(Of(v))' < worker'[v].attempt
                      /\ worker'[v].step = "retry" =>
                           worker'[v].attempt \in delivery'[Of(v)'].tried
    BY <1>13 DEF WorkersInTurn
  <2>1. CASE v = w
    <3>1. Of(v)' = d
      BY <1>8, <2>1 DEF Of, d
    <3>2. Count(Of(v))' = Count(d)
      BY <1>2, <1>10, <3>1 DEF Count
    <3>3. delivery'[d].tried = delivery[d].tried \cup {n}
      BY <1>2, <1>10
    <3>4. 1..(n - 1) \cup {n} \subseteq 1..n
      BY <1>3, DeliveryAssumption DEF Attempts
    <3>5. delivery'[d].tried \subseteq 1..n
      BY <1>4, <3>3, <3>4
    <3> QED
      BY <1>3, <1>4, <1>8, <2>1, <3>1, <3>2, <3>3, <3>5
  <2>2. CASE v # w
    <3>1. Of(v)' = Of(v) /\ worker'[v] = worker[v] /\ (Working(v)' <=> Working(v))
      BY <1>8, <2>2 DEF Of, Working
    <3>2. worker[v].step # "idle" => Of(v) \in Deliveries
      BY <1>13, <3>1 DEF Of
    <3>3. worker[v].step # "idle" =>
            /\ Count(Of(v))' = Count(Of(v))
            /\ delivery[Of(v)].tried \subseteq delivery'[Of(v)].tried
      BY <1>10, <3>1, <3>2 DEF Count
    <3>4. Working(v) => /\ worker[v].step # "idle"
                        /\ delivery'[Of(v)].tried = delivery[Of(v)].tried
      BY <1>5, <1>10, <3>2 DEF Working
    <3> QED
      BY <1>0, <3>1, <3>3, <3>4 DEF WorkersInTurn, Started
  <2> QED
    BY <2>1, <2>2
<1>15. OneCallInFlight' /\ FreshAlone'
  <2>1. OneCallInFlight'
    BY <1>0, <1>5, <1>8 DEF OneCallInFlight, Working, Of, d
  <2>2. ASSUME NEW v \in Workers, NEW u \in Workers, Working(v)', Of(v)' = Of(u)'
        PROVE  /\ worker'[u].step = "start" =>
                    worker'[u].attempt \in delivery'[Of(u)'].tried
               /\ worker'[u].step = "retry" => worker'[u].attempt < worker'[v].attempt
    <3>1. CASE u = w
      BY <1>8, <3>1
    <3>2. CASE u # w /\ v # w
      <4>1. /\ worker'[u] = worker[u] /\ Of(u)' = Of(u) /\ Working(v)
            /\ worker'[v] = worker[v] /\ Of(v) = Of(u)
        BY <1>8, <2>2, <3>2 DEF Of, Working
      <4>2. delivery[Of(u)].tried \subseteq delivery'[Of(u)].tried
        <5>1. worker[v].step # "idle"
          BY <4>1 DEF Working
        <5>2. Of(u) \in Deliveries
          BY <4>1, <5>1, JobTyped
        <5> QED
          BY <1>10, <5>2
      <4> QED
        BY <1>0, <4>1, <4>2 DEF FreshAlone, FirstTry
    <3>3. CASE u # w /\ v = w
      <4>1. worker'[u] = worker[u] /\ Of(u)' = d /\ Of(u) = d /\ worker'[v].attempt = n
        BY <1>8, <2>2, <3>3 DEF Of, d
      <4>2. delivery'[d].tried = delivery[d].tried \cup {n}
        BY <1>2, <1>10
      <4>3. CASE worker[u].step = "start"
        <5>1. /\ worker[u].attempt \in Attempts
              /\ 1..(worker[u].attempt - 1) \subseteq delivery[d].tried
          BY <1>0, <4>1, <4>3 DEF WorkersInTurn, Started
        <5>2. n \notin 1..(worker[u].attempt - 1)
          BY <1>1, <5>1 DEF d, n
        <5>3. worker[u].attempt = n \/ worker[u].attempt \in 1..(n - 1)
          BY <1>3, <5>1, <5>2, DeliveryAssumption DEF Attempts
        <5> QED
          BY <1>3, <4>1, <4>2, <4>3, <5>3
      <4>4. CASE worker[u].step = "retry"
        <5>1. worker[u].attempt \in delivery[d].tried
          BY <1>0, <4>1, <4>4 DEF WorkersInTurn
        <5>2. worker[u].attempt \in 1..(n - 1)
          BY <1>4, <5>1
        <5> QED
          BY <1>3, <4>1, <4>4, <5>2, DeliveryAssumption DEF Attempts
      <4> QED
        BY <4>1, <4>3, <4>4
    <3> QED
      BY <3>1, <3>2, <3>3
  <2> QED
    BY <2>1, <2>2 DEF FreshAlone, FirstTry
<1>16. SentWasTried' /\ AttemptSentOnce'
  <2>1. sent[d][n] = 0
    BY <1>0, <1>1, <1>2, <1>3 DEF SentWasTried, TypeOK, d, n
  <2>2. \A v \in Workers :
          worker'[v].step = "send" => sent'[Of(v)'][worker'[v].attempt] = 0
    BY <1>0, <1>8, <1>9, <2>1 DEF SentWasTried, Of, d
  <2> QED
    BY <1>0, <1>9, <1>10, <2>2 DEF SentWasTried, AttemptSentOnce
<1>17. AllKnown'
  <2>1. \A job \in queue : job[1] \in Deliveries
    BY <1>0 DEF TypeOK, Jobs
  <2>2. \A v \in Workers : worker'[v].step # "idle" => Known(Of(v))'
    <3> SUFFICES ASSUME NEW v \in Workers, worker'[v].step # "idle",
                        NEW e, e = worker'[v].job[1]
                 PROVE  Known(e)'
      BY DEF Of, Known
    <3>1. e = Of(v) /\ worker[v].step # "idle"
      BY <1>1, <1>8 DEF Of
    <3>2. Known(e) /\ e \in Deliveries
      BY <1>0, <3>1, JobTyped DEF AllKnown
    <3> QED
      BY <1>10, <3>2
  <2> QED
    BY <1>0, <1>9, <1>10, <2>1, <2>2 DEF AllKnown, TypeOK
<1>18. SuccessHeard'
  BY <1>0, <1>8, <1>9, <1>10 DEF SuccessHeard, Of
<1> QED
  BY <1>11, <1>12, <1>14, <1>15, <1>16, <1>17, <1>18 DEF DeliveryInv

(* Calling the partner: no other worker is calling it for this delivery.    *)
LEMMA SendKeepsInv ==
  ASSUME DeliveryInv, NEW w \in Workers, deliverSend(w) PROVE DeliveryInv'
<1>0. /\ TypeOK /\ InTurn /\ WorkersInTurn /\ FreshAlone /\ OneCallInFlight
      /\ SentWasTried /\ AttemptSentOnce /\ AllKnown /\ SuccessHeard
  BY DEF DeliveryInv
<1> DEFINE d == Of(w)
           n == worker[w].attempt
<1>1. worker[w].step = "send" /\ Working(w)
  BY DEF deliverSend, Called, Working
<1>2. d \in Deliveries /\ Known(d) /\ worker[w].job \in Jobs
  BY <1>1, JobTyped
<1>3. n \in Attempts /\ n \in delivery[d].tried
  BY <1>0, <1>1 DEF WorkersInTurn, Started
<1>4. PICK accepted \in BOOLEAN, answer \in {"OK", "REFUSED", "BROKEN"} :
        Called(w, accepted, answer) /\ (answer = "OK" => accepted)
  BY DEF deliverSend
<1>5. /\ sent' = [sent EXCEPT ![d][n] = @ + 1]
      /\ heard' = IF accepted THEN heard \cup {d} ELSE heard
      /\ UNCHANGED <<event, active, delivery, dispatching, queue, overwritten,
                     faults, replays>>
  BY <1>4 DEF Called
<1>6. /\ worker' \in [Workers -> WorkerType]
      /\ worker'[w].step = "record" /\ worker'[w].answer = answer
      /\ worker'[w].job = worker[w].job /\ worker'[w].attempt = n
      /\ \A v \in Workers \ {w} : worker'[v] = worker[v]
  BY <1>0, <1>4, GoesOn DEF Called
<1>7. /\ heard \subseteq heard' /\ heard' \subseteq heard \cup {d}
      /\ answer = "OK" => d \in heard'
  BY <1>4, <1>5
<1> HIDE DEF d, n
<1>8. /\ sent' \in [Deliveries -> [Attempts -> Nat]]
      /\ sent'[d][n] = sent[d][n] + 1
      /\ \A e \in Deliveries, m \in Attempts :
           e # d \/ m # n => sent'[e][m] = sent[e][m]
  BY <1>0, <1>2, <1>3, <1>5 DEF TypeOK
<1>9. sent[d][n] = 0
  BY <1>0, <1>1 DEF SentWasTried, d, n
<1>10. \A v \in Workers \ {w} : Working(v) => Of(v) # d
  BY <1>0, <1>1 DEF OneCallInFlight, d
<1>11. \A v \in Workers : Of(v)' = Of(v)
  BY <1>6 DEF Of
<1>12. \A v \in Workers : Working(v)' => Working(v)
  BY <1>1, <1>6 DEF Working
<1>13. TypeOK'
  BY <1>0, <1>2, <1>5, <1>6, <1>7, <1>8 DEF TypeOK
<1>14. InTurn'
  BY <1>0, <1>5 DEF InTurn, Count
<1>15. WorkersInTurn'
  <2> SUFFICES ASSUME NEW v \in Workers
               PROVE  /\ worker'[v].step # "idle" => worker'[v].job \in Jobs
                      /\ worker'[v].step \in Started => worker'[v].attempt \in Attempts
                      /\ worker'[v].step = "start" =>
                           1..(worker'[v].attempt - 1) \subseteq delivery[Of(v)].tried
                      /\ Working(v)' =>
                           /\ worker'[v].attempt \in delivery[Of(v)].tried
                           /\ delivery[Of(v)].tried \subseteq 1..worker'[v].attempt
                           /\ Count(Of(v)) < worker'[v].attempt
                      /\ worker'[v].step = "retry" =>
                           worker'[v].attempt \in delivery[Of(v)].tried
    BY <1>5, <1>11 DEF WorkersInTurn, Count
  <2>1. CASE v = w
    BY <1>0, <1>1, <1>2, <1>3, <1>6, <2>1 DEF WorkersInTurn, n, d
  <2>2. CASE v # w
    BY <1>0, <1>6, <1>12, <2>2 DEF WorkersInTurn
  <2> QED
    BY <2>1, <2>2
<1>16. OneCallInFlight' /\ FreshAlone'
  <2>1. \A v \in Workers : worker'[v].attempt = worker[v].attempt
                           /\ (worker'[v].step \in {"start", "retry"} =>
                                 worker'[v].step = worker[v].step)
    BY <1>6 DEF n
  <2> QED
    BY <1>0, <1>5, <1>11, <1>12, <2>1 DEF OneCallInFlight, FreshAlone, FirstTry
<1>17. SentWasTried'
  <2>1. \A e \in Deliveries, m \in Attempts : sent'[e][m] > 0 => m \in delivery'[e].tried
    BY <1>0, <1>3, <1>5, <1>8 DEF SentWasTried
  <2>2. ASSUME NEW v \in Workers, worker'[v].step = "send"
        PROVE  sent'[Of(v)][worker'[v].attempt] = 0
    <3>1. v # w /\ worker'[v] = worker[v] /\ Working(v)
      BY <1>6, <2>2 DEF Working
    <3>2. Of(v) # d /\ Of(v) \in Deliveries /\ worker[v].attempt \in Attempts
      BY <1>0, <1>10, <2>2, <3>1, JobTyped DEF WorkersInTurn, Started
    <3> QED
      BY <1>0, <1>8, <2>2, <3>1, <3>2 DEF SentWasTried
  <2> QED
    BY <1>11, <2>1, <2>2 DEF SentWasTried
<1>18. AttemptSentOnce'
  BY <1>0, <1>8, <1>9 DEF AttemptSentOnce
<1>19. AllKnown'
  <2>1. \A e : Known(e)' <=> Known(e)
    BY <1>5 DEF Known
  <2>2. \A v \in Workers : worker'[v].step # "idle" => Known(Of(v))
    BY <1>0, <1>2, <1>6 DEF AllKnown, d
  <2> QED
    BY <1>0, <1>2, <1>5, <1>7, <1>11, <2>1, <2>2 DEF AllKnown
<1>20. SuccessHeard'
  BY <1>0, <1>5, <1>6, <1>7, <1>11 DEF SuccessHeard, d
<1> QED
  BY <1>13, <1>14, <1>15, <1>16, <1>17, <1>18, <1>19, <1>20 DEF DeliveryInv

(* Recording the outcome counts the attempt that is in flight, the last one.*)
LEMMA RecordKeepsInv ==
  ASSUME DeliveryInv, NEW w \in Workers, deliverSucceeded(w) \/ deliverFailed(w)
  PROVE  DeliveryInv'
<1>0. /\ TypeOK /\ InTurn /\ WorkersInTurn /\ FreshAlone /\ OneCallInFlight
      /\ SentWasTried /\ AttemptSentOnce /\ AllKnown /\ SuccessHeard
  BY DEF DeliveryInv
<1> DEFINE d == Of(w)
           n == worker[w].attempt
<1>1. worker[w].step = "record" /\ Working(w)
  BY DEF deliverSucceeded, deliverFailed, Working
<1>2. /\ d \in Deliveries /\ Known(d) /\ worker[w].job \in Jobs
      /\ delivery[d] \in DeliveryType /\ Count(d) \in 0..MaxAttempts
  BY <1>1, JobTyped
<1>3. /\ n \in Attempts /\ n \in delivery[d].tried
      /\ delivery[d].tried \subseteq 1..n
  BY <1>0, <1>1 DEF WorkersInTurn, Started
<1>4. PICK status \in {"DELIVERED", "FAILED", "DEAD_LETTERED"} :
        Record(w, status) /\ (status = "DELIVERED" => worker[w].answer = "OK")
  BY DEF deliverSucceeded, deliverFailed
<1>5. /\ UNCHANGED <<event, active, dispatching, queue, sent, heard, faults, replays>>
      /\ overwritten' \subseteq overwritten
  BY DEF deliverSucceeded, deliverFailed, Rewritten
<1> DEFINE new == [delivery[d] EXCEPT !.status = status, !.attemptCount = n]
<1>6. /\ new \in DeliveryType /\ new.status = status
      /\ new.attemptCount = n /\ new.tried = delivery[d].tried
  <2>1. n \in 0..MaxAttempts
    BY <1>3, DeliveryAssumption DEF Attempts
  <2> HIDE DEF d, n
  <2> QED
    BY <1>2, <2>1 DEF DeliveryType
<1>7. delivery' = [delivery EXCEPT ![d] = new]
  BY <1>4 DEF Record
<1> HIDE DEF new
<1>8. /\ delivery' \in [Deliveries -> DeliveryType] /\ delivery'[d] = new
      /\ \A e \in Deliveries \ {d} : delivery'[e] = delivery[e]
  BY <1>0, <1>2, <1>6, <1>7 DEF TypeOK
<1>9. /\ worker' \in [Workers -> WorkerType]
      /\ \/ worker'[w].step = "idle"
         \/ /\ worker'[w].step = "retry" /\ worker'[w].job = worker[w].job
            /\ worker'[w].attempt = n
      /\ \A v \in Workers \ {w} : worker'[v] = worker[v]
  <2>1. Rest(w) \/ Become(w, "retry")
    BY DEF deliverSucceeded, deliverFailed
  <2>2. Resting \in WorkerType /\ Resting.step = "idle"
    BY DeliveryAssumption DEF Resting, WorkerType
  <2> QED
    BY <1>0, <2>1, <2>2, BecomeEffect DEF Rest, TypeOK
<1>10. \A e \in Deliveries :
         /\ Count(e)' = IF e = d THEN n ELSE Count(e)
         /\ delivery'[e].tried = delivery[e].tried
  BY <1>6, <1>8 DEF Count
<1>11. \A e \in Deliveries : Known(e) => Known(e)'
  BY <1>4, <1>5, <1>6, <1>8 DEF Known
<1>12. \A v \in Workers : v # w =>
         /\ worker'[v] = worker[v] /\ Of(v)' = Of(v) /\ (Working(v)' <=> Working(v))
         /\ worker[v].step # "idle" => Of(v) \in Deliveries
         /\ Working(v) => Of(v) # d
  BY <1>0, <1>1, <1>9, JobTyped DEF Of, Working, OneCallInFlight
<1>22. worker'[w].step = "retry" => worker'[w].attempt = n
  BY <1>9
<1>13. ~Working(w)' /\ (worker'[w].step # "idle" => worker'[w].step = "retry" /\ Of(w)' = d)
  BY <1>9 DEF Working, Of
<1> HIDE DEF d, n
<1>14. TypeOK'
  BY <1>0, <1>5, <1>8, <1>9 DEF TypeOK
<1>15. InTurn'
  <2>1. \A e \in Deliveries :
          /\ Count(e)' > 0 => Count(e)' \in delivery'[e].tried
          /\ \A k \in delivery'[e].tried : 1..k \subseteq delivery'[e].tried
    BY <1>0, <1>3, <1>10 DEF InTurn
  <2> QED
    BY <2>1 DEF InTurn
<1>16. \A v \in Workers : worker'[v].step # "idle" => worker'[v].job \in Jobs
  BY <1>0, <1>2, <1>9 DEF WorkersInTurn
<1>17. WorkersInTurn'
  <2> SUFFICES ASSUME NEW v \in Workers
               PROVE  /\ worker'[v].step \in Started => worker'[v].attempt \in Attempts
                      /\ worker'[v].step = "start" =>
                           1..(worker'[v].attempt - 1) \subseteq delivery'[Of(v)'].tried
                      /\ Working(v)' =>
                           /\ worker'[v].attempt \in delivery'[Of(v)'].tried
                           /\ delivery'[Of(v)'].tried \subseteq 1..worker'[v].attempt
                           /\ Count(Of(v))' < worker'[v].attempt
                      /\ worker'[v].step = "retry" =>
                           worker'[v].attempt \in delivery'[Of(v)'].tried
    BY <1>16 DEF WorkersInTurn
  <2>1. CASE v = w
    BY <1>2, <1>3, <1>10, <1>13, <1>22, <2>1 DEF Started
  <2>2. CASE v # w
    <3>1. /\ worker'[v] = worker[v] /\ Of(v)' = Of(v) /\ (Working(v)' => Working(v))
          /\ worker[v].step # "idle" => delivery'[Of(v)].tried = delivery[Of(v)].tried
      BY <1>10, <1>12, <2>2
    <3>2. Working(v) => worker[v].step # "idle" /\ Count(Of(v))' = Count(Of(v))
      BY <1>10, <1>12, <2>2 DEF Working, Count
    <3> QED
      BY <1>0, <3>1, <3>2 DEF WorkersInTurn, Started
  <2> QED
    BY <2>1, <2>2
<1>18. OneCallInFlight' /\ FreshAlone'
  <2>1. OneCallInFlight'
    BY <1>0, <1>12, <1>13 DEF OneCallInFlight
  <2>2. ASSUME NEW v \in Workers, NEW u \in Workers, Working(v)', Of(v)' = Of(u)'
        PROVE  /\ worker'[u].step = "start" =>
                    worker'[u].attempt \in delivery'[Of(u)'].tried
               /\ worker'[u].step = "retry" => worker'[u].attempt < worker'[v].attempt
    <3>1. v # w /\ Working(v) /\ worker'[v] = worker[v] /\ Of(v)' = Of(v) /\ Of(v) # d
      BY <1>12, <1>13, <2>2
    <3>2. Of(v) \in Deliveries
      BY <1>12, <3>1 DEF Working
    <3>3. CASE u = w
      BY <1>13, <2>2, <3>1, <3>3
    <3>4. CASE u # w
      <4>1. worker'[u] = worker[u] /\ Of(u)' = Of(u)
        BY <1>12, <3>4
      <4> QED
        BY <1>0, <1>10, <2>2, <3>1, <3>2, <4>1 DEF FreshAlone, FirstTry
    <3> QED
      BY <3>3, <3>4
  <2> QED
    BY <2>1, <2>2 DEF FreshAlone, FirstTry
<1>19. SentWasTried' /\ AttemptSentOnce'
  <2>1. \A v \in Workers :
          worker'[v].step = "send" => sent'[Of(v)'][worker'[v].attempt] = 0
    BY <1>0, <1>5, <1>12, <1>13 DEF SentWasTried
  <2> QED
    BY <1>0, <1>5, <1>10, <2>1 DEF SentWasTried, AttemptSentOnce
<1>20. AllKnown'
  <2>1. \A job \in queue : job[1] \in Deliveries
    BY <1>0 DEF TypeOK, Jobs
  <2>2. \A v \in Workers : worker'[v].step # "idle" => Known(Of(v))'
    <3> SUFFICES ASSUME NEW v \in Workers, worker'[v].step # "idle",
                        NEW e, e = worker'[v].job[1]
                 PROVE  Known(e)'
      BY DEF Of, Known
    <3>1. e = Of(v)'
      BY DEF Of
    <3>2. CASE v = w
      BY <1>2, <1>11, <1>13, <3>1, <3>2 DEF d
    <3>3. CASE v # w
      BY <1>0, <1>11, <1>12, <3>1, <3>3 DEF AllKnown
    <3> QED
      BY <3>2, <3>3
  <2> QED
    BY <1>0, <1>5, <1>11, <2>1, <2>2 DEF AllKnown, TypeOK
<1>21. SuccessHeard'
  <2>1. \A e \in Deliveries : delivery'[e].status = "DELIVERED" => e \in heard
    BY <1>0, <1>1, <1>4, <1>6, <1>8 DEF SuccessHeard, d
  <2> QED
    BY <1>0, <1>5, <1>12, <1>13, <2>1 DEF SuccessHeard
<1> QED
  BY <1>14, <1>15, <1>17, <1>18, <1>19, <1>20, <1>21 DEF DeliveryInv

(* Every step keeps the invariant. *)
LEMMA NextDeliveryInv == DeliveryInv /\ [Next]_vars => DeliveryInv'
<1> SUFFICES ASSUME DeliveryInv, [Next]_vars PROVE DeliveryInv'
  OBVIOUS
<1>1. CASE UNCHANGED vars
  <2>1. UNCHANGED <<event, active, delivery, dispatching, queue, worker, sent, heard,
                    overwritten, faults, replays>>
    BY <1>1 DEF vars
  <2> QED
    BY <2>1, RowsKept, WorkersKept, KeepingKeepsInv DEF DeliveryInv, TypeOK
<1>2. ASSUME NEW w \in Workers, \/ Deliver(w) \/ recordFails(w) \/ retryFails(w)
                                \/ crash(w) \/ stall(w)
      PROVE  DeliveryInv'
  BY <1>2, RejectKeepsInv, StartKeepsInv, SendKeepsInv, RecordKeepsInv,
     RequeueKeepsInv, RecordFailsKeepsInv, RetryFailsKeepsInv DEF Deliver
<1>3. ASSUME NEW job \in Jobs, Take(job) PROVE DeliveryInv'
  BY <1>3, ReadKeepsInv DEF Take
<1>4. CASE Next
  BY <1>2, <1>3, <1>4, DispatchKeepsInv, CommitKeepsInv, ReplayKeepsInv DEF Next
<1> QED
  BY <1>1, <1>4

LEMMA DeliveryInvariant == Spec => []DeliveryInv
BY InitDeliveryInv, NextDeliveryInv, PTL DEF Spec

-----------------------------------------------------------------------------
(* A delivery that failed or was delivered rests, unless that is not what   *)
(* was last made of it.  Nobody is in the middle of an attempt at it, and   *)
(* whoever is still about to begin one will find that its number is taken.  *)
Rests(d) == delivery[d].status \in Settled /\ d \notin overwritten

AtRest(w) ==
  ~Working(w) /\ (worker[w].step = "start" => worker[w].attempt \in delivery[Of(w)].tried)

SettledAtRest ==
  \A w \in Workers :
    worker[w].step # "idle" /\ Rests(Of(w)) => AtRest(w)

(* Nothing comes to rest, and a worker does no more on what rests than it   *)
(* did.                                                                     *)
NoneComesToRest == \A d \in Deliveries :
  Rests(d)' => Rests(d) /\ delivery'[d].tried = delivery[d].tried

LEMMA RestStays ==
  ASSUME SettledAtRest, NoneComesToRest,
         \A w \in Workers : worker'[w].step # "idle" =>
           /\ Of(w)' \in Deliveries
           /\ \/ delivery'[Of(w)'].status \notin Settled
              \/ worker'[w].step \in {"reject", "retry"}
              \/ /\ worker[w].step # "idle"
                 /\ worker'[w].job = worker[w].job /\ worker'[w].attempt = worker[w].attempt
                 /\ Working(w)' => Working(w)
                 /\ worker'[w].step = "start" => worker[w].step = "start"
  PROVE  SettledAtRest'
<1> SUFFICES ASSUME NEW w \in Workers, worker'[w].step # "idle",
                    NEW d \in Deliveries, d = Of(w)', Rests(d)'
             PROVE  AtRest(w)'
  BY DEF SettledAtRest, Rests
<1>1. delivery'[d].tried = delivery[d].tried /\ Rests(d)
  BY DEF NoneComesToRest
<1>2. CASE worker'[w].step \in {"reject", "retry"}
  BY <1>2 DEF AtRest, Working
<1>3. CASE /\ worker[w].step # "idle"
           /\ worker'[w].job = worker[w].job /\ worker'[w].attempt = worker[w].attempt
           /\ Working(w)' => Working(w)
           /\ worker'[w].step = "start" => worker[w].step = "start"
  <2>1. Of(w) = d
    BY <1>3 DEF Of
  <2>2. AtRest(w)
    BY <1>1, <1>3, <2>1 DEF SettledAtRest
  <2> QED
    BY <1>1, <1>3, <2>1, <2>2 DEF AtRest
<1> QED
  BY <1>2, <1>3 DEF Rests

(* Workers that stay where they are, or rest, or fail.                      *)
LEMMA WorkersLeaveRest ==
  ASSUME DeliveryInv, SettledAtRest, NoneComesToRest,
         \A w \in Workers : \/ worker'[w].step = "idle"
                            \/ /\ worker'[w].step = worker[w].step
                               /\ worker'[w].job = worker[w].job
                               /\ worker'[w].attempt = worker[w].attempt
  PROVE  SettledAtRest'
<1>1. ASSUME NEW w \in Workers, worker'[w].step # "idle"
      PROVE  /\ worker'[w].step = worker[w].step /\ worker'[w].job = worker[w].job
             /\ worker'[w].attempt = worker[w].attempt
             /\ Of(w)' \in Deliveries /\ (Working(w)' => Working(w))
  <2>1. worker'[w].step = worker[w].step /\ worker'[w].job = worker[w].job
        /\ worker'[w].attempt = worker[w].attempt
    BY <1>1
  <2>2. Of(w)' = Of(w) /\ Of(w) \in Deliveries
    BY <1>1, <2>1, JobTyped DEF Of
  <2> QED
    BY <2>1, <2>2 DEF Working
<1> QED
  BY <1>1, RestStays

(* One worker rests. *)
LEMMA OneRests ==
  ASSUME TypeOK, NEW w \in Workers, Rest(w)
  PROVE  worker'[w].step = "idle" /\ \A v \in Workers \ {w} : worker'[v] = worker[v]
BY DEF TypeOK, Rest, Resting

LEMMA RestAfterDispatch ==
  ASSUME DeliveryInv, SettledAtRest,
         \/ \E e \in Events : append(e)
         \/ \E s \in Subscriptions : subscribe(s) \/ revoke(s)
         \/ dispatchCommit \/ dispatchEnqueue \/ dispatchFails \/ dispatchOverlaps
         \/ \E d \in Deliveries : replayDelivery(d)
         \/ \E w \in Workers : stall(w) \/ crash(w) \/ deliverRefused(w)
         \/ UNCHANGED <<delivery, worker, overwritten>>
  PROVE  SettledAtRest'
<1>0. TypeOK
  BY DEF DeliveryInv
<1>1. NoneComesToRest
  <2> SUFFICES ASSUME NEW d \in Deliveries, Rests(d)'
               PROVE  Rests(d) /\ delivery'[d].tried = delivery[d].tried
    BY DEF NoneComesToRest
  <2>1. ASSUME delivery'[d] = delivery[d], UNCHANGED overwritten
        PROVE  Rests(d) /\ delivery'[d].tried = delivery[d].tried
    BY <2>1 DEF Rests
  <2>2. CASE dispatchCommit
    <3>1. delivery'[d] =
            IF d \in Pending \X active /\ delivery[d].status = "NONE"
              THEN [delivery[d] EXCEPT !.status = "PENDING"] ELSE delivery[d]
      BY <2>2 DEF dispatchCommit
    <3>2. [delivery[d] EXCEPT !.status = "PENDING"].status = "PENDING"
      BY <1>0 DEF TypeOK, DeliveryType
    <3> QED
      BY <2>1, <2>2, <3>1, <3>2 DEF Rests, Settled, dispatchCommit
  <2>3. ASSUME NEW e \in Deliveries, replayDelivery(e)
        PROVE  Rests(d) /\ delivery'[d].tried = delivery[d].tried
    <3>1. d # e /\ delivery'[d] = delivery[d]
      BY <1>0, <2>3 DEF replayDelivery, TypeOK, DeliveryType, Rests, Settled
    <3> QED
      BY <2>3, <3>1 DEF replayDelivery, Rewritten, Rests
  <2> QED
    BY <2>1, <2>2, <2>3 DEF append, subscribe, revoke, dispatchEnqueue, dispatchFails,
       dispatchOverlaps, stall, crash, deliverRefused
<1>2. ASSUME NEW v \in Workers
      PROVE  worker'[v].step = "idle" \/ worker'[v] = worker[v]
  <2>1. ASSUME NEW w \in Workers, Rest(w)
        PROVE  worker'[v].step = "idle" \/ worker'[v] = worker[v]
    BY <1>0, <2>1, OneRests
  <2> QED
    BY <2>1 DEF append, subscribe, revoke, dispatchCommit, dispatchEnqueue,
       dispatchFails, dispatchOverlaps, replayDelivery, stall, crash, deliverRefused
<1> QED
  BY <1>1, <1>2, WorkersLeaveRest

LEMMA RestAfterRead ==
  ASSUME DeliveryInv, SettledAtRest, NEW w \in Workers, NEW job \in Jobs,
         deliverRead(w, job)
  PROVE  SettledAtRest'
<1>0. TypeOK
  BY DEF DeliveryInv
<1>1. CASE UNCHANGED worker
  BY <1>1, RestAfterDispatch DEF deliverRead
<1>2. ASSUME Deliverable(job[1]),
             NEW new, new.job = job, worker' = [worker EXCEPT ![w] = new]
      PROVE  SettledAtRest'
  <2>1. UNCHANGED <<delivery, overwritten>>
    BY DEF deliverRead
  <2>2. worker'[w].job = job /\ \A v \in Workers \ {w} : worker'[v] = worker[v]
    BY <1>0, <1>2 DEF TypeOK
  <2>3. Of(w)' \in Deliveries /\ delivery'[Of(w)'].status \notin Settled
    BY <1>2, <2>1, <2>2 DEF Of, Deliverable, Jobs, Settled
  <2>4. ASSUME NEW v \in Workers \ {w}, worker'[v].step # "idle"
        PROVE  /\ Of(v)' \in Deliveries /\ worker[v].step # "idle"
               /\ worker'[v] = worker[v] /\ (Working(v)' => Working(v))
    BY <2>2, <2>4, JobTyped DEF Of, Working
  <2>5. NoneComesToRest
    BY <2>1 DEF NoneComesToRest, Rests
  <2> QED
    BY <2>3, <2>4, <2>5, RestStays
<1>3. \/ UNCHANGED worker
      \/ /\ Deliverable(job[1])
         /\ \E step \in {"reject", "start"} :
              worker' = [worker EXCEPT ![w] =
                [step |-> step, job |-> job, attempt |-> NextAttempt(job[1]),
                 answer |-> "NONE"]]
  BY DEF deliverRead
<1> QED
  BY <1>1, <1>2, <1>3

LEMMA RestAfterWork ==
  ASSUME DeliveryInv, SettledAtRest, NEW w \in Workers,
         \/ deliverReject(w) \/ deliverStart(w) \/ deliverSend(w) \/ deliverRetry(w)
         \/ recordFails(w) \/ retryFails(w)
  PROVE  SettledAtRest'
<1>0. TypeOK
  BY DEF DeliveryInv
<1>1. worker[w].step # "idle"
  BY DEF deliverReject, deliverStart, deliverSend, deliverRetry, recordFails, retryFails,
         Called
<1>2. Of(w) \in Deliveries /\ delivery[Of(w)] \in DeliveryType
  BY <1>1, JobTyped
<1>3. ASSUME NEW v \in Workers \ {w}, worker'[v] = worker[v], worker'[v].step # "idle"
      PROVE  Of(v)' \in Deliveries /\ worker[v].step # "idle"
             /\ (Working(v)' => Working(v))
  BY <1>3, JobTyped DEF Of, Working
<1>4. ASSUME delivery'[Of(w)].status \notin Settled \/ Of(w) \in overwritten',
             \A d \in Deliveries \ {Of(w)} :
               delivery'[d] = delivery[d] /\ (d \in overwritten => d \in overwritten')
      PROVE  NoneComesToRest
  BY <1>4 DEF NoneComesToRest, Rests
<1>5. CASE deliverReject(w)
  <2>1. NoneComesToRest
    BY <1>0, <1>2, <1>4, <1>5 DEF deliverReject, Rewritten, TypeOK, DeliveryType, Settled
  <2>2. worker'[w].step = "idle" /\ \A v \in Workers \ {w} : worker'[v] = worker[v]
    BY <1>0, <1>5, OneRests DEF deliverReject
  <2> QED
    BY <2>1, <2>2, WorkersLeaveRest
<1>6. CASE deliverStart(w)
  <2>1. /\ delivery'[Of(w)].status = "PROCESSING"
        /\ \A d \in Deliveries \ {Of(w)} : delivery'[d] = delivery[d]
    BY <1>0, <1>2, <1>6 DEF deliverStart, TypeOK, DeliveryType
  <2>2. worker'[w].job = worker[w].job /\ \A v \in Workers \ {w} : worker'[v] = worker[v]
    BY <1>0, <1>6, BecomeEffect DEF deliverStart
  <2>3. Of(w)' = Of(w)
    BY <2>2 DEF Of
  <2>4. NoneComesToRest
    BY <1>4, <1>6, <2>1 DEF deliverStart, Rewritten, Settled
  <2> QED
    BY <1>2, <1>3, <2>1, <2>2, <2>3, <2>4, RestStays DEF Settled
<1>7. CASE deliverSend(w) \/ recordFails(w)
  <2>1. NoneComesToRest
    BY <1>7 DEF deliverSend, Called, recordFails, NoneComesToRest, Rests
  <2>2. /\ worker'[w].step = "record"
        /\ worker'[w].job = worker[w].job /\ worker'[w].attempt = worker[w].attempt
        /\ \A v \in Workers \ {w} : worker'[v] = worker[v]
    BY <1>0, <1>7, BrokenKept, SendEffect DEF recordFails
  <2>3. Of(w)' = Of(w) /\ Working(w)
    BY <1>7, <2>2 DEF Of, Working, deliverSend, Called, recordFails
  <2> QED
    BY <1>1, <1>2, <1>3, <2>1, <2>2, <2>3, RestStays
<1>8. CASE deliverRetry(w)
  <2>1. worker'[w].step = "idle" /\ \A v \in Workers \ {w} : worker'[v] = worker[v]
    BY <1>0, <1>8, OneRests DEF deliverRetry
  <2>2. NoneComesToRest
    BY <1>8 DEF deliverRetry, NoneComesToRest, Rests
  <2> QED
    BY <2>1, <2>2, WorkersLeaveRest
<1>9. CASE retryFails(w)
  <2>1. /\ worker'[w].step = worker[w].step /\ worker'[w].job = worker[w].job
        /\ worker'[w].attempt = worker[w].attempt
        /\ \A v \in Workers \ {w} : worker'[v] = worker[v]
    BY <1>0, <1>9, BrokenKept DEF retryFails
  <2>2. ASSUME UNCHANGED delivery PROVE NoneComesToRest
    <3>1. UNCHANGED overwritten
      BY <1>9, <2>2 DEF retryFails
    <3> QED
      BY <2>2, <3>1 DEF NoneComesToRest, Rests
  <2>3. ASSUME delivery' # delivery PROVE NoneComesToRest
    <3>1. overwritten' = overwritten \cup {Of(w)}
      BY <1>9, <2>3 DEF retryFails
    <3>2. \A d \in Deliveries \ {Of(w)} : delivery'[d] = delivery[d]
      BY <1>9, RecordedAgain DEF retryFails
    <3> QED
      BY <1>4, <3>1, <3>2
  <2> QED
    BY <2>1, <2>2, <2>3, WorkersLeaveRest
<1> QED
  BY <1>5, <1>6, <1>7, <1>8, <1>9

(* The attempt whose outcome is recorded was the only one in flight, and    *)
(* all numbers up to it are taken.                                          *)
LEMMA RestAfterRecord ==
  ASSUME DeliveryInv, SettledAtRest, NEW w \in Workers,
         deliverSucceeded(w) \/ deliverFailed(w)
  PROVE  SettledAtRest'
<1> DEFINE d == Of(w)
<1>0. TypeOK /\ FreshAlone /\ OneCallInFlight
  BY DEF DeliveryInv
<1>1. worker[w].step = "record" /\ Working(w)
  BY DEF deliverSucceeded, deliverFailed, Working
<1>2. d \in Deliveries /\ delivery[d] \in DeliveryType
  BY <1>1, JobTyped
<1>4. /\ delivery'[d].tried = delivery[d].tried
      /\ \A e \in Deliveries \ {d} : delivery'[e] = delivery[e]
  BY <1>0, <1>2 DEF deliverSucceeded, deliverFailed, Record, TypeOK, DeliveryType
<1>5. /\ worker'[w].step \in {"idle", "retry"}
      /\ \A v \in Workers \ {w} : worker'[v] = worker[v]
  BY <1>0, OneRests, BecomeEffect DEF deliverSucceeded, deliverFailed
<1>6. ASSUME NEW v \in Workers \ {w}, worker[v].step # "idle", Of(v) = d
      PROVE  AtRest(v)'
  <2>1. ~Working(v)
    BY <1>0, <1>1, <1>6 DEF OneCallInFlight
  <2>2. ASSUME worker[v].step = "start" PROVE worker[v].attempt \in delivery[d].tried
    BY <1>0, <1>1, <1>6, <2>2 DEF FreshAlone, FirstTry
  <2>3. worker'[v] = worker[v] /\ Of(v)' = d
    BY <1>5, <1>6 DEF Of
  <2> QED
    BY <1>4, <2>1, <2>2, <2>3 DEF AtRest, Working
<1>7. ASSUME NEW v \in Workers \ {w}, worker[v].step # "idle", Of(v) # d,
             Rests(Of(v))'
      PROVE  AtRest(v)'
  <2>1. worker'[v] = worker[v] /\ Of(v)' = Of(v)
    BY <1>5 DEF Of
  <2>2. Of(v) \in Deliveries
    BY <1>7, JobTyped
  <2>3. Of(v) \in overwritten => Of(v) \in overwritten'
    BY <1>7 DEF deliverSucceeded, deliverFailed, Rewritten
  <2>4. delivery'[Of(v)] = delivery[Of(v)] /\ AtRest(v)
    BY <1>4, <1>7, <2>1, <2>2, <2>3 DEF SettledAtRest, Rests
  <2> QED
    BY <2>1, <2>4 DEF AtRest, Working
<1>8. worker'[w].step # "idle" => AtRest(w)'
  BY <1>5 DEF AtRest, Working
<1> QED
  BY <1>5, <1>6, <1>7, <1>8 DEF SettledAtRest

LEMMA NextSettledAtRest ==
  DeliveryInv /\ SettledAtRest /\ [Next]_vars => SettledAtRest'
<1> SUFFICES ASSUME DeliveryInv, SettledAtRest, [Next]_vars PROVE SettledAtRest'
  OBVIOUS
<1>1. CASE UNCHANGED vars
  BY <1>1, RestAfterDispatch DEF vars
<1>2. ASSUME NEW job \in Jobs, Take(job) PROVE SettledAtRest'
  BY <1>2, RestAfterRead DEF Take
<1>3. ASSUME NEW w \in Workers, \/ Deliver(w) \/ recordFails(w) \/ retryFails(w)
                                \/ crash(w) \/ stall(w)
      PROVE  SettledAtRest'
  <2>1. CASE stall(w) \/ crash(w) \/ deliverRefused(w)
    BY <2>1, RestAfterDispatch
  <2> QED
    BY <1>3, <2>1, RestAfterWork, RestAfterRecord DEF Deliver
<1> QED
  BY <1>1, <1>2, <1>3, RestAfterDispatch DEF Next

-----------------------------------------------------------------------------
(* The abstract course of attempts. *)

(* The outcome that is about to be recorded, or was, is that of a call. *)
HasCalled(w) == worker[w].step \in {"record", "retry"}

CallMade ==
  \A w \in Workers : HasCalled(w) => sent[Of(w)][worker[w].attempt] = 1

LEMMA NextCallMade == DeliveryInv /\ CallMade /\ [Next]_vars => CallMade'
<1> SUFFICES ASSUME DeliveryInv, CallMade, [Next]_vars,
                    NEW w \in Workers, HasCalled(w)'
             PROVE  sent'[Of(w)'][worker'[w].attempt] = 1
  BY DEF CallMade
<1>0. TypeOK /\ WorkersInTurn /\ SentWasTried /\ OneCallInFlight /\ FreshAlone
  BY DEF DeliveryInv
<1>1. CASE deliverSend(w)
  <2>1. Of(w) \in Deliveries /\ worker[w].attempt \in Attempts /\ worker[w].step = "send"
    BY <1>0, <1>1, JobTyped DEF deliverSend, Called, WorkersInTurn, Started
  <2>2. worker'[w].job = worker[w].job /\ worker'[w].attempt = worker[w].attempt
    BY <1>0, <1>1, SendEffect
  <2>3. sent'[Of(w)][worker[w].attempt] = sent[Of(w)][worker[w].attempt] + 1
    BY <1>0, <1>1, <2>1 DEF deliverSend, Called, TypeOK
  <2> QED
    BY <1>0, <2>1, <2>2, <2>3 DEF Of, SentWasTried
<1>2. ASSUME HasCalled(w), worker'[w].job = worker[w].job,
             worker'[w].attempt = worker[w].attempt,
             sent'[Of(w)][worker[w].attempt] = sent[Of(w)][worker[w].attempt]
      PROVE  sent'[Of(w)'][worker'[w].attempt] = 1
  BY <1>2 DEF CallMade, Of
<1>3. ASSUME NEW v \in Workers \ {w}, deliverSend(v)
      PROVE  sent'[Of(w)'][worker'[w].attempt] = 1
  <2>1. worker'[w] = worker[w] /\ HasCalled(w)
    BY <1>0, <1>3, SendEffect DEF HasCalled
  <2>2. Working(v) /\ worker[v].step = "send"
        /\ sent' = [sent EXCEPT ![Of(v)][worker[v].attempt] = @ + 1]
    BY <1>3 DEF deliverSend, Called, Working
  <2>3. Of(v) # Of(w) \/ worker[w].attempt < worker[v].attempt
    BY <1>0, <2>1, <2>2 DEF OneCallInFlight, FreshAlone, Working, HasCalled
  <2>4. /\ worker[v].attempt \in Attempts /\ worker[w].attempt \in Attempts
        /\ Of(v) \in Deliveries /\ Of(w) \in Deliveries
    BY <1>0, <2>1, <2>2, JobTyped DEF WorkersInTurn, Started, HasCalled
  <2>5. Of(v) # Of(w) \/ worker[w].attempt # worker[v].attempt
    BY <2>3, <2>4, DeliveryAssumption DEF Attempts
  <2>6. sent'[Of(w)][worker[w].attempt] = sent[Of(w)][worker[w].attempt]
    BY <1>0, <2>2, <2>4, <2>5 DEF TypeOK
  <2> QED
    BY <1>2, <2>1, <2>6
<1>4. ASSUME UNCHANGED sent, NEW v \in Workers,
             \/ ~HasCalled(v)'
             \/ /\ HasCalled(v) /\ worker'[v].job = worker[v].job
                /\ worker'[v].attempt = worker[v].attempt,
             \A u \in Workers \ {v} : worker'[u] = worker[u]
      PROVE  sent'[Of(w)'][worker'[w].attempt] = 1
  <2>1. HasCalled(w) /\ worker'[w].job = worker[w].job
        /\ worker'[w].attempt = worker[w].attempt
    BY <1>4 DEF HasCalled
  <2> QED
    BY <1>2, <1>4, <2>1
<1>5. ASSUME UNCHANGED <<worker, sent>> PROVE sent'[Of(w)'][worker'[w].attempt] = 1
  BY <1>2, <1>5 DEF HasCalled
<1>6. ASSUME NEW v \in Workers, Rest(v), UNCHANGED sent
      PROVE  sent'[Of(w)'][worker'[w].attempt] = 1
  BY <1>0, <1>4, <1>6, OneRests DEF HasCalled
<1>7. ASSUME NEW v \in Workers, UNCHANGED sent, Become(v, "send")
      PROVE  sent'[Of(w)'][worker'[w].attempt] = 1
  <2>1. worker'[v].step = "send" /\ \A u \in Workers \ {v} : worker'[u] = worker[u]
    BY <1>0, <1>7, BecomeEffect
  <2> QED
    BY <1>4, <1>7, <2>1 DEF HasCalled
<1>12. ASSUME NEW v \in Workers, UNCHANGED sent, HasCalled(v), Become(v, "retry")
       PROVE  sent'[Of(w)'][worker'[w].attempt] = 1
  <2>1. /\ worker'[v].job = worker[v].job /\ worker'[v].attempt = worker[v].attempt
        /\ \A u \in Workers \ {v} : worker'[u] = worker[u]
    BY <1>0, <1>12, BecomeEffect
  <2> QED
    BY <1>4, <1>12, <2>1
<1>8. ASSUME NEW v \in Workers, recordFails(v) \/ retryFails(v)
      PROVE  sent'[Of(w)'][worker'[w].attempt] = 1
  <2>1. /\ worker'[v].step = worker[v].step /\ worker'[v].job = worker[v].job
        /\ worker'[v].attempt = worker[v].attempt
        /\ \A u \in Workers \ {v} : worker'[u] = worker[u]
    BY <1>0, <1>8, BrokenKept DEF recordFails, retryFails
  <2>2. UNCHANGED sent /\ HasCalled(v)
    BY <1>8 DEF recordFails, retryFails, HasCalled
  <2> QED
    BY <1>4, <2>1, <2>2
<1>9. ASSUME NEW v \in Workers, Deliver(v)
      PROVE  sent'[Of(w)'][worker'[w].attempt] = 1
  <2>1. CASE deliverSucceeded(v) \/ deliverFailed(v)
    <3>1. HasCalled(v)
      BY <2>1 DEF deliverSucceeded, deliverFailed, HasCalled
    <3> QED
      BY <1>6, <1>12, <2>1, <3>1 DEF deliverSucceeded, deliverFailed
  <2>2. CASE deliverReject(v) \/ deliverRefused(v) \/ deliverRetry(v)
    BY <1>6, <2>2 DEF deliverReject, deliverRefused, deliverRetry
  <2>3. CASE deliverStart(v)
    BY <1>7, <2>3 DEF deliverStart
  <2>4. CASE deliverSend(v)
    BY <1>1, <1>3, <2>4
  <2> QED
    BY <1>9, <2>1, <2>2, <2>3, <2>4 DEF Deliver
<1>10. ASSUME NEW v \in Workers, crash(v) \/ stall(v)
       PROVE  sent'[Of(w)'][worker'[w].attempt] = 1
  BY <1>5, <1>6, <1>10 DEF crash, stall
<1>11. ASSUME NEW job \in Jobs, Take(job)
       PROVE  sent'[Of(w)'][worker'[w].attempt] = 1
  <2>1. PICK v \in Workers : deliverRead(v, job)
    BY <1>11 DEF Take
  <2>2. UNCHANGED sent
    BY <2>1 DEF deliverRead
  <2>3. \/ UNCHANGED worker
        \/ \E step \in {"reject", "start"} :
             worker' = [worker EXCEPT ![v] =
               [step |-> step, job |-> job, attempt |-> NextAttempt(job[1]),
                answer |-> "NONE"]]
    BY <2>1 DEF deliverRead
  <2>4. ASSUME NEW step \in {"reject", "start"},
               worker' = [worker EXCEPT ![v] =
                 [step |-> step, job |-> job, attempt |-> NextAttempt(job[1]),
                  answer |-> "NONE"]]
        PROVE  ~HasCalled(v)' /\ \A u \in Workers \ {v} : worker'[u] = worker[u]
    BY <1>0, <2>4 DEF TypeOK, HasCalled
  <2> QED
    BY <1>4, <1>5, <2>2, <2>3, <2>4
<1> QED
  BY <1>5, <1>8, <1>9, <1>10, <1>11 DEF Next, vars, append, subscribe, revoke,
     dispatchCommit, dispatchEnqueue, dispatchFails, dispatchOverlaps, replayDelivery

(* All that a step may need to know. *)
CourseInv == DeliveryInv /\ SettledAtRest /\ CallMade

LEMMA CourseInvariant == Spec => []CourseInv
<1>1. Init => SettledAtRest /\ CallMade
  BY DEF Init, Resting, SettledAtRest, CallMade, HasCalled
<1> QED
  BY <1>1, InitDeliveryInv, NextDeliveryInv, NextSettledAtRest, NextCallMade, PTL
     DEF Spec, CourseInv

(* Who works on what, before and after a step of one worker. *)
LEMMA WorkersHandle ==
  ASSUME NEW w \in Workers, \A v \in Workers \ {w} : worker'[v] = worker[v]
  PROVE  \A d \in Deliveries :
           /\ Working(w)' /\ Of(w)' = d => Handlers(d)' = Handlers(d) \cup {w}
           /\ ~(Working(w)' /\ Of(w)' = d) => Handlers(d)' = Handlers(d) \ {w}
<1>1. \A v \in Workers \ {w} : (Working(v)' <=> Working(v)) /\ Of(v)' = Of(v)
  BY DEF Working, Of
<1> QED
  BY <1>1 DEF Handlers

LEMMA OneHandler ==
  ASSUME DeliveryInv, NEW w \in Workers, Working(w)
  PROVE  /\ Handlers(Of(w)) = {w} /\ Of(w) \in Deliveries
         /\ \A d \in Deliveries \ {Of(w)} : w \notin Handlers(d)
BY JobTyped DEF Handlers, DeliveryInv, OneCallInFlight, Working

(* The attempt in progress is the latest one. *)
LEMMA LatestAttempt ==
  ASSUME DeliveryInv, NEW w \in Workers, Working(w)
  PROVE  /\ worker[w].attempt \in Attempts
         /\ delivery[Of(w)].tried = 1..worker[w].attempt
<1> DEFINE d == Of(w)
           n == worker[w].attempt
<1>1. /\ d \in Deliveries /\ n \in Attempts /\ n \in delivery[d].tried
      /\ delivery[d].tried \subseteq 1..n
  BY JobTyped DEF DeliveryInv, WorkersInTurn, Started, Working
<1>2. 1..n \subseteq delivery[d].tried
  BY <1>1 DEF DeliveryInv, InTurn
<1> QED
  BY <1>1, <1>2

LEMMA WorkingIsOpen ==
  ASSUME CourseInv, NEW w \in Workers, Working(w)
  PROVE  Outcome(Of(w)) \in {"NONE", "OVERWRITTEN"}
<1>1. worker[w].step # "idle"
  BY DEF Working
<1> QED
  BY <1>1 DEF CourseInv, SettledAtRest, AtRest, Rests, Outcome

LEMMA CourseStutters ==
  ASSUME UNCHANGED <<sent, heard>>,
         \A d \in Deliveries : /\ delivery'[d].tried = delivery[d].tried
                               /\ Outcome(d)' = Outcome(d) /\ Handlers(d)' = Handlers(d)
  PROVE  UNCHANGED Course!attempts
BY DEF Course!attempts

LEMMA StartBegins ==
  ASSUME CourseInv, NEW w \in Workers, deliverStart(w)
  PROVE  \E d \in Deliveries, n \in Attempts : Course!Begin(d, w, n)
<1> DEFINE d == Of(w)
           n == worker[w].attempt
<1>0. DeliveryInv /\ TypeOK
  BY DEF CourseInv, DeliveryInv
<1>1. worker[w].step = "start" /\ n \notin delivery[d].tried
  BY DEF deliverStart, FirstTry
<1>2. /\ d \in Deliveries /\ delivery[d] \in DeliveryType
      /\ n \in Attempts /\ 1..(n - 1) \subseteq delivery[d].tried
  BY <1>0, <1>1, JobTyped DEF DeliveryInv, WorkersInTurn, Started
<1>3. Outcome(d) \in {"NONE", "OVERWRITTEN"}
  BY <1>1 DEF CourseInv, SettledAtRest, AtRest, Rests, Outcome
<1>4. /\ delivery' = [delivery EXCEPT ![d].status = "PROCESSING", ![d].tried = @ \cup {n}]
      /\ UNCHANGED <<sent, heard>> /\ overwritten' = overwritten \ {d}
  BY DEF deliverStart, Rewritten
<1>5. /\ worker'[w].step = "send"
      /\ worker'[w].job = worker[w].job /\ \A v \in Workers \ {w} : worker'[v] = worker[v]
  BY <1>0, BecomeEffect DEF deliverStart
<1>6. Working(w)' /\ Of(w)' = d /\ ~Working(w)
  BY <1>1, <1>5 DEF Working, Of
<1> HIDE DEF d, n
<1>8. \A v \in Workers : Working(v) => Of(v) # d
  BY <1>0, <1>1 DEF DeliveryInv, FreshAlone, FirstTry, d, n
<1>9. delivery[d].tried = 1..(n - 1)
  <2>1. delivery[d].tried \subseteq 1..(n - 1)
    BY <1>0, <1>1, <1>2, NewNumber DEF DeliveryInv
  <2> QED
    BY <1>2, <2>1
<1>10. 1..n = 1..(n - 1) \cup {n}
  BY <1>2, DeliveryAssumption DEF Attempts
<1>11. /\ delivery'[d].status = "PROCESSING" /\ delivery'[d].tried = 1..n
       /\ \A e \in Deliveries \ {d} : delivery'[e] = delivery[e]
  BY <1>0, <1>2, <1>4, <1>9, <1>10 DEF TypeOK, DeliveryType
<1>12. Handlers(d) = {}
  BY <1>8 DEF Handlers
<1>13. \A e \in Deliveries : Handlers(e)' = IF e = d THEN {w} ELSE Handlers(e)
  <2>1. \A e \in Deliveries :
          Handlers(e)' = IF e = d THEN Handlers(e) \cup {w} ELSE Handlers(e) \ {w}
    BY <1>5, <1>6, WorkersHandle
  <2>2. \A e \in Deliveries : Handlers(e) \ {w} = Handlers(e)
    BY <1>6 DEF Handlers
  <2> QED
    BY <1>2, <1>12, <2>1, <2>2
<1>14. \A e \in Deliveries : Outcome(e)' = IF e = d THEN "NONE" ELSE Outcome(e)
  BY <1>4, <1>11 DEF Outcome, Settled
<1>15. PICK c \in Deliveries, m \in Attempts : c = d /\ m = n
  BY <1>2
<1>16. [e \in Deliveries |-> delivery[e].tried]'
         = [[e \in Deliveries |-> delivery[e].tried] EXCEPT ![c] = 1..m]
  BY <1>11, <1>15
<1>17. [e \in Deliveries |-> Handlers(e)]'
         = [[e \in Deliveries |-> Handlers(e)] EXCEPT ![c] = {w}]
  BY <1>13, <1>15
<1>18. [e \in Deliveries |-> Outcome(e)]'
         = [[e \in Deliveries |-> Outcome(e)] EXCEPT ![c] = "NONE"]
  BY <1>14, <1>15
<1>19. Course!Begin(c, w, m)
  BY <1>3, <1>4, <1>9, <1>12, <1>15, <1>16, <1>17, <1>18 DEF Course!Begin
<1> QED
  BY <1>19

LEMMA SendCalls ==
  ASSUME CourseInv, NEW w \in Workers, deliverSend(w)
  PROVE  \E d \in Deliveries, n \in Attempts : Course!Call(d, n)
<1> DEFINE d == Of(w)
           n == worker[w].attempt
<1>0. DeliveryInv /\ TypeOK
  BY DEF CourseInv, DeliveryInv
<1>1. worker[w].step = "send" /\ Working(w)
  BY DEF deliverSend, Called, Working
<1>2. /\ d \in Deliveries /\ n \in Attempts /\ delivery[d].tried = 1..n
      /\ Handlers(d) = {w}
  BY <1>0, <1>1, LatestAttempt, OneHandler
<1>3. sent[d][n] = 0
  BY <1>0, <1>1 DEF DeliveryInv, SentWasTried
<1>4. /\ sent' = [sent EXCEPT ![d][n] = @ + 1] 
      /\ UNCHANGED <<delivery, overwritten>> /\ heard' \in {heard, heard \cup {d}}
  BY DEF deliverSend, Called
<1>5. /\ worker'[w].step = "record" /\ worker'[w].job = worker[w].job
      /\ \A v \in Workers \ {w} : worker'[v] = worker[v]
  BY <1>0, SendEffect
<1>6. \A v \in Workers : (Working(v)' <=> Working(v)) /\ Of(v)' = Of(v)
  BY <1>1, <1>5 DEF Working, Of
<1> HIDE DEF d, n
<1>7. \A e \in Deliveries : Handlers(e)' = Handlers(e) /\ Outcome(e)' = Outcome(e)
  BY <1>4, <1>6 DEF Handlers, Outcome
<1>8. sent' = [sent EXCEPT ![d][n] = 1]
  BY <1>0, <1>2, <1>3, <1>4 DEF TypeOK
<1>9. Course!Call(d, n)
  BY <1>2, <1>3, <1>4, <1>7, <1>8 DEF Course!Call, Course!Latest
<1> QED
  BY <1>2, <1>9

(* A worker that is working leaves its delivery with a result. *)
LEMMA WorkerEnds ==
  ASSUME CourseInv, NEW w \in Workers, Working(w),
         NEW d \in Deliveries, d = Of(w),
         NEW result \in {"NONE", "FAILED", "DELIVERED", "OVERWRITTEN"},
         worker'[w].step \in {"idle", "retry"},
         \A v \in Workers \ {w} : worker'[v] = worker[v],
         UNCHANGED <<sent, heard>>,
         \A e \in Deliveries : delivery'[e].tried = delivery[e].tried,
         \A e \in Deliveries :
           Outcome(e)' = IF e = d THEN result ELSE Outcome(e),
         result \in {"FAILED", "DELIVERED"} => worker[w].step = "record",
         result = "DELIVERED" => worker[w].answer = "OK",
         result = "OVERWRITTEN" => Outcome(d) = "OVERWRITTEN"
  PROVE  Course!End(d, result)
<1> DEFINE n == worker[w].attempt
<1>0. DeliveryInv /\ SuccessHeard /\ CallMade
  BY DEF CourseInv, DeliveryInv
<1>1. /\ n \in Attempts /\ delivery[d].tried = 1..n
      /\ Handlers(d) = {w} /\ \A e \in Deliveries \ {d} : w \notin Handlers(e)
  BY <1>0, LatestAttempt, OneHandler
<1>2. ~Working(w)'
  BY DEF Working
<1>3. \A e \in Deliveries : Handlers(e)' = IF e = d THEN {} ELSE Handlers(e)
  <2>1. \A e \in Deliveries : Handlers(e)' = Handlers(e) \ {w}
    BY <1>2, WorkersHandle
  <2>2. \A e \in Deliveries : Handlers(e) \ {w} = IF e = d THEN {} ELSE Handlers(e)
    BY <1>1
  <2> QED
    BY <2>1, <2>2
<1>4. result \in {"FAILED", "DELIVERED"} => sent[d][n] = 1
  BY <1>0 DEF CallMade, HasCalled
<1>5. result = "DELIVERED" => d \in heard
  BY <1>0 DEF SuccessHeard
<1> HIDE DEF n
<1>6. /\ Handlers(d) # {}
      /\ result \in {"FAILED", "DELIVERED"} =>
           \E m \in 1..MaxAttempts : Course!Latest(d, m) /\ sent[d][m] = 1
  BY <1>1, <1>4 DEF Course!Latest, Attempts
<1> QED
  BY <1>3, <1>5, <1>6 DEF Course!End

LEMMA RecordEnds ==
  ASSUME CourseInv, NEW w \in Workers, deliverSucceeded(w) \/ deliverFailed(w)
  PROVE  \E d \in Deliveries, result \in {"NONE", "FAILED", "DELIVERED", "OVERWRITTEN"} :
           Course!End(d, result)
<1> DEFINE d == Of(w)
<1>0. DeliveryInv /\ TypeOK
  BY DEF CourseInv, DeliveryInv
<1>1. worker[w].step = "record" /\ Working(w)
  BY DEF deliverSucceeded, deliverFailed, Working
<1>2. d \in Deliveries /\ delivery[d] \in DeliveryType
  BY <1>0, <1>1, JobTyped
<1>3. PICK status \in {"DELIVERED", "FAILED", "DEAD_LETTERED"} :
        Record(w, status) /\ (status = "DELIVERED" => worker[w].answer = "OK")
  BY DEF deliverSucceeded, deliverFailed
<1>4. /\ delivery'[d].status = status /\ delivery'[d].tried = delivery[d].tried
      /\ \A e \in Deliveries \ {d} : delivery'[e] = delivery[e]
  BY <1>0, <1>2, <1>3 DEF Record, TypeOK, DeliveryType
<1>5. /\ worker'[w].step \in {"idle", "retry"}
      /\ \A v \in Workers \ {w} : worker'[v] = worker[v]
  BY <1>0, OneRests, BecomeEffect DEF deliverSucceeded, deliverFailed
<1>6. UNCHANGED <<sent, heard>> /\ overwritten' = overwritten \ {d}
  BY DEF deliverSucceeded, deliverFailed, Rewritten
<1> DEFINE result == IF status = "DEAD_LETTERED" THEN "NONE" ELSE status
<1> HIDE DEF d
<1>7. \A e \in Deliveries : /\ delivery'[e].tried = delivery[e].tried
                           /\ Outcome(e)' = IF e = d THEN result ELSE Outcome(e)
  BY <1>4, <1>6 DEF Outcome, Settled
<1>8. Course!End(d, result)
  BY <1>1, <1>2, <1>3, <1>5, <1>6, <1>7, WorkerEnds DEF d
<1> QED
  BY <1>2, <1>8

(* A worker that gives up its job was working, or nothing shows.            *)
LEMMA RestingEndsOrStutters ==
  ASSUME CourseInv, NEW w \in Workers, Rest(w),
         UNCHANGED <<delivery, sent, heard, overwritten>>
  PROVE  [Course!Next]_Course!attempts
<1>0. DeliveryInv /\ TypeOK
  BY DEF CourseInv, DeliveryInv
<1>1. worker'[w].step = "idle" /\ \A v \in Workers \ {w} : worker'[v] = worker[v]
  BY <1>0, OneRests
<1>2. \A d \in Deliveries : Outcome(d)' = Outcome(d)
  BY DEF Outcome
<1>3. CASE Working(w)
  <2>1. PICK d \in Deliveries : d = Of(w)
    BY <1>0, <1>3, OneHandler
  <2>2. PICK result \in {"NONE", "OVERWRITTEN"} : result = Outcome(d)
    BY <1>3, <2>1, WorkingIsOpen
  <2>3. Course!End(d, result)
    BY <1>1, <1>2, <1>3, <2>1, <2>2, WorkerEnds
  <2> QED
    BY <2>3 DEF Course!Next
<1>4. CASE ~Working(w)
  <2>1. ~Working(w)' /\ \A d \in Deliveries : w \notin Handlers(d)
    BY <1>1, <1>4 DEF Working, Handlers
  <2>2. \A d \in Deliveries : Handlers(d)' = Handlers(d)
    BY <1>1, <2>1, WorkersHandle
  <2> QED
    BY <1>2, <2>2, CourseStutters
<1> QED
  BY <1>3, <1>4

(* A rejection or a replay opens what has an outcome. *)
LEMMA StatusReopens ==
  ASSUME TypeOK, NEW d \in Deliveries,
         NEW status \in {"DEAD_LETTERED", "REPLAY_REQUESTED"},
         delivery' = [delivery EXCEPT ![d].status = status],
         overwritten' = overwritten \ {d}, UNCHANGED <<sent, heard>>,
         \A e \in Deliveries : Handlers(e)' = Handlers(e)
  PROVE  [Course!Next]_Course!attempts
<1>1. /\ delivery'[d].status = status /\ delivery'[d].tried = delivery[d].tried
      /\ \A e \in Deliveries \ {d} : delivery'[e] = delivery[e]
  BY DEF TypeOK, DeliveryType
<1>2. Outcome(d)' = "NONE" /\ \A e \in Deliveries \ {d} : Outcome(e)' = Outcome(e)
  BY <1>1 DEF Outcome, Settled
<1>3. CASE Outcome(d) = "NONE"
  BY <1>1, <1>2, <1>3, CourseStutters
<1>4. CASE Outcome(d) # "NONE"
  <2>1. [e \in Deliveries |-> Outcome(e)]'
          = [[e \in Deliveries |-> Outcome(e)] EXCEPT ![d] = "NONE"]
    BY <1>2
  <2>2. UNCHANGED <<[e \in Deliveries |-> delivery[e].tried],
                    [e \in Deliveries |-> Handlers(e)]>>
    BY <1>1
  <2>3. Course!Reopen(d)
    BY <1>4, <2>1, <2>2 DEF Course!Reopen
  <2> QED
    BY <2>3 DEF Course!Next
<1> QED
  BY <1>3, <1>4

(* A failure that is recorded again overwrites what came after it. *)
LEMMA AgainOverwrites ==
  ASSUME CourseInv, NEW w \in Workers, retryFails(w), delivery' # delivery
  PROVE  [Course!Next]_Course!attempts
<1>0. DeliveryInv /\ TypeOK
  BY DEF CourseInv, DeliveryInv
<1>1. PICK d \in Deliveries : d = Of(w)
  BY <1>0, JobTyped DEF retryFails
<1>2. worker[w].attempt \in delivery[d].tried /\ sent[d][worker[w].attempt] = 1
  BY <1>1 DEF CourseInv, DeliveryInv, WorkersInTurn, CallMade, HasCalled, retryFails
<1>3. \A e \in Deliveries : delivery'[e].tried = delivery[e].tried
                           /\ (e # d => delivery'[e] = delivery[e])
  BY <1>0, <1>1, RecordedAgain DEF retryFails, RowKept
<1>4. overwritten' = overwritten \cup {d} /\ UNCHANGED <<sent, heard>>
  BY <1>1 DEF retryFails
<1>5. \A e \in Deliveries : Outcome(e)' = IF e = d THEN "OVERWRITTEN" ELSE Outcome(e)
  BY <1>3, <1>4 DEF Outcome
<1>6. \A v \in Workers : worker'[v].step = worker[v].step /\ worker'[v].job = worker[v].job
  BY <1>0, BrokenKept DEF retryFails
<1>7. \A e \in Deliveries : Handlers(e)' = Handlers(e)
  BY <1>6 DEF Handlers, Working, Of
<1>8. [e \in Deliveries |-> Outcome(e)]'
        = [[e \in Deliveries |-> Outcome(e)] EXCEPT ![d] = "OVERWRITTEN"]
  BY <1>5
<1>9. UNCHANGED <<[e \in Deliveries |-> delivery[e].tried],
                  [e \in Deliveries |-> Handlers(e)]>>
  BY <1>3, <1>7
<1>10. \E n \in delivery[d].tried : sent[d][n] = 1
  BY <1>2
<1>11. Course!Overwrite(d)
  BY <1>4, <1>8, <1>9, <1>10 DEF Course!Overwrite
<1> QED
  BY <1>11 DEF Course!Next

(* Steps that change nobody's attempt. *)
LEMMA OthersStutter ==
  ASSUME CourseInv,
         \/ UNCHANGED <<delivery, sent, heard, overwritten>>
         \/ dispatchCommit,
         \A w \in Workers : \/ worker'[w] = worker[w]
                            \/ ~Working(w) /\ ~Working(w)'
                            \/ /\ worker'[w].step = worker[w].step
                               /\ worker'[w].job = worker[w].job
  PROVE  [Course!Next]_Course!attempts
<1>1. \A d \in Deliveries : Handlers(d)' = Handlers(d)
  BY DEF Handlers, Working, Of
<1>2. ASSUME NEW d \in Deliveries
      PROVE  delivery'[d].tried = delivery[d].tried /\ Outcome(d)' = Outcome(d)
  <2>1. CASE UNCHANGED <<delivery, overwritten>>
    BY <2>1 DEF Outcome
  <2>2. CASE dispatchCommit
    <3>1. delivery[d] \in DeliveryType /\ UNCHANGED overwritten
      BY <2>2 DEF CourseInv, DeliveryInv, TypeOK, dispatchCommit
    <3>2. \/ delivery'[d] = delivery[d]
          \/ delivery[d].status = "NONE"
             /\ delivery'[d] = [delivery[d] EXCEPT !.status = "PENDING"]
      BY <2>2 DEF dispatchCommit
    <3>3. \/ delivery'[d] = delivery[d]
          \/ /\ delivery[d].status = "NONE" /\ delivery'[d].status = "PENDING"
             /\ delivery'[d].tried = delivery[d].tried
      BY <3>1, <3>2 DEF DeliveryType
    <3> QED
      BY <3>1, <3>3 DEF Outcome, Settled
  <2> QED
    BY <2>1, <2>2
<1> QED
  BY <1>1, <1>2, CourseStutters DEF dispatchCommit

LEMMA StepFollows == CourseInv /\ [Next]_vars => [Course!Next]_Course!attempts
<1> SUFFICES ASSUME CourseInv, [Next]_vars PROVE [Course!Next]_Course!attempts
  OBVIOUS
<1>0. DeliveryInv /\ TypeOK
  BY DEF CourseInv, DeliveryInv
<1>1. CASE UNCHANGED <<worker, delivery, sent, heard, overwritten>> \/ dispatchCommit
  BY <1>1, OthersStutter DEF dispatchCommit
<1>2. ASSUME NEW d \in Deliveries, replayDelivery(d)
      PROVE  [Course!Next]_Course!attempts
  <2>1. \A e \in Deliveries : Handlers(e)' = Handlers(e)
    BY <1>2 DEF replayDelivery, Handlers, Working, Of
  <2> QED
    BY <1>0, <1>2, <2>1, StatusReopens DEF replayDelivery, Rewritten
<1>3. ASSUME NEW w \in Workers, deliverReject(w)
      PROVE  [Course!Next]_Course!attempts
  <2>1. Of(w) \in Deliveries /\ ~Working(w)
    BY <1>0, <1>3, JobTyped DEF deliverReject, Working
  <2>2. worker'[w].step = "idle" /\ \A v \in Workers \ {w} : worker'[v] = worker[v]
    BY <1>0, <1>3, OneRests DEF deliverReject
  <2>3. \A e \in Deliveries : Handlers(e)' = Handlers(e)
    BY <2>1, <2>2 DEF Handlers, Working, Of
  <2> QED
    BY <1>0, <1>3, <2>1, <2>3, StatusReopens DEF deliverReject, Rewritten
<1>4. ASSUME NEW w \in Workers, deliverStart(w) \/ deliverSend(w)
      PROVE  [Course!Next]_Course!attempts
  BY <1>4, StartBegins, SendCalls DEF Course!Next, Attempts
<1>5. ASSUME NEW w \in Workers, deliverSucceeded(w) \/ deliverFailed(w)
      PROVE  [Course!Next]_Course!attempts
  BY <1>5, RecordEnds DEF Course!Next
<1>6. ASSUME NEW w \in Workers, deliverRefused(w) \/ deliverRetry(w) \/ crash(w)
      PROVE  [Course!Next]_Course!attempts
  BY <1>6, RestingEndsOrStutters DEF deliverRefused, deliverRetry, crash
<1>7. ASSUME NEW w \in Workers, recordFails(w) \/ retryFails(w)
      PROVE  [Course!Next]_Course!attempts
  <2>1. \A v \in Workers : \/ worker'[v] = worker[v]
                           \/ /\ worker'[v].step = worker[v].step
                              /\ worker'[v].job = worker[v].job
    BY <1>0, <1>7, BrokenKept DEF recordFails, retryFails
  <2>2. CASE UNCHANGED delivery
    <3>1. UNCHANGED <<delivery, sent, heard, overwritten>>
      BY <1>7, <2>2 DEF recordFails, retryFails
    <3> QED
      BY <2>1, <3>1, OthersStutter
  <2>3. CASE delivery' # delivery
    BY <1>7, <2>3, AgainOverwrites DEF recordFails
  <2> QED
    BY <2>2, <2>3
<1>8. ASSUME NEW job \in Jobs, Take(job)
      PROVE  [Course!Next]_Course!attempts
  <2>1. PICK w \in Workers : deliverRead(w, job)
    BY <1>8 DEF Take
  <2>2. UNCHANGED <<delivery, sent, heard, overwritten>> /\ worker[w].step = "idle"
    BY <2>1 DEF deliverRead
  <2>3. \/ UNCHANGED worker
        \/ \E step \in {"reject", "start"} :
             worker' = [worker EXCEPT ![w] =
               [step |-> step, job |-> job, attempt |-> NextAttempt(job[1]),
                answer |-> "NONE"]]
    BY <2>1 DEF deliverRead
  <2>4. ASSUME NEW step \in {"reject", "start"},
               worker' = [worker EXCEPT ![w] =
                 [step |-> step, job |-> job, attempt |-> NextAttempt(job[1]),
                  answer |-> "NONE"]]
        PROVE  /\ worker'[w].step \in {"reject", "start"}
               /\ \A v \in Workers \ {w} : worker'[v] = worker[v]
    BY <1>0, <2>4 DEF TypeOK
  <2>5. \/ UNCHANGED worker
        \/ /\ worker'[w].step \in {"reject", "start"}
           /\ \A v \in Workers \ {w} : worker'[v] = worker[v]
    BY <2>3, <2>4
  <2> QED
    BY <2>2, <2>5, OthersStutter DEF Working
<1> QED
  BY <1>1, <1>2, <1>3, <1>4, <1>5, <1>6, <1>7, <1>8
     DEF Next, vars, Deliver, append, subscribe, revoke, dispatchEnqueue,
         dispatchFails, dispatchOverlaps, stall

LEMMA InitFollows == Init => Course!Init
<1> SUFFICES ASSUME Init PROVE Course!Init
  OBVIOUS
<1>1. \A d \in Deliveries : delivery[d].tried = {} /\ Outcome(d) = "NONE"
  BY DEF Init, NoRow, Outcome, Settled
<1>2. \A d \in Deliveries : Handlers(d) = {}
  BY DEF Init, Resting, Handlers, Working
<1> QED
  BY <1>1, <1>2 DEF Init, Course!Init, Attempts

-----------------------------------------------------------------------------
(* Attempts are counted up to the limit and never beyond it. *)
THEOREM DeliveryTypeCorrect == Spec => []TypeOK
<1>1. DeliveryInv => TypeOK
  BY DEF DeliveryInv
<1> QED
  BY <1>1, DeliveryInvariant, PTL

(* The partner is called at most once per numbered attempt. *)
THEOREM EachAttemptSentOnce == Spec => []AttemptSentOnce
<1>1. DeliveryInv => AttemptSentOnce
  BY DEF DeliveryInv
<1> QED
  BY <1>1, DeliveryInvariant, PTL

(* No two workers call the partner for one delivery at a time. *)
THEOREM OneCallAtATime == Spec => []OneCallInFlight
<1>1. DeliveryInv => OneCallInFlight
  BY DEF DeliveryInv
<1> QED
  BY <1>1, DeliveryInvariant, PTL

(* What is DELIVERED was accepted by the partner, which hears only of what  *)
(* was dispatched.                                                          *)
THEOREM DeliveredIsHeard == Spec => []DeliveredWasHeard
<1>1. DeliveryInv => DeliveredWasHeard
  BY DEF DeliveryInv, SuccessHeard, AllKnown, Known, DeliveredWasHeard
<1> QED
  BY <1>1, DeliveryInvariant, PTL

(* A delivery that failed, or was delivered, is not attempted again, by     *)
(* whatever jobs the queue still holds or hands out twice, until an         *)
(* operator asks for a replay or an earlier failure is recorded over it; at *)
(* most a worker that has found its address unsafe rejects it.              *)
SettledWaits ==
  [][\A d \in Deliveries : Rests(d) =>
       /\ sent'[d] = sent[d] /\ delivery'[d].tried = delivery[d].tried
       /\ \/ delivery'[d].status \in
               {delivery[d].status, "REPLAY_REQUESTED", "DEAD_LETTERED"}
          \/ delivery'[d].status = "FAILED" /\ d \in overwritten']_vars

THEOREM SettledIsNotRetried == Spec => SettledWaits
<1> DEFINE Waits(d) ==
      /\ sent'[d] = sent[d] /\ delivery'[d].tried = delivery[d].tried
      /\ \/ delivery'[d].status \in
              {delivery[d].status, "REPLAY_REQUESTED", "DEAD_LETTERED"}
         \/ delivery'[d].status = "FAILED" /\ d \in overwritten'
<1>1. Init => SettledAtRest
  BY DEF Init, Resting, SettledAtRest
<1>2. ASSUME DeliveryInv, SettledAtRest, [Next]_vars,
             NEW d \in Deliveries, Rests(d)
      PROVE  Waits(d)
  <2>0. TypeOK /\ delivery[d] \in DeliveryType
    BY <1>2 DEF DeliveryInv, TypeOK
  <2>1. ASSUME UNCHANGED <<delivery, sent>> PROVE Waits(d)
    BY <2>1
  <2>2. CASE dispatchCommit
    BY <1>2, <2>0, <2>2 DEF dispatchCommit, Rests, Settled
  <2>3. ASSUME NEW e \in Deliveries, replayDelivery(e) PROVE Waits(d)
    BY <2>0, <2>3 DEF replayDelivery, TypeOK, DeliveryType
  <2>4. ASSUME NEW w \in Workers, Working(w) \/ deliverStart(w) PROVE Of(w) # d
    <3> SUFFICES ASSUME Of(w) = d PROVE FALSE
      OBVIOUS
    <3>1. AtRest(w)
      BY <1>2, <2>4 DEF SettledAtRest, Working, deliverStart
    <3> QED
      BY <2>4, <3>1 DEF AtRest, deliverStart, FirstTry
  <2>5. ASSUME NEW w \in Workers, Deliver(w) PROVE Waits(d)
    <3>1. CASE deliverReject(w)
      BY <2>0, <3>1 DEF deliverReject, TypeOK, DeliveryType
    <3>2. CASE deliverStart(w)
      BY <2>0, <2>4, <3>2 DEF deliverStart, TypeOK
    <3>3. CASE deliverSend(w)
      <4>1. Of(w) # d
        BY <2>4, <3>3 DEF deliverSend, Called, Working
      <4> QED
        BY <2>0, <3>3, <4>1 DEF deliverSend, Called, TypeOK
    <3>4. CASE deliverSucceeded(w) \/ deliverFailed(w)
      <4>1. Of(w) # d
        BY <2>4, <3>4 DEF deliverSucceeded, deliverFailed, Working
      <4>2. delivery'[d] = delivery[d] /\ UNCHANGED sent
        BY <2>0, <3>4, <4>1 DEF deliverSucceeded, deliverFailed, Record, TypeOK
      <4> QED
        BY <4>2
    <3> QED
      BY <2>1, <2>5, <3>1, <3>2, <3>3, <3>4 DEF Deliver, deliverRefused, deliverRetry
  <2>6. ASSUME NEW job \in Jobs, Take(job) PROVE Waits(d)
    BY <2>1, <2>6 DEF Take, deliverRead
  <2>7. ASSUME NEW w \in Workers, retryFails(w) PROVE Waits(d)
    <3>1. CASE delivery' = delivery
      BY <2>1, <2>7, <3>1 DEF retryFails
    <3>2. CASE delivery' # delivery
      <4>1. /\ delivery'[d].tried = delivery[d].tried /\ UNCHANGED sent
            /\ overwritten' = overwritten \cup {Of(w)}
            /\ delivery'[Of(w)].status = "FAILED" /\ Of(w) \in Deliveries
            /\ d # Of(w) => delivery'[d] = delivery[d]
        BY <1>2, <2>7, <3>2, RecordedAgain, JobTyped DEF retryFails, RowKept
      <4> QED
        BY <4>1
    <3> QED
      BY <3>1, <3>2
  <2> HIDE DEF Waits
  <2> QED
    BY <1>2, <2>1, <2>2, <2>3, <2>5, <2>6, <2>7 DEF Next, vars, append, subscribe, revoke,
       dispatchEnqueue, dispatchFails, dispatchOverlaps, recordFails, crash, stall
<1>3. DeliveryInv /\ SettledAtRest /\ [Next]_vars =>
        [\A d \in Deliveries : Rests(d) => Waits(d)]_vars
  BY <1>2
<1> QED
  BY <1>1, <1>3, InitDeliveryInv, NextDeliveryInv, NextSettledAtRest, PTL
     DEF Spec, SettledWaits

(* Every behaviour is one of the abstract course of attempts, whatever the  *)
(* queue does with the jobs and whoever dies: the attempts at a delivery    *)
(* are numbered in turn and made one at a time, an outcome is that of a     *)
(* call, and a delivery with an outcome rests until it is opened again, or  *)
(* until one who made a call before says once more that it failed.          *)
THEOREM FollowsAttempts == Spec => ImplementsAttempts
<1> QED
  BY CourseInvariant, InitFollows, StepFollows, PTL
     DEF Spec, ImplementsAttempts, Course!Spec
=============================================================================
