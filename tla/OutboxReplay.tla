----------------------------- MODULE OutboxReplay -----------------------------
(***************************************************************************)
(* The events of an organization and a partner that pages through them:    *)
(* outbox.service.ts append, webhook.service.ts replay and the partner's   *)
(* cursor.                                                                 *)
(*                                                                         *)
(* An event is written inside the transaction of what it reports, and is   *)
(* stamped there, by the client and to the millisecond, which is what a    *)
(* cursor can hold; others see it once that transaction commits.  A page is  *)
(* read at one moment and answered later, or never.  Events are numbered   *)
(* by their ids, which say nothing of when they were written.              *)
(***************************************************************************)
EXTENDS Naturals, Sequences, FiniteSets

CONSTANTS
  Events,   \* the events, by their ids
  Limit,    \* events on a page
  MaxTime   \* bound of the model: the last millisecond of the clock

ASSUME ReplayAssumption ==
  /\ Events \subseteq Nat \ {0} /\ IsFiniteSet(Events)
  /\ Limit \in Nat \ {0} /\ MaxTime \in Nat \ {0}

VARIABLES
  clock,
  row,       \* outbox_events, and whether the transaction has committed
  cursor,    \* the partner's nextCursor
  page,      \* the answer that is on its way
  received,  \* the pages the partner has taken in, since it last started over
  late       \* history: events committed after a page had passed them

replayVars == <<clock, row, cursor, page, received, late>>

partner == <<cursor, page, received>>

Stamps   == 1..MaxTime
NoRow    == [state |-> "NONE", createdAt |-> 0]
NoCursor == [createdAt |-> 0, id |-> 0]

(* What is on its way: a set of events, or no answer at all. *)
NoAnswer     == [sent |-> FALSE, events |-> {}]
Answer(list) == [sent |-> TRUE, events |-> list]

ReplayInit ==
  /\ clock = 1
  /\ row = [e \in Events |-> NoRow]
  /\ cursor = NoCursor
  /\ page = NoAnswer
  /\ received = << >>
  /\ late = {}

-----------------------------------------------------------------------------
(* orderBy createdAt, id. *)
Before(e, f) ==
  \/ row[e].createdAt < row[f].createdAt
  \/ row[e].createdAt = row[f].createdAt /\ e < f

(* Mutants of After: the cursor's event itself comes again; the id is not  *)
(* looked at.                                                              *)
FromCursor(e) ==
  \/ row[e].createdAt > cursor.createdAt
  \/ row[e].createdAt = cursor.createdAt /\ e >= cursor.id

AfterInstant(e) == row[e].createdAt > cursor.createdAt

After(e) ==
  \/ row[e].createdAt > cursor.createdAt
  \/ row[e].createdAt = cursor.createdAt /\ e > cursor.id

Committed == {e \in Events : row[e].state = "COMMITTED"}

(* A page has gone past the event, or is about to. *)
Passed(e) == ~After(e) \/ \E f \in page.events : ~Before(f, e)

-----------------------------------------------------------------------------
(* The transaction of an event. *)

append(e) ==
  /\ row[e].state = "NONE"
  /\ row' = [row EXCEPT ![e] = [state |-> "OPEN", createdAt |-> clock]]
  /\ UNCHANGED <<clock, partner, late>>

commit(e) ==
  /\ row[e].state = "OPEN"
  /\ row' = [row EXCEPT ![e].state = "COMMITTED"]
  /\ late' = IF Passed(e) THEN late \cup {e} ELSE late
  /\ UNCHANGED <<clock, partner>>

rollback(e) ==
  /\ row[e].state = "OPEN"
  /\ row' = [row EXCEPT ![e].state = "ABORTED"]
  /\ UNCHANGED <<clock, partner, late>>

tick ==
  /\ clock < MaxTime
  /\ clock' = clock + 1
  /\ UNCHANGED <<row, partner, late>>

-----------------------------------------------------------------------------
(* The partner. *)

Unread == {e \in Committed : After(e)}

FirstOf(events) ==
  {e \in events : Cardinality({f \in events : Before(f, e)}) < Limit}

replay ==
  /\ ~page.sent
  /\ page' = Answer(FirstOf(Unread))
  /\ UNCHANGED <<clock, row, cursor, received, late>>

(* The partner takes a page in and moves its cursor to the last event of   *)
(* it; a page without events has no cursor, and the partner keeps its own. *)
receive ==
  /\ page.sent
  /\ IF page.events = {}
       THEN UNCHANGED <<cursor, received>>
       ELSE /\ received' = Append(received, page.events)
            /\ \E last \in page.events :
                 /\ \A f \in page.events : ~Before(last, f)
                 /\ cursor' = [createdAt |-> row[last].createdAt, id |-> last]
  /\ page' = NoAnswer
  /\ UNCHANGED <<clock, row, late>>

loseAnswer ==
  /\ page.sent
  /\ page' = NoAnswer
  /\ UNCHANGED <<clock, row, cursor, received, late>>

(* The partner starts over, without a cursor. *)
startOver ==
  /\ ~page.sent
  /\ cursor' = NoCursor /\ received' = << >> /\ late' = {}
  /\ UNCHANGED <<clock, row, page>>

Partner == replay \/ receive \/ loseAnswer \/ startOver

ReplayNext ==
  \/ \E e \in Events : append(e) \/ commit(e) \/ rollback(e)
  \/ tick
  \/ Partner

ReplaySpec == ReplayInit /\ [][ReplayNext]_replayVars

-----------------------------------------------------------------------------
(* Properties. *)

RowType == [state: {"NONE", "OPEN", "COMMITTED", "ABORTED"},
            createdAt: Stamps \cup {0}]

(* The columns, the cursor and the pages hold their types, and what is on  *)
(* a page is committed.                                                    *)
ReplayTypeOK ==
  /\ clock \in Stamps
  /\ row \in [Events -> RowType]
  /\ cursor \in [createdAt: Stamps \cup {0}, id: Events \cup {0}]
  /\ page \in [sent: BOOLEAN, events: SUBSET Committed]
  /\ received \in Seq(SUBSET Committed)
  /\ late \in SUBSET Committed

(* The partner gets no event twice and none before an older one, whatever  *)
(* commits or gets lost between its pages.                                 *)
ReplayedInOrder ==
  \A i, j \in DOMAIN received : i < j =>
    \A e \in received[i], f \in received[j] : Before(e, f)

(* What the cursor has gone past, the partner has, except for an event     *)
(* that was stamped before a page was read and committed after it: events  *)
(* of one millisecond may be parted by the end of a page.                  *)
OnlyLateMissed ==
  \A e \in Committed :
    After(e) \/ e \in late \/ \E i \in DOMAIN received : e \in received[i]
=============================================================================
