-------------------------- MODULE FederationExchange --------------------------
(***************************************************************************)
(* A federation partner that changes things and follows what changed: its  *)
(* calls with one idempotency key (FederationIdempotency) write events     *)
(* that it reads back (OutboxReplay), among those of everybody else.       *)
(*                                                                         *)
(* The two meet in the operation: a domain service that appends an event   *)
(* does so in the transaction that takes effect, so both commit, or        *)
(* neither.  Which requests have an event is a fact of their endpoint: to  *)
(* decide or cancel a leave, to subscribe and to replay append none.       *)
(***************************************************************************)
EXTENDS FederationIdempotency, OutboxReplay

CONSTANT Silent  \* requests whose operation appends no event

(* A call's operation writes the event of the call's number, if any. *)
ASSUME ExchangeAssumption == Calls \subseteq Events /\ Silent \subseteq Bodies

exchangeVars == <<vars, replayVars>>

ExchangeInit == Init /\ ReplayInit

-----------------------------------------------------------------------------
(* The operation of a call opens its transaction and writes its event. *)
begin(c) ==
  /\ call[c].step = "run" /\ call[c].body \notin Silent
  /\ append(c)
  /\ UNCHANGED vars

(* Mutant of takesEffect: the event is written on its own, and lost. *)
takesEffectUnsaid(c) ==
  /\ operate(c) \/ operateBreaks(c)
  /\ IF call[c].body \in Silent THEN UNCHANGED replayVars ELSE rollback(c)

(* The event, where the operation has one, commits with the effect. *)
takesEffect(c) ==
  /\ operate(c) \/ operateBreaks(c)
  /\ IF call[c].body \in Silent THEN UNCHANGED replayVars ELSE commit(c)

(* What is open when the operation fails or the process dies is undone. *)
undone(c) == IF row[c].state = "OPEN" THEN rollback(c) ELSE UNCHANGED replayVars

ends(c) == (operateFails(c) \/ crash(c)) /\ undone(c)

(* The other steps of a call touch its record only. *)
keyed(c) ==
  /\ \/ \E body \in Bodies : create(c, body)
     \/ readRecord(c) \/ claim(c) \/ save(c) \/ saveFails(c) \/ undo(c)
  /\ UNCHANGED replayVars

(* Everybody else's transactions, the clock and the partner's paging. *)
others ==
  /\ \/ \E e \in Events \ Calls : append(e) \/ commit(e) \/ rollback(e)
     \/ tick
     \/ Partner
  /\ UNCHANGED vars

ExchangeNext ==
  \/ \E c \in Calls : begin(c) \/ takesEffect(c) \/ ends(c) \/ keyed(c)
  \/ others
  \/ expire /\ UNCHANGED replayVars

ExchangeSpec == ExchangeInit /\ [][ExchangeNext]_exchangeVars

-----------------------------------------------------------------------------
(* Properties. *)

(* Both parts hold their types, and a transaction is open only while its   *)
(* call is running.                                                        *)
ExchangeTypeOK ==
  /\ TypeOK /\ ReplayTypeOK
  /\ \A c \in Calls : row[c].state = "OPEN" => call[c].step = "run"

Effective == {c \in Calls : row[c].state = "COMMITTED"}

(* The event stream tells of the key what happened, for a request that     *)
(* has an event: one event per effect, and one event in all however often  *)
(* the partner retried, unless a success could not be recorded; a call     *)
(* that was answered is in it.  Of any other request it tells nothing,     *)
(* whatever took effect and whoever was answered.                          *)
StreamTellsEffects ==
  IF record.body \in Silent
    THEN Effective = {}
    ELSE /\ Cardinality(Effective) = effects
         /\ ~unrecorded => \A c, d \in Effective : c = d
         /\ \A c \in Calls : call[c].step = "answered" => Effective # {}
=============================================================================
