------------------------------ MODULE Recovery ------------------------------
(***************************************************************************)
(* The engine with its event log in Postgres, crashes and restarts:        *)
(* Engine::restore_from_events, Sequencer::resume, SharedState's           *)
(* persist_since, PgStore and the start-up of main.rs.                     *)
(*                                                                         *)
(* A handler persists after it has released the engine's mutex, so other   *)
(* calls come between a call and the persistence of its events.            *)
(* persist_since copies the events under the mutex and inserts them in one *)
(* transaction; the copy and the commit are one action here, because what  *)
(* a call appends between the two is persisted by that call's own handler. *)
(***************************************************************************)
EXTENDS Replay

CONSTANTS
  MaxCrashes,     \* bound: how often the process dies
  MaxPending,     \* bound: no call starts while this many handlers have yet to persist
  LoadMayFail     \* whether load_all_events may return an error

ASSUME RecoveryAssumption == MaxCrashes \in Nat /\ MaxPending \in Nat /\ LoadMayFail \in BOOLEAN

VARIABLES
  stored,      \* Postgres: the rows of sequenced_events
  seq_before,  \* the cursor of the call in progress
  cursors,     \* the seq_before of the handlers that have yet to persist
  up,          \* FALSE: start-up failed, main panicked
  crashes,     \* how often the process died
  orphans      \* history: the orders whose matching panicked for want of a book

recovery_vars == <<stored, seq_before, cursors, up, crashes, orphans>>
all_vars == <<vars, recovery_vars>>

StoredIds == {row.seq_id : row \in stored}

-----------------------------------------------------------------------------
(* Handlers *)

\* process_order without a book to match on panics after the acceptance.
Panics == stage = "idle" /\ stage' = "idle" /\ uuids' # uuids

\* Faulty: the cursor is one too low.
cursor_now_low == next_seq_id - 2

\* peek_next_seq_id().saturating_sub(1): the id of the last event so far.
cursor_now == next_seq_id - 1

\* A handler takes its cursor with the mutex held and, unless it panicked,
\* goes on to persist when its call is over.
Serve ==
  /\ up
  /\ stage = "idle" => Cardinality(cursors) < MaxPending
  /\ Next
  /\ seq_before' = IF stage = "idle" THEN cursor_now ELSE seq_before
  /\ cursors' = IF stage' = "idle" /\ ~Panics THEN cursors \cup {seq_before'} ELSE cursors
  /\ orphans' = IF Panics THEN orphans \cup {uuids'} ELSE orphans
  /\ UNCHANGED <<stored, up, crashes>>

\* A call that is answered without a change: the submission of a duplicate, or
\* the cancellation of a closed order.
SomeDuplicate ==
  \E signed \in SignedOrders, now_ms \in Times : Validated(signed, now_ms) /\ IsDuplicate(signed)

SomeClosed == \E id \in DOMAIN order_market_index :
  find_order(id) # NoOrder /\ is_closed(find_order(id))

\* Its handler persists all the same.
ServeUnchanged ==
  /\ up /\ stage = "idle" /\ Cardinality(cursors) < MaxPending
  /\ SomeDuplicate \/ SomeClosed
  /\ cursors' = cursors \cup {cursor_now}
  /\ UNCHANGED <<vars, stored, seq_before, up, crashes, orphans>>

\* ON CONFLICT (seq_id) DO NOTHING
append_events(events) ==
  stored' = stored \cup {row \in events : row.seq_id \notin StoredIds}

\* The try_lock of persist_since succeeds: no call is in progress.
PersistSince(cursor) ==
  /\ up /\ stage = "idle"
  /\ cursor \in cursors
  /\ append_events({log[i] : i \in {j \in DOMAIN log : log[j].seq_id > cursor}})
  /\ cursors' = cursors \ {cursor}
  /\ UNCHANGED <<vars, seq_before, up, crashes, orphans>>

\* The try_lock fails, or Postgres does; either way the events are dropped.
PersistDropped(cursor) ==
  /\ up
  /\ cursor \in cursors
  /\ cursors' = cursors \ {cursor}
  /\ UNCHANGED <<vars, stored, seq_before, up, crashes, orphans>>

-----------------------------------------------------------------------------
(* Restart *)

\* load_all_events: ORDER BY seq_id ASC.
loaded == InOrder(stored, [row \in stored |-> row.seq_id])

\* Faulty: counts the events instead of reading the last one's id.
resume_seq_id_by_count(events) == Len(events) + 1

resume_seq_id(events) == events[Len(events)].seq_id + 1

acceptances(events) ==
  {events[i] : i \in {j \in DOMAIN events : events[j].event.type = "order_accepted"}}

\* Faulty: the table is not rebuilt.
resumed_idempotency_empty(events) == [key \in {} |-> NoOrder]

\* Sequencer::resume: the record of a key is its last acceptance.
resumed_idempotency(events) ==
  LET key(se) == <<se.event.order.signed.trader_id, se.event.order.signed.client_order_id>>
  IN [ k \in {key(se) : se \in acceptances(events)} |->
         LET last == CHOOSE se \in acceptances(events) :
                       /\ key(se) = k
                       /\ \A other \in acceptances(events) :
                            key(other) = k => other.seq_id <= se.seq_id
         IN [ original_seq_id |-> last.seq_id, order_id |-> last.event.order.order_id,
              order_hash |-> last.event.order.order_hash ] ]

\* Engine::new and add_market: an empty engine with every market active.
StartFresh ==
  /\ books' = [m \in Markets |-> new_book]
  /\ order_market_index' = [id \in {} |-> ""]
  /\ log' = << >> /\ next_seq_id' = 1
  /\ idempotency' = [key \in {} |-> NoOrder]
  /\ filled_amounts' = [hash \in Hashes |-> 0]
  /\ cancelled' = {}
  /\ nonces' = [t \in TraderIds |-> 0]

\* restore_from_events: the books and the state store are replaced.
RestoreFromEvents(events, rs) ==
  /\ books' = build_books(rs)
  /\ order_market_index' =
       [id \in {se.event.order.order_id : se \in acceptances(events)} |->
          (CHOOSE se \in acceptances(events) :
             se.event.order.order_id = id).event.order.signed.market_id]
  /\ log' = events /\ next_seq_id' = resume_seq_id(events)
  /\ idempotency' = resumed_idempotency(events)
  /\ filled_amounts' = rs.filled_amounts
  /\ cancelled' = rs.cancelled
  /\ nonces' = rs.nonces

\* Faulty: start-up may skip the persisted log.
MayStartEmptyAlways == TRUE

\* No row, or an error from load_all_events that main only reports.
MayStartEmpty == stored = {} \/ LoadMayFail

\* Everything in memory is gone; main starts again.
Crash ==
  /\ up /\ crashes < MaxCrashes
  /\ crashes' = crashes + 1
  /\ markets' = [m \in Markets |-> "active"]
  /\ stage' = "idle" /\ taker' = NoOrder
  /\ prices' = {} /\ price' = 0 /\ maker_ids' = << >> /\ fills' = << >> /\ to_cancel' = {}
  /\ seq_before' = 0 /\ cursors' = {}
  /\ UNCHANGED <<stored, uuids, orphans>>

RestartEmpty ==
  /\ Crash
  /\ MayStartEmpty
  /\ StartFresh
  /\ UNCHANGED up

RestartRestored ==
  /\ Crash
  /\ stored # {} /\ replayed(loaded).error = "none"
  /\ RestoreFromEvents(loaded, replayed(loaded))
  /\ UNCHANGED up

\* restore_from_events(..).expect(..) in main
RestartFails ==
  /\ Crash
  /\ stored # {} /\ replayed(loaded).error # "none"
  /\ up' = FALSE
  /\ StartFresh

-----------------------------------------------------------------------------
(* Specification *)

RecoveryInit ==
  /\ Init
  /\ stored = {} /\ seq_before = 0 /\ cursors = {} /\ up = TRUE /\ crashes = 0
  /\ orphans = {}

RecoveryNext ==
  \/ Serve
  \/ ServeUnchanged
  \/ \E cursor \in cursors : PersistSince(cursor) \/ PersistDropped(cursor)
  \/ RestartEmpty
  \/ RestartRestored
  \/ RestartFails

RecoverySpec == RecoveryInit /\ [][RecoveryNext]_all_vars
=============================================================================
