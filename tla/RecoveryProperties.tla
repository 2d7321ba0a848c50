------------------------- MODULE RecoveryProperties -------------------------
(***************************************************************************)
(* What the engine must satisfy across persistence, crashes and restarts,  *)
(* and what the comments of the code say of a restart.                     *)
(***************************************************************************)
EXTENDS EngineProperties, Recovery

(* The types of the variables of module Recovery.                          *)
RecoveryTypeOK ==
  /\ stored \subseteq SequencedEvents
  /\ seq_before \in Nat
  /\ cursors \subseteq Nat
  /\ up \in BOOLEAN
  /\ crashes \in 0..MaxCrashes
  /\ orphans \subseteq 1..uuids

-----------------------------------------------------------------------------
(* The log and its rows in Postgres *)

(* Sequence ids follow one another without a gap, and the counter is one   *)
(* ahead of the last.  After a restart the log may begin later than 1: the *)
(* rows of the first events may never have been inserted.                  *)
LogContiguous ==
  /\ \A i \in DOMAIN log : i > 1 => log[i].seq_id = log[i - 1].seq_id + 1
  /\ next_seq_id = IF log = << >> THEN 1 ELSE log[Len(log)].seq_id + 1

(* Every row in Postgres is an event of the running engine's log, under    *)
(* the same sequence id, whatever was dropped before it: ON CONFLICT DO    *)
(* NOTHING never has a different event to discard.                         *)
RowsAreLogged ==
  up => \A row \in stored : \E i \in DOMAIN log : log[i] = row

-----------------------------------------------------------------------------
(* Live state and replayed state *)

(* At every moment between calls the state store is what replaying the log *)
(* gives, so a restart from the full log would keep every filled amount,   *)
(* cancellation and nonce.                                                 *)
StoreMatchesReplay ==
  stage = "idle" =>
    LET rs == replayed(log) IN
    /\ rs.error = "none"
    /\ filled_amounts = rs.filled_amounts
    /\ cancelled = rs.cancelled
    /\ nonces = rs.nonces

AboutOrder(event, id) ==
  \/ event.type = "fill" /\ FillOf(event.fill, id)
  \/ event.type = "order_cancelled" /\ event.order_id = id

(* The last event about the order is a cancellation by the admin, which    *)
(* replay honours and the live books do not.                               *)
EndedByAdmin(id) ==
  \E i \in DOMAIN log :
    /\ log[i].event.type = "order_cancelled" /\ log[i].event.order_id = id
    /\ log[i].event.reason = "admin_force"
    /\ \A j \in i + 1 .. Len(log) : ~AboutOrder(log[j].event, id)

\* One order stands before the other in the queue.
Precedes(queue, one, other) ==
  \E i, j \in DOMAIN queue : i < j /\ queue[i] = one /\ queue[j] = other

\* At each price the two books hold the same orders, in the same order and as
\* much filled, but for the ones that the admin has cancelled and the ones that
\* only the rebuilt book knows.
SameBook(book, rebuilt) ==
  \A side \in Sides : \A p \in DOMAIN book.queues[side] \cup DOMAIN rebuilt.queues[side] :
    LET live == orders_at_price(book, p, side)
        again == orders_at_price(rebuilt, p, side)
        kept == {id \in ToSet(live) : ~EndedByAdmin(id)}
    IN /\ kept = ToSet(again) \cap DOMAIN book.orders
       /\ \A one, other \in kept : Precedes(live, one, other) <=> Precedes(again, one, other)
       /\ \A id \in kept :
            rebuilt.orders[id].filled_size_lots = book.orders[id].filled_size_lots

(* Between calls a restart from the full log would rebuild every live      *)
(* book: the same orders, in the same place of the same queues, as much    *)
(* filled, except the orders the admin has cancelled.  Besides them it     *)
(* would rest the orders whose acceptance panicked for want of a book.     *)
BooksMatchReplay ==
  stage = "idle" =>
    LET rs == replayed(log) IN
    \A m \in DOMAIN books : SameBook(books[m], build_book(rs, m))

(* Between calls, across restarts, a bid reaches an ask only if one of the *)
(* two was accepted and then not matched, because its market had no book:  *)
(* a restart rests such an order as it finds it in the log.                *)
CrossedOnlyByOrphans ==
  up /\ stage = "idle" =>
    \A m \in DOMAIN books :
      LET levels == books[m].queues IN
      \A b \in DOMAIN levels["buy"], a \in DOMAIN levels["sell"] :
        \/ b < a
        \/ ToSet(levels["buy"][b]) \subseteq orphans
        \/ ToSet(levels["sell"][a]) \subseteq orphans

StatusEvents(m) ==
  {i \in DOMAIN log : /\ log[i].event.type \in {"market_paused", "market_resumed"}
                      /\ log[i].event.market_id = m}

(* A paused market is paused by the last word of the log, and no order of  *)
(* it was accepted after that; a market is active although the log's last  *)
(* word is a pause only if the process has been restarted (replay ignores  *)
(* a pause, replay/mod.rs:201).                                            *)
PauseHolds ==
  up => \A m \in Markets :
    LET paused == {i \in StatusEvents(m) : /\ log[i].event.type = "market_paused"
                                           /\ \A j \in StatusEvents(m) : j <= i}
    IN IF markets[m] = "paused"
       THEN \E i \in paused : \A j \in Accepted :
              OrderAt(j).signed.market_id = m => j < i
       ELSE paused = {} \/ crashes > 0

-----------------------------------------------------------------------------
(* What the comments of the code say, and the code does not do *)

(* sequencer/mod.rs:70: next_seq_id is "never reset - even across restarts *)
(* (loaded from persisted log head)": it is ahead of every persisted id.   *)
CounterNeverReset ==
  up => \A row \in stored : row.seq_id < next_seq_id

(* replay/mod.rs: the log is enough to rebuild the engine after a crash.   *)
RestartSucceeds == up
=============================================================================
