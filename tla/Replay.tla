------------------------------- MODULE Replay -------------------------------
(***************************************************************************)
(* src/replay/mod.rs: rebuild the books and the state store from a log.    *)
(*                                                                         *)
(* Replay is a fold of Apply over the events.  A replay state holds every  *)
(* order ever accepted (orders), the state store (filled_amounts,          *)
(* cancelled, nonces), the last sequence id seen and the error that ended  *)
(* the walk, if one did.                                                   *)
(***************************************************************************)
EXTENDS Engine

fresh_replay ==
  [ orders |-> [id \in {} |-> NoOrder], filled_amounts |-> [hash \in Hashes |-> 0],
    cancelled |-> {}, nonces |-> [t \in TraderIds |-> 0],
    last_seq_id |-> 0, error |-> "none" ]

\* Faulty: replay leaves the nonce table empty.
replay_accepted_no_nonce(rs, order) ==
  [rs EXCEPT !.orders = put(@, order.order_id, order)]

replay_accepted(rs, order) ==
  [rs EXCEPT !.nonces[order.signed.trader_id] =
               IF order.signed.nonce > @ THEN order.signed.nonce ELSE @,
             !.orders = put(@, order.order_id, order)]

\* One side of a fill; an order's earlier cancellation does not matter.
replay_filled(order, qty, seq_id) ==
  [order EXCEPT !.filled_size_lots = @ + qty,
                !.last_update_sequence = seq_id,
                !.status = IF order.filled_size_lots + qty >= order.signed.size_lots
                           THEN "filled" ELSE "partially_filled"]

\* Faulty: the maker's side of the fill is forgotten.
replay_fill_taker_only(rs, fill, seq_id) ==
  IF {fill.taker_order_id, fill.maker_order_id} \subseteq DOMAIN rs.orders
  THEN [rs EXCEPT
          !.orders[fill.taker_order_id] = replay_filled(@, fill.size_lots, seq_id),
          !.filled_amounts[fill.taker_order_hash] = @ + fill.size_lots,
          !.filled_amounts[fill.maker_order_hash] = @ + fill.size_lots]
  ELSE [rs EXCEPT !.error = "UnknownOrder"]

replay_fill(rs, fill, seq_id) ==
  IF {fill.taker_order_id, fill.maker_order_id} \subseteq DOMAIN rs.orders
  THEN [rs EXCEPT
          !.orders[fill.taker_order_id] = replay_filled(@, fill.size_lots, seq_id),
          !.orders[fill.maker_order_id] = replay_filled(@, fill.size_lots, seq_id),
          !.filled_amounts[fill.taker_order_hash] = @ + fill.size_lots,
          !.filled_amounts[fill.maker_order_hash] = @ + fill.size_lots]
  ELSE [rs EXCEPT !.error = "UnknownOrder"]

replay_cancelled(rs, event, seq_id) ==
  IF event.order_id \in DOMAIN rs.orders
  THEN [rs EXCEPT
          !.orders[event.order_id].status =
             IF event.reason = "self_trade_prevention" THEN "cancelled_stp" ELSE "cancelled",
          !.orders[event.order_id].last_update_sequence = seq_id,
          !.cancelled = @ \cup {event.order_hash}]
  ELSE [rs EXCEPT !.error = "UnknownOrder"]

\* The first event may have any sequence id; after it no id may be skipped.
follows(rs, seq_id) == rs.last_seq_id = 0 \/ seq_id = rs.last_seq_id + 1

Apply(rs, se) ==
  LET at == [rs EXCEPT !.last_seq_id = se.seq_id]
      event == se.event
  IN IF rs.error # "none" THEN rs
     ELSE IF ~follows(rs, se.seq_id) THEN [rs EXCEPT !.error = "SeqIdGap"]
     ELSE CASE event.type = "order_accepted" -> replay_accepted(at, event.order)
            [] event.type = "fill" -> replay_fill(at, event.fill, se.seq_id)
            [] event.type = "order_cancelled" -> replay_cancelled(at, event, se.seq_id)
            [] OTHER -> at

replayed(events) == FoldLeft(Apply, fresh_replay, events)

\* Faulty: every order goes back into its book.
open_orders_all(rs, market_id) ==
  InOrder({id \in DOMAIN rs.orders : rs.orders[id].signed.market_id = market_id},
          [id \in DOMAIN rs.orders |-> rs.orders[id].created_sequence])

\* The open orders of a market, oldest first.
open_orders(rs, market_id) ==
  InOrder({id \in DOMAIN rs.orders : /\ ~is_closed(rs.orders[id])
                                     /\ rs.orders[id].signed.market_id = market_id},
          [id \in DOMAIN rs.orders |-> rs.orders[id].created_sequence])

build_book(rs, market_id) ==
  FoldLeft(LAMBDA book, id : insert(book, rs.orders[id]), new_book,
           open_orders(rs, market_id))

\* A market without an open order gets no book.
build_books(rs) ==
  [m \in {m \in Markets : open_orders(rs, m) # << >>} |-> build_book(rs, m)]
=============================================================================
