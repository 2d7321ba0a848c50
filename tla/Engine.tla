------------------------------- MODULE Engine -------------------------------
(***************************************************************************)
(* src/engine/mod.rs, src/engine/matching.rs, src/sequencer/mod.rs,        *)
(* src/db/mod.rs and src/ops/admin.rs: the engine as one state machine.    *)
(*                                                                         *)
(* Every method takes &mut self and the service keeps the engine behind    *)
(* one mutex, so at most one call is in progress.  A call without a loop   *)
(* is one action.  process_order and cancel_all_orders loop over makers,   *)
(* fills and log entries: each iteration is an action of its own, `stage`  *)
(* says where the call stands, and no other call starts before it ends.    *)
(***************************************************************************)
EXTENDS OrderBook

CONSTANTS
  Times,      \* the values the clock may show; it may go backwards
  MaxEvents   \* bound: no call starts once the log has this many events

ASSUME TimesAssumption == Times \subseteq Nat /\ MaxEvents \in Nat

VARIABLES
  \* --- Engine ---
  markets,             \* market id -> status; the rest of MarketConfig is constant
  books,               \* market id -> book, for the markets that have one
  order_market_index,  \* order id -> market id
  \* --- Sequencer ---
  next_seq_id,
  log,
  idempotency,         \* <<trader_id, client_order_id>> -> the original acceptance
  \* --- StateStore ---
  filled_amounts,      \* hash -> lots filled, 0 when the map has no entry
  cancelled,           \* the hashes mapped to true
  nonces,              \* trader id -> highest accepted nonce, 0 when none
  \* --- Uuid::new_v4 ---
  uuids,               \* how many ids were drawn: id n is the n-th, never drawn again
  \* --- the call in progress ---
  stage,               \* "idle", "matching", "recording" or "cancelling"
  taker,               \* the incoming order of process_order
  prices,              \* crossable price levels not walked yet
  price,               \* the level being walked
  maker_ids,           \* what is left of the snapshot of its queue
  fills,               \* the fills made and not yet sequenced
  to_cancel            \* cancel_all_orders: log positions of the orders still to cancel

engine_vars == <<markets, books, order_market_index>>
sequencer_vars == <<next_seq_id, log, idempotency>>
store_vars == <<filled_amounts, cancelled, nonces>>
matching_vars == <<taker, prices, price, maker_ids, fills>>
vars == <<engine_vars, sequencer_vars, store_vars, uuids, stage, matching_vars, to_cancel>>

-----------------------------------------------------------------------------
(* Types *)

CancelReasons == {"trader_request", "self_trade_prevention", "admin_force"}

Events ==
  [type : {"order_accepted"}, order : Orders]
    \cup [type : {"fill"}, fill : Fills]
    \cup [type : {"order_cancelled"}, order_id : OrderIds, order_hash : Hashes,
          reason : CancelReasons]
    \cup [type : {"market_paused", "market_resumed"}, market_id : Markets]

SequencedEvents == [seq_id : Nat, event : Events]

IdempotencyRecords == [original_seq_id : Nat, order_id : OrderIds, order_hash : Hashes]

-----------------------------------------------------------------------------
(* Sequencer *)

\* Faulty: the counter is not advanced.
append_event_same_id(event) ==
  /\ log' = Append(log, [seq_id |-> next_seq_id, event |-> event])
  /\ UNCHANGED next_seq_id

append_event(event) ==
  /\ log' = Append(log, [seq_id |-> next_seq_id, event |-> event])
  /\ next_seq_id' = next_seq_id + 1

\* Faulty: the record names the event after the acceptance.
register_accepted_late(order) ==
  idempotency' = put(idempotency, <<order.signed.trader_id, order.signed.client_order_id>>,
    [ original_seq_id |-> next_seq_id + 1, order_id |-> order.order_id,
      order_hash |-> order.order_hash ])

register_accepted(order) ==
  idempotency' = put(idempotency, <<order.signed.trader_id, order.signed.client_order_id>>,
    [ original_seq_id |-> order.created_sequence, order_id |-> order.order_id,
      order_hash |-> order.order_hash ])

OrderCancelled(id, hash, reason) ==
  [type |-> "order_cancelled", order_id |-> id, order_hash |-> hash, reason |-> reason]

-----------------------------------------------------------------------------
(* StateStore *)

\* Faulty: only the maker's amount grows.
apply_fill_maker_only(fill) ==
  filled_amounts' = [filled_amounts EXCEPT ![fill.maker_order_hash] = @ + fill.size_lots]

apply_fill(fill) ==
  filled_amounts' = [filled_amounts EXCEPT ![fill.taker_order_hash] = @ + fill.size_lots,
                                           ![fill.maker_order_hash] = @ + fill.size_lots]

cancel_order(hash) == cancelled' = cancelled \cup {hash}

\* Faulty: a nonce equal to the last one passes.
check_and_update_nonce_loose(signed) ==
  /\ signed.nonce >= nonces[signed.trader_id]
  /\ nonces' = [nonces EXCEPT ![signed.trader_id] = signed.nonce]

check_and_update_nonce(signed) ==
  /\ signed.nonce > nonces[signed.trader_id]
  /\ nonces' = [nonces EXCEPT ![signed.trader_id] = signed.nonce]

-----------------------------------------------------------------------------
(* Engine::process_order, validation: steps 1 to 6 change nothing and a    *)
(* rejected or duplicate order leaves the engine as it was, so the order   *)
(* of the checks does not matter to the state.                             *)

Validated(signed, now_ms) ==
  /\ validate_fields(signed, now_ms)
  /\ verify_signature(signed)
  /\ signed.trader_id = hex_encode(signed.trader_pubkey)
  /\ signed.market_id \in DOMAIN markets
  /\ is_active(markets[signed.market_id])
  /\ validate_price(signed.market_id, signed.price_ticks)
  /\ validate_size(signed.market_id, signed.size_lots)

IsDuplicate(signed) == <<signed.trader_id, signed.client_order_id>> \in DOMAIN idempotency

\* find_order: the order as its book holds it, or NoOrder.
find_order(id) ==
  IF /\ id \in DOMAIN order_market_index
     /\ order_market_index[id] \in DOMAIN books
     /\ id \in DOMAIN books[order_market_index[id]].orders
  THEN books[order_market_index[id]].orders[id]
  ELSE NoOrder

\* The final_status a duplicate submission is answered with.
duplicate_status(signed) ==
  LET order == find_order(idempotency[<<signed.trader_id, signed.client_order_id>>].order_id)
  IN IF order = NoOrder THEN "filled" ELSE order.status

-----------------------------------------------------------------------------
(* Engine::process_order, acceptance: steps 7 and 8.                       *)

NewOrder(signed, id) ==
  [ order_id |-> id, signed |-> signed, order_hash |-> canonical_hash(signed),
    filled_size_lots |-> 0, status |-> "open",
    created_sequence |-> next_seq_id, last_update_sequence |-> next_seq_id ]

Opposite(side) == IF side = "buy" THEN "sell" ELSE "buy"

\* Faulty: the comparison with the limit price is strict.
crosses_strictly(side, level, limit) == IF side = "buy" THEN level < limit ELSE level > limit

\* A level of the opposite side that a taker of this side and limit can trade at.
crosses(side, level, limit) == IF side = "buy" THEN level <= limit ELSE level >= limit

crossable_prices(book, order) ==
  {p \in DOMAIN book.queues[Opposite(order.signed.side)] :
     crosses(order.signed.side, p, order.signed.price_ticks)}

\* Steps 1 to 8.  A market without a book makes books.get_mut(..).unwrap()
\* panic after the acceptance is in the log: the call ends there, and tokio's
\* mutex is released without poisoning.
ProcessOrder(signed, now_ms) ==
  /\ stage = "idle"
  /\ Len(log) < MaxEvents
  /\ Validated(signed, now_ms)
  /\ ~IsDuplicate(signed)
  /\ check_and_update_nonce(signed)
  /\ LET order == NewOrder(signed, uuids + 1)
         has_book == signed.market_id \in DOMAIN books
     IN
     /\ append_event([type |-> "order_accepted", order |-> order])
     /\ register_accepted(order)
     /\ order_market_index' = put(order_market_index, order.order_id, signed.market_id)
     /\ stage' = IF has_book THEN "matching" ELSE "idle"
     /\ taker' = IF has_book THEN order ELSE NoOrder
     /\ prices' = IF has_book THEN crossable_prices(books[signed.market_id], order) ELSE {}
  /\ uuids' = uuids + 1
  /\ UNCHANGED <<markets, books, filled_amounts, cancelled, price, maker_ids, fills, to_cancel>>

-----------------------------------------------------------------------------
(* match_order: step 9.  MatchOver is the loops' break conditions; the     *)
(* taker walks its snapshot of the crossable levels, best price first, and *)
(* at each level its snapshot of the queue, oldest order first.            *)

\* Faulty: the loop goes on with a taker that self-trade prevention closed.
MatchOver_unless_closed ==
  \/ remaining_size_lots(taker) = 0
  \/ maker_ids = << >> /\ prices = {}

MatchOver ==
  \/ remaining_size_lots(taker) = 0
  \/ is_closed(taker)
  \/ maker_ids = << >> /\ prices = {}

\* Faulty: a level that was walked is walked again.
levels_after_same(level) == prices

levels_after(level) == prices \ {level}

NextLevel ==
  /\ stage = "matching" /\ ~MatchOver
  /\ maker_ids = << >>
  /\ price' = best_of(Opposite(taker.signed.side), prices)
  /\ prices' = levels_after(price')
  /\ maker_ids' = orders_at_price(books[taker.signed.market_id], price',
                                  Opposite(taker.signed.side))
  /\ UNCHANGED <<engine_vars, sequencer_vars, store_vars, uuids, stage, taker, fills, to_cancel>>

\* Faulty: the filled amount goes down.
after_fill_down(order, qty, seq) ==
  [order EXCEPT !.filled_size_lots = @ - qty,
                !.last_update_sequence = seq,
                !.status = "partially_filled"]

after_fill(order, qty, seq) ==
  [order EXCEPT !.filled_size_lots = @ + qty,
                !.last_update_sequence = seq,
                !.status = IF order.filled_size_lots + qty = order.signed.size_lots
                           THEN "filled" ELSE "partially_filled"]

\* Faulty: the fill is stamped with the id after the acceptance.
NewFillNextId(maker, qty) ==
  [ market_id |-> maker.signed.market_id,
    taker_order_id |-> taker.order_id, taker_order_hash |-> taker.order_hash,
    taker_trader_id |-> taker.signed.trader_id,
    maker_order_id |-> maker.order_id, maker_order_hash |-> maker.order_hash,
    maker_trader_id |-> maker.signed.trader_id,
    price_ticks |-> price, size_lots |-> qty, sequence_id |-> next_seq_id ]

NewFill(maker, qty) ==
  [ market_id |-> maker.signed.market_id,
    taker_order_id |-> taker.order_id, taker_order_hash |-> taker.order_hash,
    taker_trader_id |-> taker.signed.trader_id,
    maker_order_id |-> maker.order_id, maker_order_hash |-> maker.order_hash,
    maker_trader_id |-> maker.signed.trader_id,
    price_ticks |-> price, size_lots |-> qty, sequence_id |-> taker.created_sequence ]

\* Faulty: the taker always takes its whole remainder.
fill_qty_taker(maker) == remaining_size_lots(taker)

fill_qty(maker) ==
  IF remaining_size_lots(taker) <= remaining_size_lots(maker)
  THEN remaining_size_lots(taker) ELSE remaining_size_lots(maker)

\* Faulty: a fully filled maker is forgotten altogether.
update_maker_forgetting(book, maker) ==
  LET updated == [book EXCEPT !.orders[maker.order_id] = maker] IN
  IF ~is_closed(maker) THEN updated
  ELSE [ remove_from_queue(updated, maker.order_id) EXCEPT !.orders =
           [id \in DOMAIN @ \ {maker.order_id} |-> @[id]] ]

update_maker(book, maker) ==
  LET updated == [book EXCEPT !.orders[maker.order_id] = maker] IN
  IF is_closed(maker) THEN remove_from_queue(updated, maker.order_id) ELSE updated

FillMaker(maker) ==
  LET qty == fill_qty(maker)
      market_id == taker.signed.market_id
  IN
  /\ fills' = Append(fills, NewFill(maker, qty))
  /\ taker' = after_fill(taker, qty, taker.created_sequence)
  /\ books' = [books EXCEPT ![market_id] =
                 update_maker(@, after_fill(maker, qty, taker.created_sequence))]

StpCancelTaker(maker) ==
  /\ taker' = [taker EXCEPT !.status = "cancelled_stp",
                            !.last_update_sequence = taker.created_sequence]
  /\ UNCHANGED <<books, fills>>

self_trade(maker) == maker.signed.trader_id = taker.signed.trader_id

\* A maker that is gone or closed by now is skipped.
stale(book, id) == id \notin DOMAIN book.orders \/ is_closed(book.orders[id])

MatchMaker ==
  /\ stage = "matching" /\ ~MatchOver
  /\ maker_ids # << >>
  /\ LET book == books[taker.signed.market_id]
         id == Head(maker_ids)
     IN IF stale(book, id) THEN UNCHANGED <<taker, books, fills>>
        ELSE IF self_trade(book.orders[id]) THEN StpCancelTaker(book.orders[id])
        ELSE FillMaker(book.orders[id])
  /\ maker_ids' = Tail(maker_ids)
  /\ UNCHANGED <<markets, order_market_index, sequencer_vars, store_vars, uuids, stage,
                 prices, price, to_cancel>>

\* match_order returns its fills.
EndMatch ==
  /\ stage = "matching" /\ MatchOver
  /\ stage' = "recording"
  /\ prices' = {} /\ price' = 0 /\ maker_ids' = << >>
  /\ UNCHANGED <<engine_vars, sequencer_vars, store_vars, uuids, taker, fills, to_cancel>>

-----------------------------------------------------------------------------
(* Engine::process_order, steps 10 to 12.                                  *)

RecordFill ==
  /\ stage = "recording" /\ fills # << >>
  /\ append_event([type |-> "fill", fill |-> Head(fills)])
  /\ apply_fill(Head(fills))
  /\ fills' = Tail(fills)
  /\ UNCHANGED <<engine_vars, idempotency, cancelled, nonces, uuids, stage, taker, prices,
                 price, maker_ids, to_cancel>>

\* Faulty: a partially filled taker is not put on the book.
RestResidualOfOpen ==
  books' = IF taker.status = "open"
           THEN [books EXCEPT ![taker.signed.market_id] = insert(@, taker)]
           ELSE books

RestResidual ==
  books' = IF ~is_closed(taker) /\ remaining_size_lots(taker) > 0
           THEN [books EXCEPT ![taker.signed.market_id] = insert(@, taker)]
           ELSE books

FinishOrder ==
  /\ stage = "recording" /\ fills = << >>
  /\ IF taker.status = "cancelled_stp"
     THEN /\ append_event(OrderCancelled(taker.order_id, taker.order_hash,
                                         "self_trade_prevention"))
          /\ cancel_order(taker.order_hash)
     ELSE UNCHANGED <<log, next_seq_id, cancelled>>
  /\ RestResidual
  /\ stage' = "idle"
  /\ taker' = NoOrder
  /\ UNCHANGED <<markets, order_market_index, idempotency, filled_amounts, nonces, uuids,
                 prices, price, maker_ids, fills, to_cancel>>

-----------------------------------------------------------------------------
(* Engine::process_cancel.  Every error, and a closed order, leaves the    *)
(* engine as it was; so does the panic when the market has no book.        *)

ProcessCancel(id, trader_id) ==
  /\ stage = "idle"
  /\ Len(log) < MaxEvents
  /\ LET order == find_order(id) IN
     /\ order # NoOrder
     /\ order.signed.trader_id = trader_id
     /\ ~is_closed(order)
     /\ append_event(OrderCancelled(id, order.order_hash, "trader_request"))
     /\ cancel_order(order.order_hash)
     /\ books' = [books EXCEPT ![order_market_index[id]] = cancel(@, id)]
  /\ UNCHANGED <<markets, order_market_index, idempotency, filled_amounts, nonces, uuids,
                 stage, matching_vars, to_cancel>>

\* rest.rs cancel_by_client_id: look the id up, then process_cancel.
CancelByClientId(trader_id, client_order_id) ==
  /\ <<trader_id, client_order_id>> \in DOMAIN idempotency
  /\ ProcessCancel(idempotency[<<trader_id, client_order_id>>].order_id, trader_id)

-----------------------------------------------------------------------------
(* Administrative operations.                                              *)

\* add_market with a new status: a market without a book gets an empty one.
add_market(market_id, status) ==
  /\ markets' = [markets EXCEPT ![market_id] = status]
  /\ books' = IF market_id \in DOMAIN books THEN books ELSE put(books, market_id, new_book)

SetStatus(market_id, from, to, type) ==
  /\ stage = "idle"
  /\ Len(log) < MaxEvents
  /\ markets[market_id] = from
  /\ add_market(market_id, to)
  /\ append_event([type |-> type, market_id |-> market_id])
  /\ UNCHANGED <<order_market_index, idempotency, store_vars, uuids, stage, matching_vars,
                 to_cancel>>

PauseMarket(market_id) == SetStatus(market_id, "active", "paused", "market_paused")

ResumeMarket(market_id) == SetStatus(market_id, "paused", "active", "market_resumed")

\* cancel_all_orders collects the acceptances of the market in the log; the
\* order embedded in the event is the order as it was accepted.
CancelAllOrders(market_id) ==
  /\ stage = "idle"
  /\ Len(log) < MaxEvents
  /\ to_cancel' = {i \in DOMAIN log :
                     /\ log[i].event.type = "order_accepted"
                     /\ log[i].event.order.signed.market_id = market_id
                     /\ ~is_closed(log[i].event.order)}
  /\ to_cancel' # {}
  /\ stage' = "cancelling"
  /\ UNCHANGED <<engine_vars, sequencer_vars, store_vars, uuids, matching_vars>>

CancelNext ==
  /\ stage = "cancelling"
  /\ \E i \in to_cancel :
       /\ \A j \in to_cancel : i <= j
       /\ LET order == log[i].event.order IN
          /\ cancel_order(order.order_hash)
          /\ append_event(OrderCancelled(order.order_id, order.order_hash, "admin_force"))
       /\ to_cancel' = to_cancel \ {i}
       /\ stage' = IF to_cancel = {i} THEN "idle" ELSE "cancelling"
  /\ UNCHANGED <<engine_vars, idempotency, filled_amounts, nonces, uuids, matching_vars>>

-----------------------------------------------------------------------------
(* Specification *)

Init ==
  /\ markets = [m \in Markets |-> "active"]
  /\ books = [m \in Markets |-> new_book]
  /\ order_market_index = [id \in {} |-> ""]
  /\ next_seq_id = 1
  /\ log = << >>
  /\ idempotency = [key \in {} |-> NoOrder]
  /\ filled_amounts = [hash \in Hashes |-> 0]
  /\ cancelled = {}
  /\ nonces = [t \in TraderIds |-> 0]
  /\ uuids = 0
  /\ stage = "idle"
  /\ taker = NoOrder
  /\ prices = {} /\ price = 0
  /\ maker_ids = << >>
  /\ fills = << >>
  /\ to_cancel = {}

\* What a call in progress does next.
Continue == NextLevel \/ MatchMaker \/ EndMatch \/ RecordFill \/ FinishOrder \/ CancelNext

\* A call that changes the engine.
Call ==
  \/ \E signed \in SignedOrders, now_ms \in Times : ProcessOrder(signed, now_ms)
  \/ \E id \in 1..uuids, trader_id \in TraderIds : ProcessCancel(id, trader_id)
  \/ \E key \in DOMAIN idempotency : CancelByClientId(key[1], key[2])
  \/ \E market_id \in Markets :
       PauseMarket(market_id) \/ ResumeMarket(market_id) \/ CancelAllOrders(market_id)

Next == Call \/ Continue

\* The handler that holds the engine's mutex never waits for anything, so a
\* call that has begun goes on to its end.
Fairness == WF_vars(Continue)

Spec == Init /\ [][Next]_vars /\ Fairness
=============================================================================
