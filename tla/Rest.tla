-------------------------------- MODULE Rest --------------------------------
(***************************************************************************)
(* src/api/rest.rs: what the handlers answer, and the queries of           *)
(* engine/mod.rs and engine/orderbook.rs behind them.  The handlers that   *)
(* change the engine do so by the actions of module Engine; their answers  *)
(* are functions of the state in which the call takes the mutex.  An       *)
(* answer has the code a client branches on, HTTP statuses are left out.   *)
(***************************************************************************)
EXTENDS Engine

CONSTANTS
  WORD,       \* 2^64: what a u64 cannot hold
  MaxDepth,   \* the greatest depth get_book serves, 200 in the code
  MaxTrades   \* the greatest limit get_trades serves, 1000 in the code

ASSUME RestAssumption == WORD \in Nat \ {0} /\ MaxDepth \in Nat /\ MaxTrades \in Nat \ {0}

-----------------------------------------------------------------------------
(* Depth of a book *)

\* The orders of a level.  Option<&V>: its queue names orders the book holds.
held_at(book, side, p) ==
  [ i \in DOMAIN book.queues[side][p] |->
      IF book.queues[side][p][i] \in DOMAIN book.orders
      THEN book.orders[book.queues[side][p][i]] ELSE NoOrder ]

\* Faulty: the level shows the orders' full sizes.
lots_shown_original(order) == IF order = NoOrder THEN 0 ELSE order.signed.size_lots

lots_shown(order) == IF order = NoOrder THEN 0 ELSE remaining_size_lots(order)

\* A sum of u64, which wraps around in a release build.
total_qty(book, side, p) ==
  LET held == held_at(book, side, p)
  IN Total([i \in DOMAIN held |-> lots_shown(held[i])]) % WORD

PriceLevel(book, side, p) ==
  [ price |-> p, total_qty |-> total_qty(book, side, p),
    order_count |-> Len(book.queues[side][p]) ]

first(seq, n) == SubSeq(seq, 1, Min({n, Len(seq)}))

\* The prices of a side from the best on.
best_first(book, side) ==
  LET levels == DOMAIN book.queues[side]
      ascending == InOrder(levels, [p \in levels |-> p])
  IN IF side = "buy" THEN Reverse(ascending) ELSE ascending

\* l2_bids and l2_asks: the best `depth` levels of a side.
l2(book, side, depth) ==
  LET served == first(best_first(book, side), depth)
  IN [k \in DOMAIN served |-> PriceLevel(book, side, served[k])]

get_book(market_id, depth) ==
  IF market_id \notin DOMAIN books THEN [code |-> "MARKET_NOT_FOUND"]
  ELSE LET served == Min({depth, MaxDepth}) IN
       [ code |-> "OK", bids |-> l2(books[market_id], "buy", served),
         asks |-> l2(books[market_id], "sell", served) ]

-----------------------------------------------------------------------------
(* Trades *)

\* Faulty: from_seq is compared with the id the client sees.
served_from_fill(se, from_seq) == se.event.fill.sequence_id >= from_seq

\* from_seq is compared with the id of the Fill event; the client sees the
\* fill's own sequence_id, the id of the taker's acceptance.
served_from(se, from_seq) == se.seq_id >= from_seq

get_fills(market_id, from_seq, limit) ==
  LET asked(se) == /\ se.event.type = "fill" /\ se.event.fill.market_id = market_id
                   /\ from_seq = 0 \/ served_from(se, from_seq)
      served == FlattenSeq([ i \in DOMAIN log |->
                               IF asked(log[i]) THEN << log[i] >> ELSE << >> ])
  IN IF limit = 0 THEN served ELSE first(served, limit)

get_trades(market_id, from_seq, limit) ==
  IF market_id \notin DOMAIN books THEN [code |-> "MARKET_NOT_FOUND"]
  ELSE [code |-> "OK", trades |-> get_fills(market_id, from_seq, Min({limit, MaxTrades}))]

-----------------------------------------------------------------------------
(* Submissions *)

\* The checks before the idempotency table, in the order they are made.
Checks(signed, now_ms) ==
  LET known == signed.market_id \in DOMAIN markets IN
  << <<signed.schema_version = CURRENT_SCHEMA_VERSION, "UNSUPPORTED_SCHEMA_VERSION">>,
     <<"" \notin {signed.market_id, signed.trader_id, signed.client_order_id}, "EMPTY_FIELD">>,
     <<signed.price_ticks # 0, "ZERO_PRICE">>,
     <<signed.size_lots # 0, "ZERO_SIZE">>,
     <<signed.expiry_ts_ms = 0 \/ signed.expiry_ts_ms > now_ms, "ORDER_EXPIRED">>,
     <<verify_signature(signed), "INVALID_SIGNATURE">>,
     <<signed.trader_id = hex_encode(signed.trader_pubkey), "TRADER_ID_MISMATCH">>,
     <<known, "MARKET_NOT_FOUND">>,
     <<known => is_active(markets[signed.market_id]), "MARKET_HALTED">>,
     <<known => validate_price(signed.market_id, signed.price_ticks), "INVALID_TICK_SIZE">>,
     <<known => validate_size(signed.market_id, signed.size_lots), "INVALID_LOT_SIZE">> >>

Failed(signed, now_ms) ==
  {k \in DOMAIN Checks(signed, now_ms) : ~Checks(signed, now_ms)[k][1]}

nonce_stale(signed) == signed.nonce <= nonces[signed.trader_id]

Duplicate(signed) ==
  LET record == idempotency[<<signed.trader_id, signed.client_order_id>>] IN
  [ code |-> "OK", order_id |-> record.order_id, order_hash |-> record.order_hash,
    seq_id |-> record.original_seq_id, status |-> duplicate_status(signed) ]

\* The risk checker comes first, under a mutex of its own, on every submission and
\* every retry of one.  Module Risk says when it refuses; here it may at any time.
RiskRefusals == {"RATE_LIMIT_EXCEEDED", "ORDER_TOO_LARGE", "PRICE_OUTSIDE_BAND"}

\* Faulty: the nonce is checked before the idempotency table.
post_order_nonce_first(signed, now_ms, verdict) ==
  LET failed == Failed(signed, now_ms) IN
  IF verdict \in RiskRefusals THEN [code |-> verdict]
  ELSE IF failed # {} THEN [code |-> Checks(signed, now_ms)[Min(failed)][2]]
  ELSE IF nonce_stale(signed) THEN [code |-> "NONCE_INVALID"]
  ELSE IF IsDuplicate(signed) THEN Duplicate(signed)
  ELSE [code |-> "CREATED"]

\* The answer to a submission with this verdict of the risk checker; one that
\* passed gets the engine's mutex now.
post_order(signed, now_ms, verdict) ==
  LET failed == Failed(signed, now_ms) IN
  IF verdict \in RiskRefusals THEN [code |-> verdict]
  ELSE IF failed # {} THEN [code |-> Checks(signed, now_ms)[Min(failed)][2]]
  ELSE IF IsDuplicate(signed) THEN Duplicate(signed)
  ELSE IF nonce_stale(signed) THEN [code |-> "NONCE_INVALID"]
  ELSE [code |-> "CREATED"]

-----------------------------------------------------------------------------
(* Cancellations *)

\* A market without a book makes process_cancel panic: no answer is sent.
delete_order(id, trader_id) ==
  LET order == find_order(id) IN
  IF id \notin DOMAIN order_market_index THEN [code |-> "ORDER_NOT_FOUND"]
  ELSE IF order_market_index[id] \notin DOMAIN books THEN [code |-> "no answer"]
  ELSE IF order = NoOrder THEN [code |-> "ORDER_NOT_FOUND"]
  ELSE IF order.signed.trader_id # trader_id THEN [code |-> "UNAUTHORIZED_CANCEL"]
  ELSE [code |-> "OK", was_already_closed |-> is_closed(order)]

cancel_by_client_id(trader_id, client_order_id) ==
  IF <<trader_id, client_order_id>> \notin DOMAIN idempotency
  THEN [code |-> "ORDER_NOT_FOUND"]
  ELSE delete_order(idempotency[<<trader_id, client_order_id>>].order_id, trader_id)

get_order(id) ==
  LET order == find_order(id) IN
  IF order = NoOrder THEN [code |-> "ORDER_NOT_FOUND"]
  ELSE [ code |-> "OK", order |-> order, remaining |-> remaining_size_lots(order) ]
=============================================================================
