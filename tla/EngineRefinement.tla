-------------------------- MODULE EngineRefinement --------------------------
(***************************************************************************)
(* The engine implements Exchange.  A submission takes the engine many     *)
(* steps and Exchange one: until the call ends, Exchange has not seen it.  *)
(* The mapping therefore shows the market as it was before the call in     *)
(* progress, the taker hidden and its fills undone, and the call's last    *)
(* step, FinishOrder, as Submit.  Orders are read off the books and trades *)
(* off the log, so the two must also agree with each other.                *)
(***************************************************************************)
EXTENDS EngineProperties

\* The log as it was before the call in progress.
SettledLog == IF taker = NoOrder THEN log ELSE SubSeq(log, 1, taker.created_sequence - 1)

\* The fills of the call in progress: those in the log, then those pending.
LoggedFills ==
  [ k \in 1 .. Len(log) - taker.created_sequence |->
      log[taker.created_sequence + k].event.fill ]

CallFills == IF taker = NoOrder THEN << >> ELSE LoggedFills \o fills

SeenTrade(fill) ==
  [ taker |-> fill.taker_order_id, maker |-> fill.maker_order_id,
    price |-> fill.price_ticks, lots |-> fill.size_lots ]

TradesOf(events) ==
  FlattenSeq([ i \in DOMAIN events |->
                 IF events[i].event.type = "fill" THEN << SeenTrade(events[i].event.fill) >>
                 ELSE << >> ])

\* What the call in progress has taken from order id so far.
TakenFrom(id) ==
  Total([ k \in DOMAIN CallFills |->
            IF CallFills[k].maker_order_id = id THEN CallFills[k].size_lots ELSE 0 ])

SignedAs(id) == (CHOOSE order \in {OrderAt(i) : i \in Accepted} : order.order_id = id).signed

\* An order that no book holds was closed by its own matching.
SeenOrder(id) ==
  LET order == find_order(id)
      taken == TakenFrom(id)
  IN IF order = NoOrder
     THEN [ signed |-> SignedAs(id), left |-> SignedAs(id).size_lots - LogFilled(id),
            status |-> IF CancelledFor(id, {"self_trade_prevention"})
                       THEN "stopped" ELSE "filled" ]
     ELSE [ signed |-> order.signed, left |-> remaining_size_lots(order) + taken,
            status |-> IF taken > 0 \/ ~is_closed(order) THEN "resting" ELSE order.status ]

\* Order ids are drawn in the order of acceptance, and the taker's was the last.
SeenOrders ==
  [id \in 1 .. (IF taker = NoOrder THEN uuids ELSE uuids - 1) |-> SeenOrder(id)]

Promise == INSTANCE Exchange WITH
  halted <- {m \in Markets : ~is_active(markets[m])},
  orders <- SeenOrders,
  trades <- TradesOf(SettledLog)

(* Every behaviour of the engine is one of Exchange: whatever the copies,  *)
(* queues and stages of the matching loop do, a submission trades with     *)
(* exactly the resting orders ahead of it in price and time, up to its     *)
(* size and its trader's own first order, and nothing else ever changes an *)
(* order.                                                                  *)
ImplementsExchange == Promise!Spec
=============================================================================
