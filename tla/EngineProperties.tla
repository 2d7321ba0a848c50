-------------------------- MODULE EngineProperties --------------------------
(***************************************************************************)
(* What the engine of module Engine must satisfy.                          *)
(***************************************************************************)
EXTENDS Engine

EngineTypes ==
  /\ markets \in [Markets -> MarketStatuses]
  /\ books = [m \in DOMAIN books |-> books[m]]
  /\ DOMAIN books \subseteq Markets
  /\ \A m \in DOMAIN books : IsBook(books[m])
  /\ IsMap(order_market_index, OrderIds, Markets)

SequencerTypes ==
  /\ next_seq_id \in Nat
  /\ log \in Seq(SequencedEvents)
  /\ IsMap(idempotency, TraderIds \X STRING, IdempotencyRecords)

StoreTypes ==
  /\ filled_amounts \in [Hashes -> Nat]
  /\ cancelled \subseteq Hashes
  /\ nonces \in [TraderIds -> Nat]

CallTypes ==
  /\ uuids \in Nat
  /\ stage \in {"idle", "matching", "recording", "cancelling"}
  /\ taker \in Orders \cup {NoOrder}
  /\ prices \subseteq Nat /\ price \in Nat
  /\ maker_ids \in Seq(OrderIds)
  /\ fills \in Seq(Fills)
  /\ to_cancel \subseteq DOMAIN log

(* The type of every variable.                                             *)
TypeOK == EngineTypes /\ SequencerTypes /\ StoreTypes /\ CallTypes

-----------------------------------------------------------------------------
(* Reading the log *)

Accepted == {i \in DOMAIN log : log[i].event.type = "order_accepted"}

FillPositions == {i \in DOMAIN log : log[i].event.type = "fill"}

CancelPositions == {i \in DOMAIN log : log[i].event.type = "order_cancelled"}

OrderAt(i) == log[i].event.order

FillOf(fill, id) == fill.taker_order_id = id \/ fill.maker_order_id = id

\* The lots a fill moves for an order, as its taker or as its maker.
Moved(fill, id) == IF FillOf(fill, id) THEN fill.size_lots ELSE 0

LogFilled(id) ==
  Total([i \in DOMAIN log |->
           IF log[i].event.type = "fill" THEN Moved(log[i].event.fill, id) ELSE 0])

PendingFilled(id) == Total([i \in DOMAIN fills |-> Moved(fills[i], id)])

-----------------------------------------------------------------------------
(* Sequencer *)

(* Sequence ids are 1, 2, 3, ... without a gap, and the counter is one     *)
(* ahead: what replay's gap check and every seq_before cursor rely on.     *)
LogGapless ==
  /\ next_seq_id = Len(log) + 1
  /\ \A i \in DOMAIN log : log[i].seq_id = i

(* The idempotency table is the log's acceptances under their key: a       *)
(* duplicate is always answered with the order that its key was first      *)
(* accepted as, and no key is accepted twice.                              *)
IdempotencyMatchesLog ==
  /\ \A key \in DOMAIN idempotency : \E i \in Accepted :
       /\ key = <<OrderAt(i).signed.trader_id, OrderAt(i).signed.client_order_id>>
       /\ idempotency[key] = [ original_seq_id |-> log[i].seq_id,
                               order_id |-> OrderAt(i).order_id,
                               order_hash |-> OrderAt(i).order_hash ]
  /\ Cardinality(DOMAIN idempotency) = Cardinality(Accepted)

(* Each trader's accepted nonces rise along the log, so no signed order is *)
(* ever accepted a second time, whatever client_order_id it comes under.   *)
NoncesRise ==
  /\ \A i, j \in Accepted :
       i < j /\ OrderAt(i).signed.trader_id = OrderAt(j).signed.trader_id
         => OrderAt(i).signed.nonce < OrderAt(j).signed.nonce
  /\ \A i \in Accepted : OrderAt(i).signed.nonce <= nonces[OrderAt(i).signed.trader_id]

(* An event about an order comes after its acceptance, a taker's fills     *)
(* follow its acceptance with nothing in between, and every maker was      *)
(* accepted before its taker: replay never meets an unknown order.         *)
EventsFollowAcceptance ==
  /\ \A i \in FillPositions :
       LET fill == log[i].event.fill
           at == fill.sequence_id
       IN /\ at \in Accepted /\ at < i
          /\ OrderAt(at).order_id = fill.taker_order_id
          /\ OrderAt(at).order_hash = fill.taker_order_hash
          /\ \A k \in at + 1 .. i :
               k \in FillPositions /\ log[k].event.fill.taker_order_id = fill.taker_order_id
          /\ \E j \in Accepted : /\ j < at
                                 /\ OrderAt(j).order_id = fill.maker_order_id
                                 /\ OrderAt(j).order_hash = fill.maker_order_hash
  /\ \A i \in CancelPositions : \E j \in Accepted :
       /\ j < i
       /\ OrderAt(j).order_id = log[i].event.order_id
       /\ OrderAt(j).order_hash = log[i].event.order_hash

-----------------------------------------------------------------------------
(* Books *)

(* The queues hold exactly the open orders, each once, under its own side  *)
(* and price, and no price level is left empty: best_bid, best_ask and the *)
(* depth snapshots read the levels without looking at the orders.          *)
QueuesHoldOpenOrders ==
  \A m \in DOMAIN books : \A side \in Sides :
    LET book == books[m]
        levels == book.queues[side]
    IN /\ \A p \in DOMAIN levels :
            /\ levels[p] # << >>
            /\ \A i \in DOMAIN levels[p] :
                 /\ levels[p][i] \in DOMAIN book.orders
                 /\ LET order == book.orders[levels[p][i]] IN
                    /\ ~is_closed(order) /\ remaining_size_lots(order) > 0
                    /\ order.signed.side = side /\ order.signed.price_ticks = p
                 /\ \A j \in DOMAIN levels[p] : levels[p][i] = levels[p][j] => i = j
       /\ \A id \in DOMAIN book.orders :
            LET order == book.orders[id] IN
            ~is_closed(order) /\ order.signed.side = side
              => /\ order.signed.price_ticks \in DOMAIN levels
                 /\ \E i \in DOMAIN levels[order.signed.price_ticks] :
                      levels[order.signed.price_ticks][i] = id

(* Between calls no bid reaches an ask: whatever could trade has traded.   *)
BookNotCrossed ==
  stage = "idle" =>
    \A m \in DOMAIN books :
      \A b \in DOMAIN books[m].queues["buy"], a \in DOMAIN books[m].queues["sell"] : b < a

(* Two snapshots taken before the loop stay true while it changes the      *)
(* book: no maker in them is gone or closed when its turn comes            *)
(* (matching.rs:149, "shouldn't happen in V1").                            *)
SnapshotsStayFresh ==
  stage = "matching" =>
    LET book == books[taker.signed.market_id] IN
    /\ \A i \in DOMAIN maker_ids : ~stale(book, maker_ids[i])
    /\ prices \subseteq DOMAIN book.queues[Opposite(taker.signed.side)]

-----------------------------------------------------------------------------
(* Matching *)

OutRanks(maker, other) ==
  LET p == maker.signed.price_ticks
      q == other.signed.price_ticks
  IN IF p = q THEN maker.created_sequence < other.created_sequence
     ELSE IF maker.signed.side = "sell" THEN p < q ELSE p > q

(* The open orders the taker could trade with, read off the orders map.    *)
Tradable ==
  LET orders == books[taker.signed.market_id].orders IN
  {id \in DOMAIN orders :
     /\ ~is_closed(orders[id])
     /\ orders[id].signed.side = Opposite(taker.signed.side)
     /\ crosses(taker.signed.side, orders[id].signed.price_ticks, taker.signed.price_ticks)}

FirstInLine(id) ==
  LET orders == books[taker.signed.market_id].orders IN
  id \in Tradable /\ \A other \in Tradable \ {id} : OutRanks(orders[id], orders[other])

(* Price-time priority: a step of the loop trades with the first order in  *)
(* line, of another trader, at that order's price, for as much as both     *)
(* have; or cancels the taker because the first in line is its own         *)
(* trader's, and then no resting order changes.                            *)
PriceTimePriority ==
  [][ stage = "matching" /\ taker' # taker =>
        \/ /\ taker'.status = "cancelled_stp"
           /\ books' = books /\ fills' = fills
           /\ \E id \in Tradable :
                /\ FirstInLine(id)
                /\ find_order(id).signed.trader_id = taker.signed.trader_id
        \/ LET fill == fills'[Len(fills')]
               maker == find_order(fill.maker_order_id)
           IN /\ Len(fills') = Len(fills) + 1
              /\ FirstInLine(maker.order_id)
              /\ maker.signed.trader_id # taker.signed.trader_id
              /\ fill.price_ticks = maker.signed.price_ticks
              /\ fill.size_lots > 0
              /\ \/ fill.size_lots = remaining_size_lots(maker)
                 \/ remaining_size_lots(taker') = 0
    ]_vars

-----------------------------------------------------------------------------
(* Fills and cancels across the book, the log and the state store *)

(* No order, resting or incoming, is filled beyond its size.               *)
NoOverfill ==
  /\ \A m \in DOMAIN books : \A id \in DOMAIN books[m].orders :
       books[m].orders[id].filled_size_lots <= books[m].orders[id].signed.size_lots
  /\ taker # NoOrder => taker.filled_size_lots <= taker.signed.size_lots

(* The three records of what an order has traded agree: the state store's  *)
(* amount is the sum of the order's Fill events, both sides counted, and   *)
(* the order's own count is ahead of it by the fills not yet sequenced.    *)
FillAccounting ==
  \A i \in Accepted :
    LET order == OrderAt(i)
        live == IF taker # NoOrder /\ taker.order_id = order.order_id
                THEN taker ELSE find_order(order.order_id)
    IN /\ filled_amounts[order.order_hash] = LogFilled(order.order_id)
       /\ filled_amounts[order.order_hash] <= order.signed.size_lots
       /\ live # NoOrder =>
            live.filled_size_lots = LogFilled(order.order_id) + PendingFilled(order.order_id)

CancelledFor(id, reasons) ==
  \E i \in CancelPositions : log[i].event.order_id = id /\ log[i].event.reason \in reasons

(* Between calls every accepted order is in exactly one place: resting in  *)
(* its book, filled, or cancelled by its trader or by self-trade           *)
(* prevention.                                                             *)
NoOrderLost ==
  stage = "idle" =>
    \A i \in Accepted :
      LET id == OrderAt(i).order_id
          live == find_order(id)
          resting == live # NoOrder /\ ~is_closed(live)
          filled == LogFilled(id) = OrderAt(i).signed.size_lots
          ended == CancelledFor(id, {"trader_request", "self_trade_prevention"})
      IN Cardinality({c \in {"resting", "filled", "ended"} :
                        \/ c = "resting" /\ resting
                        \/ c = "filled" /\ filled
                        \/ c = "ended" /\ ended}) = 1

(* A call that has begun comes to its end.                                 *)
CallsComplete == stage # "idle" ~> stage = "idle"

-----------------------------------------------------------------------------
(* What the comments of the code say, and the code does not do *)

(* db/mod.rs:32: once cancelled is set, "this is permanent - cancelled     *)
(* orders cannot be revived".                                              *)
CancelledNeverRevived ==
  [][ \A hash \in cancelled : filled_amounts'[hash] = filled_amounts[hash] ]_vars

(* sequencer/mod.rs:15: a duplicate submission returns the original        *)
(* result, so it says "filled" only of an order that was filled.           *)
DuplicateAnsweredTruly ==
  stage = "idle" =>
    \A signed \in SignedOrders :
      IsDuplicate(signed) /\ duplicate_status(signed) = "filled" =>
        LET record == idempotency[<<signed.trader_id, signed.client_order_id>>]
        IN filled_amounts[record.order_hash] = record.order_hash.size_lots
=============================================================================
