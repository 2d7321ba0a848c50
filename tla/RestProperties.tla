--------------------------- MODULE RestProperties ---------------------------
(***************************************************************************)
(* What a client may conclude from the answers of module Rest.  They are   *)
(* given while no call is in progress: every handler takes the mutex.      *)
(***************************************************************************)
EXTENDS EngineProperties, Rest

-----------------------------------------------------------------------------
(* The log's view of an order *)

LogRemaining(i) == OrderAt(i).signed.size_lots - LogFilled(OrderAt(i).order_id)

ByTraderOrStp == {"trader_request", "self_trade_prevention"}

\* The accepted orders of a market, side and price that the log leaves open.
OpenInLog(market_id, side, p) ==
  {i \in Accepted :
     /\ OrderAt(i).signed.market_id = market_id
     /\ OrderAt(i).signed.side = side /\ OrderAt(i).signed.price_ticks = p
     /\ LogRemaining(i) > 0
     /\ ~CancelledFor(OrderAt(i).order_id, ByTraderOrStp)}

PricesInLog(market_id, side) ==
  {p \in {OrderAt(i).signed.price_ticks : i \in Accepted} : OpenInLog(market_id, side, p) # {}}

\* The lots an order has taken, by the log: the fills of its own submission.
Taken(fill, id) == IF fill.taker_order_id = id THEN fill.size_lots ELSE 0

LogTaken(id) ==
  Total([i \in DOMAIN log |->
           IF log[i].event.type = "fill" THEN Taken(log[i].event.fill, id) ELSE 0])

\* Whether the order was closed by the matching of its own submission: by its
\* own fills, or by self-trade prevention.
ClosedOnEntry(i) ==
  LET id == OrderAt(i).order_id IN
  \/ CancelledFor(id, {"self_trade_prevention"})
  \/ LogTaken(id) = OrderAt(i).signed.size_lots

-----------------------------------------------------------------------------

(* The depth a client sees is what the log leaves of the accepted orders:  *)
(* the best levels of each side, each with the number of its open orders   *)
(* and the sum of what they have left, as long as the sum fits a u64.  The *)
(* cancellations of a cancel-all do not count here: admin.rs:169 logs them *)
(* without taking the orders out of the book, so after one the depth still *)
(* has orders that the event stream has cancelled, contrary to admin.rs:11 *)
(* (CancelledNeverRevived is violated for the same reason).                *)
DepthMatchesLog ==
  stage = "idle" =>
    \A m \in DOMAIN books, side \in Sides, depth \in 0 .. MaxDepth + 1 :
      LET book == get_book(m, depth)
          levels == IF side = "buy" THEN book.bids ELSE book.asks
          inlog == PricesInLog(m, side)
      IN /\ Len(levels) = Min({depth, MaxDepth, Cardinality(inlog)})
         /\ \A k \in DOMAIN levels :
              LET p == levels[k].price
                  open == OpenInLog(m, side, p)
                  left == Total([i \in DOMAIN log |-> IF i \in open THEN LogRemaining(i) ELSE 0])
              IN /\ p \in inlog
                 /\ Cardinality({q \in inlog : q # p /\ best_of(side, {p, q}) = q}) = k - 1
                 /\ levels[k].order_count = Cardinality(open)
                 /\ left < WORD => levels[k].total_qty = left

(* A client that pages through the trades and goes on after the last       *)
(* sequence_id it was shown misses no trade: the fills of one taker share  *)
(* a sequence_id, and those beyond the page come again.  It comes further  *)
(* with each page, unless one taker's fills alone fill it.                 *)
PagesMissNothing ==
  stage = "idle" =>
    \A m \in DOMAIN books, limit \in 0 .. MaxTrades + 1 :
      \A from_seq \in {0} \cup {log[i].event.fill.sequence_id + 1 : i \in FillPositions} :
        LET page == get_trades(m, from_seq, limit).trades
            next == page[Len(page)].event.fill.sequence_id + 1
            rest == get_trades(m, next, 0).trades
        IN page # << >> =>
             /\ \A i \in FillPositions :
                  i >= from_seq /\ log[i].event.fill.market_id = m
                    => \/ \E k \in DOMAIN page : page[k] = log[i]
                       \/ \E k \in DOMAIN rest : rest[k] = log[i]
             /\ \/ next > from_seq
                \/ \A k \in DOMAIN page : page[k].event.fill.sequence_id = from_seq - 1

(* A client that resubmits an order to its market, changed or not, under a *)
(* client order id that was accepted is told which order was accepted      *)
(* then, whatever nonces its trader has used since.  It is not told so if  *)
(* the risk checker refuses the retry, if the order has expired or its     *)
(* market is paused, or if a change is invalid by itself.  The status it   *)
(* is told may be wrong: see DuplicateAnsweredTruly.                       *)
RetryAnswered ==
  stage = "idle" =>
    \A i \in Accepted, signed \in SignedOrders, now_ms \in Times,
       verdict \in RiskRefusals \cup {"passed"} :
      LET original == OrderAt(i)
          answer == post_order(signed, now_ms, verdict)
      IN /\ signed.trader_id = original.signed.trader_id
         /\ signed.client_order_id = original.signed.client_order_id
         /\ signed.market_id = original.signed.market_id
         => \/ verdict # "passed" /\ answer.code = verdict
            \/ /\ Failed(signed, now_ms) # {}
               /\ signed = original.signed => answer.code \in {"ORDER_EXPIRED", "MARKET_HALTED"}
            \/ /\ answer.code = "OK"
               /\ answer.order_id = original.order_id
               /\ answer.order_hash = original.order_hash
               /\ answer.seq_id = log[i].seq_id

(* What the owner of an order is told when it cancels or reads it follows  *)
(* from the log: an order that is open is cancelled, and one that rested   *)
(* in a book and is closed is reported closed and never lost, by either of *)
(* its ids.  Nothing is said of an order that its own submission closed:   *)
(* see ClosedOrderReported.  An order that only a cancel-all has cancelled *)
(* counts as open, because it is still in its book.                        *)
CancelAnswered ==
  stage = "idle" =>
    \A i \in Accepted :
      LET order == OrderAt(i)
          signed == order.signed
          answer == delete_order(order.order_id, signed.trader_id)
          open == i \in OpenInLog(signed.market_id, signed.side, signed.price_ticks)
          read == get_order(order.order_id)
      IN /\ answer = cancel_by_client_id(signed.trader_id, signed.client_order_id)
         /\ ~ClosedOnEntry(i) => answer = [code |-> "OK", was_already_closed |-> ~open]
         /\ read.code = answer.code
         /\ read.code = "OK" => read.remaining = LogRemaining(i)
-----------------------------------------------------------------------------
(* What a comment of the code says, and the code does not do *)

(* engine/mod.rs:324, process_cancel: "cancelling an already-closed order  *)
(* returns Ok with was_already_closed = true", also for an order that its  *)
(* own submission closed.                                                  *)
ClosedOrderReported ==
  stage = "idle" =>
    \A i \in Accepted :
      LET signed == OrderAt(i).signed IN
      i \notin OpenInLog(signed.market_id, signed.side, signed.price_ticks)
        => delete_order(OrderAt(i).order_id, signed.trader_id)
             = [code |-> "OK", was_already_closed |-> TRUE]
=============================================================================
