------------------------------ MODULE Exchange ------------------------------
(***************************************************************************)
(* What the engine promises its clients: a list of orders in the order of  *)
(* acceptance and a list of trades.  A submission is matched in one step,  *)
(* said as arithmetic over the line of resting orders: there are no books, *)
(* queues, loops, copies, sequence ids or events here.  EngineRefinement   *)
(* states that the engine implements it.                                   *)
(***************************************************************************)
EXTENDS Domain, FiniteSets, SequencesExt

CONSTANT Times   \* the values the clock may show

VARIABLES
  halted,   \* the markets that accept no orders
  orders,   \* the orders accepted so far, each [signed, left, status]
  trades    \* the trades so far, each [taker, maker, price, lots]

exchange_vars == <<halted, orders, trades>>

Acceptable(signed, now_ms) ==
  /\ validate_fields(signed, now_ms)
  /\ verify_signature(signed)
  /\ signed.trader_id = hex_encode(signed.trader_pubkey)
  /\ signed.market_id \in Markets \ halted
  /\ validate_price(signed.market_id, signed.price_ticks)
  /\ validate_size(signed.market_id, signed.size_lots)
  /\ signed.nonce > 0
  /\ \A i \in DOMAIN orders :
       orders[i].signed.trader_id = signed.trader_id =>
         /\ orders[i].signed.client_order_id # signed.client_order_id
         /\ orders[i].signed.nonce < signed.nonce

-----------------------------------------------------------------------------
(* Matching a submission against the orders that rest *)

Meets(signed, other) ==
  /\ other.market_id = signed.market_id
  /\ other.side # signed.side
  /\ IF signed.side = "buy" THEN other.price_ticks <= signed.price_ticks
                            ELSE other.price_ticks >= signed.price_ticks

Line(signed) ==
  {i \in DOMAIN orders : orders[i].status = "resting" /\ Meets(signed, orders[i].signed)}

\* Better price first, and at one price the order accepted first.
Before(i, j) ==
  LET p == orders[i].signed.price_ticks
      q == orders[j].signed.price_ticks
  IN IF p = q THEN i < j ELSE IF orders[i].signed.side = "sell" THEN p < q ELSE p > q

\* The submitter's own orders; it never trades with them or past them.
Own(signed) == {i \in Line(signed) : orders[i].signed.trader_id = signed.trader_id}

Reachable(signed) ==
  {i \in Line(signed) \ Own(signed) : \A own \in Own(signed) : Before(i, own)}

Sum(amounts) == FoldLeft(+, 0, amounts)

Offered(S) == Sum([i \in DOMAIN orders |-> IF i \in S THEN orders[i].left ELSE 0])

\* Those of S in line: each has as many before it as were placed already.
InLine(S) ==
  [ k \in 1..Cardinality(S) |->
      CHOOSE i \in S : Cardinality({j \in S : Before(j, i)}) = k - 1 ]

\* What each reachable order gives: what is left for it by those before it.
Given(signed) ==
  LET reachable == Reachable(signed)
      wanted(i) == signed.size_lots - Min({signed.size_lots,
                     Offered({j \in reachable : Before(j, i)})})
  IN [i \in reachable |-> Min({orders[i].left, wanted(i)})]

Submit(signed, now_ms) ==
  /\ Acceptable(signed, now_ms)
  /\ LET given == Given(signed)
         makers == {i \in DOMAIN given : given[i] > 0}
         left == signed.size_lots
                   - Sum([i \in DOMAIN orders |-> IF i \in makers THEN given[i] ELSE 0])
         new == [ signed |-> signed, left |-> left,
                  status |-> IF left = 0 THEN "filled"
                             ELSE IF Own(signed) # {} THEN "stopped" ELSE "resting" ]
         after(i) == IF i \notin makers THEN orders[i]
                     ELSE [orders[i] EXCEPT !.left = @ - given[i],
                                            !.status = IF given[i] = orders[i].left
                                                       THEN "filled" ELSE @]
         trade(i) == [ taker |-> Len(orders) + 1, maker |-> i,
                       price |-> orders[i].signed.price_ticks, lots |-> given[i] ]
         in_line == InLine(makers)
     IN /\ orders' = Append([i \in DOMAIN orders |-> after(i)], new)
        /\ trades' = trades \o [k \in DOMAIN in_line |-> trade(in_line[k])]
  /\ UNCHANGED halted

-----------------------------------------------------------------------------
(* The other operations.  The administrator's cancel-all is not among      *)
(* them: no order leaves the market for it.                                *)

Cancel(i) ==
  /\ orders[i].status = "resting"
  /\ orders' = [orders EXCEPT ![i].status = "cancelled"]
  /\ UNCHANGED <<halted, trades>>

Halt(market_id) ==
  /\ market_id \notin halted
  /\ halted' = halted \cup {market_id}
  /\ UNCHANGED <<orders, trades>>

Reopen(market_id) ==
  /\ market_id \in halted
  /\ halted' = halted \ {market_id}
  /\ UNCHANGED <<orders, trades>>

Init == halted = {} /\ orders = << >> /\ trades = << >>

Next ==
  \/ \E signed \in SignedOrders, now_ms \in Times : Submit(signed, now_ms)
  \/ \E i \in DOMAIN orders : Cancel(i)
  \/ \E market_id \in Markets : Halt(market_id) \/ Reopen(market_id)

Spec == Init /\ [][Next]_exchange_vars
=============================================================================
