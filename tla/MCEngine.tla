------------------------------ MODULE MCEngine ------------------------------
(***************************************************************************)
(* A small instance of the engine: two traders, one market with two price  *)
(* levels on the ask side, and signed orders chosen so that fills sweep    *)
(* two levels, stop inside a queue, meet the taker's own order, and come   *)
(* back under a used nonce or a used client order id.                      *)
(***************************************************************************)
EXTENDS EngineRefinement, RestProperties

MCMarkets == {"BTC"}
MCTraders == {"aa", "bb"}
MCKeys == {"A", "B"}

MChex(key) == IF key = "A" THEN "aa" ELSE "bb"

MCTick == [m \in MCMarkets |-> 5]
MCLot == [m \in MCMarkets |-> 1]

Signed(key, client_order_id, side, price_ticks, size_lots, nonce) ==
  [ schema_version |-> 1, client_order_id |-> client_order_id, market_id |-> "BTC",
    trader_id |-> MChex(key), trader_pubkey |-> key, side |-> side,
    price_ticks |-> price_ticks, size_lots |-> size_lots, nonce |-> nonce,
    expiry_ts_ms |-> 0, signature |-> "valid" ]

MCSignedOrders ==
  { Signed("A", "a1", "sell", 10, 1, 1),
    [Signed("A", "a2", "sell", 10, 2, 2) EXCEPT !.expiry_ts_ms = 2],
    Signed("B", "b1", "sell", 15, 2, 1),
    Signed("B", "b2", "buy", 15, 4, 2),
    Signed("A", "a3", "buy", 15, 1, 3),
    Signed("A", "a1", "sell", 15, 1, 3),
    [Signed("B", "b3", "buy", 10, 1, 4) EXCEPT !.trader_id = "aa"],
    [Signed("B", "b4", "buy", 12, 1, 5) EXCEPT !.signature = "forged"] }

MCTimes == {1, 2}
=============================================================================
