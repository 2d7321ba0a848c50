----------------------------- MODULE MCRecovery -----------------------------
(***************************************************************************)
(* A small instance of the engine with its database: one market, one ask   *)
(* level that two orders share, and a buy order that fills the first and   *)
(* part of the second.                                                     *)
(***************************************************************************)
EXTENDS RecoveryProperties

MCMarkets == {"BTC"}
MCTraders == {"aa", "bb"}
MCKeys == {"A", "B"}

MChex(key) == IF key = "A" THEN "aa" ELSE "bb"

MCTick == [m \in MCMarkets |-> 5]
MCLot == [m \in MCMarkets |-> 1]

Signed(key, client_order_id, side, price_ticks, size_lots, nonce) ==
  [ schema_version |-> 1, client_order_id |-> client_order_id, market_id |-> "BTC",
    trader_id |-> MChex(key), trader_pubkey |-> key, side |-> side,
    price_ticks |-> price_ticks, size_lots |-> size_lots, nonce |-> nonce,
    expiry_ts_ms |-> 0, signature |-> "valid" ]

MCSignedOrders ==
  { Signed("A", "a1", "sell", 10, 1, 1),
    Signed("A", "a2", "sell", 10, 2, 2),
    Signed("B", "b1", "buy", 10, 2, 1) }

MCTimes == {1}
=============================================================================
