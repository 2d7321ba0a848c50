----------------------------- MODULE MCSnapshot -----------------------------
(***************************************************************************)
(* A small instance of the engine with its database and its snapshots: one *)
(* market, a sell order and a buy order that takes it and rests the rest.  *)
(***************************************************************************)
EXTENDS SnapshotProperties

MCMarkets == {"BTC"}
MCTraders == {"aa", "bb"}
MCKeys == {"A", "B"}

MChex(key) == IF key = "A" THEN "aa" ELSE "bb"

MCTick == [m \in MCMarkets |-> 5]
MCLot == [m \in MCMarkets |-> 1]

Signed(key, client_order_id, side, size_lots) ==
  [ schema_version |-> 1, client_order_id |-> client_order_id, market_id |-> "BTC",
    trader_id |-> MChex(key), trader_pubkey |-> key, side |-> side,
    price_ticks |-> 10, size_lots |-> size_lots, nonce |-> 1,
    expiry_ts_ms |-> 0, signature |-> "valid" ]

MCSignedOrders == { Signed("A", "a1", "sell", 1), Signed("B", "b1", "buy", 2) }

MCTimes == {1}
=============================================================================
