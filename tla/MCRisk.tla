------------------------------- MODULE MCRisk -------------------------------
(***************************************************************************)
(* A small instance of the risk checker: a market with a size limit and a  *)
(* band of half the reference price, and one without a configuration.  MAX *)
(* is small enough for the band of the highest price to saturate.          *)
(***************************************************************************)
EXTENDS RiskProperties

MCTraders == {"aa", "bb"}
MCMarkets == {"BTC", "ETH"}
MCConfig == [m \in {"BTC"} |-> [max_order_size_lots |-> 2, price_band_bps |-> 5]]

Order(trader_id, market_id, price_ticks, size_lots) ==
  [ trader_id |-> trader_id, market_id |-> market_id,
    price_ticks |-> price_ticks, size_lots |-> size_lots ]

\* The fourth is too large for its market.
MCOrders ==
  { Order("aa", "BTC", 4, 1), Order("bb", "BTC", 7, 2), Order("aa", "ETH", 4, 9),
    Order("bb", "BTC", 4, 9) }

MCTimes == 0..2
=============================================================================
