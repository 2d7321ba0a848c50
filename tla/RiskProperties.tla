--------------------------- MODULE RiskProperties ---------------------------
(***************************************************************************)
(* What the risk checker must enforce, and what its comments say of the    *)
(* reference price that does not hold.                                     *)
(***************************************************************************)
EXTENDS Risk

(* The types of the variables of module Risk.                              *)
RiskTypeOK ==
  /\ windows \in [TraderIds -> Seq(Nat)]
  /\ DOMAIN reference_prices \subseteq Markets
  /\ \A m \in DOMAIN reference_prices : reference_prices[m] \in 0..MAX
  /\ now \in Times
  /\ pc \in [Handlers -> {"idle", "checked", "traded"}]
  /\ order \in [Handlers -> Orders \cup {NoOrder}]
  /\ fills \in [Handlers -> Seq(0..MAX)]
  /\ passed \in [TraderIds -> Seq(Times)]
  /\ DOMAIN last_trade \subseteq Markets
  /\ disturbed \subseteq Markets /\ set_back \in BOOLEAN

(* record_submission prunes "to keep memory bounded": a trader's window    *)
(* never holds more entries than the limit, wherever the clock goes.       *)
WindowsBounded ==
  \A t \in TraderIds : Len(windows[t]) <= max_orders_per_window

(* While the clock is not set back, no stretch of window_ms has more       *)
(* submissions of a trader pass than the limit, its first and its last     *)
(* millisecond included, although the checker keeps only the entries that  *)
(* were young enough when the last one passed.                             *)
RateLimited ==
  ~set_back =>
    \A t \in TraderIds, start \in Times :
      Cardinality({i \in DOMAIN passed[t] : passed[t][i] \in start .. start + window_ms})
        <= max_orders_per_window

(* MarketRiskConfig: an order that passes is within the band around the    *)
(* reference price of that moment in exact arithmetic, with nothing gained *)
(* by rounding or saturation.                                              *)
BandRespected ==
  [][\A h \in Handlers :
       LET o == order'[h]
           reference == reference_prices[o.market_id]
           distance == IF o.price_ticks < reference THEN reference - o.price_ticks
                       ELSE o.price_ticks - reference
       IN (/\ pc[h] = "idle" /\ pc'[h] = "checked"
           /\ o.market_id \in DOMAIN market_config \cap DOMAIN reference_prices
           /\ market_config[o.market_id].price_band_bps > 0)
          => distance * BPS <= reference * market_config[o.market_id].price_band_bps
     ]_risk_vars

(* A market's reference price is the price of its last fill as soon as no  *)
(* update for the market is outstanding, with two exceptions: the last     *)
(* fills came while another handler's update was (the two race, and either *)
(* may win), or their handler was dropped before its update.               *)
ReferenceCurrent ==
  \A m \in Markets \ disturbed :
    (\A h \in Handlers : pc[h] = "traded" => order[h].market_id # m)
      => /\ m \in DOMAIN reference_prices <=> m \in DOMAIN last_trade
         /\ m \in DOMAIN last_trade => reference_prices[m] = last_trade[m]
=============================================================================
