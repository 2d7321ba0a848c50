-------------------------------- MODULE Risk --------------------------------
(***************************************************************************)
(* The risk checker before the engine: risk/mod.rs and the way post_order  *)
(* uses it.  The checker and the engine have a mutex each, taken one after *)
(* the other: check, engine call, update of the reference prices.  Other   *)
(* handlers come in between.                                               *)
(*                                                                         *)
(* The engine is reduced to the prices of the fills it returns for a buy   *)
(* order.  The clock is the wall clock, which may be set back.             *)
(***************************************************************************)
EXTENDS Integers, Sequences, SequencesExt, FiniteSets

CONSTANTS
  Handlers,               \* the submissions that may be served at the same time
  TraderIds, Markets,
  Orders,                 \* what is submitted: trader_id, market_id, price_ticks, size_lots
  Times,                  \* the readings of the clock, epoch milliseconds
  max_orders_per_window, window_ms,
  market_config,          \* of some markets: max_order_size_lots and price_band_bps
  BPS,                    \* basis points in the whole, 10_000 in the code
  MAX,                    \* the greatest u64
  MaxSubmissions          \* bound: how many submissions of a trader pass

ASSUME RiskAssumption ==
  /\ Orders \subseteq [trader_id : TraderIds, market_id : Markets,
                       price_ticks : 0..MAX, size_lots : 0..MAX]
  /\ Times \subseteq Nat
  /\ max_orders_per_window \in Nat /\ window_ms \in Nat
  /\ DOMAIN market_config \subseteq Markets
  /\ \A m \in DOMAIN market_config :
       market_config[m] \in [max_order_size_lots : 0..MAX, price_band_bps : 0..MAX]
  /\ BPS \in Nat \ {0} /\ MAX \in Nat /\ MaxSubmissions \in Nat

VARIABLES
  windows,           \* the timestamps of each trader's recent submissions
  reference_prices,  \* a function of the markets that have one
  now,               \* what the clock shows
  pc,                \* each handler: "idle", "checked" or "traded"
  order,             \* the order it serves
  fills,             \* the prices of the fills that order got, oldest first
  passed,            \* ghost: when each trader's submissions passed, all of them
  last_trade,        \* ghost: the price of the last fill of each market that had one
  disturbed,         \* ghost: the markets where the update for the last fills was dropped,
                     \* or came amid the update for others
  set_back           \* ghost: whether the clock was ever set back

checker_vars == <<windows, reference_prices>>
call_vars == <<pc, order, fills>>
ghost_vars == <<passed, last_trade, disturbed, set_back>>
risk_vars == <<checker_vars, call_vars, now, ghost_vars>>

NoOrder == [trader_id |-> ""]

\* HashMap::insert
put(map, key, value) == [k \in DOMAIN map \cup {key} |-> IF k = key THEN value ELSE map[k]]

-----------------------------------------------------------------------------
(* u64 arithmetic *)

saturating_sub(a, b) == IF a < b THEN 0 ELSE a - b
saturating_add(a, b) == IF a + b > MAX THEN MAX ELSE a + b
saturating_mul(a, b) == IF a * b > MAX THEN MAX ELSE a * b

-----------------------------------------------------------------------------
(* The three checks *)

window_start == saturating_sub(now, window_ms)

\* Faulty: the beginning of the window is left out.
recent_after(timestamps) ==
  FlattenSeq([ i \in DOMAIN timestamps |->
                 IF timestamps[i] > window_start THEN << timestamps[i] >> ELSE << >> ])

\* The timestamps that are not too old, in their order.
recent(timestamps) ==
  FlattenSeq([ i \in DOMAIN timestamps |->
                 IF timestamps[i] >= window_start THEN << timestamps[i] >> ELSE << >> ])

check_rate_limit(trader_id) == Len(recent(windows[trader_id])) < max_orders_per_window

check_size(o) ==
  o.market_id \in DOMAIN market_config
    => o.size_lots <= market_config[o.market_id].max_order_size_lots

\* Faulty: rounds the band up instead of down.
band_up(reference, band_bps) == saturating_mul(reference, band_bps) \div BPS + 1

band(reference, band_bps) == saturating_mul(reference, band_bps) \div BPS

check_price_band(o) ==
  LET reference == reference_prices[o.market_id]
      width == band(reference, market_config[o.market_id].price_band_bps)
  IN (/\ o.market_id \in DOMAIN market_config
      /\ market_config[o.market_id].price_band_bps > 0
      /\ o.market_id \in DOMAIN reference_prices)
     => o.price_ticks \in saturating_sub(reference, width) .. saturating_add(reference, width)

\* Faulty: expired entries are kept.
record_submission_unpruned(timestamps) == Append(timestamps, now)

\* Faulty: stores when the window opened, without saturation.
record_submission_start(timestamps) == Append(recent(timestamps), now - window_ms)

record_submission(timestamps) == Append(recent(timestamps), now)

-----------------------------------------------------------------------------
(* post_order *)

\* One that fails a check is answered and changes nothing.
Check(h, o) ==
  /\ pc[h] = "idle"
  /\ Len(passed[o.trader_id]) < MaxSubmissions
  /\ check_rate_limit(o.trader_id) /\ check_size(o) /\ check_price_band(o)
  /\ windows' = [windows EXCEPT ![o.trader_id] = record_submission(@)]
  /\ passed' = [passed EXCEPT ![o.trader_id] = Append(@, now)]
  /\ pc' = [pc EXCEPT ![h] = "checked"]
  /\ order' = [order EXCEPT ![h] = o]
  /\ UNCHANGED <<reference_prices, fills, now, last_trade, disturbed, set_back>>

\* The handler has done with the order and its fills.
Forget(h) ==
  /\ pc' = [pc EXCEPT ![h] = "idle"]
  /\ order' = [order EXCEPT ![h] = NoOrder]
  /\ fills' = [fills EXCEPT ![h] = << >>]

\* The engine refuses the order, or it is a duplicate, or nothing crosses, or the
\* call panics, or the handler is dropped while it waits for the engine's mutex.
EngineNoFill(h) ==
  /\ pc[h] = "checked"
  /\ Forget(h)
  /\ UNCHANGED <<checker_vars, now, ghost_vars>>

\* Fills are at the makers' prices, the best first, none above the limit.
EngineFills(h) ==
  \E lowest, highest \in {o.price_ticks : o \in Orders} :
    /\ pc[h] = "checked"
    /\ lowest <= highest /\ highest <= order[h].price_ticks
    /\ fills' = [fills EXCEPT ![h] = <<lowest, highest>>]
    /\ last_trade' = put(last_trade, order[h].market_id, highest)
    /\ disturbed' =
         IF \E other \in Handlers :
              pc[other] = "traded" /\ order[other].market_id = order[h].market_id
         THEN disturbed \cup {order[h].market_id}
         ELSE disturbed \ {order[h].market_id}
    /\ pc' = [pc EXCEPT ![h] = "traded"]
    /\ UNCHANGED <<checker_vars, order, now, passed, set_back>>

\* Faulty: the first fill is taken for the last.
update_reference_price_first(prices) == Head(prices)

\* The loop over the fills leaves the last one's price.
update_reference_price(prices) == Last(prices)

UpdateReferencePrice(h) ==
  /\ pc[h] = "traded"
  /\ reference_prices' =
       put(reference_prices, order[h].market_id, update_reference_price(fills[h]))
  /\ Forget(h)
  /\ UNCHANGED <<windows, now, ghost_vars>>

\* Its client goes away while it waits for the checker's mutex: the server drops
\* the handler, and the fills' prices are never recorded.
Dropped(h) ==
  /\ pc[h] = "traded"
  /\ disturbed' = disturbed \cup {order[h].market_id}
  /\ Forget(h)
  /\ UNCHANGED <<checker_vars, now, passed, last_trade, set_back>>

-----------------------------------------------------------------------------
(* Specification *)

SetClock(t) ==
  /\ now' = t
  /\ set_back' = (set_back \/ t < now)
  /\ UNCHANGED <<checker_vars, call_vars, passed, last_trade, disturbed>>

RiskInit ==
  /\ windows = [t \in TraderIds |-> << >>]
  /\ reference_prices = [m \in {} |-> 0]
  /\ now \in Times
  /\ pc = [h \in Handlers |-> "idle"]
  /\ order = [h \in Handlers |-> NoOrder]
  /\ fills = [h \in Handlers |-> << >>]
  /\ passed = [t \in TraderIds |-> << >>]
  /\ last_trade = [m \in {} |-> 0]
  /\ disturbed = {} /\ set_back = FALSE

RiskNext ==
  \/ \E h \in Handlers, o \in Orders : Check(h, o)
  \/ \E h \in Handlers :
       EngineNoFill(h) \/ EngineFills(h) \/ UpdateReferencePrice(h) \/ Dropped(h)
  \/ \E t \in Times : SetClock(t)

RiskSpec == RiskInit /\ [][RiskNext]_risk_vars
=============================================================================
