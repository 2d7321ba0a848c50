----------------------------- MODULE RiskProofs -----------------------------
(***************************************************************************)
(* The risk checker, for any handlers, markets, orders and limits: the     *)
(* reference price follows the fills wherever the updates of two handlers  *)
(* do not race and none is dropped, the price band is kept in exact        *)
(* arithmetic, and the rate limit holds as long as the clock is not set    *)
(* back.                                                                   *)
(***************************************************************************)
EXTENDS RiskProperties, SequenceFacts, FiniteSetTheorems

-----------------------------------------------------------------------------
(* The reference price *)

(* The handler's last fill of the market has yet to be recorded.           *)
Outstanding(h, m) == pc[h] = "traded" /\ order[h].market_id = m

Agrees(m) ==
  /\ m \in DOMAIN reference_prices <=> m \in DOMAIN last_trade
  /\ m \in DOMAIN last_trade => reference_prices[m] = last_trade[m]

(* ReferenceCurrent says nothing of the time between a fill and its update,*)
(* so it is not inductive: what is outstanding then is the last trade's    *)
(* price, and it is with one handler.                                      *)
OneUpdate(m) ==
  /\ (\A h \in Handlers : ~Outstanding(h, m)) => Agrees(m)
  /\ \A h \in Handlers :
       Outstanding(h, m) =>
         /\ \A other \in Handlers : Outstanding(other, m) => other = h
         /\ m \in DOMAIN last_trade
         /\ Last(fills[h]) = last_trade[m]

CallTypes ==
  /\ pc \in [Handlers -> {"idle", "checked", "traded"}]
  /\ order \in [Handlers -> Orders \cup {NoOrder}]
  /\ fills \in [Handlers -> Seq(Int)]
  /\ \A h \in Handlers : pc[h] # "idle" => order[h] \in Orders

ReferenceInv ==
  /\ CallTypes
  /\ \A m \in Markets \ disturbed : OneUpdate(m)

-----------------------------------------------------------------------------
(* Every order is of some market at an integer price.                      *)
LEMMA OrderFields ==
  ASSUME NEW o \in Orders
  PROVE  o.market_id \in Markets /\ o.price_ticks \in Int
BY RiskAssumption

(* At the start nothing has traded, and no reference price is set.         *)
LEMMA InitReference == RiskInit => ReferenceInv
<1> SUFFICES ASSUME RiskInit PROVE ReferenceInv
    OBVIOUS
<1>1. CallTypes
    BY DEF RiskInit, CallTypes
<1>2. \A m \in Markets : Agrees(m)
    BY DEF RiskInit, Agrees
<1>3. \A m \in Markets : OneUpdate(m)
    BY <1>2 DEF RiskInit, OneUpdate, Outstanding
<1> QED BY <1>1, <1>3 DEF ReferenceInv

(* A step that leaves the prices alone and starts or ends no update keeps  *)
(* the invariant.                                                          *)
LEMMA QuietReference ==
  ASSUME ReferenceInv, CallTypes',
         UNCHANGED <<reference_prices, last_trade, disturbed>>,
         \A h \in Handlers, m \in Markets :
           /\ Outstanding(h, m)' <=> Outstanding(h, m)
           /\ Outstanding(h, m) => fills'[h] = fills[h]
  PROVE  ReferenceInv'
<1> SUFFICES ASSUME NEW m \in Markets, m \notin disturbed PROVE OneUpdate(m)'
    BY DEF ReferenceInv
<1>1. OneUpdate(m)
    BY DEF ReferenceInv
<1>2. Agrees(m)' <=> Agrees(m)
    BY DEF Agrees
<1> QED BY <1>1, <1>2 DEF OneUpdate

(* A submission that passes the checks has not traded yet.                 *)
LEMMA CheckReference ==
  ASSUME ReferenceInv, NEW h \in Handlers, NEW o \in Orders, Check(h, o)
  PROVE  ReferenceInv'
<1>1. CallTypes'
    BY DEF ReferenceInv, CallTypes, Check
<1>2. \A k \in Handlers, m \in Markets :
        /\ Outstanding(k, m)' <=> Outstanding(k, m)
        /\ Outstanding(k, m) => fills'[k] = fills[k]
    BY DEF ReferenceInv, CallTypes, Check, Outstanding
<1> QED BY <1>1, <1>2, QuietReference DEF Check

(* An order without fills leaves nothing to record.                        *)
LEMMA NoFillReference ==
  ASSUME ReferenceInv, NEW h \in Handlers, EngineNoFill(h)
  PROVE  ReferenceInv'
<1>1. CallTypes'
    BY DEF ReferenceInv, CallTypes, EngineNoFill, Forget
<1>2. \A k \in Handlers, m \in Markets :
        /\ Outstanding(k, m)' <=> Outstanding(k, m)
        /\ Outstanding(k, m) => fills'[k] = fills[k]
    BY DEF ReferenceInv, CallTypes, EngineNoFill, Forget, Outstanding
<1>3. UNCHANGED <<reference_prices, last_trade, disturbed>>
    BY DEF EngineNoFill, checker_vars, ghost_vars
<1> QED BY <1>1, <1>2, <1>3, QuietReference

(* Fills begin an update: the only one of the market unless it overlaps.   *)
LEMMA FillsReference ==
  ASSUME ReferenceInv, NEW h \in Handlers, EngineFills(h)
  PROVE  ReferenceInv'
<1> PICK lowest \in {o.price_ticks : o \in Orders}, highest \in {o.price_ticks : o \in Orders} :
      EngineFills(h)!(lowest, highest)
    BY DEF EngineFills
<1> DEFINE filled == order[h].market_id
<1>0. lowest \in Int /\ highest \in Int /\ filled \in Markets
    BY OrderFields DEF ReferenceInv, CallTypes
<1>1. CallTypes'
    BY <1>0 DEF ReferenceInv, CallTypes
<1>2. /\ filled \in DOMAIN last_trade' /\ last_trade'[filled] = highest
      /\ \A m \in Markets \ {filled} :
           /\ m \in DOMAIN last_trade' <=> m \in DOMAIN last_trade
           /\ m \in DOMAIN last_trade => last_trade'[m] = last_trade[m]
    BY DEF put
<1>3. Last(fills'[h]) = highest
    BY <1>0 DEF ReferenceInv, CallTypes, Last
<1>4. \A k \in Handlers, m \in Markets :
        Outstanding(k, m)' <=> Outstanding(k, m) \/ (k = h /\ m = filled)
    BY DEF ReferenceInv, CallTypes, Outstanding
<1> SUFFICES ASSUME NEW m \in Markets, m \notin disturbed' PROVE OneUpdate(m)'
    BY <1>1 DEF ReferenceInv
<1>5. CASE m = filled
    <2>1. \A k \in Handlers : ~Outstanding(k, m)
        BY <1>5 DEF Outstanding
    <2> QED BY <1>2, <1>3, <1>4, <1>5, <2>1 DEF OneUpdate
<1>6. CASE m # filled
    <2>1. m \notin disturbed /\ OneUpdate(m)
        BY <1>6 DEF ReferenceInv
    <2>2. Agrees(m)' <=> Agrees(m)
        BY <1>2, <1>6 DEF Agrees, checker_vars
    <2>3. \A k \in Handlers : Outstanding(k, m)' <=> Outstanding(k, m)
        BY <1>4, <1>6
    <2>4. \A k \in Handlers : Outstanding(k, m) => k # h
        BY DEF Outstanding
    <2>5. \A k \in Handlers : k # h => fills'[k] = fills[k]
        BY DEF ReferenceInv, CallTypes
    <2> QED BY <1>2, <1>6, <2>1, <2>2, <2>3, <2>4, <2>5 DEF OneUpdate
<1> QED BY <1>5, <1>6

(* The update of a market's only outstanding fills brings the two together.*)
LEMMA UpdateReference ==
  ASSUME ReferenceInv, NEW h \in Handlers, UpdateReferencePrice(h)
  PROVE  ReferenceInv'
<1> DEFINE filled == order[h].market_id
<1>0. filled \in Markets
    BY OrderFields DEF ReferenceInv, CallTypes, UpdateReferencePrice
<1>1. CallTypes'
    BY DEF ReferenceInv, CallTypes, UpdateReferencePrice, Forget
<1>2. /\ filled \in DOMAIN reference_prices'
      /\ reference_prices'[filled] = Last(fills[h])
      /\ \A m \in Markets \ {filled} :
           /\ m \in DOMAIN reference_prices' <=> m \in DOMAIN reference_prices
           /\ m \in DOMAIN reference_prices => reference_prices'[m] = reference_prices[m]
    BY DEF UpdateReferencePrice, update_reference_price, put
<1>3. \A k \in Handlers, m \in Markets :
        Outstanding(k, m)' <=> Outstanding(k, m) /\ k # h
    BY DEF ReferenceInv, CallTypes, UpdateReferencePrice, Forget, Outstanding
<1>4. last_trade' = last_trade /\ disturbed' = disturbed
    BY DEF UpdateReferencePrice, ghost_vars
<1> SUFFICES ASSUME NEW m \in Markets, m \notin disturbed PROVE OneUpdate(m)'
    BY <1>1, <1>4 DEF ReferenceInv
<1>5. OneUpdate(m)
    BY DEF ReferenceInv
<1>6. CASE m = filled
    <2>1. Outstanding(h, m)
        BY <1>6 DEF UpdateReferencePrice, Outstanding
    <2>2. \A k \in Handlers : ~Outstanding(k, m)'
        BY <1>3, <1>5, <2>1 DEF OneUpdate
    <2>3. Agrees(m)'
        BY <1>2, <1>4, <1>5, <1>6, <2>1 DEF OneUpdate, Agrees
    <2> QED BY <2>2, <2>3 DEF OneUpdate
<1>7. CASE m # filled
    <2>1. Agrees(m)' <=> Agrees(m)
        BY <1>2, <1>4, <1>7 DEF Agrees
    <2>2. ~Outstanding(h, m)
        BY <1>7 DEF Outstanding
    <2>3. \A k \in Handlers : Outstanding(k, m)' <=> Outstanding(k, m)
        BY <1>3, <2>2
    <2>4. \A k \in Handlers : k # h => fills'[k] = fills[k]
        BY DEF ReferenceInv, CallTypes, UpdateReferencePrice, Forget
    <2> QED BY <1>4, <1>5, <2>1, <2>2, <2>3, <2>4 DEF OneUpdate
<1> QED BY <1>6, <1>7

(* A market whose update is dropped is disturbed; the others do not see it.*)
LEMMA DroppedReference ==
  ASSUME ReferenceInv, NEW h \in Handlers, Dropped(h)
  PROVE  ReferenceInv'
<1> PICK filled : filled = order[h].market_id
    OBVIOUS
<1>1. CallTypes'
    BY DEF ReferenceInv, CallTypes, Dropped, Forget
<1>2. /\ UNCHANGED <<reference_prices, last_trade>> /\ disturbed' = disturbed \cup {filled}
      /\ \A k \in Handlers : k # h => fills'[k] = fills[k]
    BY DEF ReferenceInv, CallTypes, Dropped, Forget, checker_vars
<1>3. \A k \in Handlers, m \in Markets \ {filled} :
        /\ Outstanding(k, m)' <=> Outstanding(k, m)
        /\ Outstanding(k, m) => k # h
    BY DEF ReferenceInv, CallTypes, Dropped, Forget, Outstanding
<1> SUFFICES ASSUME NEW m \in Markets, m \notin disturbed' PROVE OneUpdate(m)'
    BY <1>1 DEF ReferenceInv
<1>4. m \notin disturbed /\ m # filled /\ OneUpdate(m)
    BY <1>2 DEF ReferenceInv
<1>5. Agrees(m)' <=> Agrees(m)
    BY <1>2 DEF Agrees
<1> QED BY <1>2, <1>3, <1>4, <1>5 DEF OneUpdate

(* The clock has no say in prices.                                         *)
LEMMA ClockReference ==
  ASSUME ReferenceInv, NEW t \in Times, SetClock(t)
  PROVE  ReferenceInv'
<1>1. CallTypes'
    BY DEF ReferenceInv, CallTypes, SetClock, call_vars
<1>2. \A k \in Handlers, m \in Markets :
        /\ Outstanding(k, m)' <=> Outstanding(k, m)
        /\ Outstanding(k, m) => fills'[k] = fills[k]
    BY DEF SetClock, call_vars, Outstanding
<1> QED BY <1>1, <1>2, QuietReference DEF SetClock, call_vars, checker_vars

(* ReferenceInv holds in every reachable state.                            *)
THEOREM SpecReferenceInv == RiskSpec => []ReferenceInv
<1>1. RiskInit => ReferenceInv
    BY InitReference
<1>2. ReferenceInv /\ [RiskNext]_risk_vars => ReferenceInv'
    <2> SUFFICES ASSUME ReferenceInv, [RiskNext]_risk_vars PROVE ReferenceInv'
        OBVIOUS
    <2>1. CASE UNCHANGED risk_vars
        BY <2>1 DEF risk_vars, checker_vars, call_vars, ghost_vars, ReferenceInv,
                    CallTypes, OneUpdate, Outstanding, Agrees
    <2>2. ASSUME NEW h \in Handlers, NEW o \in Orders, Check(h, o) PROVE ReferenceInv'
        BY <2>2, CheckReference
    <2>3. ASSUME NEW h \in Handlers, EngineNoFill(h) PROVE ReferenceInv'
        BY <2>3, NoFillReference
    <2>4. ASSUME NEW h \in Handlers, EngineFills(h) PROVE ReferenceInv'
        BY <2>4, FillsReference
    <2>5. ASSUME NEW h \in Handlers, UpdateReferencePrice(h) PROVE ReferenceInv'
        BY <2>5, UpdateReference
    <2>6. ASSUME NEW h \in Handlers, Dropped(h) PROVE ReferenceInv'
        BY <2>6, DroppedReference
    <2>7. ASSUME NEW t \in Times, SetClock(t) PROVE ReferenceInv'
        BY <2>7, ClockReference
    <2> QED BY <2>1, <2>2, <2>3, <2>4, <2>5, <2>6, <2>7 DEF RiskNext
<1> QED BY <1>1, <1>2, PTL DEF RiskSpec

(* A market's reference price is its last fill's price whenever no update  *)
(* is outstanding, the last ones did not race and none was dropped.        *)
THEOREM SpecReferenceCurrent == RiskSpec => []ReferenceCurrent
<1>1. ReferenceInv => ReferenceCurrent
    BY DEF ReferenceInv, ReferenceCurrent, OneUpdate, Outstanding, Agrees
<1> QED BY <1>1, SpecReferenceInv, PTL
-----------------------------------------------------------------------------
(* Types *)

\* What a handler holds in the course of a call.
CallData ==
  \A h \in Handlers :
    /\ pc[h] # "idle" => order[h] \in Orders
    /\ pc[h] = "traded" => fills[h] # << >>

RiskTypes == RiskTypeOK /\ CallData

(* The entries of a window that are kept are timestamps.                   *)
LEMMA RecentType ==
  ASSUME NEW timestamps \in Seq(Nat)
  PROVE  recent(timestamps) \in Seq(Nat)
<1> DEFINE kept == [ i \in DOMAIN timestamps |->
                       IF timestamps[i] >= window_start THEN << timestamps[i] >> ELSE << >> ]
<1>1. kept \in Seq(Seq(Nat))
  <2>1. \A i \in 1..Len(timestamps) : kept[i] \in Seq(Nat)
    OBVIOUS
  <2>2. kept = [i \in 1..Len(timestamps) |-> kept[i]] /\ Len(timestamps) \in Nat
    OBVIOUS
  <2> HIDE DEF kept
  <2> QED BY <2>1, <2>2, IsASeq
<1>2. recent(timestamps) = FlattenSeq(kept)
  BY Zenon DEF recent
<1> HIDE DEF kept
<1> QED BY <1>1, <1>2, FlattenElements

(* A step by which every variable keeps its type.                          *)
LEMMA CheckTypes ==
  ASSUME RiskTypes, NEW h \in Handlers, NEW o \in Orders, Check(h, o)
  PROVE  RiskTypes'
<1>1. o.trader_id \in TraderIds /\ now \in Nat /\ now \in Times
  BY RiskAssumption DEF RiskTypes, RiskTypeOK
<1>2. windows' \in [TraderIds -> Seq(Nat)]
  <2>1. windows[o.trader_id] \in Seq(Nat) /\ windows \in [TraderIds -> Seq(Nat)]
    BY <1>1 DEF RiskTypes, RiskTypeOK
  <2>2. record_submission(windows[o.trader_id]) \in Seq(Nat)
    BY <1>1, <2>1, RecentType DEF record_submission
  <2> QED BY <2>1, <2>2 DEF Check
<1>3. passed' \in [TraderIds -> Seq(Times)]
  BY <1>1 DEF RiskTypes, RiskTypeOK, Check
<1>4. /\ pc' \in [Handlers -> {"idle", "checked", "traded"}]
      /\ order' \in [Handlers -> Orders \cup {NoOrder}]
      /\ CallData'
  BY DEF RiskTypes, RiskTypeOK, CallData, Check
<1> QED BY <1>1, <1>2, <1>3, <1>4 DEF RiskTypes, RiskTypeOK, Check

(* An order without fills leaves the types alone.                          *)
LEMMA NoFillTypes ==
  ASSUME RiskTypes, NEW h \in Handlers, EngineNoFill(h)
  PROVE  RiskTypes'
BY DEF RiskTypes, RiskTypeOK, CallData, EngineNoFill, Forget, checker_vars, ghost_vars

(* Fills are at prices of orders, of a market of theirs.                   *)
LEMMA FillsTypes ==
  ASSUME RiskTypes, NEW h \in Handlers, EngineFills(h)
  PROVE  RiskTypes'
<1> PICK lowest \in {o.price_ticks : o \in Orders}, highest \in {o.price_ticks : o \in Orders} :
      EngineFills(h)!(lowest, highest)
  BY DEF EngineFills
<1>1. /\ lowest \in 0..MAX /\ highest \in 0..MAX
      /\ order[h] \in Orders /\ order[h].market_id \in Markets
  BY RiskAssumption DEF RiskTypes, CallData
<1>2. fills' \in [Handlers -> Seq(0..MAX)]
  BY <1>1 DEF RiskTypes, RiskTypeOK
<1>3. DOMAIN last_trade' \subseteq Markets
  BY <1>1 DEF RiskTypes, RiskTypeOK, put
<1>4. disturbed' \subseteq Markets
  BY <1>1 DEF RiskTypes, RiskTypeOK
<1>5. pc' \in [Handlers -> {"idle", "checked", "traded"}] /\ CallData'
  <2>1. fills'[h] # << >>
    BY DEF RiskTypes, RiskTypeOK
  <2> QED BY <1>1, <2>1 DEF RiskTypes, RiskTypeOK, CallData
<1> QED BY <1>2, <1>3, <1>4, <1>5 DEF RiskTypes, RiskTypeOK, checker_vars

(* The price that is recorded is one of the fills.                         *)
LEMMA UpdateTypes ==
  ASSUME RiskTypes, NEW h \in Handlers, UpdateReferencePrice(h)
  PROVE  RiskTypes'
<1>1. order[h].market_id \in Markets
  BY RiskAssumption DEF RiskTypes, CallData, UpdateReferencePrice
<1>2. Last(fills[h]) \in 0..MAX
  <2>1. fills[h] \in Seq(0..MAX) /\ fills[h] # << >>
    BY DEF RiskTypes, RiskTypeOK, CallData, UpdateReferencePrice
  <2>2. Len(fills[h]) \in 1..Len(fills[h])
    BY <2>1
  <2> QED BY <2>1, <2>2, ElementOfSeq DEF Last
<1>3. /\ DOMAIN reference_prices' \subseteq Markets
      /\ \A m \in DOMAIN reference_prices' : reference_prices'[m] \in 0..MAX
  BY <1>1, <1>2 DEF RiskTypes, RiskTypeOK, UpdateReferencePrice, update_reference_price, put
<1>4. /\ pc' \in [Handlers -> {"idle", "checked", "traded"}]
      /\ order' \in [Handlers -> Orders \cup {NoOrder}]
      /\ fills' \in [Handlers -> Seq(0..MAX)]
      /\ CallData'
  BY DEF RiskTypes, RiskTypeOK, CallData, UpdateReferencePrice, Forget
<1> QED BY <1>3, <1>4 DEF RiskTypes, RiskTypeOK, UpdateReferencePrice, ghost_vars

(* A dropped handler leaves the types alone.                               *)
LEMMA DroppedTypes ==
  ASSUME RiskTypes, NEW h \in Handlers, Dropped(h)
  PROVE  RiskTypes'
<1>1. disturbed' \subseteq Markets
  BY RiskAssumption DEF RiskTypes, RiskTypeOK, CallData, Dropped
<1> QED BY <1>1 DEF RiskTypes, RiskTypeOK, CallData, Dropped, Forget, checker_vars

(* The clock shows one of its readings.                                    *)
LEMMA ClockTypes ==
  ASSUME RiskTypes, NEW t \in Times, SetClock(t)
  PROVE  RiskTypes'
<1>1. set_back' \in BOOLEAN /\ now' \in Times
  BY DEF SetClock
<1> QED BY <1>1 DEF RiskTypes, RiskTypeOK, CallData, SetClock, call_vars, checker_vars

(* At the start every variable has its type.                               *)
LEMMA InitTypes == RiskInit => RiskTypes
<1> SUFFICES ASSUME RiskInit PROVE RiskTypes
  OBVIOUS
<1>1. /\ windows \in [TraderIds -> Seq(Nat)]
      /\ passed \in [TraderIds -> Seq(Times)]
      /\ fills \in [Handlers -> Seq(0..MAX)]
  BY DEF RiskInit
<1>2. DOMAIN reference_prices = {} /\ DOMAIN last_trade = {}
  BY DEF RiskInit
<1>3. /\ pc \in [Handlers -> {"idle", "checked", "traded"}]
      /\ order \in [Handlers -> Orders \cup {NoOrder}]
      /\ CallData
  BY DEF RiskInit, CallData
<1> QED BY <1>1, <1>2, <1>3 DEF RiskInit, RiskTypes, RiskTypeOK

(* Every variable keeps its type, and a handler has the order it checked   *)
(* and the fills it got, whatever the clock and the other handlers do.     *)
THEOREM SpecRiskTypes == RiskSpec => []RiskTypes
<1>1. RiskInit => RiskTypes
  BY InitTypes
<1>2. RiskTypes /\ [RiskNext]_risk_vars => RiskTypes'
  <2> SUFFICES ASSUME RiskTypes, [RiskNext]_risk_vars PROVE RiskTypes'
    OBVIOUS
  <2>1. CASE UNCHANGED risk_vars
    BY <2>1 DEF risk_vars, checker_vars, call_vars, ghost_vars, RiskTypes, RiskTypeOK, CallData
  <2>2. ASSUME NEW h \in Handlers, NEW o \in Orders, Check(h, o) PROVE RiskTypes'
    BY <2>2, CheckTypes
  <2>3. ASSUME NEW h \in Handlers, EngineNoFill(h) PROVE RiskTypes'
    BY <2>3, NoFillTypes
  <2>4. ASSUME NEW h \in Handlers, EngineFills(h) PROVE RiskTypes'
    BY <2>4, FillsTypes
  <2>5. ASSUME NEW h \in Handlers, UpdateReferencePrice(h) PROVE RiskTypes'
    BY <2>5, UpdateTypes
  <2>6. ASSUME NEW h \in Handlers, Dropped(h) PROVE RiskTypes'
    BY <2>6, DroppedTypes
  <2>7. ASSUME NEW t \in Times, SetClock(t) PROVE RiskTypes'
    BY <2>7, ClockTypes
  <2> QED BY <2>1, <2>2, <2>3, <2>4, <2>5, <2>6, <2>7 DEF RiskNext
<1> QED BY <1>1, <1>2, PTL DEF RiskSpec

(* The types of module Risk hold in every reachable state.                 *)
THEOREM SpecRiskTypeOK == RiskSpec => []RiskTypeOK
<1>1. RiskTypes => RiskTypeOK
  BY DEF RiskTypes
<1> QED BY <1>1, SpecRiskTypes, PTL
-----------------------------------------------------------------------------
(* The price band *)

(* Rounding down and saturating lose nothing that a band should hold: a    *)
(* price within the width is within the band in exact arithmetic.          *)
LEMMA WidthIsExact ==
  ASSUME NEW reference \in 0..MAX, NEW bps \in 0..MAX, NEW price \in 0..MAX,
         price \in saturating_sub(reference, band(reference, bps))
                     .. saturating_add(reference, band(reference, bps)),
         NEW distance, distance = IF price < reference THEN reference - price
                                  ELSE price - reference
  PROVE  distance * BPS <= reference * bps
<1> DEFINE product == reference * bps
           saturated == saturating_mul(reference, bps)
           width == band(reference, bps)
<1>1. product \in Nat /\ MAX \in Nat /\ BPS \in Nat /\ BPS > 0
  BY RiskAssumption
<1>2. saturated \in Nat /\ saturated <= product
  BY <1>1 DEF saturating_mul
<1>3. width = saturated \div BPS
  BY DEF band
<1> HIDE DEF product, saturated, width
<1>4. width \in Nat /\ width * BPS <= saturated
  BY <1>1, <1>2, <1>3
<1>5. price \in saturating_sub(reference, width) .. saturating_add(reference, width)
  BY DEF width
<1>6. distance \in Nat /\ distance <= width
  BY <1>1, <1>4, <1>5 DEF saturating_sub, saturating_add
<1>7. distance * BPS <= width * BPS
  BY <1>1, <1>4, <1>6
<1>8. distance * BPS \in Nat /\ width * BPS \in Nat
  BY <1>1, <1>4, <1>6
<1>9. distance * BPS <= product
  BY <1>1, <1>2, <1>4, <1>7, <1>8
<1> QED BY <1>9 DEF product

(* What BandRespected asks of one handler in a step.                       *)
InBand(h) ==
  LET o == order'[h]
      reference == reference_prices[o.market_id]
      distance == IF o.price_ticks < reference THEN reference - o.price_ticks
                  ELSE o.price_ticks - reference
  IN (/\ pc[h] = "idle" /\ pc'[h] = "checked"
      /\ o.market_id \in DOMAIN market_config \cap DOMAIN reference_prices
      /\ market_config[o.market_id].price_band_bps > 0)
     => distance * BPS <= reference * market_config[o.market_id].price_band_bps

(* Only Check lets a handler pass, and it looks at the same reference.     *)
LEMMA StepInBand ==
  ASSUME RiskTypes, [RiskNext]_risk_vars, NEW h \in Handlers,
         pc[h] = "idle", pc'[h] = "checked"
  PROVE  \E o \in Orders : Check(h, o)
<1>1. ~UNCHANGED risk_vars
  BY DEF risk_vars, call_vars
<1>2. ASSUME NEW k \in Handlers, NEW o \in Orders, Check(k, o) PROVE Check(h, o)
  <2>1. k = h
    BY <1>2 DEF Check, RiskTypes, RiskTypeOK
  <2> QED BY <1>2, <2>1
<1>3. ASSUME NEW k \in Handlers,
             EngineNoFill(k) \/ EngineFills(k) \/ UpdateReferencePrice(k) \/ Dropped(k)
      PROVE  FALSE
  BY <1>3 DEF EngineNoFill, EngineFills, UpdateReferencePrice, Dropped, Forget, RiskTypes,
              RiskTypeOK
<1>4. ASSUME NEW t \in Times, SetClock(t) PROVE FALSE
  BY <1>4 DEF SetClock, call_vars
<1> QED BY <1>1, <1>2, <1>3, <1>4 DEF RiskNext

(* An order that passes is within the band around the reference price of   *)
(* that moment in exact arithmetic, for every u64 and every number of      *)
(* basis points.                                                           *)
THEOREM SpecBandRespected == RiskSpec => BandRespected
<1>1. RiskTypes /\ [RiskNext]_risk_vars => \A h \in Handlers : InBand(h)
  <2> SUFFICES ASSUME RiskTypes, [RiskNext]_risk_vars, NEW h \in Handlers,
                      pc[h] = "idle", pc'[h] = "checked",
                      order'[h].market_id \in DOMAIN market_config \cap DOMAIN reference_prices,
                      market_config[order'[h].market_id].price_band_bps > 0
               PROVE  InBand(h)
    BY DEF InBand
  <2>1. PICK o \in Orders : Check(h, o)
    BY StepInBand
  <2>2. order'[h] = o
    BY <2>1 DEF Check, RiskTypes, RiskTypeOK
  <2>3. PICK reference : reference = reference_prices[o.market_id]
    OBVIOUS
  <2>4. PICK bps : bps = market_config[o.market_id].price_band_bps
    OBVIOUS
  <2>5. PICK price : price = o.price_ticks
    OBVIOUS
  <2>6. reference \in 0..MAX /\ bps \in 0..MAX /\ price \in 0..MAX
    BY <2>2, <2>3, <2>4, <2>5, RiskAssumption DEF RiskTypes, RiskTypeOK
  <2>7. price \in saturating_sub(reference, band(reference, bps))
                    .. saturating_add(reference, band(reference, bps))
    BY <2>1, <2>2, <2>3, <2>4, <2>5, Zenon DEF Check, check_price_band
  <2>8. PICK distance : distance = IF price < reference THEN reference - price
                                   ELSE price - reference
    OBVIOUS
  <2>9. distance * BPS <= reference * bps
    BY <2>6, <2>7, <2>8, WidthIsExact
  <2> QED BY <2>2, <2>3, <2>4, <2>5, <2>8, <2>9, Zenon DEF InBand
<1> QED BY <1>1, SpecRiskTypes, PTL DEF RiskSpec, BandRespected, InBand
-----------------------------------------------------------------------------
(* The rate limit *)

(* A window has room for one more entry when a submission passes, and gets *)
(* no other.                                                               *)
LEMMA CheckWindows ==
  ASSUME RiskTypes, WindowsBounded, NEW h \in Handlers, NEW o \in Orders, Check(h, o)
  PROVE  WindowsBounded'
<1> DEFINE kept == recent(windows[o.trader_id])
<1>1. o.trader_id \in TraderIds /\ windows[o.trader_id] \in Seq(Nat) /\ now \in Nat
  BY RiskAssumption DEF RiskTypes, RiskTypeOK
<1>2. kept \in Seq(Nat)
  BY <1>1, RecentType
<1>3. Len(kept) < max_orders_per_window
  BY DEF Check, check_rate_limit
<1>4. windows' = [windows EXCEPT ![o.trader_id] = Append(kept, now)]
  BY DEF Check, record_submission
<1> HIDE DEF kept
<1>5. Len(Append(kept, now)) <= max_orders_per_window
  BY <1>2, <1>3, RiskAssumption
<1> QED BY <1>1, <1>4, <1>5 DEF WindowsBounded, RiskTypes, RiskTypeOK

(* A trader's window never outgrows the limit, wherever the clock goes.    *)
THEOREM SpecWindowsBounded == RiskSpec => []WindowsBounded
<1>1. RiskInit => WindowsBounded
  BY RiskAssumption DEF RiskInit, WindowsBounded
<1>2. RiskTypes /\ WindowsBounded /\ [RiskNext]_risk_vars => WindowsBounded'
  <2> SUFFICES ASSUME RiskTypes, WindowsBounded, [RiskNext]_risk_vars PROVE WindowsBounded'
    OBVIOUS
  <2>1. ASSUME NEW h \in Handlers, NEW o \in Orders, Check(h, o) PROVE WindowsBounded'
    BY <2>1, CheckWindows
  <2>2. ASSUME windows' = windows PROVE WindowsBounded'
    BY <2>2 DEF WindowsBounded
  <2>3. (\E h \in Handlers, o \in Orders : Check(h, o)) \/ windows' = windows
    BY DEF RiskNext, risk_vars, EngineNoFill, EngineFills, UpdateReferencePrice, Dropped,
           SetClock, checker_vars
  <2> QED BY <2>1, <2>2, <2>3
<1> QED BY <1>1, <1>2, SpecRiskTypes, PTL DEF RiskSpec

\* No time runs backwards in a sequence of timestamps, and now is not before them.
Ordered(times) ==
  /\ \A i, j \in DOMAIN times : i <= j => times[i] <= times[j]
  /\ \A i \in DOMAIN times : times[i] <= now

\* The window is the end of what has passed, and what it lacks is too old to count.
Covers(window, times, first) ==
  /\ first \in 0..Len(times)
  /\ window = SubSeq(times, first + 1, Len(times))
  /\ \A i \in 1..first : times[i] + window_ms < now

\* Between two that are as far apart as the limit lies more than a window.
Spaced(times) ==
  \A i, j \in DOMAIN times :
    i + max_orders_per_window <= j => times[i] + window_ms < times[j]

(* RateLimited looks at what passed; the checker looks at the window it    *)
(* has pruned.  The invariant says that the window is enough: what it has  *)
(* lost is too old for every submission that is yet to come.               *)
RateInv ==
  ~set_back => \A t \in TraderIds :
    /\ Ordered(passed[t])
    /\ \E first \in 0..Len(passed[t]) : Covers(windows[t], passed[t], first)
    /\ Spaced(passed[t])

(* Pruning a window that covers leaves one that covers, with every entry   *)
(* it lacks older than the window of now.                                  *)
LEMMA RecentCovers ==
  ASSUME NEW times \in Seq(Nat), NEW window, NEW first, now \in Nat,
         Ordered(times), Covers(window, times, first)
  PROVE  \E later \in 0..Len(times) : Covers(recent(window), times, later)
<1> DEFINE Young == {i \in 1..Len(window) : window[i] >= window_start}
<1>0. window_ms \in Nat /\ window_start \in Nat
  BY RiskAssumption DEF window_start, saturating_sub
<1>1. /\ first \in 0..Len(times) /\ Len(times) \in Nat
      /\ window \in Seq(Nat) /\ Len(window) = Len(times) - first
      /\ \A i \in 1..Len(window) : window[i] = times[first + i] /\ first + i \in 1..Len(times)
  BY DEF Covers
<1>2. PICK j \in 0..Len(window) : \A i \in 1..Len(window) : window[i] >= window_start <=> i > j
  <2>1. CASE Young = {}
    <3>1. \A i \in 1..Len(window) : ~(window[i] >= window_start)
      BY <2>1, Zenon
    <3>2. Len(window) \in 0..Len(window) /\ \A i \in 1..Len(window) : ~(i > Len(window))
      BY <1>1
    <3> QED BY <3>1, <3>2, Zenon
  <2>2. CASE Young # {}
    <3>1. PICK least \in Young : \A i \in Young : least <= i
      <4>1. Young \subseteq Nat
        OBVIOUS
      <4> HIDE DEF Young
      <4> QED BY <2>2, <4>1, LeastNatural
    <3>2. least \in 1..Len(window) /\ least - 1 \in 0..Len(window) /\ window[least] >= window_start
      BY <1>1, <3>1
    <3>3. ASSUME NEW i \in 1..Len(window) PROVE window[i] >= window_start <=> i > least - 1
      <4>1. window[i] \in Nat /\ window[least] \in Nat
        BY <1>1, <3>2, ElementOfSeq
      <4>2. least <= i => window[least] <= window[i]
        <5>1. /\ first + least \in DOMAIN times /\ window[least] = times[first + least]
              /\ first + i \in DOMAIN times /\ window[i] = times[first + i]
          <6>1. DOMAIN times = 1..Len(times)
            OBVIOUS
          <6> QED BY <1>1, <3>2, <6>1, Zenon
        <5>2. least <= i => first + least <= first + i
          BY <1>1, <3>2
        <5> QED BY <5>1, <5>2, Zenon DEF Ordered
      <4>3. window[i] >= window_start => least <= i
        BY <3>1
      <4> QED BY <1>0, <3>2, <4>1, <4>2, <4>3
    <3> QED BY <3>2, <3>3
  <2> QED BY <2>1, <2>2
<1>3. recent(window) = SubSeq(window, j + 1, Len(window))
  <2> DEFINE kept == [ i \in DOMAIN window |->
                         IF window[i] >= window_start THEN << window[i] >> ELSE << >> ]
  <2>1. kept = [i \in DOMAIN window |-> IF i > j THEN << window[i] >> ELSE << >>]
    <3>1. DOMAIN window = 1..Len(window)
      BY <1>1
    <3>2. \A i \in DOMAIN window : (window[i] >= window_start) = (i > j)
      BY <1>2, <3>1
    <3> QED BY <3>2
  <2>2. recent(window) = FlattenSeq(kept)
    BY Zenon DEF recent
  <2> HIDE DEF kept
  <2> QED BY <1>1, <2>1, <2>2, FlattenSuffix
<1>4. recent(window) = SubSeq(times, first + j + 1, Len(times))
  <2>1. SubSeq(window, j + 1, Len(window)) = SubSeq(times, first + j + 1, Len(times))
    <3>1. window = SubSeq(times, first + 1, Len(times))
      BY DEF Covers
    <3>2. /\ first \in Nat /\ j \in Nat /\ Len(times) \in Nat
          /\ first <= Len(times) /\ j <= Len(times) - first /\ Len(window) = Len(times) - first
      BY <1>1
    <3> QED BY ONLY times \in Seq(Nat), <3>1, <3>2
  <2> QED BY <1>3, <2>1
<1>5. first + j \in 0..Len(times)
  BY <1>1
<1>6. ASSUME NEW i \in 1..first + j PROVE times[i] + window_ms < now
  <2>1. CASE i <= first
    BY <2>1 DEF Covers
  <2>2. CASE i > first
    <3>1. i - first \in 1..j /\ i - first \in 1..Len(window) /\ first + (i - first) = i
      BY <1>1, <2>2
    <3>2. times[i] < window_start /\ times[i] \in Nat
      <4>1. times[i] = window[i - first] /\ window[i - first] \in Nat
        BY <1>1, <3>1, ElementOfSeq
      <4>2. ~(window[i - first] >= window_start)
        BY <1>2, <3>1
      <4> QED BY <1>0, <4>1, <4>2
    <3> QED BY <1>0, <3>2 DEF window_start, saturating_sub
  <2> QED BY <1>1, <2>1, <2>2
<1> QED BY <1>4, <1>5, <1>6 DEF Covers
(* What passed before stays ordered and spaced when a submission passes,   *)
(* and its window covers it.                                               *)
LEMMA CheckRate ==
  ASSUME RiskTypes, RateInv, NEW h \in Handlers, NEW o \in Orders, Check(h, o)
  PROVE  RateInv'
<1> SUFFICES ASSUME ~set_back, NEW t \in TraderIds
             PROVE  /\ Ordered(passed[t])'
                    /\ (\E first \in 0..Len(passed[t]) : Covers(windows[t], passed[t], first))'
                    /\ Spaced(passed[t])'
  BY DEF Check, RateInv
<1>1. /\ Ordered(passed[t]) /\ Spaced(passed[t])
      /\ \E first \in 0..Len(passed[t]) : Covers(windows[t], passed[t], first)
  BY DEF RateInv
<1>2. now' = now /\ now \in Nat /\ max_orders_per_window \in Nat /\ window_ms \in Nat
  BY RiskAssumption DEF Check, RiskTypes, RiskTypeOK
<1>3. CASE t # o.trader_id
  <2>1. passed'[t] = passed[t] /\ windows'[t] = windows[t]
    BY <1>3 DEF Check, RiskTypes, RiskTypeOK
  <2> QED BY <1>1, <1>2, <2>1 DEF Ordered, Covers, Spaced
<1>4. CASE t = o.trader_id
  <2> PICK times : times = passed[t]
    OBVIOUS
  <2> PICK window : window = windows[t]
    OBVIOUS
  <2> PICK kept : kept = recent(window)
    OBVIOUS
  <2>1. times \in Seq(Nat)
    <3>1. times \in Seq(Times) /\ Times \subseteq Nat
      BY RiskAssumption DEF RiskTypes, RiskTypeOK
    <3> QED BY <3>1, SeqMonotonic
  <2>2. passed'[t] = Append(times, now) /\ windows'[t] = Append(kept, now)
    BY <1>4 DEF Check, RiskTypes, RiskTypeOK, record_submission
  <2>3. PICK first : Covers(window, times, first)
    BY <1>1
  <2>4. PICK later \in 0..Len(times) : Covers(kept, times, later)
    BY <1>1, <1>2, <2>1, <2>3, RecentCovers
  <2>5. Len(kept) < max_orders_per_window /\ Len(kept) = Len(times) - later
    <3>1. Len(kept) < max_orders_per_window
      BY <1>4 DEF Check, check_rate_limit
    <3> QED BY <2>1, <2>4, <3>1 DEF Covers
  <2> PICK grown : grown = Append(times, now)
    OBVIOUS
  <2> PICK last : last = Len(times) + 1
    OBVIOUS
  <2>6. /\ grown \in Seq(Nat) /\ Len(grown) = last /\ DOMAIN grown = 1..last /\ last \in Nat
        /\ grown[last] = now
        /\ \A i \in 1..last : i # last => i \in DOMAIN times /\ grown[i] = times[i] /\ times[i] \in Nat
    <3>1. /\ grown \in Seq(Nat) /\ Len(grown) = Len(times) + 1
          /\ grown[Len(times) + 1] = now
          /\ \A i \in 1..Len(times) : grown[i] = times[i]
      BY <1>2, <2>1, AppendProperties
    <3>2. /\ Len(times) \in Nat /\ DOMAIN times = 1..Len(times)
          /\ \A i \in 1..Len(times) : times[i] \in Nat
      BY <2>1
    <3>3. DOMAIN grown = 1..Len(grown)
      BY <3>1
    <3>4. last \in Nat /\ \A i \in 1..last : i # last => i \in 1..Len(times)
      BY <3>2
    <3> QED BY <3>1, <3>2, <3>3, <3>4
  <2>7. Ordered(grown)
    <3>1. ASSUME NEW a \in DOMAIN grown, NEW b \in DOMAIN grown, a <= b
          PROVE  grown[a] <= grown[b]
      <4>1. CASE b = last
        <5>1. \A i \in DOMAIN grown : grown[i] <= now
          BY <1>1, <1>2, <2>6 DEF Ordered
        <5> QED BY <2>6, <4>1, <5>1
      <4>2. CASE b # last
        <5>1. a # last
          BY <2>6, <3>1, <4>2
        <5> QED BY <1>1, <2>6, <3>1, <4>2, <5>1, Zenon DEF Ordered
      <4> QED BY <4>1, <4>2
    <3>2. \A i \in DOMAIN grown : grown[i] <= now
      BY <1>1, <1>2, <2>6 DEF Ordered
    <3> QED BY <3>1, <3>2 DEF Ordered
  <2>8. Covers(Append(kept, now), grown, later)
    <3>1. later \in 0..Len(grown)
      BY <2>1, <2>6
    <3>2. Append(kept, now) = SubSeq(grown, later + 1, Len(grown))
      <4>1. kept = SubSeq(times, later + 1, Len(times))
        BY <2>4 DEF Covers
      <4>2. Append(SubSeq(times, later + 1, Len(times)), now)
              = SubSeq(Append(times, now), later + 1, Len(times) + 1)
        BY <1>2, <2>1, <2>4, EndOfAppend
      <4> QED BY <2>6, <4>1, <4>2
    <3>3. \A i \in 1..later : grown[i] + window_ms < now
      <4>1. \A i \in 1..later : i \in 1..last /\ i # last
        BY <2>1, <2>4
      <4> QED BY <2>4, <2>6, <4>1 DEF Covers
    <3> QED BY <3>1, <3>2, <3>3 DEF Covers
  <2>9. Spaced(grown)
    <3> SUFFICES ASSUME NEW i \in 1..last, NEW j \in 1..last, i + max_orders_per_window <= j
                 PROVE  grown[i] + window_ms < grown[j]
      BY <2>6 DEF Spaced
    <3>1. CASE j # last
      <4>1. i # last
        BY <1>2, <2>6, <3>1
      <4> QED BY <1>1, <2>6, <3>1, <4>1 DEF Spaced
    <3>2. CASE j = last
      <4>1. i <= later /\ i \in 1..later
        BY <1>2, <2>1, <2>4, <2>5, <3>2
      <4>2. i # last /\ grown[i] = times[i]
        BY <2>1, <2>4, <2>6, <4>1
      <4>3. times[i] + window_ms < now
        BY <2>4, <4>1 DEF Covers
      <4> QED BY <2>6, <3>2, <4>2, <4>3
    <3> QED BY <3>1, <3>2
  <2>10. /\ Ordered(passed[t])' /\ Spaced(passed[t])'
         /\ Covers(windows[t], passed[t], later)' /\ later \in 0..Len(passed'[t])
    <3>1. passed'[t] = grown
      BY <2>2
    <3> QED BY <1>2, <2>2, <2>7, <2>8, <2>9, <3>1 DEF Ordered, Spaced, Covers
  <2> QED BY <2>10
<1> QED BY <1>3, <1>4

(* A clock that goes on makes nothing younger.                             *)
LEMMA ClockRate ==
  ASSUME RiskTypes, RateInv, NEW t \in Times, SetClock(t)
  PROVE  RateInv'
<1> SUFFICES ASSUME ~set_back', NEW trader \in TraderIds
             PROVE  /\ Ordered(passed[trader])'
                    /\ (\E first \in 0..Len(passed[trader]) :
                          Covers(windows[trader], passed[trader], first))'
                    /\ Spaced(passed[trader])'
  BY DEF RateInv
<1>1. /\ ~set_back /\ now' \in Nat /\ now \in Nat /\ now <= now' /\ window_ms \in Nat
      /\ passed' = passed /\ windows' = windows
  <2>1. now \in Nat /\ t \in Nat /\ window_ms \in Nat
    BY RiskAssumption DEF RiskTypes, RiskTypeOK
  <2>2. ~set_back /\ ~(t < now)
    BY DEF SetClock
  <2> QED BY <2>1, <2>2 DEF SetClock, checker_vars
<1> PICK times : times = passed[trader]
  OBVIOUS
<1>2. times \in Seq(Nat)
  <2>1. times \in Seq(Times) /\ Times \subseteq Nat
    BY RiskAssumption DEF RiskTypes, RiskTypeOK
  <2> QED BY <2>1, SeqMonotonic
<1>3. /\ Ordered(times) /\ Spaced(times)
      /\ \E first \in 0..Len(times) : Covers(windows[trader], times, first)
  BY <1>1 DEF RateInv
<1>4. \A i \in DOMAIN times : times[i] \in Nat
  BY <1>2
<1>5. Ordered(times)'
  BY <1>1, <1>3, <1>4 DEF Ordered
<1>6. PICK first \in 0..Len(times) : Covers(windows[trader], times, first)
  BY <1>3
<1>7. Covers(windows[trader], times, first)'
  <2>1. \A i \in 1..first : times[i] \in Nat /\ times[i] + window_ms < now
    BY <1>2, <1>6 DEF Covers
  <2>2. \A i \in 1..first : times[i] + window_ms < now'
    BY <1>1, <2>1
  <2> QED BY <1>1, <1>6, <2>2 DEF Covers
<1>8. passed'[trader] = times
  BY <1>1
<1> QED BY <1>3, <1>5, <1>6, <1>7, <1>8 DEF Ordered, Covers, Spaced

(* RateInv holds in every reachable state.                                 *)
THEOREM SpecRateInv == RiskSpec => []RateInv
<1>1. RiskInit => RateInv
  <2> SUFFICES ASSUME RiskInit, NEW t \in TraderIds
               PROVE  /\ Ordered(passed[t]) /\ Spaced(passed[t])
                      /\ \E first \in 0..Len(passed[t]) : Covers(windows[t], passed[t], first)
    BY DEF RateInv
  <2>1. passed[t] = << >> /\ windows[t] = << >>
    BY DEF RiskInit
  <2>2. Covers(<< >>, << >>, 0)
    BY DEF Covers
  <2>3. Ordered(<< >>) /\ Spaced(<< >>)
    BY DEF Ordered, Spaced
  <2> QED BY <2>1, <2>2, <2>3
<1>2. RiskTypes /\ RateInv /\ [RiskNext]_risk_vars => RateInv'
  <2> SUFFICES ASSUME RiskTypes, RateInv, [RiskNext]_risk_vars PROVE RateInv'
    OBVIOUS
  <2>1. ASSUME NEW h \in Handlers, NEW o \in Orders, Check(h, o) PROVE RateInv'
    BY <2>1, CheckRate
  <2>2. ASSUME NEW t \in Times, SetClock(t) PROVE RateInv'
    BY <2>2, ClockRate
  <2>3. ASSUME UNCHANGED <<windows, passed, now, set_back>> PROVE RateInv'
    BY <2>3 DEF RateInv, Ordered, Covers, Spaced
  <2>4. \/ \E h \in Handlers, o \in Orders : Check(h, o)
        \/ \E t \in Times : SetClock(t)
        \/ UNCHANGED <<windows, passed, now, set_back>>
    BY DEF RiskNext, risk_vars, EngineNoFill, EngineFills, UpdateReferencePrice, Dropped,
           checker_vars, ghost_vars
  <2> QED BY <2>1, <2>2, <2>3, <2>4
<1> QED BY <1>1, <1>2, SpecRiskTypes, PTL DEF RiskSpec

(* Places that all lie within a distance of one another are no more than   *)
(* that distance.                                                          *)
LEMMA CloseTogether ==
  ASSUME NEW P, P \subseteq Nat, NEW d \in Nat,
         \A i, j \in P : ~(i + d <= j)
  PROVE  Cardinality(P) <= d
<1>1. CASE P = {}
  BY <1>1, FS_EmptySet
<1>2. CASE P # {}
  <2>1. PICK least \in P : \A i \in P : least <= i
    BY <1>2, LeastNatural
  <2> DEFINE Near == least .. least + d - 1
  <2>2. P \subseteq Near
    BY <2>1
  <2>3. IsFiniteSet(Near) /\ Cardinality(Near) = d
    <3>1. least \in Int /\ least + d - 1 \in Int /\ least <= least + d - 1
      BY <2>1
    <3>2. (least + d - 1) - least + 1 = d
      BY <2>1
    <3> QED BY <3>1, <3>2, FS_Interval
  <2> HIDE DEF Near
  <2>4. Cardinality(P) <= Cardinality(Near)
    BY <2>2, <2>3, FS_Subset
  <2> QED BY <2>3, <2>4
<1> QED BY <1>1, <1>2

(* While the clock is not set back, no stretch as long as the window has   *)
(* more submissions of a trader pass than the limit.                       *)
THEOREM SpecRateLimited == RiskSpec => []RateLimited
<1>1. RiskTypes /\ RateInv => RateLimited
  <2> SUFFICES ASSUME RiskTypes, RateInv, ~set_back, NEW t \in TraderIds, NEW start \in Times
               PROVE  Cardinality({i \in DOMAIN passed[t] :
                                     passed[t][i] \in start .. start + window_ms})
                        <= max_orders_per_window
    BY DEF RateLimited
  <2> PICK times : times = passed[t]
    OBVIOUS
  <2>1. times \in Seq(Times) /\ Times \subseteq Nat /\ Spaced(times)
    BY RiskAssumption DEF RiskTypes, RiskTypeOK, RateInv
  <2>2. \A i \in DOMAIN times : times[i] \in Nat
    BY <2>1
  <2> DEFINE P == {i \in DOMAIN times : times[i] \in start .. start + window_ms}
  <2>3. P \subseteq Nat
    BY <2>1
  <2>4. ASSUME NEW i \in P, NEW j \in P PROVE ~(i + max_orders_per_window <= j)
    <3>1. times[i] \in Nat /\ times[j] \in Nat /\ start <= times[i] /\ times[j] <= start + window_ms
      BY <2>1, <2>2
    <3>2. ~(times[i] + window_ms < times[j])
      BY <2>1, <3>1, RiskAssumption
    <3> QED BY <2>1, <3>2 DEF Spaced
  <2>5. max_orders_per_window \in Nat
    BY RiskAssumption
  <2>6. Cardinality(P) <= max_orders_per_window
    <3> HIDE DEF P
    <3> QED BY <2>3, <2>4, <2>5, CloseTogether
  <2> QED BY <2>6
<1> QED BY <1>1, SpecRiskTypes, SpecRateInv, PTL
=============================================================================
