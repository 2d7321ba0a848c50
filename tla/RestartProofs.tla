--------------------------- MODULE RestartProofs ---------------------------
(***************************************************************************)
(* The engine across restarts: its types, its queues and what it may leave *)
(* crossed, for every set of signed orders, markets, traders and every     *)
(* bound.                                                                  *)
(***************************************************************************)
EXTENDS RecoveryProofs

-----------------------------------------------------------------------------
(* What one event does to the orders of a replay *)

\* One order after the event.
AfterEvent(order, id, se) ==
  IF se.event.type = "fill" /\ FillOf(se.event.fill, id)
  THEN replay_filled(order, se.event.fill.size_lots, se.seq_id)
  ELSE IF se.event.type = "order_cancelled" /\ se.event.order_id = id
       THEN replay_ended(order, se.event.reason, se.seq_id)
       ELSE order

OrdersAfter(orders, se, after) ==
  /\ after = [id \in DOMAIN after |-> after[id]]
  /\ se.event.type = "order_accepted" =>
       Added(orders, se.event.order.order_id, se.event.order, after)
  /\ se.event.type # "order_accepted" =>
       /\ DOMAIN after = DOMAIN orders
       /\ \A id \in DOMAIN orders : after[id] = AfterEvent(orders[id], id, se)

StoreAfter(rs, event, after) ==
  /\ after.nonces = IF event.type = "order_accepted" THEN Raised(rs.nonces, event.order) ELSE rs.nonces
  /\ after.filled_amounts = IF event.type = "fill" THEN Filled(rs.filled_amounts, event.fill)
                            ELSE rs.filled_amounts
  /\ after.cancelled = IF event.type = "order_cancelled" THEN rs.cancelled \cup {event.order_hash}
                       ELSE rs.cancelled

\* A fill has two sides.
TwoSides(event) ==
  event.type = "fill" => event.fill.taker_order_id # event.fill.maker_order_id

\* The orders that an event is about are known.
Takes(known, event) ==
  /\ event.type = "fill" => {event.fill.taker_order_id, event.fill.maker_order_id} \subseteq known
  /\ event.type = "order_cancelled" => event.order_id \in known

(* What handling an event does.                                            *)
LEMMA HandledFully ==
  ASSUME NEW at, IsReplay(at), at.error = "none",
         at.orders = [id \in DOMAIN at.orders |-> at.orders[id]],
         NEW se, NEW event, event = se.event, TwoSides(event),
         NEW after, after = Handled(at, event, se.seq_id)
  PROVE  /\ after.error = "none" =>
              OrdersAfter(at.orders, se, after.orders) /\ StoreAfter(at, event, after)
         /\ Takes(DOMAIN at.orders, event) => after.error = "none"
<1>1. PICK s, orders : s = se.seq_id /\ orders = at.orders
  OBVIOUS
<1>2. [at EXCEPT !.error = "UnknownOrder"].error = "UnknownOrder"
  BY ErrorParts
<1>3. CASE event.type = "order_accepted"
  <2>1. PICK order, next : order = event.order /\ next = replay_accepted(at, order)
    OBVIOUS
  <2>2. after = next
    BY <1>3, <2>1 DEF Handled
  <2>3. AcceptanceMade(at, order, next)
    BY <2>1, AcceptanceApplied
  <2>4. /\ next.orders = put(orders, order.order_id, order)
        /\ next.nonces = Raised(at.nonces, order)
        /\ next.filled_amounts = at.filled_amounts /\ next.cancelled = at.cancelled
        /\ next.error = "none"
    BY <1>1, <2>3 DEF AcceptanceMade
  <2>5. PICK more : more = put(orders, order.order_id, order)
    OBVIOUS
  <2>6. Added(orders, order.order_id, order, more) /\ more = [id \in DOMAIN more |-> more[id]]
    <3>1. Added(orders, order.order_id, order, more)
      BY <2>5, PutOrder
    <3>2. more = [id \in DOMAIN more |-> more[id]]
      BY <2>5 DEF put
    <3> QED BY <3>1, <3>2
  <2>7. OrdersAfter(orders, se, more)
    BY <1>3, <2>1, <2>6 DEF OrdersAfter
  <2>8. StoreAfter(at, event, next)
    BY <1>3, <2>1, <2>4 DEF StoreAfter
  <2> QED BY <1>1, <2>2, <2>4, <2>5, <2>7, <2>8
<1>4. CASE event.type = "fill"
  <2>1. PICK fill, next : fill = event.fill /\ next = replay_fill(at, fill, s)
    OBVIOUS
  <2>2. after = next
    BY <1>1, <1>4, <2>1 DEF Handled
  <2>3. CASE {fill.taker_order_id, fill.maker_order_id} \subseteq DOMAIN orders
    <3>1. PICK new : new = next.orders
      OBVIOUS
    <3>2. /\ DOMAIN new = DOMAIN orders /\ OrdersFilled(orders, fill, s, new)
          /\ next.filled_amounts = Filled(at.filled_amounts, fill)
          /\ next.cancelled = at.cancelled /\ next.nonces = at.nonces /\ next.error = "none"
      BY <1>1, <2>1, <2>3, <3>1, FillApplied
    <3>3. fill.taker_order_id # fill.maker_order_id
      BY <1>4, <2>1 DEF TwoSides
    <3>4. \A id \in DOMAIN orders : new[id] = AfterEvent(orders[id], id, se)
      BY <1>1, <1>4, <2>1, <3>2, <3>3 DEF OrdersFilled, AfterEvent
    <3>5. OrdersAfter(orders, se, new)
      BY <1>4, <3>2, <3>4 DEF OrdersAfter, OrdersFilled
    <3>6. StoreAfter(at, event, next)
      BY <1>4, <2>1, <3>2 DEF StoreAfter
    <3> QED BY <1>1, <2>2, <3>1, <3>2, <3>5, <3>6
  <2>4. CASE ~({fill.taker_order_id, fill.maker_order_id} \subseteq DOMAIN orders)
    <3>1. next = [at EXCEPT !.error = "UnknownOrder"]
      BY <1>1, <2>1, <2>4 DEF replay_fill
    <3>2. ~Takes(DOMAIN orders, event)
      BY <1>4, <2>1, <2>4 DEF Takes
    <3> QED BY <1>1, <1>2, <2>2, <3>1, <3>2
  <2> QED BY <2>3, <2>4
<1>5. CASE event.type = "order_cancelled"
  <2>1. PICK next : next = replay_cancelled(at, event, s)
    OBVIOUS
  <2>2. after = next
    BY <1>1, <1>5, <2>1 DEF Handled
  <2>3. CASE event.order_id \in DOMAIN orders
    <3>1. PICK new : new = next.orders
      OBVIOUS
    <3>2. /\ DOMAIN new = DOMAIN orders /\ OrderEnded(orders, event, s, new)
          /\ next.cancelled = at.cancelled \cup {event.order_hash}
          /\ next.filled_amounts = at.filled_amounts /\ next.nonces = at.nonces
          /\ next.error = "none"
      BY <1>1, <2>1, <2>3, <3>1, CancellationApplied
    <3>3. \A id \in DOMAIN orders : new[id] = AfterEvent(orders[id], id, se)
      BY <1>1, <1>5, <3>2 DEF OrderEnded, AfterEvent
    <3>4. OrdersAfter(orders, se, new)
      BY <1>5, <3>2, <3>3 DEF OrdersAfter, OrderEnded
    <3>5. StoreAfter(at, event, next)
      BY <1>5, <3>2 DEF StoreAfter
    <3> QED BY <1>1, <2>2, <3>1, <3>2, <3>4, <3>5
  <2>4. CASE event.order_id \notin DOMAIN orders
    <3>1. next = [at EXCEPT !.error = "UnknownOrder"]
      BY <1>1, <2>1, <2>4 DEF replay_cancelled
    <3>2. ~Takes(DOMAIN orders, event)
      BY <1>5, <2>4 DEF Takes
    <3> QED BY <1>1, <1>2, <2>2, <3>1, <3>2
  <2> QED BY <2>3, <2>4
<1>6. CASE event.type \notin {"order_accepted", "fill", "order_cancelled"}
  <2>1. after = at
    BY <1>6 DEF Handled
  <2>2. \A id \in DOMAIN orders : orders[id] = AfterEvent(orders[id], id, se)
    BY <1>6 DEF AfterEvent
  <2>3. OrdersAfter(orders, se, orders)
    BY <1>1, <1>6, <2>2 DEF OrdersAfter
  <2>4. StoreAfter(at, event, at)
    BY <1>6 DEF StoreAfter
  <2> QED BY <1>1, <2>1, <2>3, <2>4
<1> QED BY <1>3, <1>4, <1>5, <1>6

(* What applying an event does.                                            *)
LEMMA AppliedFully ==
  ASSUME NEW rs, IsReplay(rs), rs.orders = [id \in DOMAIN rs.orders |-> rs.orders[id]],
         NEW se, TwoSides(se.event), NEW after, after = Apply(rs, se)
  PROVE  /\ IsReplay(after)
         /\ after.error = "none" =>
              /\ rs.error = "none" /\ OrdersAfter(rs.orders, se, after.orders)
              /\ StoreAfter(rs, se.event, after)
         /\ rs.error = "none" /\ follows(rs, se.seq_id) /\ Takes(DOMAIN rs.orders, se.event)
              => after.error = "none"
<1>1. /\ IsReplay(after)
      /\ after.error = "none" => rs.error = "none" /\ follows(rs, se.seq_id)
  BY AppliedOrders
<1>2. SUFFICES ASSUME rs.error = "none", follows(rs, se.seq_id)
               PROVE  /\ after.error = "none" =>
                           OrdersAfter(rs.orders, se, after.orders) /\ StoreAfter(rs, se.event, after)
                      /\ Takes(DOMAIN rs.orders, se.event) => after.error = "none"
  BY <1>1
<1>3. PICK at, event : at = Reached(rs, se.seq_id) /\ event = se.event
  OBVIOUS
<1>4. /\ IsReplay(at) /\ at.orders = rs.orders /\ at.filled_amounts = rs.filled_amounts
      /\ at.cancelled = rs.cancelled /\ at.nonces = rs.nonces /\ at.error = rs.error
  BY <1>3, ReachedParts
<1>5. after = Handled(at, event, se.seq_id)
  BY <1>2, <1>3, ApplyCases
<1>6. /\ after.error = "none" =>
           OrdersAfter(at.orders, se, after.orders) /\ StoreAfter(at, event, after)
      /\ Takes(DOMAIN at.orders, event) => after.error = "none"
  <2>1. at.error = "none" /\ at.orders = [id \in DOMAIN at.orders |-> at.orders[id]]
    BY <1>2, <1>4
  <2> QED BY <1>3, <1>4, <1>5, <2>1, HandledFully
<1>7. StoreAfter(at, event, after) => StoreAfter(rs, event, after)
  BY <1>4 DEF StoreAfter
<1> QED BY <1>3, <1>4, <1>6, <1>7

-----------------------------------------------------------------------------
(* Replaying rows of the right types *)

RowFits(row) == row \in SequencedEvents /\ RowSound(row) /\ TwoSides(row.event)

(* What the kinds of rows hold.                                            *)
LEMMA RowTypes ==
  ASSUME NEW row, RowFits(row), NEW event, event = row.event
  PROVE  /\ row.seq_id \in Nat
         /\ event.type = "order_accepted" => event.order \in Orders
         /\ event.type = "fill" => event.fill \in Fills
         /\ event.type = "order_cancelled" =>
              /\ event.order_id \in OrderIds /\ event.order_hash \in Hashes
              /\ event.reason \in CancelReasons
<1>1. row.seq_id \in Nat /\ event \in Events
  BY DEF RowFits, SequencedEvents
<1> QED BY <1>1 DEF Events

(* One order keeps its type, and what it was accepted as.                  *)
LEMMA AfterEventType ==
  ASSUME NEW order \in Orders, NEW id, NEW se, RowFits(se),
         NEW after, after = AfterEvent(order, id, se)
  PROVE  /\ after \in Orders /\ after.order_id = order.order_id
         /\ after.signed = order.signed /\ after.created_sequence = order.created_sequence
<1>1. PICK event, seq_id : event = se.event /\ seq_id = se.seq_id
  OBVIOUS
<1>2. seq_id \in Nat
  BY <1>1, RowTypes
<1>3. CASE event.type = "fill" /\ FillOf(event.fill, id)
  <2>1. PICK qty : qty = event.fill.size_lots
    OBVIOUS
  <2>2. qty \in Nat
    <3>1. event.fill \in Fills
      BY <1>1, <1>3, RowTypes
    <3> QED BY <2>1, <3>1 DEF Fills
  <2>3. after = replay_filled(order, qty, seq_id)
    BY <1>1, <1>3, <2>1 DEF AfterEvent
  <2>4. order.filled_size_lots + qty \in Nat
    BY <2>2 DEF Orders
  <2> QED BY <1>2, <2>3, <2>4 DEF replay_filled, Orders, OrderStatuses
<1>4. CASE ~(event.type = "fill" /\ FillOf(event.fill, id))
           /\ event.type = "order_cancelled" /\ event.order_id = id
  <2>1. after = replay_ended(order, event.reason, seq_id)
    BY <1>1, <1>4 DEF AfterEvent
  <2>2. CancelStatus(event.reason) \in OrderStatuses
    BY DEF CancelStatus, OrderStatuses
  <2> QED BY <1>2, <2>1, <2>2 DEF replay_ended, Orders
<1>5. CASE ~(event.type = "fill" /\ FillOf(event.fill, id))
           /\ ~(event.type = "order_cancelled" /\ event.order_id = id)
  BY <1>1, <1>5 DEF AfterEvent
<1> QED BY <1>3, <1>4, <1>5

\* The row that accepted the order.
AcceptedBy(row, order) ==
  /\ row.event.type = "order_accepted" /\ row.event.order.order_id = order.order_id
  /\ row.event.order.signed = order.signed
  /\ row.seq_id = order.created_sequence

OrdersFromRows(orders, events, n) ==
  \A id \in DOMAIN orders :
    orders[id].order_id = id /\ \E i \in 1..n : AcceptedBy(events[i], orders[id])

StoreFits(rs) ==
  /\ rs.filled_amounts \in [Hashes -> Nat] /\ rs.cancelled \subseteq Hashes
  /\ rs.nonces \in [TraderIds -> Nat]

ReplayFits(rs, events, n) ==
  /\ IsReplay(rs)
  /\ rs.error = "none" =>
       /\ IsMap(rs.orders, OrderIds, Orders) /\ StoreFits(rs)
       /\ OrdersFromRows(rs.orders, events, n)

(* Nothing replayed yet.                                                   *)
LEMMA FreshFits ==
  ASSUME NEW events
  PROVE  ReplayFits(fresh_replay, events, 0)
<1>1. fresh_replay = ReplayState([id \in {} |-> NoOrder], [hash \in Hashes |-> 0], {},
                                 [t \in TraderIds |-> 0], 0, "none")
  BY DEF fresh_replay, ReplayState
<1>2. /\ IsReplay(fresh_replay) /\ fresh_replay.orders = [id \in {} |-> NoOrder]
      /\ fresh_replay.filled_amounts = [hash \in Hashes |-> 0] /\ fresh_replay.cancelled = {}
      /\ fresh_replay.nonces = [t \in TraderIds |-> 0]
  BY <1>1, ReplayParts
<1>3. PICK rs : rs = fresh_replay
  OBVIOUS
<1>4. IsMap(rs.orders, OrderIds, Orders)
  BY <1>2, <1>3 DEF IsMap
<1>5. StoreFits(rs)
  BY <1>2, <1>3 DEF StoreFits
<1>6. OrdersFromRows(rs.orders, events, 0)
  BY <1>2, <1>3 DEF OrdersFromRows
<1> QED BY <1>2, <1>3, <1>4, <1>5, <1>6 DEF ReplayFits

(* The orders after one event more.                                        *)
LEMMA OrdersAfterFit ==
  ASSUME NEW orders, IsMap(orders, OrderIds, Orders), NEW events, NEW n \in Nat,
         OrdersFromRows(orders, events, n), NEW se, se = events[n + 1], RowFits(se),
         NEW after, OrdersAfter(orders, se, after)
  PROVE  IsMap(after, OrderIds, Orders) /\ OrdersFromRows(after, events, n + 1)
<1>1. PICK event : event = se.event
  OBVIOUS
<1>2. ASSUME NEW order, \E i \in 1..n : AcceptedBy(events[i], order)
      PROVE  \E i \in 1..n + 1 : AcceptedBy(events[i], order)
  <2>1. \A i \in 1..n : i \in 1..n + 1
    OBVIOUS
  <2> QED BY <1>2, <2>1
<1>3. CASE event.type = "order_accepted"
  <2>1. PICK order : order = event.order
    OBVIOUS
  <2>2. order \in Orders /\ order.order_id \in OrderIds
    <3>1. order \in Orders
      BY <1>1, <1>3, <2>1, RowTypes
    <3> QED BY <3>1 DEF Orders
  <2>3. Added(orders, order.order_id, order, after)
    BY <1>1, <1>3, <2>1 DEF OrdersAfter
  <2>4. IsMap(after, OrderIds, Orders)
    BY <2>2, <2>3 DEF IsMap, Added, OrdersAfter
  <2>5. AcceptedBy(se, order) /\ n + 1 \in 1..n + 1
    BY <1>1, <1>3, <2>1 DEF AcceptedBy, RowFits, RowSound
  <2>6. ASSUME NEW id \in DOMAIN after
        PROVE  after[id].order_id = id /\ \E i \in 1..n + 1 : AcceptedBy(events[i], after[id])
    <3>1. CASE id = order.order_id
      <4>1. after[id] = order
        BY <2>3, <3>1 DEF Added
      <4> QED BY <2>5, <3>1, <4>1
    <3>2. CASE id # order.order_id
      <4>1. id \in DOMAIN orders /\ after[id] = orders[id]
        BY <2>3, <3>2 DEF Added
      <4> QED BY <1>2, <4>1 DEF OrdersFromRows
    <3> QED BY <3>1, <3>2
  <2> QED BY <2>4, <2>6 DEF OrdersFromRows
<1>4. CASE event.type # "order_accepted"
  <2>1. /\ DOMAIN after = DOMAIN orders /\ after = [id \in DOMAIN after |-> after[id]]
        /\ \A id \in DOMAIN orders : after[id] = AfterEvent(orders[id], id, se)
    BY <1>1, <1>4 DEF OrdersAfter
  <2>2. ASSUME NEW id \in DOMAIN orders
        PROVE  /\ after[id] \in Orders /\ after[id].order_id = id
               /\ \E i \in 1..n + 1 : AcceptedBy(events[i], after[id])
    <3>1. PICK order, new : order = orders[id] /\ new = after[id]
      OBVIOUS
    <3>2. order \in Orders /\ order.order_id = id
      BY <3>1 DEF IsMap, OrdersFromRows
    <3>3. /\ new \in Orders /\ new.order_id = order.order_id
          /\ new.signed = order.signed /\ new.created_sequence = order.created_sequence
      BY <2>1, <3>1, <3>2, AfterEventType
    <3>4. PICK i \in 1..n : AcceptedBy(events[i], order)
      BY <3>1 DEF OrdersFromRows
    <3>5. AcceptedBy(events[i], new)
      BY <3>3, <3>4 DEF AcceptedBy
    <3> QED BY <1>2, <3>1, <3>2, <3>3, <3>5
  <2>3. IsMap(after, OrderIds, Orders)
    BY <2>1, <2>2 DEF IsMap
  <2> QED BY <2>1, <2>2, <2>3 DEF OrdersFromRows
<1> QED BY <1>3, <1>4

(* The store after one event more.                                         *)
LEMMA StoreAfterFits ==
  ASSUME NEW rs, StoreFits(rs), NEW se, RowFits(se), NEW after, StoreAfter(rs, se.event, after)
  PROVE  StoreFits(after)
<1>1. PICK event : event = se.event
  OBVIOUS
<1>2. after.nonces \in [TraderIds -> Nat]
  <2>1. CASE event.type = "order_accepted"
    <3>1. PICK order, nonces0 : order = event.order /\ nonces0 = rs.nonces
      OBVIOUS
    <3>2. order \in Orders
      BY <1>1, <2>1, <3>1, RowTypes
    <3>3. order.signed \in SignedOrders
      BY <3>2 DEF Orders
    <3>4. order.signed.nonce \in Nat
      BY <3>3, SignedOrderType
    <3>5. after.nonces = Raised(nonces0, order) /\ nonces0 \in [TraderIds -> Nat]
      BY <1>1, <2>1, <3>1 DEF StoreAfter, StoreFits
    <3> QED BY <3>4, <3>5 DEF Raised
  <2> QED BY <1>1, <2>1 DEF StoreAfter, StoreFits
<1>3. after.filled_amounts \in [Hashes -> Nat]
  <2>1. CASE event.type = "fill"
    <3>1. PICK fill, amounts : fill = event.fill /\ amounts = rs.filled_amounts
      OBVIOUS
    <3>2. fill \in Fills
      BY <1>1, <2>1, <3>1, RowTypes
    <3>3. /\ fill.size_lots \in Nat
          /\ fill.taker_order_hash \in Hashes /\ fill.maker_order_hash \in Hashes
      BY <3>2 DEF Fills
    <3>4. after.filled_amounts = Filled(amounts, fill) /\ amounts \in [Hashes -> Nat]
      BY <1>1, <2>1, <3>1 DEF StoreAfter, StoreFits
    <3> QED BY <3>3, <3>4 DEF Filled
  <2> QED BY <1>1, <2>1 DEF StoreAfter, StoreFits
<1>4. after.cancelled \subseteq Hashes
  <2>1. CASE event.type = "order_cancelled"
    <3>1. event.order_hash \in Hashes
      BY <1>1, <2>1, RowTypes
    <3> QED BY <1>1, <2>1, <3>1 DEF StoreAfter, StoreFits
  <2> QED BY <1>1, <2>1 DEF StoreAfter, StoreFits
<1> QED BY <1>2, <1>3, <1>4 DEF StoreFits

(* One event more.                                                         *)
LEMMA ApplyFits ==
  ASSUME NEW rs, NEW events, NEW n \in Nat, ReplayFits(rs, events, n), RowFits(events[n + 1])
  PROVE  ReplayFits(Apply(rs, events[n + 1]), events, n + 1)
<1>1. PICK se, after : se = events[n + 1] /\ after = Apply(rs, se)
  OBVIOUS
<1>2. IsReplay(rs) /\ RowFits(se) /\ TwoSides(se.event)
  BY <1>1 DEF ReplayFits, RowFits
<1>3. IsReplay(after) /\ after.error = "none" => rs.error = "none"
  BY <1>1, <1>2, AppliedOrders
<1>4. IsReplay(after)
  BY <1>1, <1>2, AppliedOrders
<1>5. SUFFICES ASSUME after.error = "none"
               PROVE  /\ IsMap(after.orders, OrderIds, Orders) /\ StoreFits(after)
                      /\ OrdersFromRows(after.orders, events, n + 1)
  BY <1>1, <1>4 DEF ReplayFits
<1>6. /\ IsMap(rs.orders, OrderIds, Orders) /\ StoreFits(rs)
      /\ OrdersFromRows(rs.orders, events, n)
  BY <1>3, <1>4, <1>5 DEF ReplayFits
<1>7. OrdersAfter(rs.orders, se, after.orders) /\ StoreAfter(rs, se.event, after)
  <2>1. rs.orders = [id \in DOMAIN rs.orders |-> rs.orders[id]]
    BY <1>6 DEF IsMap
  <2> QED BY <1>1, <1>2, <1>5, <2>1, AppliedFully
<1>8. StoreFits(after)
  BY <1>2, <1>6, <1>7, StoreAfterFits
<1>9. IsMap(after.orders, OrderIds, Orders) /\ OrdersFromRows(after.orders, events, n + 1)
  BY <1>1, <1>2, <1>6, <1>7, OrdersAfterFit
<1> QED BY <1>8, <1>9

(* Every state of a run.                                                   *)
LEMMA RunsFit ==
  ASSUME NEW events, NEW n \in Nat, \A i \in 1..n : RowFits(events[i]),
         NEW states, Runs(states, events, n)
  PROVE  \A k \in 0..n : ReplayFits(states[k], events, k)
<1> DEFINE Unfit == {k \in 0..n : ~ReplayFits(states[k], events, k)}
<1>1. SUFFICES ASSUME Unfit # {} PROVE FALSE
  OBVIOUS
<1>2. PICK least \in Unfit : \A k \in Unfit : least <= k
  <2>1. Unfit \subseteq Nat
    OBVIOUS
  <2> HIDE DEF Unfit
  <2> QED BY <1>1, <2>1, LeastNatural
<1>3. CASE least = 0
  BY <1>2, <1>3, FreshFits DEF Runs
<1>4. CASE least # 0
  <2>1. PICK k : k = least - 1
    OBVIOUS
  <2>2. k \in Nat /\ least = k + 1 /\ k \in 0..n /\ least \in 1..n /\ ~(least <= k)
    BY <1>2, <1>4, <2>1
  <2>3. ReplayFits(states[k], events, k)
    BY <1>2, <2>2
  <2>4. ReplayFits(Apply(states[k], events[k + 1]), events, k + 1)
    BY <2>2, <2>3, ApplyFits
  <2>5. states[k + 1] = Apply(states[k], events[k + 1])
    BY <2>1, <2>2 DEF Runs
  <2> QED BY <1>2, <2>2, <2>4, <2>5
<1> QED BY <1>3, <1>4

(* Rows of the right types replay to a store and orders of the right types.*)
LEMMA ReplayTyped ==
  ASSUME NEW events, IsSeq(events), \A i \in DOMAIN events : RowFits(events[i])
  PROVE  ReplayFits(replayed(events), events, Len(events))
<1>1. Len(events) \in Nat /\ DOMAIN events = 1..Len(events)
  BY LenProperties DEF IsSeq
<1>2. PICK n : n = Len(events)
  OBVIOUS
<1>3. PICK states : Runs(states, events, n) /\ replayed(events) = states[n]
  BY <1>2, ReplayRuns
<1>4. \A k \in 0..n : ReplayFits(states[k], events, k)
  BY <1>1, <1>2, <1>3, RunsFit
<1> QED BY <1>1, <1>2, <1>3, <1>4

(* An error ends the walk: without one at the end there was none before.   *)
LEMMA NoErrorBefore ==
  ASSUME NEW events, NEW n \in Nat, \A i \in 1..n : RowFits(events[i]),
         NEW states, Runs(states, events, n), states[n].error = "none"
  PROVE  \A k \in 0..n : states[k].error = "none"
<1> DEFINE Failed == {d \in 0..n : states[n - d].error # "none"}
<1>1. SUFFICES ASSUME Failed # {} PROVE FALSE
  <2>1. ASSUME NEW k \in 0..n, states[k].error # "none" PROVE n - k \in Failed
    <3>1. n - k \in 0..n /\ n - (n - k) = k
      OBVIOUS
    <3> QED BY <2>1, <3>1
  <2> HIDE DEF Failed
  <2> QED BY <1>1, <2>1
<1>2. PICK least \in Failed : \A d \in Failed : least <= d
  <2>1. Failed \subseteq Nat
    OBVIOUS
  <2> HIDE DEF Failed
  <2> QED BY <1>1, <2>1, LeastNatural
<1>3. least # 0
  BY <1>2
<1>4. PICK k, d : k = n - least /\ d = least - 1
  OBVIOUS
<1>5. k \in 0..n /\ k + 1 \in 1..n /\ (k + 1) - 1 = k /\ n - d = k + 1 /\ d \in 0..n /\ ~(least <= d)
  BY <1>2, <1>3, <1>4
<1>6. states[k + 1].error = "none"
  BY <1>2, <1>5
<1>7. IsReplay(states[k])
  BY <1>5, RunsFit DEF ReplayFits
<1>8. states[k + 1] = Apply(states[k], events[k + 1])
  BY <1>5 DEF Runs
<1>9. states[k].error = "none"
  <2>1. PICK rs, se, after : rs = states[k] /\ se = events[k + 1] /\ after = Apply(rs, se)
    OBVIOUS
  <2>2. IsReplay(rs) /\ after.error = "none"
    BY <1>6, <1>7, <1>8, <2>1
  <2>3. after.error = "none" => rs.error = "none"
    BY <2>1, <2>2, AppliedOrders
  <2> QED BY <2>1, <2>2, <2>3
<1> QED BY <1>2, <1>4, <1>9

\* These orders are among the others, as they are there.
Among(orders, all) == \A id \in DOMAIN orders : id \in DOMAIN all /\ orders[id] = all[id]

(* An event keeps them among the others.                                   *)
LEMMA AmongAfter ==
  ASSUME NEW orders, NEW all, Among(orders, all), NEW se,
         NEW after, OrdersAfter(orders, se, after), NEW allafter, OrdersAfter(all, se, allafter)
  PROVE  Among(after, allafter)
<1>1. CASE se.event.type = "order_accepted"
  <2>1. PICK order, key : order = se.event.order /\ key = order.order_id
    OBVIOUS
  <2>2. Added(orders, key, order, after) /\ Added(all, key, order, allafter)
    BY <1>1, <2>1 DEF OrdersAfter
  <2> QED BY <2>2 DEF Added, Among
<1>2. CASE se.event.type # "order_accepted"
  BY <1>2 DEF OrdersAfter, Among
<1> QED BY <1>1, <1>2

(* A replay of the last rows only, if it ends without an error, knows the  *)
(* orders that were accepted among them as a replay of all rows does.      *)
LEMMA EndReplays ==
  ASSUME NEW events, IsSeq(events), \A i \in DOMAIN events : RowFits(events[i]),
         replayed(events).error = "none",
         NEW end, IsSeq(end), NEW d \in Nat, Len(events) = d + Len(end),
         \A i \in DOMAIN end : end[i] = events[d + i],
         replayed(end).error = "none"
  PROVE  Among(replayed(end).orders, replayed(events).orders)
<1>1. PICK n, m : n = Len(events) /\ m = Len(end)
  OBVIOUS
<1>2. /\ n \in Nat /\ DOMAIN events = 1..n /\ m \in Nat /\ DOMAIN end = 1..m /\ n = d + m
  BY <1>1, LenProperties DEF IsSeq
<1>3. PICK states : Runs(states, events, n) /\ replayed(events) = states[n]
  BY <1>1, ReplayRuns
<1>4. PICK others : Runs(others, end, m) /\ replayed(end) = others[m]
  BY <1>1, ReplayRuns
<1>5. \A i \in 1..n : RowFits(events[i])
  BY <1>2
<1>6. \A i \in 1..m : RowFits(end[i]) /\ d + i \in 1..n
  BY <1>2
<1>7. \A k \in 0..n : states[k].error = "none" /\ ReplayFits(states[k], events, k)
  BY <1>2, <1>3, <1>5, NoErrorBefore, RunsFit
<1>8. \A k \in 0..m : others[k].error = "none" /\ ReplayFits(others[k], end, k)
  BY <1>2, <1>4, <1>6, NoErrorBefore, RunsFit
<1> DEFINE Astray == {k \in 0..m : ~Among(others[k].orders, states[d + k].orders)}
<1>9. SUFFICES ASSUME Astray # {} PROVE FALSE
  BY <1>2, <1>3, <1>4
<1>10. PICK least \in Astray : \A k \in Astray : least <= k
  <2>1. Astray \subseteq Nat
    OBVIOUS
  <2> HIDE DEF Astray
  <2> QED BY <1>9, <2>1, LeastNatural
<1>11. CASE least = 0
  <2>1. OrdersFromRows(others[0].orders, end, 0)
    <3>1. 0 \in 0..m
      BY <1>2
    <3> QED BY <1>8, <3>1 DEF ReplayFits
  <2>2. DOMAIN others[0].orders = {}
    BY <2>1 DEF OrdersFromRows
  <2> QED BY <1>10, <1>11, <2>2 DEF Among
<1>12. CASE least # 0
  <2>1. PICK k : k = least - 1
    OBVIOUS
  <2>2. /\ k \in 0..m /\ least = k + 1 /\ k + 1 \in 1..m /\ (k + 1) - 1 = k /\ ~(least <= k)
        /\ d + k \in 0..n /\ d + (k + 1) \in 1..n /\ (d + (k + 1)) - 1 = d + k
        /\ k + 1 \in 0..m /\ d + (k + 1) \in 0..n
    BY <1>2, <1>10, <1>12, <2>1
  <2>3. PICK rs, rt, se, after, allafter :
          /\ rs = others[k] /\ rt = states[d + k] /\ se = end[k + 1]
          /\ after = others[k + 1] /\ allafter = states[d + (k + 1)]
    OBVIOUS
  <2>4. after = Apply(rs, se) /\ allafter = Apply(rt, se)
    BY <1>2, <1>3, <1>4, <2>2, <2>3 DEF Runs
  <2>5. /\ after.error = "none" /\ allafter.error = "none" /\ RowFits(se) /\ TwoSides(se.event)
        /\ IsReplay(rs) /\ IsReplay(rt)
        /\ IsMap(rs.orders, OrderIds, Orders) /\ IsMap(rt.orders, OrderIds, Orders)
    BY <1>6, <1>7, <1>8, <2>2, <2>3 DEF ReplayFits, RowFits
  <2>6. OrdersAfter(rs.orders, se, after.orders)
    <3>1. rs.orders = [id \in DOMAIN rs.orders |-> rs.orders[id]]
      BY <2>5 DEF IsMap
    <3> QED BY <2>4, <2>5, <3>1, AppliedFully
  <2>7. OrdersAfter(rt.orders, se, allafter.orders)
    <3>1. rt.orders = [id \in DOMAIN rt.orders |-> rt.orders[id]]
      BY <2>5 DEF IsMap
    <3> QED BY <2>4, <2>5, <3>1, AppliedFully
  <2>8. Among(rs.orders, rt.orders)
    BY <1>10, <2>2, <2>3
  <2>9. Among(after.orders, allafter.orders)
    BY <2>6, <2>7, <2>8, AmongAfter
  <2> QED BY <1>10, <2>2, <2>3, <2>9
<1> QED BY <1>11, <1>12

-----------------------------------------------------------------------------
(* The log with the fills that are made and not yet sequenced *)

FillRow(seq_id, fill) == [seq_id |-> seq_id, event |-> [type |-> "fill", fill |-> fill]]

PendingRows(next, pending) == [i \in 1..Len(pending) |-> FillRow(next + (i - 1), pending[i])]

RowsAhead(events, next, pending) == events \o PendingRows(next, pending)

LEMMA FillRowType ==
  ASSUME NEW seq_id \in Nat, NEW fill \in Fills, NEW row, row = FillRow(seq_id, fill)
  PROVE  /\ row \in SequencedEvents /\ row.seq_id = seq_id
         /\ row.event.type = "fill" /\ row.event.fill = fill
<1>1. PICK event : event = [type |-> "fill", fill |-> fill]
  OBVIOUS
<1>2. event \in Events /\ event.type = "fill" /\ event.fill = fill
  BY <1>1 DEF Events
<1>3. row = [seq_id |-> seq_id, event |-> event]
  BY <1>1 DEF FillRow
<1> QED BY <1>2, <1>3 DEF SequencedEvents

LEMMA PendingRowsType ==
  ASSUME NEW next \in Nat, NEW pending \in Seq(Fills), NEW rows, rows = PendingRows(next, pending)
  PROVE  /\ rows \in Seq(SequencedEvents) /\ Len(rows) = Len(pending) /\ Len(pending) \in Nat
         /\ \A i \in 1..Len(pending) : /\ rows[i] = FillRow(next + (i - 1), pending[i])
                                       /\ pending[i] \in Fills /\ next + (i - 1) \in Nat
<1>1. PICK n : n = Len(pending)
  OBVIOUS
<1>2. n \in Nat
  BY <1>1, LenProperties
<1>3. \A i \in 1..n : pending[i] \in Fills /\ next + (i - 1) \in Nat
  BY <1>1, ElementOfSeq
<1>4. \A i \in 1..n : FillRow(next + (i - 1), pending[i]) \in SequencedEvents
  BY <1>3, FillRowType
<1>5. rows = [i \in 1..n |-> FillRow(next + (i - 1), pending[i])]
  BY <1>1 DEF PendingRows
<1>6. rows \in [1..n -> SequencedEvents] /\ \A i \in 1..n : rows[i] = FillRow(next + (i - 1), pending[i])
  BY <1>4, <1>5
<1>7. rows \in Seq(SequencedEvents) /\ Len(rows) = n
  BY <1>2, <1>6
<1> QED BY <1>1, <1>2, <1>3, <1>6, <1>7

\* n events and m fills after them.
Continues(all, events, n, next, pending, m) ==
  /\ all \in Seq(SequencedEvents) /\ Len(all) = n + m /\ n \in Nat /\ m \in Nat
  /\ \A i \in 1..n : all[i] = events[i]
  /\ \A i \in 1..m : all[n + i] = FillRow(next + (i - 1), pending[i])

(* The rows and their number.                                              *)
LEMMA RowsAheadType ==
  ASSUME NEW events \in Seq(SequencedEvents), NEW next \in Nat, NEW pending \in Seq(Fills),
         NEW all, all = RowsAhead(events, next, pending),
         NEW n, n = Len(events), NEW m, m = Len(pending)
  PROVE  Continues(all, events, n, next, pending, m)
<1>1. PICK rows : rows = PendingRows(next, pending)
  OBVIOUS
<1>2. /\ rows \in Seq(SequencedEvents) /\ Len(rows) = m /\ m \in Nat
      /\ \A i \in 1..m : rows[i] = FillRow(next + (i - 1), pending[i])
  BY <1>1, PendingRowsType
<1>3. n \in Nat
  BY LenProperties
<1>4. all = events \o rows
  BY <1>1 DEF RowsAhead
<1>5. /\ all \in Seq(SequencedEvents) /\ Len(all) = n + m
      /\ \A i \in 1..n + m : all[i] = IF i <= n THEN events[i] ELSE rows[i - n]
  <2>1. /\ events \o rows \in Seq(SequencedEvents)
        /\ Len(events \o rows) = Len(events) + Len(rows)
        /\ \A i \in 1..Len(events) + Len(rows) :
             (events \o rows)[i] = IF i <= Len(events) THEN events[i] ELSE rows[i - Len(events)]
    BY <1>2, ConcatProperties
  <2> QED BY <1>2, <1>4, <2>1
<1>6. \A i \in 1..n : all[i] = events[i]
  BY <1>2, <1>3, <1>5
<1>7. ASSUME NEW i \in 1..m PROVE all[n + i] = FillRow(next + (i - 1), pending[i])
  <2>1. n + i \in 1..n + m /\ ~(n + i <= n) /\ (n + i) - n = i
    BY <1>2, <1>3
  <2> QED BY <1>2, <1>5, <2>1
<1> QED BY <1>2, <1>3, <1>5, <1>6, <1>7 DEF Continues

LEMMA NothingAhead ==
  ASSUME NEW events \in Seq(SequencedEvents), NEW next \in Nat
  PROVE  RowsAhead(events, next, << >>) = events
<1>1. PICK all, none : all = RowsAhead(events, next, none) /\ none = << >>
  OBVIOUS
<1>2. none \in Seq(Fills) /\ Len(none) = 0
  BY <1>1, EmptySeq
<1>3. /\ all \in Seq(SequencedEvents) /\ Len(all) = Len(events) + 0 /\ Len(events) \in Nat
      /\ \A i \in 1..Len(events) : all[i] = events[i]
  <2>1. Continues(all, events, Len(events), next, none, 0)
    BY <1>1, <1>2, RowsAheadType
  <2> QED BY <2>1 DEF Continues
<1>4. Len(all) = Len(events) /\ \A i \in 1..Len(all) : all[i] = events[i]
  BY <1>2, <1>3
<1>5. all = events
  BY <1>3, <1>4, SeqEqual
<1> QED BY <1>1, <1>5

(* A fill made is a row more.                                              *)
LEMMA FillAhead ==
  ASSUME NEW events \in Seq(SequencedEvents), NEW next \in Nat, NEW pending \in Seq(Fills),
         NEW fill \in Fills, NEW row, row = FillRow(next + Len(pending), fill)
  PROVE  RowsAhead(events, next, Append(pending, fill)) = Append(RowsAhead(events, next, pending), row)
<1>1. PICK more, all, after : /\ more = Append(pending, fill)
                              /\ all = RowsAhead(events, next, pending)
                              /\ after = RowsAhead(events, next, more)
  OBVIOUS
<1>2. PICK n, m : n = Len(events) /\ m = Len(pending)
  OBVIOUS
<1>3. /\ more \in Seq(Fills) /\ Len(more) = m + 1 /\ more[m + 1] = fill
      /\ \A i \in 1..m : more[i] = pending[i]
  BY <1>1, <1>2, AppendProperties
<1>4. /\ all \in Seq(SequencedEvents) /\ Len(all) = n + m /\ n \in Nat /\ m \in Nat
      /\ \A i \in 1..n : all[i] = events[i]
      /\ \A i \in 1..m : all[n + i] = FillRow(next + (i - 1), pending[i])
  <2>1. Continues(all, events, n, next, pending, m)
    BY <1>1, <1>2, RowsAheadType
  <2> QED BY <2>1 DEF Continues
<1>5. /\ after \in Seq(SequencedEvents) /\ Len(after) = n + (m + 1)
      /\ \A i \in 1..n : after[i] = events[i]
      /\ \A i \in 1..m + 1 : after[n + i] = FillRow(next + (i - 1), more[i])
  <2>1. Continues(after, events, n, next, more, m + 1)
    BY <1>1, <1>2, <1>3, RowsAheadType
  <2> QED BY <2>1 DEF Continues
<1>6. row \in SequencedEvents
  BY <1>2, <1>4, FillRowType
<1>7. PICK grown : grown = Append(all, row)
  OBVIOUS
<1>8. /\ grown \in Seq(SequencedEvents) /\ Len(grown) = (n + m) + 1 /\ grown[(n + m) + 1] = row
      /\ \A i \in 1..n + m : grown[i] = all[i]
  BY <1>4, <1>6, <1>7, AppendProperties
<1>9. ASSUME NEW i \in 1..Len(after) PROVE after[i] = grown[i]
  <2>1. CASE i <= n
    <3>1. i \in 1..n /\ i \in 1..n + m
      BY <1>4, <1>5, <2>1
    <3> QED BY <1>4, <1>5, <1>8, <3>1
  <2>2. CASE ~(i <= n) /\ i <= n + m
    <3>1. PICK k : k = i - n
      OBVIOUS
    <3>2. k \in 1..m /\ k \in 1..m + 1 /\ i = n + k /\ i \in 1..n + m
      BY <1>4, <1>5, <2>2, <3>1
    <3> QED BY <1>3, <1>4, <1>5, <1>8, <3>2
  <2>3. CASE ~(i <= n + m)
    <3>1. i = (n + m) + 1 /\ i = n + (m + 1) /\ m + 1 \in 1..m + 1 /\ (m + 1) - 1 = m
      BY <1>4, <1>5, <2>3
    <3>2. after[n + (m + 1)] = FillRow(next + ((m + 1) - 1), more[m + 1])
      BY <1>5, <3>1
    <3>3. after[n + (m + 1)] = row
      BY <1>2, <1>3, <3>1, <3>2
    <3> QED BY <1>8, <3>1, <3>3
  <2> QED BY <2>1, <2>2, <2>3
<1>10. Len(after) = Len(grown)
  BY <1>4, <1>5, <1>8
<1>11. after = grown
  BY <1>5, <1>8, <1>9, <1>10, SeqEqual
<1> QED BY <1>1, <1>7, <1>11

(* A fill sequenced was ahead already.                                     *)
LEMMA FillLogged ==
  ASSUME NEW events \in Seq(SequencedEvents), NEW next \in Nat, NEW pending \in Seq(Fills),
         pending # << >>, NEW row, row = FillRow(next, Head(pending))
  PROVE  RowsAhead(Append(events, row), next + 1, Tail(pending)) = RowsAhead(events, next, pending)
<1>1. PICK less, all, after, more : /\ less = Tail(pending) /\ more = Append(events, row)
                                    /\ all = RowsAhead(events, next, pending)
                                    /\ after = RowsAhead(more, next + 1, less)
  OBVIOUS
<1>2. PICK n, m : n = Len(events) /\ m = Len(pending)
  OBVIOUS
<1>3. /\ all \in Seq(SequencedEvents) /\ Len(all) = n + m /\ n \in Nat /\ m \in Nat
      /\ \A i \in 1..n : all[i] = events[i]
      /\ \A i \in 1..m : all[n + i] = FillRow(next + (i - 1), pending[i])
  <2>1. Continues(all, events, n, next, pending, m)
    BY <1>1, <1>2, RowsAheadType
  <2> QED BY <2>1 DEF Continues
<1>4. /\ Head(pending) \in Fills /\ less \in Seq(Fills) /\ Len(less) = m - 1
      /\ \A i \in 1..m - 1 : less[i] = pending[i + 1]
  BY <1>1, <1>2, HeadTailProperties
<1>5. m # 0 /\ Head(pending) = pending[1]
  BY <1>2, EmptySeq
<1>6. row \in SequencedEvents
  BY <1>4, FillRowType
<1>7. /\ more \in Seq(SequencedEvents) /\ Len(more) = n + 1 /\ more[n + 1] = row
      /\ \A i \in 1..n : more[i] = events[i]
  BY <1>1, <1>2, <1>6, AppendProperties
<1>8. next + 1 \in Nat
  OBVIOUS
<1>9. /\ after \in Seq(SequencedEvents) /\ Len(after) = (n + 1) + (m - 1)
      /\ \A i \in 1..n + 1 : after[i] = more[i]
      /\ \A i \in 1..m - 1 : after[(n + 1) + i] = FillRow((next + 1) + (i - 1), less[i])
  <2>1. Continues(after, more, n + 1, next + 1, less, m - 1)
    BY <1>1, <1>4, <1>7, <1>8, RowsAheadType
  <2> QED BY <2>1 DEF Continues
<1>10. Len(after) = Len(all) /\ Len(after) = n + m
  BY <1>3, <1>9
<1>11. ASSUME NEW i \in 1..Len(after) PROVE after[i] = all[i]
  <2>1. CASE i <= n
    <3>1. i \in 1..n /\ i \in 1..n + 1
      BY <1>3, <1>10, <2>1
    <3> QED BY <1>3, <1>7, <1>9, <3>1
  <2>2. CASE i = n + 1
    <3>1. 1 \in 1..m /\ n + 1 \in 1..n + 1 /\ next + (1 - 1) = next
      BY <1>3, <1>5
    <3>2. all[n + 1] = row
      BY <1>3, <1>5, <3>1
    <3> QED BY <1>7, <1>9, <2>2, <3>1, <3>2
  <2>3. CASE ~(i <= n + 1)
    <3>1. PICK k : k = i - (n + 1)
      OBVIOUS
    <3>2. /\ k \in 1..m - 1 /\ i = (n + 1) + k /\ k + 1 \in 1..m /\ i = n + (k + 1)
          /\ (next + 1) + (k - 1) = next + ((k + 1) - 1)
      <4>1. i \in Nat /\ i <= n + m /\ i > n + 1
        BY <1>3, <1>10, <2>3
      <4>2. n \in Nat /\ m \in Nat
        BY <1>3
      <4> QED BY ONLY <3>1, <4>1, <4>2, next \in Nat
    <3>3. after[(n + 1) + k] = FillRow(next + ((k + 1) - 1), pending[k + 1])
      BY <1>4, <1>9, <3>2
    <3> QED BY <1>3, <3>2, <3>3
  <2> QED BY <1>3, <1>10, <2>1, <2>2, <2>3
<1>12. after = all
  BY <1>3, <1>9, <1>10, <1>11, SeqEqual
<1> QED BY <1>1, <1>12

-----------------------------------------------------------------------------
(* What a replay of the log and of those fills would know *)

Ahead == RowsAhead(log, next_seq_id, fills)

AheadOrders == replayed(Ahead).orders

PendingFits ==
  /\ \A i \in DOMAIN fills : fills[i].taker_order_id # fills[i].maker_order_id
  /\ ~InProcessOrder => fills = << >>

AheadSound ==
  (\A i \in DOMAIN log : RowFits(log[i])) /\ PendingFits /\ replayed(Ahead).error = "none"

LEMMA FillRowFits ==
  ASSUME NEW seq_id \in Nat \ {0}, NEW fill \in Fills, fill.taker_order_id # fill.maker_order_id
  PROVE  RowFits(FillRow(seq_id, fill))
<1>1. PICK row : row = FillRow(seq_id, fill)
  OBVIOUS
<1>2. /\ row \in SequencedEvents /\ row.seq_id = seq_id
      /\ row.event.type = "fill" /\ row.event.fill = fill
  BY <1>1, FillRowType
<1>3. RowSound(row) /\ TwoSides(row.event)
  BY <1>2 DEF RowSound, TwoSides
<1> QED BY <1>1, <1>2, <1>3 DEF RowFits

RowsFollow(all, next) ==
  /\ all \in Seq(SequencedEvents) /\ IsSeq(all) /\ Len(all) \in Nat /\ DOMAIN all = 1..Len(all)
  /\ \A i \in DOMAIN all : RowFits(all[i])
  /\ next \in Nat \ {0}
  /\ ReplaySound(replayed(all), all, Len(all)) /\ ReplayFits(replayed(all), all, Len(all))
  /\ replayed(all).error = "none" => follows(replayed(all), next)

(* The rows ahead are of the right types, and the next id is theirs.       *)
LEMMA AheadRows ==
  ASSUME EngineInv, LogSound, AheadSound
  PROVE  RowsFollow(Ahead, next_seq_id + Len(fills))
<1>1. PICK all, n, m, next : /\ all = Ahead /\ n = Len(log) /\ m = Len(fills)
                             /\ next = next_seq_id
  OBVIOUS
<1>2. log \in Seq(SequencedEvents) /\ next \in Nat /\ fills \in Seq(Fills)
  BY <1>1 DEF EngineInv, TypeOK, SequencerTypes, CallTypes
<1>3. Continues(all, log, n, next, fills, m)
  BY <1>1, <1>2, RowsAheadType DEF Ahead
<1>4. /\ all \in Seq(SequencedEvents) /\ Len(all) = n + m /\ n \in Nat /\ m \in Nat
      /\ \A i \in 1..n : all[i] = log[i]
      /\ \A i \in 1..m : all[n + i] = FillRow(next + (i - 1), fills[i])
  BY <1>3 DEF Continues
<1>5. IsSeq(all) /\ Len(all) \in Nat /\ DOMAIN all = 1..Len(all)
  BY <1>4, SeqIsSeq
<1>6. DOMAIN log = 1..n /\ DOMAIN fills = 1..m
  BY <1>1, <1>2, LenProperties
<1>7. /\ n = 0 => next = 1
      /\ n # 0 => next = log[n].seq_id + 1 /\ log[n].seq_id \in Nat \ {0}
  <2>1. next = IF log = << >> THEN 1 ELSE log[n].seq_id + 1
    BY <1>1 DEF LogSound
  <2>2. log = << >> <=> n = 0
    BY <1>1, <1>2, EmptySeq
  <2>3. n # 0 => log[n].seq_id \in Nat \ {0}
    BY <1>4, <1>6 DEF LogSound, RowSound
  <2> QED BY <2>1, <2>2, <2>3
<1>8. next \in Nat \ {0}
  BY <1>2, <1>4, <1>7
<1>9. ASSUME NEW i \in 1..m PROVE RowFits(all[n + i]) /\ all[n + i].seq_id = next + (i - 1)
  <2>1. fills[i] \in Fills /\ fills[i].taker_order_id # fills[i].maker_order_id
    BY <1>1, <1>2, <1>6, ElementOfSeq DEF AheadSound, PendingFits
  <2>2. PICK seq_id : seq_id = next + (i - 1)
    OBVIOUS
  <2>3. seq_id \in Nat \ {0}
    BY <1>4, <1>8, <2>2
  <2>4. all[n + i] = FillRow(seq_id, fills[i])
    BY <1>4, <2>2
  <2> QED BY <2>1, <2>2, <2>3, <2>4, FillRowFits, FillRowType
<1>10. ASSUME NEW i \in DOMAIN all PROVE RowFits(all[i])
  <2>1. CASE i <= n
    BY <1>4, <1>5, <1>6, <2>1 DEF AheadSound
  <2>2. CASE ~(i <= n)
    <3>1. PICK k : k = i - n
      OBVIOUS
    <3>2. k \in 1..m /\ i = n + k
      BY <1>4, <1>5, <2>2, <3>1
    <3> QED BY <1>9, <3>2
  <2> QED BY <2>1, <2>2
<1>11. \A i \in DOMAIN all : RowSound(all[i])
  BY <1>10 DEF RowFits
<1>12. PICK rs : rs = replayed(all)
  OBVIOUS
<1>13. ReplaySound(rs, all, Len(all))
  BY <1>5, <1>11, <1>12, ReplayIsSound
<1>14. ReplayFits(rs, all, Len(all))
  BY <1>5, <1>10, <1>12, ReplayTyped
<1>15. ASSUME rs.error = "none" PROVE follows(rs, next + m)
  <2>1. rs.last_seq_id = IF n + m = 0 THEN 0 ELSE all[n + m].seq_id
    BY <1>4, <1>13, <1>15 DEF ReplaySound
  <2>2. CASE m = 0 /\ n = 0
    BY <2>1, <2>2 DEF follows
  <2>3. CASE m = 0 /\ n # 0
    <3>1. n \in 1..n /\ n + m = n /\ next + m = next
      BY <1>2, <1>4, <2>3
    <3>2. rs.last_seq_id = log[n].seq_id
      BY <1>4, <2>1, <2>3, <3>1
    <3> QED BY <1>7, <2>3, <3>1, <3>2 DEF follows
  <2>4. CASE m # 0
    <3>1. m \in 1..m /\ n + m # 0
      BY <1>4, <2>4
    <3>2. rs.last_seq_id = next + (m - 1)
      BY <1>9, <2>1, <3>1
    <3>3. next + m = (next + (m - 1)) + 1
      BY <1>2, <1>4
    <3> QED BY <3>2, <3>3 DEF follows
  <2> QED BY <2>2, <2>3, <2>4
<1>16. next + m \in Nat \ {0}
  BY <1>4, <1>8
<1> QED BY <1>1, <1>4, <1>5, <1>10, <1>12, <1>13, <1>14, <1>15, <1>16 DEF RowsFollow

(* A row more, about orders that are known.                                *)
LEMMA AheadExtended ==
  ASSUME EngineInv, LogSound, AheadSound,
         NEW se, RowFits(se), se.seq_id = next_seq_id + Len(fills),
         Takes(DOMAIN AheadOrders, se.event), Ahead' = Append(Ahead, se)
  PROVE  replayed(Ahead').error = "none" /\ OrdersAfter(AheadOrders, se, AheadOrders')
<1>1. PICK all, rs, more, after : /\ all = Ahead /\ rs = replayed(all)
                                  /\ more = Append(all, se) /\ after = replayed(more)
  OBVIOUS
<1>2. PICK next : next = next_seq_id + Len(fills)
  OBVIOUS
<1>3. RowsFollow(all, next)
  BY <1>1, <1>2, AheadRows
<1>4. rs.error = "none" /\ AheadOrders = rs.orders
  BY <1>1 DEF AheadSound, AheadOrders
<1>5. after = Apply(rs, se)
  BY <1>1, <1>3, ReplayOfAppend DEF RowsFollow
<1>6. IsReplay(rs) /\ IsMap(rs.orders, OrderIds, Orders) /\ follows(rs, se.seq_id)
  BY <1>1, <1>2, <1>3, <1>4 DEF RowsFollow, ReplayFits
<1>7. rs.orders = [id \in DOMAIN rs.orders |-> rs.orders[id]]
  BY <1>6 DEF IsMap
<1>8. TwoSides(se.event) /\ Takes(DOMAIN rs.orders, se.event)
  BY <1>4 DEF RowFits
<1>9. after.error = "none"
  BY <1>4, <1>5, <1>6, <1>7, <1>8, AppliedFully
<1>10. OrdersAfter(rs.orders, se, after.orders)
  BY <1>5, <1>6, <1>7, <1>8, <1>9, AppliedFully
<1>11. Ahead' = more /\ AheadOrders' = after.orders
  <2>1. Ahead' = more
    BY <1>1
  <2> QED BY <1>1, <2>1 DEF AheadOrders
<1> QED BY <1>1, <1>4, <1>9, <1>10, <1>11

LogFits == \A i \in DOMAIN log : RowFits(log[i])

LEMMA LogFitsMore ==
  ASSUME EngineInv, LogFits, NEW event \in Events, append_event(event),
         NEW row, row = [seq_id |-> next_seq_id, event |-> event], RowFits(row)
  PROVE  LogFits'
<1>1. /\ log' \in Seq(SequencedEvents)
      /\ log'[Len(log) + 1] = row
      /\ DOMAIN log = 1..Len(log) /\ DOMAIN log' = 1..Len(log) + 1 /\ Len(log) \in Nat
      /\ \A i \in DOMAIN log : log'[i] = log[i]
  BY AppendEventType DEF EngineInv, TypeOK
<1>2. ASSUME NEW i \in DOMAIN log' PROVE RowFits(log'[i])
  <2>1. i \in DOMAIN log \/ i = Len(log) + 1
    BY <1>1
  <2> QED BY <1>1, <2>1 DEF LogFits
<1> QED BY <1>2 DEF LogFits

\* A step that puts one row behind the rows ahead.
RowAhead(row) ==
  RowFits(row) /\ Ahead' = Append(Ahead, row) /\ OrdersAfter(AheadOrders, row, AheadOrders')

(* An event that is appended between two fills, or when there is none.     *)
LEMMA EventAhead ==
  ASSUME EngineInv, EngineInv', LogSound, AheadSound, fills = << >>, fills' = << >>,
         NEW event, append_event(event),
         NEW row, row = [seq_id |-> next_seq_id, event |-> event], RowFits(row),
         Takes(DOMAIN AheadOrders, event)
  PROVE  AheadSound' /\ RowAhead(row) /\ OrdersAfter(AheadOrders, row, AheadOrders')
<1>1. /\ log \in Seq(SequencedEvents) /\ next_seq_id \in Nat
      /\ log' \in Seq(SequencedEvents) /\ next_seq_id' \in Nat
  BY DEF EngineInv, TypeOK, SequencerTypes
<1>2. Ahead = log
  BY <1>1, NothingAhead DEF Ahead
<1>3. Ahead' = log'
  <2>1. Ahead' = RowsAhead(log', next_seq_id', << >>)
    BY DEF Ahead
  <2> QED BY <1>1, <2>1, NothingAhead
<1>4. Ahead' = Append(Ahead, row)
  BY <1>2, <1>3 DEF append_event
<1>5. row.seq_id = next_seq_id /\ row.event = event /\ Len(fills) = 0
  BY EmptySeq
<1>6. row.seq_id = next_seq_id + Len(fills) /\ event \in Events
  BY <1>1, <1>5 DEF RowFits, SequencedEvents
<1>7. replayed(Ahead').error = "none" /\ OrdersAfter(AheadOrders, row, AheadOrders')
  BY <1>4, <1>5, <1>6, AheadExtended
<1>8. LogFits'
  <2>1. LogFits
    BY DEF AheadSound, LogFits
  <2> QED BY <1>6, <2>1, LogFitsMore
<1>9. PendingFits'
  <2>1. \A i \in DOMAIN fills' : FALSE
    BY EmptyIsSeq
  <2> QED BY <2>1 DEF PendingFits
<1>10. RowAhead(row)
  BY <1>4, <1>7 DEF RowAhead
<1> QED BY <1>7, <1>8, <1>9, <1>10 DEF AheadSound, LogFits

(* A step without an event or a fill.                                      *)
LEMMA NothingMoreAhead ==
  ASSUME AheadSound, UNCHANGED <<log, next_seq_id, fills>>,
         InProcessOrder' \/ fills = << >>
  PROVE  AheadSound' /\ AheadOrders' = AheadOrders
<1>1. Ahead' = Ahead
  BY DEF Ahead
<1>2. AheadOrders' = AheadOrders /\ replayed(Ahead)' = replayed(Ahead)
  BY <1>1 DEF AheadOrders
<1>3. PendingFits'
  BY DEF AheadSound, PendingFits
<1>4. (\A i \in DOMAIN log : RowFits(log[i]))'
  BY DEF AheadSound
<1> QED BY <1>2, <1>3, <1>4 DEF AheadSound

(* A fill of the matching loop.                                            *)
LEMMA FillMadeAhead ==
  ASSUME EngineInv, LogSound, AheadSound, UNCHANGED <<log, next_seq_id>>, InProcessOrder',
         NEW fill \in Fills, fills' = Append(fills, fill),
         fill.taker_order_id # fill.maker_order_id,
         {fill.taker_order_id, fill.maker_order_id} \subseteq DOMAIN AheadOrders
  PROVE  /\ AheadSound'
         /\ \E row : /\ row.event.type = "fill" /\ row.event.fill = fill /\ RowAhead(row)
<1>1. /\ log \in Seq(SequencedEvents) /\ next_seq_id \in Nat /\ fills \in Seq(Fills)
  BY DEF EngineInv, TypeOK, SequencerTypes, CallTypes
<1>2. PICK next, row : next = next_seq_id + Len(fills) /\ row = FillRow(next, fill)
  OBVIOUS
<1>3. next \in Nat \ {0}
  BY <1>2, AheadRows DEF RowsFollow
<1>4. /\ RowFits(row) /\ row.seq_id = next
      /\ row.event.type = "fill" /\ row.event.fill = fill
  BY <1>2, <1>3, FillRowFits, FillRowType
<1>5. Ahead' = Append(Ahead, row)
  <2>1. Ahead' = RowsAhead(log, next_seq_id, Append(fills, fill))
    BY DEF Ahead
  <2>2. RowsAhead(log, next_seq_id, Append(fills, fill)) = Append(RowsAhead(log, next_seq_id, fills), row)
    BY <1>1, <1>2, FillAhead
  <2> QED BY <2>1, <2>2 DEF Ahead
<1>6. Takes(DOMAIN AheadOrders, row.event)
  BY <1>4 DEF Takes
<1>7. replayed(Ahead').error = "none" /\ OrdersAfter(AheadOrders, row, AheadOrders')
  BY <1>2, <1>4, <1>5, <1>6, AheadExtended
<1>8. PendingFits'
  <2>1. /\ Len(fills) \in Nat /\ DOMAIN fills = 1..Len(fills)
        /\ Append(fills, fill) \in Seq(Fills)
        /\ Len(Append(fills, fill)) = Len(fills) + 1
        /\ Append(fills, fill)[Len(fills) + 1] = fill
        /\ \A i \in 1..Len(fills) : Append(fills, fill)[i] = fills[i]
    BY <1>1, AppendProperties, LenProperties
  <2>2. DOMAIN fills' = 1..Len(fills) + 1
    BY <2>1, LenProperties
  <2>3. ASSUME NEW i \in DOMAIN fills' PROVE fills'[i].taker_order_id # fills'[i].maker_order_id
    <3>1. i \in 1..Len(fills) \/ i = Len(fills) + 1
      BY <2>1, <2>2
    <3> QED BY <2>1, <3>1 DEF AheadSound, PendingFits
  <2> QED BY <2>3 DEF PendingFits
<1>9. (\A i \in DOMAIN log : RowFits(log[i]))'
  BY DEF AheadSound
<1>10. AheadSound'
  BY <1>7, <1>8, <1>9 DEF AheadSound
<1>11. RowAhead(row)
  BY <1>4, <1>5, <1>7 DEF RowAhead
<1> QED BY <1>4, <1>10, <1>11

(* A fill that is sequenced.                                               *)
LEMMA RecordFillAhead ==
  ASSUME EngineInv, EngineInv', LogSound, AheadSound, RecordFill
  PROVE  AheadSound' /\ Ahead' = Ahead /\ AheadOrders' = AheadOrders
<1>1. /\ log \in Seq(SequencedEvents) /\ next_seq_id \in Nat /\ fills \in Seq(Fills)
  BY DEF EngineInv, TypeOK, SequencerTypes, CallTypes
<1>2. PICK fill, event, row :
        /\ fill = Head(fills) /\ event = [type |-> "fill", fill |-> fill]
        /\ row = [seq_id |-> next_seq_id, event |-> event]
  OBVIOUS
<1>3. fills # << >> /\ append_event(event) /\ fills' = Tail(fills) /\ stage = "recording" /\ stage' = stage
  BY <1>2 DEF RecordFill
<1>4. row = FillRow(next_seq_id, fill)
  BY <1>2 DEF FillRow
<1>5. log' = Append(log, row) /\ next_seq_id' = next_seq_id + 1
  BY <1>2, <1>3 DEF append_event
<1>6. RowsAhead(Append(log, row), next_seq_id + 1, Tail(fills)) = RowsAhead(log, next_seq_id, fills)
  BY <1>1, <1>2, <1>3, <1>4, FillLogged
<1>7. Ahead' = Ahead
  BY <1>3, <1>5, <1>6 DEF Ahead
<1>8. AheadOrders' = AheadOrders /\ replayed(Ahead)' = replayed(Ahead)
  BY <1>7 DEF AheadOrders
<1>9. /\ fill \in Fills /\ fill = fills[1] /\ Len(fills) \in Nat /\ Len(fills) # 0
      /\ DOMAIN fills = 1..Len(fills)
      /\ Len(Tail(fills)) = Len(fills) - 1 /\ Tail(fills) \in Seq(Fills)
      /\ \A i \in 1..Len(Tail(fills)) : Tail(fills)[i] = fills[i + 1]
  BY <1>1, <1>2, <1>3, HeadTailProperties, LenProperties, EmptySeq
<1>10. fill.taker_order_id # fill.maker_order_id
  BY <1>9 DEF AheadSound, PendingFits
<1>11. next_seq_id \in Nat \ {0}
  BY <1>1 DEF LogSound, RowSound
<1>12. RowFits(row)
  BY <1>4, <1>9, <1>10, <1>11, FillRowFits
<1>13. event \in Events
  BY <1>2, <1>9 DEF Events
<1>14. LogFits'
  <2>1. LogFits
    BY DEF AheadSound, LogFits
  <2> QED BY <1>2, <1>3, <1>12, <1>13, <2>1, LogFitsMore
<1>15. PendingFits'
  <2>1. DOMAIN fills' = 1..Len(fills) - 1
    BY <1>3, <1>9, LenProperties
  <2>2. ASSUME NEW i \in DOMAIN fills' PROVE fills'[i].taker_order_id # fills'[i].maker_order_id
    <3>1. i + 1 \in DOMAIN fills /\ fills'[i] = fills[i + 1]
      BY <1>3, <1>9, <2>1
    <3> QED BY <3>1 DEF AheadSound, PendingFits
  <2>3. InProcessOrder'
    BY <1>3 DEF InProcessOrder
  <2> QED BY <2>2, <2>3 DEF PendingFits
<1> QED BY <1>7, <1>8, <1>14, <1>15 DEF AheadSound, LogFits

-----------------------------------------------------------------------------
(* The live orders and the replayed ones *)

\* The replay knows the order as its book does; it may take it for closed
\* (the admin has cancelled it), but not for open when it is closed.
Mirrors(live, rep) ==
  /\ rep.signed = live.signed /\ rep.filled_size_lots = live.filled_size_lots
  /\ rep.created_sequence = live.created_sequence
  /\ is_closed(live) => is_closed(rep)

BooksMirrored ==
  \A m, id : OnBook(m, id) => id \in DOMAIN AheadOrders /\ Mirrors(OrderOn(m, id), AheadOrders[id])

TakerAs(order, rep) ==
  /\ rep.signed = order.signed /\ rep.filled_size_lots = order.filled_size_lots
  /\ rep.created_sequence = order.created_sequence
  /\ is_closed(order) => order.status = "cancelled_stp" \/ is_closed(rep)

TakerMirrored ==
  InProcessOrder => /\ taker.order_id \in DOMAIN AheadOrders
                    /\ TakerAs(taker, AheadOrders[taker.order_id])

\* An order that the replay takes for open is on its book, is the taker, or
\* found no book to go on.
Placed(id, rep) ==
  ~is_closed(rep) => \/ id \in orphans
                     \/ InProcessOrder /\ id = taker.order_id
                     \/ OnBook(rep.signed.market_id, id)

OrdersPlaced == \A id \in DOMAIN AheadOrders : Placed(id, AheadOrders[id])

OrderBounded(order) ==
  /\ order.filled_size_lots <= order.signed.size_lots
  /\ ~is_closed(order) => order.filled_size_lots < order.signed.size_lots
  /\ order.signed.market_id \in Markets

OrdersBounded(orders) == \A id \in DOMAIN orders : OrderBounded(orders[id]) /\ id <= uuids

MirrorInv ==
  AheadSound /\ BooksMirrored /\ TakerMirrored /\ OrdersPlaced /\ OrdersBounded(AheadOrders)

\* No order of the replay is filled, and none is opened.
RepKept(rep, after) ==
  /\ after.signed = rep.signed /\ after.filled_size_lots = rep.filled_size_lots
  /\ after.created_sequence = rep.created_sequence
  /\ is_closed(rep) => is_closed(after)

RepsKept(orders, after) ==
  DOMAIN after = DOMAIN orders /\ \A id \in DOMAIN orders : RepKept(orders[id], after[id])

LEMMA RepEnded ==
  ASSUME NEW rep \in Orders, NEW reason, NEW seq_id, NEW after,
         after = replay_ended(rep, reason, seq_id)
  PROVE  RepKept(rep, after) /\ is_closed(after)
<1>1. PICK status : status = CancelStatus(reason)
  OBVIOUS
<1>2. status \in {"cancelled", "cancelled_stp"}
  BY <1>1 DEF CancelStatus
<1>3. after = [[rep EXCEPT !.status = status] EXCEPT !.last_update_sequence = seq_id]
  BY <1>1 DEF replay_ended
<1>4. /\ after.status = status /\ after.signed = rep.signed
      /\ after.filled_size_lots = rep.filled_size_lots
      /\ after.created_sequence = rep.created_sequence
  BY <1>3 DEF Orders
<1> QED BY <1>2, <1>4 DEF RepKept, is_closed

LEMMA EventKeepsReps ==
  ASSUME NEW orders, IsMap(orders, OrderIds, Orders), NEW row,
         row.event.type \notin {"fill", "order_accepted"},
         NEW after, OrdersAfter(orders, row, after)
  PROVE  /\ RepsKept(orders, after)
         /\ row.event.type = "order_cancelled" /\ row.event.order_id \in DOMAIN orders
              => is_closed(after[row.event.order_id])
<1>1. DOMAIN after = DOMAIN orders /\ \A id \in DOMAIN orders : after[id] = AfterEvent(orders[id], id, row)
  BY DEF OrdersAfter
<1>2. ASSUME NEW id \in DOMAIN orders
      PROVE  /\ RepKept(orders[id], after[id])
             /\ row.event.type = "order_cancelled" /\ row.event.order_id = id => is_closed(after[id])
  <2>1. PICK rep, new : rep = orders[id] /\ new = after[id]
    OBVIOUS
  <2>2. rep \in Orders
    BY <2>1 DEF IsMap
  <2>3. CASE row.event.type = "order_cancelled" /\ row.event.order_id = id
    <3>1. new = replay_ended(rep, row.event.reason, row.seq_id)
      BY <1>1, <2>1, <2>3 DEF AfterEvent
    <3> QED BY <2>1, <2>2, <3>1, RepEnded
  <2>4. CASE ~(row.event.type = "order_cancelled" /\ row.event.order_id = id)
    <3>1. new = rep
      BY <1>1, <2>1, <2>4 DEF AfterEvent
    <3> QED BY <2>1, <2>4, <3>1 DEF RepKept
  <2> QED BY <2>3, <2>4
<1> QED BY <1>1, <1>2 DEF RepsKept

LEMMA SameReps ==
  ASSUME NEW orders
  PROVE  RepsKept(orders, orders)
BY DEF RepsKept, RepKept

\* Its fields, but for the status.
SameButClosed(order, before) ==
  /\ order.signed = before.signed /\ order.filled_size_lots = before.filled_size_lots
  /\ order.created_sequence = before.created_sequence

(* A step that fills nothing and accepts nothing.                          *)
LEMMA MirrorsStay ==
  ASSUME MirrorInv, AheadSound', RepsKept(AheadOrders, AheadOrders'), UNCHANGED <<uuids, orphans>>,
         \A m, id : OnBook(m, id) => OnBook(m, id)',
         \A m, id : OnBook(m, id)' =>
           \/ /\ OnBook(m, id) /\ SameButClosed(OrderOn(m, id)', OrderOn(m, id))
              /\ is_closed(OrderOn(m, id)') =>
                   is_closed(OrderOn(m, id)) \/ is_closed(AheadOrders'[id])
           \/ /\ InProcessOrder /\ id = taker.order_id
              /\ OrderOn(m, id)' = taker /\ ~is_closed(taker),
         InProcessOrder' =>
           /\ InProcessOrder /\ taker'.order_id = taker.order_id /\ SameButClosed(taker', taker)
           /\ is_closed(taker') => taker'.status = "cancelled_stp" \/ taker' = taker,
         \A m, id : InProcessOrder /\ ~InProcessOrder' /\ m = taker.signed.market_id
                     /\ id = taker.order_id => is_closed(AheadOrders'[id]) \/ OnBook(m, id)'
  PROVE  MirrorInv'
<1>1. PICK orders, after : orders = AheadOrders /\ after = AheadOrders'
  OBVIOUS
<1>2. DOMAIN after = DOMAIN orders /\ \A id \in DOMAIN orders : RepKept(orders[id], after[id])
  BY <1>1 DEF RepsKept
<1>3. BooksMirrored'
  <2>1. ASSUME NEW m, NEW id, OnBook(m, id)'
        PROVE  id \in DOMAIN after /\ Mirrors(OrderOn(m, id)', after[id])
    <3>1. CASE /\ OnBook(m, id) /\ SameButClosed(OrderOn(m, id)', OrderOn(m, id))
               /\ is_closed(OrderOn(m, id)') => is_closed(OrderOn(m, id)) \/ is_closed(after[id])
      <4>1. id \in DOMAIN orders /\ Mirrors(OrderOn(m, id), orders[id])
        BY <1>1, <3>1 DEF MirrorInv, BooksMirrored
      <4> QED BY <1>2, <3>1, <4>1 DEF Mirrors, RepKept, SameButClosed
    <3>2. CASE /\ InProcessOrder /\ id = taker.order_id
               /\ OrderOn(m, id)' = taker /\ ~is_closed(taker)
      <4>1. id \in DOMAIN orders /\ TakerAs(taker, orders[id])
        BY <1>1, <3>2 DEF MirrorInv, TakerMirrored
      <4> QED BY <1>2, <3>2, <4>1 DEF Mirrors, RepKept, TakerAs
    <3> QED BY <1>1, <2>1, <3>1, <3>2
  <2> QED BY <1>1, <2>1 DEF BooksMirrored
<1>4. TakerMirrored'
  <2>1. ASSUME InProcessOrder'
        PROVE  taker'.order_id \in DOMAIN after /\ TakerAs(taker', after[taker'.order_id])
    <3>1. taker.order_id \in DOMAIN orders /\ TakerAs(taker, orders[taker.order_id])
      BY <1>1, <2>1 DEF MirrorInv, TakerMirrored
    <3> QED BY <1>2, <2>1, <3>1 DEF TakerAs, RepKept, SameButClosed
  <2> QED BY <1>1, <2>1 DEF TakerMirrored
<1>5. OrdersPlaced'
  <2>1. ASSUME NEW id \in DOMAIN after, ~is_closed(after[id])
        PROVE  \/ id \in orphans'
               \/ InProcessOrder' /\ id = taker'.order_id
               \/ OnBook(after[id].signed.market_id, id)'
    <3>1. id \in DOMAIN orders /\ RepKept(orders[id], after[id])
      BY <1>2, <2>1
    <3>2. ~is_closed(orders[id]) /\ orders[id].signed = after[id].signed
      BY <2>1, <3>1 DEF RepKept
    <3>3. \/ id \in orphans
          \/ InProcessOrder /\ id = taker.order_id
          \/ OnBook(orders[id].signed.market_id, id)
      BY <1>1, <3>1, <3>2 DEF MirrorInv, OrdersPlaced, Placed
    <3>4. CASE InProcessOrder /\ id = taker.order_id /\ ~InProcessOrder'
      <4>1. TakerAs(taker, orders[id])
        BY <1>1, <3>4 DEF MirrorInv, TakerMirrored
      <4>2. taker.signed = after[id].signed
        BY <3>2, <4>1 DEF TakerAs
      <4>3. PICK m : m = taker.signed.market_id
        OBVIOUS
      <4>4. is_closed(AheadOrders'[id]) \/ OnBook(m, id)'
        BY <3>4, <4>3
      <4>5. m = after[id].signed.market_id
        BY <4>2, <4>3
      <4> QED BY <1>1, <2>1, <4>4, <4>5
    <3> QED BY <3>2, <3>3, <3>4
  <2> QED BY <1>1, <2>1 DEF OrdersPlaced, Placed
<1>6. OrdersBounded(AheadOrders)'
  <2>1. ASSUME NEW id \in DOMAIN after PROVE OrderBounded(after[id]) /\ id <= uuids'
    <3>1. id \in DOMAIN orders /\ OrderBounded(orders[id]) /\ id <= uuids
      BY <1>1, <1>2, <2>1 DEF MirrorInv, OrdersBounded
    <3> QED BY <1>2, <3>1 DEF RepKept, OrderBounded
  <2> QED BY <1>1, <2>1 DEF OrdersBounded
<1> QED BY <1>3, <1>4, <1>5, <1>6 DEF MirrorInv

LEMMA AheadTypes ==
  ASSUME EngineInv, LogSound, AheadSound
  PROVE  IsMap(AheadOrders, OrderIds, Orders)
<1>1. PICK all, rs : all = Ahead /\ rs = replayed(all)
  OBVIOUS
<1>2. rs.error = "none" /\ AheadOrders = rs.orders
  BY <1>1 DEF AheadSound, AheadOrders
<1>3. ReplayFits(rs, all, Len(all))
  BY <1>1, AheadRows DEF RowsFollow
<1> QED BY <1>2, <1>3 DEF ReplayFits

(* An event that fills nothing and accepts nothing.                        *)
LEMMA OtherEventAhead ==
  ASSUME EngineInv, EngineInv', LogSound, AheadSound, fills = << >>, fills' = << >>,
         NEW event \in Events, event.type \notin {"fill", "order_accepted"}, append_event(event),
         event.type = "order_cancelled" => event.order_id \in DOMAIN AheadOrders
  PROVE  /\ AheadSound' /\ RepsKept(AheadOrders, AheadOrders')
         /\ event.type = "order_cancelled" => is_closed(AheadOrders'[event.order_id])
         /\ \E row : row.event = event /\ RowAhead(row)
<1>1. PICK row : row = [seq_id |-> next_seq_id, event |-> event]
  OBVIOUS
<1>2. row.event = event /\ row \in SequencedEvents
  BY <1>1 DEF SequencedEvents, EngineInv, TypeOK, SequencerTypes
<1>3. RowSound(row)
  BY <1>1, NextRowSound
<1>4. RowFits(row)
  BY <1>2, <1>3 DEF RowFits, TwoSides
<1>5. Takes(DOMAIN AheadOrders, event)
  BY DEF Takes
<1>6. AheadSound' /\ RowAhead(row) /\ OrdersAfter(AheadOrders, row, AheadOrders')
  BY <1>1, <1>4, <1>5, EventAhead
<1>7. IsMap(AheadOrders, OrderIds, Orders)
  BY AheadTypes
<1> QED BY <1>2, <1>6, <1>7, EventKeepsReps

LEMMA BooksAsBefore ==
  ASSUME MirrorInv, AheadSound', RepsKept(AheadOrders, AheadOrders'),
         UNCHANGED <<uuids, orphans, books, taker>>, InProcessOrder' <=> InProcessOrder
  PROVE  MirrorInv'
<1>1. \A m, id : OnBook(m, id)' = OnBook(m, id) /\ OrderOn(m, id)' = OrderOn(m, id)
  BY DEF OnBook, OrderOn
<1>2. \A order : SameButClosed(order, order)
  BY DEF SameButClosed
<1> QED BY <1>1, <1>2, MirrorsStay

LEMMA QuietMirrors ==
  ASSUME MirrorInv, UNCHANGED <<log, next_seq_id, fills, books, taker, uuids, orphans>>,
         InProcessOrder' <=> InProcessOrder
  PROVE  MirrorInv'
<1>1. AheadSound
  BY DEF MirrorInv
<1>2. InProcessOrder' \/ fills = << >>
  BY <1>1 DEF AheadSound, PendingFits
<1>3. AheadSound' /\ AheadOrders' = AheadOrders
  BY <1>1, <1>2, NothingMoreAhead
<1>4. RepsKept(AheadOrders, AheadOrders')
  BY <1>3, SameReps
<1> QED BY <1>3, <1>4, BooksAsBefore

LEMMA RecordFillMirrors ==
  ASSUME EngineInv, EngineInv', LogSound, MirrorInv, RecordFill, UNCHANGED orphans
  PROVE  MirrorInv'
<1>1. AheadSound' /\ AheadOrders' = AheadOrders
  BY RecordFillAhead DEF MirrorInv
<1>2. RepsKept(AheadOrders, AheadOrders')
  BY <1>1, SameReps
<1>3. UNCHANGED <<uuids, books, taker, stage>>
  BY DEF RecordFill, engine_vars
<1>4. InProcessOrder' <=> InProcessOrder
  BY <1>3 DEF InProcessOrder
<1> QED BY <1>1, <1>2, <1>3, <1>4, BooksAsBefore

LEMMA SetStatusMirrors ==
  ASSUME EngineInv, EngineInv', LogSound, MirrorInv, NEW market_id \in Markets, NEW from, NEW to,
         NEW type \in {"market_paused", "market_resumed"}, SetStatus(market_id, from, to, type),
         UNCHANGED orphans
  PROVE  MirrorInv'
<1>1. PICK event : event = [type |-> type, market_id |-> market_id]
  OBVIOUS
<1>2. event \in Events /\ event.type \notin {"fill", "order_accepted", "order_cancelled"}
  BY <1>1 DEF Events
<1>3. /\ stage = "idle" /\ stage' = stage /\ append_event(event) /\ fills' = fills
      /\ taker' = taker /\ uuids' = uuids
  BY <1>1 DEF SetStatus, matching_vars
<1>4. ~InProcessOrder /\ ~InProcessOrder'
  BY <1>3 DEF InProcessOrder
<1>5. fills = << >> /\ fills' = << >>
  BY <1>3, <1>4 DEF MirrorInv, AheadSound, PendingFits
<1>6. AheadSound' /\ RepsKept(AheadOrders, AheadOrders')
  BY <1>2, <1>3, <1>5, OtherEventAhead DEF MirrorInv
<1>7. \A m, id : /\ OnBook(m, id)' <=> OnBook(m, id)
                 /\ OnBook(m, id) => OrderOn(m, id)' = OrderOn(m, id)
  BY SetStatusOrders
<1>8. \A order : SameButClosed(order, order)
  BY DEF SameButClosed
<1> QED BY <1>3, <1>4, <1>6, <1>7, <1>8, MirrorsStay

LEMMA ProcessCancelMirrors ==
  ASSUME EngineInv, EngineInv', QueueInv, LogSound, MirrorInv,
         NEW gone, NEW trader_id, ProcessCancel(gone, trader_id), UNCHANGED orphans
  PROVE  MirrorInv'
<1>1. PICK order, event : /\ order = find_order(gone)
                          /\ event = OrderCancelled(gone, order.order_hash, "trader_request")
  OBVIOUS
<1>2. /\ stage = "idle" /\ stage' = stage /\ append_event(event) /\ fills' = fills
      /\ taker' = taker /\ uuids' = uuids /\ order # NoOrder
  BY <1>1 DEF ProcessCancel, matching_vars
<1>3. ~InProcessOrder /\ ~InProcessOrder'
  BY <1>2 DEF InProcessOrder
<1>4. fills = << >> /\ fills' = << >>
  BY <1>2, <1>3 DEF MirrorInv, AheadSound, PendingFits
<1>5. PICK m0 : OnBook(m0, gone) /\ order = OrderOn(m0, gone)
  BY <1>1, <1>2 DEF find_order, OnBook, OrderOn
<1>6. gone \in DOMAIN AheadOrders
  BY <1>5 DEF MirrorInv, BooksMirrored
<1>7. event \in Events /\ event.type = "order_cancelled" /\ event.order_id = gone
  <2>1. order \in Orders
    BY <1>5, OnBookOrder
  <2>2. order.order_hash \in Hashes
    BY <2>1 DEF Orders
  <2>3. gone \in OrderIds
    BY <1>6, AheadTypes DEF MirrorInv, IsMap
  <2> QED BY <1>1, <2>2, <2>3 DEF OrderCancelled, Events, CancelReasons
<1>8. AheadSound' /\ RepsKept(AheadOrders, AheadOrders') /\ is_closed(AheadOrders'[gone])
  BY <1>2, <1>4, <1>6, <1>7, OtherEventAhead DEF MirrorInv
<1>9. ASSUME NEW m, NEW id
      PROVE  /\ OnBook(m, id)' <=> OnBook(m, id)
             /\ OnBook(m, id) => /\ SameButClosed(OrderOn(m, id)', OrderOn(m, id))
                                 /\ is_closed(OrderOn(m, id)') =>
                                      is_closed(OrderOn(m, id)) \/ is_closed(AheadOrders'[id])
  <2>1. /\ OnBook(m, id)' <=> OnBook(m, id)
        /\ OnBook(m, id) =>
             \/ id # gone /\ OrderOn(m, id)' = OrderOn(m, id)
             \/ id = gone /\ OrderOn(m, id)' = [OrderOn(m, id) EXCEPT !.status = "cancelled"]
    BY ProcessCancelOrders
  <2>2. ASSUME OnBook(m, id), NEW new, new = [OrderOn(m, id) EXCEPT !.status = "cancelled"]
        PROVE  SameButClosed(new, OrderOn(m, id))
    <3>1. OrderOn(m, id) \in Orders
      BY <2>2, OnBookOrder
    <3> QED BY <2>2, <3>1 DEF Orders, SameButClosed
  <2>3. SameButClosed(OrderOn(m, id), OrderOn(m, id))
    BY DEF SameButClosed
  <2> QED BY <1>8, <2>1, <2>2, <2>3
<1> QED BY <1>2, <1>3, <1>8, <1>9, MirrorsStay

(* The orders of the log are known.                                        *)
LEMMA AcceptedAhead ==
  ASSUME EngineInv, LogSound, AheadSound, NEW i \in Accepted
  PROVE  OrderAt(i).order_id \in DOMAIN AheadOrders
<1>1. PICK all, n, m, rs : all = Ahead /\ n = Len(log) /\ m = Len(fills) /\ rs = replayed(all)
  OBVIOUS
<1>2. log \in Seq(SequencedEvents) /\ next_seq_id \in Nat /\ fills \in Seq(Fills)
  BY DEF EngineInv, TypeOK, SequencerTypes, CallTypes
<1>3. Continues(all, log, n, next_seq_id, fills, m)
  BY <1>1, <1>2, RowsAheadType DEF Ahead
<1>4. Len(all) = n + m /\ n \in Nat /\ m \in Nat /\ \A k \in 1..n : all[k] = log[k]
  BY <1>3 DEF Continues
<1>5. i \in 1..n /\ log[i].event.type = "order_accepted"
  BY <1>1, <1>2, LenProperties DEF Accepted
<1>6. i \in 1..Len(all) /\ all[i] = log[i]
  BY <1>4, <1>5
<1>7. ReplaySound(rs, all, Len(all)) /\ rs.error = "none" /\ AheadOrders = rs.orders
  BY <1>1, AheadRows DEF RowsFollow, AheadSound, AheadOrders
<1>8. OrdersAccepted(rs.orders, all, Len(all))
  BY <1>7 DEF ReplaySound
<1> QED BY <1>5, <1>6, <1>7, <1>8 DEF OrdersAccepted, OrderAt

LEMMA CancelNextMirrors ==
  ASSUME EngineInv, EngineInv', LogSound, MirrorInv, CancelNext, UNCHANGED orphans
  PROVE  MirrorInv'
<1>1. PICK i \in to_cancel :
        append_event(OrderCancelled(log[i].event.order.order_id, log[i].event.order.order_hash,
                                    "admin_force"))
  BY DEF CancelNext
<1>2. i \in Accepted
  BY DEF EngineInv, CallFits
<1>3. PICK order, event : /\ order = OrderAt(i)
                          /\ event = OrderCancelled(order.order_id, order.order_hash, "admin_force")
  OBVIOUS
<1>4. /\ order \in Orders /\ append_event(event) /\ order.order_id \in DOMAIN AheadOrders
  <2>1. OrderAt(i) \in Orders
    BY <1>2, AcceptedOrder
  <2>2. OrderAt(i).order_id \in DOMAIN AheadOrders
    BY <1>2, AcceptedAhead DEF MirrorInv
  <2> QED BY <1>1, <1>3, <2>1, <2>2 DEF OrderAt
<1>5. event \in Events /\ event.type = "order_cancelled" /\ event.order_id = order.order_id
  BY <1>3, <1>4 DEF OrderCancelled, Events, CancelReasons, Orders
<1>6. /\ stage = "cancelling" /\ stage' \in {"idle", "cancelling"} /\ fills' = fills
      /\ UNCHANGED <<taker, books, uuids>>
  BY DEF CancelNext, matching_vars, engine_vars
<1>7. ~InProcessOrder /\ ~InProcessOrder'
  BY <1>6 DEF InProcessOrder
<1>8. fills = << >> /\ fills' = << >>
  BY <1>6, <1>7 DEF MirrorInv, AheadSound, PendingFits
<1>9. AheadSound' /\ RepsKept(AheadOrders, AheadOrders')
  BY <1>4, <1>5, <1>8, OtherEventAhead DEF MirrorInv
<1> QED BY <1>6, <1>7, <1>9, BooksAsBefore

(* Self-trade prevention ends the taker alone.                             *)
LEMMA StpMirrors ==
  ASSUME EngineInv, QueueInv, LogSound, MirrorInv, MatchMaker,
         UNCHANGED <<books, fills, orphans>>,
         taker' = [taker EXCEPT !.status = "cancelled_stp",
                                !.last_update_sequence = taker.created_sequence]
  PROVE  MirrorInv'
<1>1. UNCHANGED <<log, next_seq_id, uuids, stage>> /\ stage = "matching"
  BY DEF MatchMaker, sequencer_vars
<1>2. InProcessOrder /\ InProcessOrder'
  BY <1>1 DEF InProcessOrder
<1>3. taker \in Orders
  BY <1>2 DEF EngineInv, CallFits
<1>4. /\ taker'.order_id = taker.order_id /\ SameButClosed(taker', taker)
      /\ taker'.status = "cancelled_stp"
  BY <1>3 DEF Orders, SameButClosed
<1>5. AheadSound' /\ AheadOrders' = AheadOrders
  BY <1>1, <1>2, NothingMoreAhead DEF MirrorInv
<1>6. RepsKept(AheadOrders, AheadOrders')
  BY <1>5, SameReps
<1>7. \A m, id : OnBook(m, id)' = OnBook(m, id) /\ OrderOn(m, id)' = OrderOn(m, id)
  BY DEF OnBook, OrderOn
<1>8. \A order : SameButClosed(order, order)
  BY DEF SameButClosed
<1> QED BY <1>1, <1>2, <1>4, <1>5, <1>6, <1>7, <1>8, MirrorsStay

(* The taker rests, is filled, or is cancelled.                            *)
LEMMA FinishOrderMirrors ==
  ASSUME EngineInv, EngineInv', QueueInv, LogSound, MirrorInv, FinishOrder, UNCHANGED orphans
  PROVE  MirrorInv'
<1>1. /\ stage = "recording" /\ stage' = "idle" /\ fills = << >> /\ fills' = fills /\ uuids' = uuids
      /\ IF taker.status = "cancelled_stp"
         THEN append_event(OrderCancelled(taker.order_id, taker.order_hash, "self_trade_prevention"))
         ELSE UNCHANGED <<log, next_seq_id>>
  BY DEF FinishOrder
<1>2. InProcessOrder /\ ~InProcessOrder'
  BY <1>1 DEF InProcessOrder
<1>3. taker \in Orders /\ taker.filled_size_lots <= taker.signed.size_lots
  BY <1>2 DEF EngineInv, CallFits
<1>4. PICK id0, m0 : id0 = taker.order_id /\ m0 = taker.signed.market_id
  OBVIOUS
<1>5. id0 \in DOMAIN AheadOrders /\ TakerAs(taker, AheadOrders[id0]) /\ OrderBounded(AheadOrders[id0])
  BY <1>2, <1>4 DEF MirrorInv, TakerMirrored, OrdersBounded
<1>6. /\ AheadSound' /\ RepsKept(AheadOrders, AheadOrders')
      /\ taker.status = "cancelled_stp" => is_closed(AheadOrders'[id0])
  <2>1. CASE taker.status = "cancelled_stp"
    <3>1. PICK event : event = OrderCancelled(id0, taker.order_hash, "self_trade_prevention")
      OBVIOUS
    <3>2. event \in Events /\ event.type = "order_cancelled" /\ event.order_id = id0
      BY <1>3, <1>4, <3>1 DEF OrderCancelled, Events, CancelReasons, Orders
    <3>3. append_event(event)
      BY <1>1, <1>4, <2>1, <3>1
    <3> QED BY <1>1, <1>5, <3>2, <3>3, OtherEventAhead DEF MirrorInv
  <2>2. CASE taker.status # "cancelled_stp"
    <3>1. UNCHANGED <<log, next_seq_id, fills>>
      BY <1>1, <2>2
    <3>2. AheadSound' /\ AheadOrders' = AheadOrders
      BY <1>1, <3>1, NothingMoreAhead DEF MirrorInv
    <3> QED BY <2>2, <3>2, SameReps
  <2> QED BY <2>1, <2>2
<1>7. is_closed(AheadOrders'[id0]) \/ Wants(taker)
  <2>1. SUFFICES ASSUME taker.status # "cancelled_stp", ~Wants(taker), ~is_closed(AheadOrders'[id0])
                 PROVE  FALSE
    BY <1>6
  <2>2. RepKept(AheadOrders[id0], AheadOrders'[id0])
    BY <1>5, <1>6 DEF RepsKept
  <2>3. ~is_closed(AheadOrders[id0])
    BY <2>1, <2>2 DEF RepKept
  <2>4. ~is_closed(taker)
    BY <1>5, <2>1, <2>3 DEF TakerAs
  <2>5. taker.filled_size_lots < taker.signed.size_lots
    BY <1>5, <2>3 DEF OrderBounded, TakerAs
  <2>6. taker.filled_size_lots \in Nat /\ taker.signed.size_lots \in Nat
    BY <1>3, SignedOrderType DEF Orders
  <2>7. taker.signed.size_lots - taker.filled_size_lots > 0
    BY <2>5, <2>6
  <2> QED BY <2>1, <2>4, <2>7 DEF Wants, remaining_size_lots
<1>8. ASSUME NEW m, NEW id
      PROVE  /\ OnBook(m, id) => OnBook(m, id)' /\ OrderOn(m, id)' = OrderOn(m, id)
             /\ OnBook(m, id)' => \/ OnBook(m, id)
                                  \/ /\ InProcessOrder /\ id = taker.order_id
                                     /\ OrderOn(m, id)' = taker /\ ~is_closed(taker)
             /\ m = m0 /\ id = id0 => is_closed(AheadOrders'[id]) \/ OnBook(m, id)'
  <2>1. /\ OnBook(m, id) => OnBook(m, id)' /\ OrderOn(m, id)' = OrderOn(m, id)
        /\ OnBook(m, id)' =>
              \/ OnBook(m, id)
              \/ /\ Wants(taker) /\ m = taker.signed.market_id /\ id = taker.order_id
                 /\ OrderOn(m, id)' = taker
        /\ Wants(taker) /\ m = taker.signed.market_id /\ id = taker.order_id => OnBook(m, id)'
    BY FinishOrderOrders
  <2> QED BY <1>2, <1>4, <1>7, <2>1 DEF Wants
<1>9. \A order : SameButClosed(order, order)
  BY DEF SameButClosed
<1> QED BY <1>1, <1>2, <1>4, <1>6, <1>8, <1>9, MirrorsStay

(* A fill does the same to an order and to its replay.                     *)
LEMMA RepFilled ==
  ASSUME NEW live \in Orders, live.filled_size_lots <= live.signed.size_lots,
         NEW qty \in Nat, qty <= remaining_size_lots(live), NEW seq \in Nat,
         NEW rep \in Orders, rep.signed = live.signed, rep.filled_size_lots = live.filled_size_lots,
         rep.created_sequence = live.created_sequence, OrderBounded(rep),
         NEW at, NEW after, after = replay_filled(rep, qty, at),
         NEW new, new = after_fill(live, qty, seq)
  PROVE  /\ after.signed = new.signed /\ after.filled_size_lots = new.filled_size_lots
         /\ after.created_sequence = new.created_sequence
         /\ is_closed(new) <=> is_closed(after)
         /\ after.signed = rep.signed /\ new.signed = live.signed /\ new.order_id = live.order_id
         /\ OrderBounded(after)
<1>1. PICK size, done : size = live.signed.size_lots /\ done = live.filled_size_lots
  OBVIOUS
<1>2. size \in Nat /\ done \in Nat /\ done <= size /\ qty <= size - done
  BY <1>1, SignedOrderType DEF Orders, remaining_size_lots
<1>3. /\ new.signed = live.signed /\ new.order_id = live.order_id
      /\ new.filled_size_lots = done + qty
  BY <1>1, AfterFillFits
<1>4. new.created_sequence = live.created_sequence /\ (is_closed(new) <=> qty = size - done)
  BY <1>1, AfterFillLeaves DEF remaining_size_lots
<1>5. /\ after.signed = rep.signed /\ after.filled_size_lots = done + qty
      /\ after.created_sequence = rep.created_sequence
      /\ after.status = IF done + qty >= size THEN "filled" ELSE "partially_filled"
  BY <1>1 DEF replay_filled, Orders
<1>6. is_closed(after) <=> done + qty >= size
  BY <1>5 DEF is_closed
<1>7. done + qty >= size <=> qty = size - done
  BY <1>2
<1>8. done + qty <= size /\ (~(done + qty >= size) => done + qty < size)
  BY <1>2
<1>9. OrderBounded(after)
  BY <1>1, <1>5, <1>6, <1>8 DEF OrderBounded
<1> QED BY <1>3, <1>4, <1>5, <1>6, <1>7, <1>9

\* A fill leaves the taker, and a maker on its book, closed exactly if their
\* replays are, and is not about the other orders on the books.
FilledTogether ==
  \E row :
    /\ RowAhead(row) /\ row.event.type = "fill"
    /\ is_closed(taker') <=> is_closed(AheadOrders'[taker'.order_id])
    /\ \A m, id : OnBook(m, id)' =>
         \/ /\ OnBook(m, id) /\ OrderOn(m, id)' = OrderOn(m, id)
            /\ ~AboutOrder(row.event, id)
         \/ is_closed(OrderOn(m, id)') <=> is_closed(AheadOrders'[id])

LEMMA FillMakerMirrors ==
  ASSUME EngineInv, EngineInv', QueueInv, LogSound, MirrorInv, MatchMaker, UNCHANGED orphans,
         NEW m0, m0 = taker.signed.market_id, NEW id1, id1 = Head(maker_ids),
         NEW maker, maker = OrderOn(m0, id1), OnBook(m0, id1),
         Wants(taker), maker \in Orders, maker.order_id = id1, maker.signed.market_id = m0,
         maker.filled_size_lots <= maker.signed.size_lots, remaining_size_lots(maker) > 0,
         FillMaker(maker)
  PROVE  MirrorInv' /\ FilledTogether
<1>1. /\ UNCHANGED <<log, next_seq_id, uuids, stage>> /\ stage = "matching"
  BY DEF MatchMaker, sequencer_vars
<1>2. InProcessOrder /\ InProcessOrder'
  BY <1>1 DEF InProcessOrder
<1>3. PICK id0, qty, fill, seq : /\ id0 = taker.order_id /\ qty = fill_qty(maker)
                                 /\ fill = NewFill(maker, qty) /\ seq = taker.created_sequence
  OBVIOUS
<1>4. taker \in Orders /\ taker.filled_size_lots <= taker.signed.size_lots
  BY <1>2 DEF EngineInv, CallFits
<1>5. /\ qty \in Nat /\ qty <= remaining_size_lots(taker) /\ qty <= remaining_size_lots(maker)
  BY <1>3, <1>4, FillQtyFits
<1>6. seq \in Nat
  BY <1>3, <1>4 DEF Orders
<1>7. fills' = Append(fills, fill) /\ taker' = after_fill(taker, qty, seq)
  BY <1>3 DEF FillMaker
<1>8. fill \in Fills /\ fill.taker_order_id = id0 /\ fill.maker_order_id = id1 /\ fill.size_lots = qty
  <2>1. m0 \in Markets
    BY DEF OnBook, EngineInv, TypeOK, EngineTypes
  <2>2. price \in Nat
    BY DEF EngineInv, TypeOK, CallTypes
  <2>3. fill \in Fills
    BY <1>3, <1>4, <1>5, <2>1, <2>2, NewFillType
  <2> QED BY <1>3, <2>3 DEF NewFill
<1>9. ASSUME NEW m, NEW id, OnBook(m, id)
      PROVE  id # id0 /\ (id = id1 => m = m0)
  <2>1. /\ id < taker.order_id /\ id \in Nat
        /\ order_market_index[id] = m
    BY <1>2, <1>9, OnBookOrder DEF QueueInv, IdsFresh, BookIdsFresh, OnBook
  <2>2. order_market_index[id1] = m0
    BY DEF QueueInv, IdsFresh, BookIdsFresh, OnBook
  <2>3. id0 \in Nat
    BY <1>3, <1>4 DEF Orders, OrderIds
  <2> QED BY <1>3, <2>1, <2>2, <2>3
<1>10. id0 # id1
  BY <1>9
<1>11. PICK orders, after : orders = AheadOrders /\ after = AheadOrders'
  OBVIOUS
<1>12. /\ id0 \in DOMAIN orders /\ TakerAs(taker, orders[id0])
       /\ id1 \in DOMAIN orders /\ Mirrors(maker, orders[id1])
  BY <1>2, <1>3, <1>11 DEF MirrorInv, TakerMirrored, BooksMirrored
<1>13. AheadSound' /\ \E row : /\ row.event.type = "fill" /\ row.event.fill = fill
                               /\ RowAhead(row)
  BY <1>1, <1>2, <1>7, <1>8, <1>10, <1>11, <1>12, FillMadeAhead DEF MirrorInv
<1>14. PICK row : /\ row.event.type = "fill" /\ row.event.fill = fill
                  /\ RowAhead(row) /\ OrdersAfter(orders, row, after)
  BY <1>11, <1>13 DEF RowAhead
<1>15. /\ DOMAIN after = DOMAIN orders
       /\ after[id0] = replay_filled(orders[id0], qty, row.seq_id)
       /\ after[id1] = replay_filled(orders[id1], qty, row.seq_id)
       /\ \A id \in DOMAIN orders : id \notin {id0, id1} => after[id] = orders[id]
  BY <1>8, <1>12, <1>14 DEF OrdersAfter, AfterEvent, FillOf
<1>16. \A id \in DOMAIN orders : orders[id] \in Orders /\ OrderBounded(orders[id]) /\ id <= uuids
  BY <1>11, AheadTypes DEF MirrorInv, OrdersBounded, IsMap
<1>17. PICK new1 : new1 = after_fill(maker, qty, seq)
  OBVIOUS
<1>18. /\ TakerAs(taker', after[id0]) /\ taker'.order_id = id0
       /\ is_closed(taker') <=> is_closed(after[id0])
       /\ after[id0].signed = orders[id0].signed /\ OrderBounded(after[id0])
  <2>1. PICK rep, rep1 : rep = orders[id0] /\ rep1 = after[id0]
    OBVIOUS
  <2>2. rep1 = replay_filled(rep, qty, row.seq_id) /\ rep \in Orders /\ OrderBounded(rep)
    BY <1>12, <1>15, <1>16, <2>1
  <2>3. /\ rep.signed = taker.signed /\ rep.filled_size_lots = taker.filled_size_lots
        /\ rep.created_sequence = taker.created_sequence
    BY <1>12, <2>1 DEF TakerAs
  <2>4. PICK live, new : live = taker /\ new = taker'
    OBVIOUS
  <2>5. /\ rep1.signed = new.signed /\ rep1.filled_size_lots = new.filled_size_lots
        /\ rep1.created_sequence = new.created_sequence
        /\ is_closed(new) <=> is_closed(rep1)
        /\ rep1.signed = rep.signed /\ new.order_id = live.order_id
        /\ OrderBounded(rep1)
    BY <1>4, <1>5, <1>6, <1>7, <2>2, <2>3, <2>4, RepFilled
  <2> QED BY <1>3, <2>1, <2>4, <2>5 DEF TakerAs
<1>19. /\ Mirrors(new1, after[id1]) /\ (is_closed(new1) <=> is_closed(after[id1]))
       /\ after[id1].signed = orders[id1].signed /\ OrderBounded(after[id1])
  <2>1. PICK rep, rep1 : rep = orders[id1] /\ rep1 = after[id1]
    OBVIOUS
  <2>2. rep1 = replay_filled(rep, qty, row.seq_id) /\ rep \in Orders /\ OrderBounded(rep)
    BY <1>12, <1>15, <1>16, <2>1
  <2>3. /\ rep.signed = maker.signed /\ rep.filled_size_lots = maker.filled_size_lots
        /\ rep.created_sequence = maker.created_sequence
    BY <1>12, <2>1 DEF Mirrors
  <2>4. /\ rep1.signed = new1.signed /\ rep1.filled_size_lots = new1.filled_size_lots
        /\ rep1.created_sequence = new1.created_sequence
        /\ is_closed(new1) <=> is_closed(rep1)
        /\ rep1.signed = rep.signed
        /\ OrderBounded(rep1)
    BY <1>5, <1>6, <1>17, <2>2, <2>3, RepFilled
  <2> QED BY <2>1, <2>4 DEF Mirrors
<1>20. ASSUME NEW m, NEW id
       PROVE  /\ OnBook(m, id)' <=> OnBook(m, id)
              /\ OnBook(m, id) =>
                   \/ id # id1 /\ OrderOn(m, id)' = OrderOn(m, id)
                   \/ id = id1 /\ OrderOn(m, id)' = new1
  <2>1. /\ OnBook(m, id)' <=> OnBook(m, id)
        /\ OnBook(m, id) =>
              \/ OrderOn(m, id)' = OrderOn(m, id)
                   /\ (fills' = fills \/ m # m0 \/ id # id1)
              \/ /\ m = m0 /\ id = id1
                 /\ OrderOn(m, id)' = after_fill(OrderOn(m, id), fill_qty(OrderOn(m, id)), seq)
    BY <1>3, MatchMakerOrders
  <2>2. fills' # fills
    <3>1. fills \in Seq(Fills)
      BY DEF EngineInv, TypeOK, CallTypes
    <3>2. Len(fills') = Len(fills) + 1 /\ Len(fills) \in Nat
      BY <1>7, <1>8, <3>1, AppendProperties, LenProperties
    <3> QED BY <3>2
  <2> QED BY <1>3, <1>9, <1>17, <2>1, <2>2
<1>21. BooksMirrored'
  <2>1. ASSUME NEW m, NEW id, OnBook(m, id)'
        PROVE  id \in DOMAIN after /\ Mirrors(OrderOn(m, id)', after[id])
    <3>1. OnBook(m, id) /\ id # id0
      BY <1>9, <1>20, <2>1
    <3>2. id \in DOMAIN orders /\ Mirrors(OrderOn(m, id), orders[id])
      BY <1>11, <3>1 DEF MirrorInv, BooksMirrored
    <3> QED BY <1>15, <1>19, <1>20, <3>1, <3>2
  <2> QED BY <1>11, <2>1 DEF BooksMirrored
<1>22. TakerMirrored'
  BY <1>11, <1>12, <1>15, <1>18 DEF TakerMirrored
<1>23. ASSUME NEW id \in DOMAIN after
       PROVE  /\ OrderBounded(after[id]) /\ id <= uuids'
              /\ ~is_closed(after[id]) => \/ id \in orphans'
                                          \/ InProcessOrder' /\ id = taker'.order_id
                                          \/ OnBook(after[id].signed.market_id, id)'
  <2>1. CASE id = id0
    BY <1>1, <1>2, <1>12, <1>16, <1>18, <2>1
  <2>2. CASE id = id1
    <3>1. after[id].signed.market_id = m0
      BY <1>12, <1>19, <2>2 DEF Mirrors
    <3>2. OnBook(m0, id1)'
      BY <1>20
    <3> QED BY <1>1, <1>12, <1>16, <1>19, <2>2, <3>1, <3>2
  <2>3. CASE id \notin {id0, id1}
    <3>1. id \in DOMAIN orders /\ after[id] = orders[id]
      BY <1>15, <2>3
    <3>2. ~is_closed(orders[id]) => id \in orphans \/ OnBook(orders[id].signed.market_id, id)
      BY <1>3, <1>11, <2>3, <3>1 DEF MirrorInv, OrdersPlaced, Placed
    <3>3. PICK m : m = orders[id].signed.market_id
      OBVIOUS
    <3>4. OnBook(m, id)' <=> OnBook(m, id)
      BY <1>20
    <3> QED BY <1>1, <1>16, <3>1, <3>2, <3>3, <3>4
  <2> QED BY <2>1, <2>2, <2>3
<1>24. OrdersPlaced'
  BY <1>11, <1>23 DEF OrdersPlaced, Placed
<1>25. OrdersBounded(AheadOrders)'
  BY <1>11, <1>23 DEF OrdersBounded
<1>26. FilledTogether
  <2>1. ASSUME NEW m, NEW id, OnBook(m, id)'
        PROVE  \/ /\ OnBook(m, id) /\ OrderOn(m, id)' = OrderOn(m, id)
                  /\ ~AboutOrder(row.event, id)
               \/ is_closed(OrderOn(m, id)') <=> is_closed(after[id])
    <3>1. OnBook(m, id) /\ id # id0
      BY <1>9, <1>20, <2>1
    <3>2. CASE id = id1
      BY <1>19, <1>20, <3>1, <3>2
    <3>3. CASE id # id1
      <4>1. ~AboutOrder(row.event, id)
        BY <1>8, <1>14, <3>1, <3>3 DEF AboutOrder, FillOf
      <4> QED BY <1>20, <3>1, <3>3, <4>1
    <3> QED BY <3>2, <3>3
  <2> QED BY <1>11, <1>14, <1>18, <2>1 DEF FilledTogether
<1> QED BY <1>13, <1>21, <1>22, <1>24, <1>25, <1>26 DEF MirrorInv

LEMMA MatchMakerMirrors ==
  ASSUME EngineInv, EngineInv', QueueInv, LogSound, MirrorInv, MatchMaker, UNCHANGED orphans
  PROVE  MirrorInv'
<1>1. PICK m0, id1, maker : /\ m0 = taker.signed.market_id /\ id1 = Head(maker_ids)
                            /\ maker = OrderOn(m0, id1)
  OBVIOUS
<1>2. PICK book, side : book = books[m0] /\ side = Opposite(taker.signed.side)
  OBVIOUS
<1>3. maker = book.orders[id1]
  BY <1>1, <1>2 DEF OrderOn
<1>4. /\ Wants(taker) /\ m0 \in DOMAIN books /\ id1 \in DOMAIN book.orders
      /\ maker \in Orders /\ maker.order_id = id1 /\ maker.signed.market_id = m0
      /\ maker.filled_size_lots <= maker.signed.size_lots /\ remaining_size_lots(maker) > 0
      /\ \/ self_trade(maker) /\ StpCancelTaker(maker)
         \/ ~self_trade(maker) /\ FillMaker(maker)
  BY <1>1, <1>2, <1>3, MatchMakerMeets
<1>5. OnBook(m0, id1)
  BY <1>2, <1>4 DEF OnBook
<1>6. CASE StpCancelTaker(maker)
  BY <1>6, StpMirrors DEF StpCancelTaker
<1>7. CASE FillMaker(maker)
  BY <1>1, <1>4, <1>5, <1>7, FillMakerMirrors
<1> QED BY <1>4, <1>6, <1>7

(* The row of an acceptance.                                               *)
LEMMA AcceptanceFits ==
  ASSUME LogSound, NEW order \in Orders, order.created_sequence = next_seq_id,
         NEW event, event = [type |-> "order_accepted", order |-> order],
         NEW row, row = [seq_id |-> next_seq_id, event |-> event]
  PROVE  /\ event \in Events /\ event.type = "order_accepted" /\ event.order = order
         /\ RowFits(row) /\ row.event = event /\ row.seq_id = next_seq_id
<1>1. event \in Events /\ event.type = "order_accepted" /\ event.order = order
  BY DEF Events
<1>2. next_seq_id \in Nat \ {0}
  <2>1. PICK pause : pause = [type |-> "market_paused"]
    OBVIOUS
  <2>2. RowSound([seq_id |-> next_seq_id, event |-> pause])
    BY <2>1, NextRowSound
  <2> QED BY <2>2 DEF RowSound
<1>3. {"order_id", "created_sequence"} \subseteq DOMAIN order
  BY DEF Orders
<1>4. row.event = event /\ row.seq_id = next_seq_id /\ row \in SequencedEvents
  BY <1>1, <1>2 DEF SequencedEvents
<1>5. RowSound(row)
  BY <1>1, <1>2, <1>3, <1>4 DEF RowSound, Named
<1>6. TwoSides(row.event)
  BY <1>1, <1>4 DEF TwoSides
<1> QED BY <1>1, <1>4, <1>5, <1>6 DEF RowFits

\* The orphans of a step of the engine.
OrphansAfter == orphans' = IF Panics THEN orphans \cup {uuids'} ELSE orphans

LEMMA ProcessOrderMirrors ==
  ASSUME EngineInv, EngineInv', LogSound, MirrorInv, OrphansAfter,
         NEW signed \in SignedOrders, NEW now_ms, ProcessOrder(signed, now_ms)
  PROVE  MirrorInv'
<1>1. PICK order, has_book, event, id0, row :
        /\ order = NewOrder(signed, uuids + 1) /\ has_book = (signed.market_id \in DOMAIN books)
        /\ event = [type |-> "order_accepted", order |-> order] /\ id0 = uuids + 1
        /\ row = [seq_id |-> next_seq_id, event |-> event]
  OBVIOUS
<1>2. /\ stage = "idle" /\ append_event(event)
      /\ stage' = IF has_book THEN "matching" ELSE "idle"
      /\ taker' = IF has_book THEN order ELSE NoOrder
      /\ uuids' = uuids + 1 /\ Validated(signed, now_ms)
      /\ UNCHANGED <<books, fills>>
  BY <1>1 DEF ProcessOrder
<1>3. uuids \in Nat /\ id0 \in OrderIds /\ next_seq_id \in Nat
  BY <1>1 DEF EngineInv, TypeOK, SequencerTypes, CallTypes, OrderIds
<1>4. /\ order \in Orders /\ order.signed = signed /\ order.filled_size_lots = 0
      /\ order.order_id = id0 /\ order.created_sequence = next_seq_id
  BY <1>1, <1>3, NewOrderType
<1>5. ~InProcessOrder /\ fills = << >> /\ fills' = << >>
  BY <1>2 DEF InProcessOrder, MirrorInv, AheadSound, PendingFits
<1>6. /\ event.type = "order_accepted" /\ event.order = order
      /\ RowFits(row) /\ row.event = event
  BY <1>1, <1>4, AcceptanceFits
<1>7. Takes(DOMAIN AheadOrders, event)
  BY <1>6 DEF Takes
<1>8. PICK orders, after : orders = AheadOrders /\ after = AheadOrders'
  OBVIOUS
<1>9. AheadSound' /\ RowAhead(row) /\ OrdersAfter(orders, row, after)
  BY <1>1, <1>2, <1>5, <1>6, <1>7, <1>8, EventAhead DEF MirrorInv
<1>10. /\ DOMAIN after = DOMAIN orders \cup {id0} /\ after[id0] = order
       /\ \A id \in DOMAIN orders : id # id0 => after[id] = orders[id]
  BY <1>4, <1>6, <1>9 DEF OrdersAfter, Added
<1>11. \A id \in DOMAIN orders : OrderBounded(orders[id]) /\ id <= uuids /\ id \in Nat
  BY <1>8, AheadTypes DEF MirrorInv, OrdersBounded, IsMap, OrderIds
<1>12. \A id \in DOMAIN orders : id # id0 /\ id <= uuids'
  BY <1>1, <1>2, <1>3, <1>11
<1>13. \A m, id : OnBook(m, id)' = OnBook(m, id) /\ OrderOn(m, id)' = OrderOn(m, id)
  BY <1>2 DEF OnBook, OrderOn
<1>14. BooksMirrored'
  <2>1. ASSUME NEW m, NEW id, OnBook(m, id)'
        PROVE  id \in DOMAIN after /\ Mirrors(OrderOn(m, id)', after[id])
    <3>1. id \in DOMAIN orders /\ Mirrors(OrderOn(m, id), orders[id])
      BY <1>8, <1>13, <2>1 DEF MirrorInv, BooksMirrored
    <3> QED BY <1>10, <1>12, <1>13, <3>1
  <2> QED BY <1>8, <2>1 DEF BooksMirrored
<1>15. InProcessOrder' <=> has_book
  BY <1>1, <1>2 DEF InProcessOrder
<1>16. TakerMirrored'
  <2>1. ASSUME has_book PROVE taker'.order_id \in DOMAIN after /\ TakerAs(taker', after[taker'.order_id])
    BY <1>2, <1>4, <1>10, <2>1 DEF TakerAs
  <2> QED BY <1>8, <1>15, <2>1 DEF TakerMirrored
<1>17. orphans \subseteq orphans' /\ (~has_book => id0 \in orphans')
  <2>1. ~has_book => Panics
    BY <1>2, <1>3 DEF Panics
  <2> QED BY <1>1, <1>2, <2>1 DEF OrphansAfter
<1>18. OrderBounded(order) /\ id0 <= uuids'
  <2>1. signed.size_lots \in Nat /\ signed.size_lots # 0
    BY <1>2, SignedOrderType DEF Validated, validate_fields
  <2>2. signed.market_id \in Markets
    BY <1>2 DEF Validated, EngineInv, TypeOK, EngineTypes
  <2>3. 0 < signed.size_lots /\ 0 <= signed.size_lots
    BY <2>1
  <2> QED BY <1>1, <1>2, <1>3, <1>4, <2>2, <2>3 DEF OrderBounded
<1>19. ASSUME NEW id \in DOMAIN after
       PROVE  /\ OrderBounded(after[id]) /\ id <= uuids'
              /\ ~is_closed(after[id]) => \/ id \in orphans'
                                          \/ InProcessOrder' /\ id = taker'.order_id
                                          \/ OnBook(after[id].signed.market_id, id)'
  <2>1. CASE id = id0
    BY <1>2, <1>4, <1>10, <1>15, <1>17, <1>18, <2>1
  <2>2. CASE id # id0
    <3>1. id \in DOMAIN orders /\ after[id] = orders[id]
      BY <1>10, <2>2
    <3>2. ~is_closed(orders[id]) => id \in orphans \/ OnBook(orders[id].signed.market_id, id)
      BY <1>5, <1>8, <3>1 DEF MirrorInv, OrdersPlaced, Placed
    <3>3. PICK m : m = orders[id].signed.market_id
      OBVIOUS
    <3>4. OnBook(m, id)' <=> OnBook(m, id)
      BY <1>13
    <3> QED BY <1>11, <1>12, <1>17, <3>1, <3>2, <3>3, <3>4
  <2> QED BY <2>1, <2>2
<1>20. OrdersPlaced'
  BY <1>8, <1>19 DEF OrdersPlaced, Placed
<1>21. OrdersBounded(AheadOrders)'
  BY <1>8, <1>19 DEF OrdersBounded
<1> QED BY <1>9, <1>14, <1>16, <1>20, <1>21 DEF MirrorInv

LEMMA MirrorStep ==
  ASSUME EngineInv, EngineInv', QueueInv, LogSound, MirrorInv, [Next]_vars, OrphansAfter
  PROVE  MirrorInv'
<1>1. ASSUME uuids' = uuids PROVE orphans' = orphans
  BY <1>1 DEF OrphansAfter, Panics
<1>2. CASE \E signed \in SignedOrders, now_ms \in Times : ProcessOrder(signed, now_ms)
  BY <1>2, ProcessOrderMirrors
<1>3. CASE \E id, trader_id : ProcessCancel(id, trader_id)
  <2>1. PICK id, trader_id : ProcessCancel(id, trader_id)
    BY <1>3
  <2>2. uuids' = uuids
    BY <2>1 DEF ProcessCancel
  <2> QED BY <1>1, <2>1, <2>2, ProcessCancelMirrors
<1>4. CASE \E market_id \in Markets : PauseMarket(market_id) \/ ResumeMarket(market_id)
  <2>1. PICK market_id \in Markets : \/ SetStatus(market_id, "active", "paused", "market_paused")
                                     \/ SetStatus(market_id, "paused", "active", "market_resumed")
    BY <1>4 DEF PauseMarket, ResumeMarket
  <2>2. uuids' = uuids
    BY <2>1 DEF SetStatus
  <2> QED BY <1>1, <2>1, <2>2, SetStatusMirrors
<1>5. CASE \E market_id \in Markets : CancelAllOrders(market_id)
  <2>1. /\ UNCHANGED <<log, next_seq_id, fills, books, taker, uuids>>
        /\ stage = "idle" /\ stage' = "cancelling"
    BY <1>5 DEF CancelAllOrders, engine_vars, sequencer_vars, matching_vars
  <2>2. InProcessOrder' <=> InProcessOrder
    BY <2>1 DEF InProcessOrder
  <2> QED BY <1>1, <2>1, <2>2, QuietMirrors
<1>6. CASE NextLevel
  <2>1. UNCHANGED <<log, next_seq_id, fills, books, taker, uuids, stage>>
    BY <1>6 DEF NextLevel, engine_vars, sequencer_vars
  <2>2. InProcessOrder' <=> InProcessOrder
    BY <2>1 DEF InProcessOrder
  <2> QED BY <1>1, <2>1, <2>2, QuietMirrors
<1>7. CASE MatchMaker
  <2>1. uuids' = uuids
    BY <1>7 DEF MatchMaker
  <2> QED BY <1>1, <1>7, <2>1, MatchMakerMirrors
<1>8. CASE EndMatch
  <2>1. /\ UNCHANGED <<log, next_seq_id, fills, books, taker, uuids>>
        /\ stage = "matching" /\ stage' = "recording"
    BY <1>8 DEF EndMatch, engine_vars, sequencer_vars
  <2>2. InProcessOrder' <=> InProcessOrder
    BY <2>1 DEF InProcessOrder
  <2> QED BY <1>1, <2>1, <2>2, QuietMirrors
<1>9. CASE RecordFill
  <2>1. uuids' = uuids
    BY <1>9 DEF RecordFill
  <2> QED BY <1>1, <1>9, <2>1, RecordFillMirrors
<1>10. CASE FinishOrder
  <2>1. uuids' = uuids
    BY <1>10 DEF FinishOrder
  <2> QED BY <1>1, <1>10, <2>1, FinishOrderMirrors
<1>11. CASE CancelNext
  <2>1. uuids' = uuids
    BY <1>11 DEF CancelNext
  <2> QED BY <1>1, <1>11, <2>1, CancelNextMirrors
<1>12. CASE UNCHANGED vars
  <2>1. UNCHANGED <<log, next_seq_id, fills, books, taker, uuids, stage>>
    BY <1>12 DEF vars, engine_vars, sequencer_vars, matching_vars
  <2>2. InProcessOrder' <=> InProcessOrder
    BY <2>1 DEF InProcessOrder
  <2> QED BY <1>1, <2>1, <2>2, QuietMirrors
<1> QED
  BY <1>2, <1>3, <1>4, <1>5, <1>6, <1>7, <1>8, <1>9, <1>10, <1>11, <1>12
     DEF Next, Call, Continue, CancelByClientId
-----------------------------------------------------------------------------
(* The acceptances of the log and the table of keys *)

KeyOf(order) == <<order.signed.trader_id, order.signed.client_order_id>>

RecordOf(row) ==
  [ original_seq_id |-> row.seq_id, order_id |-> row.event.order.order_id,
    order_hash |-> row.event.order.order_hash ]

\* No two acceptances are of the same order or under the same key.
AcceptedOnce ==
  /\ \A i, j \in Accepted : i # j =>
       /\ log[i].event.order.order_id # log[j].event.order.order_id
       /\ KeyOf(log[i].event.order) # KeyOf(log[j].event.order)
  /\ \A i \in Accepted :
       log[i].event.order.order_id <= uuids /\ log[i].event.order.signed.market_id \in Markets

KeysHeld ==
  /\ \A i \in Accepted : LET key == KeyOf(log[i].event.order) IN
       key \in DOMAIN idempotency /\ idempotency[key] = RecordOf(log[i])
  /\ \A key \in DOMAIN idempotency : \E i \in Accepted : key = KeyOf(log[i].event.order)

KeysInv == AcceptedOnce /\ KeysHeld

(* An id is drawn by process_order and nowhere else.                       *)
LEMMA IdsDrawn ==
  ASSUME EngineInv, [Next]_vars
  PROVE  \/ uuids' = uuids /\ NoAcceptance
         \/ \E signed \in SignedOrders, now_ms \in Times : ProcessOrder(signed, now_ms)
<1>1. CASE \E signed \in SignedOrders, now_ms \in Times : ProcessOrder(signed, now_ms)
  BY <1>1
<1>2. CASE \E id, trader_id : ProcessCancel(id, trader_id)
  <2>1. PICK id, trader_id : ProcessCancel(id, trader_id)
    BY <1>2
  <2> QED BY <2>1, ProcessCancelInv DEF ProcessCancel
<1>3. CASE \E market_id \in Markets : PauseMarket(market_id) \/ ResumeMarket(market_id)
  <2>1. PICK market_id \in Markets : \/ SetStatus(market_id, "active", "paused", "market_paused")
                                     \/ SetStatus(market_id, "paused", "active", "market_resumed")
    BY <1>3 DEF PauseMarket, ResumeMarket
  <2> QED BY <2>1, SetStatusInv DEF SetStatus, MarketStatuses
<1>4. CASE \E market_id \in Markets : CancelAllOrders(market_id)
  BY <1>4, CancelAllOrdersInv DEF CancelAllOrders
<1>5. CASE NextLevel
  BY <1>5, NextLevelInv DEF NextLevel
<1>6. CASE MatchMaker
  BY <1>6, MatchMakerInv DEF MatchMaker
<1>7. CASE EndMatch
  BY <1>7, EndMatchInv DEF EndMatch
<1>8. CASE RecordFill
  BY <1>8, RecordFillInv DEF RecordFill
<1>9. CASE FinishOrder
  BY <1>9, FinishOrderInv DEF FinishOrder
<1>10. CASE CancelNext
  BY <1>10, CancelNextInv DEF CancelNext
<1>11. CASE UNCHANGED vars
  BY <1>11, StutterInv DEF vars
<1> QED
  BY <1>1, <1>2, <1>3, <1>4, <1>5, <1>6, <1>7, <1>8, <1>9, <1>10, <1>11
     DEF Next, Call, Continue, CancelByClientId

LEMMA KeysStep ==
  ASSUME EngineInv, KeysInv, [Next]_vars
  PROVE  KeysInv'
<1>1. CASE uuids' = uuids /\ NoAcceptance
  <2>1. Accepted' = Accepted /\ (\A i \in Accepted : log'[i] = log[i])
        /\ idempotency' = idempotency
    BY <1>1, AcceptedKept DEF NoAcceptance
  <2> QED BY <1>1, <2>1 DEF KeysInv, AcceptedOnce, KeysHeld
<1>2. ASSUME NEW signed \in SignedOrders, NEW now_ms \in Times, ProcessOrder(signed, now_ms)
      PROVE  KeysInv'
  <2>1. PICK order, last, key, record :
          /\ order = NewOrder(signed, uuids + 1) /\ last = Len(log) + 1
          /\ key = KeyOf(order) /\ record = RecordOf([seq_id |-> next_seq_id, event |->
                                                [type |-> "order_accepted", order |-> order]])
    OBVIOUS
  <2>2. /\ append_event([type |-> "order_accepted", order |-> order])
        /\ register_accepted(order) /\ ~IsDuplicate(signed)
        /\ uuids' = uuids + 1 /\ signed.market_id \in Markets
    BY <1>2, <2>1 DEF ProcessOrder, Validated, EngineInv, TypeOK, EngineTypes
  <2>3. uuids \in Nat /\ uuids + 1 \in OrderIds /\ next_seq_id \in Nat
    BY DEF EngineInv, TypeOK, SequencerTypes, CallTypes, OrderIds
  <2>4. /\ order \in Orders /\ order.signed = signed
        /\ order.order_id = uuids + 1 /\ order.created_sequence = next_seq_id
    BY <2>1, <2>3, NewOrderType
  <2>5. [type |-> "order_accepted", order |-> order] \in Events
    BY <2>4 DEF Events
  <2>6. /\ Len(log) \in Nat
        /\ Accepted' = Accepted \cup {last} /\ Accepted \subseteq 1..Len(log)
        /\ log'[last].event.order = order /\ log'[last].seq_id = next_seq_id
        /\ \A i \in Accepted : log'[i] = log[i]
    BY <2>1, <2>2, <2>4, <2>5, AcceptedAppended
  <2>7. key \notin DOMAIN idempotency /\ idempotency' = put(idempotency, key, record)
    BY <2>1, <2>2, <2>4 DEF IsDuplicate, register_accepted, KeyOf, RecordOf
  <2>8. /\ DOMAIN idempotency' = DOMAIN idempotency \cup {key}
        /\ idempotency'[key] = record
        /\ \A k \in DOMAIN idempotency : idempotency'[k] = idempotency[k]
    BY <2>7 DEF put
  <2>9. RecordOf(log'[last]) = record
    BY <2>1, <2>6 DEF RecordOf
  <2>10. \A i \in Accepted :
           /\ i # last /\ log[i].event.order.order_id <= uuids
           /\ log[i].event.order.order_id \in Nat
           /\ log[i].event.order.signed.market_id \in Markets
           /\ KeyOf(log[i].event.order) # key
    <3>1. \A i \in Accepted : log[i].event.order.order_id \in Nat
      <4>1. ASSUME NEW i \in Accepted PROVE log[i].event.order \in Orders
        <5>1. log[i] \in SequencedEvents
          BY <4>1 DEF Accepted, EngineInv, TypeOK, SequencerTypes
        <5>2. log[i].event \in Events /\ log[i].event.type = "order_accepted"
          BY <5>1 DEF Accepted, SequencedEvents
        <5> QED BY <5>2 DEF Events
      <4> QED BY <4>1 DEF Orders, OrderIds
    <3>2. \A i \in Accepted : i # last
      BY <2>1, <2>6
    <3> QED BY <2>7, <3>1, <3>2 DEF KeysInv, AcceptedOnce, KeysHeld
  <2>11. \A i \in Accepted : uuids + 1 # log[i].event.order.order_id
                             /\ log[i].event.order.order_id <= uuids + 1
    BY <2>3, <2>10
  <2>12. AcceptedOnce'
    <3>1. ASSUME NEW i \in Accepted', NEW j \in Accepted', i # j
          PROVE  /\ log'[i].event.order.order_id # log'[j].event.order.order_id
                 /\ KeyOf(log'[i].event.order) # KeyOf(log'[j].event.order)
      <4>1. CASE i = last
        BY <2>1, <2>4, <2>6, <2>10, <2>11, <3>1, <4>1
      <4>2. CASE j = last
        BY <2>1, <2>4, <2>6, <2>10, <2>11, <3>1, <4>2
      <4>3. CASE i # last /\ j # last
        BY <2>6, <3>1, <4>3 DEF KeysInv, AcceptedOnce
      <4> QED BY <4>1, <4>2, <4>3
    <3>2. ASSUME NEW i \in Accepted'
          PROVE  /\ log'[i].event.order.order_id <= uuids'
                 /\ log'[i].event.order.signed.market_id \in Markets
      <4>1. CASE i = last
        BY <2>2, <2>3, <2>4, <2>6, <4>1
      <4>2. CASE i # last
        BY <2>2, <2>6, <2>10, <2>11, <4>2
      <4> QED BY <4>1, <4>2
    <3> QED BY <3>1, <3>2 DEF AcceptedOnce
  <2>13. KeysHeld'
    <3>1. ASSUME NEW i \in Accepted'
          PROVE  LET k == KeyOf(log'[i].event.order) IN
                 k \in DOMAIN idempotency' /\ idempotency'[k] = RecordOf(log'[i])
      <4>1. CASE i = last
        BY <2>1, <2>6, <2>8, <2>9, <4>1
      <4>2. CASE i # last
        BY <2>6, <2>8, <4>2 DEF KeysInv, KeysHeld
      <4> QED BY <4>1, <4>2
    <3>2. ASSUME NEW k \in DOMAIN idempotency'
          PROVE  \E i \in Accepted' : k = KeyOf(log'[i].event.order)
      <4>1. CASE k = key
        BY <2>1, <2>6, <4>1
      <4>2. CASE k # key
        <5>1. PICK i \in Accepted : k = KeyOf(log[i].event.order)
          BY <2>8, <4>2 DEF KeysInv, KeysHeld
        <5> QED BY <2>6, <5>1
      <4> QED BY <4>1, <4>2
    <3> QED BY <3>1, <3>2 DEF KeysHeld
  <2> QED BY <2>12, <2>13 DEF KeysInv
<1> QED BY <1>1, <1>2, IdsDrawn

(* The keys of the table and the acceptances of the log match one to one.  *)
LEMMA KeysMatchLog ==
  ASSUME EngineInv, KeysInv
  PROVE  IdempotencyMatchesLog
<1> DEFINE at == [i \in Accepted |-> KeyOf(log[i].event.order)]
<1>1. \A key \in DOMAIN idempotency : \E i \in Accepted :
        /\ key = <<OrderAt(i).signed.trader_id, OrderAt(i).signed.client_order_id>>
        /\ idempotency[key] = [ original_seq_id |-> log[i].seq_id,
                                order_id |-> OrderAt(i).order_id,
                                order_hash |-> OrderAt(i).order_hash ]
  <2>1. SUFFICES ASSUME NEW key \in DOMAIN idempotency
                 PROVE  \E i \in Accepted :
                          /\ key = KeyOf(OrderAt(i))
                          /\ idempotency[key] = RecordOf(log[i])
    BY ONLY <2>1 DEF KeyOf, RecordOf, OrderAt
  <2>2. PICK i \in Accepted : key = KeyOf(OrderAt(i))
    BY DEF KeysInv, KeysHeld, OrderAt
  <2>3. idempotency[key] = RecordOf(log[i])
    BY <2>2 DEF KeysInv, KeysHeld, OrderAt
  <2> QED BY <2>2, <2>3
<1>2. IsFiniteSet(Accepted)
  <2>1. Len(log) \in Nat /\ Accepted \subseteq 1..Len(log)
    BY DEF EngineInv, TypeOK, SequencerTypes, Accepted
  <2>2. IsFiniteSet(1..Len(log))
    BY <2>1, FS_Interval
  <2> QED BY <2>1, <2>2, FS_Subset
<1>3. at \in Bijection(Accepted, DOMAIN idempotency)
  BY DEF KeysInv, KeysHeld, AcceptedOnce, Bijection, Injection, Surjection, IsInjective
<1>4. Cardinality(DOMAIN idempotency) = Cardinality(Accepted)
  <2>1. PICK key_of : key_of \in Bijection(Accepted, DOMAIN idempotency)
    BY <1>3
  <2> QED BY <1>2, <2>1, FS_Bijection DEF ExistsBijection
<1> QED BY <1>1, <1>4 DEF IdempotencyMatchesLog
-----------------------------------------------------------------------------
(* The books that a restart builds *)

OpenIn(orders, market_id) ==
  {id \in DOMAIN orders : ~is_closed(orders[id]) /\ orders[id].signed.market_id = market_id}

\* The book after the first k of the open orders.
BuiltSoFar(book, orders, ids, k, market_id) ==
  /\ BookFits(book, market_id) /\ QueuesSound(book)
  /\ DOMAIN book.orders = {ids[j] : j \in 1..k}
  /\ \A id \in DOMAIN book.orders : book.orders[id] = orders[id]

\* The orders of a replay, ready to be put on their books.
OrdersReady(orders) ==
  /\ IsMap(orders, OrderIds, Orders) /\ OrdersDistinct(orders) /\ OrdersBounded(orders)
  /\ \A id \in DOMAIN orders : orders[id].order_id = id

LEMMA InsertBuilds ==
  ASSUME NEW orders, OrdersReady(orders), NEW market_id, NEW ids, NEW n \in Nat, NEW k \in 1..n,
         \A j \in 1..n : ids[j] \in OpenIn(orders, market_id),
         \A i, j \in 1..n : i < j => orders[ids[i]].created_sequence < orders[ids[j]].created_sequence,
         NEW before, BuiltSoFar(before, orders, ids, k - 1, market_id)
  PROVE  BuiltSoFar(insert(before, orders[ids[k]]), orders, ids, k, market_id)
<1>1. PICK id, order, after : id = ids[k] /\ order = orders[id] /\ after = insert(before, order)
  OBVIOUS
<1>2. /\ id \in DOMAIN orders /\ ~is_closed(order) /\ order.signed.market_id = market_id
      /\ order \in Orders /\ order.order_id = id
      /\ order.filled_size_lots < order.signed.size_lots
      /\ order.filled_size_lots <= order.signed.size_lots
  BY <1>1 DEF OpenIn, OrdersReady, IsMap, OrdersBounded, OrderBounded
<1>3. order.signed.side \in Sides /\ order.signed.price_ticks \in Nat /\ remaining_size_lots(order) > 0
  <2>1. order.signed.size_lots \in Nat /\ order.filled_size_lots \in Nat
    BY <1>2, SignedOrderType DEF Orders
  <2>2. order.signed.side \in Sides /\ order.signed.price_ticks \in Nat
    BY <1>2, SignedOrderType DEF Orders
  <2> QED BY <1>2, <2>1, <2>2 DEF remaining_size_lots
<1>4. \A j \in 1..k - 1 : orders[ids[j]].created_sequence < order.created_sequence
                          /\ orders[ids[j]].created_sequence \in Nat
  <2>1. ASSUME NEW j \in 1..k - 1 PROVE orders[ids[j]].created_sequence < order.created_sequence
                                        /\ orders[ids[j]].created_sequence \in Nat
    <3>1. j \in 1..n /\ j < k
      OBVIOUS
    <3> QED BY <1>1, <3>1 DEF OpenIn, OrdersReady, OrdersDistinct
  <2> QED BY <2>1
<1>5. \A other \in DOMAIN before.orders :
        /\ before.orders[other].created_sequence < order.created_sequence
        /\ before.orders[other].created_sequence \in Nat
        /\ before.orders[other] = orders[other]
  BY <1>4 DEF BuiltSoFar
<1>6. id \notin DOMAIN before.orders
  <2>1. ~(order.created_sequence < order.created_sequence)
    BY <1>2 DEF Orders
  <2> QED BY <1>1, <1>5, <2>1
<1>7. BookFits(after, market_id)
  BY <1>1, <1>2, <1>3, InsertFits DEF BuiltSoFar
<1>8. QueuesSound(after)
  BY <1>1, <1>2, <1>3, <1>5, <1>6, InsertSound DEF BuiltSoFar
<1>9. Added(before.orders, id, order, after.orders)
  <2>1. after.orders = put(before.orders, id, order)
    BY <1>1, <1>2 DEF insert
  <2> QED BY <2>1, PutOrder
<1>10. DOMAIN after.orders = {ids[j] : j \in 1..k}
  <2>1. \A j \in 1..k : j \in 1..k - 1 \/ j = k
    OBVIOUS
  <2>2. \A j \in 1..k - 1 : j \in 1..k
    OBVIOUS
  <2>3. k \in 1..k
    OBVIOUS
  <2> QED BY <1>1, <1>9, <2>1, <2>2, <2>3 DEF Added, BuiltSoFar
<1>11. \A other \in DOMAIN after.orders : after.orders[other] = orders[other]
  BY <1>1, <1>5, <1>9 DEF Added
<1> QED BY <1>1, <1>7, <1>8, <1>10, <1>11 DEF BuiltSoFar

\* The open orders of a market, oldest first.
OpenSorted(ids, orders, market_id) ==
  /\ ids \in Seq(OpenIn(orders, market_id))
  /\ \A id \in OpenIn(orders, market_id) : \E k \in 1..Len(ids) : ids[k] = id
  /\ \A j, k \in 1..Len(ids) : j < k =>
       orders[ids[j]].created_sequence < orders[ids[k]].created_sequence

LEMMA OpenListed ==
  ASSUME NEW rs, OrdersReady(rs.orders), NEW market_id
  PROVE  OpenSorted(open_orders(rs, market_id), rs.orders, market_id)
<1>1. OrdersDistinct(rs.orders)
  BY DEF OrdersReady
<1>2. PICK ids, open : ids = open_orders(rs, market_id) /\ open = OpenIn(rs.orders, market_id)
  OBVIOUS
<1>3. /\ ids \in Seq(open)
      /\ \A id \in open : \E k \in 1..Len(ids) : ids[k] = id
      /\ \A j, k \in 1..Len(ids) : j < k =>
           rs.orders[ids[j]].created_sequence < rs.orders[ids[k]].created_sequence
  BY <1>1, <1>2, OpenOrdersSorted DEF OpenIn
<1> QED BY <1>2, <1>3 DEF OpenSorted

\* A rebuilt book: sound, and holding the open orders of its market.
Rebuilt(book, orders, market_id) ==
  /\ BookFits(book, market_id) /\ QueuesSound(book)
  /\ DOMAIN book.orders = OpenIn(orders, market_id)
  /\ \A id \in DOMAIN book.orders : book.orders[id] = orders[id]

(* build_book puts the open orders of the market, and nothing else, into   *)
(* sound queues: replay/mod.rs inserts them oldest first.                  *)
LEMMA BookRebuilt ==
  ASSUME NEW rs, OrdersReady(rs.orders), NEW market_id
  PROVE  Rebuilt(build_book(rs, market_id), rs.orders, market_id)
<1>1. PICK ids, n, orders, book : /\ ids = open_orders(rs, market_id) /\ n = Len(ids)
                                  /\ orders = rs.orders /\ book = build_book(rs, market_id)
  OBVIOUS
<1>2. /\ ids \in Seq(OpenIn(orders, market_id))
      /\ \A id \in OpenIn(orders, market_id) : \E k \in 1..n : ids[k] = id
      /\ \A j, k \in 1..n : j < k =>
           orders[ids[j]].created_sequence < orders[ids[k]].created_sequence
  <2>1. OpenSorted(ids, orders, market_id)
    BY <1>1, OpenListed
  <2> QED BY <1>1, <2>1 DEF OpenSorted
<1>3. n \in Nat /\ IsSeq(ids) /\ \A k \in 1..n : ids[k] \in OpenIn(orders, market_id)
  BY <1>1, <1>2, LenProperties, ElementOfSeq, SeqIsSeq
<1>4. PICK states : Rests(states, orders, ids, n) /\ book = states[n]
  BY <1>1, <1>3, BookRests
<1> DEFINE Failed == {k \in 0..n : ~BuiltSoFar(states[k], orders, ids, k, market_id)}
<1>5. ASSUME Failed # {} PROVE FALSE
  <2>1. PICK least \in Failed : \A k \in Failed : least <= k
    <3>1. Failed \subseteq Nat
      BY <1>3
    <3> HIDE DEF Failed
    <3> QED BY <1>5, <3>1, LeastNatural
  <2>2. CASE least = 0
    <3>1. states[0] = new_book /\ DOMAIN new_book.orders = {} /\ {ids[j] : j \in 1..0} = {}
      BY <1>4 DEF Rests, new_book
    <3>2. BuiltSoFar(new_book, orders, ids, 0, market_id)
      BY <3>1, NewBookFits, NewBookSound DEF BuiltSoFar
    <3> QED BY <2>1, <2>2, <3>1, <3>2
  <2>3. CASE least # 0
    <3>1. least - 1 \in 0..n /\ least \in 1..n /\ ~(least <= least - 1)
      BY <1>3, <2>1, <2>3
    <3>2. PICK before : before = states[least - 1]
      OBVIOUS
    <3>3. BuiltSoFar(before, orders, ids, least - 1, market_id)
      BY <2>1, <3>1, <3>2
    <3>4. BuiltSoFar(insert(before, orders[ids[least]]), orders, ids, least, market_id)
      BY <1>1, <1>2, <1>3, <3>1, <3>3, InsertBuilds
    <3>5. states[least] = insert(before, orders[ids[least]])
      BY <1>4, <3>1, <3>2 DEF Rests
    <3> QED BY <2>1, <3>4, <3>5
  <2> QED BY <2>2, <2>3
<1>6. BuiltSoFar(book, orders, ids, n, market_id)
  <2>1. n \in 0..n
    BY <1>3
  <2> QED BY <1>4, <1>5, <2>1
<1>7. {ids[j] : j \in 1..n} = OpenIn(orders, market_id)
  BY <1>2, <1>3
<1> QED BY <1>1, <1>6, <1>7 DEF BuiltSoFar, Rebuilt
-----------------------------------------------------------------------------
(* What the rows in Postgres hold *)

\* Whatever is open on both sides of a market and not exempt is apart.
MarketsUncrossed(orders, exempt) ==
  \A x, y \in DOMAIN orders :
    /\ ~is_closed(orders[x]) /\ orders[x].signed.side = "buy" /\ x \notin exempt
    /\ ~is_closed(orders[y]) /\ orders[y].signed.side = "sell" /\ y \notin exempt
    /\ orders[x].signed.market_id = orders[y].signed.market_id
    => orders[x].signed.price_ticks < orders[y].signed.price_ticks

OrdersRestorable(orders) ==
  DOMAIN orders \subseteq Nat /\ OrdersBounded(orders) /\ MarketsUncrossed(orders, orphans)

\* If the rows replay, what they replay to can go back on the books.
StoredGood ==
  stored # {} /\ replayed(loaded).error = "none" => OrdersRestorable(replayed(loaded).orders)

LEMMA StoredGoodStays ==
  ASSUME StoredGood, stored' = stored, uuids \in Nat, uuids' \in {uuids, uuids + 1},
         orphans \subseteq orphans'
  PROVE  StoredGood'
<1>1. loaded' = loaded
  BY DEF loaded
<1>2. ASSUME NEW orders, OrdersRestorable(orders) PROVE OrdersRestorable(orders)'
  BY <1>2 DEF OrdersRestorable, OrdersBounded, MarketsUncrossed
<1>3. PICK rs : rs = replayed(loaded)
  OBVIOUS
<1>4. replayed(loaded') = rs
  BY <1>1, <1>3
<1>5. PICK orders : orders = rs.orders
  OBVIOUS
<1>6. stored # {} /\ rs.error = "none" => OrdersRestorable(orders)'
  BY <1>2, <1>3, <1>5 DEF StoredGood
<1> QED BY <1>4, <1>5, <1>6 DEF StoredGood, OrdersRestorable, OrdersBounded, MarketsUncrossed

AcceptanceRow(row) == row.event.type = "order_accepted"

RowsApart(events) ==
  /\ \A i, j \in DOMAIN events : AcceptanceRow(events[i]) /\ AcceptanceRow(events[j]) /\ i # j =>
       /\ events[i].event.order.order_id # events[j].event.order.order_id
       /\ KeyOf(events[i].event.order) # KeyOf(events[j].event.order)
  /\ \A i \in DOMAIN events : AcceptanceRow(events[i]) =>
       /\ events[i].event.order.order_id <= uuids
       /\ events[i].event.order.signed.market_id \in Markets

\* What a restart reads: n rows, and the replay of them.
Restoring(events, rs, n) ==
  /\ events \in Seq(SequencedEvents) /\ IsSeq(events)
  /\ n = Len(events) /\ n \in Nat \ {0} /\ DOMAIN events = 1..n
  /\ \A i \in 1..n : /\ RowFits(events[i]) /\ events[i].seq_id \in Nat \ {0}
                     /\ events[i].seq_id <= events[n].seq_id
  /\ \A i, j \in 1..n : events[i].seq_id = events[j].seq_id => i = j
  /\ RowsApart(events)
  /\ rs = replayed(events) /\ rs.error = "none"
  /\ OrdersReady(rs.orders) /\ StoreFits(rs) /\ OrdersFromRows(rs.orders, events, n)
  /\ MarketsUncrossed(rs.orders, orphans)

(* The rows are rows of the log, so they are as good as the log was.       *)
LEMMA RowsRestore ==
  ASSUME up, EngineInv, LogFits, RowsSound, RowsAreLogged, KeysInv, StoredGood, stored # {},
         NEW events, events = loaded, NEW rs, rs = replayed(events), rs.error = "none",
         NEW n, n = Len(events)
  PROVE  Restoring(events, rs, n)
<1>1. /\ events \in Seq(stored) /\ IsSeq(events) /\ n \in Nat /\ DOMAIN events = 1..n
      /\ \A i \in 1..n : events[i] \in stored /\ RowSound(events[i])
      /\ \A row \in stored : \E i \in 1..n : events[i] = row
  BY LoadedSorted DEF ListsRows
<1>2. n # 0
  BY <1>1
<1>3. \A i \in 1..n : \E a \in DOMAIN log : events[i] = log[a]
  <2>1. \A row \in stored : \E a \in DOMAIN log : log[a] = row
    BY DEF RowsAreLogged
  <2> QED BY <1>1, <2>1
<1>4. \A i \in 1..n : RowFits(events[i])
  BY <1>3 DEF LogFits
<1>5. events \in Seq(SequencedEvents)
  <2>1. \A i \in 1..Len(events) : events[i] \in SequencedEvents
    BY <1>4 DEF RowFits
  <2>2. events = [i \in 1..Len(events) |-> events[i]] /\ Len(events) \in Nat
    BY <1>1, LenProperties, SeqDef
  <2> QED BY <2>1, <2>2, IsASeq
<1>6. ReplaySound(rs, events, n) /\ ReplayFits(rs, events, n)
  BY <1>1, <1>4, ReplayIsSound, ReplayTyped
<1>7. /\ \A i \in 2..n : events[i].seq_id = events[i - 1].seq_id + 1
      /\ OrdersAccepted(rs.orders, events, n)
  BY <1>6 DEF ReplaySound
<1>8. \A i \in 1..n : events[i].seq_id \in Nat \ {0} /\ events[i].seq_id \in Nat
  BY <1>1 DEF RowSound
<1>9. \A i \in 1..n : events[i].seq_id = events[1].seq_id + (i - 1)
  <2>1. \A i \in 1..n : events[i].seq_id \in Nat
    BY <1>8
  <2>2. \A i \in 2..n : events[i].seq_id = events[i - 1].seq_id + 1
    BY <1>7
  <2>3. n \in Nat
    BY <1>1
  <2> QED BY ONLY <2>1, <2>2, <2>3, IdsCount
<1>10. /\ \A i \in 1..n : events[i].seq_id <= events[n].seq_id
       /\ \A i, j \in 1..n : events[i].seq_id = events[j].seq_id => i = j
  <2>1. 1 \in 1..n /\ n \in 1..n
    BY <1>1, <1>2
  <2>2. PICK first : first = events[1].seq_id
    OBVIOUS
  <2>3. first \in Nat
    BY <1>8, <2>1, <2>2
  <2>4. \A i \in 1..n : events[i].seq_id = first + (i - 1)
    BY <1>9, <2>2
  <2>5. n \in Nat
    BY <1>1
  <2>6. \A i \in 1..n : events[i].seq_id <= events[n].seq_id
    BY ONLY <2>1, <2>3, <2>4, <2>5
  <2>7. ASSUME NEW i \in 1..n, NEW j \in 1..n, events[i].seq_id = events[j].seq_id PROVE i = j
    <3>1. first + (i - 1) = first + (j - 1) /\ i \in Int /\ j \in Int /\ first \in Int
      BY <2>3, <2>4, <2>5, <2>7
    <3> QED BY ONLY <3>1
  <2> QED BY <2>6, <2>7
<1>11. \A i, j \in 1..n : events[i].seq_id = events[j].seq_id => i = j
  BY <1>10
<1>12. OrdersReady(rs.orders)
  <2>1. OrdersDistinct(rs.orders)
    BY <1>1, <1>7, AcceptedDistinct
  <2>2. OrdersBounded(rs.orders)
    BY DEF StoredGood, OrdersRestorable
  <2> QED BY <1>6, <2>1, <2>2 DEF ReplayFits, OrdersReady, OrdersFromRows
<1>13. RowsApart(events)
  <2>1. ASSUME NEW i \in 1..n, AcceptanceRow(events[i])
        PROVE  /\ events[i].event.order.order_id <= uuids
               /\ events[i].event.order.signed.market_id \in Markets
    <3>1. PICK a \in DOMAIN log : events[i] = log[a]
      BY <1>3
    <3> QED BY <2>1, <3>1 DEF AcceptanceRow, Accepted, KeysInv, AcceptedOnce
  <2>2. ASSUME NEW i \in 1..n, NEW j \in 1..n, i # j,
               AcceptanceRow(events[i]), AcceptanceRow(events[j])
        PROVE  /\ events[i].event.order.order_id # events[j].event.order.order_id
               /\ KeyOf(events[i].event.order) # KeyOf(events[j].event.order)
    <3>1. PICK a \in DOMAIN log, b \in DOMAIN log : events[i] = log[a] /\ events[j] = log[b]
      BY <1>3
    <3>2. a # b
      BY <1>11, <2>2, <3>1
    <3> QED BY <2>2, <3>1, <3>2 DEF AcceptanceRow, Accepted, KeysInv, AcceptedOnce
  <2> QED BY <1>1, <2>1, <2>2 DEF RowsApart
<1>14. StoreFits(rs) /\ OrdersFromRows(rs.orders, events, n)
  BY <1>6 DEF ReplayFits
<1>15. MarketsUncrossed(rs.orders, orphans)
  BY DEF StoredGood, OrdersRestorable
<1> QED
  BY <1>1, <1>2, <1>4, <1>5, <1>8, <1>10, <1>11, <1>12, <1>13, <1>14, <1>15 DEF Restoring
-----------------------------------------------------------------------------
(* The state after a restart from the rows *)

ResumedMarkets(events) ==
  [id \in {se.event.order.order_id : se \in acceptances(events)} |->
     (CHOOSE se \in acceptances(events) :
        se.event.order.order_id = id).event.order.signed.market_id]

\* What RestartRestored sets.
RestoredFrom(events, rs, n) ==
  /\ books' = build_books(rs)
  /\ order_market_index' = ResumedMarkets(events)
  /\ log' = events /\ next_seq_id' = events[n].seq_id + 1
  /\ idempotency' = resumed_idempotency(events)
  /\ filled_amounts' = rs.filled_amounts /\ cancelled' = rs.cancelled /\ nonces' = rs.nonces
  /\ markets' = [m \in Markets |-> "active"]
  /\ stage' = "idle" /\ taker' = NoOrder
  /\ prices' = {} /\ price' = 0 /\ maker_ids' = << >> /\ fills' = << >> /\ to_cancel' = {}
  /\ UNCHANGED <<stored, uuids, orphans>>

LEMMA RestoredParts ==
  ASSUME RestartRestored
  PROVE  /\ stored # {} /\ replayed(loaded).error = "none"
         /\ RestoredFrom(loaded, replayed(loaded), Len(loaded))
BY DEF RestartRestored, Crash, RestoreFromEvents, resume_seq_id, RestoredFrom, ResumedMarkets

BooksRebuilt(all, orders) ==
  /\ all = [m \in DOMAIN all |-> all[m]] /\ DOMAIN all \subseteq Markets
  /\ \A m \in DOMAIN all : Rebuilt(all[m], orders, m)
  /\ \A m \in Markets : OpenIn(orders, m) # {} => m \in DOMAIN all

LEMMA RestoredBooks ==
  ASSUME NEW rs, OrdersReady(rs.orders)
  PROVE  BooksRebuilt(build_books(rs), rs.orders)
<1>1. PICK all, orders : all = build_books(rs) /\ orders = rs.orders
  OBVIOUS
<1>2. /\ all = [m \in DOMAIN all |-> all[m]]
      /\ DOMAIN all = {m \in Markets : open_orders(rs, m) # << >>}
      /\ \A m \in DOMAIN all : all[m] = build_book(rs, m)
  BY <1>1 DEF build_books
<1>3. ASSUME NEW m \in DOMAIN all PROVE Rebuilt(all[m], orders, m)
  BY <1>1, <1>2, BookRebuilt
<1>4. ASSUME NEW m \in Markets, OpenIn(orders, m) # {} PROVE open_orders(rs, m) # << >>
  <2>1. PICK ids, open : ids = open_orders(rs, m) /\ open = OpenIn(rs.orders, m)
    OBVIOUS
  <2>2. \A id \in open : \E k \in 1..Len(ids) : ids[k] = id
    <3>1. OpenSorted(open_orders(rs, m), rs.orders, m)
      BY OpenListed
    <3> QED BY <2>1, <3>1 DEF OpenSorted
  <2>4. 1..Len(<< >>) = {}
    BY EmptyIsSeq
  <2> QED BY <1>1, <1>4, <2>1, <2>2, <2>4
<1> QED BY <1>1, <1>2, <1>3, <1>4 DEF BooksRebuilt

(* Sequencer::resume: the table of keys is the acceptances of the rows.    *)
LEMMA ResumedRecords ==
  ASSUME NEW events, NEW rs, NEW n, Restoring(events, rs, n),
         NEW table, table = resumed_idempotency(events)
  PROVE  /\ table = [k \in DOMAIN table |-> table[k]]
         /\ \A i \in 1..n : AcceptanceRow(events[i]) =>
              LET key == KeyOf(events[i].event.order) IN
              key \in DOMAIN table /\ table[key] = RecordOf(events[i])
         /\ \A k \in DOMAIN table : \E i \in 1..n :
              AcceptanceRow(events[i]) /\ k = KeyOf(events[i].event.order)
<1>1. DOMAIN events = 1..n /\ RowsApart(events) /\ \A i \in 1..n : events[i].seq_id \in Nat
  BY DEF Restoring
<1>2. PICK rows : rows = acceptances(events)
  OBVIOUS
<1>3. /\ \A i \in 1..n : AcceptanceRow(events[i]) => events[i] \in rows
      /\ \A se \in rows : \E i \in 1..n : se = events[i] /\ AcceptanceRow(events[i])
  BY <1>1, <1>2 DEF acceptances, AcceptanceRow
<1>4. DOMAIN table = {KeyOf(se.event.order) : se \in rows}
  BY <1>2 DEF resumed_idempotency, KeyOf
<1>5. ASSUME NEW k \in DOMAIN table
      PROVE  LET last == CHOOSE se \in rows :
                           /\ KeyOf(se.event.order) = k
                           /\ \A other \in rows :
                                KeyOf(other.event.order) = k => other.seq_id <= se.seq_id
             IN table[k] = RecordOf(last)
  BY <1>2, <1>4, <1>5 DEF resumed_idempotency, KeyOf, RecordOf
<1>6. ASSUME NEW i \in 1..n, AcceptanceRow(events[i])
      PROVE  LET key == KeyOf(events[i].event.order) IN
             key \in DOMAIN table /\ table[key] = RecordOf(events[i])
  <2>1. PICK key, row : key = KeyOf(events[i].event.order) /\ row = events[i]
    OBVIOUS
  <2>2. row \in rows /\ key \in DOMAIN table
    BY <1>3, <1>4, <1>6, <2>1
  <2>3. ASSUME NEW se \in rows, KeyOf(se.event.order) = key PROVE se = row
    <3>1. PICK j \in 1..n : se = events[j] /\ AcceptanceRow(events[j])
      BY <1>3, <2>3
    <3> QED BY <1>1, <1>6, <2>1, <2>3, <3>1 DEF RowsApart
  <2>4. row.seq_id <= row.seq_id
    BY <1>1, <2>1
  <2>5. \E se \in rows : /\ KeyOf(se.event.order) = key
                         /\ \A other \in rows :
                              KeyOf(other.event.order) = key => other.seq_id <= se.seq_id
    BY <2>1, <2>2, <2>3, <2>4
  <2>6. PICK last : last = CHOOSE se \in rows :
                             /\ KeyOf(se.event.order) = key
                             /\ \A other \in rows :
                                  KeyOf(other.event.order) = key => other.seq_id <= se.seq_id
    OBVIOUS
  <2>7. last \in rows /\ KeyOf(last.event.order) = key
    BY <2>5, <2>6
  <2>8. last = row
    BY <2>3, <2>7
  <2> QED BY <1>5, <2>1, <2>2, <2>6, <2>8
<1>7. table = [k \in DOMAIN table |-> table[k]]
  BY DEF resumed_idempotency
<1> QED BY <1>3, <1>4, <1>6, <1>7

LEMMA RestoredKeys ==
  ASSUME NEW events, NEW rs, NEW n, Restoring(events, rs, n), RestoredFrom(events, rs, n)
  PROVE  KeysInv'
<1>1. /\ DOMAIN events = 1..n /\ RowsApart(events) /\ log' = events /\ uuids' = uuids
      /\ idempotency' = resumed_idempotency(events)
  BY DEF Restoring, RestoredFrom
<1>2. Accepted' = {i \in 1..n : AcceptanceRow(events[i])}
  BY <1>1 DEF Accepted, AcceptanceRow
<1>3. AcceptedOnce'
  BY <1>1, <1>2 DEF AcceptedOnce, RowsApart
<1>4. PICK table : table = idempotency' /\ table = resumed_idempotency(events)
  BY <1>1
<1>5. /\ \A i \in 1..n : AcceptanceRow(events[i]) =>
           LET key == KeyOf(events[i].event.order) IN
           key \in DOMAIN table /\ table[key] = RecordOf(events[i])
      /\ \A k \in DOMAIN table : \E i \in 1..n :
           AcceptanceRow(events[i]) /\ k = KeyOf(events[i].event.order)
  BY ONLY <1>4, Restoring(events, rs, n), ResumedRecords
<1>6. KeysHeld'
  BY <1>1, <1>2, <1>4, <1>5 DEF KeysHeld
<1> QED BY <1>3, <1>6 DEF KeysInv

\* Every accepted order, and no other, under its own market.
MarketsIndexed(index, events, n) ==
  /\ index = [id \in DOMAIN index |-> index[id]]
  /\ \A id \in DOMAIN index : \E i \in 1..n :
       AcceptanceRow(events[i]) /\ id = events[i].event.order.order_id
  /\ \A i \in 1..n : AcceptanceRow(events[i]) =>
       LET id == events[i].event.order.order_id IN
       id \in DOMAIN index /\ index[id] = events[i].event.order.signed.market_id

(* restore_from_events: each accepted order goes to its own market.        *)
LEMMA ResumedIndex ==
  ASSUME NEW events, NEW rs, NEW n, Restoring(events, rs, n)
  PROVE  MarketsIndexed(ResumedMarkets(events), events, n)
<1>1. PICK index : index = ResumedMarkets(events)
  OBVIOUS
<1>2. DOMAIN events = 1..n /\ RowsApart(events)
  BY DEF Restoring
<1>3. PICK rows : rows = acceptances(events)
  OBVIOUS
<1>4. /\ \A i \in 1..n : AcceptanceRow(events[i]) => events[i] \in rows
      /\ \A se \in rows : \E i \in 1..n : se = events[i] /\ AcceptanceRow(events[i])
  BY <1>2, <1>3 DEF acceptances, AcceptanceRow
<1>5. /\ DOMAIN index = {se.event.order.order_id : se \in rows}
      /\ \A id \in DOMAIN index :
           index[id] = (CHOOSE se \in rows :
                          se.event.order.order_id = id).event.order.signed.market_id
  BY <1>1, <1>3 DEF ResumedMarkets
<1>6. ASSUME NEW i \in 1..n, AcceptanceRow(events[i])
      PROVE  LET id == events[i].event.order.order_id IN
             id \in DOMAIN index /\ index[id] = events[i].event.order.signed.market_id
  <2>1. PICK id, row : id = events[i].event.order.order_id /\ row = events[i]
    OBVIOUS
  <2>2. row \in rows /\ id \in DOMAIN index
    BY <1>4, <1>5, <1>6, <2>1
  <2>3. ASSUME NEW se \in rows, se.event.order.order_id = id PROVE se = row
    <3>1. PICK j \in 1..n : se = events[j] /\ AcceptanceRow(events[j])
      BY <1>4, <2>3
    <3> QED BY <1>2, <1>6, <2>1, <2>3, <3>1 DEF RowsApart
  <2>4. PICK chosen : chosen = CHOOSE se \in rows : se.event.order.order_id = id
    OBVIOUS
  <2>5. chosen \in rows /\ chosen.event.order.order_id = id
    BY <2>1, <2>2, <2>4
  <2>6. chosen = row
    BY <2>3, <2>5
  <2>7. index[id] = row.event.order.signed.market_id
    BY <1>5, <2>2, <2>4, <2>6
  <2> QED BY <2>1, <2>2, <2>7
<1>7. index = [id \in DOMAIN index |-> index[id]]
  BY <1>1 DEF ResumedMarkets
<1>8. \A id \in DOMAIN index : \E i \in 1..n :
        AcceptanceRow(events[i]) /\ id = events[i].event.order.order_id
  BY <1>4, <1>5
<1> QED BY <1>1, <1>6, <1>7, <1>8 DEF MarketsIndexed

LEMMA AcceptanceRowTypes ==
  ASSUME NEW row, RowFits(row), AcceptanceRow(row), NEW order, order = row.event.order
  PROVE  /\ order.order_id \in OrderIds /\ order.order_hash \in Hashes
         /\ order.signed \in SignedOrders /\ row.seq_id \in Nat
         /\ KeyOf(order) \in TraderIds \X STRING /\ RecordOf(row) \in IdempotencyRecords
<1>1. order \in Orders /\ row.seq_id \in Nat
  BY RowTypes DEF AcceptanceRow
<1>2. order.order_id \in OrderIds /\ order.order_hash \in Hashes /\ order.signed \in SignedOrders
  BY <1>1 DEF Orders
<1>3. order.signed.trader_id \in TraderIds /\ order.signed.client_order_id \in STRING
  BY <1>2, SignedOrderType
<1>4. KeyOf(order) \in TraderIds \X STRING
  BY <1>3 DEF KeyOf
<1>5. RecordOf(row) \in IdempotencyRecords
  BY <1>1, <1>2 DEF RecordOf, IdempotencyRecords
<1> QED BY <1>1, <1>2, <1>4, <1>5

(* The types after a restart.                                              *)
LEMMA RestoredEngine ==
  ASSUME EngineInv, NEW events, NEW rs, NEW n, Restoring(events, rs, n),
         RestoredFrom(events, rs, n)
  PROVE  EngineInv'
<1>1. /\ \A i \in 1..n : RowFits(events[i])
      /\ n \in Nat \ {0} /\ DOMAIN events = 1..n /\ events[n].seq_id \in Nat
  BY DEF Restoring
<1>2. BooksRebuilt(books', rs.orders)
  BY RestoredBooks DEF Restoring, RestoredFrom
<1>3. BooksFit'
  BY <1>2 DEF BooksFit, BooksRebuilt, Rebuilt
<1>4. PICK index : index = order_market_index' /\ MarketsIndexed(index, events, n)
  BY ResumedIndex DEF RestoredFrom
<1>5. IsMap(index, OrderIds, Markets)
  <2>1. /\ index = [id \in DOMAIN index |-> index[id]]
        /\ \A id \in DOMAIN index : \E i \in 1..n :
             AcceptanceRow(events[i]) /\ id = events[i].event.order.order_id
        /\ \A i \in 1..n : AcceptanceRow(events[i]) =>
             LET id == events[i].event.order.order_id IN
             id \in DOMAIN index /\ index[id] = events[i].event.order.signed.market_id
    BY <1>4 DEF MarketsIndexed
  <2>2. ASSUME NEW id \in DOMAIN index PROVE id \in OrderIds /\ index[id] \in Markets
    <3>1. PICK i \in 1..n : AcceptanceRow(events[i]) /\ id = events[i].event.order.order_id
      BY <2>1, <2>2
    <3>2. id \in OrderIds
      BY <1>1, <3>1, AcceptanceRowTypes
    <3>3. index[id] = events[i].event.order.signed.market_id
      BY <2>1, <3>1
    <3>4. events[i].event.order.signed.market_id \in Markets
      BY <1>1, <3>1 DEF Restoring, RowsApart
    <3> QED BY <3>2, <3>3, <3>4
  <2> QED BY <2>1, <2>2 DEF IsMap
<1>6. PICK table : table = idempotency' /\ table = resumed_idempotency(events)
  BY DEF RestoredFrom
<1>7. IsMap(table, TraderIds \X STRING, IdempotencyRecords)
  <2>1. /\ table = [k \in DOMAIN table |-> table[k]]
        /\ \A i \in 1..n : AcceptanceRow(events[i]) =>
             LET key == KeyOf(events[i].event.order) IN
             key \in DOMAIN table /\ table[key] = RecordOf(events[i])
        /\ \A k \in DOMAIN table : \E i \in 1..n :
             AcceptanceRow(events[i]) /\ k = KeyOf(events[i].event.order)
    BY ONLY <1>6, Restoring(events, rs, n), ResumedRecords
  <2>2. ASSUME NEW k \in DOMAIN table
        PROVE  k \in TraderIds \X STRING /\ table[k] \in IdempotencyRecords
    <3>1. PICK i \in 1..n : AcceptanceRow(events[i]) /\ k = KeyOf(events[i].event.order)
      BY <2>1, <2>2
    <3>2. KeyOf(events[i].event.order) \in TraderIds \X STRING
          /\ RecordOf(events[i]) \in IdempotencyRecords
      BY <1>1, <3>1, AcceptanceRowTypes
    <3> QED BY <2>1, <3>1, <3>2
  <2> QED BY <2>1, <2>2 DEF IsMap
<1>8. EngineTypes'
  <2>1. markets' \in [Markets -> MarketStatuses]
    BY DEF RestoredFrom, MarketStatuses
  <2>2. /\ books' = [m \in DOMAIN books' |-> books'[m]] /\ DOMAIN books' \subseteq Markets
        /\ \A m \in DOMAIN books' : IsBook(books'[m])
    BY <1>2 DEF BooksRebuilt, Rebuilt, BookFits
  <2> QED BY <1>4, <1>5, <2>1, <2>2 DEF EngineTypes
<1>9. SequencerTypes'
  <2>1. log' \in Seq(SequencedEvents) /\ next_seq_id' \in Nat
    BY <1>1 DEF RestoredFrom, Restoring
  <2> QED BY <1>6, <1>7, <2>1 DEF SequencerTypes
<1>10. StoreTypes'
  BY DEF StoreTypes, RestoredFrom, Restoring, StoreFits
<1>11. CallTypes'
  <2>1. /\ uuids' \in Nat /\ stage' = "idle" /\ taker' = NoOrder /\ prices' = {} /\ price' = 0
        /\ maker_ids' = << >> /\ fills' = << >> /\ to_cancel' = {}
    BY DEF RestoredFrom, EngineInv, TypeOK, CallTypes
  <2> QED BY <2>1 DEF CallTypes
<1>12. CallFits'
  BY DEF RestoredFrom, CallFits, InProcessOrder
<1> QED BY <1>3, <1>8, <1>9, <1>10, <1>11, <1>12 DEF EngineInv, TypeOK

LEMMA RestoredQueues ==
  ASSUME EngineInv, NEW events, NEW rs, NEW n, Restoring(events, rs, n),
         RestoredFrom(events, rs, n)
  PROVE  QueueInv'
<1>1. BooksRebuilt(books', rs.orders)
  BY RestoredBooks DEF Restoring, RestoredFrom
<1>2. BooksSound'
  BY <1>1 DEF BooksSound, BooksRebuilt, Rebuilt
<1>3. LoopSound'
  BY DEF RestoredFrom, LoopSound
<1>4. ~InProcessOrder'
  BY DEF RestoredFrom, InProcessOrder
<1>5. PICK index : index = order_market_index' /\ MarketsIndexed(index, events, n)
  BY ResumedIndex DEF RestoredFrom
<1>6. \A i \in 1..n : AcceptanceRow(events[i]) =>
        LET id == events[i].event.order.order_id IN
        id \in DOMAIN index /\ index[id] = events[i].event.order.signed.market_id
  BY <1>5 DEF MarketsIndexed
<1>7. ASSUME NEW m \in DOMAIN books' PROVE BookIdsFresh(books[m], m)'
  <2>1. PICK book : book = books'[m]
    OBVIOUS
  <2>2. Rebuilt(book, rs.orders, m)
    BY <1>1, <2>1 DEF BooksRebuilt
  <2>3. ASSUME NEW id \in DOMAIN book.orders
        PROVE  /\ id <= uuids' /\ book.orders[id].created_sequence < next_seq_id'
               /\ id \in DOMAIN index /\ index[id] = m
    <3>1. PICK order : order = book.orders[id]
      OBVIOUS
    <3>2. id \in DOMAIN rs.orders /\ order = rs.orders[id] /\ order.signed.market_id = m
      BY <2>2, <2>3, <3>1 DEF Rebuilt, OpenIn
    <3>3. order.order_id = id /\ id <= uuids
      BY <3>2 DEF Restoring, OrdersReady, OrdersBounded
    <3>4. PICK i \in 1..n : AcceptedBy(events[i], order)
      BY <3>2 DEF Restoring, OrdersFromRows
    <3>5. AcceptanceRow(events[i]) /\ events[i].event.order.order_id = id
          /\ events[i].event.order.signed.market_id = m
          /\ order.created_sequence = events[i].seq_id
      BY <3>2, <3>3, <3>4 DEF AcceptedBy, AcceptanceRow
    <3>6. id \in DOMAIN index /\ index[id] = m
      BY <1>6, <3>5
    <3>7. order.created_sequence < next_seq_id'
      <4>1. /\ events[i].seq_id \in Nat /\ events[n].seq_id \in Nat
            /\ events[i].seq_id <= events[n].seq_id
        BY DEF Restoring
      <4>2. next_seq_id' = events[n].seq_id + 1
        BY DEF RestoredFrom
      <4> QED BY <3>5, <4>1, <4>2
    <3>8. uuids' = uuids
      BY DEF RestoredFrom
    <3> QED BY <3>1, <3>3, <3>6, <3>7, <3>8
  <2> QED BY <1>4, <1>5, <2>1, <2>3 DEF BookIdsFresh
<1>8. IdsFresh'
  BY <1>4, <1>7 DEF IdsFresh
<1> QED BY <1>2, <1>3, <1>8 DEF QueueInv

(* What is on the rebuilt books is what the rows replay to.                *)
LEMMA RestoredMirrors ==
  ASSUME NEW events, NEW rs, NEW n, Restoring(events, rs, n), RestoredFrom(events, rs, n),
         next_seq_id' \in Nat
  PROVE  MirrorInv' /\ BooksUncrossed(orphans)'
<1>1. BooksRebuilt(books', rs.orders)
  BY RestoredBooks DEF Restoring, RestoredFrom
<1>2. log' = events /\ fills' = << >> /\ stage' = "idle" /\ ~InProcessOrder'
      /\ uuids' = uuids /\ orphans' = orphans
  BY DEF RestoredFrom, InProcessOrder
<1>3. Ahead' = events
  BY <1>2, NothingAhead DEF Ahead, Restoring
<1>4. AheadOrders' = rs.orders /\ replayed(Ahead') = rs /\ rs.error = "none"
  BY <1>3 DEF AheadOrders, Restoring
<1>5. AheadSound'
  <2>1. \A i \in DOMAIN events : RowFits(events[i])
    BY DEF Restoring
  <2>2. PendingFits'
    BY <1>2, EmptyIsSeq DEF PendingFits
  <2> QED BY <1>2, <1>4, <2>1, <2>2 DEF AheadSound
<1>6. ASSUME NEW m, NEW id
      PROVE  OnBook(m, id)' <=> m \in Markets /\ id \in OpenIn(rs.orders, m)
  BY <1>1 DEF OnBook, BooksRebuilt, Rebuilt
<1>7. ASSUME NEW m, NEW id, OnBook(m, id)'
      PROVE  id \in DOMAIN rs.orders /\ OrderOn(m, id)' = rs.orders[id]
  BY <1>1, <1>7 DEF OnBook, OrderOn, BooksRebuilt, Rebuilt, OpenIn
<1>8. BooksMirrored'
  BY <1>4, <1>7 DEF BooksMirrored, Mirrors
<1>9. TakerMirrored'
  BY <1>2 DEF TakerMirrored
<1>10. OrdersBounded(rs.orders)
  BY DEF Restoring, OrdersReady
<1>11. OrdersBounded(AheadOrders)'
  BY <1>2, <1>4, <1>10 DEF OrdersBounded
<1>12. OrdersPlaced'
  <2>1. ASSUME NEW id \in DOMAIN rs.orders, ~is_closed(rs.orders[id])
        PROVE  OnBook(rs.orders[id].signed.market_id, id)'
    <3>1. PICK m : m = rs.orders[id].signed.market_id
      OBVIOUS
    <3>2. m \in Markets /\ id \in OpenIn(rs.orders, m)
      BY <1>10, <2>1, <3>1 DEF OrdersBounded, OrderBounded, OpenIn
    <3> QED BY <1>6, <3>1, <3>2
  <2> QED BY <1>4, <2>1 DEF OrdersPlaced, Placed
<1>13. BooksUncrossed(orphans)'
  <2>1. ASSUME NEW m \in DOMAIN books' PROVE Uncrossed(books'[m].orders, orphans)
    <3>1. PICK book : book = books'[m]
      OBVIOUS
    <3>2. Rebuilt(book, rs.orders, m)
      BY <1>1, <3>1 DEF BooksRebuilt
    <3>3. \A id \in DOMAIN book.orders :
            /\ id \in DOMAIN rs.orders /\ book.orders[id] = rs.orders[id]
            /\ rs.orders[id].signed.market_id = m
      BY <3>2 DEF Rebuilt, OpenIn
    <3> QED BY <3>1, <3>3 DEF Uncrossed, Restoring, MarketsUncrossed
  <2> QED BY <1>2, <2>1 DEF BooksUncrossed
<1> QED BY <1>5, <1>8, <1>9, <1>11, <1>12, <1>13 DEF MirrorInv
-----------------------------------------------------------------------------
(* Between calls, what is persisted can be restored *)

LEMMA IdleRestorable ==
  ASSUME EngineInv, LogSound, MirrorInv, BooksUncrossed(orphans), stage = "idle",
         NEW orders, orders = replayed(log).orders
  PROVE  OrdersRestorable(orders)
<1>1. ~InProcessOrder /\ fills = << >>
  BY DEF InProcessOrder, MirrorInv, AheadSound, PendingFits
<1>2. Ahead = log
  <2>1. log \in Seq(SequencedEvents) /\ next_seq_id \in Nat
    BY DEF EngineInv, TypeOK, SequencerTypes
  <2> QED BY <1>1, <2>1, NothingAhead DEF Ahead
<1>3. orders = AheadOrders
  BY <1>2 DEF AheadOrders
<1>4. DOMAIN orders \subseteq Nat /\ OrdersBounded(orders)
  BY <1>3, AheadTypes DEF MirrorInv, IsMap, OrderIds
<1>5. ASSUME NEW id \in DOMAIN orders, ~is_closed(orders[id]), id \notin orphans,
             NEW m, m = orders[id].signed.market_id
      PROVE  /\ m \in DOMAIN books /\ id \in DOMAIN books[m].orders
             /\ ~is_closed(books[m].orders[id]) /\ books[m].orders[id].signed = orders[id].signed
  <2>1. OnBook(m, id)
    BY <1>1, <1>3, <1>5 DEF MirrorInv, OrdersPlaced, Placed
  <2>2. Mirrors(OrderOn(m, id), orders[id])
    BY <1>3, <2>1 DEF MirrorInv, BooksMirrored
  <2> QED BY <1>5, <2>1, <2>2 DEF OnBook, OrderOn, Mirrors
<1>6. MarketsUncrossed(orders, orphans)
  <2>1. ASSUME NEW x \in DOMAIN orders, NEW y \in DOMAIN orders,
               ~is_closed(orders[x]), orders[x].signed.side = "buy", x \notin orphans,
               ~is_closed(orders[y]), orders[y].signed.side = "sell", y \notin orphans,
               orders[x].signed.market_id = orders[y].signed.market_id
        PROVE  orders[x].signed.price_ticks < orders[y].signed.price_ticks
    <3>1. PICK m : m = orders[x].signed.market_id
      OBVIOUS
    <3>2. PICK resting : resting = books[m].orders
      OBVIOUS
    <3>3. /\ m \in DOMAIN books /\ x \in DOMAIN resting /\ ~is_closed(resting[x])
          /\ resting[x].signed = orders[x].signed
      BY <1>5, <2>1, <3>1, <3>2
    <3>4. y \in DOMAIN resting /\ ~is_closed(resting[y]) /\ resting[y].signed = orders[y].signed
      BY <1>5, <2>1, <3>1, <3>2
    <3>5. Uncrossed(resting, orphans)
      BY <3>2, <3>3 DEF BooksUncrossed
    <3> QED BY <2>1, <3>3, <3>4, <3>5 DEF Uncrossed
  <2> QED BY <2>1 DEF MarketsUncrossed
<1> QED BY <1>4, <1>6 DEF OrdersRestorable

LEMMA FewerRestorable ==
  ASSUME NEW all, OrdersRestorable(all), NEW orders, Among(orders, all)
  PROVE  OrdersRestorable(orders)
BY DEF OrdersRestorable, Among, OrdersBounded, MarketsUncrossed

(* Rows of the log that replay and reach the log's last row are its end.   *)
LEMMA RowsAreEnd ==
  ASSUME LogSound, StoreHeld, log # << >>,
         NEW events, IsSeq(events), \A i \in DOMAIN events : RowSound(events[i]),
         \A i \in DOMAIN events : \E a \in DOMAIN log : events[i] = log[a],
         NEW p \in DOMAIN events, events[p] = log[Len(log)],
         replayed(events).error = "none"
  PROVE  \E d \in Nat : /\ Len(log) = d + Len(events)
                        /\ \A i \in DOMAIN events : events[i] = log[d + i]
<1>1. PICK last, n, first, start :
        /\ last = Len(log) /\ n = Len(events) /\ first = log[1].seq_id /\ start = events[1].seq_id
  OBVIOUS
<1>2. last \in Nat /\ DOMAIN log = 1..last /\ n \in Nat /\ DOMAIN events = 1..n
  BY <1>1, ReplayedContiguous, LenProperties DEF IsSeq
<1>3. \A a \in 1..last : log[a].seq_id \in Nat
  BY <1>2 DEF LogSound, RowSound
<1>4. \A a \in 1..last : log[a].seq_id = first + (a - 1)
  <2>1. \A a \in 2..last : log[a].seq_id = log[a - 1].seq_id + 1
    BY <1>1, ReplayedContiguous
  <2> QED BY ONLY <1>1, <1>2, <1>3, <2>1, IdsCount
<1>5. \A i \in 1..n : events[i].seq_id \in Nat
  BY <1>2 DEF RowSound
<1>6. \A i \in 1..n : events[i].seq_id = start + (i - 1)
  <2>1. \A i \in 2..n : events[i].seq_id = events[i - 1].seq_id + 1
    BY <1>1, ReplayIsSound DEF ReplaySound
  <2> QED BY ONLY <1>1, <1>2, <1>5, <2>1, IdsCount
<1>7. p \in 1..n /\ start + (p - 1) = first + (last - 1) /\ last \in 1..last
  <2>1. last # 0
    BY <1>1, <1>2, EmptySeq DEF LogSound, IsSeq
  <2>2. last \in 1..last /\ p \in 1..n
    BY <1>2, <2>1
  <2> QED BY <1>1, <1>4, <1>6, <2>2
<1>8. first \in Nat /\ start \in Nat
  <2>1. 1 \in 1..last /\ 1 \in 1..n
    BY <1>2, <1>7
  <2> QED BY <1>1, <1>3, <1>5, <2>1
<1>9. ASSUME NEW i \in 1..n
      PROVE  \E a \in 1..last : events[i] = log[a] /\ start + (i - 1) = first + (a - 1)
  <2>1. PICK a \in 1..last : events[i] = log[a]
    BY <1>2
  <2> QED BY <1>4, <1>6, <2>1
<1>10. n = p
  <2>1. n \in 1..n
    BY <1>2, <1>7
  <2>2. PICK a \in 1..last : start + (n - 1) = first + (a - 1)
    BY <1>9, <2>1
  <2> QED BY <1>2, <1>7, <1>8, <2>2
<1>11. last - n \in Nat
  <2>1. 1 \in 1..n
    BY <1>2, <1>7
  <2>2. PICK a \in 1..last : start + (1 - 1) = first + (a - 1)
    BY <1>9, <2>1
  <2> QED BY <1>2, <1>7, <1>8, <1>10, <2>2
<1>12. ASSUME NEW i \in 1..n PROVE events[i] = log[(last - n) + i]
  <2>1. PICK a \in 1..last : events[i] = log[a] /\ start + (i - 1) = first + (a - 1)
    BY <1>9
  <2>2. a = (last - n) + i
    BY <1>2, <1>7, <1>8, <1>10, <2>1
  <2> QED BY <2>1, <2>2
<1>13. PICK d \in Nat : d = last - n
  BY <1>11
<1>14. last = d + n
  BY <1>2, <1>13
<1> QED BY <1>1, <1>2, <1>12, <1>13, <1>14

(* The rows that persist_since adds reach the log's last row, so either    *)
(* they do not replay or they are the end of the log.                      *)
LEMMA PersistedRestorable ==
  ASSUME EngineInv, LogSound, StoreHeld, MirrorInv, BooksUncrossed(orphans), StoredGood,
         RowsSound, RowsSound', RowsAreLogged, RowsAreLogged', up, up', cursors \subseteq Nat,
         NEW cursor, PersistSince(cursor)
  PROVE  StoredGood'
<1>1. /\ stage = "idle" /\ cursor \in Nat /\ log' = log
      /\ uuids' = uuids /\ orphans' = orphans /\ uuids \in Nat
  BY DEF PersistSince, vars, sequencer_vars, EngineInv, TypeOK, CallTypes
<1>2. CASE stored' = stored
  BY <1>1, <1>2, StoredGoodStays
<1>3. CASE stored' # stored
  <2>1. PICK rows, list : rows = stored' /\ list = InOrder(rows, [row \in rows |-> row.seq_id])
    OBVIOUS
  <2>2. loaded' = list
    BY <2>1, Zenon DEF loaded
  <2>3. IsFiniteSet(rows) /\ (\A row \in rows : RowSound(row))
        /\ \A one, other \in rows : one.seq_id = other.seq_id => one = other
    BY <2>1 DEF RowsSound
  <2>4. ListsRows(list, rows)
    BY <2>1, <2>3, RowsListed
  <2>5. PICK last : last = Len(log)
    OBVIOUS
  <2>6. /\ last \in Nat /\ DOMAIN log = 1..last
        /\ \A i \in 1..last : log[i].seq_id \in Nat
        /\ \A i, j \in 1..last : log[i].seq_id = log[j].seq_id => i = j
    BY <2>5, LogIdsRise DEF IdsRise
  <2>7. \A i \in 1..last : log[i].seq_id <= log[last].seq_id
    <3>1. \A i \in 2..last : log[i].seq_id = log[i - 1].seq_id + 1
      BY <2>5, ReplayedContiguous
    <3>2. \A i \in 1..last : log[i].seq_id = log[1].seq_id + (i - 1)
      BY ONLY <2>6, <3>1, IdsCount
    <3>3. ASSUME NEW i \in 1..last PROVE log[i].seq_id <= log[last].seq_id
      <4>1. 1 \in 1..last /\ last \in 1..last
        BY <2>6
      <4>2. PICK first : first = log[1].seq_id /\ first \in Nat
        BY <2>6, <4>1
      <4>3. log[i].seq_id = first + (i - 1) /\ log[last].seq_id = first + (last - 1)
        BY <3>2, <4>1, <4>2
      <4> QED BY <2>6, <4>2, <4>3
    <3> QED BY <3>3
  <2>8. PICK j \in 1..last : log[j].seq_id > cursor
    BY <1>3, <2>6 DEF PersistSince, append_events
  <2>9. last \in 1..last /\ log[last].seq_id > cursor
    BY <1>1, <2>6, <2>7, <2>8
  <2>10. log[last] \in rows
    <3>1. CASE log[last].seq_id \in StoredIds
      <4>1. PICK row \in stored : row.seq_id = log[last].seq_id
        BY <3>1 DEF StoredIds
      <4>2. PICK a \in 1..last : row = log[a]
        BY <2>6, <4>1 DEF RowsAreLogged
      <4>3. row = log[last]
        BY <2>6, <2>9, <4>1, <4>2
      <4> QED BY <2>1, <4>1, <4>3 DEF PersistSince, append_events
    <3>2. CASE log[last].seq_id \notin StoredIds
      BY <2>1, <2>6, <2>9, <3>2 DEF PersistSince, append_events
    <3> QED BY <3>1, <3>2
  <2>11. PICK p \in DOMAIN list : list[p] = log[last]
    BY <2>4, <2>10 DEF ListsRows
  <2>12. \A i \in DOMAIN list : \E a \in DOMAIN log : list[i] = log[a]
    <3>1. \A row \in rows : \E a \in DOMAIN log : log[a] = row
      BY <1>1, <2>1 DEF RowsAreLogged
    <3> QED BY <2>4, <3>1 DEF ListsRows
  <2>13. ASSUME replayed(list).error = "none" PROVE OrdersRestorable(replayed(list).orders)
    <3>1. log # << >>
      BY <2>5, <2>9, EmptyIsSeq
    <3>2. IsSeq(list) /\ \A i \in DOMAIN list : RowSound(list[i])
      BY <2>4 DEF ListsRows
    <3>3. PICK d \in Nat : Len(log) = d + Len(list) /\ \A i \in DOMAIN list : list[i] = log[d + i]
      BY <2>5, <2>11, <2>12, <2>13, <3>1, <3>2, RowsAreEnd
    <3>4. /\ IsSeq(log) /\ \A i \in DOMAIN log : RowFits(log[i])
          /\ replayed(log).error = "none"
      BY DEF LogSound, StoreHeld, MirrorInv, AheadSound
    <3>5. Among(replayed(list).orders, replayed(log).orders)
      BY <2>13, <3>2, <3>3, <3>4, EndReplays
    <3>6. OrdersRestorable(replayed(log).orders)
      BY <1>1, IdleRestorable
    <3> QED BY <3>5, <3>6, FewerRestorable
  <2>14. PICK rs, orders : rs = replayed(list) /\ orders = rs.orders
    OBVIOUS
  <2>15. rs.error = "none" => OrdersRestorable(orders)'
    BY <1>1, <2>13, <2>14 DEF OrdersRestorable, OrdersBounded, MarketsUncrossed
  <2>16. replayed(loaded') = rs
    BY <2>2, <2>14
  <2> QED BY <2>14, <2>15, <2>16 DEF StoredGood, OrdersRestorable, OrdersBounded, MarketsUncrossed
<1> QED BY <1>2, <1>3
-----------------------------------------------------------------------------
(* The orders that the admin has cancelled *)

EndsByAdmin(event, id) ==
  event.type = "order_cancelled" /\ event.order_id = id /\ event.reason = "admin_force"

\* The last of n events about the order is the admin's cancellation.
EndedIn(events, n, id) ==
  \E i \in 1..n : /\ EndsByAdmin(events[i].event, id)
                  /\ \A j \in i + 1 .. n : ~AboutOrder(events[j].event, id)

(* One more event ends the order, or leaves it as it was if it is not      *)
(* about it.                                                               *)
LEMMA EndedOneMore ==
  ASSUME NEW events, NEW n \in Nat, NEW more, \A i \in 1..n : more[i] = events[i],
         NEW event, event = more[n + 1].event, NEW id
  PROVE  EndedIn(more, n + 1, id) <=>
           EndsByAdmin(event, id) \/ (EndedIn(events, n, id) /\ ~AboutOrder(event, id))
<1>1. ASSUME EndsByAdmin(event, id) PROVE EndedIn(more, n + 1, id)
  <2>1. n + 1 \in 1..n + 1 /\ \A j \in (n + 1) + 1 .. n + 1 : FALSE
    OBVIOUS
  <2> QED BY <1>1, <2>1 DEF EndedIn
<1>2. ASSUME EndedIn(events, n, id), ~AboutOrder(event, id) PROVE EndedIn(more, n + 1, id)
  <2>1. PICK i \in 1..n : /\ EndsByAdmin(events[i].event, id)
                          /\ \A j \in i + 1 .. n : ~AboutOrder(events[j].event, id)
    BY <1>2 DEF EndedIn
  <2>2. ASSUME NEW j \in i + 1 .. n + 1 PROVE ~AboutOrder(more[j].event, id)
    <3>1. j = n + 1 \/ (j \in i + 1 .. n /\ j \in 1..n)
      OBVIOUS
    <3> QED BY <1>2, <2>1, <3>1
  <2>3. i \in 1..n + 1 /\ more[i] = events[i]
    OBVIOUS
  <2> QED BY <2>1, <2>2, <2>3 DEF EndedIn
<1>3. ASSUME EndedIn(more, n + 1, id), ~EndsByAdmin(event, id)
      PROVE  EndedIn(events, n, id) /\ ~AboutOrder(event, id)
  <2>1. PICK i \in 1..n + 1 : /\ EndsByAdmin(more[i].event, id)
                              /\ \A j \in i + 1 .. n + 1 : ~AboutOrder(more[j].event, id)
    BY <1>3 DEF EndedIn
  <2>2. i # n + 1
    BY <1>3, <2>1
  <2>3. i \in 1..n /\ n + 1 \in i + 1 .. n + 1
    BY <2>2
  <2>4. ASSUME NEW j \in i + 1 .. n PROVE ~AboutOrder(events[j].event, id)
    <3>1. j \in i + 1 .. n + 1 /\ j \in 1..n
      BY <2>3
    <3> QED BY <2>1, <3>1
  <2> QED BY <2>1, <2>3, <2>4 DEF EndedIn
<1> QED BY <1>1, <1>2, <1>3

(* A cancellation that replays is of a known order.                        *)
LEMMA CancelsKnown ==
  ASSUME NEW rs, IsReplay(rs), NEW se, se.event.type = "order_cancelled",
         NEW after, after = Apply(rs, se), after.error = "none"
  PROVE  se.event.order_id \in DOMAIN rs.orders
<1>1. PICK at, event : at = Reached(rs, se.seq_id) /\ event = se.event
  OBVIOUS
<1>2. IsReplay(at) /\ at.orders = rs.orders
  BY <1>1, ReachedParts
<1>3. rs.error = "none" /\ follows(rs, se.seq_id)
  <2>1. PICK gap : gap = [rs EXCEPT !.error = "SeqIdGap"]
    OBVIOUS
  <2>2. gap.error = "SeqIdGap"
    BY <2>1, ErrorParts
  <2>3. after # gap
    BY <2>2
  <2>4. rs.error = "none"
    BY ApplyCases
  <2> QED BY <2>1, <2>3, <2>4, ApplyCases
<1>4. after = replay_cancelled(at, event, se.seq_id)
  BY <1>1, <1>3, ApplyCases DEF Handled
<1>5. SUFFICES ASSUME event.order_id \notin DOMAIN at.orders PROVE FALSE
  BY <1>1, <1>2
<1>6. after = [at EXCEPT !.error = "UnknownOrder"]
  BY <1>4, <1>5 DEF replay_cancelled
<1> QED BY <1>2, <1>6, ErrorParts

\* No two of the events accept the same order.
AcceptsOnce(events, n) ==
  \A i, j \in 1..n : AcceptanceRow(events[i]) /\ AcceptanceRow(events[j]) /\ i # j =>
    events[i].event.order.order_id # events[j].event.order.order_id

(* What the admin has cancelled last is closed in the replay.              *)
LEMMA EndedIsClosed ==
  ASSUME NEW events, NEW n \in Nat, \A i \in 1..n : RowFits(events[i]), AcceptsOnce(events, n),
         NEW states, Runs(states, events, n), states[n].error = "none", NEW id, EndedIn(events, n, id)
  PROVE  id \in DOMAIN states[n].orders /\ is_closed(states[n].orders[id])
<1> DEFINE Open == {k \in 0..n : /\ EndedIn(events, k, id)
                                 /\ ~(/\ id \in DOMAIN states[k].orders
                                      /\ is_closed(states[k].orders[id]))}
<1>1. SUFFICES ASSUME Open # {} PROVE FALSE
  <2>1. n \in 0..n
    OBVIOUS
  <2> QED BY <1>1, <2>1
<1>2. PICK least \in Open : \A k \in Open : least <= k
  <2>1. Open \subseteq Nat
    OBVIOUS
  <2> HIDE DEF Open
  <2> QED BY <1>1, <2>1, LeastNatural
<1>3. least # 0
  BY <1>2 DEF EndedIn
<1>4. PICK k : k = least - 1
  OBVIOUS
<1>5. /\ k \in Nat /\ least = k + 1 /\ k \in 0..n /\ least \in 1..n /\ ~(least <= k)
      /\ (k + 1) - 1 = k /\ 1..k \subseteq 1..n
  BY <1>2, <1>3, <1>4
<1>6. PICK rs, se, after, event : /\ rs = states[k] /\ se = events[k + 1] /\ after = states[k + 1]
                                  /\ event = se.event
  OBVIOUS
<1>7. after = Apply(rs, se) /\ RowFits(se)
  BY <1>5, <1>6 DEF Runs
<1>8. rs.error = "none" /\ after.error = "none"
  BY <1>5, <1>6, NoErrorBefore
<1>9. IsReplay(rs) /\ IsMap(rs.orders, OrderIds, Orders) /\ OrdersFromRows(rs.orders, events, k)
  BY <1>5, <1>6, <1>8, RunsFit DEF ReplayFits
<1>10. OrdersAfter(rs.orders, se, after.orders)
  BY <1>7, <1>8, <1>9, AppliedFully DEF RowFits, IsMap
<1>11. EndsByAdmin(event, id) \/ (EndedIn(events, k, id) /\ ~AboutOrder(event, id))
  BY <1>2, <1>5, <1>6, EndedOneMore
<1>12. ~(id \in DOMAIN after.orders /\ is_closed(after.orders[id]))
  BY <1>2, <1>5, <1>6
<1>13. CASE EndsByAdmin(event, id)
  <2>1. event.type = "order_cancelled" /\ event.order_id = id
    BY <1>13 DEF EndsByAdmin
  <2>2. id \in DOMAIN rs.orders
    BY <1>6, <1>7, <1>8, <1>9, <2>1, CancelsKnown
  <2>3. id \in DOMAIN after.orders /\ after.orders[id] = AfterEvent(rs.orders[id], id, se)
    BY <1>6, <1>10, <2>1, <2>2 DEF OrdersAfter
  <2>4. AfterEvent(rs.orders[id], id, se) = replay_ended(rs.orders[id], event.reason, se.seq_id)
    BY <1>6, <2>1 DEF AfterEvent
  <2>5. rs.orders[id] \in Orders
    BY <1>9, <2>2 DEF IsMap
  <2>6. PICK rep, new : rep = rs.orders[id] /\ new = after.orders[id]
    OBVIOUS
  <2>7. is_closed(new)
    BY <2>3, <2>4, <2>5, <2>6, RepEnded
  <2> QED BY <1>12, <2>3, <2>6, <2>7
<1>14. CASE EndedIn(events, k, id) /\ ~AboutOrder(event, id)
  <2>1. id \in DOMAIN rs.orders /\ is_closed(rs.orders[id])
    BY <1>2, <1>5, <1>6, <1>14
  <2>2. CASE event.type = "order_accepted"
    <3>1. PICK i \in 1..k : AcceptedBy(events[i], rs.orders[id])
      BY <1>9, <2>1 DEF OrdersFromRows
    <3>2. rs.orders[id].order_id = id
      BY <1>9, <2>1 DEF OrdersFromRows
    <3>3. AcceptanceRow(events[i]) /\ events[i].event.order.order_id = id
      BY <3>1, <3>2 DEF AcceptedBy, AcceptanceRow
    <3>4. i \in 1..n /\ i # k + 1 /\ AcceptanceRow(events[k + 1])
      BY <1>5, <1>6, <2>2 DEF AcceptanceRow
    <3>5. event.order.order_id # id
      BY <1>5, <1>6, <3>3, <3>4 DEF AcceptsOnce
    <3>6. Added(rs.orders, event.order.order_id, event.order, after.orders)
      BY <1>6, <1>10, <2>2 DEF OrdersAfter
    <3>7. id \in DOMAIN after.orders /\ after.orders[id] = rs.orders[id]
      BY <2>1, <3>5, <3>6 DEF Added
    <3> QED BY <1>12, <2>1, <3>7
  <2>3. CASE event.type # "order_accepted"
    <3>1. id \in DOMAIN after.orders /\ after.orders[id] = AfterEvent(rs.orders[id], id, se)
      BY <1>6, <1>10, <2>1, <2>3 DEF OrdersAfter
    <3>2. AfterEvent(rs.orders[id], id, se) = rs.orders[id]
      BY <1>6, <1>14 DEF AfterEvent, AboutOrder
    <3> QED BY <1>12, <2>1, <3>1, <3>2
  <2> QED BY <2>2, <2>3
<1> QED BY <1>11, <1>13, <1>14

-----------------------------------------------------------------------------
(* Why the replay takes an order for closed *)

EndedAhead(id) == EndedIn(Ahead, Len(Ahead), id)

\* An order that the replay takes for closed is closed on its book, unless the
\* admin has cancelled it; the taker is closed.
BooksClosed ==
  \A m, id : OnBook(m, id) /\ is_closed(AheadOrders[id]) =>
    is_closed(OrderOn(m, id)) \/ EndedAhead(id)

TakerClosed == InProcessOrder /\ is_closed(AheadOrders[taker.order_id]) => is_closed(taker)

ClosedInv == BooksClosed /\ TakerClosed

(* One more row, and who is ended by it.                                   *)
LEMMA RowEnds ==
  ASSUME EngineInv, LogSound, AheadSound, NEW row, RowAhead(row), NEW id
  PROVE  EndedAhead(id)' <=>
           EndsByAdmin(row.event, id) \/ (EndedAhead(id) /\ ~AboutOrder(row.event, id))
<1>1. PICK all, more, n : all = Ahead /\ more = Ahead' /\ n = Len(all)
  OBVIOUS
<1>2. all \in Seq(SequencedEvents) /\ n \in Nat
  BY <1>1, AheadRows DEF RowsFollow
<1>3. more = Append(all, row) /\ row \in SequencedEvents
  BY <1>1 DEF RowAhead, RowFits
<1>4. Len(more) = n + 1 /\ more[n + 1] = row /\ \A i \in 1..n : more[i] = all[i]
  BY <1>1, <1>2, <1>3, AppendProperties
<1>5. EndedIn(more, n + 1, id) <=>
        EndsByAdmin(row.event, id) \/ (EndedIn(all, n, id) /\ ~AboutOrder(row.event, id))
  BY <1>2, <1>4, EndedOneMore
<1>6. EndedAhead(id)' <=> EndedIn(more, n + 1, id)
  BY <1>1, <1>4 DEF EndedAhead
<1>7. EndedAhead(id) <=> EndedIn(all, n, id)
  BY <1>1 DEF EndedAhead
<1> QED BY <1>5, <1>6, <1>7

\* The row is not about the order, and does not accept it.
Spares(row, id) ==
  /\ ~AboutOrder(row.event, id)
  /\ row.event.type = "order_accepted" => row.event.order.order_id # id

(* An order that the row spares.                                           *)
LEMMA RowSpares ==
  ASSUME EngineInv, LogSound, AheadSound, NEW row, RowAhead(row),
         NEW id \in DOMAIN AheadOrders, Spares(row, id)
  PROVE  AheadOrders'[id] = AheadOrders[id] /\ (EndedAhead(id)' <=> EndedAhead(id))
<1>1. PICK orders, after : orders = AheadOrders /\ after = AheadOrders'
  OBVIOUS
<1>2. OrdersAfter(orders, row, after) /\ id \in DOMAIN orders
  BY <1>1 DEF RowAhead
<1>3. after[id] = orders[id]
  <2>1. CASE row.event.type = "order_accepted"
    BY <1>2, <2>1 DEF OrdersAfter, Added, Spares
  <2>2. CASE row.event.type # "order_accepted"
    <3>1. after[id] = AfterEvent(orders[id], id, row)
      BY <1>2, <2>2 DEF OrdersAfter
    <3> QED BY <3>1 DEF AfterEvent, Spares, AboutOrder
  <2> QED BY <2>1, <2>2
<1>4. EndedAhead(id)' <=> EndedAhead(id)
  <2>1. ~EndsByAdmin(row.event, id)
    BY DEF Spares, AboutOrder, EndsByAdmin
  <2> QED BY <2>1, RowEnds DEF Spares
<1> QED BY <1>1, <1>3, <1>4

(* A step that puts one row behind the others.                             *)
LEMMA RowCloses ==
  ASSUME EngineInv, LogSound, MirrorInv, ClosedInv, NEW row, RowAhead(row),
         \A m, id : OnBook(m, id)' =>
           \/ OnBook(m, id) /\ OrderOn(m, id)' = OrderOn(m, id) /\ Spares(row, id)
           \/ is_closed(AheadOrders'[id]) => is_closed(OrderOn(m, id)') \/ EndsByAdmin(row.event, id),
         InProcessOrder' /\ is_closed(AheadOrders'[taker'.order_id]) => is_closed(taker')
  PROVE  ClosedInv'
<1>1. ASSUME NEW m, NEW id, OnBook(m, id)', is_closed(AheadOrders'[id])
      PROVE  is_closed(OrderOn(m, id)') \/ EndedAhead(id)'
  <2>1. CASE OnBook(m, id) /\ OrderOn(m, id)' = OrderOn(m, id) /\ Spares(row, id)
    <3>1. id \in DOMAIN AheadOrders
      BY <2>1 DEF MirrorInv, BooksMirrored
    <3>2. AheadOrders'[id] = AheadOrders[id] /\ (EndedAhead(id)' <=> EndedAhead(id))
      BY <2>1, <3>1, RowSpares DEF MirrorInv
    <3>3. is_closed(OrderOn(m, id)) \/ EndedAhead(id)
      BY <1>1, <2>1, <3>2 DEF ClosedInv, BooksClosed
    <3> QED BY <2>1, <3>2, <3>3
  <2>2. CASE EndsByAdmin(row.event, id)
    BY <2>2, RowEnds DEF MirrorInv
  <2> QED BY <1>1, <2>1, <2>2
<1>2. BooksClosed'
  BY <1>1 DEF BooksClosed
<1>3. TakerClosed'
  BY DEF TakerClosed
<1> QED BY <1>2, <1>3 DEF ClosedInv

(* A step that puts none.                                                  *)
LEMMA NoRowCloses ==
  ASSUME ClosedInv, Ahead' = Ahead,
         \A m, id : OnBook(m, id)' =>
           \/ OnBook(m, id) /\ OrderOn(m, id)' = OrderOn(m, id)
           \/ is_closed(AheadOrders[id]) => is_closed(OrderOn(m, id)'),
         InProcessOrder' => is_closed(taker') \/ (InProcessOrder /\ taker' = taker)
  PROVE  ClosedInv'
<1>1. AheadOrders' = AheadOrders /\ \A id : EndedAhead(id)' <=> EndedAhead(id)
  BY DEF AheadOrders, EndedAhead
<1>2. BooksClosed'
  BY <1>1 DEF ClosedInv, BooksClosed
<1>3. TakerClosed'
  BY <1>1 DEF ClosedInv, TakerClosed
<1> QED BY <1>2, <1>3 DEF ClosedInv

(* A step of the matching loop or of the admin's loop that changes neither *)
(* the books nor the taker.                                                *)
LEMMA QuietCloses ==
  ASSUME ClosedInv, Ahead' = Ahead, UNCHANGED <<books, taker>>, InProcessOrder' <=> InProcessOrder
  PROVE  ClosedInv'
<1>1. \A m, id : OnBook(m, id)' = OnBook(m, id) /\ OrderOn(m, id)' = OrderOn(m, id)
  BY DEF OnBook, OrderOn
<1> QED BY <1>1, NoRowCloses

LEMMA ProcessOrderCloses ==
  ASSUME EngineInv, EngineInv', LogSound, MirrorInv, ClosedInv,
         NEW signed \in SignedOrders, NEW now_ms, ProcessOrder(signed, now_ms)
  PROVE  ClosedInv'
<1>1. PICK order, event, row :
        /\ order = NewOrder(signed, uuids + 1)
        /\ event = [type |-> "order_accepted", order |-> order]
        /\ row = [seq_id |-> next_seq_id, event |-> event]
  OBVIOUS
<1>2. /\ stage = "idle" /\ append_event(event) /\ UNCHANGED <<books, fills>>
      /\ stage' = "idle" \/ taker' = order
  BY <1>1 DEF ProcessOrder
<1>3. uuids \in Nat /\ uuids + 1 \in OrderIds /\ next_seq_id \in Nat
  BY DEF EngineInv, TypeOK, SequencerTypes, CallTypes, OrderIds
<1>4. order \in Orders /\ order.order_id = uuids + 1 /\ order.created_sequence = next_seq_id
  BY <1>1, <1>3, NewOrderType
<1>5. fills = << >> /\ fills' = << >>
  BY <1>2 DEF InProcessOrder, MirrorInv, AheadSound, PendingFits
<1>6. /\ event.type = "order_accepted" /\ event.order = order
      /\ RowFits(row) /\ row.event = event
  BY <1>1, <1>4, AcceptanceFits
<1>7. Takes(DOMAIN AheadOrders, event)
  BY <1>6 DEF Takes
<1>8. RowAhead(row)
  BY <1>1, <1>2, <1>5, <1>6, <1>7, EventAhead DEF MirrorInv
<1>9. ASSUME NEW m, NEW id, OnBook(m, id)'
      PROVE  OnBook(m, id) /\ OrderOn(m, id)' = OrderOn(m, id) /\ Spares(row, id)
  <2>1. OnBook(m, id) /\ OrderOn(m, id)' = OrderOn(m, id)
    BY <1>2, <1>9 DEF OnBook, OrderOn
  <2>2. id \in DOMAIN AheadOrders
    BY <2>1 DEF MirrorInv, BooksMirrored
  <2>3. id <= uuids /\ id \in Nat
    BY <2>2, AheadTypes DEF MirrorInv, OrdersBounded, IsMap, OrderIds
  <2>4. id # uuids + 1
    BY <1>3, <2>3
  <2>5. Spares(row, id)
    BY <1>4, <1>6, <2>4 DEF Spares, AboutOrder
  <2> QED BY <2>1, <2>5
<1>10. ASSUME InProcessOrder', is_closed(AheadOrders'[taker'.order_id]) PROVE is_closed(taker')
  <2>1. taker' = order
    BY <1>2, <1>10 DEF InProcessOrder
  <2>2. PICK after : after = AheadOrders'
    OBVIOUS
  <2>3. Added(AheadOrders, order.order_id, order, after)
    BY <1>6, <1>8, <2>2 DEF RowAhead, OrdersAfter
  <2>4. after[order.order_id] = order
    BY <2>3 DEF Added
  <2> QED BY <1>10, <2>1, <2>2, <2>4
<1> QED BY <1>8, <1>9, <1>10, RowCloses

LEMMA SetStatusCloses ==
  ASSUME EngineInv, EngineInv', LogSound, MirrorInv, ClosedInv,
         NEW market_id \in Markets, NEW from, NEW to,
         NEW type \in {"market_paused", "market_resumed"}, SetStatus(market_id, from, to, type)
  PROVE  ClosedInv'
<1>1. PICK event : event = [type |-> type, market_id |-> market_id]
  OBVIOUS
<1>2. event \in Events /\ event.type \notin {"fill", "order_accepted", "order_cancelled"}
  BY <1>1 DEF Events
<1>3. stage = "idle" /\ stage' = stage /\ append_event(event) /\ fills' = fills
  BY <1>1 DEF SetStatus, matching_vars
<1>4. ~InProcessOrder' /\ fills = << >> /\ fills' = << >>
  BY <1>3 DEF InProcessOrder, MirrorInv, AheadSound, PendingFits
<1>5. PICK row : row.event = event /\ RowAhead(row)
  BY <1>2, <1>3, <1>4, OtherEventAhead DEF MirrorInv
<1>6. ASSUME NEW m, NEW id, OnBook(m, id)'
      PROVE  OnBook(m, id) /\ OrderOn(m, id)' = OrderOn(m, id)
  BY <1>6, SetStatusOrders
<1>7. \A id : Spares(row, id)
  BY <1>2, <1>5 DEF Spares, AboutOrder
<1> QED BY <1>4, <1>5, <1>6, <1>7, RowCloses

(* The order of the row is known to the replay, and is cancelled.          *)
LEMMA CancellationAhead ==
  ASSUME EngineInv, EngineInv', LogSound, MirrorInv, fills = << >>, fills' = << >>,
         NEW id \in DOMAIN AheadOrders, NEW order \in Orders, NEW reason \in CancelReasons,
         NEW event, event = OrderCancelled(id, order.order_hash, reason), append_event(event)
  PROVE  \E row : /\ RowAhead(row) /\ row.event.type = "order_cancelled"
                  /\ row.event.order_id = id /\ row.event.reason = reason
                  /\ \A other : other # id => Spares(row, other)
<1>1. /\ event.type = "order_cancelled" /\ event.order_id = id /\ event.reason = reason
  BY DEF OrderCancelled
<1>2. event \in Events
  <2>1. order.order_hash \in Hashes
    BY DEF Orders
  <2>2. id \in OrderIds
    BY AheadTypes DEF MirrorInv, IsMap
  <2> QED BY <2>1, <2>2 DEF OrderCancelled, Events
<1>3. PICK row : row.event = event /\ RowAhead(row)
  BY <1>1, <1>2, OtherEventAhead DEF MirrorInv
<1>4. \A other : other # id => Spares(row, other)
  BY <1>1, <1>3 DEF Spares, AboutOrder
<1> QED BY <1>1, <1>3, <1>4

LEMMA ProcessCancelCloses ==
  ASSUME EngineInv, EngineInv', QueueInv, LogSound, MirrorInv, ClosedInv,
         NEW gone, NEW trader_id, ProcessCancel(gone, trader_id)
  PROVE  ClosedInv'
<1>1. PICK order, event : /\ order = find_order(gone)
                          /\ event = OrderCancelled(gone, order.order_hash, "trader_request")
  OBVIOUS
<1>2. stage = "idle" /\ stage' = stage /\ append_event(event) /\ fills' = fills /\ order # NoOrder
  BY <1>1 DEF ProcessCancel, matching_vars
<1>3. ~InProcessOrder' /\ fills = << >> /\ fills' = << >>
  BY <1>2 DEF InProcessOrder, MirrorInv, AheadSound, PendingFits
<1>4. PICK m0 : OnBook(m0, gone) /\ order = OrderOn(m0, gone)
  BY <1>1, <1>2 DEF find_order, OnBook, OrderOn
<1>5. gone \in DOMAIN AheadOrders /\ order \in Orders
  BY <1>4, OnBookOrder DEF MirrorInv, BooksMirrored
<1>6. "trader_request" \in CancelReasons
  BY DEF CancelReasons
<1>7. PICK row : /\ RowAhead(row) /\ row.event.type = "order_cancelled"
                 /\ row.event.order_id = gone /\ row.event.reason = "trader_request"
                 /\ \A other : other # gone => Spares(row, other)
  BY <1>1, <1>2, <1>3, <1>5, <1>6, CancellationAhead
<1>8. ASSUME NEW m, NEW id, OnBook(m, id)'
      PROVE  \/ OnBook(m, id) /\ OrderOn(m, id)' = OrderOn(m, id) /\ Spares(row, id)
             \/ is_closed(OrderOn(m, id)')
  <2>1. OnBook(m, id)
    BY <1>8, ProcessCancelOrders
  <2>2. CASE id # gone /\ OrderOn(m, id)' = OrderOn(m, id)
    BY <1>7, <2>1, <2>2
  <2>3. CASE OrderOn(m, id)' = [OrderOn(m, id) EXCEPT !.status = "cancelled"]
    <3>1. PICK live, new : live = OrderOn(m, id) /\ new = OrderOn(m, id)'
      OBVIOUS
    <3>2. live \in Orders /\ new = [live EXCEPT !.status = "cancelled"]
      BY <2>1, <2>3, <3>1, OnBookOrder
    <3>3. new.status = "cancelled"
      BY <3>2 DEF Orders
    <3> QED BY <3>1, <3>3 DEF is_closed
  <2> QED BY <2>1, <2>2, <2>3, ProcessCancelOrders
<1> QED BY <1>3, <1>7, <1>8, RowCloses

LEMMA CancelNextCloses ==
  ASSUME EngineInv, EngineInv', LogSound, MirrorInv, ClosedInv, CancelNext
  PROVE  ClosedInv'
<1>1. PICK i \in to_cancel :
        append_event(OrderCancelled(log[i].event.order.order_id, log[i].event.order.order_hash,
                                    "admin_force"))
  BY DEF CancelNext
<1>2. i \in Accepted
  BY DEF EngineInv, CallFits
<1>3. PICK order, event : /\ order = OrderAt(i)
                          /\ event = OrderCancelled(order.order_id, order.order_hash, "admin_force")
  OBVIOUS
<1>4. append_event(event)
  BY <1>1, <1>3 DEF OrderAt
<1>5. order \in Orders /\ order.order_id \in DOMAIN AheadOrders
  BY <1>2, <1>3, AcceptedOrder, AcceptedAhead DEF MirrorInv
<1>6. UNCHANGED <<books, taker, fills>> /\ stage = "cancelling" /\ stage' \in {"cancelling", "idle"}
  BY DEF CancelNext, engine_vars, matching_vars
<1>7. ~InProcessOrder' /\ fills = << >> /\ fills' = << >>
  BY <1>6 DEF InProcessOrder, MirrorInv, AheadSound, PendingFits
<1>8. "admin_force" \in CancelReasons
  BY DEF CancelReasons
<1>9. PICK id0 : id0 = order.order_id
  OBVIOUS
<1>10. PICK row : /\ RowAhead(row) /\ row.event.type = "order_cancelled"
                  /\ row.event.order_id = id0 /\ row.event.reason = "admin_force"
                  /\ \A other : other # id0 => Spares(row, other)
  BY <1>3, <1>4, <1>5, <1>7, <1>8, <1>9, CancellationAhead
<1>11. EndsByAdmin(row.event, id0)
  BY <1>10 DEF EndsByAdmin
<1>12. \A m, id : OnBook(m, id)' = OnBook(m, id) /\ OrderOn(m, id)' = OrderOn(m, id)
  BY <1>6 DEF OnBook, OrderOn
<1>13. \A m, id : OnBook(m, id)' =>
         \/ OnBook(m, id) /\ OrderOn(m, id)' = OrderOn(m, id) /\ Spares(row, id)
         \/ EndsByAdmin(row.event, id)
  BY <1>10, <1>11, <1>12
<1> QED BY <1>7, <1>10, <1>13, RowCloses

LEMMA FinishOrderCloses ==
  ASSUME EngineInv, EngineInv', QueueInv, LogSound, MirrorInv, ClosedInv, FinishOrder
  PROVE  ClosedInv'
<1>1. /\ stage = "recording" /\ stage' = "idle" /\ fills = << >> /\ fills' = fills
      /\ IF taker.status = "cancelled_stp"
         THEN append_event(OrderCancelled(taker.order_id, taker.order_hash, "self_trade_prevention"))
         ELSE UNCHANGED <<log, next_seq_id>>
  BY DEF FinishOrder
<1>2. InProcessOrder /\ ~InProcessOrder' /\ fills' = << >>
  BY <1>1 DEF InProcessOrder
<1>3. PICK id0 : id0 = taker.order_id
  OBVIOUS
<1>4. taker \in Orders /\ id0 \in DOMAIN AheadOrders
  BY <1>2, <1>3 DEF EngineInv, CallFits, MirrorInv, TakerMirrored
<1>5. ASSUME NEW m, NEW id, OnBook(m, id)'
      PROVE  \/ OnBook(m, id) /\ OrderOn(m, id)' = OrderOn(m, id) /\ id # id0
             \/ /\ Wants(taker) /\ id = id0 /\ OrderOn(m, id)' = taker
  BY <1>3, <1>5, FinishOrderOrders
<1>6. CASE taker.status = "cancelled_stp"
  <2>1. ~Wants(taker)
    BY <1>6 DEF Wants, is_closed
  <2>2. "self_trade_prevention" \in CancelReasons
    BY DEF CancelReasons
  <2>3. PICK order, event : /\ order = taker
                            /\ event = OrderCancelled(id0, order.order_hash, "self_trade_prevention")
    OBVIOUS
  <2>4. append_event(event)
    BY <1>1, <1>3, <1>6, <2>3
  <2>5. PICK row : /\ RowAhead(row) /\ row.event.type = "order_cancelled"
                   /\ row.event.order_id = id0 /\ row.event.reason = "self_trade_prevention"
                   /\ \A other : other # id0 => Spares(row, other)
    <3>1. order \in Orders /\ fills = << >> /\ fills' = << >>
      BY <1>1, <1>2, <1>4, <2>3
    <3> QED BY <1>4, <2>2, <2>3, <2>4, <3>1, CancellationAhead
  <2>6. \A m, id : OnBook(m, id)' => OnBook(m, id) /\ OrderOn(m, id)' = OrderOn(m, id) /\ Spares(row, id)
    BY <1>5, <2>1, <2>5
  <2> QED BY <1>2, <2>5, <2>6, RowCloses
<1>7. CASE taker.status # "cancelled_stp"
  <2>1. Ahead' = Ahead
    BY <1>1, <1>7 DEF Ahead
  <2>2. is_closed(AheadOrders[id0]) => is_closed(taker)
    BY <1>2, <1>3 DEF ClosedInv, TakerClosed
  <2>3. \A m, id : OnBook(m, id)' =>
          \/ OnBook(m, id) /\ OrderOn(m, id)' = OrderOn(m, id)
          \/ is_closed(AheadOrders[id]) => is_closed(OrderOn(m, id)')
    BY <1>5, <2>2
  <2> QED BY <1>2, <2>1, <2>3, NoRowCloses
<1> QED BY <1>6, <1>7

LEMMA MatchMakerCloses ==
  ASSUME EngineInv, EngineInv', QueueInv, LogSound, MirrorInv, ClosedInv, MatchMaker,
         UNCHANGED orphans
  PROVE  ClosedInv'
<1>1. PICK m0, id1, maker : /\ m0 = taker.signed.market_id /\ id1 = Head(maker_ids)
                            /\ maker = OrderOn(m0, id1)
  OBVIOUS
<1>2. PICK book, side : book = books[m0] /\ side = Opposite(taker.signed.side)
  OBVIOUS
<1>3. maker = book.orders[id1]
  BY <1>1, <1>2 DEF OrderOn
<1>4. /\ Wants(taker) /\ m0 \in DOMAIN books /\ id1 \in DOMAIN book.orders
      /\ maker \in Orders /\ maker.order_id = id1 /\ maker.signed.market_id = m0
      /\ maker.filled_size_lots <= maker.signed.size_lots /\ remaining_size_lots(maker) > 0
      /\ \/ self_trade(maker) /\ StpCancelTaker(maker)
         \/ ~self_trade(maker) /\ FillMaker(maker)
  BY <1>1, <1>2, <1>3, MatchMakerMeets
<1>5. OnBook(m0, id1)
  BY <1>2, <1>4 DEF OnBook
<1>6. CASE StpCancelTaker(maker)
  <2>1. Ahead' = Ahead
    BY <1>6 DEF StpCancelTaker, MatchMaker, sequencer_vars, Ahead
  <2>2. \A m, id : OnBook(m, id)' = OnBook(m, id) /\ OrderOn(m, id)' = OrderOn(m, id)
    BY <1>6 DEF StpCancelTaker, OnBook, OrderOn
  <2>3. taker \in Orders
    BY DEF EngineInv, CallFits, InProcessOrder, MatchMaker
  <2>4. taker'.status = "cancelled_stp"
    BY <1>6, <2>3 DEF StpCancelTaker, Orders
  <2>5. is_closed(taker')
    BY <2>4 DEF is_closed
  <2> QED BY <2>1, <2>2, <2>5, NoRowCloses
<1>7. CASE FillMaker(maker)
  <2>1. FilledTogether
    BY <1>1, <1>4, <1>5, <1>7, FillMakerMirrors
  <2>2. PICK row :
          /\ RowAhead(row) /\ row.event.type = "fill"
          /\ is_closed(taker') <=> is_closed(AheadOrders'[taker'.order_id])
          /\ \A m, id : OnBook(m, id)' =>
               \/ /\ OnBook(m, id) /\ OrderOn(m, id)' = OrderOn(m, id)
                  /\ ~AboutOrder(row.event, id)
               \/ is_closed(OrderOn(m, id)') <=> is_closed(AheadOrders'[id])
    BY <2>1 DEF FilledTogether
  <2>3. \A id : ~AboutOrder(row.event, id) => Spares(row, id)
    BY <2>2 DEF Spares
  <2> QED BY <2>2, <2>3, RowCloses
<1> QED BY <1>4, <1>6, <1>7

LEMMA ClosedStep ==
  ASSUME EngineInv, EngineInv', QueueInv, LogSound, MirrorInv, ClosedInv, [Next]_vars, OrphansAfter
  PROVE  ClosedInv'
<1>1. CASE \E signed \in SignedOrders, now_ms \in Times : ProcessOrder(signed, now_ms)
  BY <1>1, ProcessOrderCloses
<1>2. CASE \E id, trader_id : ProcessCancel(id, trader_id)
  BY <1>2, ProcessCancelCloses
<1>3. CASE \E market_id \in Markets : PauseMarket(market_id) \/ ResumeMarket(market_id)
  <2>1. PICK market_id \in Markets : \/ SetStatus(market_id, "active", "paused", "market_paused")
                                     \/ SetStatus(market_id, "paused", "active", "market_resumed")
    BY <1>3 DEF PauseMarket, ResumeMarket
  <2> QED BY <2>1, SetStatusCloses
<1>4. CASE \E market_id \in Markets : CancelAllOrders(market_id)
  <2>1. /\ UNCHANGED <<log, next_seq_id, fills, books, taker>>
        /\ stage = "idle" /\ stage' = "cancelling"
    BY <1>4 DEF CancelAllOrders, engine_vars, sequencer_vars, matching_vars
  <2> QED BY <2>1, QuietCloses DEF Ahead, InProcessOrder
<1>5. CASE NextLevel
  <2>1. UNCHANGED <<log, next_seq_id, fills, books, taker, stage>>
    BY <1>5 DEF NextLevel, engine_vars, sequencer_vars
  <2> QED BY <2>1, QuietCloses DEF Ahead, InProcessOrder
<1>6. CASE MatchMaker
  <2>1. orphans' = orphans
    BY <1>6 DEF MatchMaker, OrphansAfter, Panics
  <2> QED BY <1>6, <2>1, MatchMakerCloses
<1>7. CASE EndMatch
  <2>1. /\ UNCHANGED <<log, next_seq_id, fills, books, taker>>
        /\ stage = "matching" /\ stage' = "recording"
    BY <1>7 DEF EndMatch, engine_vars, sequencer_vars
  <2> QED BY <2>1, QuietCloses DEF Ahead, InProcessOrder
<1>8. CASE RecordFill
  <2>1. Ahead' = Ahead
    BY <1>8, RecordFillAhead DEF MirrorInv
  <2>2. UNCHANGED <<books, taker, stage>>
    BY <1>8 DEF RecordFill, engine_vars
  <2> QED BY <2>1, <2>2, QuietCloses DEF InProcessOrder
<1>9. CASE FinishOrder
  BY <1>9, FinishOrderCloses
<1>10. CASE CancelNext
  BY <1>10, CancelNextCloses
<1>11. CASE UNCHANGED vars
  <2>1. UNCHANGED <<log, next_seq_id, fills, books, taker, stage>>
    BY <1>11 DEF vars, engine_vars, sequencer_vars, matching_vars
  <2> QED BY <2>1, QuietCloses DEF Ahead, InProcessOrder
<1> QED
  BY <1>1, <1>2, <1>3, <1>4, <1>5, <1>6, <1>7, <1>8, <1>9, <1>10, <1>11
     DEF Next, Call, Continue, CancelByClientId

(* The rebuilt books hold the open orders of the rows.                     *)
LEMMA RestoredCloses ==
  ASSUME NEW events, NEW rs, NEW n, Restoring(events, rs, n), RestoredFrom(events, rs, n),
         next_seq_id' \in Nat
  PROVE  ClosedInv'
<1>1. BooksRebuilt(books', rs.orders)
  BY RestoredBooks DEF Restoring, RestoredFrom
<1>2. log' = events /\ fills' = << >> /\ ~InProcessOrder'
  BY DEF RestoredFrom, InProcessOrder
<1>3. Ahead' = events
  BY <1>2, NothingAhead DEF Ahead, Restoring
<1>4. AheadOrders' = rs.orders
  BY <1>3 DEF AheadOrders, Restoring
<1>5. ASSUME NEW m, NEW id, OnBook(m, id)' PROVE OrderOn(m, id)' = AheadOrders'[id]
  BY <1>1, <1>4, <1>5 DEF OnBook, OrderOn, BooksRebuilt, Rebuilt, OpenIn
<1> QED BY <1>2, <1>5 DEF ClosedInv, BooksClosed, TakerClosed

-----------------------------------------------------------------------------
(* Two queues of the same orders *)

(* A queue holds the orders that rest at its price, in the order in which  *)
(* they were accepted.                                                     *)
LEMMA QueueOrders ==
  ASSUME NEW market_id, NEW book, BookFits(book, market_id), QueuesSound(book),
         NEW side \in Sides, NEW p, NEW queue, queue = orders_at_price(book, p, side)
  PROVE  /\ \A id : id \in ToSet(queue) <=>
                      id \in DOMAIN book.orders /\ RestsAt(book.orders[id], side, p)
         /\ \A one, other \in ToSet(queue) : Precedes(queue, one, other) <=>
              book.orders[one].created_sequence < book.orders[other].created_sequence
<1>1. PICK levels, orders : levels = book.queues[side] /\ orders = book.orders
  OBVIOUS
<1>2. /\ IsMap(levels, Nat, Seq(OrderIds)) /\ IsMap(orders, OrderIds, Orders)
  BY <1>1 DEF BookFits, IsBook
<1>3. queue = IF p \in DOMAIN levels THEN levels[p] ELSE << >>
  BY <1>1 DEF orders_at_price
<1>4. DOMAIN queue \subseteq Nat
  BY <1>2, <1>3, EmptyIsSeq, LenProperties DEF IsMap
<1>5. ASSUME NEW i \in DOMAIN queue
      PROVE  queue[i] \in DOMAIN orders /\ RestsAt(orders[queue[i]], side, p)
  BY <1>1, <1>3, <1>5, EmptyIsSeq DEF QueuesSound, QueueSound
<1>6. ASSUME NEW i \in DOMAIN queue, NEW j \in DOMAIN queue, i < j
      PROVE  orders[queue[i]].created_sequence < orders[queue[j]].created_sequence
  BY <1>1, <1>3, <1>6, EmptyIsSeq DEF QueuesSound, QueueSound
<1>7. ASSUME NEW id \in DOMAIN orders, RestsAt(orders[id], side, p)
      PROVE  \E i \in DOMAIN queue : queue[i] = id
  <2>1. PICK order : order = orders[id]
    OBVIOUS
  <2>2. ~is_closed(order) /\ order.signed.side = side /\ order.signed.price_ticks = p
    BY <1>7, <2>1 DEF RestsAt
  <2>3. Holds(book.queues[order.signed.side], order.signed.price_ticks, id)
    BY <1>1, <1>7, <2>1, <2>2 DEF QueuesSound
  <2>4. Holds(levels, p, id)
    BY <1>1, <2>2, <2>3
  <2> QED BY <1>3, <2>4 DEF Holds
<1>8. \A id : id \in ToSet(queue) <=> id \in DOMAIN orders /\ RestsAt(orders[id], side, p)
  BY <1>5, <1>7 DEF ToSet
<1>9. ASSUME NEW one \in ToSet(queue), NEW other \in ToSet(queue)
      PROVE  Precedes(queue, one, other) <=>
               orders[one].created_sequence < orders[other].created_sequence
  <2>1. PICK i \in DOMAIN queue, j \in DOMAIN queue : queue[i] = one /\ queue[j] = other
    BY DEF ToSet
  <2>2. PICK a, b : a = orders[one].created_sequence /\ b = orders[other].created_sequence
    OBVIOUS
  <2>3. a \in Nat /\ b \in Nat /\ i \in Nat /\ j \in Nat
    <3>1. orders[one] \in Orders /\ orders[other] \in Orders
      BY <1>2, <1>8 DEF IsMap
    <3> QED BY <1>4, <2>2, <3>1 DEF Orders
  <2>4. ASSUME Precedes(queue, one, other) PROVE a < b
    BY <1>6, <2>2, <2>4 DEF Precedes
  <2>5. ASSUME a < b PROVE Precedes(queue, one, other)
    <3>1. i # j
      BY <2>1, <2>2, <2>3, <2>5
    <3>2. ~(j < i)
      <4>1. j < i => b < a
        BY <1>6, <2>1, <2>2
      <4> QED BY <2>3, <2>5, <4>1
    <3>3. i < j
      BY <2>3, <3>1, <3>2
    <3> QED BY <2>1, <3>3 DEF Precedes
  <2> QED BY <2>2, <2>4, <2>5
<1> QED BY <1>1, <1>8, <1>9

\* What SameBook says of two queues.
SameQueue(live, again, kept, book, rebuilt) ==
  /\ kept = ToSet(again) \cap DOMAIN book.orders
  /\ \A one, other \in kept : Precedes(live, one, other) <=> Precedes(again, one, other)
  /\ \A id \in kept : rebuilt.orders[id].filled_size_lots = book.orders[id].filled_size_lots

StillOpen(queue, orders) == {id \in ToSet(queue) : ~is_closed(orders[id])}

BookMirrored(book, orders) ==
  \A id \in DOMAIN book.orders : id \in DOMAIN orders /\ Mirrors(book.orders[id], orders[id])

(* The queue of a live book and the queue of its rebuilt one.              *)
LEMMA QueuesAgree ==
  ASSUME NEW m, NEW book, BookFits(book, m), QueuesSound(book),
         NEW orders, BookMirrored(book, orders), NEW rebuilt, Rebuilt(rebuilt, orders, m),
         NEW side \in Sides, NEW p,
         NEW live, live = orders_at_price(book, p, side),
         NEW again, again = orders_at_price(rebuilt, p, side),
         NEW kept, kept = StillOpen(live, orders)
  PROVE  SameQueue(live, again, kept, book, rebuilt)
<1> USE DEF BookMirrored, StillOpen
<1>1. \A id \in DOMAIN rebuilt.orders : rebuilt.orders[id] = orders[id]
  BY DEF Rebuilt
<1>2. DOMAIN rebuilt.orders = OpenIn(orders, m) /\ BookFits(rebuilt, m) /\ QueuesSound(rebuilt)
  BY DEF Rebuilt
<1>3. \A id : id \in ToSet(live) <=>
                id \in DOMAIN book.orders /\ RestsAt(book.orders[id], side, p)
  BY QueueOrders
<1>4. \A id : id \in ToSet(again) <=>
                id \in DOMAIN rebuilt.orders /\ RestsAt(rebuilt.orders[id], side, p)
  BY <1>2, QueueOrders
<1>5. ASSUME NEW id \in DOMAIN book.orders
      PROVE  id \in ToSet(live) /\ ~is_closed(orders[id]) <=> id \in ToSet(again)
  <2>1. PICK one, rep : one = book.orders[id] /\ rep = orders[id]
    OBVIOUS
  <2>2. id \in DOMAIN orders /\ rep.signed = one.signed /\ (is_closed(one) => is_closed(rep))
    BY <2>1 DEF Mirrors
  <2>3. one.signed.market_id = m
    BY <2>1 DEF BookFits, OrdersFit
  <2>4. id \in DOMAIN rebuilt.orders <=> ~is_closed(rep)
    BY <1>2, <2>1, <2>2, <2>3 DEF OpenIn
  <2> QED BY <1>1, <1>3, <1>4, <2>1, <2>2, <2>4 DEF RestsAt
<1>6. kept = ToSet(again) \cap DOMAIN book.orders
  BY <1>3, <1>5
<1>7. ASSUME NEW id \in kept
      PROVE  /\ id \in ToSet(live) /\ id \in ToSet(again)
             /\ rebuilt.orders[id].created_sequence = book.orders[id].created_sequence
             /\ rebuilt.orders[id].filled_size_lots = book.orders[id].filled_size_lots
  <2>1. id \in ToSet(live) /\ id \in ToSet(again) /\ id \in DOMAIN book.orders
    BY <1>6
  <2>2. rebuilt.orders[id] = orders[id]
    BY <1>1, <1>4, <2>1
  <2> QED BY <2>1, <2>2 DEF Mirrors
<1>8. ASSUME NEW one \in kept, NEW other \in kept
      PROVE  Precedes(live, one, other) <=> Precedes(again, one, other)
  <2>1. Precedes(live, one, other) <=>
          book.orders[one].created_sequence < book.orders[other].created_sequence
    BY <1>7, QueueOrders
  <2>2. Precedes(again, one, other) <=>
          rebuilt.orders[one].created_sequence < rebuilt.orders[other].created_sequence
    BY <1>2, <1>7, QueueOrders
  <2> QED BY <1>7, <2>1, <2>2
<1> QED BY <1>6, <1>7, <1>8 DEF SameQueue

(* Between calls nothing is ahead of the log.                              *)
LEMMA LogAhead ==
  ASSUME EngineInv, LogSound, MirrorInv, stage = "idle"
  PROVE  /\ Ahead = log /\ log \in Seq(SequencedEvents) /\ Len(log) \in Nat
         /\ IsSeq(log) /\ DOMAIN log = 1..Len(log)
         /\ \A i \in 1..Len(log) : RowFits(log[i])
         /\ AheadOrders = replayed(log).orders /\ replayed(log).error = "none"
<1>1. log \in Seq(SequencedEvents) /\ next_seq_id \in Nat
  BY DEF EngineInv, TypeOK, SequencerTypes
<1>2. fills = << >>
  BY DEF InProcessOrder, MirrorInv, AheadSound, PendingFits
<1>3. Ahead = log
  BY <1>1, <1>2, NothingAhead DEF Ahead
<1>4. IsSeq(log) /\ DOMAIN log = 1..Len(log) /\ Len(log) \in Nat
  BY <1>1, SeqIsSeq, LenProperties
<1> QED BY <1>1, <1>3, <1>4 DEF AheadOrders, MirrorInv, AheadSound

(* An open order of a book is closed in the replay of the log exactly if   *)
(* the admin has cancelled it since it was last filled.                    *)
LEMMA ClosedByAdmin ==
  ASSUME EngineInv, LogSound, MirrorInv, ClosedInv, KeysInv, stage = "idle",
         NEW m, NEW id, OnBook(m, id), ~is_closed(OrderOn(m, id))
  PROVE  is_closed(AheadOrders[id]) <=> EndedByAdmin(id)
<1>1. PICK events, n : events = log /\ n = Len(log)
  OBVIOUS
<1>2. /\ Ahead = events /\ n \in Nat /\ IsSeq(events) /\ DOMAIN events = 1..n
      /\ \A i \in 1..n : RowFits(events[i])
      /\ AheadOrders = replayed(events).orders /\ replayed(events).error = "none"
  BY <1>1, LogAhead
<1>3. EndedByAdmin(id) <=> EndedIn(events, n, id)
  BY <1>1, <1>2 DEF EndedByAdmin, EndedIn, EndsByAdmin
<1>4. is_closed(AheadOrders[id]) => EndedIn(events, n, id)
  BY <1>1, <1>2 DEF ClosedInv, BooksClosed, EndedAhead
<1>5. AcceptsOnce(events, n)
  BY <1>1, <1>2 DEF KeysInv, AcceptedOnce, Accepted, AcceptsOnce, AcceptanceRow
<1>6. PICK states : Runs(states, events, n) /\ replayed(events) = states[n]
  BY <1>1, <1>2, ReplayRuns
<1>7. states[n].error = "none" /\ AheadOrders = states[n].orders
  BY <1>2, <1>6
<1>8. EndedIn(events, n, id) => is_closed(states[n].orders[id])
  BY <1>2, <1>5, <1>6, <1>7, EndedIsClosed
<1> QED BY <1>3, <1>4, <1>7, <1>8

(* The replay of the log is fit to be put on books.                        *)
LEMMA LogReady ==
  ASSUME EngineInv, LogSound, MirrorInv, stage = "idle"
  PROVE  OrdersReady(replayed(log).orders)
<1>1. PICK events, n, rs, orders : /\ events = log /\ n = Len(log)
                                   /\ rs = replayed(log) /\ orders = rs.orders
  OBVIOUS
<1>2. /\ n \in Nat /\ IsSeq(events) /\ DOMAIN events = 1..n
      /\ \A i \in 1..n : RowFits(events[i])
      /\ AheadOrders = orders /\ rs.error = "none"
  BY <1>1, LogAhead
<1>3. \A i \in 1..n : RowSound(events[i])
  BY <1>2 DEF RowFits
<1>4. ReplaySound(rs, events, n) /\ ReplayFits(rs, events, n)
  BY <1>1, <1>2, <1>3, ReplayIsSound, ReplayTyped
<1>5. /\ \A i \in 2..n : events[i].seq_id = events[i - 1].seq_id + 1
      /\ OrdersAccepted(orders, events, n)
      /\ IsMap(orders, OrderIds, Orders) /\ OrdersFromRows(orders, events, n)
  BY <1>1, <1>2, <1>4 DEF ReplaySound, ReplayFits
<1>6. OrdersDistinct(orders)
  BY <1>2, <1>3, <1>5, AcceptedDistinct
<1>7. OrdersBounded(orders)
  BY <1>2 DEF MirrorInv
<1> QED BY <1>1, <1>5, <1>6, <1>7 DEF OrdersReady, OrdersFromRows

(* Between calls the live books and the rebuilt ones agree.                *)
LEMMA BooksAgree ==
  ASSUME EngineInv, QueueInv, LogSound, MirrorInv, ClosedInv, KeysInv
  PROVE  BooksMatchReplay
<1>1. SUFFICES ASSUME stage = "idle", NEW m \in DOMAIN books,
                      NEW rs, rs = replayed(log), NEW book, book = books[m],
                      NEW rebuilt, rebuilt = build_book(rs, m)
               PROVE  SameBook(book, rebuilt)
  BY DEF BooksMatchReplay
<1>3. PICK orders : orders = rs.orders
  OBVIOUS
<1>4. AheadOrders = orders
  BY <1>1, <1>3, LogAhead
<1>5. Rebuilt(rebuilt, orders, m)
  <2>1. OrdersReady(rs.orders)
    BY <1>1, LogReady
  <2> QED BY <1>1, <1>3, <2>1, BookRebuilt
<1>6. BookFits(book, m) /\ QueuesSound(book)
  BY <1>1 DEF EngineInv, BooksFit, QueueInv, BooksSound
<1>7. ASSUME NEW id \in DOMAIN book.orders
      PROVE  OnBook(m, id) /\ OrderOn(m, id) = book.orders[id]
  BY <1>1, <1>7 DEF OnBook, OrderOn
<1>8. BookMirrored(book, orders)
  BY <1>4, <1>7 DEF MirrorInv, BooksMirrored, BookMirrored
<1>9. ASSUME NEW side \in Sides, NEW p, NEW live, live = orders_at_price(book, p, side)
      PROVE  {id \in ToSet(live) : ~EndedByAdmin(id)} = StillOpen(live, orders)
  <2>1. \A id : id \in ToSet(live) <=>
                  id \in DOMAIN book.orders /\ RestsAt(book.orders[id], side, p)
    BY <1>6, <1>9, QueueOrders
  <2>2. ASSUME NEW id \in ToSet(live) PROVE is_closed(orders[id]) <=> EndedByAdmin(id)
    <3>1. id \in DOMAIN book.orders /\ ~is_closed(book.orders[id])
      BY <2>1 DEF RestsAt
    <3>2. OnBook(m, id) /\ ~is_closed(OrderOn(m, id))
      BY <1>7, <3>1
    <3> QED BY <1>1, <1>4, <3>2, ClosedByAdmin
  <2> QED BY <2>2 DEF StillOpen
<1>10. ASSUME NEW side \in Sides, NEW p
       PROVE  LET live == orders_at_price(book, p, side)
                  again == orders_at_price(rebuilt, p, side)
                  kept == {id \in ToSet(live) : ~EndedByAdmin(id)}
              IN SameQueue(live, again, kept, book, rebuilt)
  <2>1. PICK live, again, kept : /\ live = orders_at_price(book, p, side)
                                 /\ again = orders_at_price(rebuilt, p, side)
                                 /\ kept = StillOpen(live, orders)
    OBVIOUS
  <2>2. SameQueue(live, again, kept, book, rebuilt)
    BY ONLY <1>5, <1>6, <1>8, <1>10, <2>1, QueuesAgree
  <2>3. {id \in ToSet(live) : ~EndedByAdmin(id)} = kept
    BY <1>9, <2>1
  <2> QED BY <2>1, <2>2, <2>3
<1> QED BY <1>10 DEF SameBook, SameQueue
-----------------------------------------------------------------------------
(* The invariant of the engine across restarts *)

\* What the engine, its log and its books satisfy in every life.
LiveInv ==
  EngineInv /\ QueueInv /\ MirrorInv /\ ClosedInv /\ BooksUncrossed(orphans) /\ KeysInv

\* With what the rows in Postgres restore to.
RestartInv == LiveInv /\ StoredGood /\ RecoveryTypeOK

\* An engine that starts without a log, in whichever life.
FreshEngine ==
  /\ markets = [m \in Markets |-> "active"]
  /\ books = [m \in Markets |-> new_book]
  /\ order_market_index = [id \in {} |-> ""]
  /\ log = << >> /\ next_seq_id = 1
  /\ idempotency = [key \in {} |-> NoOrder]
  /\ filled_amounts = [hash \in Hashes |-> 0] /\ cancelled = {}
  /\ nonces = [t \in TraderIds |-> 0]
  /\ uuids \in Nat
  /\ stage = "idle" /\ taker = NoOrder
  /\ prices = {} /\ price = 0 /\ maker_ids = << >> /\ fills = << >> /\ to_cancel = {}

(* An empty engine satisfies the invariant.                                *)
LEMMA FreshLives == FreshEngine => LiveInv
<1> SUFFICES ASSUME FreshEngine PROVE LiveInv
  OBVIOUS
<1>1. EngineInv
  <2>1. \A m \in Markets : BookFits(new_book, m)
    BY NewBookFits
  <2>2. BooksFit
    BY <2>1 DEF FreshEngine, BooksFit
  <2>3. EngineTypes
    BY <2>1, <2>2 DEF FreshEngine, EngineTypes, BooksFit, BookFits, IsMap, MarketStatuses
  <2>4. SequencerTypes /\ StoreTypes
    BY DEF FreshEngine, SequencerTypes, StoreTypes, IsMap
  <2>5. CallTypes /\ CallFits
    BY DEF FreshEngine, CallTypes, CallFits, InProcessOrder
  <2> QED BY <2>2, <2>3, <2>4, <2>5 DEF EngineInv, TypeOK
<1>2. QueueInv
  <2>1. BooksSound
    BY NewBookSound DEF FreshEngine, BooksSound
  <2>2. IdsFresh
    BY DEF FreshEngine, IdsFresh, BookIdsFresh, InProcessOrder, new_book
  <2>3. LoopSound
    BY DEF FreshEngine, LoopSound
  <2> QED BY <2>1, <2>2, <2>3 DEF QueueInv
<1>3. MirrorInv
  <2>1. log = << >> /\ next_seq_id = 1 /\ fills = << >> /\ ~InProcessOrder
    BY DEF FreshEngine, InProcessOrder
  <2>2. Ahead = << >>
    <3>1. log \in Seq(SequencedEvents) /\ next_seq_id \in Nat
      BY <1>1 DEF EngineInv, TypeOK, SequencerTypes
    <3> QED BY <2>1, <3>1, NothingAhead DEF Ahead
  <2>3. /\ replayed(Ahead) = fresh_replay /\ fresh_replay.error = "none"
        /\ fresh_replay.orders = [id \in {} |-> NoOrder]
    BY <2>2, ReplayOfEmpty DEF fresh_replay
  <2>4. DOMAIN AheadOrders = {}
    BY <2>3 DEF AheadOrders
  <2>5. AheadSound
    BY <2>1, <2>3, EmptyIsSeq DEF AheadSound, PendingFits
  <2>6. \A m, id : ~OnBook(m, id)
    BY DEF FreshEngine, OnBook, new_book
  <2> QED BY <2>1, <2>4, <2>5, <2>6
          DEF MirrorInv, BooksMirrored, TakerMirrored, OrdersPlaced, OrdersBounded
<1>4. BooksUncrossed(orphans)
  BY DEF FreshEngine, BooksUncrossed, Uncrossed, new_book
<1>5. KeysInv
  BY EmptyIsSeq DEF FreshEngine, KeysInv, AcceptedOnce, KeysHeld, Accepted
<1>6. ClosedInv
  BY DEF FreshEngine, ClosedInv, BooksClosed, TakerClosed, OnBook, new_book, InProcessOrder
<1> QED BY <1>1, <1>2, <1>3, <1>4, <1>5, <1>6 DEF LiveInv

LEMMA FreshLivesNext == FreshEngine' => LiveInv'
BY FreshLives, PTL

(* The process starts with an empty engine and no rows.                    *)
LEMMA RestartInvInit == RecoveryInit => RestartInv
<1> SUFFICES ASSUME RecoveryInit PROVE RestartInv
  OBVIOUS
<1>1. FreshEngine
  BY DEF RecoveryInit, Init, FreshEngine
<1>2. StoredGood
  BY DEF RecoveryInit, StoredGood
<1>3. RecoveryTypeOK
  BY RecoveryAssumption DEF RecoveryInit, RecoveryTypeOK
<1> QED BY <1>1, <1>2, <1>3, FreshLives DEF RestartInv

(* A step of the engine.                                                   *)
LEMMA LiveStep ==
  ASSUME LogSound, LiveInv, orphans \subseteq 1..uuids, [Next]_vars, OrphansAfter
  PROVE  /\ LiveInv'
         /\ uuids \in Nat /\ uuids' \in {uuids, uuids + 1}
         /\ orphans \subseteq orphans' /\ orphans' \subseteq 1..uuids'
<1> USE DEF LiveInv
<1>1. EngineInv'
  BY StepInv
<1>2. QueueInv'
  BY QueueStep
<1>3. MirrorInv'
  BY <1>1, MirrorStep
<1>4. KeysInv'
  BY KeysStep
<1>5. uuids \in Nat /\ uuids' \in {uuids, uuids + 1}
  <2>1. uuids \in Nat
    BY DEF EngineInv, TypeOK, CallTypes
  <2>2. uuids' = uuids \/ \E signed \in SignedOrders, now_ms \in Times : ProcessOrder(signed, now_ms)
    BY IdsDrawn
  <2> QED BY <2>1, <2>2 DEF ProcessOrder
<1>6. orphans \subseteq orphans' /\ orphans' \subseteq 1..uuids'
  <2>1. Panics => uuids' = uuids + 1
    BY <1>5 DEF Panics
  <2> QED BY <1>5, <2>1 DEF OrphansAfter
<1>7. BooksUncrossed(orphans)'
  <2>1. PICK exempt : exempt = orphans
    OBVIOUS
  <2>2. BooksUncrossed(exempt)
    BY <2>1
  <2>3. BooksUncrossed(exempt)'
    BY <2>2, UncrossedStep
  <2>4. \A id : id \in exempt => id \in orphans'
    BY <1>6, <2>1
  <2> QED BY <2>3, <2>4 DEF BooksUncrossed, Uncrossed
<1>8. ClosedInv'
  BY <1>1, ClosedStep
<1> QED BY <1>1, <1>2, <1>3, <1>4, <1>5, <1>6, <1>7, <1>8

\* What the other invariants say before and after a step.
Backed == LogSound /\ StoreHeld /\ RowsSound /\ RowsAreLogged

(* A step of the engine, whatever it does to the cursors, keeps what the   *)
(* rows restore to.                                                        *)
LEMMA LiveRestarts ==
  ASSUME LogSound, RestartInv, [Next]_vars, OrphansAfter, UNCHANGED <<stored, up, crashes>>,
         seq_before' \in Nat, cursors' \subseteq Nat
  PROVE  RestartInv'
<1>1. /\ LiveInv'
      /\ uuids \in Nat /\ uuids' \in {uuids, uuids + 1}
      /\ orphans \subseteq orphans' /\ orphans' \subseteq 1..uuids'
  BY LiveStep DEF RestartInv, RecoveryTypeOK
<1>2. StoredGood'
  BY <1>1, StoredGoodStays DEF RestartInv
<1>3. RecoveryTypeOK'
  BY <1>1 DEF RestartInv, RecoveryTypeOK
<1> QED BY <1>1, <1>2, <1>3 DEF RestartInv

\* The engine and the history stay as they are.
EngineStays == UNCHANGED <<vars, orphans>>

LEMMA EngineStaysIsStep ==
  ASSUME EngineStays
  PROVE  [Next]_vars /\ OrphansAfter /\ UNCHANGED <<uuids, orphans, log>>
<1>1. uuids' = uuids /\ orphans' = orphans /\ log' = log
  BY DEF EngineStays, vars, sequencer_vars
<1> QED BY <1>1 DEF EngineStays, OrphansAfter, Panics

(* A handler that takes its turn.                                          *)
LEMMA ServeRestarts ==
  ASSUME LogSound, RestartInv, Serve \/ ServeUnchanged
  PROVE  RestartInv'
<1>1. next_seq_id \in Nat \ {0}
  <2>1. PICK pause : pause = [type |-> "market_paused"]
    OBVIOUS
  <2>2. RowSound([seq_id |-> next_seq_id, event |-> pause])
    BY <2>1, NextRowSound
  <2> QED BY <2>2 DEF RowSound
<1>2. cursor_now \in Nat /\ seq_before \in Nat /\ cursors \subseteq Nat
  BY <1>1 DEF cursor_now, RestartInv, RecoveryTypeOK
<1>3. CASE Serve
  <2>1. [Next]_vars /\ OrphansAfter /\ UNCHANGED <<stored, up, crashes>>
    BY <1>3 DEF Serve, OrphansAfter
  <2>2. seq_before' \in Nat
    BY <1>2, <1>3 DEF Serve
  <2>3. cursors' \subseteq Nat
    BY <1>2, <1>3, <2>2 DEF Serve
  <2> QED BY <2>1, <2>2, <2>3, LiveRestarts
<1>4. CASE ServeUnchanged
  <2>1. /\ EngineStays /\ UNCHANGED <<stored, up, crashes, seq_before>>
        /\ cursors' = cursors \cup {cursor_now}
    BY <1>4 DEF ServeUnchanged, EngineStays
  <2> QED BY <1>2, <2>1, EngineStaysIsStep, LiveRestarts
<1> QED BY <1>3, <1>4

(* A handler that persists, or fails to.                                   *)
LEMMA PersistRestarts ==
  ASSUME Backed, RowsSound', RowsAreLogged', RestartInv,
         NEW cursor, PersistSince(cursor) \/ PersistDropped(cursor)
  PROVE  RestartInv'
<1>1. /\ EngineStays /\ up /\ up' /\ UNCHANGED <<seq_before, crashes, up>>
      /\ cursors' = cursors \ {cursor}
  BY DEF PersistSince, PersistDropped, EngineStays
<1>2. [Next]_vars /\ OrphansAfter /\ UNCHANGED <<uuids, orphans, log>>
  BY <1>1, EngineStaysIsStep
<1>3. cursors \subseteq Nat /\ cursors' \subseteq Nat /\ seq_before' \in Nat
  BY <1>1 DEF RestartInv, RecoveryTypeOK
<1>4. CASE PersistDropped(cursor)
  <2>1. stored' = stored
    BY <1>4 DEF PersistDropped
  <2> QED BY <1>1, <1>2, <1>3, <2>1, LiveRestarts DEF Backed
<1>5. CASE PersistSince(cursor)
  <2>1. LiveInv'
    BY <1>2, LiveStep DEF Backed, RestartInv, RecoveryTypeOK
  <2>2. StoredGood'
    BY <1>1, <1>3, <1>5, PersistedRestorable DEF Backed, RestartInv, LiveInv
  <2>3. \A row \in stored' : row \in stored \/ \E i \in DOMAIN log : row = log[i]
    BY <1>5 DEF PersistSince, append_events
  <2>4. \A i \in DOMAIN log : log[i] \in SequencedEvents
    BY DEF RestartInv, LiveInv, EngineInv, TypeOK, SequencerTypes
  <2>5. RecoveryTypeOK'
    BY <1>1, <1>2, <1>3, <2>3, <2>4 DEF RestartInv, RecoveryTypeOK
  <2> QED BY <2>1, <2>2, <2>5 DEF RestartInv
<1> QED BY <1>4, <1>5

(* What a crash leaves of the types.                                       *)
LEMMA CrashTypes ==
  ASSUME RestartInv, Crash, up' \in BOOLEAN
  PROVE  /\ RecoveryTypeOK' /\ StoredGood'
         /\ uuids' = uuids /\ uuids' \in Nat
<1>1. /\ crashes' = crashes + 1 /\ crashes < MaxCrashes /\ seq_before' = 0 /\ cursors' = {}
      /\ UNCHANGED <<stored, uuids, orphans>>
  BY DEF Crash
<1>2. uuids \in Nat
  BY DEF RestartInv, LiveInv, EngineInv, TypeOK, CallTypes
<1>3. StoredGood'
  BY <1>1, <1>2, StoredGoodStays DEF RestartInv
<1>4. RecoveryTypeOK'
  BY <1>1, RecoveryAssumption DEF RestartInv, RecoveryTypeOK
<1> QED BY <1>1, <1>2, <1>3, <1>4

(* A start with an empty engine, in vain or not.                           *)
LEMMA EmptyRestarts ==
  ASSUME RestartInv, RestartEmpty \/ RestartFails
  PROVE  RestartInv'
<1>1. Crash /\ StartFresh /\ up' \in BOOLEAN
  BY DEF RestartEmpty, RestartFails, RestartInv, RecoveryTypeOK
<1>2. RecoveryTypeOK' /\ StoredGood' /\ uuids' \in Nat
  BY <1>1, CrashTypes
<1>3. FreshEngine'
  BY <1>1, <1>2 DEF FreshEngine, Crash, StartFresh
<1> QED BY <1>2, <1>3, FreshLivesNext DEF RestartInv

(* A start from the rows.                                                  *)
LEMMA RestoredRestarts ==
  ASSUME Backed, RestartInv, RestartRestored
  PROVE  RestartInv'
<1>1. Crash /\ up /\ up' \in BOOLEAN
  BY DEF RestartRestored, Crash, RestartInv, RecoveryTypeOK
<1>2. RecoveryTypeOK' /\ StoredGood'
  BY <1>1, CrashTypes
<1>3. PICK events, rs, n : events = loaded /\ rs = replayed(events) /\ n = Len(events)
  OBVIOUS
<1>4. stored # {} /\ rs.error = "none" /\ RestoredFrom(events, rs, n)
  BY <1>3, RestoredParts
<1>5. LogFits
  BY DEF RestartInv, LiveInv, MirrorInv, AheadSound, LogFits
<1>6. Restoring(events, rs, n)
  BY <1>1, <1>3, <1>4, <1>5, RowsRestore DEF Backed, RestartInv, LiveInv
<1>7. EngineInv' /\ QueueInv' /\ KeysInv'
  BY <1>4, <1>6, RestoredEngine, RestoredQueues, RestoredKeys DEF RestartInv, LiveInv
<1>8. next_seq_id' \in Nat
  BY <1>7 DEF EngineInv, TypeOK, SequencerTypes
<1>9. MirrorInv' /\ BooksUncrossed(orphans)'
  BY <1>4, <1>6, <1>8, RestoredMirrors
<1>10. ClosedInv'
  BY <1>4, <1>6, <1>8, RestoredCloses
<1> QED BY <1>2, <1>7, <1>9, <1>10 DEF RestartInv, LiveInv

(* Every step keeps the invariant.                                         *)
LEMMA RestartInvStep ==
  ASSUME Backed, RowsSound', RowsAreLogged', RestartInv, [RecoveryNext]_all_vars
  PROVE  RestartInv'
<1>1. CASE Serve \/ ServeUnchanged
  BY <1>1, ServeRestarts DEF Backed
<1>2. ASSUME NEW cursor, PersistSince(cursor) \/ PersistDropped(cursor) PROVE RestartInv'
  BY <1>2, PersistRestarts
<1>3. CASE RestartEmpty \/ RestartFails
  BY <1>3, EmptyRestarts
<1>4. CASE RestartRestored
  BY <1>4, RestoredRestarts
<1>5. CASE UNCHANGED all_vars
  <2>1. EngineStays /\ UNCHANGED <<stored, up, crashes, seq_before, cursors>>
    BY <1>5 DEF all_vars, recovery_vars, EngineStays
  <2>2. seq_before' \in Nat /\ cursors' \subseteq Nat
    BY <2>1 DEF RestartInv, RecoveryTypeOK
  <2> QED BY <2>1, <2>2, EngineStaysIsStep, LiveRestarts DEF Backed
<1> QED BY <1>1, <1>2, <1>3, <1>4, <1>5 DEF RecoveryNext

(* The invariant holds in every reachable state, across every restart,     *)
(* unless the rows could not be loaded and main went on without them.      *)
THEOREM SpecRestartInv ==
  ASSUME ~LoadMayFail
  PROVE  RecoverySpec => []RestartInv
<1>1. RecoveryInv => LogSound /\ StoreHeld /\ RowsSound
  BY DEF RecoveryInv, ReplayInv
<1>2. LogSound /\ StoreHeld /\ RowsSound /\ RowsAreLogged /\ RowsSound' /\ RowsAreLogged'
        /\ RestartInv /\ [RecoveryNext]_all_vars => RestartInv'
  BY RestartInvStep DEF Backed
<1> QED BY <1>1, <1>2, RestartInvInit, SpecRecoveryInv, SpecRowsAreLogged, PTL DEF RecoverySpec
-----------------------------------------------------------------------------
(* What it means across restarts *)

(* The variables of the restarts keep their types: every row in Postgres   *)
(* is an event, and orphans are orders that were accepted.                 *)
THEOREM SpecRecoveryTypeOK ==
  ASSUME ~LoadMayFail
  PROVE  RecoverySpec => []RecoveryTypeOK
<1>1. RestartInv => RecoveryTypeOK
  BY DEF RestartInv
<1> QED BY <1>1, SpecRestartInv, PTL

(* The types of the engine survive a restart: what the rows are replayed   *)
(* to is a state the engine could have reached.                            *)
THEOREM SpecRestartTypeOK ==
  ASSUME ~LoadMayFail
  PROVE  RecoverySpec => []TypeOK
<1>1. RestartInv => TypeOK
  BY DEF RestartInv, LiveInv, EngineInv
<1> QED BY <1>1, SpecRestartInv, PTL

(* The idempotency table matches the log in every life: a key that was     *)
(* accepted and persisted is still refused after a restart.                *)
THEOREM SpecRestartIdempotencyMatchesLog ==
  ASSUME ~LoadMayFail
  PROVE  RecoverySpec => []IdempotencyMatchesLog
<1>1. RestartInv => IdempotencyMatchesLog
  BY KeysMatchLog DEF RestartInv, LiveInv
<1> QED BY <1>1, SpecRestartInv, PTL

(* The queues hold exactly the open orders in every life, the books that   *)
(* replay rebuilt included.                                                *)
THEOREM SpecRestartQueuesHoldOpenOrders ==
  ASSUME ~LoadMayFail
  PROVE  RecoverySpec => []QueuesHoldOpenOrders
<1>1. RestartInv => QueuesHoldOpenOrders
  BY QueuesHold DEF RestartInv, LiveInv
<1> QED BY <1>1, SpecRestartInv, PTL

(* No order is filled beyond its size in any life, not even one that was   *)
(* filled before a restart and goes on to fill after it.                   *)
THEOREM SpecRestartNoOverfill ==
  ASSUME ~LoadMayFail
  PROVE  RecoverySpec => []NoOverfill
<1>1. RestartInv => NoOverfill
  BY NothingOverfilled DEF RestartInv, LiveInv
<1> QED BY <1>1, SpecRestartInv, PTL

(* Across restarts a bid reaches an ask only if one of the two was         *)
(* accepted and then not matched, because its market had no book.          *)
THEOREM SpecCrossedOnlyByOrphans ==
  ASSUME ~LoadMayFail
  PROVE  RecoverySpec => []CrossedOnlyByOrphans
<1>1. ASSUME RestartInv PROVE CrossedOnlyByOrphans
  <2> SUFFICES ASSUME NEW m \in DOMAIN books, NEW levels, levels = books[m].queues,
                      NEW b \in DOMAIN levels["buy"], NEW a \in DOMAIN levels["sell"]
               PROVE  \/ b < a
                      \/ ToSet(levels["buy"][b]) \subseteq orphans
                      \/ ToSet(levels["sell"][a]) \subseteq orphans
    BY DEF CrossedOnlyByOrphans
  <2> SUFFICES ASSUME NEW bid \in ToSet(levels["buy"][b]), bid \notin orphans,
                      NEW ask \in ToSet(levels["sell"][a]), ask \notin orphans
               PROVE  b < a
    OBVIOUS
  <2>1. PICK book, exempt : book = books[m] /\ exempt = orphans
    OBVIOUS
  <2>2. BookFits(book, m) /\ QueuesSound(book) /\ Uncrossed(book.orders, exempt)
    BY <1>1, <2>1
       DEF RestartInv, LiveInv, EngineInv, BooksFit, QueueInv, BooksSound, BooksUncrossed
  <2>3. levels = book.queues
    BY <2>1
  <2>4. PICK i \in DOMAIN levels["buy"][b] : bid = levels["buy"][b][i]
    BY DEF ToSet
  <2>5. PICK j \in DOMAIN levels["sell"][a] : ask = levels["sell"][a][j]
    BY DEF ToSet
  <2> QED BY <2>1, <2>2, <2>3, <2>4, <2>5, LevelsApart
<1>2. RestartInv => CrossedOnlyByOrphans
  BY <1>1
<1> QED BY <1>2, SpecRestartInv, PTL

(* Between calls, in every life, a restart from the full log would rebuild *)
(* every live book in order and as much filled, but for the orders the     *)
(* admin has cancelled: what the live books and replay disagree on is      *)
(* exactly the cancellations that cancel_all_orders logs and does not do.  *)
THEOREM SpecBooksMatchReplay ==
  ASSUME ~LoadMayFail
  PROVE  RecoverySpec => []BooksMatchReplay
<1>1. RecoveryInv => LogSound
  BY DEF RecoveryInv, ReplayInv
<1>2. LogSound /\ RestartInv => BooksMatchReplay
  BY BooksAgree DEF RestartInv, LiveInv
<1> QED BY <1>1, <1>2, SpecRecoveryInv, SpecRestartInv, PTL
-----------------------------------------------------------------------------
(* The types of the snapshots *)

(* The engine with its snapshots is the engine with its database: the      *)
(* snapshot task disturbs no call, persistence or restart.                 *)
THEOREM SnapshotsLeaveEngine == SnapshotSpec => RecoverySpec
<1>1. SnapshotInit => RecoveryInit
  BY DEF SnapshotInit
<1>2. [SnapshotNext]_everything => [RecoveryNext]_all_vars
  BY SnapshotStepRecovers
<1> QED BY <1>1, <1>2, PTL DEF SnapshotSpec, RecoverySpec

(* What the task copies is a snapshot.                                     *)
LEMMA CopiedType ==
  ASSUME RestartInv, LogSound, log # << >>
  PROVE  Copied \in Snapshots
<1>1. /\ log \in Seq(SequencedEvents) /\ markets \in [Markets -> MarketStatuses]
      /\ filled_amounts \in [Hashes -> Nat] /\ cancelled \subseteq Hashes
      /\ nonces \in [TraderIds -> Nat]
  BY DEF RestartInv, LiveInv, EngineInv, TypeOK, EngineTypes, SequencerTypes, StoreTypes
<1>2. last_seq_id(log) \in Nat \ {0}
  <2>1. Len(log) \in DOMAIN log
    BY <1>1, LenProperties, EmptySeq
  <2>2. log[Len(log)].seq_id \in Nat \ {0}
    BY <2>1 DEF LogSound, RowSound
  <2> QED BY <2>2 DEF last_seq_id
<1>3. crashes \in 0..MaxCrashes
  BY DEF RestartInv, RecoveryTypeOK
<1> QED BY <1>1, <1>2, <1>3 DEF Copied, checksum, Snapshots

\* The types of the files and of the copy.
FilesTyped ==
  /\ DOMAIN files \subseteq Nat \ {0}
  /\ \A seq \in DOMAIN files : IsContent(files[seq])
  /\ copy \in Snapshots \cup {NoSnapshot}

LEMMA FilesTypedStep ==
  ASSUME RestartInv, LogSound, FilesTyped, TaskStep
  PROVE  FilesTyped'
<1>1. ASSUME NEW seq \in Nat \ {0}, NEW file, IsContent(file), FileWritten(seq, file),
             copy' \in Snapshots \cup {NoSnapshot}
      PROVE  FilesTyped'
  <2>1. DOMAIN files' \subseteq Nat \ {0}
    BY <1>1 DEF FileWritten, FilesTyped
  <2>2. \A other \in DOMAIN files' : IsContent(files'[other])
    BY <1>1 DEF FileWritten, FilesTyped
  <2> QED BY <1>1, <2>1, <2>2 DEF FilesTyped
<1>2. CASE UNCHANGED files /\ (copy' = copy \/ copy' = NoSnapshot)
  BY <1>2 DEF FilesTyped
<1>3. CASE log # << >> /\ copy' = Copied /\ FileWritten(Copied.snapshot_seq, Torn)
  <2>1. Copied \in Snapshots
    BY <1>3, CopiedType
  <2>2. Copied.snapshot_seq \in Nat \ {0} /\ IsContent(Torn)
    BY <2>1 DEF Snapshots, IsContent
  <2> QED BY <1>1, <1>3, <2>1, <2>2
<1>4. CASE copy # NoSnapshot /\ copy' = NoSnapshot /\ FileWritten(copy.snapshot_seq, Content(copy))
  <2>1. copy \in Snapshots
    BY <1>4 DEF FilesTyped
  <2>2. copy.snapshot_seq \in Nat \ {0} /\ IsContent(Content(copy))
    BY <2>1 DEF Snapshots, IsContent, Content
  <2> QED BY <1>1, <1>4, <2>2
<1> QED BY <1>2, <1>3, <1>4 DEF TaskStep

\* The types of the rest.
TaskTyped ==
  stray \in BOOLEAN /\ failures \in 0..MaxFailures /\ restored \in Seq(Nat) /\ Len(restored) = crashes

LEMMA TaskTypedStep ==
  ASSUME RestartInv, RestartInv', LogSound', TaskTyped, [SnapshotNext]_everything
  PROVE  TaskTyped'
<1>1. CASE GoesOn /\ UNCHANGED <<stray, failures>>
  BY <1>1 DEF GoesOn, TaskTyped
<1>2. CASE RestartStep
  <2>1. next_seq_id' - 1 \in Nat
    <3>1. next_seq_id' \in Nat
      BY DEF RestartInv, LiveInv, EngineInv, TypeOK, SequencerTypes
    <3>2. next_seq_id' # 0
      <4>1. CASE log' = << >>
        BY <4>1 DEF LogSound
      <4>2. CASE log' # << >>
        <5>1. Len(log') \in DOMAIN log'
          BY <4>2, LenProperties DEF LogSound, IsSeq
        <5>2. log'[Len(log')].seq_id \in Nat
          BY <5>1 DEF LogSound, RowSound
        <5>3. next_seq_id' = log'[Len(log')].seq_id + 1
          BY <4>2 DEF LogSound
        <5> QED BY <5>2, <5>3
      <4> QED BY <4>1, <4>2
    <3>3. PICK next : next = next_seq_id'
      OBVIOUS
    <3>4. next \in Nat /\ next # 0
      BY <3>1, <3>2, <3>3
    <3>5. next - 1 \in Nat
      BY ONLY <3>4
    <3> QED BY <3>3, <3>5
  <2>2. crashes' = crashes + 1 /\ restored' = Append(restored, next_seq_id' - 1)
        /\ UNCHANGED <<stray, failures>>
    BY <1>2 DEF RestartStep, RestartEmpty, RestartRestored, RestartFails, Crash
  <2>3. restored' \in Seq(Nat) /\ Len(restored') = Len(restored) + 1
    BY <2>1, <2>2, AppendProperties DEF TaskTyped
  <2> QED BY <2>2, <2>3 DEF TaskTyped
<1>3. CASE SnapshotFails \/ StrayFile
  <2>1. UNCHANGED <<restored, crashes>>
    BY <1>3 DEF SnapshotFails, StrayFile, all_vars, recovery_vars
  <2>2. stray' \in BOOLEAN /\ failures' \in 0..MaxFailures
    <3>1. CASE SnapshotFails
      <4>1. /\ failures \in 0..MaxFailures /\ failures < MaxFailures /\ MaxFailures \in Nat
            /\ failures' = failures + 1 /\ stray' = stray
        BY <3>1, SnapshotAssumption DEF SnapshotFails, TaskTyped
      <4>2. failures' \in 0..MaxFailures
        BY ONLY <4>1
      <4> QED BY <4>1, <4>2 DEF TaskTyped
    <3>2. CASE StrayFile
      BY <3>2 DEF StrayFile, TaskTyped
    <3> QED BY <1>3, <3>1, <3>2
  <2> QED BY <2>1, <2>2 DEF TaskTyped
<1>4. CASE CallStep \/ PersistStep \/ SnapshotBegins \/ SnapshotWritten \/ UNCHANGED everything
  <2>1. UNCHANGED <<stray, failures, restored>>
    BY <1>4 DEF CallStep, PersistStep, SnapshotBegins, SnapshotWritten, everything, snapshot_vars
  <2>2. crashes' = crashes
    BY <1>4 DEF CallStep, PersistStep, SnapshotBegins, SnapshotWritten, everything, Serve,
       ServeUnchanged, PersistSince, PersistDropped, all_vars, recovery_vars
  <2> QED BY <2>1, <2>2 DEF TaskTyped
<1> QED BY <1>2, <1>3, <1>4 DEF SnapshotNext

(* Every file of the snapshot directory is torn or a snapshot, named by a  *)
(* sequence id, and never snapshot_0.json.                                 *)
THEOREM SpecSnapshotTypeOK ==
  ASSUME ~LoadMayFail
  PROVE  SnapshotSpec => []SnapshotTypeOK
<1>1. SnapshotInit => FilesTyped /\ TaskTyped
  <2> SUFFICES ASSUME SnapshotInit PROVE FilesTyped /\ TaskTyped
    OBVIOUS
  <2>1. /\ DOMAIN files = {} /\ copy = NoSnapshot /\ stray = FALSE /\ failures = 0
        /\ restored = << >> /\ crashes = 0
    BY DEF SnapshotInit, RecoveryInit
  <2>2. FilesTyped
    BY <2>1 DEF FilesTyped
  <2>3. << >> \in Seq(Nat) /\ Len(<< >>) = 0 /\ 0 \in 0..MaxFailures
    BY SnapshotAssumption, EmptySeq
  <2>4. TaskTyped
    BY <2>1, <2>3 DEF TaskTyped
  <2> QED BY <2>2, <2>4
<1>2. RestartInv /\ LogSound /\ FilesTyped /\ [SnapshotNext]_everything => FilesTyped'
  BY TaskSteps, FilesTypedStep
<1>3. RestartInv /\ RestartInv' /\ LogSound' /\ TaskTyped /\ [SnapshotNext]_everything => TaskTyped'
  BY TaskTypedStep
<1>4. RecoveryInv => LogSound
  BY DEF RecoveryInv, ReplayInv
<1>5. FilesTyped /\ TaskTyped => SnapshotTypeOK
  BY DEF FilesTyped, TaskTyped, SnapshotTypeOK
<1> QED BY <1>1, <1>2, <1>3, <1>4, <1>5, SnapshotsLeaveEngine, SpecRecoveryInv, SpecRestartInv, PTL
        DEF SnapshotSpec
=============================================================================
