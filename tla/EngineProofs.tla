---------------------------- MODULE EngineProofs ----------------------------
(***************************************************************************)
(* Theorems about the engine of module Engine, for every set of signed     *)
(* orders, traders, markets and every bound.                               *)
(*                                                                         *)
(* TypeOK is not inductive: that a filled amount is a natural number needs *)
(* NoOverfill, that a fill names a market needs the orders of a book to be *)
(* of its market, and that the levels have a best one needs them bounded.  *)
(* EngineInv has all of it.                                                *)
(***************************************************************************)
EXTENDS EngineProperties, SequenceFacts, FiniteSetTheorems

-----------------------------------------------------------------------------
(* Order books: what the operators of module OrderBook preserve *)

\* The orders of a book: each under its own id, of the book's market, and
\* filled no further than its size.
OrdersFit(book, market_id) ==
  \A id \in DOMAIN book.orders :
    /\ book.orders[id].order_id = id
    /\ book.orders[id].signed.market_id = market_id
    /\ book.orders[id].filled_size_lots <= book.orders[id].signed.size_lots

\* Each side has a highest level, or none: levels only come from insert.
LevelsBounded(book) ==
  \A side \in Sides : \E b \in Nat : \A p \in DOMAIN book.queues[side] : p <= b

BookFits(book, market_id) ==
  IsBook(book) /\ OrdersFit(book, market_id) /\ LevelsBounded(book)

-----------------------------------------------------------------------------
(* Sorting *)

SortedBy(seq, S, key) ==
  /\ seq \in Seq(S) /\ Len(seq) = Cardinality(S)
  /\ \A x \in S : \E k \in 1..Len(seq) : seq[k] = x
  /\ \A j, k \in 1..Len(seq) : j < k => key[seq[j]] < key[seq[k]]

(* The sorted sequence of a finite set holds each of its elements once, by *)
(* rising keys: an element's rank is the number of those up to it.         *)
LEMMA InOrderSorts ==
  ASSUME NEW S, IsFiniteSet(S), NEW key,
         \A x \in S : key[x] \in Nat,
         \A x, y \in S : key[x] = key[y] => x = y
  PROVE  SortedBy(InOrder(S, key), S, key)
<1> DEFINE n == Cardinality(S)
           UpTo(x) == {y \in S : key[y] <= key[x]}
           rank == [x \in S |-> Cardinality(UpTo(x))]
           sorted == InOrder(S, key)
<1>1. n \in Nat
  BY FS_CardinalityType
<1>2. ASSUME NEW x \in S PROVE /\ UpTo(x) \in SUBSET S /\ x \in UpTo(x)
                               /\ IsFiniteSet(UpTo(x)) /\ rank[x] \in 1..n
  <2>1. UpTo(x) \in SUBSET S /\ x \in UpTo(x)
    OBVIOUS
  <2> HIDE DEF UpTo
  <2>2. IsFiniteSet(UpTo(x)) /\ Cardinality(UpTo(x)) <= n
    BY <2>1, FS_Subset
  <2>3. Cardinality(UpTo(x)) \in Nat /\ Cardinality(UpTo(x)) # 0
    BY <2>1, <2>2, FS_CardinalityType, FS_EmptySet
  <2> HIDE DEF n
  <2> QED BY <1>1, <2>1, <2>2, <2>3
<1>3. ASSUME NEW x \in S, NEW y \in S, key[x] < key[y] PROVE rank[x] < rank[y]
  <2>1. UpTo(x) \in SUBSET UpTo(y) /\ y \notin UpTo(x)
    BY <1>3
  <2>2. rank[x] = Cardinality(UpTo(x)) /\ rank[y] = Cardinality(UpTo(y))
    OBVIOUS
  <2>3. rank[x] \in 1..n /\ rank[y] \in 1..n /\ IsFiniteSet(UpTo(y)) /\ y \in UpTo(y)
    BY <1>2
  <2> HIDE DEF UpTo, rank, n
  <2>4. rank[x] <= rank[y] /\ rank[x] # rank[y]
    BY <2>1, <2>2, <2>3, FS_Subset
  <2> QED BY <1>1, <2>3, <2>4
<1>4. ASSUME NEW x \in S, NEW y \in S, rank[x] = rank[y] PROVE x = y
  <2>1. rank[x] \in 1..n /\ rank[y] \in 1..n
    BY <1>2
  <2> HIDE DEF rank, n
  <2>2. ~(key[x] < key[y]) /\ ~(key[y] < key[x])
    BY <1>1, <1>3, <1>4, <2>1
  <2> QED BY <2>2
<1>5. rank \in Surjection(S, 1..n)
  <2>1. rank \in [S -> 1..n]
    <3>1. rank = [x \in S |-> rank[x]]
      OBVIOUS
    <3> HIDE DEF rank, n
    <3> QED BY <1>2, <3>1
  <2> HIDE DEF rank
  <2>2. rank \in Injection(S, 1..n)
    BY <1>4, <2>1 DEF Injection, IsInjective
  <2>3. IsFiniteSet(1..n) /\ Cardinality(1..n) = n
    BY <1>1, FS_Interval
  <2> QED BY <2>2, <2>3, FS_Injection
<1>6. ASSUME NEW k \in 1..n PROVE sorted[k] \in S /\ rank[sorted[k]] = k
  <2>1. \E x \in S : rank[x] = k
    <3> HIDE DEF rank, n
    <3> QED BY <1>5 DEF Surjection
  <2>2. sorted[k] = CHOOSE x \in S : Cardinality(UpTo(x)) = k
    BY DEF InOrder
  <2>3. \A x \in S : rank[x] = Cardinality(UpTo(x))
    OBVIOUS
  <2> HIDE DEF UpTo, rank, n, sorted
  <2> QED BY <2>1, <2>2, <2>3
<1>7. DOMAIN sorted = 1..n /\ sorted = [k \in 1..n |-> sorted[k]]
  <2> DEFINE nth(k) == CHOOSE x \in S : Cardinality({y \in S : key[y] <= key[x]}) = k
  <2>1. sorted = [k \in 1..n |-> nth(k)]
    BY Zenon DEF InOrder
  <2> HIDE DEF nth, sorted, n
  <2> QED BY <2>1
<1> HIDE DEF sorted, n
<1>8. sorted \in [1..n -> S]
  BY <1>6, <1>7
<1>9. sorted \in Seq(S) /\ Len(sorted) = n
  BY <1>1, <1>8
<1>10. ASSUME NEW x \in S PROVE \E k \in 1..n : sorted[k] = x
  <2> HIDE DEF rank
  <2>1. rank[x] \in 1..n
    BY <1>2
  <2> QED BY <1>4, <1>6, <2>1
<1>11. ASSUME NEW j \in 1..n, NEW k \in 1..n, j < k
       PROVE  key[sorted[j]] < key[sorted[k]]
  <2>1. sorted[j] \in S /\ sorted[k] \in S /\ rank[sorted[j]] = j /\ rank[sorted[k]] = k
    BY <1>6
  <2> HIDE DEF rank
  <2>2. sorted[j] # sorted[k]
    BY <1>11, <2>1
  <2>3. ~(key[sorted[k]] < key[sorted[j]])
    BY <1>1, <1>3, <1>11, <2>1
  <2> QED BY <2>1, <2>2, <2>3
<1> QED BY <1>9, <1>10, <1>11 DEF n, sorted, SortedBy
-----------------------------------------------------------------------------
(* Prices *)

(* best_of picks a level of the set, and none of the set is better: what   *)
(* the sorted price lists of the BTreeMap give (orderbook.rs:164-171).     *)
LEMMA BestOfIsBest ==
  ASSUME NEW side \in Sides, NEW S, S \subseteq Nat, S # {},
         NEW b \in Nat, \A n \in S : n <= b
  PROVE  /\ best_of(side, S) \in S
         /\ \A q \in S : IF side = "buy" THEN best_of(side, S) >= q
                                         ELSE best_of(side, S) <= q
<1>1. \E p \in S : \A q \in S : IF side = "buy" THEN p >= q ELSE p <= q
  BY LeastNatural, GreatestNatural
<1> QED BY <1>1, Zenon DEF best_of

-----------------------------------------------------------------------------
(* Maps and queues *)

(* Setting an entry keeps a map a map, and every other entry as it was.    *)
LEMMA PutIsMap ==
  ASSUME NEW D, NEW R, NEW map, IsMap(map, D, R), NEW key \in D, NEW value \in R
  PROVE  /\ IsMap(put(map, key, value), D, R)
         /\ DOMAIN put(map, key, value) = DOMAIN map \cup {key}
         /\ \A k \in DOMAIN map \cup {key} :
              put(map, key, value)[k] = IF k = key THEN value ELSE map[k]
BY DEF IsMap, put

(* Replacing the value of a key that is there keeps a map a map.           *)
LEMMA ExceptIsMap ==
  ASSUME NEW D, NEW R, NEW map, IsMap(map, D, R), NEW key \in DOMAIN map, NEW value \in R
  PROVE  /\ IsMap([map EXCEPT ![key] = value], D, R)
         /\ DOMAIN [map EXCEPT ![key] = value] = DOMAIN map
         /\ \A k \in DOMAIN map :
              [map EXCEPT ![key] = value][k] = IF k = key THEN value ELSE map[k]
BY DEF IsMap

(* A sequence without one of its elements is a sequence over the same set. *)
LEMMA RemoveAtType ==
  ASSUME NEW S, NEW queue \in Seq(S), NEW i \in DOMAIN queue
  PROVE  RemoveAt(queue, i) \in Seq(S)
<1>1. i \in 1..Len(queue) /\ Len(queue) \in Nat
  BY LenProperties
<1>2. SubSeq(queue, 1, i - 1) \in Seq(S)
  BY <1>1, ElementOfSeq, SubSeqProperties
<1>3. SubSeq(queue, i + 1, Len(queue)) \in Seq(S)
  BY <1>1, ElementOfSeq, SubSeqProperties
<1> QED BY <1>2, <1>3, ConcatProperties DEF RemoveAt

(* retain_others gives a queue of order ids again.                         *)
LEMMA RetainOthersType ==
  ASSUME NEW S, NEW queue \in Seq(S), NEW id
  PROVE  retain_others(queue, id) \in Seq(S)
BY RemoveAtType DEF retain_others

(* push_back keeps the levels of a side a map from prices to queues.       *)
LEMMA PushBackIsMap ==
  ASSUME NEW levels, IsMap(levels, Nat, Seq(OrderIds)), NEW p \in Nat, NEW id \in OrderIds
  PROVE  /\ IsMap(push_back(levels, p, id), Nat, Seq(OrderIds))
         /\ DOMAIN push_back(levels, p, id) = DOMAIN levels \cup {p}
<1>1. <<id>> \in Seq(OrderIds)
  OBVIOUS
<1>2. \A queue \in Seq(OrderIds) : Append(queue, id) \in Seq(OrderIds)
  OBVIOUS
<1> QED BY <1>1, <1>2 DEF push_back, IsMap

(* take_off keeps the levels of a side a map from prices to queues.        *)
LEMMA TakeOffIsMap ==
  ASSUME NEW levels, IsMap(levels, Nat, Seq(OrderIds)), NEW p, NEW id
  PROVE  /\ IsMap(take_off(levels, p, id), Nat, Seq(OrderIds))
         /\ DOMAIN take_off(levels, p, id) \subseteq DOMAIN levels
<1> DEFINE queue == retain_others(levels[p], id)
<1>1. CASE p \notin DOMAIN levels
  BY <1>1 DEF take_off
<1>2. CASE p \in DOMAIN levels /\ queue = << >>
  BY <1>2 DEF take_off, IsMap
<1>3. CASE p \in DOMAIN levels /\ queue # << >>
  <2>1. queue \in Seq(OrderIds)
    BY <1>3, RetainOthersType DEF IsMap
  <2>2. take_off(levels, p, id) = [levels EXCEPT ![p] = queue]
    BY <1>3 DEF take_off
  <2> HIDE DEF queue
  <2>3. /\ IsMap([levels EXCEPT ![p] = queue], Nat, Seq(OrderIds))
        /\ DOMAIN [levels EXCEPT ![p] = queue] = DOMAIN levels
    BY <1>3, <2>1, ExceptIsMap
  <2> QED BY <2>2, <2>3
<1> QED BY <1>1, <1>2, <1>3

-----------------------------------------------------------------------------
(* Books *)

(* A book whose queues or orders are replaced by well-formed ones is one.  *)
LEMMA BookOfParts ==
  ASSUME NEW queues, NEW orders,
         queues = [side \in Sides |-> queues[side]],
         \A side \in Sides : IsMap(queues[side], Nat, Seq(OrderIds)),
         IsMap(orders, OrderIds, Orders)
  PROVE  IsBook([queues |-> queues, orders |-> orders])
BY DEF IsBook

(* new_book: a market starts with an empty book.                           *)
LEMMA NewBookFits ==
  ASSUME NEW market_id
  PROVE  BookFits(new_book, market_id)
<1>1. IsMap(NoLevels, Nat, Seq(OrderIds)) /\ DOMAIN NoLevels = {}
  BY DEF NoLevels, IsMap
<1>2. IsMap([id \in {} |-> NoOrder], OrderIds, Orders)
  BY DEF IsMap
<1>3. IsBook(new_book)
  BY <1>1, <1>2 DEF new_book, IsBook
<1>4. OrdersFit(new_book, market_id)
  BY DEF new_book, OrdersFit
<1>5. LevelsBounded(new_book)
  BY <1>1 DEF new_book, LevelsBounded
<1> QED BY <1>3, <1>4, <1>5 DEF BookFits

(* insert: a residual of the book's market finds its place in the book.    *)
LEMMA InsertFits ==
  ASSUME NEW market_id, NEW book, BookFits(book, market_id), NEW order \in Orders,
         order.signed.side \in Sides, order.signed.price_ticks \in Nat,
         order.signed.market_id = market_id,
         order.filled_size_lots <= order.signed.size_lots
  PROVE  BookFits(insert(book, order), market_id)
<1> DEFINE side == order.signed.side
           p == order.signed.price_ticks
           levels == push_back(book.queues[side], p, order.order_id)
           queues == [book.queues EXCEPT ![side] = levels]
           orders == put(book.orders, order.order_id, order)
<1>1. insert(book, order) = [queues |-> queues, orders |-> orders]
  BY DEF insert
<1>2. order.order_id \in OrderIds
  BY DEF Orders
<1>3. /\ IsMap(levels, Nat, Seq(OrderIds))
      /\ DOMAIN levels = DOMAIN book.queues[side] \cup {p}
  BY <1>2, PushBackIsMap DEF BookFits, IsBook
<1>4. /\ IsMap(orders, OrderIds, Orders)
      /\ DOMAIN orders = DOMAIN book.orders \cup {order.order_id}
      /\ \A id \in DOMAIN book.orders \cup {order.order_id} :
           orders[id] = IF id = order.order_id THEN order ELSE book.orders[id]
  <2>1. IsMap(book.orders, OrderIds, Orders)
    BY DEF BookFits, IsBook
  <2> QED BY <1>2, <2>1 DEF put, IsMap
<1> HIDE DEF levels, orders
<1>5. /\ queues = [s \in Sides |-> queues[s]]
      /\ \A s \in Sides : queues[s] = IF s = side THEN levels ELSE book.queues[s]
  BY DEF BookFits, IsBook
<1>6. IsBook(insert(book, order))
  <2>1. \A s \in Sides : IsMap(queues[s], Nat, Seq(OrderIds))
    BY <1>3, <1>5 DEF BookFits, IsBook
  <2> HIDE DEF queues
  <2> QED BY <1>1, <1>4, <1>5, <2>1, BookOfParts
<1>7. OrdersFit(insert(book, order), market_id)
  BY <1>1, <1>4 DEF BookFits, OrdersFit
<1>8. LevelsBounded(insert(book, order))
  <2> SUFFICES ASSUME NEW s \in Sides
               PROVE  \E b \in Nat : \A q \in DOMAIN queues[s] : q <= b
    BY <1>1 DEF LevelsBounded
  <2>1. PICK b \in Nat : \A q \in DOMAIN book.queues[s] : q <= b
    BY DEF BookFits, LevelsBounded
  <2>2. CASE s = side
    <3>1. DOMAIN queues[s] = DOMAIN book.queues[s] \cup {p}
      BY <1>3, <1>5, <2>2
    <3>2. \A q \in DOMAIN book.queues[s] : q \in Nat
      BY DEF BookFits, IsBook, IsMap
    <3> HIDE DEF queues, p
    <3>3. p \in Nat
      BY DEF p
    <3> QED BY <2>1, <3>1, <3>2, <3>3
  <2>3. CASE s # side
    BY <1>5, <2>1, <2>3
  <2> QED BY <2>2, <2>3
<1> QED BY <1>6, <1>7, <1>8 DEF BookFits

(* An order of the book replaced by a later state of itself (get_mut).     *)
LEMMA UpdateFits ==
  ASSUME NEW market_id, NEW book, BookFits(book, market_id),
         NEW order \in Orders, order.order_id \in DOMAIN book.orders,
         order.signed.market_id = market_id,
         order.filled_size_lots <= order.signed.size_lots
  PROVE  /\ BookFits([book EXCEPT !.orders[order.order_id] = order], market_id)
         /\ [book EXCEPT !.orders[order.order_id] = order].orders
              = [book.orders EXCEPT ![order.order_id] = order]
<1> DEFINE orders == [book.orders EXCEPT ![order.order_id] = order]
           updated == [book EXCEPT !.orders[order.order_id] = order]
<1>1. updated = [queues |-> book.queues, orders |-> orders]
  BY DEF BookFits, IsBook
<1>2. /\ IsMap(orders, OrderIds, Orders)
      /\ DOMAIN orders = DOMAIN book.orders
      /\ \A id \in DOMAIN book.orders :
           orders[id] = IF id = order.order_id THEN order ELSE book.orders[id]
  BY ExceptIsMap DEF BookFits, IsBook
<1> HIDE DEF orders, updated
<1>3. IsBook(updated)
  BY <1>1, <1>2, BookOfParts DEF BookFits, IsBook
<1>4. OrdersFit(updated, market_id)
  BY <1>1, <1>2 DEF BookFits, OrdersFit
<1>5. LevelsBounded(updated)
  BY <1>1 DEF BookFits, LevelsBounded
<1>6. updated.orders = orders
  BY <1>1
<1> QED BY <1>3, <1>4, <1>5, <1>6 DEF BookFits, orders, updated

(* remove_from_queue leaves the orders map as it is.                       *)
LEMMA RemoveFromQueueFits ==
  ASSUME NEW market_id, NEW book, BookFits(book, market_id), NEW id \in DOMAIN book.orders,
         book.orders[id].signed.side \in Sides
  PROVE  /\ BookFits(remove_from_queue(book, id), market_id)
         /\ remove_from_queue(book, id).orders = book.orders
<1> DEFINE side == book.orders[id].signed.side
           levels == take_off(book.queues[side], book.orders[id].signed.price_ticks, id)
           queues == [book.queues EXCEPT ![side] = levels]
           removed == remove_from_queue(book, id)
<1>1. removed = [queues |-> queues, orders |-> book.orders]
  BY DEF remove_from_queue, BookFits, IsBook
<1>2. /\ IsMap(levels, Nat, Seq(OrderIds))
      /\ DOMAIN levels \subseteq DOMAIN book.queues[side]
  BY TakeOffIsMap DEF BookFits, IsBook
<1> HIDE DEF levels, removed
<1>3. /\ queues = [s \in Sides |-> queues[s]]
      /\ \A s \in Sides : queues[s] = IF s = side THEN levels ELSE book.queues[s]
  BY DEF BookFits, IsBook
<1>4. \A s \in Sides : /\ IsMap(queues[s], Nat, Seq(OrderIds))
                       /\ DOMAIN queues[s] \subseteq DOMAIN book.queues[s]
  BY <1>2, <1>3 DEF BookFits, IsBook
<1> HIDE DEF queues
<1>5. IsBook(removed)
  BY <1>1, <1>3, <1>4, BookOfParts DEF BookFits, IsBook
<1>6. OrdersFit(removed, market_id)
  BY <1>1 DEF BookFits, OrdersFit
<1>7. LevelsBounded(removed)
  <2> SUFFICES ASSUME NEW s \in Sides
               PROVE  \E b \in Nat : \A q \in DOMAIN queues[s] : q <= b
    BY <1>1 DEF LevelsBounded
  <2>1. PICK b \in Nat : \A q \in DOMAIN book.queues[s] : q <= b
    BY DEF BookFits, LevelsBounded
  <2> QED BY <1>4, <2>1
<1>8. removed.orders = book.orders
  BY <1>1
<1> QED BY <1>5, <1>6, <1>7, <1>8 DEF BookFits, removed

-----------------------------------------------------------------------------
(* The invariant *)

BooksFit == \A m \in DOMAIN books : BookFits(books[m], m)

InProcessOrder == stage \in {"matching", "recording"}

\* What a call in progress can count on.
CallFits ==
  /\ InProcessOrder =>
       /\ taker \in Orders
       /\ taker.signed.market_id \in DOMAIN books
       /\ taker.filled_size_lots <= taker.signed.size_lots
  /\ ~InProcessOrder => taker = NoOrder
  /\ \E b \in Nat : \A p \in prices : p <= b
  /\ to_cancel \subseteq Accepted

EngineInv == TypeOK /\ BooksFit /\ CallFits

\* A step that is not an acceptance: it appends another event or none, and
\* leaves the nonces and the idempotency table alone.
NoAcceptance ==
  /\ UNCHANGED <<nonces, idempotency>>
  /\ \/ UNCHANGED <<log, next_seq_id>>
     \/ \E event \in Events : event.type # "order_accepted" /\ append_event(event)

-----------------------------------------------------------------------------
(* The operators the actions are made of *)

(* The fields of a signed order have their types.                          *)
LEMMA SignedOrderType ==
  ASSUME NEW signed \in SignedOrders
  PROVE  /\ signed.market_id \in STRING /\ signed.client_order_id \in STRING
         /\ signed.trader_id \in TraderIds /\ signed.side \in Sides
         /\ signed.price_ticks \in Nat /\ signed.size_lots \in Nat /\ signed.nonce \in Nat
         /\ canonical_hash(signed) \in Hashes
BY SignedOrdersAssumption DEF SignedOrder, Hashes

(* The order process_order builds is well formed and nothing of it filled. *)
LEMMA NewOrderType ==
  ASSUME NEW signed \in SignedOrders, NEW id \in OrderIds, next_seq_id \in Nat
  PROVE  /\ NewOrder(signed, id) \in Orders
         /\ NewOrder(signed, id).signed = signed
         /\ NewOrder(signed, id).filled_size_lots = 0
         /\ NewOrder(signed, id).order_id = id
         /\ NewOrder(signed, id).created_sequence = next_seq_id
         /\ NewOrder(signed, id).order_hash = canonical_hash(signed)
BY SignedOrderType DEF NewOrder, Orders, OrderStatuses

(* A fill no larger than the remainder leaves an order of the same         *)
(* identity, filled no further than its size.                              *)
LEMMA AfterFillFits ==
  ASSUME NEW order \in Orders, order.filled_size_lots <= order.signed.size_lots,
         NEW qty \in Nat, qty <= remaining_size_lots(order), NEW seq \in Nat
  PROVE  /\ after_fill(order, qty, seq) \in Orders
         /\ after_fill(order, qty, seq).signed = order.signed
         /\ after_fill(order, qty, seq).order_id = order.order_id
         /\ after_fill(order, qty, seq).filled_size_lots = order.filled_size_lots + qty
         /\ after_fill(order, qty, seq).filled_size_lots <= order.signed.size_lots
<1>1. order.signed.size_lots \in Nat /\ order.filled_size_lots \in Nat
  BY SignedOrderType DEF Orders
<1>2. /\ order.filled_size_lots + qty \in Nat
      /\ order.filled_size_lots + qty <= order.signed.size_lots
  BY <1>1 DEF remaining_size_lots
<1> QED BY <1>1, <1>2 DEF after_fill, Orders, OrderStatuses

(* The quantity of a fill fits into both orders.                           *)
LEMMA FillQtyFits ==
  ASSUME taker \in Orders, taker.filled_size_lots <= taker.signed.size_lots,
         NEW maker \in Orders, maker.filled_size_lots <= maker.signed.size_lots
  PROVE  /\ fill_qty(maker) \in Nat
         /\ fill_qty(maker) <= remaining_size_lots(taker)
         /\ fill_qty(maker) <= remaining_size_lots(maker)
<1>1. /\ taker.signed.size_lots \in Nat /\ taker.filled_size_lots \in Nat
      /\ maker.signed.size_lots \in Nat /\ maker.filled_size_lots \in Nat
  BY SignedOrderType DEF Orders
<1> QED BY <1>1 DEF fill_qty, remaining_size_lots

(* A later state of a resting order goes into its book, and comes off the  *)
(* queue when it closes the order.                                         *)
LEMMA UpdateMakerFits ==
  ASSUME NEW market_id, NEW book, BookFits(book, market_id),
         NEW order \in Orders, order.order_id \in DOMAIN book.orders,
         order.signed.market_id = market_id,
         order.filled_size_lots <= order.signed.size_lots
  PROVE  BookFits(update_maker(book, order), market_id)
<1> DEFINE updated == [book EXCEPT !.orders[order.order_id] = order]
<1>1. BookFits(updated, market_id) /\ updated.orders = [book.orders EXCEPT ![order.order_id] = order]
  BY UpdateFits
<1>2. order.order_id \in DOMAIN updated.orders /\ updated.orders[order.order_id] = order
  BY <1>1 DEF BookFits, IsBook, IsMap
<1>3. order.signed.side \in Sides
  BY SignedOrderType DEF Orders
<1> HIDE DEF updated
<1>4. BookFits(remove_from_queue(updated, order.order_id), market_id)
  BY <1>1, <1>2, <1>3, RemoveFromQueueFits
<1> QED BY <1>1, <1>4 DEF update_maker, updated

(* cancel, of an order the book holds.                                     *)
LEMMA CancelFits ==
  ASSUME NEW market_id, NEW book, BookFits(book, market_id),
         NEW id \in DOMAIN book.orders
  PROVE  BookFits(cancel(book, id), market_id)
<1> DEFINE order == [book.orders[id] EXCEPT !.status = "cancelled"]
           updated == [book EXCEPT !.orders[id] = order]
<1>1. book.orders[id] \in Orders /\ book.orders[id].order_id = id
  BY DEF BookFits, IsBook, IsMap, OrdersFit
<1>2. /\ order \in Orders /\ order.order_id = id
      /\ order.signed = book.orders[id].signed
      /\ order.filled_size_lots = book.orders[id].filled_size_lots
  BY <1>1 DEF Orders, OrderStatuses
<1>3. order.signed.market_id = market_id /\ order.filled_size_lots <= order.signed.size_lots
  BY <1>2 DEF BookFits, OrdersFit
<1>4. updated = [book EXCEPT !.orders[id].status = "cancelled"]
  BY DEF BookFits, IsBook
<1> HIDE DEF order
<1>5. BookFits(updated, market_id) /\ updated.orders = [book.orders EXCEPT ![id] = order]
  BY <1>2, <1>3, UpdateFits
<1>6. id \in DOMAIN updated.orders /\ updated.orders[id] = order
  BY <1>5 DEF BookFits, IsBook, IsMap
<1>7. order.signed.side \in Sides
  BY <1>2, SignedOrderType DEF Orders
<1> HIDE DEF updated
<1>8. BookFits(remove_from_queue(updated, id), market_id)
  BY <1>5, <1>6, <1>7, RemoveFromQueueFits
<1> QED BY <1>4, <1>8 DEF cancel, cancel_with_status

(* Appending an event keeps the log a log and what is in it in place.      *)
LEMMA AppendEventType ==
  ASSUME SequencerTypes, NEW event \in Events, append_event(event)
  PROVE  /\ next_seq_id' = next_seq_id + 1 /\ next_seq_id' \in Nat
         /\ log' \in Seq(SequencedEvents)
         /\ Len(log') = Len(log) + 1
         /\ log'[Len(log) + 1] = [seq_id |-> next_seq_id, event |-> event]
         /\ DOMAIN log = 1..Len(log) /\ DOMAIN log' = 1..Len(log) + 1 /\ Len(log) \in Nat
         /\ \A i \in DOMAIN log : log'[i] = log[i]
<1> DEFINE se == [seq_id |-> next_seq_id, event |-> event]
<1>1. se \in SequencedEvents
  BY DEF SequencerTypes, SequencedEvents
<1>2. log' = Append(log, se) /\ next_seq_id' = next_seq_id + 1
  BY DEF append_event
<1>3. log \in Seq(SequencedEvents) /\ next_seq_id \in Nat
  BY DEF SequencerTypes
<1> HIDE DEF se
<1>4. /\ log' \in Seq(SequencedEvents) /\ Len(log') = Len(log) + 1
      /\ log'[Len(log) + 1] = se
      /\ \A i \in 1..Len(log) : log'[i] = log[i]
      /\ DOMAIN log = 1..Len(log) /\ DOMAIN log' = 1..Len(log) + 1 /\ Len(log) \in Nat
  BY <1>1, <1>2, <1>3
<1> QED BY <1>2, <1>3, <1>4 DEF se

\* The map of books, each of its own market.
BooksMap(all) ==
  /\ all = [m \in DOMAIN all |-> all[m]]
  /\ DOMAIN all \subseteq Markets
  /\ \A m \in DOMAIN all : BookFits(all[m], m)

(* Replacing the book of one market by one that fits.                      *)
LEMMA BooksExcept ==
  ASSUME NEW all, BooksMap(all), NEW market_id \in DOMAIN all,
         NEW book, BookFits(book, market_id),
         NEW new, new = [all EXCEPT ![market_id] = book]
  PROVE  BooksMap(new) /\ DOMAIN new = DOMAIN all
BY DEF BooksMap

(* What BooksMap says of the engine's books.                               *)
LEMMA BooksMapOfBooks ==
  ASSUME EngineTypes, BooksFit
  PROVE  BooksMap(books)
BY DEF BooksMap, EngineTypes, BooksFit

(* A map of markets to fitting books is what EngineInv asks of the books.  *)
LEMMA BooksOfBooksMap ==
  ASSUME NEW all, BooksMap(all)
  PROVE  /\ all = [m \in DOMAIN all |-> all[m]] /\ DOMAIN all \subseteq Markets
         /\ \A m \in DOMAIN all : BookFits(all[m], m) /\ IsBook(all[m])
BY DEF BooksMap, BookFits

(* A fill names the taker, the maker and their market.                     *)
LEMMA NewFillType ==
  ASSUME taker \in Orders, NEW maker \in Orders, maker.signed.market_id \in Markets,
         NEW qty \in Nat, price \in Nat
  PROVE  NewFill(maker, qty) \in Fills
<1>1. taker.signed.trader_id \in TraderIds /\ maker.signed.trader_id \in TraderIds
  BY SignedOrderType DEF Orders
<1> QED BY <1>1 DEF NewFill, Fills, Orders

(* The acceptances stay where they are when the log grows.                 *)
LEMMA AcceptedGrows ==
  ASSUME SequencerTypes, NEW event \in Events, append_event(event)
  PROVE  /\ Accepted \subseteq Accepted' /\ DOMAIN log \subseteq DOMAIN log'
         /\ Accepted' = Accepted \cup
              (IF event.type = "order_accepted" THEN {Len(log) + 1} ELSE {})
<1>1. /\ DOMAIN log = 1..Len(log) /\ DOMAIN log' = 1..Len(log) + 1 /\ Len(log) \in Nat
      /\ \A i \in DOMAIN log : log'[i] = log[i]
      /\ log'[Len(log) + 1] = [seq_id |-> next_seq_id, event |-> event]
  BY AppendEventType
<1>2. DOMAIN log' = DOMAIN log \cup {Len(log) + 1} /\ Len(log) + 1 \notin DOMAIN log
  BY <1>1
<1> QED BY <1>1, <1>2 DEF Accepted

-----------------------------------------------------------------------------
(* The inductive invariant: initially, and kept by every action            *)

(* The initial state satisfies the inductive invariant.                    *)
LEMMA InitInv == Init => EngineInv
<1> SUFFICES ASSUME Init PROVE EngineInv
  OBVIOUS
<1>1. \A m \in Markets : BookFits(new_book, m)
  BY NewBookFits
<1>2. BooksFit
  BY <1>1 DEF Init, BooksFit
<1>3. EngineTypes
  BY <1>1, <1>2 DEF Init, EngineTypes, BooksFit, BookFits, IsMap, MarketStatuses
<1>4. SequencerTypes /\ StoreTypes
  BY DEF Init, SequencerTypes, StoreTypes, IsMap
<1>5. CallTypes /\ CallFits
  BY DEF Init, CallTypes, CallFits, InProcessOrder
<1> QED BY <1>2, <1>3, <1>4, <1>5 DEF EngineInv, TypeOK

(* Accepting an order keeps the invariant; the taker it starts is          *)
(* unfilled.                                                               *)
LEMMA ProcessOrderInv ==
  ASSUME EngineInv, NEW signed \in SignedOrders, NEW now_ms, ProcessOrder(signed, now_ms)
  PROVE  EngineInv'
<1> DEFINE order == NewOrder(signed, uuids + 1)
           event == [type |-> "order_accepted", order |-> order]
           market_id == signed.market_id
<1> USE DEF EngineInv, TypeOK
<1>1. /\ order \in Orders /\ order.signed = signed /\ order.filled_size_lots = 0
      /\ order.order_id = uuids + 1 /\ uuids + 1 \in OrderIds
  BY NewOrderType DEF SequencerTypes, CallTypes, OrderIds
<1>2. event \in Events
  BY <1>1 DEF Events
<1>3. append_event(event)
  BY DEF ProcessOrder
<1>4. /\ next_seq_id' \in Nat /\ log' \in Seq(SequencedEvents)
      /\ DOMAIN log \subseteq DOMAIN log' /\ Accepted \subseteq Accepted'
  BY <1>2, <1>3, AppendEventType, AcceptedGrows
<1>5. market_id \in Markets
  BY DEF ProcessOrder, Validated, EngineTypes
<1>6. IsMap(idempotency', TraderIds \X STRING, IdempotencyRecords)
  <2> DEFINE key == <<signed.trader_id, signed.client_order_id>>
             record == [ original_seq_id |-> order.created_sequence,
                         order_id |-> order.order_id, order_hash |-> order.order_hash ]
  <2>1. key \in TraderIds \X STRING
    BY SignedOrderType
  <2>2. record \in IdempotencyRecords
    BY <1>1 DEF IdempotencyRecords, Orders
  <2>3. idempotency' = put(idempotency, key, record)
    BY <1>1 DEF ProcessOrder, register_accepted
  <2> HIDE DEF key, record
  <2> QED BY <2>1, <2>2, <2>3, PutIsMap DEF SequencerTypes
<1>7. IsMap(order_market_index', OrderIds, Markets)
  <2>1. order_market_index' = put(order_market_index, order.order_id, market_id)
    BY DEF ProcessOrder
  <2> HIDE DEF order, market_id
  <2> QED BY <1>1, <1>5, <2>1, PutIsMap DEF EngineTypes
<1>8. nonces' \in [TraderIds -> Nat]
  BY SignedOrderType DEF ProcessOrder, check_and_update_nonce, StoreTypes
<1>9. prices' \subseteq Nat /\ \E b \in Nat : \A p \in prices' : p <= b
  <2>1. CASE market_id \notin DOMAIN books
    BY <2>1 DEF ProcessOrder
  <2>2. CASE market_id \in DOMAIN books
    <3>1. prices' \subseteq DOMAIN books[market_id].queues[Opposite(signed.side)]
      BY <1>1, <2>2 DEF ProcessOrder, crossable_prices
    <3>2. Opposite(signed.side) \in Sides
      BY DEF Opposite, Sides
    <3>3. BookFits(books[market_id], market_id)
      BY <2>2 DEF BooksFit
    <3>4. DOMAIN books[market_id].queues[Opposite(signed.side)] \subseteq Nat
      BY <3>2, <3>3 DEF BookFits, IsBook, IsMap
    <3>5. PICK b \in Nat : \A p \in DOMAIN books[market_id].queues[Opposite(signed.side)] : p <= b
      BY <3>2, <3>3 DEF BookFits, LevelsBounded
    <3> QED BY <3>1, <3>4, <3>5
  <2> QED BY <2>1, <2>2
<1>10. EngineTypes' /\ BooksFit'
  BY <1>7 DEF ProcessOrder, EngineTypes, BooksFit
<1>11. SequencerTypes' /\ StoreTypes'
  BY <1>4, <1>6, <1>8 DEF ProcessOrder, SequencerTypes, StoreTypes
<1>12. CallTypes' /\ CallFits'
  <2>1. /\ stage' \in {"idle", "matching"}
        /\ stage' = "matching" => taker' = order /\ market_id \in DOMAIN books
        /\ stage' = "idle" => taker' = NoOrder
        /\ uuids' = uuids + 1
        /\ UNCHANGED <<books, price, maker_ids, fills, to_cancel>>
    BY DEF ProcessOrder
  <2>2. order.filled_size_lots <= order.signed.size_lots
    BY <1>1, SignedOrderType
  <2> HIDE DEF order, market_id
  <2>3. CallTypes'
    BY <1>1, <1>4, <1>9, <2>1 DEF CallTypes
  <2>4. stage' = "matching" => taker'.signed.market_id \in DOMAIN books'
    BY <1>1, <2>1 DEF market_id
  <2> QED BY <1>1, <1>4, <1>9, <2>1, <2>2, <2>3, <2>4 DEF CallFits, InProcessOrder
<1> QED BY <1>10, <1>11, <1>12

(* Moving on to the next price level keeps the invariant.                  *)
LEMMA NextLevelInv ==
  ASSUME EngineInv, NextLevel
  PROVE  EngineInv' /\ NoAcceptance
<1> USE DEF EngineInv, TypeOK
<1> DEFINE side == Opposite(taker.signed.side)
           book == books[taker.signed.market_id]
<1>1. side \in Sides
  BY DEF Opposite, Sides
<1>2. BookFits(book, taker.signed.market_id)
  BY DEF NextLevel, CallFits, InProcessOrder, BooksFit
<1>3. price' \in prices /\ price' \in Nat
  <2>1. prices # {} /\ prices \subseteq Nat
    BY DEF NextLevel, MatchOver, CallTypes
  <2>2. PICK b \in Nat : \A p \in prices : p <= b
    BY DEF CallFits
  <2>3. price' = best_of(side, prices)
    BY DEF NextLevel
  <2> HIDE DEF side
  <2> QED BY <1>1, <2>1, <2>2, <2>3, BestOfIsBest
<1>4. maker_ids' \in Seq(OrderIds)
  <2>1. IsMap(book.queues[side], Nat, Seq(OrderIds))
    BY <1>1, <1>2 DEF BookFits, IsBook
  <2>2. maker_ids' = orders_at_price(book, price', side)
    BY DEF NextLevel
  <2> HIDE DEF book, side
  <2> QED BY <2>1, <2>2 DEF orders_at_price, IsMap
<1>5. prices' \subseteq prices
  BY DEF NextLevel, levels_after
<1>6. EngineTypes' /\ BooksFit' /\ SequencerTypes' /\ StoreTypes'
  BY DEF NextLevel, EngineTypes, BooksFit, SequencerTypes, StoreTypes, engine_vars,
         sequencer_vars, store_vars
<1>7. CallTypes'
  BY <1>3, <1>4, <1>5 DEF NextLevel, CallTypes, sequencer_vars
<1>8. CallFits'
  BY <1>5 DEF NextLevel, CallFits, InProcessOrder, engine_vars, sequencer_vars, Accepted
<1>9. NoAcceptance
  BY DEF NextLevel, NoAcceptance, sequencer_vars, store_vars
<1> QED BY <1>6, <1>7, <1>8, <1>9

(* A turn of the matching loop, skip, fill or self-trade, keeps the        *)
(* invariant.                                                              *)
LEMMA MatchMakerInv ==
  ASSUME EngineInv, MatchMaker
  PROVE  EngineInv' /\ NoAcceptance
<1> DEFINE market_id == taker.signed.market_id
           book == books[market_id]
           id == Head(maker_ids)
           maker == book.orders[id]
<1> USE DEF EngineInv, TypeOK
<1>1. /\ stage = "matching" /\ maker_ids \in Seq(OrderIds) /\ maker_ids # << >>
      /\ taker \in Orders /\ market_id \in DOMAIN books
      /\ taker.filled_size_lots <= taker.signed.size_lots
  BY DEF MatchMaker, CallTypes, CallFits, InProcessOrder
<1>2. maker_ids' \in Seq(OrderIds)
  BY <1>1, HeadTailProperties DEF MatchMaker
<1>3. /\ taker' \in Orders /\ taker'.signed = taker.signed
      /\ taker'.filled_size_lots <= taker.signed.size_lots
      /\ fills' \in Seq(Fills)
      /\ EngineTypes' /\ BooksFit' /\ DOMAIN books' = DOMAIN books
  <2>1. CASE UNCHANGED <<taker, books, fills>>
    BY <1>1, <2>1 DEF MatchMaker, EngineTypes, BooksFit, CallTypes
  <2>2. CASE ~stale(book, id) /\ StpCancelTaker(maker)
    <3>1. /\ taker' \in Orders /\ taker'.signed = taker.signed
          /\ taker'.filled_size_lots = taker.filled_size_lots
      BY <1>1, <2>2 DEF StpCancelTaker, Orders, OrderStatuses
    <3> QED BY <1>1, <2>2, <3>1 DEF StpCancelTaker, MatchMaker, EngineTypes, BooksFit, CallTypes
  <2>3. CASE ~stale(book, id) /\ FillMaker(maker)
    <3> DEFINE qty == fill_qty(maker)
               seq == taker.created_sequence
               filled == after_fill(maker, qty, seq)
               updated == update_maker(book, filled)
    <3>1. BookFits(book, market_id) /\ id \in DOMAIN book.orders
      BY <1>1, <2>3 DEF BooksFit, stale
    <3>2. /\ maker \in Orders /\ maker.order_id = id /\ maker.signed.market_id = market_id
          /\ maker.filled_size_lots <= maker.signed.size_lots
      BY <3>1 DEF BookFits, IsBook, IsMap, OrdersFit
    <3>3. seq \in Nat /\ price \in Nat /\ market_id \in Markets /\ fills \in Seq(Fills)
      BY <1>1 DEF Orders, CallTypes, EngineTypes
    <3>4. /\ taker' = after_fill(taker, qty, seq)
          /\ fills' = Append(fills, NewFill(maker, qty))
          /\ books' = [books EXCEPT ![market_id] = updated]
          /\ UNCHANGED <<markets, order_market_index>>
      BY <2>3 DEF FillMaker, MatchMaker
    <3> HIDE DEF maker, book, market_id, id, seq
    <3>5. qty \in Nat /\ qty <= remaining_size_lots(taker) /\ qty <= remaining_size_lots(maker)
      BY <1>1, <3>2, FillQtyFits
    <3> HIDE DEF qty
    <3>6. /\ taker' \in Orders /\ taker'.signed = taker.signed
          /\ taker'.filled_size_lots <= taker.signed.size_lots
      BY <1>1, <3>3, <3>4, <3>5, AfterFillFits
    <3>7. fills' \in Seq(Fills)
      <4>1. NewFill(maker, qty) \in Fills
        BY <1>1, <3>2, <3>3, <3>5, NewFillType
      <4> QED BY <3>3, <3>4, <4>1
    <3>8. /\ filled \in Orders /\ filled.order_id = id
          /\ filled.signed.market_id = market_id
          /\ filled.filled_size_lots <= filled.signed.size_lots
      BY <3>2, <3>3, <3>5, AfterFillFits
    <3> HIDE DEF filled
    <3>9. BookFits(updated, market_id)
      BY <3>1, <3>8, UpdateMakerFits
    <3> HIDE DEF updated
    <3>10. BooksMap(books') /\ DOMAIN books' = DOMAIN books
      <4>1. market_id \in DOMAIN books
        BY <1>1 DEF market_id
      <4> QED BY <3>4, <3>9, <4>1, BooksMapOfBooks, BooksExcept
    <3>11. EngineTypes' /\ BooksFit'
      BY <3>4, <3>10, BooksOfBooksMap DEF EngineTypes, BooksFit
    <3> QED BY <3>6, <3>7, <3>10, <3>11
  <2> QED BY <2>1, <2>2, <2>3 DEF MatchMaker
<1>4. SequencerTypes' /\ StoreTypes'
  BY DEF MatchMaker, SequencerTypes, StoreTypes, sequencer_vars, store_vars
<1>5. CallTypes'
  BY <1>2, <1>3 DEF MatchMaker, CallTypes, sequencer_vars
<1>6. CallFits'
  BY <1>1, <1>3 DEF MatchMaker, CallFits, InProcessOrder, Accepted, sequencer_vars
<1>7. NoAcceptance
  BY DEF MatchMaker, NoAcceptance, sequencer_vars, store_vars
<1> QED BY <1>3, <1>4, <1>5, <1>6, <1>7

(* Returning the fills from match_order keeps the invariant.               *)
LEMMA EndMatchInv ==
  ASSUME EngineInv, EndMatch
  PROVE  EngineInv' /\ NoAcceptance
<1> USE DEF EngineInv, TypeOK
<1>1. EngineTypes' /\ BooksFit' /\ SequencerTypes' /\ StoreTypes'
  BY DEF EndMatch, EngineTypes, BooksFit, SequencerTypes, StoreTypes, engine_vars,
         sequencer_vars, store_vars
<1>2. CallTypes'
  BY DEF EndMatch, CallTypes, sequencer_vars
<1>3. CallFits'
  BY DEF EndMatch, CallFits, InProcessOrder, Accepted, sequencer_vars, engine_vars
<1>4. NoAcceptance
  BY DEF EndMatch, NoAcceptance, sequencer_vars, store_vars
<1> QED BY <1>1, <1>2, <1>3, <1>4

(* Sequencing a fill and applying it to the store keeps the invariant.     *)
LEMMA RecordFillInv ==
  ASSUME EngineInv, RecordFill
  PROVE  EngineInv' /\ NoAcceptance
<1> DEFINE fill == Head(fills)
           event == [type |-> "fill", fill |-> fill]
<1> USE DEF EngineInv, TypeOK
<1>1. fill \in Fills /\ fills' \in Seq(Fills)
  BY HeadTailProperties DEF RecordFill, CallTypes
<1>2. event \in Events
  BY <1>1 DEF Events
<1>3. /\ next_seq_id' \in Nat /\ log' \in Seq(SequencedEvents)
      /\ DOMAIN log \subseteq DOMAIN log' /\ Accepted \subseteq Accepted'
  BY <1>2, AppendEventType, AcceptedGrows DEF RecordFill
<1>4. filled_amounts' \in [Hashes -> Nat]
  <2>1. /\ fill.taker_order_hash \in Hashes /\ fill.maker_order_hash \in Hashes
        /\ fill.size_lots \in Nat
    BY <1>1 DEF Fills
  <2>2. apply_fill(fill)
    BY DEF RecordFill
  <2>3. filled_amounts \in [Hashes -> Nat]
    BY DEF StoreTypes
  <2> HIDE DEF fill
  <2> QED BY <2>1, <2>2, <2>3 DEF apply_fill
<1>5. EngineTypes' /\ BooksFit' /\ SequencerTypes' /\ StoreTypes'
  BY <1>3, <1>4 DEF RecordFill, EngineTypes, BooksFit, SequencerTypes, StoreTypes, engine_vars
<1>6. CallTypes' /\ CallFits'
  BY <1>1, <1>3 DEF RecordFill, CallTypes, CallFits, InProcessOrder, engine_vars
<1>7. NoAcceptance
  BY <1>2 DEF RecordFill, NoAcceptance
<1> QED BY <1>5, <1>6, <1>7

(* The end of process_order, with or without a residual, keeps the         *)
(* invariant.                                                              *)
LEMMA FinishOrderInv ==
  ASSUME EngineInv, FinishOrder
  PROVE  EngineInv' /\ NoAcceptance
<1> DEFINE market_id == taker.signed.market_id
           event == OrderCancelled(taker.order_id, taker.order_hash, "self_trade_prevention")
<1> USE DEF EngineInv, TypeOK
<1>1. /\ taker \in Orders /\ market_id \in DOMAIN books
      /\ taker.filled_size_lots <= taker.signed.size_lots
  BY DEF FinishOrder, CallFits, InProcessOrder
<1>2. event \in Events
  BY <1>1 DEF OrderCancelled, Events, Orders, CancelReasons
<1>3. /\ next_seq_id' \in Nat /\ log' \in Seq(SequencedEvents)
      /\ DOMAIN log \subseteq DOMAIN log' /\ Accepted \subseteq Accepted'
      /\ cancelled' \subseteq Hashes
  <2>1. CASE taker.status = "cancelled_stp"
    <3>1. append_event(event) /\ cancelled' = cancelled \cup {taker.order_hash}
      BY <2>1 DEF FinishOrder, cancel_order
    <3> QED BY <1>1, <1>2, <3>1, AppendEventType, AcceptedGrows DEF StoreTypes, Orders
  <2>2. CASE taker.status # "cancelled_stp"
    BY <2>2 DEF FinishOrder, SequencerTypes, StoreTypes, Accepted
  <2> QED BY <2>1, <2>2
<1>4. EngineTypes' /\ BooksFit'
  <2>1. CASE books' = books
    BY <2>1 DEF FinishOrder, EngineTypes, BooksFit
  <2>2. CASE books' = [books EXCEPT ![market_id] = insert(books[market_id], taker)]
    <3> DEFINE book == insert(books[market_id], taker)
    <3>1. BookFits(books[market_id], market_id)
      BY <1>1 DEF BooksFit
    <3>2. taker.signed.side \in Sides /\ taker.signed.price_ticks \in Nat
      BY <1>1, SignedOrderType DEF Orders
    <3>3. BookFits(book, market_id)
      BY <1>1, <3>1, <3>2, InsertFits
    <3> HIDE DEF book
    <3>4. books' = [books EXCEPT ![market_id] = book]
      BY <2>2 DEF book
    <3>5. BooksMap(books')
      BY <1>1, <3>3, <3>4, BooksMapOfBooks, BooksExcept
    <3> QED BY <3>5, BooksOfBooksMap DEF FinishOrder, EngineTypes, BooksFit
  <2> QED BY <2>1, <2>2 DEF FinishOrder, RestResidual
<1>5. SequencerTypes' /\ StoreTypes'
  BY <1>3 DEF FinishOrder, SequencerTypes, StoreTypes
<1>6. CallTypes' /\ CallFits'
  BY <1>3 DEF FinishOrder, CallTypes, CallFits, InProcessOrder
<1>7. NoAcceptance
  BY <1>2 DEF FinishOrder, NoAcceptance, OrderCancelled
<1> QED BY <1>4, <1>5, <1>6, <1>7

(* A trader's cancellation keeps the invariant.                            *)
LEMMA ProcessCancelInv ==
  ASSUME EngineInv, NEW id, NEW trader_id, ProcessCancel(id, trader_id)
  PROVE  EngineInv' /\ NoAcceptance
<1> DEFINE order == find_order(id)
           market_id == order_market_index[id]
           event == OrderCancelled(id, order.order_hash, "trader_request")
           book == cancel(books[market_id], id)
<1> USE DEF EngineInv, TypeOK
<1>1. /\ market_id \in DOMAIN books /\ id \in DOMAIN books[market_id].orders
      /\ order = books[market_id].orders[id]
  BY DEF ProcessCancel, find_order
<1>2. BookFits(books[market_id], market_id)
  BY <1>1 DEF BooksFit
<1>3. order \in Orders /\ id \in OrderIds
  BY <1>1, <1>2 DEF BookFits, IsBook, IsMap
<1>4. BookFits(book, market_id)
  BY <1>1, <1>2, CancelFits
<1>5. /\ append_event(event)
      /\ cancelled' = cancelled \cup {order.order_hash}
      /\ books' = [books EXCEPT ![market_id] = book]
  BY DEF ProcessCancel, cancel_order
<1> HIDE DEF book, market_id, order
<1>6. event \in Events
  BY <1>3 DEF OrderCancelled, Events, Orders, CancelReasons
<1>7. /\ next_seq_id' \in Nat /\ log' \in Seq(SequencedEvents)
      /\ DOMAIN log \subseteq DOMAIN log' /\ Accepted \subseteq Accepted'
  BY <1>5, <1>6, AppendEventType, AcceptedGrows
<1>8. BooksMap(books') /\ DOMAIN books' = DOMAIN books
  BY <1>1, <1>4, <1>5, BooksMapOfBooks, BooksExcept
<1>9. EngineTypes' /\ BooksFit'
  BY <1>8, BooksOfBooksMap DEF ProcessCancel, EngineTypes, BooksFit
<1>10. SequencerTypes' /\ StoreTypes'
  BY <1>3, <1>5, <1>7 DEF ProcessCancel, SequencerTypes, StoreTypes, Orders
<1>11. CallTypes' /\ CallFits'
  BY <1>7, <1>8 DEF ProcessCancel, CallTypes, CallFits, InProcessOrder, matching_vars
<1>12. NoAcceptance
  BY <1>5, <1>6 DEF ProcessCancel, NoAcceptance, OrderCancelled
<1> QED BY <1>9, <1>10, <1>11, <1>12

(* Pausing or resuming a market keeps the invariant.                       *)
LEMMA SetStatusInv ==
  ASSUME EngineInv, NEW market_id \in Markets, NEW from, NEW to \in MarketStatuses,
         NEW type \in {"market_paused", "market_resumed"},
         SetStatus(market_id, from, to, type)
  PROVE  EngineInv' /\ NoAcceptance
<1> DEFINE event == [type |-> type, market_id |-> market_id]
<1> USE DEF EngineInv, TypeOK
<1>1. event \in Events
  BY DEF Events
<1>2. /\ next_seq_id' \in Nat /\ log' \in Seq(SequencedEvents)
      /\ DOMAIN log \subseteq DOMAIN log' /\ Accepted \subseteq Accepted'
  BY <1>1, AppendEventType, AcceptedGrows DEF SetStatus
<1>3. /\ books' = [m \in DOMAIN books' |-> books'[m]] /\ DOMAIN books' \subseteq Markets
      /\ DOMAIN books \subseteq DOMAIN books'
      /\ BooksFit'
  <2>1. CASE market_id \in DOMAIN books
    BY <2>1 DEF SetStatus, add_market, EngineTypes, BooksFit
  <2>2. CASE market_id \notin DOMAIN books
    <3>1. books' = put(books, market_id, new_book) /\ BookFits(new_book, market_id)
      BY <2>2, NewBookFits DEF SetStatus, add_market
    <3> QED BY <3>1 DEF put, EngineTypes, BooksFit
  <2> QED BY <2>1, <2>2
<1>4. EngineTypes'
  <2>1. \A m \in DOMAIN books' : IsBook(books'[m])
    BY <1>3 DEF BooksFit, BookFits
  <2> QED BY <1>3, <2>1 DEF SetStatus, add_market, EngineTypes
<1>5. SequencerTypes' /\ StoreTypes'
  BY <1>2 DEF SetStatus, SequencerTypes, StoreTypes, store_vars
<1>6. CallTypes' /\ CallFits'
  BY <1>2, <1>3 DEF SetStatus, CallTypes, CallFits, InProcessOrder, matching_vars
<1>7. NoAcceptance
  BY <1>1 DEF SetStatus, NoAcceptance, store_vars
<1> QED BY <1>3, <1>4, <1>5, <1>6, <1>7

(* Collecting the acceptances to cancel keeps the invariant.               *)
LEMMA CancelAllOrdersInv ==
  ASSUME EngineInv, NEW market_id, CancelAllOrders(market_id)
  PROVE  EngineInv' /\ NoAcceptance
<1> USE DEF EngineInv, TypeOK
<1>1. EngineTypes' /\ BooksFit' /\ SequencerTypes' /\ StoreTypes'
  BY DEF CancelAllOrders, EngineTypes, BooksFit, SequencerTypes, StoreTypes, engine_vars,
         sequencer_vars, store_vars
<1>2. CallTypes'
  BY DEF CancelAllOrders, CallTypes, sequencer_vars, matching_vars
<1>3. to_cancel' \subseteq Accepted /\ Accepted' = Accepted
  BY DEF CancelAllOrders, Accepted, sequencer_vars
<1>4. CallFits'
  BY <1>3 DEF CancelAllOrders, CallFits, InProcessOrder, matching_vars
<1>5. NoAcceptance
  BY DEF CancelAllOrders, NoAcceptance, sequencer_vars, store_vars
<1> QED BY <1>1, <1>2, <1>4, <1>5

(* Cancelling one of the collected orders keeps the invariant.             *)
LEMMA CancelNextInv ==
  ASSUME EngineInv, CancelNext
  PROVE  EngineInv' /\ NoAcceptance
<1> USE DEF EngineInv, TypeOK
<1>1. PICK i \in to_cancel :
        /\ cancel_order(log[i].event.order.order_hash)
        /\ append_event(OrderCancelled(log[i].event.order.order_id,
                                       log[i].event.order.order_hash, "admin_force"))
        /\ to_cancel' = to_cancel \ {i}
        /\ stage' = IF to_cancel = {i} THEN "idle" ELSE "cancelling"
  BY DEF CancelNext
<1> DEFINE order == log[i].event.order
           event == OrderCancelled(order.order_id, order.order_hash, "admin_force")
<1>2. order \in Orders
  <2>1. i \in DOMAIN log /\ log[i].event.type = "order_accepted"
    BY DEF CallFits, Accepted
  <2>2. log[i] \in SequencedEvents
    BY <2>1 DEF SequencerTypes
  <2>3. log[i].event \in Events
    BY <2>2 DEF SequencedEvents
  <2> QED BY <2>1, <2>3 DEF Events
<1>3. event \in Events
  BY <1>2 DEF OrderCancelled, Events, Orders, CancelReasons
<1>4. /\ next_seq_id' \in Nat /\ log' \in Seq(SequencedEvents)
      /\ DOMAIN log \subseteq DOMAIN log' /\ Accepted \subseteq Accepted'
  BY <1>1, <1>3, AppendEventType, AcceptedGrows
<1>5. cancelled' \subseteq Hashes
  BY <1>1, <1>2 DEF cancel_order, StoreTypes, Orders
<1>6. EngineTypes' /\ BooksFit' /\ SequencerTypes' /\ StoreTypes'
  BY <1>4, <1>5 DEF CancelNext, EngineTypes, BooksFit, SequencerTypes, StoreTypes, engine_vars
<1>7. CallTypes' /\ CallFits'
  BY <1>1, <1>4 DEF CancelNext, CallTypes, CallFits, InProcessOrder, matching_vars
<1>8. NoAcceptance
  BY <1>1, <1>3 DEF CancelNext, NoAcceptance, OrderCancelled
<1> QED BY <1>6, <1>7, <1>8

(* A step that leaves every variable alone keeps the invariant.            *)
LEMMA StutterInv ==
  ASSUME EngineInv, UNCHANGED vars
  PROVE  EngineInv' /\ NoAcceptance
<1> USE DEF vars, engine_vars, sequencer_vars, store_vars, matching_vars
<1>1. EngineTypes' /\ BooksFit' /\ SequencerTypes' /\ StoreTypes'
  BY DEF EngineInv, TypeOK, EngineTypes, BooksFit, SequencerTypes, StoreTypes
<1>2. CallTypes' /\ CallFits'
  BY DEF EngineInv, TypeOK, CallTypes, CallFits, InProcessOrder, Accepted
<1>3. NoAcceptance
  BY DEF NoAcceptance
<1> QED BY <1>1, <1>2, <1>3 DEF EngineInv, TypeOK

(* Every step keeps the invariant, and accepts an order or does not.       *)
LEMMA StepInv ==
  ASSUME EngineInv, [Next]_vars
  PROVE  /\ EngineInv'
         /\ \/ NoAcceptance
            \/ \E signed \in SignedOrders, now_ms \in Times : ProcessOrder(signed, now_ms)
<1>1. CASE UNCHANGED vars
  BY <1>1, StutterInv
<1>2. ASSUME NEW signed \in SignedOrders, NEW now_ms \in Times, ProcessOrder(signed, now_ms)
      PROVE  EngineInv'
  BY <1>2, ProcessOrderInv
<1>3. ASSUME NEW id, NEW trader_id, ProcessCancel(id, trader_id)
      PROVE  EngineInv' /\ NoAcceptance
  BY <1>3, ProcessCancelInv
<1>4. ASSUME NEW trader_id, NEW client_order_id, CancelByClientId(trader_id, client_order_id)
      PROVE  EngineInv' /\ NoAcceptance
  BY <1>3, <1>4 DEF CancelByClientId
<1>5. ASSUME NEW market_id \in Markets, PauseMarket(market_id) \/ ResumeMarket(market_id)
      PROVE  EngineInv' /\ NoAcceptance
  BY <1>5, SetStatusInv DEF PauseMarket, ResumeMarket, MarketStatuses
<1>6. ASSUME NEW market_id \in Markets, CancelAllOrders(market_id)
      PROVE  EngineInv' /\ NoAcceptance
  BY <1>6, CancelAllOrdersInv
<1>7. CASE Continue
  BY <1>7, NextLevelInv, MatchMakerInv, EndMatchInv, RecordFillInv, FinishOrderInv,
     CancelNextInv DEF Continue
<1>8. CASE Call
  BY <1>8, <1>2, <1>3, <1>4, <1>5, <1>6 DEF Call
<1> QED BY <1>1, <1>7, <1>8 DEF Next

(* Every reachable state of the engine satisfies the inductive invariant.  *)
THEOREM SpecEngineInv == Spec => []EngineInv
<1>1. EngineInv /\ [Next]_vars => EngineInv'
  BY StepInv
<1> QED BY <1>1, InitInv, PTL DEF Spec

(* Every variable of the engine keeps its type, whatever orders come in.   *)
THEOREM SpecTypeOK == Spec => []TypeOK
<1>1. EngineInv => TypeOK
  BY DEF EngineInv
<1> QED BY <1>1, SpecEngineInv, PTL

LEMMA NothingOverfilled ==
  ASSUME EngineInv
  PROVE  NoOverfill
<1>1. \A m \in DOMAIN books : OrdersFit(books[m], m)
  BY DEF EngineInv, BooksFit, BookFits
<1>2. taker # NoOrder => taker.filled_size_lots <= taker.signed.size_lots
  BY DEF EngineInv, CallFits
<1> QED BY <1>1, <1>2 DEF NoOverfill, OrdersFit

(* match_order never fills an order, resting or incoming, beyond its size, *)
(* so remaining_size_lots never underflows.                                *)
THEOREM SpecNoOverfill == Spec => []NoOverfill
<1>1. EngineInv => NoOverfill
  BY NothingOverfilled
<1> QED BY <1>1, SpecEngineInv, PTL

-----------------------------------------------------------------------------
(* Sequencing *)

(* ProcessOrder appends the acceptance of a new order.                     *)
LEMMA AcceptanceStep ==
  ASSUME EngineInv, NEW signed \in SignedOrders, NEW now_ms, ProcessOrder(signed, now_ms)
  PROVE  \E order \in Orders :
           /\ order.signed = signed /\ order.created_sequence = next_seq_id
           /\ order.order_hash = canonical_hash(signed)
           /\ [type |-> "order_accepted", order |-> order] \in Events
           /\ append_event([type |-> "order_accepted", order |-> order])
           /\ register_accepted(order)
           /\ check_and_update_nonce(signed)
           /\ ~IsDuplicate(signed)
<1> DEFINE order == NewOrder(signed, uuids + 1)
<1>1. uuids + 1 \in OrderIds /\ next_seq_id \in Nat
  BY DEF EngineInv, TypeOK, SequencerTypes, CallTypes, OrderIds
<1>2. /\ order \in Orders /\ order.signed = signed /\ order.created_sequence = next_seq_id
      /\ order.order_hash = canonical_hash(signed)
  BY <1>1, NewOrderType
<1>3. /\ append_event([type |-> "order_accepted", order |-> order])
      /\ register_accepted(order) /\ check_and_update_nonce(signed) /\ ~IsDuplicate(signed)
  BY DEF ProcessOrder
<1> HIDE DEF order
<1>4. [type |-> "order_accepted", order |-> order] \in Events
  BY <1>2 DEF Events
<1> QED BY <1>2, <1>3, <1>4

(* Sequence ids never skip or repeat, whatever calls come in: what the gap *)
(* check of replay and the seq_before cursors of the handlers rely on.     *)
THEOREM SpecLogGapless == Spec => []LogGapless
<1>1. Init => LogGapless
  BY DEF Init, LogGapless
<1>2. ASSUME EngineInv, LogGapless, [Next]_vars PROVE LogGapless'
  <2>1. CASE UNCHANGED <<log, next_seq_id>>
    BY <1>2, <2>1 DEF LogGapless
  <2>2. ASSUME NEW event \in Events, append_event(event) PROVE LogGapless'
    <3>1. SequencerTypes
      BY <1>2 DEF EngineInv, TypeOK
    <3>2. /\ next_seq_id' = next_seq_id + 1 /\ Len(log') = Len(log) + 1
          /\ log'[Len(log) + 1] = [seq_id |-> next_seq_id, event |-> event]
          /\ DOMAIN log = 1..Len(log) /\ DOMAIN log' = 1..Len(log) + 1 /\ Len(log) \in Nat
          /\ \A i \in DOMAIN log : log'[i] = log[i]
      BY <2>2, <3>1, AppendEventType
    <3> QED BY <1>2, <3>2 DEF LogGapless
  <2>3. ASSUME NEW signed \in SignedOrders, NEW now_ms \in Times, ProcessOrder(signed, now_ms)
        PROVE  LogGapless'
    BY <1>2, <2>2, <2>3, AcceptanceStep
  <2> QED BY <1>2, <2>1, <2>2, <2>3, StepInv DEF NoAcceptance
<1>3. EngineInv /\ LogGapless /\ [Next]_vars => LogGapless'
  BY <1>2
<1> QED BY <1>1, <1>3, SpecEngineInv, PTL DEF Spec

(* A step without an acceptance keeps the acceptances as they are.         *)
LEMMA AcceptedKept ==
  ASSUME EngineInv, NoAcceptance
  PROVE  Accepted' = Accepted /\ \A i \in Accepted : log'[i] = log[i]
<1>1. CASE UNCHANGED <<log, next_seq_id>>
  BY <1>1 DEF Accepted
<1>2. ASSUME NEW event \in Events, event.type # "order_accepted", append_event(event)
      PROVE  Accepted' = Accepted /\ \A i \in Accepted : log'[i] = log[i]
  <2>1. SequencerTypes
    BY DEF EngineInv, TypeOK
  <2>2. Accepted' = Accepted
    BY <1>2, <2>1, AcceptedGrows
  <2>3. \A i \in DOMAIN log : log'[i] = log[i]
    BY <1>2, <2>1, AppendEventType
  <2> QED BY <2>2, <2>3 DEF Accepted
<1> QED BY <1>1, <1>2 DEF NoAcceptance

(* An acceptance goes behind all that came before it.                      *)
LEMMA AcceptedAppended ==
  ASSUME EngineInv, NEW order \in Orders,
         [type |-> "order_accepted", order |-> order] \in Events,
         append_event([type |-> "order_accepted", order |-> order])
  PROVE  /\ Len(log) \in Nat
         /\ Accepted' = Accepted \cup {Len(log) + 1} /\ Accepted \subseteq 1..Len(log)
         /\ log'[Len(log) + 1].event.order = order
         /\ log'[Len(log) + 1].seq_id = next_seq_id
         /\ \A i \in Accepted : log'[i] = log[i]
<1> DEFINE event == [type |-> "order_accepted", order |-> order]
<1>1. SequencerTypes /\ event \in Events /\ append_event(event)
  BY DEF EngineInv, TypeOK
<1>2. event.type = "order_accepted" /\ event.order = order
  OBVIOUS
<1> HIDE DEF event
<1>3. Accepted' = Accepted \cup {Len(log) + 1}
  BY <1>1, <1>2, AcceptedGrows
<1>4. /\ Len(log) \in Nat /\ DOMAIN log = 1..Len(log)
      /\ log'[Len(log) + 1] = [seq_id |-> next_seq_id, event |-> event]
      /\ \A i \in DOMAIN log : log'[i] = log[i]
  BY <1>1, AppendEventType
<1> QED BY <1>2, <1>3, <1>4 DEF Accepted

(* No signed order is accepted twice: along the log the accepted nonces of *)
(* a trader rise, for any number of traders, orders and resubmissions.     *)
THEOREM SpecNoncesRise == Spec => []NoncesRise
<1>1. Init => NoncesRise
  BY DEF Init, NoncesRise, Accepted
<1>2. ASSUME EngineInv, NoncesRise, [Next]_vars PROVE NoncesRise'
  <2>1. CASE NoAcceptance
    <3>1. Accepted' = Accepted /\ (\A i \in Accepted : log'[i] = log[i]) /\ nonces' = nonces
      BY <1>2, <2>1, AcceptedKept DEF NoAcceptance
    <3> QED BY <1>2, <3>1 DEF NoncesRise, OrderAt
  <2>2. ASSUME NEW signed \in SignedOrders, NEW now_ms \in Times, ProcessOrder(signed, now_ms)
        PROVE  NoncesRise'
    <3>1. PICK order \in Orders :
            /\ order.signed = signed
            /\ [type |-> "order_accepted", order |-> order] \in Events
            /\ append_event([type |-> "order_accepted", order |-> order])
            /\ check_and_update_nonce(signed)
      BY <1>2, <2>2, AcceptanceStep
    <3> DEFINE last == Len(log) + 1
    <3>2. /\ Len(log) \in Nat
          /\ Accepted' = Accepted \cup {last} /\ Accepted \subseteq 1..Len(log)
          /\ log'[last].event.order = order
          /\ \A i \in Accepted : log'[i] = log[i]
      BY <1>2, <3>1, AcceptedAppended
    <3>3. /\ nonces \in [TraderIds -> Nat] /\ signed.trader_id \in TraderIds
          /\ signed.nonce \in Nat /\ signed.nonce > nonces[signed.trader_id]
          /\ nonces' = [nonces EXCEPT ![signed.trader_id] = signed.nonce]
      BY <1>2, <3>1, SignedOrderType DEF EngineInv, TypeOK, StoreTypes, check_and_update_nonce
    <3>4. \A i \in Accepted :
            /\ OrderAt(i).signed.trader_id \in TraderIds /\ OrderAt(i).signed.nonce \in Nat
            /\ OrderAt(i).signed.nonce <= nonces[OrderAt(i).signed.trader_id]
      <4> SUFFICES ASSUME NEW i \in Accepted
                   PROVE  OrderAt(i).signed \in SignedOrders
        BY <1>2, SignedOrderType DEF NoncesRise
      <4>1. log[i] \in SequencedEvents /\ log[i].event.type = "order_accepted"
        BY <1>2 DEF Accepted, EngineInv, TypeOK, SequencerTypes
      <4>2. log[i].event \in Events
        BY <4>1 DEF SequencedEvents
      <4> QED BY <4>1, <4>2 DEF Events, Orders, OrderAt
    <3>5. \A i \in Accepted : log'[i].event.order = OrderAt(i)
      BY <3>2 DEF OrderAt
    <3>6. log'[last].event.order.signed = signed
      BY <3>1, <3>2
    <3>7. ASSUME NEW i \in Accepted', NEW j \in Accepted', i < j,
                 log'[i].event.order.signed.trader_id = log'[j].event.order.signed.trader_id
          PROVE  log'[i].event.order.signed.nonce < log'[j].event.order.signed.nonce
      <4>1. i \in Accepted
        BY <3>2, <3>7
      <4>2. CASE j \in Accepted
        BY <1>2, <3>5, <3>7, <4>1, <4>2 DEF NoncesRise
      <4>3. CASE j = last
        <5>1. OrderAt(i).signed.trader_id = signed.trader_id
          BY <3>5, <3>6, <3>7, <4>1, <4>3
        <5> QED BY <3>3, <3>4, <3>5, <3>6, <4>1, <4>3, <5>1
      <4> QED BY <3>2, <4>2, <4>3
    <3>8. ASSUME NEW i \in Accepted'
          PROVE  log'[i].event.order.signed.nonce <= nonces'[log'[i].event.order.signed.trader_id]
      <4>1. CASE i \in Accepted
        BY <3>3, <3>4, <3>5, <4>1
      <4>2. CASE i = last
        BY <3>3, <3>6, <4>2
      <4> QED BY <3>2, <4>1, <4>2
    <3> QED BY <3>7, <3>8 DEF NoncesRise, OrderAt
  <2> QED BY <1>2, <2>1, <2>2, StepInv
<1>3. EngineInv /\ NoncesRise /\ [Next]_vars => NoncesRise'
  BY <1>2
<1> QED BY <1>1, <1>3, SpecEngineInv, PTL DEF Spec

\* With the table finite, its cardinality can be counted along.
IdempotencyInv == IdempotencyMatchesLog /\ IsFiniteSet(DOMAIN idempotency)

(* A duplicate is always answered from the acceptance its key had in the   *)
(* log, and every key is accepted once, however often it is resubmitted.   *)
THEOREM SpecIdempotencyMatchesLog == Spec => []IdempotencyMatchesLog
<1>1. Init => IdempotencyInv
  <2> SUFFICES ASSUME Init PROVE IdempotencyInv
    OBVIOUS
  <2>1. DOMAIN idempotency = {} /\ Accepted = {}
    BY DEF Init, Accepted
  <2> QED BY <2>1, FS_EmptySet DEF IdempotencyInv, IdempotencyMatchesLog
<1>2. ASSUME EngineInv, IdempotencyInv, [Next]_vars PROVE IdempotencyInv'
  <2>1. CASE NoAcceptance
    <3>1. Accepted' = Accepted /\ (\A i \in Accepted : log'[i] = log[i])
          /\ idempotency' = idempotency
      BY <1>2, <2>1, AcceptedKept DEF NoAcceptance
    <3> QED BY <1>2, <3>1 DEF IdempotencyInv, IdempotencyMatchesLog, OrderAt
  <2>2. ASSUME NEW signed \in SignedOrders, NEW now_ms \in Times, ProcessOrder(signed, now_ms)
        PROVE  IdempotencyInv'
    <3>1. PICK order \in Orders :
            /\ order.signed = signed /\ order.created_sequence = next_seq_id
            /\ [type |-> "order_accepted", order |-> order] \in Events
            /\ append_event([type |-> "order_accepted", order |-> order])
            /\ register_accepted(order)
            /\ ~IsDuplicate(signed)
      BY <1>2, <2>2, AcceptanceStep
    <3> DEFINE last == Len(log) + 1
               key == <<signed.trader_id, signed.client_order_id>>
               record == [ original_seq_id |-> order.created_sequence,
                           order_id |-> order.order_id, order_hash |-> order.order_hash ]
    <3>2. /\ Len(log) \in Nat
          /\ Accepted' = Accepted \cup {last} /\ Accepted \subseteq 1..Len(log)
          /\ log'[last].event.order = order /\ log'[last].seq_id = next_seq_id
          /\ \A i \in Accepted : log'[i] = log[i]
      BY <1>2, <3>1, AcceptedAppended
    <3>3. idempotency' = put(idempotency, key, record) /\ key \notin DOMAIN idempotency
      BY <3>1 DEF register_accepted, IsDuplicate
    <3> HIDE DEF key, record
    <3>4. /\ DOMAIN idempotency' = DOMAIN idempotency \cup {key}
          /\ idempotency'[key] = record
          /\ \A k \in DOMAIN idempotency : idempotency'[k] = idempotency[k]
      BY <3>3 DEF put
    <3>5. ASSUME NEW k \in DOMAIN idempotency'
          PROVE  \E i \in Accepted' :
                   LET accepted == log'[i].event.order IN
                   /\ k = <<accepted.signed.trader_id, accepted.signed.client_order_id>>
                   /\ idempotency'[k] = [ original_seq_id |-> log'[i].seq_id,
                                          order_id |-> accepted.order_id,
                                          order_hash |-> accepted.order_hash ]
      <4>1. CASE k \in DOMAIN idempotency
        BY <1>2, <3>2, <3>4, <4>1 DEF IdempotencyInv, IdempotencyMatchesLog, OrderAt
      <4>2. CASE k = key
        <5>1. last \in Accepted'
          BY <3>2
        <5> QED BY <3>1, <3>2, <3>4, <4>2, <5>1 DEF key, record
      <4> QED BY <3>4, <4>1, <4>2
    <3>6. /\ Cardinality(DOMAIN idempotency') = Cardinality(DOMAIN idempotency) + 1
          /\ IsFiniteSet(DOMAIN idempotency')
      BY <1>2, <3>3, <3>4, FS_AddElement DEF IdempotencyInv
    <3>7. Cardinality(Accepted') = Cardinality(Accepted) + 1
      <4>1. IsFiniteSet(1..Len(log))
        BY <3>2, FS_Interval
      <4>2. IsFiniteSet(Accepted)
        BY <3>2, <4>1, FS_Subset
      <4>3. last \notin Accepted
        BY <3>2
      <4> QED BY <3>2, <4>2, <4>3, FS_AddElement
    <3>8. Cardinality(DOMAIN idempotency') = Cardinality(Accepted')
      BY <1>2, <3>6, <3>7 DEF IdempotencyInv, IdempotencyMatchesLog
    <3> QED BY <3>5, <3>6, <3>8 DEF IdempotencyInv, IdempotencyMatchesLog, OrderAt
  <2> QED BY <1>2, <2>1, <2>2, StepInv
<1>3. EngineInv /\ IdempotencyInv /\ [Next]_vars => IdempotencyInv'
  BY <1>2
<1>4. IdempotencyInv => IdempotencyMatchesLog
  BY DEF IdempotencyInv
<1> QED BY <1>1, <1>3, <1>4, SpecEngineInv, PTL DEF Spec

-----------------------------------------------------------------------------
(* Price-time priority: the queues hold exactly the open orders in the     *)
(* order of their acceptance, no book is ever crossed, the copies that     *)
(* match_order walks stay true while it changes the book, and every turn   *)
(* of its loop trades with the first order in line.                        *)
(*                                                                         *)
(* The argument is the loop's invariant (LoopSound): as long as the taker  *)
(* still wants lots, the rest of the queue's copy IS the queue at its      *)
(* price, and the levels that cross are that price and the rest of the     *)
(* copy of the price list, every one of which is worse.                    *)

\* An order that belongs into the queue of a side and a price.
RestsAt(order, side, p) ==
  ~is_closed(order) /\ order.signed.side = side /\ order.signed.price_ticks = p

QueueSound(orders, side, p, queue) ==
  /\ queue # << >>
  /\ \A i \in DOMAIN queue : queue[i] \in DOMAIN orders /\ RestsAt(orders[queue[i]], side, p)
  /\ \A i, j \in DOMAIN queue :
       i < j => orders[queue[i]].created_sequence < orders[queue[j]].created_sequence

Holds(levels, p, id) == p \in DOMAIN levels /\ \E i \in DOMAIN levels[p] : levels[p][i] = id

QueuesSound(book) ==
  /\ \A side \in Sides : \A p \in DOMAIN book.queues[side] :
       QueueSound(book.orders, side, p, book.queues[side][p])
  /\ \A id \in DOMAIN book.orders :
       LET order == book.orders[id] IN
       ~is_closed(order) => /\ remaining_size_lots(order) > 0
                            /\ Holds(book.queues[order.signed.side], order.signed.price_ticks, id)

BooksSound == \A m \in DOMAIN books : QueuesSound(books[m])

\* Order ids and sequence ids of the books are drawn already, the taker's last.
BookIdsFresh(book, market_id) ==
  \A id \in DOMAIN book.orders :
    /\ id <= uuids /\ book.orders[id].created_sequence < next_seq_id
    /\ id \in DOMAIN order_market_index /\ order_market_index[id] = market_id
    /\ InProcessOrder => /\ id < taker.order_id
                         /\ book.orders[id].created_sequence < taker.created_sequence

IdsFresh ==
  /\ \A m \in DOMAIN books : BookIdsFresh(books[m], m)
  /\ InProcessOrder =>
       /\ taker.order_id <= uuids /\ taker.created_sequence < next_seq_id
       /\ taker.order_id \in DOMAIN order_market_index
       /\ order_market_index[taker.order_id] = taker.signed.market_id

\* An order that may still trade or rest, and the prices it trades at.
Wants(order) == ~is_closed(order) /\ remaining_size_lots(order) > 0

Reaches(order, p) == crosses(order.signed.side, p, order.signed.price_ticks)

Better(side, p, q) == IF side = "sell" THEN p < q ELSE p > q

AllLive(book, ids) == \A i \in DOMAIN ids : ~stale(book, ids[i])

\* What the loops of match_order can count on: the levels still to walk, the
\* level being walked and what is left of the copy of its queue.
WalkSound(book, order, ahead, level, ids) ==
  LET side == Opposite(order.signed.side)
      levels == book.queues[side]
  IN /\ AllLive(book, ids)
     /\ ahead \subseteq DOMAIN levels
     /\ Wants(order) =>
          /\ \A p \in DOMAIN levels :
               Reaches(order, p) <=> p \in ahead \/ (ids # << >> /\ p = level)
          /\ ids # << >> =>
               /\ level \in DOMAIN levels /\ levels[level] = ids
               /\ \A p \in ahead : Better(side, level, p)

\* A taker that still wants lots has nobody left to trade with.
Unmatched(book, order) ==
  Wants(order) =>
    \A p \in DOMAIN book.queues[Opposite(order.signed.side)] : ~Reaches(order, p)

LoopSound ==
  /\ stage # "matching" => maker_ids = << >>
  /\ stage = "matching" =>
       WalkSound(books[taker.signed.market_id], taker, prices, price, maker_ids)
  /\ stage = "recording" => Unmatched(books[taker.signed.market_id], taker)

QueueInv == BooksSound /\ IdsFresh /\ LoopSound

-----------------------------------------------------------------------------
(* Queues *)

Distinct(queue) == \A i, j \in DOMAIN queue : queue[i] = queue[j] => i = j

\* A queue is another one without its place k.
Without(new, queue, k) ==
  /\ new \in Seq(OrderIds) /\ Len(new) = Len(queue) - 1
  /\ \A j \in 1..Len(queue) - 1 : new[j] = IF j < k THEN queue[j] ELSE queue[j + 1]

\* One entry of a map may have changed, no other has.
ChangedAt(new, map, key) ==
  DOMAIN new = DOMAIN map /\ \A k \in DOMAIN map : k # key => new[k] = map[k]

(* RemoveAt, element by element.                                           *)
LEMMA RemoveAtElements ==
  ASSUME NEW S, NEW queue \in Seq(S), NEW k \in DOMAIN queue
  PROVE  /\ RemoveAt(queue, k) \in Seq(S)
         /\ Len(RemoveAt(queue, k)) = Len(queue) - 1
         /\ \A j \in 1..Len(queue) - 1 :
              RemoveAt(queue, k)[j] = IF j < k THEN queue[j] ELSE queue[j + 1]
<1> DEFINE front == SubSeq(queue, 1, k - 1)
           rest == SubSeq(queue, k + 1, Len(queue))
<1>1. k \in 1..Len(queue) /\ Len(queue) \in Nat
  BY LenProperties
<1>2. /\ front \in Seq(S) /\ Len(front) = k - 1
      /\ \A j \in 1..k - 1 : front[j] = queue[j]
  BY <1>1, ElementOfSeq, SubSeqProperties
<1>3. /\ rest \in Seq(S) /\ Len(rest) = Len(queue) - k
      /\ \A j \in 1..Len(queue) - k : rest[j] = queue[k + j]
  <2>1. \A j \in k + 1 .. Len(queue) : queue[j] \in S
    BY <1>1, ElementOfSeq
  <2> QED BY <1>1, <2>1, SubSeqProperties
<1>4. RemoveAt(queue, k) = front \o rest
  BY DEF RemoveAt
<1> HIDE DEF front, rest
<1>5. /\ front \o rest \in Seq(S)
      /\ Len(front \o rest) = Len(front) + Len(rest)
      /\ \A j \in 1..Len(front) + Len(rest) :
           (front \o rest)[j] = IF j <= Len(front) THEN front[j] ELSE rest[j - Len(front)]
  BY <1>2, <1>3, ConcatProperties
<1>6. Len(front) + Len(rest) = Len(queue) - 1
  BY <1>1, <1>2, <1>3
<1>7. ASSUME NEW j \in 1..Len(queue) - 1
      PROVE  (front \o rest)[j] = IF j < k THEN queue[j] ELSE queue[j + 1]
  <2>1. CASE j < k
    <3>1. (front \o rest)[j] = front[j] /\ j \in 1..k - 1
      BY <1>1, <1>2, <1>5, <1>6, <2>1
    <3> QED BY <1>2, <2>1, <3>1
  <2>2. CASE ~(j < k)
    <3>1. ~(j <= Len(front)) /\ j - Len(front) \in 1..Len(queue) - k /\ k + (j - Len(front)) = j + 1
      BY <1>1, <1>2, <2>2
    <3>2. (front \o rest)[j] = rest[j - Len(front)]
      BY <1>5, <1>6, <3>1
    <3> QED BY <1>3, <2>2, <3>1, <3>2
  <2> QED BY <2>1, <2>2
<1> QED BY <1>4, <1>5, <1>6, <1>7

(* retain_others drops the one place of an id.                             *)
LEMMA RetainOthersElements ==
  ASSUME NEW queue \in Seq(OrderIds), NEW k \in DOMAIN queue,
         \A i \in DOMAIN queue : queue[i] = queue[k] => i = k
  PROVE  Without(retain_others(queue, queue[k]), queue, k)
<1>1. (CHOOSE i \in DOMAIN queue : queue[i] = queue[k]) = k
  OBVIOUS
<1>2. retain_others(queue, queue[k]) = RemoveAt(queue, k)
  BY <1>1, Zenon DEF retain_others
<1> QED BY <1>2, RemoveAtElements DEF Without

(* In a sound queue every order has one place.                             *)
LEMMA QueueDistinct ==
  ASSUME NEW orders, IsMap(orders, OrderIds, Orders), NEW side, NEW p,
         NEW queue \in Seq(OrderIds), QueueSound(orders, side, p, queue),
         NEW i \in DOMAIN queue, NEW j \in DOMAIN queue, queue[i] = queue[j]
  PROVE  i = j
<1>1. i \in Nat /\ j \in Nat
  BY LenProperties
<1>2. orders[queue[i]].created_sequence \in Nat
  BY DEF QueueSound, IsMap, Orders
<1>3. ~(i < j) /\ ~(j < i)
  BY <1>2 DEF QueueSound
<1> QED BY <1>1, <1>3

(* Dropping one place of a queue loses none of the others.                 *)
LEMMA OthersKept ==
  ASSUME NEW queue \in Seq(OrderIds), NEW k \in DOMAIN queue,
         NEW new, Without(new, queue, k),
         NEW i \in DOMAIN queue, i # k
  PROVE  \E j \in DOMAIN new : new[j] = queue[i]
<1>1. /\ DOMAIN queue = 1..Len(queue) /\ DOMAIN new = 1..Len(queue) - 1
      /\ Len(queue) \in Nat /\ k \in 1..Len(queue)
  BY LenProperties DEF Without
<1>2. CASE i < k
  <2>1. i \in DOMAIN new /\ new[i] = queue[i]
    BY <1>1, <1>2 DEF Without
  <2> QED BY <2>1
<1>3. CASE ~(i < k)
  <2>1. i - 1 \in DOMAIN new /\ ~(i - 1 < k) /\ (i - 1) + 1 = i
    BY <1>1, <1>3
  <2>2. new[i - 1] = queue[i]
    BY <1>1, <2>1 DEF Without
  <2> QED BY <2>1, <2>2
<1> QED BY <1>2, <1>3

(* A sound queue without one of its orders is sound, whatever becomes of   *)
(* that order in the orders map.                                           *)
LEMMA QueueWithout ==
  ASSUME NEW orders, IsMap(orders, OrderIds, Orders), NEW side, NEW p,
         NEW queue \in Seq(OrderIds), QueueSound(orders, side, p, queue),
         NEW k \in DOMAIN queue, NEW id, id = queue[k],
         NEW new_orders, ChangedAt(new_orders, orders, id),
         NEW new, Without(new, queue, k),
         new # << >>
  PROVE  QueueSound(new_orders, side, p, new)
<1> DEFINE was(j) == IF j < k THEN j ELSE j + 1
<1>1. /\ DOMAIN queue = 1..Len(queue) /\ DOMAIN new = 1..Len(queue) - 1
      /\ Len(queue) \in Nat /\ k \in 1..Len(queue)
  BY LenProperties DEF Without
<1>2. ASSUME NEW j \in DOMAIN new
      PROVE  /\ was(j) \in DOMAIN queue /\ was(j) # k /\ new[j] = queue[was(j)]
             /\ queue[was(j)] # id
  <2>1. was(j) \in DOMAIN queue /\ was(j) # k /\ new[j] = queue[was(j)]
    BY <1>1 DEF Without
  <2> QED BY <2>1, QueueDistinct
<1>3. ASSUME NEW j \in DOMAIN new
      PROVE  /\ new[j] \in DOMAIN orders /\ new_orders[new[j]] = orders[queue[was(j)]]
             /\ RestsAt(new_orders[new[j]], side, p)
  BY <1>2 DEF QueueSound, ChangedAt
<1>4. ASSUME NEW i \in DOMAIN new, NEW j \in DOMAIN new, i < j
      PROVE  new_orders[new[i]].created_sequence < new_orders[new[j]].created_sequence
  <2>1. was(i) < was(j)
    BY <1>1, <1>4
  <2> HIDE DEF was
  <2>2. orders[queue[was(i)]].created_sequence < orders[queue[was(j)]].created_sequence
    BY <1>2, <2>1 DEF QueueSound
  <2> QED BY <1>3, <2>2
<1> QED BY <1>3, <1>4 DEF QueueSound, ChangedAt

(* take_off drops one order from its level, and the level with its last.   *)
LEMMA TakeOffElements ==
  ASSUME NEW levels, IsMap(levels, Nat, Seq(OrderIds)), NEW p \in DOMAIN levels,
         NEW queue, queue = levels[p], NEW k \in DOMAIN queue, NEW id, id = queue[k],
         \A i \in DOMAIN queue : queue[i] = id => i = k,
         NEW rest, rest = retain_others(queue, id),
         NEW new, new = take_off(levels, p, id)
  PROVE  /\ \A q : q \in DOMAIN new <=> q \in DOMAIN levels /\ (rest = << >> => q # p)
         /\ \A q \in DOMAIN levels : q # p => new[q] = levels[q]
         /\ rest # << >> => new[p] = rest
         /\ Len(rest) = Len(queue) - 1
<1>1. queue \in Seq(OrderIds)
  BY DEF IsMap
<1>2. rest \in Seq(OrderIds) /\ Len(rest) = Len(queue) - 1
  BY <1>1, RetainOthersElements DEF Without
<1>3. CASE rest = << >>
  <2>1. new = [q \in DOMAIN levels \ {p} |-> levels[q]]
    BY <1>3 DEF take_off
  <2> QED BY <1>2, <1>3, <2>1
<1>4. CASE rest # << >>
  <2>1. new = [levels EXCEPT ![p] = rest]
    BY <1>4 DEF take_off
  <2>2. /\ DOMAIN new = DOMAIN levels /\ new[p] = rest
        /\ \A q \in DOMAIN levels : q # p => new[q] = levels[q]
    BY <2>1 DEF IsMap
  <2> QED BY <1>2, <1>4, <2>2
<1> QED BY <1>3, <1>4

(* A queue stays sound when its orders stay open, whatever else changes.   *)
LEMMA QueueKept ==
  ASSUME NEW orders, NEW side, NEW p, NEW queue, QueueSound(orders, side, p, queue),
         NEW new,
         \A i \in DOMAIN queue :
           /\ queue[i] \in DOMAIN new /\ ~is_closed(new[queue[i]])
           /\ new[queue[i]].signed = orders[queue[i]].signed
           /\ new[queue[i]].created_sequence = orders[queue[i]].created_sequence
  PROVE  QueueSound(new, side, p, queue)
BY DEF QueueSound, RestsAt

(* insert: a residual that is the last accepted and reaches no level of    *)
(* the other side goes to the end of its queue, and the book stays sound.  *)
LEMMA InsertSound ==
  ASSUME NEW market_id, NEW book, BookFits(book, market_id), QueuesSound(book),
         NEW order \in Orders, order.signed.side \in Sides, order.signed.price_ticks \in Nat,
         order.order_id \notin DOMAIN book.orders,
         ~is_closed(order), remaining_size_lots(order) > 0,
         \A id \in DOMAIN book.orders :
           book.orders[id].created_sequence < order.created_sequence
  PROVE  QueuesSound(insert(book, order))
<1> DEFINE side == order.signed.side
           p == order.signed.price_ticks
           id == order.order_id
           levels == book.queues[side]
           pushed == push_back(levels, p, id)
           old == IF p \in DOMAIN levels THEN levels[p] ELSE << >>
           queues == [book.queues EXCEPT ![side] = pushed]
           orders == put(book.orders, id, order)
<1>1. insert(book, order) = [queues |-> queues, orders |-> orders]
  BY DEF insert
<1>2. id \in OrderIds /\ p \in Nat /\ side \in Sides
  BY DEF Orders
<1>3. IsMap(levels, Nat, Seq(OrderIds)) /\ IsMap(book.orders, OrderIds, Orders)
  BY DEF BookFits, IsBook
<1>4. /\ DOMAIN orders = DOMAIN book.orders \cup {id}
      /\ orders[id] = order
      /\ \A other \in DOMAIN book.orders : orders[other] = book.orders[other]
  BY DEF put
<1>5. \A s \in Sides : queues[s] = IF s = side THEN pushed ELSE book.queues[s]
  BY DEF BookFits, IsBook
<1>6. /\ DOMAIN pushed = DOMAIN levels \cup {p}
      /\ \A q \in DOMAIN levels : q # p => pushed[q] = levels[q]
      /\ pushed[p] \in Seq(OrderIds) /\ old \in Seq(OrderIds)
      /\ Len(pushed[p]) = Len(old) + 1
      /\ pushed[p][Len(old) + 1] = id
      /\ \A i \in 1..Len(old) : pushed[p][i] = old[i]
  <2>1. old \in Seq(OrderIds)
    BY <1>3 DEF IsMap
  <2>2. /\ DOMAIN pushed = DOMAIN levels \cup {p}
        /\ \A q \in DOMAIN levels : q # p => pushed[q] = levels[q]
        /\ pushed[p] = IF p \in DOMAIN levels THEN Append(levels[p], id) ELSE <<id>>
    BY DEF push_back
  <2>3. pushed[p] = Append(old, id)
    <3>1. CASE p \in DOMAIN levels
      BY <2>2, <3>1
    <3>2. CASE p \notin DOMAIN levels
      <4>1. Append(<< >>, id) = <<id>>
        OBVIOUS
      <4> QED BY <2>2, <3>2, <4>1
    <3> QED BY <3>1, <3>2
  <2> HIDE DEF old, pushed, id
  <2>4. /\ Append(old, id) \in Seq(OrderIds)
        /\ Len(Append(old, id)) = Len(old) + 1
        /\ Append(old, id)[Len(old) + 1] = id
        /\ \A i \in 1..Len(old) : Append(old, id)[i] = old[i]
    BY <1>2, <2>1, AppendProperties
  <2> QED BY <2>1, <2>2, <2>3, <2>4
<1> HIDE DEF pushed, orders, queues
<1>7. \A s \in Sides : \A q \in DOMAIN book.queues[s] :
        /\ QueueSound(book.orders, s, q, book.queues[s][q])
        /\ QueueSound(orders, s, q, book.queues[s][q])
  <2> TAKE s \in Sides
  <2> TAKE q \in DOMAIN book.queues[s]
  <2>1. QueueSound(book.orders, s, q, book.queues[s][q])
    BY DEF QueuesSound
  <2>2. \A i \in DOMAIN book.queues[s][q] :
          /\ book.queues[s][q][i] \in DOMAIN book.orders
          /\ ~is_closed(book.orders[book.queues[s][q][i]])
    BY <2>1 DEF QueueSound, RestsAt
  <2> QED BY <1>4, <2>1, <2>2, QueueKept
<1>8. QueueSound(orders, side, p, pushed[p])
  <2>1. /\ Len(old) \in Nat /\ DOMAIN old = 1..Len(old)
        /\ DOMAIN pushed[p] = 1..Len(old) + 1
    <3> HIDE DEF old
    <3> QED BY <1>6, LenProperties
  <2>2. old # << >> => QueueSound(book.orders, side, p, old) /\ QueueSound(orders, side, p, old)
    BY <1>2, <1>7
  <2>3. \A i \in 1..Len(old) : old # << >>
    <3> HIDE DEF old
    <3> QED BY <2>1
  <2> HIDE DEF old
  <2>4. ASSUME NEW i \in 1..Len(old) + 1
        PROVE  pushed[p][i] \in DOMAIN orders /\ RestsAt(orders[pushed[p][i]], side, p)
    <3>1. CASE i \in 1..Len(old)
      BY <1>6, <2>1, <2>2, <2>3, <3>1 DEF QueueSound
    <3>2. CASE i = Len(old) + 1
      BY <1>4, <1>6, <3>2 DEF RestsAt
    <3> QED BY <2>1, <3>1, <3>2
  <2>5. ASSUME NEW i \in 1..Len(old) + 1, NEW j \in 1..Len(old) + 1, i < j
        PROVE  orders[pushed[p][i]].created_sequence < orders[pushed[p][j]].created_sequence
    <3>1. i \in 1..Len(old)
      BY <2>1, <2>5
    <3>2. CASE j \in 1..Len(old)
      BY <1>6, <2>1, <2>2, <2>3, <2>5, <3>1, <3>2 DEF QueueSound
    <3>3. CASE j = Len(old) + 1
      <4>1. pushed[p][i] \in DOMAIN book.orders
        BY <1>6, <2>1, <2>2, <2>3, <3>1 DEF QueueSound
      <4> QED BY <1>4, <1>6, <3>3, <4>1
    <3> QED BY <2>1, <3>2, <3>3
  <2>6. pushed[p] # << >>
    BY <2>1, <1>6
  <2> QED BY <2>1, <2>4, <2>5, <2>6 DEF QueueSound
<1>9. \A s \in Sides : \A q \in DOMAIN queues[s] : QueueSound(orders, s, q, queues[s][q])
  <2> SUFFICES ASSUME NEW s \in Sides, NEW q \in DOMAIN queues[s]
               PROVE  QueueSound(orders, s, q, queues[s][q])
    OBVIOUS
  <2>1. CASE s = side /\ q = p
    BY <1>5, <1>8, <2>1
  <2>2. CASE s = side /\ q # p
    BY <1>5, <1>6, <1>7, <2>2
  <2>3. CASE s # side
    BY <1>5, <1>7, <2>3
  <2> QED BY <2>1, <2>2, <2>3
<1>10. ASSUME NEW other \in DOMAIN orders, ~is_closed(orders[other])
       PROVE  /\ remaining_size_lots(orders[other]) > 0
              /\ Holds(queues[orders[other].signed.side], orders[other].signed.price_ticks, other)
  <2>1. CASE other = id
    <3>1. Len(old) + 1 \in DOMAIN pushed[p] /\ p \in DOMAIN pushed
      <4> HIDE DEF old
      <4> QED BY <1>6, LenProperties
    <3>2. Holds(pushed, p, id)
      BY <1>6, <3>1 DEF Holds
    <3> QED BY <1>2, <1>4, <1>5, <2>1, <3>2
  <2>2. CASE other # id
    <3> DEFINE s == book.orders[other].signed.side
               q == book.orders[other].signed.price_ticks
    <3>1. other \in DOMAIN book.orders /\ orders[other] = book.orders[other]
      BY <1>4, <2>2
    <3>2. remaining_size_lots(orders[other]) > 0 /\ Holds(book.queues[s], q, other)
      BY <1>10, <3>1 DEF QueuesSound
    <3>3. s \in Sides
      BY <1>3, <3>1, SignedOrderType DEF IsMap, Orders
    <3> HIDE DEF s, q
    <3>4. Holds(queues[s], q, other)
      <4>1. CASE s = side /\ q = p
        <5>1. old = levels[p]
          BY <3>2, <4>1 DEF Holds
        <5>2. PICK i \in DOMAIN old : old[i] = other
          BY <3>2, <4>1, <5>1 DEF Holds
        <5> HIDE DEF old
        <5>3. i \in 1..Len(old) /\ i \in DOMAIN pushed[p]
          BY <1>6, LenProperties
        <5>4. pushed[p][i] = other
          BY <1>6, <5>2, <5>3
        <5> QED BY <1>5, <1>6, <3>3, <4>1, <5>3, <5>4 DEF Holds
      <4>2. CASE s = side /\ q # p
        <5>1. q \in DOMAIN levels
          BY <3>2, <4>2 DEF Holds
        <5>2. q \in DOMAIN pushed /\ pushed[q] = levels[q] /\ queues[s] = pushed
          BY <1>5, <1>6, <3>3, <4>2, <5>1
        <5> QED BY <3>2, <4>2, <5>2 DEF Holds
      <4>3. CASE s # side
        BY <1>5, <3>2, <3>3, <4>3
      <4> QED BY <4>1, <4>2, <4>3
    <3> QED BY <3>1, <3>2, <3>4 DEF s, q
  <2> QED BY <2>1, <2>2
<1> QED BY <1>1, <1>9, <1>10 DEF QueuesSound

(* An order of a sound book that closes comes off its queue, and the book  *)
(* stays sound: a cancellation, or the last fill of a maker.               *)
LEMMA CloseSound ==
  ASSUME NEW market_id, NEW book, BookFits(book, market_id), QueuesSound(book),
         NEW id \in DOMAIN book.orders, ~is_closed(book.orders[id]),
         NEW order \in Orders, order.signed = book.orders[id].signed, is_closed(order)
  PROVE  QueuesSound([ queues |-> [book.queues EXCEPT ![order.signed.side] =
                                   take_off(@, order.signed.price_ticks, id)],
                     orders |-> [book.orders EXCEPT ![id] = order] ])
<1> DEFINE side == order.signed.side
           p == order.signed.price_ticks
           levels == book.queues[side]
           queue == levels[p]
           taken == take_off(levels, p, id)
           queues == [book.queues EXCEPT ![side] = taken]
           orders == [book.orders EXCEPT ![id] = order]
<1>1. IsMap(book.orders, OrderIds, Orders) /\ side \in Sides
  BY SignedOrderType DEF BookFits, IsBook, Orders
<1>2. IsMap(levels, Nat, Seq(OrderIds))
  BY <1>1 DEF BookFits, IsBook
<1>3. /\ DOMAIN orders = DOMAIN book.orders /\ orders[id] = order
      /\ \A other \in DOMAIN book.orders : other # id => orders[other] = book.orders[other]
  BY <1>1 DEF IsMap
<1>4. \A s \in Sides : queues[s] = IF s = side THEN taken ELSE book.queues[s]
  BY DEF BookFits, IsBook
<1>5. Holds(levels, p, id)
  BY DEF QueuesSound
<1>6. p \in DOMAIN levels /\ queue \in Seq(OrderIds) /\ QueueSound(book.orders, side, p, queue)
  BY <1>1, <1>2, <1>5 DEF Holds, IsMap, QueuesSound
<1>7. PICK k \in DOMAIN queue : queue[k] = id
  BY <1>5 DEF Holds
<1> HIDE DEF side, p, levels, queue, taken, queues, orders
<1>8. \A i \in DOMAIN queue : queue[i] = queue[k] => i = k
  BY <1>1, <1>6, QueueDistinct
<1> DEFINE rest == retain_others(queue, id)
<1>9. /\ \A q : q \in DOMAIN taken <=> q \in DOMAIN levels /\ (rest = << >> => q # p)
      /\ \A q \in DOMAIN levels : q # p => taken[q] = levels[q]
      /\ rest # << >> => taken[p] = rest
  <2>1. queue = levels[p] /\ taken = take_off(levels, p, id)
    BY DEF queue, taken
  <2> QED BY <1>2, <1>6, <1>7, <1>8, <2>1, TakeOffElements
<1>10. Without(rest, queue, k)
  BY <1>6, <1>7, <1>8, RetainOthersElements
<1>11. /\ rest # << >> => QueueSound(orders, side, p, rest)
       /\ \A i \in DOMAIN queue : i # k => \E j \in DOMAIN rest : rest[j] = queue[i]
  <2> DEFINE before == book.orders
  <2>1. ChangedAt(orders, before, id)
    BY <1>3 DEF ChangedAt
  <2>2. IsMap(before, OrderIds, Orders) /\ QueueSound(before, side, p, queue)
    BY <1>1, <1>6
  <2> HIDE DEF before, rest
  <2>3. rest # << >> => QueueSound(orders, side, p, rest)
    BY <1>6, <1>7, <1>10, <2>1, <2>2, QueueWithout
  <2> QED BY <1>6, <1>10, <2>3, OthersKept
<1> HIDE DEF rest
<1>12. \A s \in Sides : \A q \in DOMAIN queues[s] :
         /\ q \in DOMAIN book.queues[s]
         /\ ~(s = side /\ q = p) => queues[s][q] = book.queues[s][q]
         /\ s = side /\ q = p => queues[s][q] = rest /\ rest # << >>
  BY <1>4, <1>9 DEF levels
<1>13. \A s \in Sides : \A q \in DOMAIN queues[s] : QueueSound(orders, s, q, queues[s][q])
  <2> SUFFICES ASSUME NEW s \in Sides, NEW q \in DOMAIN queues[s]
               PROVE  QueueSound(orders, s, q, queues[s][q])
    OBVIOUS
  <2>1. CASE s = side /\ q = p
    BY <1>11, <1>12, <2>1
  <2>2. CASE ~(s = side /\ q = p)
    <3> DEFINE other == book.queues[s][q]
    <3>1. QueueSound(book.orders, s, q, other) /\ queues[s][q] = other
      BY <1>12, <2>2 DEF QueuesSound
    <3>2. RestsAt(book.orders[id], side, p)
      BY DEF RestsAt, side, p
    <3> HIDE DEF other
    <3>3. \A i \in DOMAIN other :
            /\ other[i] \in DOMAIN book.orders /\ other[i] # id
            /\ ~is_closed(book.orders[other[i]])
      BY <2>2, <3>1, <3>2 DEF QueueSound, RestsAt
    <3> QED BY <1>3, <3>1, <3>3, QueueKept
  <2> QED BY <2>1, <2>2
<1>14. ASSUME NEW other \in DOMAIN orders, ~is_closed(orders[other])
       PROVE  /\ remaining_size_lots(orders[other]) > 0
              /\ Holds(queues[orders[other].signed.side], orders[other].signed.price_ticks, other)
  <2> DEFINE s == book.orders[other].signed.side
             q == book.orders[other].signed.price_ticks
  <2>1. other \in DOMAIN book.orders /\ other # id /\ orders[other] = book.orders[other]
    BY <1>3, <1>14
  <2>2. remaining_size_lots(orders[other]) > 0 /\ Holds(book.queues[s], q, other)
    BY <1>14, <2>1 DEF QueuesSound
  <2>3. s \in Sides
    BY <1>1, <2>1, SignedOrderType DEF IsMap, Orders
  <2> HIDE DEF s, q
  <2>4. Holds(queues[s], q, other)
    <3>1. CASE s = side /\ q = p
      <4>1. PICK i \in DOMAIN queue : queue[i] = other
        BY <2>2, <3>1 DEF Holds, queue, levels
      <4>2. PICK j \in DOMAIN rest : rest[j] = other
        BY <1>7, <1>11, <2>1, <4>1
      <4>3. rest # << >>
        BY <4>2
      <4>4. p \in DOMAIN taken /\ taken[p] = rest
        BY <1>6, <1>9, <4>3
      <4> QED BY <1>4, <2>3, <3>1, <4>2, <4>4 DEF Holds
    <3>2. CASE s = side /\ q # p
      <4>1. q \in DOMAIN levels
        BY <2>2, <3>2 DEF Holds, levels
      <4>2. q \in DOMAIN taken /\ taken[q] = levels[q] /\ queues[s] = taken
        BY <1>4, <1>9, <2>3, <3>2, <4>1
      <4> QED BY <2>2, <3>2, <4>2 DEF Holds, levels
    <3>3. CASE s # side
      BY <1>4, <2>2, <2>3, <3>3
    <3> QED BY <3>1, <3>2, <3>3
  <2> QED BY <2>1, <2>2, <2>4 DEF s, q
<1>15. QueuesSound([queues |-> queues, orders |-> orders])
  BY <1>13, <1>14 DEF QueuesSound
<1> QED BY <1>15 DEF queues, orders, taken, levels, side, p

(* The first order of a level comes off: the rest of the queue stays, or   *)
(* the level goes with its last order.                                     *)
LEMMA HeadTakenOff ==
  ASSUME NEW levels, IsMap(levels, Nat, Seq(OrderIds)), NEW p \in DOMAIN levels,
         NEW queue, queue = levels[p], queue # << >>, Distinct(queue),
         NEW new, new = take_off(levels, p, Head(queue))
  PROVE  /\ \A q : q \in DOMAIN new <=> q \in DOMAIN levels /\ (Tail(queue) = << >> => q # p)
         /\ \A q \in DOMAIN levels : q # p => new[q] = levels[q]
         /\ Tail(queue) # << >> => new[p] = Tail(queue)
<1> DEFINE rest == retain_others(queue, Head(queue))
<1>1. queue \in Seq(OrderIds) /\ queue # << >> /\ p \in DOMAIN levels
  BY DEF IsMap
<1>2. \A i, j \in DOMAIN queue : queue[i] = queue[j] => i = j
  BY DEF Distinct
<1>3. /\ Len(queue) \in Nat /\ Len(queue) > 0 /\ 1 \in DOMAIN queue /\ Head(queue) = queue[1]
      /\ Tail(queue) \in Seq(OrderIds) /\ Len(Tail(queue)) = Len(queue) - 1
      /\ \A j \in 1..Len(queue) - 1 : Tail(queue)[j] = queue[j + 1]
  BY <1>1, HeadTailProperties, EmptySeq, LenProperties
<1>4. PICK k \in DOMAIN queue : k = 1
  BY <1>3
<1>5. Without(rest, queue, k)
  <2>1. Head(queue) = queue[k] /\ \A i \in DOMAIN queue : queue[i] = queue[k] => i = k
    BY <1>2, <1>3, <1>4
  <2> QED BY <1>1, <2>1, RetainOthersElements
<1> HIDE DEF rest
<1>6. rest = Tail(queue)
  <2>1. Len(rest) = Len(Tail(queue)) /\ Len(rest) \in Nat /\ Len(rest) = Len(queue) - 1
    BY <1>3, <1>5 DEF Without
  <2>2. \A i \in 1..Len(rest) : rest[i] = Tail(queue)[i]
    BY <1>3, <1>4, <1>5, <2>1 DEF Without
  <2> QED BY <1>3, <1>5, <2>1, <2>2, SeqEqual DEF Without
<1>7. /\ \A q : q \in DOMAIN new <=> q \in DOMAIN levels /\ (rest = << >> => q # p)
      /\ \A q \in DOMAIN levels : q # p => new[q] = levels[q]
      /\ rest # << >> => new[p] = rest
  <2>1. queue = levels[p] /\ rest = retain_others(queue, Head(queue))
    BY DEF rest
  <2>2. Head(queue) = queue[k] /\ \A i \in DOMAIN queue : queue[i] = Head(queue) => i = k
    BY <1>2, <1>3, <1>4
  <2> QED BY <1>2, <2>1, <2>2, TakeOffElements
<1> QED BY <1>6, <1>7

(* An order of a sound book that stays open keeps its place in the queue.  *)
LEMMA UpdateSound ==
  ASSUME NEW market_id, NEW book, BookFits(book, market_id), QueuesSound(book),
         NEW id \in DOMAIN book.orders,
         NEW order \in Orders, order.signed = book.orders[id].signed,
         order.created_sequence = book.orders[id].created_sequence,
         ~is_closed(book.orders[id]), ~is_closed(order), remaining_size_lots(order) > 0
  PROVE  QueuesSound([ queues |-> book.queues, orders |-> [book.orders EXCEPT ![id] = order] ])
<1> DEFINE orders == [book.orders EXCEPT ![id] = order]
<1>1. /\ DOMAIN orders = DOMAIN book.orders /\ orders[id] = order
      /\ \A other \in DOMAIN book.orders : other # id => orders[other] = book.orders[other]
  BY DEF BookFits, IsBook, IsMap
<1> HIDE DEF orders
<1>2. \A s \in Sides : \A q \in DOMAIN book.queues[s] :
        QueueSound(orders, s, q, book.queues[s][q])
  <2> SUFFICES ASSUME NEW s \in Sides, NEW q \in DOMAIN book.queues[s]
               PROVE  QueueSound(orders, s, q, book.queues[s][q])
    OBVIOUS
  <2> DEFINE queue == book.queues[s][q]
             before == book.orders
  <2>1. QueueSound(before, s, q, queue)
    BY DEF QueuesSound
  <2>2. /\ DOMAIN orders = DOMAIN before
        /\ \A other \in DOMAIN before :
             /\ orders[other].signed = before[other].signed
             /\ orders[other].created_sequence = before[other].created_sequence
             /\ ~is_closed(before[other]) => ~is_closed(orders[other])
    BY <1>1
  <2> HIDE DEF queue, before
  <2>3. \A i \in DOMAIN queue : queue[i] \in DOMAIN before /\ ~is_closed(before[queue[i]])
    BY <2>1 DEF QueueSound, RestsAt
  <2>4. QueueSound(orders, s, q, queue)
    BY <2>1, <2>2, <2>3, QueueKept
  <2> QED BY <2>4 DEF queue
<1>3. \A other \in DOMAIN orders : ~is_closed(orders[other]) =>
        /\ remaining_size_lots(orders[other]) > 0
        /\ Holds(book.queues[orders[other].signed.side], orders[other].signed.price_ticks, other)
  BY <1>1 DEF QueuesSound
<1>4. QueuesSound([queues |-> book.queues, orders |-> orders])
  BY <1>2, <1>3 DEF QueuesSound
<1> QED BY <1>4 DEF orders

(* What update_maker makes of the two maps of a book.                      *)
LEMMA UpdateMakerParts ==
  ASSUME NEW market_id, NEW book, BookFits(book, market_id),
         NEW order \in Orders, order.order_id \in DOMAIN book.orders
  PROVE  update_maker(book, order) =
           [ queues |-> IF ~is_closed(order) THEN book.queues
                        ELSE [book.queues EXCEPT ![order.signed.side] =
                                take_off(@, order.signed.price_ticks, order.order_id)],
             orders |-> [book.orders EXCEPT ![order.order_id] = order] ]
<1> DEFINE updated == [book EXCEPT !.orders[order.order_id] = order]
           orders == [book.orders EXCEPT ![order.order_id] = order]
<1>1. updated = [queues |-> book.queues, orders |-> orders]
  BY DEF BookFits, IsBook
<1>2. orders[order.order_id] = order
  BY DEF BookFits, IsBook, IsMap
<1> HIDE DEF updated, orders
<1>3. remove_from_queue(updated, order.order_id) =
        [ queues |-> [book.queues EXCEPT ![order.signed.side] =
                        take_off(@, order.signed.price_ticks, order.order_id)],
          orders |-> orders ]
  BY <1>1, <1>2 DEF remove_from_queue
<1> QED BY <1>1, <1>3 DEF update_maker, updated, orders

(* update_maker: a maker that was filled stays in line, or leaves the book *)
(* with its last lot.                                                      *)
LEMMA UpdateMakerSound ==
  ASSUME NEW market_id, NEW book, BookFits(book, market_id), QueuesSound(book),
         NEW order \in Orders, order.order_id \in DOMAIN book.orders,
         order.signed = book.orders[order.order_id].signed,
         order.created_sequence = book.orders[order.order_id].created_sequence,
         ~is_closed(book.orders[order.order_id]),
         is_closed(order) \/ remaining_size_lots(order) > 0
  PROVE  QueuesSound(update_maker(book, order))
<1>1. CASE is_closed(order)
  <2>1. QueuesSound([ queues |-> [book.queues EXCEPT ![order.signed.side] =
                                  take_off(@, order.signed.price_ticks, order.order_id)],
                    orders |-> [book.orders EXCEPT ![order.order_id] = order] ])
    BY <1>1, CloseSound
  <2> QED BY <1>1, <2>1, UpdateMakerParts
<1>2. CASE ~is_closed(order)
  <2>1. QueuesSound([ queues |-> book.queues,
                    orders |-> [book.orders EXCEPT ![order.order_id] = order] ])
    BY <1>2, UpdateSound
  <2> QED BY <1>2, <2>1, UpdateMakerParts
<1> QED BY <1>1, <1>2

(* What cancel makes of the two maps of a book.                            *)
LEMMA CancelParts ==
  ASSUME NEW market_id, NEW book, BookFits(book, market_id),
         NEW id \in DOMAIN book.orders, ~is_closed(book.orders[id]),
         NEW order, order = [book.orders[id] EXCEPT !.status = "cancelled"]
  PROVE  /\ order \in Orders /\ is_closed(order) /\ order.signed = book.orders[id].signed
         /\ order.created_sequence = book.orders[id].created_sequence
         /\ cancel(book, id) =
              [ queues |-> [book.queues EXCEPT ![order.signed.side] =
                              take_off(@, order.signed.price_ticks, id)],
                orders |-> [book.orders EXCEPT ![id] = order] ]
<1> DEFINE updated == [book EXCEPT !.orders[id].status = "cancelled"]
           orders == [book.orders EXCEPT ![id] = order]
<1>1. book.orders[id] \in Orders
  BY DEF BookFits, IsBook, IsMap
<1>2. /\ order \in Orders /\ is_closed(order) /\ order.signed = book.orders[id].signed
      /\ order.created_sequence = book.orders[id].created_sequence
  BY <1>1 DEF Orders, OrderStatuses, is_closed
<1>3. updated = [queues |-> book.queues, orders |-> orders] /\ orders[id] = order
  <2>1. updated = [book EXCEPT !.orders[id] = order]
    BY DEF BookFits, IsBook
  <2>2. orders[id] = order
    BY DEF BookFits, IsBook, IsMap
  <2> HIDE DEF updated
  <2>3. updated = [queues |-> book.queues, orders |-> orders]
    BY <2>1 DEF BookFits, IsBook
  <2> QED BY <2>2, <2>3
<1> HIDE DEF updated, orders
<1>4. remove_from_queue(updated, id) =
        [ queues |-> [book.queues EXCEPT ![order.signed.side] =
                        take_off(@, order.signed.price_ticks, id)],
          orders |-> orders ]
  BY ONLY <1>3 DEF remove_from_queue
<1>5. cancel(book, id) = remove_from_queue(updated, id)
  BY DEF cancel, cancel_with_status, updated
<1> QED BY <1>2, <1>4, <1>5 DEF orders

(* cancel, of an open order: it leaves its queue, nobody else does.        *)
LEMMA CancelSound ==
  ASSUME NEW market_id, NEW book, BookFits(book, market_id), QueuesSound(book),
         NEW id \in DOMAIN book.orders, ~is_closed(book.orders[id])
  PROVE  QueuesSound(cancel(book, id))
<1> DEFINE order == [book.orders[id] EXCEPT !.status = "cancelled"]
<1>1. /\ order \in Orders /\ is_closed(order) /\ order.signed = book.orders[id].signed
      /\ cancel(book, id) =
           [ queues |-> [book.queues EXCEPT ![order.signed.side] =
                           take_off(@, order.signed.price_ticks, id)],
             orders |-> [book.orders EXCEPT ![id] = order] ]
  BY CancelParts
<1> HIDE DEF order
<1> QED BY <1>1, CloseSound

(* new_book: an empty book is sound.                                       *)
LEMMA NewBookSound == QueuesSound(new_book)
BY DEF new_book, NoLevels, QueuesSound, Sides

-----------------------------------------------------------------------------
(* The loop *)

(* The queue of a level of a sound book.                                   *)
LEMMA LevelOfBook ==
  ASSUME NEW market_id, NEW book, BookFits(book, market_id), QueuesSound(book),
         NEW side \in Sides, NEW levels, levels = book.queues[side],
         NEW p \in DOMAIN levels, NEW queue, queue = levels[p]
  PROVE  /\ queue \in Seq(OrderIds) /\ queue # << >> /\ QueueSound(book.orders, side, p, queue)
         /\ Distinct(queue) /\ AllLive(book, queue)
<1>1. queue \in Seq(OrderIds) /\ QueueSound(book.orders, side, p, queue)
  BY DEF BookFits, IsBook, IsMap, QueuesSound
<1>2. Distinct(queue)
  <2> DEFINE orders == book.orders
  <2>1. IsMap(orders, OrderIds, Orders) /\ QueueSound(orders, side, p, queue)
    BY <1>1 DEF BookFits, IsBook
  <2> HIDE DEF orders
  <2> QED BY <1>1, <2>1, QueueDistinct DEF Distinct
<1> QED BY <1>1, <1>2 DEF QueueSound, RestsAt, stale, AllLive

(* The orders of a book have sizes and remainders.                         *)
LEMMA Remainder ==
  ASSUME NEW order \in Orders, order.filled_size_lots <= order.signed.size_lots
  PROVE  /\ remaining_size_lots(order) \in Nat
         /\ remaining_size_lots(order) # 0 <=> remaining_size_lots(order) > 0
         /\ order.signed.side \in Sides /\ order.signed.price_ticks \in Nat
         /\ order.created_sequence \in Nat /\ order.order_id \in OrderIds
<1>1. order.signed.size_lots \in Nat /\ order.filled_size_lots \in Nat
  BY SignedOrderType DEF Orders
<1>2. order.signed.side \in Sides /\ order.signed.price_ticks \in Nat
  BY SignedOrderType DEF Orders
<1> QED BY <1>1, <1>2 DEF Orders, remaining_size_lots

(* An order that has taken a fill is closed when nothing of it is left.    *)
LEMMA AfterFillLeaves ==
  ASSUME NEW order \in Orders, order.filled_size_lots <= order.signed.size_lots,
         NEW qty \in Nat, qty <= remaining_size_lots(order), NEW seq \in Nat,
         NEW after, after = after_fill(order, qty, seq)
  PROVE  /\ after.created_sequence = order.created_sequence
         /\ remaining_size_lots(after) = remaining_size_lots(order) - qty
         /\ is_closed(after) <=> qty = remaining_size_lots(order)
<1>1. order.signed.size_lots \in Nat /\ order.filled_size_lots \in Nat
  BY SignedOrderType DEF Orders
<1>2. /\ after.created_sequence = order.created_sequence
      /\ after.signed = order.signed
      /\ after.filled_size_lots = order.filled_size_lots + qty
      /\ after.status = IF order.filled_size_lots + qty = order.signed.size_lots
                        THEN "filled" ELSE "partially_filled"
  BY DEF after_fill, Orders
<1>3. order.filled_size_lots + qty = order.signed.size_lots <=> qty = remaining_size_lots(order)
  BY <1>1 DEF remaining_size_lots
<1>4. is_closed(after) <=> qty = remaining_size_lots(order)
  BY <1>2, <1>3 DEF is_closed
<1>5. remaining_size_lots(after) = remaining_size_lots(order) - qty
  BY <1>1, <1>2 DEF remaining_size_lots
<1> QED BY <1>2, <1>4, <1>5

(* Accepting an order starts the walk with every level it reaches ahead.   *)
LEMMA ProcessOrderQueues ==
  ASSUME EngineInv, QueueInv, NEW signed \in SignedOrders, NEW now_ms,
         ProcessOrder(signed, now_ms)
  PROVE  QueueInv'
<1> DEFINE order == NewOrder(signed, uuids + 1)
           market_id == signed.market_id
<1>1. /\ order \in Orders /\ order.signed = signed /\ order.order_id = uuids + 1
      /\ order.created_sequence = next_seq_id
      /\ uuids \in Nat /\ next_seq_id \in Nat
  BY NewOrderType DEF EngineInv, TypeOK, SequencerTypes, CallTypes, OrderIds
<1>2. /\ stage = "idle" /\ stage' \in {"idle", "matching"}
      /\ stage' = "matching" =>
           /\ taker' = order /\ market_id \in DOMAIN books
           /\ prices' = crossable_prices(books[market_id], order)
      /\ UNCHANGED <<books, maker_ids>> /\ uuids' = uuids + 1
      /\ next_seq_id' = next_seq_id + 1
      /\ order_market_index' = put(order_market_index, order.order_id, market_id)
  BY DEF ProcessOrder, append_event
<1> HIDE DEF order
<1>3. BooksSound'
  BY <1>2 DEF QueueInv, BooksSound
<1>4. /\ order.order_id \in DOMAIN order_market_index'
      /\ order_market_index'[order.order_id] = market_id
      /\ \A id \in DOMAIN order_market_index : id # order.order_id =>
           id \in DOMAIN order_market_index' /\ order_market_index'[id] = order_market_index[id]
  BY <1>2 DEF put
<1>5. ASSUME NEW m \in DOMAIN books PROVE BookIdsFresh(books[m], m)'
  <2> SUFFICES ASSUME NEW id \in DOMAIN books[m].orders
               PROVE  /\ id <= uuids' /\ books[m].orders[id].created_sequence < next_seq_id'
                      /\ id \in DOMAIN order_market_index' /\ order_market_index'[id] = m
                      /\ stage' = "matching" =>
                           /\ id < taker'.order_id
                           /\ books[m].orders[id].created_sequence < taker'.created_sequence
    BY <1>2 DEF BookIdsFresh, InProcessOrder
  <2>1. /\ id <= uuids /\ books[m].orders[id].created_sequence < next_seq_id
        /\ id \in DOMAIN order_market_index /\ order_market_index[id] = m
    BY DEF QueueInv, IdsFresh, BookIdsFresh
  <2>2. id \in Nat /\ books[m].orders[id].created_sequence \in Nat
    BY DEF EngineInv, BooksFit, BookFits, IsBook, IsMap, Orders, OrderIds
  <2> DEFINE created == books[m].orders[id].created_sequence
  <2> HIDE DEF created
  <2>3. created \in Nat /\ created < next_seq_id
    BY <2>1, <2>2 DEF created
  <2>4. id <= uuids' /\ id < uuids + 1 /\ id # order.order_id /\ created < next_seq_id'
    BY <1>1, <1>2, <2>1, <2>2, <2>3
  <2> QED BY <1>1, <1>2, <1>4, <2>1, <2>3, <2>4 DEF created
<1>6. IdsFresh'
  <2>1. stage' = "matching" =>
          /\ taker'.order_id <= uuids' /\ taker'.created_sequence < next_seq_id'
          /\ taker'.order_id \in DOMAIN order_market_index'
          /\ order_market_index'[taker'.order_id] = taker'.signed.market_id
    BY <1>1, <1>2, <1>4
  <2> QED BY <1>2, <1>5, <2>1 DEF IdsFresh, InProcessOrder
<1>7. LoopSound'
  <2>1. maker_ids' = << >>
    BY <1>2 DEF QueueInv, LoopSound
  <2>2. ASSUME stage' = "matching"
        PROVE  WalkSound(books[market_id], order, prices', price', << >>)
    BY <1>1, <1>2, <2>2 DEF WalkSound, AllLive, crossable_prices, Reaches
  <2> QED BY <1>1, <1>2, <2>1, <2>2 DEF LoopSound
<1> QED BY <1>3, <1>6, <1>7 DEF QueueInv

(* What is known of a call in progress: its taker, and the book it walks.  *)
LEMMA InProcess ==
  ASSUME EngineInv, QueueInv, InProcessOrder,
         NEW book, book = books[taker.signed.market_id]
  PROVE  /\ taker \in Orders /\ taker.filled_size_lots <= taker.signed.size_lots
         /\ taker.signed.market_id \in DOMAIN books
         /\ BookFits(book, taker.signed.market_id) /\ QueuesSound(book)
         /\ taker.signed.side \in Sides /\ Opposite(taker.signed.side) \in Sides
         /\ taker.signed.price_ticks \in Nat
         /\ remaining_size_lots(taker) \in Nat
         /\ remaining_size_lots(taker) # 0 <=> remaining_size_lots(taker) > 0
         /\ taker.created_sequence \in Nat
<1>1. /\ taker \in Orders /\ taker.filled_size_lots <= taker.signed.size_lots
      /\ taker.signed.market_id \in DOMAIN books
  BY DEF EngineInv, CallFits
<1>2. BookFits(book, taker.signed.market_id) /\ QueuesSound(book)
  BY <1>1 DEF EngineInv, BooksFit, QueueInv, BooksSound
<1>3. Opposite(taker.signed.side) \in Sides
  BY DEF Opposite, Sides
<1> QED BY <1>1, <1>2, <1>3, Remainder

(* The best of the levels ahead is walked next: its queue is copied whole, *)
(* and every level left is worse.                                          *)
LEMMA NextLevelQueues ==
  ASSUME EngineInv, QueueInv, NextLevel
  PROVE  QueueInv'
<1> DEFINE market_id == taker.signed.market_id
           book == books[market_id]
           side == Opposite(taker.signed.side)
           levels == book.queues[side]
<1>1. /\ stage = "matching" /\ Wants(taker) /\ maker_ids = << >> /\ prices # {}
      /\ price' = best_of(side, prices) /\ prices' = prices \ {price'}
      /\ maker_ids' = orders_at_price(book, price', side)
      /\ UNCHANGED <<books, uuids, next_seq_id, order_market_index, stage, taker>>
  <2>1. remaining_size_lots(taker) # 0 <=> remaining_size_lots(taker) > 0
    BY InProcess DEF NextLevel, InProcessOrder
  <2> QED BY <2>1 DEF NextLevel, MatchOver, Wants, levels_after, engine_vars, sequencer_vars
<1>2. /\ BookFits(book, market_id) /\ QueuesSound(book) /\ side \in Sides
  BY <1>1, InProcess DEF InProcessOrder
<1>3. WalkSound(book, taker, prices, price, << >>)
  BY <1>1 DEF QueueInv, LoopSound
<1>4. /\ price' \in prices /\ price' \in Nat /\ prices \subseteq Nat
      /\ \A q \in prices : IF side = "buy" THEN price' >= q ELSE price' <= q
  <2>1. prices \subseteq Nat
    BY DEF EngineInv, TypeOK, CallTypes
  <2>2. PICK b \in Nat : \A p \in prices : p <= b
    BY DEF EngineInv, CallFits
  <2> HIDE DEF side
  <2> QED BY <1>1, <1>2, <2>1, <2>2, BestOfIsBest
<1>5. price' \in DOMAIN levels /\ maker_ids' = levels[price']
  BY <1>1, <1>3, <1>4 DEF WalkSound, orders_at_price
<1>6. maker_ids' # << >> /\ AllLive(book, maker_ids')
  <2>1. levels = book.queues[side]
    OBVIOUS
  <2> HIDE DEF levels, book, side, market_id
  <2> QED BY <1>2, <1>5, <2>1, LevelOfBook
<1>7. \A p \in prices' : Better(side, price', p)
  <2> SUFFICES ASSUME NEW p \in prices, p # price' PROVE Better(side, price', p)
    BY <1>1
  <2>1. p \in Nat /\ price' \in Nat /\ side \in {"buy", "sell"}
    BY <1>2, <1>4 DEF Sides
  <2>2. IF side = "buy" THEN price' >= p ELSE price' <= p
    BY <1>4
  <2> HIDE DEF side
  <2> QED BY <2>1, <2>2 DEF Better
<1>8. WalkSound(book, taker, prices', price', maker_ids')
  <2>1. prices' \subseteq DOMAIN levels
    BY <1>1, <1>3 DEF WalkSound
  <2>2. \A p \in DOMAIN levels : Reaches(taker, p) <=> p \in prices
    BY <1>1, <1>3 DEF WalkSound
  <2>3. \A p \in DOMAIN levels :
          Reaches(taker, p) <=> p \in prices' \/ (maker_ids' # << >> /\ p = price')
    BY <1>1, <1>4, <1>6, <2>2
  <2> HIDE DEF book
  <2> QED BY <1>5, <1>6, <1>7, <2>1, <2>3 DEF WalkSound
<1>9. LoopSound'
  BY <1>1, <1>8 DEF LoopSound
<1>10. BooksSound' /\ IdsFresh'
  BY <1>1 DEF QueueInv, BooksSound, IdsFresh, BookIdsFresh, InProcessOrder
<1> QED BY <1>9, <1>10 DEF QueueInv

(* match_order ends with a taker that is done, or reaches no level.        *)
LEMMA EndMatchQueues ==
  ASSUME EngineInv, QueueInv, EndMatch
  PROVE  QueueInv'
<1>1. /\ stage = "matching" /\ stage' = "recording" /\ MatchOver /\ maker_ids' = << >>
      /\ UNCHANGED <<books, uuids, next_seq_id, order_market_index, taker>>
  BY DEF EndMatch, engine_vars, sequencer_vars
<1>2. WalkSound(books[taker.signed.market_id], taker, prices, price, maker_ids)
  BY <1>1 DEF QueueInv, LoopSound
<1>3. Wants(taker) => maker_ids = << >> /\ prices = {}
  <2>1. remaining_size_lots(taker) # 0 <=> remaining_size_lots(taker) > 0
    BY <1>1, InProcess DEF InProcessOrder
  <2> QED BY <1>1, <2>1 DEF MatchOver, Wants
<1>4. Unmatched(books[taker.signed.market_id], taker)
  BY <1>2, <1>3 DEF WalkSound, Unmatched
<1>5. LoopSound'
  BY <1>1, <1>4 DEF LoopSound
<1>6. BooksSound' /\ IdsFresh'
  BY <1>1 DEF QueueInv, BooksSound, IdsFresh, BookIdsFresh, InProcessOrder
<1> QED BY <1>5, <1>6 DEF QueueInv

(* The head of the copy is the head of the queue at the level walked.      *)
LEMMA HeadOfWalk ==
  ASSUME NEW market_id, NEW book, BookFits(book, market_id), QueuesSound(book),
         NEW order, NEW ahead, NEW level, NEW ids, ids # << >>,
         WalkSound(book, order, ahead, level, ids), Wants(order),
         NEW side \in Sides, side = Opposite(order.signed.side),
         NEW levels, levels = book.queues[side],
         NEW id, id = Head(ids)
  PROVE  /\ ids \in Seq(OrderIds) /\ Distinct(ids) /\ AllLive(book, ids)
         /\ QueueSound(book.orders, side, level, ids)
         /\ level \in DOMAIN levels /\ levels[level] = ids
         /\ 1 \in DOMAIN ids /\ id = ids[1]
         /\ id \in DOMAIN book.orders /\ RestsAt(book.orders[id], side, level)
<1>1. level \in DOMAIN levels /\ levels[level] = ids
  BY DEF WalkSound
<1>2. ids \in Seq(OrderIds) /\ Distinct(ids) /\ AllLive(book, ids) /\ QueueSound(book.orders, side, level, ids)
  BY <1>1, LevelOfBook
<1>3. 1 \in DOMAIN ids /\ id = ids[1]
  BY <1>2, HeadTailProperties, EmptySeq, LenProperties
<1>4. id \in DOMAIN book.orders /\ RestsAt(book.orders[id], side, level)
  BY <1>2, <1>3 DEF QueueSound
<1> QED BY <1>1, <1>2, <1>3, <1>4

(* Who stands behind the head is not touched by what becomes of it.        *)
LEMMA TailLive ==
  ASSUME NEW book, NEW ids \in Seq(OrderIds), ids # << >>, Distinct(ids), AllLive(book, ids),
         NEW before, before = book.orders, NEW after,
         NEW new, after = new.orders, ChangedAt(after, before, Head(ids))
  PROVE  AllLive(new, Tail(ids)) /\ Tail(ids) \in Seq(OrderIds)
<1>1. /\ Len(ids) \in Nat /\ Len(ids) > 0 /\ DOMAIN ids = 1..Len(ids) /\ Head(ids) = ids[1]
      /\ Tail(ids) \in Seq(OrderIds) /\ DOMAIN Tail(ids) = 1..Len(ids) - 1
      /\ \A j \in 1..Len(ids) - 1 : Tail(ids)[j] = ids[j + 1]
  BY HeadTailProperties, EmptySeq, LenProperties
<1>2. ASSUME NEW j \in DOMAIN Tail(ids)
      PROVE  ~stale(new, Tail(ids)[j])
  <2>1. j + 1 \in DOMAIN ids /\ 1 \in DOMAIN ids /\ j + 1 # 1 /\ Tail(ids)[j] = ids[j + 1]
    BY <1>1
  <2> DEFINE other == ids[j + 1]
  <2>2. other # Head(ids)
    BY <1>1, <2>1 DEF Distinct
  <2>3. ~stale(book, other)
    BY <2>1 DEF AllLive
  <2> HIDE DEF other
  <2>4. other \in DOMAIN after /\ after[other] = before[other]
    BY <2>2, <2>3 DEF stale, ChangedAt
  <2>5. ~stale(new, other)
    BY <2>3, <2>4 DEF stale
  <2> QED BY <2>1, <2>5 DEF other
<1> QED BY <1>1, <1>2 DEF AllLive

(* The head was filled and left the queue: the walk goes on behind it, or  *)
(* with the next level.                                                    *)
LEMMA WalkPastFilled ==
  ASSUME NEW market_id, NEW book, BookFits(book, market_id), QueuesSound(book),
         NEW order, NEW ahead, NEW level, NEW ids, ids # << >>,
         WalkSound(book, order, ahead, level, ids), Wants(order),
         NEW side \in Sides, side = Opposite(order.signed.side),
         NEW levels, levels = book.queues[side],
         NEW before, before = book.orders, NEW after,
         NEW new, after = new.orders, ChangedAt(after, before, Head(ids)),
         new.queues[side] = take_off(levels, level, Head(ids)),
         NEW taken, taken.signed = order.signed
  PROVE  WalkSound(new, taken, ahead, level, Tail(ids))
<1> DEFINE rest == Tail(ids)
           left == take_off(levels, level, Head(ids))
<1>1. /\ ids \in Seq(OrderIds) /\ Distinct(ids) /\ AllLive(book, ids)
      /\ level \in DOMAIN levels /\ levels[level] = ids
  BY HeadOfWalk
<1>2. IsMap(levels, Nat, Seq(OrderIds))
  BY DEF BookFits, IsBook
<1>3. AllLive(new, rest)
  BY <1>1, TailLive
<1>4. /\ \A q : q \in DOMAIN left <=> q \in DOMAIN levels /\ (rest = << >> => q # level)
      /\ \A q \in DOMAIN levels : q # level => left[q] = levels[q]
      /\ rest # << >> => left[level] = rest
  BY <1>1, <1>2, HeadTakenOff
<1>5. /\ ahead \subseteq DOMAIN levels
      /\ \A p \in DOMAIN levels : Reaches(order, p) <=> p \in ahead \/ p = level
      /\ \A p \in ahead : Better(side, level, p)
  BY DEF WalkSound
<1>6. level \notin ahead
  <2>1. level \in Nat
    BY <1>1, <1>2 DEF IsMap
  <2>2. ~Better(side, level, level)
    BY <2>1 DEF Better
  <2> QED BY <1>5, <2>2
<1> HIDE DEF rest, left
<1>7. ahead \subseteq DOMAIN left
  BY <1>4, <1>5, <1>6
<1>8. \A p \in DOMAIN left : Reaches(taken, p) <=> p \in ahead \/ (rest # << >> /\ p = level)
  BY <1>4, <1>5, <1>6 DEF Reaches
<1>9. rest # << >> => level \in DOMAIN left /\ left[level] = rest
  BY <1>1, <1>4
<1>10. new.queues[side] = left /\ side = Opposite(taken.signed.side)
  BY DEF left
<1>11. WalkSound(new, taken, ahead, level, rest)
  BY <1>3, <1>5, <1>7, <1>8, <1>9, <1>10 DEF WalkSound
<1> QED BY <1>11 DEF rest

(* The taker is done, and the head, if it traded, keeps its place.         *)
LEMMA WalkDone ==
  ASSUME NEW market_id, NEW book, BookFits(book, market_id), QueuesSound(book),
         NEW order, NEW ahead, NEW level, NEW ids, ids # << >>,
         WalkSound(book, order, ahead, level, ids), Wants(order),
         NEW side \in Sides, side = Opposite(order.signed.side),
         NEW before, before = book.orders, NEW after,
         NEW new, after = new.orders, ChangedAt(after, before, Head(ids)),
         new.queues[side] = book.queues[side],
         NEW taken, taken.signed = order.signed, ~Wants(taken)
  PROVE  WalkSound(new, taken, ahead, level, Tail(ids))
<1> DEFINE levels == book.queues[side]
<1>1. ids \in Seq(OrderIds) /\ Distinct(ids) /\ AllLive(book, ids)
  <2>1. levels = book.queues[side]
    OBVIOUS
  <2> HIDE DEF levels
  <2> QED BY <2>1, HeadOfWalk
<1>2. AllLive(new, Tail(ids))
  BY <1>1, TailLive
<1> QED BY <1>2 DEF WalkSound

\* One book is replaced by one with the same orders, at the same places in time.
SameIds(new, book) ==
  /\ DOMAIN new.orders = DOMAIN book.orders
  /\ \A id \in DOMAIN book.orders :
       new.orders[id].created_sequence = book.orders[id].created_sequence

(* Changing the orders of one book keeps every id and sequence id fresh.   *)
LEMMA IdsKept ==
  ASSUME EngineInv, QueueInv, UNCHANGED <<uuids, order_market_index>>,
         next_seq_id' \in Nat, next_seq_id' >= next_seq_id,
         InProcessOrder' => /\ InProcessOrder
                            /\ taker'.order_id = taker.order_id
                            /\ taker'.created_sequence = taker.created_sequence
                            /\ taker'.signed = taker.signed,
         DOMAIN books' = DOMAIN books,
         \A m \in DOMAIN books : SameIds(books'[m], books[m])
  PROVE  IdsFresh'
<1>1. next_seq_id \in Nat
  BY DEF EngineInv, TypeOK, SequencerTypes
<1>2. ASSUME NEW m \in DOMAIN books PROVE BookIdsFresh(books[m], m)'
  <2> SUFFICES ASSUME NEW id \in DOMAIN books[m].orders
               PROVE  /\ id <= uuids /\ books[m].orders[id].created_sequence < next_seq_id'
                      /\ id \in DOMAIN order_market_index /\ order_market_index[id] = m
                      /\ InProcessOrder' =>
                           /\ id < taker.order_id
                           /\ books[m].orders[id].created_sequence < taker.created_sequence
    BY DEF BookIdsFresh, SameIds
  <2> DEFINE created == books[m].orders[id].created_sequence
  <2>1. /\ id <= uuids /\ created < next_seq_id
        /\ id \in DOMAIN order_market_index /\ order_market_index[id] = m
        /\ InProcessOrder => id < taker.order_id /\ created < taker.created_sequence
    BY DEF QueueInv, IdsFresh, BookIdsFresh
  <2>2. created \in Nat
    BY DEF EngineInv, BooksFit, BookFits, IsBook, IsMap, Orders
  <2> HIDE DEF created
  <2>3. created < next_seq_id'
    BY <1>1, <2>1, <2>2
  <2> QED BY <2>1, <2>3 DEF created
<1>3. InProcessOrder' => taker.created_sequence < next_seq_id'
  <2> SUFFICES ASSUME InProcessOrder' PROVE taker.created_sequence < next_seq_id'
    OBVIOUS
  <2> DEFINE created == taker.created_sequence
  <2>1. created \in Nat /\ created < next_seq_id
    BY InProcess DEF QueueInv, IdsFresh
  <2> HIDE DEF created
  <2>2. created < next_seq_id'
    BY <1>1, <2>1
  <2> QED BY <2>2 DEF created
<1>4. InProcessOrder' =>
        /\ taker'.order_id <= uuids' /\ taker'.created_sequence < next_seq_id'
        /\ taker'.order_id \in DOMAIN order_market_index'
        /\ order_market_index'[taker'.order_id] = taker'.signed.market_id
  BY <1>3 DEF QueueInv, IdsFresh
<1> QED BY <1>2, <1>4 DEF IdsFresh

(* A turn of the loop meets the first order in line, and it is live.       *)
LEMMA MatchMakerMeets ==
  ASSUME EngineInv, QueueInv, MatchMaker,
         NEW market_id, market_id = taker.signed.market_id,
         NEW book, book = books[market_id],
         NEW side, side = Opposite(taker.signed.side),
         NEW id, id = Head(maker_ids), NEW maker, maker = book.orders[id]
  PROVE  /\ Wants(taker) /\ maker_ids # << >> /\ InProcessOrder
         /\ WalkSound(book, taker, prices, price, maker_ids)
         /\ BookFits(book, market_id) /\ QueuesSound(book) /\ side \in Sides
         /\ market_id \in DOMAIN books
         /\ id \in DOMAIN book.orders /\ RestsAt(maker, side, price)
         /\ maker \in Orders /\ maker.order_id = id /\ maker.signed.market_id = market_id
         /\ maker.filled_size_lots <= maker.signed.size_lots
         /\ remaining_size_lots(maker) > 0
         /\ \/ self_trade(maker) /\ StpCancelTaker(maker)
            \/ ~self_trade(maker) /\ FillMaker(maker)
<1>1. /\ stage = "matching" /\ InProcessOrder /\ ~MatchOver /\ maker_ids # << >>
  BY DEF MatchMaker, InProcessOrder
<1>2. /\ BookFits(book, market_id) /\ QueuesSound(book) /\ side \in Sides
      /\ market_id \in DOMAIN books
  BY <1>1, InProcess
<1>3. Wants(taker)
  <2>1. remaining_size_lots(taker) # 0 <=> remaining_size_lots(taker) > 0
    BY <1>1, InProcess
  <2> QED BY <1>1, <2>1 DEF MatchOver, Wants
<1>4. WalkSound(book, taker, prices, price, maker_ids)
  BY <1>1 DEF QueueInv, LoopSound
<1>5. id \in DOMAIN book.orders /\ RestsAt(maker, side, price) /\ AllLive(book, maker_ids)
      /\ 1 \in DOMAIN maker_ids /\ id = maker_ids[1]
  BY <1>1, <1>2, <1>3, <1>4, HeadOfWalk
<1>6. ~stale(book, id)
  BY <1>5 DEF AllLive
<1>7. /\ maker \in Orders /\ maker.order_id = id /\ maker.signed.market_id = market_id
      /\ maker.filled_size_lots <= maker.signed.size_lots
  BY <1>2, <1>5 DEF BookFits, IsBook, IsMap, OrdersFit
<1>8. remaining_size_lots(maker) > 0
  BY <1>2, <1>5 DEF RestsAt, QueuesSound
<1>9. \/ self_trade(maker) /\ StpCancelTaker(maker)
      \/ ~self_trade(maker) /\ FillMaker(maker)
  BY <1>6 DEF MatchMaker
<1> QED BY <1>1, <1>2, <1>3, <1>4, <1>5, <1>7, <1>8, <1>9

(* What a fill of a turn of the loop is made of: the smaller remainder of  *)
(* the two, so that one of them is closed by it.                           *)
LEMMA FillMakerParts ==
  ASSUME taker \in Orders, taker.filled_size_lots <= taker.signed.size_lots,
         remaining_size_lots(taker) > 0,
         NEW maker \in Orders, maker.filled_size_lots <= maker.signed.size_lots,
         remaining_size_lots(maker) > 0,
         NEW qty, qty = fill_qty(maker),
         NEW filled, filled = after_fill(maker, qty, taker.created_sequence),
         NEW taken, taken = after_fill(taker, qty, taker.created_sequence)
  PROVE  /\ qty \in Nat /\ qty > 0
         /\ qty = remaining_size_lots(maker) \/ remaining_size_lots(taken) = 0
         /\ filled \in Orders /\ filled.signed = maker.signed /\ filled.order_id = maker.order_id
         /\ filled.created_sequence = maker.created_sequence
         /\ filled.filled_size_lots <= filled.signed.size_lots
         /\ is_closed(filled) \/ remaining_size_lots(filled) > 0
         /\ taken.signed = taker.signed /\ taken.order_id = taker.order_id
         /\ taken.created_sequence = taker.created_sequence
         /\ is_closed(filled) \/ ~Wants(taken)
<1>1. /\ remaining_size_lots(taker) \in Nat /\ remaining_size_lots(maker) \in Nat
      /\ taker.created_sequence \in Nat
  BY Remainder
<1>2. /\ qty \in Nat /\ qty > 0
      /\ qty <= remaining_size_lots(taker) /\ qty <= remaining_size_lots(maker)
      /\ qty = remaining_size_lots(taker) \/ qty = remaining_size_lots(maker)
  BY <1>1 DEF fill_qty
<1>3. /\ filled \in Orders /\ filled.signed = maker.signed /\ filled.order_id = maker.order_id
      /\ filled.filled_size_lots <= filled.signed.size_lots
      /\ filled.created_sequence = maker.created_sequence
      /\ remaining_size_lots(filled) = remaining_size_lots(maker) - qty
      /\ is_closed(filled) <=> qty = remaining_size_lots(maker)
  BY <1>1, <1>2, AfterFillFits, AfterFillLeaves
<1>4. /\ taken.signed = taker.signed /\ taken.order_id = taker.order_id
      /\ taken.created_sequence = taker.created_sequence
      /\ remaining_size_lots(taken) = remaining_size_lots(taker) - qty
      /\ is_closed(taken) <=> qty = remaining_size_lots(taker)
  BY <1>1, <1>2, AfterFillFits, AfterFillLeaves
<1>5. is_closed(filled) \/ remaining_size_lots(filled) > 0
  BY <1>1, <1>2, <1>3
<1>6. qty = remaining_size_lots(maker) \/ remaining_size_lots(taken) = 0
  BY <1>1, <1>2, <1>4
<1> QED BY <1>2, <1>3, <1>4, <1>5, <1>6 DEF Wants

(* A turn of the loop, self-trade or fill, keeps the books sound and the   *)
(* copies true.                                                            *)
LEMMA MatchMakerQueues ==
  ASSUME EngineInv, QueueInv, MatchMaker
  PROVE  QueueInv'
<1> DEFINE market_id == taker.signed.market_id
           book == books[market_id]
           side == Opposite(taker.signed.side)
           id == Head(maker_ids)
           maker == book.orders[id]
           before == book.orders
           levels == book.queues[side]
<1>1. /\ Wants(taker) /\ maker_ids # << >> /\ InProcessOrder
      /\ WalkSound(book, taker, prices, price, maker_ids)
      /\ BookFits(book, market_id) /\ QueuesSound(book) /\ side \in Sides
      /\ market_id \in DOMAIN books
      /\ id \in DOMAIN before /\ RestsAt(maker, side, price)
      /\ maker \in Orders /\ maker.order_id = id /\ maker.signed.market_id = market_id
      /\ maker.filled_size_lots <= maker.signed.size_lots
      /\ remaining_size_lots(maker) > 0
      /\ StpCancelTaker(maker) \/ FillMaker(maker)
  BY MatchMakerMeets
<1>2. /\ maker_ids' = Tail(maker_ids)
      /\ UNCHANGED <<uuids, next_seq_id, order_market_index, stage, prices, price>>
      /\ stage = "matching"
  BY DEF MatchMaker, sequencer_vars
<1>3. taker \in Orders /\ taker.filled_size_lots <= taker.signed.size_lots /\ next_seq_id \in Nat
  BY <1>1, InProcess DEF EngineInv, TypeOK, SequencerTypes
<1>4. maker = before[id] /\ levels = book.queues[side] /\ side = Opposite(taker.signed.side)
  OBVIOUS
<1>5. CASE StpCancelTaker(maker)
  <2>1. /\ taker'.signed = taker.signed /\ taker'.order_id = taker.order_id
        /\ taker'.created_sequence = taker.created_sequence
        /\ ~Wants(taker') /\ books' = books
    BY <1>3, <1>5 DEF StpCancelTaker, Orders, Wants, is_closed
  <2>2. WalkSound(book, taker', prices, price, Tail(maker_ids))
    <3>1. ChangedAt(before, before, id)
      BY DEF ChangedAt
    <3> DEFINE taken == taker'
    <3>2. taken.signed = taker.signed /\ ~Wants(taken)
      BY <2>1
    <3> HIDE DEF book, side, market_id, taken
    <3>3. WalkSound(book, taken, prices, price, Tail(maker_ids))
      BY <1>1, <1>4, <3>1, <3>2, WalkDone
    <3> QED BY <3>3 DEF taken
  <2>3. LoopSound'
    BY <1>2, <2>1, <2>2 DEF LoopSound
  <2>4. BooksSound'
    BY <2>1 DEF QueueInv, BooksSound
  <2>5. IdsFresh'
    <3>1. \A m \in DOMAIN books : SameIds(books'[m], books[m])
      BY <2>1 DEF SameIds
    <3> QED BY <1>1, <1>2, <1>3, <2>1, <3>1, IdsKept
  <2> QED BY <2>3, <2>4, <2>5 DEF QueueInv
<1>6. CASE FillMaker(maker)
  <2> DEFINE qty == fill_qty(maker)
             filled == after_fill(maker, qty, taker.created_sequence)
             taken == after_fill(taker, qty, taker.created_sequence)
             new == update_maker(book, filled)
             after == [before EXCEPT ![id] = filled]
  <2>1. taker' = taken /\ books' = [books EXCEPT ![market_id] = new]
    BY <1>6 DEF FillMaker
  <2>2. /\ filled \in Orders /\ filled.signed = maker.signed /\ filled.order_id = id
        /\ filled.created_sequence = maker.created_sequence
        /\ filled.filled_size_lots <= filled.signed.size_lots
        /\ is_closed(filled) \/ remaining_size_lots(filled) > 0
        /\ taken.signed = taker.signed /\ taken.order_id = taker.order_id
        /\ taken.created_sequence = taker.created_sequence
        /\ is_closed(filled) \/ ~Wants(taken)
    <3> HIDE DEF maker, id
    <3> QED BY <1>1, <1>3, FillMakerParts DEF Wants
  <2> HIDE DEF filled, taken, qty
  <2>3. ~is_closed(maker) /\ maker.signed.side = side /\ maker.signed.price_ticks = price
    BY <1>1 DEF RestsAt
  <2>4. QueuesSound(new)
    <3> HIDE DEF book, id, market_id
    <3> QED BY <1>1, <2>2, <2>3, UpdateMakerSound
  <2>5. new = [ queues |-> IF ~is_closed(filled) THEN book.queues
                           ELSE [book.queues EXCEPT ![side] = take_off(levels, price, id)],
                orders |-> after ]
    <3>1. new = [ queues |-> IF ~is_closed(filled) THEN book.queues
                             ELSE [book.queues EXCEPT ![filled.signed.side] =
                                     take_off(@, filled.signed.price_ticks, filled.order_id)],
                  orders |-> [book.orders EXCEPT ![filled.order_id] = filled] ]
      <4> HIDE DEF book, id, market_id
      <4> QED BY <1>1, <2>2, UpdateMakerParts
    <3> HIDE DEF new
    <3> QED BY <2>2, <2>3, <3>1
  <2> HIDE DEF new
  <2>6. /\ DOMAIN after = DOMAIN before /\ after[id] = filled
        /\ ChangedAt(after, before, id) /\ after = new.orders
    BY <1>1, <2>5 DEF ChangedAt, BookFits, IsBook, IsMap
  <2>7. SameIds(new, book)
    <3>1. \A other \in DOMAIN before :
            after[other].created_sequence = before[other].created_sequence
      <4> HIDE DEF after, before
      <4> QED BY <1>4, <2>2, <2>6 DEF ChangedAt
    <3> QED BY <2>6, <3>1 DEF SameIds
  <2>8. WalkSound(new, taken, prices, price, Tail(maker_ids))
    <3>1. CASE is_closed(filled)
      <4>1. new.queues[side] = take_off(levels, price, id)
        BY <1>1, <2>5, <3>1 DEF BookFits, IsBook
      <4>2. before = book.orders
        OBVIOUS
      <4> HIDE DEF book, side, market_id, levels, before, after
      <4> QED BY <1>1, <1>4, <2>2, <2>6, <4>1, <4>2, WalkPastFilled
    <3>2. CASE ~is_closed(filled)
      <4>1. new.queues[side] = book.queues[side] /\ before = book.orders
        BY <2>5, <3>2
      <4> HIDE DEF book, side, market_id, levels, before, after
      <4> QED BY <1>1, <1>4, <2>2, <2>6, <3>2, <4>1, WalkDone
    <3> QED BY <3>1, <3>2
  <2> HIDE DEF after
  <2>9. /\ DOMAIN books' = DOMAIN books /\ books'[market_id] = new
        /\ \A m \in DOMAIN books : m # market_id => books'[m] = books[m]
    BY <1>1, <2>1 DEF EngineInv, TypeOK, EngineTypes
  <2>10. BooksSound'
    BY <2>4, <2>9 DEF QueueInv, BooksSound
  <2>11. IdsFresh'
    <3>1. \A m \in DOMAIN books : SameIds(books'[m], books[m])
      BY <2>7, <2>9 DEF SameIds
    <3> QED BY <1>1, <1>2, <1>3, <2>1, <2>2, <2>9, <3>1, IdsKept
  <2>12. LoopSound'
    BY <1>2, <2>1, <2>2, <2>8, <2>9 DEF LoopSound
  <2> QED BY <2>10, <2>11, <2>12 DEF QueueInv
<1> QED BY <1>1, <1>5, <1>6

(* Sequencing a fill, or anything else that leaves the books, the taker    *)
(* and the loop alone.                                                     *)
LEMMA QuietStepQueues ==
  ASSUME EngineInv, QueueInv,
         UNCHANGED <<books, uuids, order_market_index, taker, maker_ids>>,
         next_seq_id' \in Nat, next_seq_id' >= next_seq_id,
         \/ stage' = stage /\ UNCHANGED <<prices, price>>
         \/ stage' \in {"idle", "cancelling"} /\ ~InProcessOrder
  PROVE  QueueInv'
<1>1. BooksSound'
  BY DEF QueueInv, BooksSound
<1>2. IdsFresh'
  <2>1. \A m \in DOMAIN books : SameIds(books'[m], books[m])
    BY DEF SameIds
  <2>2. InProcessOrder' => InProcessOrder
    BY DEF InProcessOrder
  <2> QED BY <2>1, <2>2, IdsKept
<1>3. LoopSound'
  BY DEF QueueInv, LoopSound, InProcessOrder
<1> QED BY <1>1, <1>2, <1>3 DEF QueueInv

(* Appending an event, or none, moves the counter ahead.                   *)
LEMMA CounterRises ==
  ASSUME EngineInv, EngineInv', NoAcceptance
  PROVE  next_seq_id' \in Nat /\ next_seq_id \in Nat /\ next_seq_id' >= next_seq_id
<1>1. next_seq_id' \in Nat /\ next_seq_id \in Nat
  BY DEF EngineInv, TypeOK, SequencerTypes
<1>2. next_seq_id' = next_seq_id \/ next_seq_id' = next_seq_id + 1
  BY DEF NoAcceptance, append_event
<1> QED BY <1>1, <1>2

(* The residual goes to the end of its queue: it is the last accepted, and *)
(* it reaches nobody.                                                      *)
LEMMA FinishOrderQueues ==
  ASSUME EngineInv, QueueInv, FinishOrder
  PROVE  QueueInv'
<1> DEFINE market_id == taker.signed.market_id
           book == books[market_id]
           new == insert(book, taker)
<1>1. /\ stage = "recording" /\ InProcessOrder /\ stage' = "idle"
      /\ UNCHANGED <<uuids, order_market_index, maker_ids>>
      /\ books' = IF Wants(taker) THEN [books EXCEPT ![market_id] = new] ELSE books
  BY DEF FinishOrder, RestResidual, Wants, InProcessOrder
<1>2. /\ taker \in Orders /\ taker.filled_size_lots <= taker.signed.size_lots
      /\ market_id \in DOMAIN books /\ BookFits(book, market_id) /\ QueuesSound(book)
      /\ taker.signed.side \in Sides /\ taker.signed.price_ticks \in Nat
  BY <1>1, InProcess
<1>3. next_seq_id' \in Nat /\ next_seq_id \in Nat /\ next_seq_id' >= next_seq_id
  BY FinishOrderInv, CounterRises
<1>4. LoopSound'
  BY <1>1 DEF QueueInv, LoopSound
<1>5. ~InProcessOrder'
  BY <1>1 DEF InProcessOrder
<1>6. CASE ~Wants(taker)
  <2>1. BooksSound'
    BY <1>1, <1>6 DEF QueueInv, BooksSound
  <2>2. IdsFresh'
    <3>1. \A m \in DOMAIN books : SameIds(books'[m], books[m])
      BY <1>1, <1>6 DEF SameIds
    <3> QED BY <1>1, <1>3, <1>5, <1>6, <3>1, IdsKept
  <2> QED BY <1>4, <2>1, <2>2 DEF QueueInv
<1>7. CASE Wants(taker)
  <2>1. /\ DOMAIN books' = DOMAIN books /\ books'[market_id] = new
        /\ \A m \in DOMAIN books : m # market_id => books'[m] = books[m]
    <3> HIDE DEF new
    <3> QED BY <1>1, <1>2, <1>7 DEF EngineInv, TypeOK, EngineTypes
  <2>2. \A id \in DOMAIN book.orders :
          /\ id < taker.order_id
          /\ book.orders[id].created_sequence < taker.created_sequence
    BY <1>1, <1>2 DEF QueueInv, IdsFresh, BookIdsFresh
  <2>3. taker.order_id \notin DOMAIN book.orders
    <3>1. taker.order_id \in Nat /\ ~(taker.order_id < taker.order_id)
      BY <1>2 DEF Orders, OrderIds
    <3> QED BY <2>2, <3>1
  <2>4. QueuesSound(new)
    <3> HIDE DEF book, market_id
    <3> QED BY <1>2, <1>7, <2>2, <2>3, InsertSound DEF Wants
  <2>5. BooksSound'
    <3> HIDE DEF new, book
    <3> QED BY <2>1, <2>4 DEF QueueInv, BooksSound
  <2>6. /\ DOMAIN new.orders = DOMAIN book.orders \cup {taker.order_id}
        /\ new.orders[taker.order_id] = taker
        /\ \A id \in DOMAIN book.orders : new.orders[id] = book.orders[id]
    BY <2>3 DEF insert, put
  <2> HIDE DEF new
  <2>7. ASSUME NEW m \in DOMAIN books PROVE BookIdsFresh(books[m], m)'
    <3> DEFINE orders == books'[m].orders
    <3> SUFFICES ASSUME NEW id \in DOMAIN orders
                 PROVE  /\ id <= uuids /\ orders[id].created_sequence < next_seq_id'
                        /\ id \in DOMAIN order_market_index /\ order_market_index[id] = m
      BY <1>1, <1>5 DEF BookIdsFresh
    <3> DEFINE created == orders[id].created_sequence
    <3>1. CASE m = market_id /\ id = taker.order_id
      <4>1. created = taker.created_sequence
        BY <2>1, <2>6, <3>1
      <4>2. /\ taker.order_id <= uuids /\ taker.created_sequence < next_seq_id
            /\ taker.order_id \in DOMAIN order_market_index
            /\ order_market_index[taker.order_id] = market_id
            /\ taker.created_sequence \in Nat
        BY <1>1, <1>2 DEF QueueInv, IdsFresh, Orders
      <4> HIDE DEF created
      <4>3. created < next_seq_id'
        BY <1>3, <4>1, <4>2
      <4> QED BY <3>1, <4>2, <4>3 DEF created
    <3>2. CASE ~(m = market_id /\ id = taker.order_id)
      <4>1. id \in DOMAIN books[m].orders /\ orders[id] = books[m].orders[id]
        BY <2>1, <2>6, <3>2
      <4>2. /\ id <= uuids /\ created < next_seq_id
            /\ id \in DOMAIN order_market_index /\ order_market_index[id] = m
        BY <4>1 DEF QueueInv, IdsFresh, BookIdsFresh
      <4>3. created \in Nat
        BY <4>1 DEF EngineInv, BooksFit, BookFits, IsBook, IsMap, Orders
      <4> HIDE DEF created
      <4>4. created < next_seq_id'
        BY <1>3, <4>2, <4>3
      <4> QED BY <4>2, <4>4 DEF created
    <3> QED BY <3>1, <3>2
  <2>8. IdsFresh'
    BY <1>5, <2>1, <2>7 DEF IdsFresh
  <2> QED BY <1>4, <2>5, <2>8 DEF QueueInv
<1> QED BY <1>6, <1>7

(* A trader's cancellation takes its order out of its queue, nobody else.  *)
LEMMA ProcessCancelQueues ==
  ASSUME EngineInv, QueueInv, NEW id, NEW trader_id, ProcessCancel(id, trader_id)
  PROVE  QueueInv'
<1> DEFINE market_id == order_market_index[id]
           book == books[market_id]
           new == cancel(book, id)
           before == book.orders
<1>1. /\ stage = "idle" /\ stage' = "idle"
      /\ market_id \in DOMAIN books /\ id \in DOMAIN before /\ ~is_closed(before[id])
      /\ books' = [books EXCEPT ![market_id] = new]
      /\ UNCHANGED <<uuids, order_market_index, maker_ids>>
  BY DEF ProcessCancel, find_order, matching_vars
<1>2. BookFits(book, market_id) /\ QueuesSound(book)
  BY <1>1 DEF EngineInv, BooksFit, QueueInv, BooksSound
<1>3. QueuesSound(new)
  <2> HIDE DEF book, market_id
  <2> QED BY <1>1, <1>2, CancelSound
<1>4. SameIds(new, book)
  <2> DEFINE order == [before[id] EXCEPT !.status = "cancelled"]
             after == [before EXCEPT ![id] = order]
  <2>1. order.created_sequence = before[id].created_sequence /\ new.orders = after
    <3>1. /\ order.created_sequence = book.orders[id].created_sequence
          /\ cancel(book, id) =
               [ queues |-> [book.queues EXCEPT ![order.signed.side] =
                               take_off(@, order.signed.price_ticks, id)],
                 orders |-> [book.orders EXCEPT ![id] = order] ]
      <4>1. id \in DOMAIN book.orders /\ ~is_closed(book.orders[id])
            /\ order = [book.orders[id] EXCEPT !.status = "cancelled"]
        BY <1>1
      <4> HIDE DEF book, market_id, order, before
      <4> QED BY <1>2, <4>1, CancelParts
    <3> HIDE DEF order
    <3> QED BY <3>1
  <2> HIDE DEF order, new, book
  <2>2. /\ DOMAIN after = DOMAIN before
        /\ \A other \in DOMAIN before :
             after[other].created_sequence = before[other].created_sequence
    BY <1>2, <2>1 DEF BookFits, IsBook, IsMap
  <2> HIDE DEF after
  <2> QED BY <2>1, <2>2 DEF SameIds
<1> HIDE DEF new
<1>5. /\ DOMAIN books' = DOMAIN books /\ books'[market_id] = new
      /\ \A m \in DOMAIN books : m # market_id => books'[m] = books[m]
  BY <1>1 DEF EngineInv, TypeOK, EngineTypes
<1>6. BooksSound'
  BY <1>3, <1>5 DEF QueueInv, BooksSound
<1>7. IdsFresh'
  <2>1. next_seq_id' \in Nat /\ next_seq_id \in Nat /\ next_seq_id' >= next_seq_id
    BY ProcessCancelInv, CounterRises
  <2>2. \A m \in DOMAIN books : SameIds(books'[m], books[m])
    BY <1>4, <1>5 DEF SameIds
  <2> QED BY <1>1, <1>5, <2>1, <2>2, IdsKept DEF InProcessOrder
<1>8. LoopSound'
  BY <1>1 DEF QueueInv, LoopSound
<1> QED BY <1>6, <1>7, <1>8 DEF QueueInv

(* A market that had no book gets an empty one, which is sound.            *)
LEMMA SetStatusQueues ==
  ASSUME EngineInv, QueueInv, NEW market_id \in Markets, NEW from, NEW to \in MarketStatuses,
         NEW type \in {"market_paused", "market_resumed"},
         SetStatus(market_id, from, to, type)
  PROVE  QueueInv'
<1>1. /\ stage = "idle" /\ stage' = "idle"
      /\ UNCHANGED <<uuids, order_market_index, taker, maker_ids, prices, price>>
      /\ books' = IF market_id \in DOMAIN books THEN books ELSE put(books, market_id, new_book)
  BY DEF SetStatus, add_market, matching_vars
<1>2. next_seq_id' \in Nat /\ next_seq_id \in Nat /\ next_seq_id' >= next_seq_id
  BY SetStatusInv, CounterRises
<1>3. CASE market_id \in DOMAIN books
  BY <1>1, <1>2, <1>3, QuietStepQueues
<1>4. CASE market_id \notin DOMAIN books
  <2>1. /\ books'[market_id] = new_book /\ DOMAIN books' = DOMAIN books \cup {market_id}
        /\ \A m \in DOMAIN books : books'[m] = books[m]
    BY <1>1, <1>4 DEF put
  <2>2. BooksSound'
    BY <2>1, NewBookSound DEF QueueInv, BooksSound
  <2>3. ASSUME NEW m \in DOMAIN books' PROVE BookIdsFresh(books[m], m)'
    <3> DEFINE orders == books'[m].orders
    <3> SUFFICES ASSUME NEW id \in DOMAIN orders
                 PROVE  /\ id <= uuids /\ orders[id].created_sequence < next_seq_id'
                        /\ id \in DOMAIN order_market_index /\ order_market_index[id] = m
      BY <1>1 DEF BookIdsFresh, InProcessOrder
    <3> DEFINE created == orders[id].created_sequence
    <3>1. m \in DOMAIN books /\ orders = books[m].orders
      BY <2>1 DEF new_book
    <3>2. /\ id <= uuids /\ created < next_seq_id /\ created \in Nat
          /\ id \in DOMAIN order_market_index /\ order_market_index[id] = m
      BY <3>1 DEF QueueInv, IdsFresh, BookIdsFresh, EngineInv, BooksFit, BookFits, IsBook,
         IsMap, Orders
    <3> HIDE DEF created
    <3>3. created < next_seq_id'
      BY <1>2, <3>2
    <3> QED BY <3>2, <3>3 DEF created
  <2>4. IdsFresh' /\ LoopSound'
    BY <1>1, <2>3 DEF IdsFresh, InProcessOrder, QueueInv, LoopSound
  <2> QED BY <2>2, <2>4 DEF QueueInv
<1> QED BY <1>3, <1>4

(* Nothing is in the books, and no call in progress.                       *)
LEMMA InitQueues == Init => QueueInv
<1> SUFFICES ASSUME Init PROVE QueueInv
  OBVIOUS
<1>1. BooksSound
  BY NewBookSound DEF Init, BooksSound
<1>2. IdsFresh
  BY DEF Init, IdsFresh, BookIdsFresh, InProcessOrder, new_book
<1>3. LoopSound
  BY DEF Init, LoopSound
<1> QED BY <1>1, <1>2, <1>3 DEF QueueInv

(* Every step keeps the queues, the ids and the loop sound.                *)
LEMMA QueueStep ==
  ASSUME EngineInv, QueueInv, [Next]_vars
  PROVE  QueueInv'
<1>1. CASE UNCHANGED vars
  <2>1. /\ UNCHANGED <<books, uuids, order_market_index, taker, maker_ids, stage, prices, price>>
        /\ next_seq_id' = next_seq_id
    BY <1>1 DEF vars, engine_vars, sequencer_vars, matching_vars
  <2>2. next_seq_id \in Nat
    BY DEF EngineInv, TypeOK, SequencerTypes
  <2> QED BY <2>1, <2>2, QuietStepQueues
<1>2. ASSUME NEW signed \in SignedOrders, NEW now_ms \in Times, ProcessOrder(signed, now_ms)
      PROVE  QueueInv'
  BY <1>2, ProcessOrderQueues
<1>3. ASSUME NEW id, NEW trader_id, ProcessCancel(id, trader_id)
      PROVE  QueueInv'
  BY <1>3, ProcessCancelQueues
<1>4. ASSUME NEW trader_id, NEW client_order_id, CancelByClientId(trader_id, client_order_id)
      PROVE  QueueInv'
  BY <1>3, <1>4 DEF CancelByClientId
<1>5. ASSUME NEW market_id \in Markets, PauseMarket(market_id) \/ ResumeMarket(market_id)
      PROVE  QueueInv'
  BY <1>5, SetStatusQueues DEF PauseMarket, ResumeMarket, MarketStatuses
<1>6. ASSUME NEW market_id \in Markets, CancelAllOrders(market_id)
      PROVE  QueueInv'
  <2>1. /\ UNCHANGED <<books, uuids, order_market_index, taker, maker_ids, next_seq_id>>
        /\ stage' \in {"idle", "cancelling"} /\ ~InProcessOrder
    BY <1>6 DEF CancelAllOrders, engine_vars, sequencer_vars, matching_vars, InProcessOrder
  <2>2. next_seq_id \in Nat
    BY DEF EngineInv, TypeOK, SequencerTypes
  <2> QED BY <2>1, <2>2, QuietStepQueues
<1>7. CASE RecordFill
  <2>1. UNCHANGED <<books, uuids, order_market_index, taker, maker_ids, stage, prices, price>>
    BY <1>7 DEF RecordFill, engine_vars
  <2>2. next_seq_id' \in Nat /\ next_seq_id' >= next_seq_id
    BY <1>7, RecordFillInv, CounterRises
  <2> QED BY <2>1, <2>2, QuietStepQueues
<1>8. CASE CancelNext
  <2>1. /\ UNCHANGED <<books, uuids, order_market_index, taker, maker_ids>>
        /\ stage' \in {"idle", "cancelling"} /\ ~InProcessOrder
    BY <1>8 DEF CancelNext, engine_vars, matching_vars, InProcessOrder
  <2>2. next_seq_id' \in Nat /\ next_seq_id' >= next_seq_id
    BY <1>8, CancelNextInv, CounterRises
  <2> QED BY <2>1, <2>2, QuietStepQueues
<1>9. CASE Continue
  BY <1>7, <1>8, <1>9, NextLevelQueues, MatchMakerQueues, EndMatchQueues, FinishOrderQueues
     DEF Continue
<1>10. CASE Call
  BY <1>2, <1>3, <1>4, <1>5, <1>6, <1>10 DEF Call
<1> QED BY <1>1, <1>9, <1>10 DEF Next

(* In every reachable state the queues are sound and match_order can rely  *)
(* on its copies of them.                                                  *)
THEOREM SpecQueueInv == Spec => []QueueInv
<1>1. EngineInv /\ QueueInv /\ [Next]_vars => QueueInv'
  BY QueueStep
<1> QED BY <1>1, InitQueues, SpecEngineInv, PTL DEF Spec

-----------------------------------------------------------------------------
(* What it means for the books *)

LEMMA QueuesHold ==
  ASSUME EngineInv, QueueInv
  PROVE  QueuesHoldOpenOrders
<1> SUFFICES ASSUME NEW m \in DOMAIN books, NEW side \in Sides
             PROVE  LET book == books[m]
                        levels == book.queues[side]
                    IN /\ \A p \in DOMAIN levels :
                            /\ levels[p] # << >>
                            /\ \A i \in DOMAIN levels[p] :
                                 /\ levels[p][i] \in DOMAIN book.orders
                                 /\ LET order == book.orders[levels[p][i]] IN
                                    /\ ~is_closed(order) /\ remaining_size_lots(order) > 0
                                    /\ order.signed.side = side /\ order.signed.price_ticks = p
                                 /\ \A j \in DOMAIN levels[p] :
                                      levels[p][i] = levels[p][j] => i = j
                       /\ \A id \in DOMAIN book.orders :
                            LET order == book.orders[id] IN
                            ~is_closed(order) /\ order.signed.side = side
                              => /\ order.signed.price_ticks \in DOMAIN levels
                                 /\ \E i \in DOMAIN levels[order.signed.price_ticks] :
                                      levels[order.signed.price_ticks][i] = id
  BY DEF QueuesHoldOpenOrders
<1> DEFINE book == books[m]
           levels == book.queues[side]
<1>1. BookFits(book, m) /\ QueuesSound(book)
  BY DEF EngineInv, BooksFit, QueueInv, BooksSound
<1>2. ASSUME NEW p \in DOMAIN levels
      PROVE  LET queue == levels[p] IN
             queue # << >> /\ QueueSound(book.orders, side, p, queue) /\ Distinct(queue)
  <2> HIDE DEF book
  <2>1. levels = book.queues[side]
    OBVIOUS
  <2> HIDE DEF levels
  <2> QED BY <1>1, <1>2, <2>1, LevelOfBook
<1>3. ASSUME NEW p \in DOMAIN levels, NEW i \in DOMAIN levels[p]
      PROVE  /\ levels[p][i] \in DOMAIN book.orders
             /\ ~is_closed(book.orders[levels[p][i]])
             /\ remaining_size_lots(book.orders[levels[p][i]]) > 0
             /\ book.orders[levels[p][i]].signed.side = side
             /\ book.orders[levels[p][i]].signed.price_ticks = p
  <2>1. levels[p][i] \in DOMAIN book.orders /\ RestsAt(book.orders[levels[p][i]], side, p)
    BY <1>2 DEF QueueSound
  <2> QED BY <1>1, <2>1 DEF RestsAt, QueuesSound
<1>4. ASSUME NEW id \in DOMAIN book.orders,
             ~is_closed(book.orders[id]), book.orders[id].signed.side = side
      PROVE  Holds(levels, book.orders[id].signed.price_ticks, id)
  BY <1>1, <1>4 DEF QueuesSound
<1>5. ASSUME NEW p \in DOMAIN levels, NEW i \in DOMAIN levels[p], NEW j \in DOMAIN levels[p],
             levels[p][i] = levels[p][j]
      PROVE  i = j
  BY <1>2, <1>5 DEF Distinct
<1>6. \A p \in DOMAIN levels : levels[p] # << >>
  BY <1>2
<1>7. ASSUME NEW id \in DOMAIN book.orders,
             ~is_closed(book.orders[id]), book.orders[id].signed.side = side
      PROVE  /\ book.orders[id].signed.price_ticks \in DOMAIN levels
             /\ \E i \in DOMAIN levels[book.orders[id].signed.price_ticks] :
                  levels[book.orders[id].signed.price_ticks][i] = id
  BY <1>4, <1>7 DEF Holds
<1>8. \A p \in DOMAIN levels :
        /\ levels[p] # << >>
        /\ \A i \in DOMAIN levels[p] :
             /\ levels[p][i] \in DOMAIN book.orders
             /\ LET order == book.orders[levels[p][i]] IN
                /\ ~is_closed(order) /\ remaining_size_lots(order) > 0
                /\ order.signed.side = side /\ order.signed.price_ticks = p
             /\ \A j \in DOMAIN levels[p] : levels[p][i] = levels[p][j] => i = j
  <2> HIDE DEF levels, book
  <2> QED BY <1>3, <1>5, <1>6
<1>9. \A id \in DOMAIN book.orders :
        LET order == book.orders[id] IN
        ~is_closed(order) /\ order.signed.side = side
          => /\ order.signed.price_ticks \in DOMAIN levels
             /\ \E i \in DOMAIN levels[order.signed.price_ticks] :
                  levels[order.signed.price_ticks][i] = id
  <2> HIDE DEF levels, book
  <2> QED BY <1>7
<1> QED BY ONLY <1>8, <1>9

(* The queues of every book hold exactly its open orders, each once, under *)
(* its own side and price, and no level is empty.                          *)
THEOREM SpecQueuesHoldOpenOrders == Spec => []QueuesHoldOpenOrders
<1>1. EngineInv /\ QueueInv => QueuesHoldOpenOrders
  BY QueuesHold
<1> QED BY <1>1, SpecEngineInv, SpecQueueInv, PTL

(* match_order's copies of the price list and of a queue are never stale.  *)
THEOREM SpecSnapshotsStayFresh == Spec => []SnapshotsStayFresh
<1>1. QueueInv => SnapshotsStayFresh
  BY DEF QueueInv, LoopSound, WalkSound, AllLive, SnapshotsStayFresh
<1> QED BY <1>1, SpecQueueInv, PTL

-----------------------------------------------------------------------------
(* No book is crossed *)

\* Of a bid and an ask that cross, one is exempt.  Nothing is exempt as long
\* as the process runs; after a restart the orphans are.
Uncrossed(orders, exempt) ==
  \A x, y \in DOMAIN orders :
    /\ ~is_closed(orders[x]) /\ orders[x].signed.side = "buy" /\ x \notin exempt
    /\ ~is_closed(orders[y]) /\ orders[y].signed.side = "sell" /\ y \notin exempt
    => orders[x].signed.price_ticks < orders[y].signed.price_ticks

BooksUncrossed(exempt) == \A m \in DOMAIN books : Uncrossed(books[m].orders, exempt)

\* No order of the book has opened.
NoneOpened(new, orders) ==
  \A id \in DOMAIN new : ~is_closed(new[id]) =>
    id \in DOMAIN orders /\ ~is_closed(orders[id]) /\ new[id].signed = orders[id].signed

LEMMA UncrossedKept ==
  ASSUME NEW orders, NEW exempt, Uncrossed(orders, exempt), NEW new, NoneOpened(new, orders)
  PROVE  Uncrossed(new, exempt)
BY DEF Uncrossed, NoneOpened

(* One order of a book changes, and does not open.                         *)
LEMMA NoneOpenedByChange ==
  ASSUME NEW orders, orders = [k \in DOMAIN orders |-> orders[k]], NEW id \in DOMAIN orders,
         NEW order, order.signed = orders[id].signed, ~is_closed(orders[id])
  PROVE  NoneOpened([orders EXCEPT ![id] = order], orders)
<1> DEFINE new == [orders EXCEPT ![id] = order]
<1>1. /\ DOMAIN new = DOMAIN orders /\ new[id] = order
      /\ \A k \in DOMAIN orders : k # id => new[k] = orders[k]
  OBVIOUS
<1> HIDE DEF new
<1>2. NoneOpened(new, orders)
  BY <1>1 DEF NoneOpened
<1> QED BY <1>2 DEF new

(* Only finish opens an order on a book: the taker that still wants lots.  *)
LEMMA BookOpens ==
  ASSUME EngineInv, QueueInv, [Next]_vars, NEW m \in DOMAIN books'
  PROVE  \/ m \in DOMAIN books /\ NoneOpened(books'[m].orders, books[m].orders)
         \/ books'[m] = new_book
         \/ /\ FinishOrder /\ Wants(taker) /\ m = taker.signed.market_id
            /\ m \in DOMAIN books /\ books'[m] = insert(books[m], taker)
<1>1. CASE UNCHANGED books
  BY <1>1 DEF NoneOpened
<1>2. ASSUME NEW market_id \in DOMAIN books, NEW new,
             books' = [books EXCEPT ![market_id] = new],
             NoneOpened(new.orders, books[market_id].orders)
      PROVE  m \in DOMAIN books /\ NoneOpened(books'[m].orders, books[m].orders)
  <2>1. /\ DOMAIN books' = DOMAIN books /\ books'[market_id] = new
        /\ \A k \in DOMAIN books : k # market_id => books'[k] = books[k]
    BY <1>2 DEF EngineInv, TypeOK, EngineTypes
  <2>2. CASE m = market_id
    BY <1>2, <2>1, <2>2
  <2>3. CASE m # market_id
    <3>1. m \in DOMAIN books /\ books'[m] = books[m]
      BY <2>1, <2>3
    <3> QED BY <3>1 DEF NoneOpened
  <2> QED BY <2>2, <2>3
<1>3. ASSUME NEW id, NEW trader_id, ProcessCancel(id, trader_id)
      PROVE  m \in DOMAIN books /\ NoneOpened(books'[m].orders, books[m].orders)
  <2>1. PICK market_id, book : market_id = order_market_index[id] /\ book = books[market_id]
    OBVIOUS
  <2>2. /\ market_id \in DOMAIN books /\ id \in DOMAIN book.orders /\ ~is_closed(book.orders[id])
        /\ books' = [books EXCEPT ![market_id] = cancel(book, id)]
    BY <1>3, <2>1 DEF ProcessCancel, find_order
  <2>3. BookFits(book, market_id)
    BY <2>1, <2>2 DEF EngineInv, BooksFit
  <2>4. PICK order : order = [book.orders[id] EXCEPT !.status = "cancelled"]
    OBVIOUS
  <2>5. /\ order.signed = book.orders[id].signed
        /\ cancel(book, id).orders = [book.orders EXCEPT ![id] = order]
    <3>1. PICK queues : cancel(book, id) =
                          [queues |-> queues, orders |-> [book.orders EXCEPT ![id] = order]]
      BY <2>2, <2>3, <2>4, CancelParts
    <3> QED BY <2>2, <2>3, <2>4, <3>1, CancelParts
  <2>6. NoneOpened(cancel(book, id).orders, book.orders)
    BY <2>2, <2>3, <2>5, NoneOpenedByChange DEF BookFits, IsBook, IsMap
  <2> QED BY <1>2, <2>1, <2>2, <2>6
<1>4. ASSUME NEW market_id \in Markets, PauseMarket(market_id) \/ ResumeMarket(market_id)
      PROVE  \/ m \in DOMAIN books /\ NoneOpened(books'[m].orders, books[m].orders)
             \/ books'[m] = new_book
  <2>1. books' = IF market_id \in DOMAIN books THEN books ELSE put(books, market_id, new_book)
    BY <1>4 DEF PauseMarket, ResumeMarket, SetStatus, add_market
  <2>2. CASE market_id \in DOMAIN books
    BY <1>1, <2>1, <2>2 DEF NoneOpened
  <2>3. CASE market_id \notin DOMAIN books
    <3>1. m = market_id => books'[m] = new_book
      BY <2>1, <2>3 DEF put
    <3>2. m # market_id => m \in DOMAIN books /\ books'[m] = books[m]
      BY <2>1, <2>3 DEF put
    <3> QED BY <3>1, <3>2 DEF NoneOpened
  <2> QED BY <2>2, <2>3
<1>5. CASE MatchMaker
  <2>1. PICK market_id, book, maker :
          /\ market_id = taker.signed.market_id /\ book = books[market_id]
          /\ maker = book.orders[Head(maker_ids)]
    OBVIOUS
  <2>2. PICK side, id : side = Opposite(taker.signed.side) /\ id = Head(maker_ids)
    OBVIOUS
  <2>3. /\ market_id \in DOMAIN books /\ BookFits(book, market_id) /\ id \in DOMAIN book.orders
        /\ RestsAt(maker, side, price) /\ maker \in Orders /\ maker.order_id = id
        /\ maker.filled_size_lots <= maker.signed.size_lots /\ remaining_size_lots(maker) > 0
        /\ Wants(taker) /\ InProcessOrder
        /\ StpCancelTaker(maker) \/ FillMaker(maker)
    BY <1>5, <2>1, <2>2, MatchMakerMeets
  <2>4. CASE StpCancelTaker(maker)
    BY <1>1, <2>4 DEF StpCancelTaker
  <2>5. CASE FillMaker(maker)
    <3>1. PICK filled : filled = after_fill(maker, fill_qty(maker), taker.created_sequence)
      OBVIOUS
    <3>2. books' = [books EXCEPT ![market_id] = update_maker(book, filled)]
      BY <2>1, <2>5, <3>1 DEF FillMaker
    <3>3. taker \in Orders /\ taker.filled_size_lots <= taker.signed.size_lots
      BY <2>3, InProcess
    <3>4. filled \in Orders /\ filled.signed = maker.signed /\ filled.order_id = id
      BY <2>3, <3>1, <3>3, FillMakerParts DEF Wants
    <3>5. update_maker(book, filled).orders = [book.orders EXCEPT ![id] = filled]
      <4>1. PICK queues : update_maker(book, filled) =
                [queues |-> queues, orders |-> [book.orders EXCEPT ![filled.order_id] = filled]]
        BY <2>3, <3>4, UpdateMakerParts
      <4> QED BY <3>4, <4>1
    <3>6. ~is_closed(book.orders[id]) /\ filled.signed = book.orders[id].signed
      BY <2>1, <2>2, <2>3, <3>4 DEF RestsAt
    <3>7. NoneOpened(update_maker(book, filled).orders, book.orders)
      BY <2>3, <3>5, <3>6, NoneOpenedByChange DEF BookFits, IsBook, IsMap
    <3> QED BY <1>2, <2>1, <2>3, <3>2, <3>7
  <2> QED BY <2>3, <2>4, <2>5
<1>6. CASE FinishOrder
  <2>1. PICK market_id : market_id = taker.signed.market_id
    OBVIOUS
  <2>2. books' = IF Wants(taker) THEN [books EXCEPT ![market_id] = insert(books[market_id], taker)]
                 ELSE books
    BY <1>6, <2>1 DEF FinishOrder, RestResidual, Wants
  <2>3. market_id \in DOMAIN books
    BY <1>6, <2>1, InProcess DEF FinishOrder, InProcessOrder
  <2>4. CASE ~Wants(taker)
    BY <1>1, <2>2, <2>4
  <2>5. CASE Wants(taker)
    <3>1. PICK new : new = insert(books[market_id], taker)
      OBVIOUS
    <3>2. /\ DOMAIN books' = DOMAIN books /\ books'[market_id] = new
          /\ \A k \in DOMAIN books : k # market_id => books'[k] = books[k]
      BY <2>2, <2>3, <2>5, <3>1 DEF EngineInv, TypeOK, EngineTypes
    <3>3. CASE m = market_id
      BY <1>6, <2>1, <2>3, <2>5, <3>1, <3>2, <3>3
    <3>4. CASE m # market_id
      <4>1. m \in DOMAIN books /\ books'[m] = books[m]
        BY <3>2, <3>4
      <4> QED BY <4>1 DEF NoneOpened
    <3> QED BY <3>3, <3>4
  <2> QED BY <2>4, <2>5
<1>7. CASE UNCHANGED vars
  BY <1>1, <1>7 DEF vars, engine_vars
<1>8. CASE Continue
  <2>1. NextLevel \/ EndMatch \/ RecordFill \/ CancelNext => UNCHANGED books
    BY DEF NextLevel, EndMatch, RecordFill, CancelNext, engine_vars
  <2> QED BY <1>1, <1>5, <1>6, <1>8, <2>1 DEF Continue
<1>9. CASE Call
  <2>1. ASSUME NEW signed, NEW now_ms, ProcessOrder(signed, now_ms) PROVE UNCHANGED books
    BY <2>1 DEF ProcessOrder
  <2>2. ASSUME NEW market_id, CancelAllOrders(market_id) PROVE UNCHANGED books
    BY <2>2 DEF CancelAllOrders, engine_vars
  <2> QED BY <1>1, <1>3, <1>4, <1>9, <2>1, <2>2 DEF Call, CancelByClientId
<1> QED BY <1>7, <1>8, <1>9 DEF Next

(* Whatever would cross trades before it rests: no step crosses a book.    *)
LEMMA UncrossedStep ==
  ASSUME EngineInv, QueueInv, [Next]_vars, NEW exempt, BooksUncrossed(exempt)
  PROVE  BooksUncrossed(exempt)'
<1> SUFFICES ASSUME NEW m \in DOMAIN books' PROVE Uncrossed(books'[m].orders, exempt)
  BY DEF BooksUncrossed
<1>1. CASE m \in DOMAIN books /\ NoneOpened(books'[m].orders, books[m].orders)
  BY <1>1, UncrossedKept DEF BooksUncrossed
<1>2. CASE books'[m] = new_book
  BY <1>2 DEF Uncrossed, new_book
<1>3. CASE /\ FinishOrder /\ Wants(taker) /\ m = taker.signed.market_id
           /\ m \in DOMAIN books /\ books'[m] = insert(books[m], taker)
  <2>1. PICK book, orders, id, new : /\ book = books[m] /\ orders = book.orders
                                     /\ id = taker.order_id /\ new = books'[m].orders
    OBVIOUS
  <2>2. stage = "recording" /\ InProcessOrder
    BY <1>3 DEF FinishOrder, InProcessOrder
  <2>3. /\ taker \in Orders /\ taker.filled_size_lots <= taker.signed.size_lots
        /\ BookFits(book, m) /\ QueuesSound(book)
        /\ taker.signed.side \in Sides /\ taker.signed.price_ticks \in Nat
    BY <1>3, <2>1, <2>2, InProcess
  <2>4. /\ DOMAIN new = DOMAIN orders \cup {id} /\ new[id] = taker
        /\ \A k \in DOMAIN orders : k # id => new[k] = orders[k]
    BY <1>3, <2>1 DEF insert, put
  <2>5. Unmatched(book, taker)
    BY <1>3, <2>1, <2>2 DEF QueueInv, LoopSound
  <2>6. Uncrossed(orders, exempt)
    BY <1>3, <2>1 DEF BooksUncrossed
  <2>7. ASSUME NEW k \in DOMAIN orders, ~is_closed(orders[k]),
               orders[k].signed.side = Opposite(taker.signed.side)
        PROVE  ~Reaches(taker, orders[k].signed.price_ticks) /\ orders[k].signed.price_ticks \in Nat
    <3>1. Holds(book.queues[orders[k].signed.side], orders[k].signed.price_ticks, k)
      BY <2>1, <2>3, <2>7 DEF QueuesSound
    <3>2. orders[k] \in Orders
      BY <2>1, <2>3 DEF BookFits, IsBook, IsMap
    <3>3. orders[k].signed.price_ticks \in Nat
      BY <3>2, SignedOrderType DEF Orders
    <3> QED BY <1>3, <2>5, <2>7, <3>1, <3>3 DEF Unmatched, Holds
  <2>8. ASSUME NEW x \in DOMAIN new, NEW y \in DOMAIN new,
               ~is_closed(new[x]), new[x].signed.side = "buy", x \notin exempt,
               ~is_closed(new[y]), new[y].signed.side = "sell", y \notin exempt
        PROVE  new[x].signed.price_ticks < new[y].signed.price_ticks
    <3>1. CASE x # id /\ y # id
      BY <2>4, <2>6, <2>8, <3>1 DEF Uncrossed
    <3>2. CASE x = id /\ y # id
      <4>1. y \in DOMAIN orders /\ new[y] = orders[y] /\ new[x] = taker
            /\ Opposite(taker.signed.side) = "sell"
        BY <2>4, <2>8, <3>2 DEF Opposite
      <4>2. ~(orders[y].signed.price_ticks <= taker.signed.price_ticks)
            /\ orders[y].signed.price_ticks \in Nat
        BY <2>7, <2>8, <4>1 DEF Reaches, crosses
      <4> QED BY <2>3, <4>1, <4>2
    <3>3. CASE x # id /\ y = id
      <4>1. x \in DOMAIN orders /\ new[x] = orders[x] /\ new[y] = taker
            /\ Opposite(taker.signed.side) = "buy" /\ taker.signed.side = "sell"
        BY <2>4, <2>8, <3>3 DEF Opposite
      <4>2. ~(orders[x].signed.price_ticks >= taker.signed.price_ticks)
            /\ orders[x].signed.price_ticks \in Nat
        BY <2>7, <2>8, <4>1 DEF Reaches, crosses
      <4> QED BY <2>3, <4>1, <4>2
    <3>4. CASE x = id /\ y = id
      BY <2>8, <3>4
    <3> QED BY <3>1, <3>2, <3>3, <3>4
  <2>9. Uncrossed(new, exempt)
    BY <2>8 DEF Uncrossed
  <2> QED BY <2>1, <2>9
<1> QED BY <1>1, <1>2, <1>3, BookOpens

(* A level of a sound book holds an open order, so no bid level of an      *)
(* uncrossed book reaches an ask level of it.                              *)
LEMMA LevelsApart ==
  ASSUME NEW market_id, NEW book, BookFits(book, market_id), QueuesSound(book),
         NEW exempt, Uncrossed(book.orders, exempt),
         NEW b \in DOMAIN book.queues["buy"], NEW a \in DOMAIN book.queues["sell"],
         NEW i \in DOMAIN book.queues["buy"][b], book.queues["buy"][b][i] \notin exempt,
         NEW j \in DOMAIN book.queues["sell"][a], book.queues["sell"][a][j] \notin exempt
  PROVE  b < a
<1>1. PICK x, y : x = book.queues["buy"][b][i] /\ y = book.queues["sell"][a][j]
  OBVIOUS
<1>2. /\ x \in DOMAIN book.orders /\ RestsAt(book.orders[x], "buy", b)
      /\ y \in DOMAIN book.orders /\ RestsAt(book.orders[y], "sell", a)
  <2>1. /\ QueueSound(book.orders, "buy", b, book.queues["buy"][b])
        /\ QueueSound(book.orders, "sell", a, book.queues["sell"][a])
    BY DEF QueuesSound, Sides
  <2> QED BY <1>1, <2>1 DEF QueueSound
<1> QED BY <1>1, <1>2 DEF Uncrossed, RestsAt

(* In every reachable state no open bid of a book reaches an open ask.     *)
THEOREM SpecBooksUncrossed == Spec => []BooksUncrossed({})
<1>1. Init => BooksUncrossed({})
  BY DEF Init, BooksUncrossed, Uncrossed, new_book
<1>2. EngineInv /\ QueueInv /\ [Next]_vars /\ BooksUncrossed({}) => BooksUncrossed({})'
  BY UncrossedStep
<1> QED BY <1>1, <1>2, SpecEngineInv, SpecQueueInv, PTL DEF Spec

(* No bid of a book ever reaches an ask of it, inside a call as between    *)
(* calls: whatever could trade has traded before it rests.                 *)
THEOREM SpecBookNotCrossed == Spec => []BookNotCrossed
<1>1. ASSUME EngineInv, QueueInv, BooksUncrossed({}) PROVE BookNotCrossed
  <2> SUFFICES ASSUME NEW m \in DOMAIN books, NEW b \in DOMAIN books[m].queues["buy"],
                      NEW a \in DOMAIN books[m].queues["sell"]
               PROVE  b < a
    BY DEF BookNotCrossed
  <2>1. PICK book : book = books[m]
    OBVIOUS
  <2>2. BookFits(book, m) /\ QueuesSound(book) /\ Uncrossed(book.orders, {})
    BY <1>1, <2>1 DEF EngineInv, BooksFit, QueueInv, BooksSound, BooksUncrossed
  <2>3. PICK bids, asks : bids = book.queues["buy"] /\ asks = book.queues["sell"]
    OBVIOUS
  <2>4. /\ bids[b] \in Seq(OrderIds) /\ bids[b] # << >>
        /\ asks[a] \in Seq(OrderIds) /\ asks[a] # << >>
    BY <2>1, <2>2, <2>3, LevelOfBook DEF Sides
  <2>5. 1 \in DOMAIN bids[b] /\ 1 \in DOMAIN asks[a]
    BY <2>4, EmptySeq, LenProperties
  <2>6. /\ b \in DOMAIN book.queues["buy"] /\ a \in DOMAIN book.queues["sell"]
        /\ 1 \in DOMAIN book.queues["buy"][b] /\ 1 \in DOMAIN book.queues["sell"][a]
    BY <2>1, <2>3, <2>5
  <2>7. book.queues["buy"][b][1] \notin {} /\ book.queues["sell"][a][1] \notin {}
    OBVIOUS
  <2> QED BY ONLY <2>2, <2>6, <2>7, LevelsApart
<1> QED BY <1>1, SpecEngineInv, SpecQueueInv, SpecBooksUncrossed, PTL

-----------------------------------------------------------------------------
(* Price-time priority *)

(* The head of the copy outranks every other order the taker could trade   *)
(* with: those behind it in its queue came later, the others stand at a    *)
(* level still ahead, which is worse.                                      *)
LEMMA HeadFirstInLine ==
  ASSUME EngineInv, QueueInv, MatchMaker, NEW id, id = Head(maker_ids)
  PROVE  /\ FirstInLine(id)
         /\ find_order(id) = books[taker.signed.market_id].orders[id]
<1> DEFINE market_id == taker.signed.market_id
           book == books[market_id]
           side == Opposite(taker.signed.side)
           orders == book.orders
           levels == book.queues[side]
<1>1. /\ Wants(taker) /\ maker_ids # << >> /\ InProcessOrder
      /\ WalkSound(book, taker, prices, price, maker_ids)
      /\ BookFits(book, market_id) /\ QueuesSound(book) /\ side \in Sides
      /\ market_id \in DOMAIN books /\ id \in DOMAIN orders
  BY MatchMakerMeets
<1>2. /\ maker_ids \in Seq(OrderIds) /\ QueueSound(orders, side, price, maker_ids)
      /\ price \in DOMAIN levels /\ levels[price] = maker_ids
      /\ 1 \in DOMAIN maker_ids /\ id = maker_ids[1] /\ RestsAt(orders[id], side, price)
  <2>1. levels = book.queues[side] /\ side = Opposite(taker.signed.side)
    OBVIOUS
  <2> HIDE DEF book, market_id, side, levels
  <2> QED BY <1>1, <2>1, HeadOfWalk
<1>3. \A p \in DOMAIN levels : Reaches(taker, p) => p = price \/ (p \in prices /\ Better(side, price, p))
  BY <1>1 DEF WalkSound
<1>4. id \in Tradable
  <2>1. Reaches(taker, price)
    BY <1>1, <1>2 DEF WalkSound
  <2> QED BY <1>1, <1>2, <2>1 DEF Tradable, RestsAt, Reaches
<1>5. ASSUME NEW other \in Tradable, other # id
      PROVE  OutRanks(orders[id], orders[other])
  <2> DEFINE q == orders[other].signed.price_ticks
  <2>1. /\ other \in DOMAIN orders /\ ~is_closed(orders[other])
        /\ orders[other].signed.side = side /\ Reaches(taker, q)
    BY <1>5 DEF Tradable, Reaches
  <2>2. q \in DOMAIN levels /\ \E j \in DOMAIN levels[q] : levels[q][j] = other
    BY <1>1, <2>1 DEF QueuesSound, Holds
  <2>3. orders[id].signed.price_ticks = price /\ orders[id].signed.side = side
    BY <1>2 DEF RestsAt
  <2> HIDE DEF q, levels, book, side, market_id
  <2>4. CASE q = price
    <3>1. PICK j \in DOMAIN maker_ids : maker_ids[j] = other
      BY <1>2, <2>2, <2>4
    <3>2. DOMAIN maker_ids = 1..Len(maker_ids) /\ Len(maker_ids) \in Nat
      BY <1>2, LenProperties
    <3>3. PICK k \in DOMAIN maker_ids : k = 1
      BY <1>2
    <3>4. k < j /\ maker_ids[k] = id
      BY <1>2, <1>5, <3>1, <3>2, <3>3
    <3>5. orders[maker_ids[k]].created_sequence < orders[maker_ids[j]].created_sequence
      BY <1>2, <3>4 DEF QueueSound
    <3>6. orders[id].created_sequence < orders[other].created_sequence
      BY <3>1, <3>4, <3>5
    <3> QED BY <2>3, <2>4, <3>6 DEF OutRanks, q
  <2>5. CASE q # price
    <3>1. Better(side, price, q)
      BY <1>3, <2>1, <2>2, <2>5
    <3> QED BY <2>3, <2>5, <3>1 DEF OutRanks, Better, q
  <2> QED BY <2>4, <2>5
<1>6. find_order(id) = orders[id]
  <2>1. id \in DOMAIN order_market_index /\ order_market_index[id] = market_id
    BY <1>1 DEF QueueInv, IdsFresh, BookIdsFresh
  <2> QED BY <1>1, <2>1 DEF find_order
<1> QED BY <1>4, <1>5, <1>6 DEF FirstInLine

(* Every turn of the loop trades with the first order in line, of another  *)
(* trader, at that order's price, for as much as both have, or cancels the *)
(* taker when the first in line is its own trader's.                       *)
THEOREM SpecPriceTimePriority == Spec => PriceTimePriority
<1> DEFINE Turn ==
      \/ /\ taker'.status = "cancelled_stp"
         /\ books' = books /\ fills' = fills
         /\ \E id \in Tradable :
              /\ FirstInLine(id)
              /\ find_order(id).signed.trader_id = taker.signed.trader_id
      \/ LET fill == fills'[Len(fills')]
             maker == find_order(fill.maker_order_id)
         IN /\ Len(fills') = Len(fills) + 1
            /\ FirstInLine(maker.order_id)
            /\ maker.signed.trader_id # taker.signed.trader_id
            /\ fill.price_ticks = maker.signed.price_ticks
            /\ fill.size_lots > 0
            /\ \/ fill.size_lots = remaining_size_lots(maker)
               \/ remaining_size_lots(taker') = 0
<1>1. ASSUME EngineInv, QueueInv, MatchMaker
      PROVE  Turn
  <2> DEFINE id == Head(maker_ids)
             maker == books[taker.signed.market_id].orders[id]
             side == Opposite(taker.signed.side)
  <2>1. /\ Wants(taker) /\ RestsAt(maker, side, price) /\ InProcessOrder
        /\ maker \in Orders /\ maker.order_id = id
        /\ maker.filled_size_lots <= maker.signed.size_lots
        /\ remaining_size_lots(maker) > 0
        /\ \/ self_trade(maker) /\ StpCancelTaker(maker)
           \/ ~self_trade(maker) /\ FillMaker(maker)
    BY <1>1, MatchMakerMeets
  <2>2. FirstInLine(id) /\ find_order(id) = maker
    BY <1>1, HeadFirstInLine
  <2>3. taker \in Orders /\ taker.filled_size_lots <= taker.signed.size_lots
    BY <1>1, <2>1 DEF EngineInv, CallFits
  <2> HIDE DEF maker, id
  <2>4. CASE self_trade(maker) /\ StpCancelTaker(maker)
    <3>1. taker'.status = "cancelled_stp" /\ books' = books /\ fills' = fills
      BY <2>3, <2>4 DEF StpCancelTaker, Orders
    <3>2. id \in Tradable /\ find_order(id).signed.trader_id = taker.signed.trader_id
      BY <2>2, <2>4 DEF FirstInLine, self_trade
    <3> QED BY <2>2, <3>1, <3>2
  <2>5. CASE ~self_trade(maker) /\ FillMaker(maker)
    <3> DEFINE qty == fill_qty(maker)
               fill == NewFill(maker, qty)
    <3>1. fills' = Append(fills, fill) /\ taker' = after_fill(taker, qty, taker.created_sequence)
      BY <2>5 DEF FillMaker
    <3>2. /\ qty \in Nat /\ qty > 0
          /\ qty = remaining_size_lots(maker) \/ remaining_size_lots(taker') = 0
      BY <2>1, <2>3, <3>1, FillMakerParts DEF Wants
    <3>3. fills \in Seq(Fills)
      BY <1>1 DEF EngineInv, TypeOK, CallTypes
    <3>4. Len(fills') = Len(fills) + 1 /\ fills'[Len(fills')] = fill
      <4> HIDE DEF fill
      <4> QED BY <3>1, <3>3, AppendProperties
    <3>5. fill.maker_order_id = id /\ fill.price_ticks = price /\ fill.size_lots = qty
      BY <2>1 DEF NewFill
    <3>6. price = maker.signed.price_ticks /\ maker.signed.trader_id # taker.signed.trader_id
      BY <2>1, <2>5 DEF RestsAt, self_trade
    <3> HIDE DEF fill, qty
    <3> QED BY <2>1, <2>2, <3>2, <3>4, <3>5, <3>6
  <2> QED BY <2>1, <2>4, <2>5
<1>2. ASSUME EngineInv, QueueInv, [Next]_vars, stage = "matching", taker' # taker
      PROVE  Turn
  <2> HIDE DEF Turn
  <2>1. MatchMaker
    BY <1>2 DEF Next, Call, Continue, ProcessOrder, ProcessCancel, CancelByClientId,
       PauseMarket, ResumeMarket, SetStatus, CancelAllOrders, NextLevel, EndMatch, RecordFill,
       FinishOrder, CancelNext, vars, matching_vars
  <2> QED BY <1>1, <1>2, <2>1
<1>3. EngineInv /\ QueueInv /\ [Next]_vars => [stage = "matching" /\ taker' # taker => Turn]_vars
  BY <1>2
<1>4. Spec => [][stage = "matching" /\ taker' # taker => Turn]_vars
  <2> HIDE DEF Turn
  <2> QED BY <1>3, SpecEngineInv, SpecQueueInv, PTL DEF Spec
<1> QED BY <1>4 DEF PriceTimePriority
=============================================================================
