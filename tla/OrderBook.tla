----------------------------- MODULE OrderBook ------------------------------
(***************************************************************************)
(* src/engine/orderbook.rs: one market's book.                             *)
(*                                                                         *)
(* book.queues["buy"] and book.queues["sell"] are the BTreeMaps bids and   *)
(* asks: functions from the price levels PRESENT to their queue of order   *)
(* ids, oldest first, so that a level left behind empty is a state of the  *)
(* model.  book.orders maps every order ever inserted to its state: filled *)
(* and cancelled orders stay there, out of the queues.                     *)
(***************************************************************************)
EXTENDS Domain, FiniteSets, SequencesExt

\* A HashMap or BTreeMap with keys in D and values in R.
IsMap(map, D, R) ==
  /\ map = [k \in DOMAIN map |-> map[k]]
  /\ DOMAIN map \subseteq D
  /\ \A k \in DOMAIN map : map[k] \in R

IsBook(book) ==
  /\ book = [queues |-> book.queues, orders |-> book.orders]
  /\ book.queues = [side \in Sides |-> book.queues[side]]
  /\ \A side \in Sides : IsMap(book.queues[side], Nat, Seq(OrderIds))
  /\ IsMap(book.orders, OrderIds, Orders)

NoLevels == [p \in {} |-> << >>]

new_book ==
  [ queues |-> [side \in Sides |-> NoLevels],
    orders |-> [id \in {} |-> NoOrder] ]

\* sort_by_key, and a BTreeMap from its first key on: the elements of a set in
\* the order of their keys, no two alike.
InOrder(S, key) ==
  [ k \in 1..Cardinality(S) |->
      CHOOSE x \in S : Cardinality({y \in S : key[y] <= key[x]}) = k ]

\* sum()
Total(amounts) == FoldLeft(+, 0, amounts)

-----------------------------------------------------------------------------
(* Queues of one side *)

\* entry(price).or_default().push_back(id)
push_back(levels, price, id) ==
  [ p \in DOMAIN levels \cup {price} |->
      IF p # price THEN levels[p]
      ELSE IF price \in DOMAIN levels THEN Append(levels[price], id) ELSE <<id>> ]

\* retain(|oid| oid != id), for a queue that holds id at most once.
retain_others(queue, id) ==
  IF \E i \in DOMAIN queue : queue[i] = id
  THEN RemoveAt(queue, CHOOSE i \in DOMAIN queue : queue[i] = id)
  ELSE queue

\* Faulty: an emptied price level is left behind.
take_off_keeping_level(levels, price, id) ==
  IF price \in DOMAIN levels
  THEN [levels EXCEPT ![price] = retain_others(@, id)]
  ELSE levels

\* Drop id from its price level, and the level with its last order.
take_off(levels, price, id) ==
  LET queue == retain_others(levels[price], id) IN
  IF price \notin DOMAIN levels THEN levels
  ELSE IF queue = << >> THEN [p \in DOMAIN levels \ {price} |-> levels[p]]
  ELSE [levels EXCEPT ![price] = queue]

\* Set one entry of a HashMap, adding the key when it is new.
put(map, key, value) ==
  [k \in DOMAIN map \cup {key} |-> IF k = key THEN value ELSE map[k]]

-----------------------------------------------------------------------------
(* Writes *)

insert(book, order) ==
  [ queues |-> [book.queues EXCEPT
                  ![order.signed.side] = push_back(@, order.signed.price_ticks, order.order_id)],
    orders |-> put(book.orders, order.order_id, order) ]

remove_from_queue(book, id) ==
  LET signed == book.orders[id].signed IN
  [book EXCEPT !.queues[signed.side] = take_off(@, signed.price_ticks, id)]

\* An order cancelled twice, or unknown, is left as it is.
cancel_with_status(book, id, status) ==
  IF id \notin DOMAIN book.orders \/ is_closed(book.orders[id]) THEN book
  ELSE remove_from_queue([book EXCEPT !.orders[id].status = status], id)

cancel(book, id) == cancel_with_status(book, id, "cancelled")

-----------------------------------------------------------------------------
(* Reads *)

\* Faulty: the levels are walked from the wrong end.
best_of_worst(side, prices) ==
  CHOOSE p \in prices :
    \A q \in prices : IF side = "buy" THEN p <= q ELSE p >= q

\* The price a taker on the other side is served at first, of a set of prices.
best_of(side, prices) ==
  CHOOSE p \in prices :
    \A q \in prices : IF side = "buy" THEN p >= q ELSE p <= q

best_bid(book) == best_of("buy", DOMAIN book.queues["buy"])

best_ask(book) == best_of("sell", DOMAIN book.queues["sell"])

orders_at_price(book, price, side) ==
  IF price \in DOMAIN book.queues[side] THEN book.queues[side][price] ELSE << >>
=============================================================================
