----------------------------- MODULE ClientProofs -----------------------------
(***************************************************************************)
(* What clients are told, for every set of signed orders, traders and      *)
(* markets: the answer to a resubmission names the order that its client   *)
(* order id was accepted as, the answer to a cancellation follows from the *)
(* log, no page of trades skips one and the depth is that of the log.  And *)
(* the engine they see through these answers is Exchange.                  *)
(***************************************************************************)
EXTENDS RestProperties, LogProofs, EngineRefinement

-----------------------------------------------------------------------------
(* Resubmissions *)

KeyOf(signed) == <<signed.trader_id, signed.client_order_id>>

\* What process_order checked of an accepted order and nothing can change.
ValidForGood(signed) ==
  /\ signed.schema_version = CURRENT_SCHEMA_VERSION
  /\ signed.market_id # "" /\ signed.trader_id # "" /\ signed.client_order_id # ""
  /\ signed.price_ticks # 0 /\ signed.size_lots # 0
  /\ verify_signature(signed)
  /\ signed.trader_id = hex_encode(signed.trader_pubkey)
  /\ signed.market_id \in Markets
  /\ validate_price(signed.market_id, signed.price_ticks)
  /\ validate_size(signed.market_id, signed.size_lots)

\* The idempotency table has the acceptance at position i under its key.
KeyRecorded(i) ==
  LET key == KeyOf(OrderAt(i).signed) IN
  /\ key \in DOMAIN idempotency
  /\ idempotency[key] = [ original_seq_id |-> log[i].seq_id, order_id |-> OrderAt(i).order_id,
                          order_hash |-> OrderAt(i).order_hash ]

RetryInv == \A i \in Accepted : ValidForGood(OrderAt(i).signed) /\ KeyRecorded(i)

(* An acceptance enters the table under a key that was not in it.          *)
LEMMA ProcessOrderRetry ==
  ASSUME EngineInv, RetryInv, NEW signed \in SignedOrders, NEW now_ms,
         ProcessOrder(signed, now_ms)
  PROVE  RetryInv'
<1>1. PICK order \in Orders :
        /\ order.signed = signed /\ order.created_sequence = next_seq_id
        /\ [type |-> "order_accepted", order |-> order] \in Events
        /\ append_event([type |-> "order_accepted", order |-> order])
        /\ register_accepted(order)
        /\ ~IsDuplicate(signed)
  BY AcceptanceStep
<1>2. PICK last : last = Len(log) + 1
  OBVIOUS
<1>3. /\ Accepted' = Accepted \cup {last}
      /\ log'[last].event.order = order /\ log'[last].seq_id = next_seq_id
      /\ \A i \in Accepted : log'[i] = log[i]
  BY <1>1, <1>2, AcceptedAppended
<1>4. PICK key, record :
        /\ key = KeyOf(signed)
        /\ record = [ original_seq_id |-> next_seq_id, order_id |-> order.order_id,
                      order_hash |-> order.order_hash ]
  OBVIOUS
<1>5. idempotency' = put(idempotency, key, record) /\ key \notin DOMAIN idempotency
  BY <1>1, <1>4 DEF register_accepted, IsDuplicate, KeyOf
<1>6. /\ DOMAIN idempotency' = DOMAIN idempotency \cup {key}
      /\ idempotency'[key] = record
      /\ \A k \in DOMAIN idempotency : idempotency'[k] = idempotency[k]
  BY <1>5 DEF put
<1>7. ValidForGood(signed)
  BY DEF ProcessOrder, Validated, validate_fields, ValidForGood, EngineInv, TypeOK, EngineTypes
<1>8. ASSUME NEW i \in Accepted
      PROVE  (ValidForGood(OrderAt(i).signed) /\ KeyRecorded(i))'
  BY <1>3, <1>6 DEF RetryInv, KeyRecorded, OrderAt
<1>9. (ValidForGood(OrderAt(last).signed) /\ KeyRecorded(last))'
  BY <1>1, <1>3, <1>4, <1>6, <1>7 DEF KeyRecorded, OrderAt
<1> QED BY <1>3, <1>8, <1>9 DEF RetryInv

(* Every acceptance is in the table under its key, and passed the checks   *)
(* that do not depend on the moment.                                       *)
THEOREM SpecRetryInv == Spec => []RetryInv
<1>1. Init => RetryInv
  BY DEF Init, RetryInv, Accepted
<1>2. ASSUME EngineInv, RetryInv, [Next]_vars PROVE RetryInv'
  <2>1. CASE NoAcceptance
    <3>1. Accepted' = Accepted /\ (\A i \in Accepted : log'[i] = log[i])
          /\ idempotency' = idempotency
      BY <1>2, <2>1, AcceptedKept DEF NoAcceptance
    <3> QED BY <1>2, <3>1 DEF RetryInv, KeyRecorded, OrderAt
  <2> QED BY <1>2, <2>1, StepInv, ProcessOrderRetry
<1>3. EngineInv /\ RetryInv /\ [Next]_vars => RetryInv'
  BY <1>2
<1> QED BY <1>1, <1>3, SpecEngineInv, PTL DEF Spec

(* The first check that fails is one of those that fail.                   *)
LEMMA FirstFailure ==
  ASSUME NEW S, S \subseteq {5, 9}, S # {}
  PROVE  Min(S) \in S
<1>1. S \subseteq Nat
  OBVIOUS
<1>2. \E x \in S : \A y \in S : x <= y
  BY <1>1, LeastNatural
<1> QED BY <1>2, Zenon DEF Min

(* An order that was accepted fails no check for good: resubmitted it is   *)
(* refused only for its expiry or its market's pause.                      *)
LEMMA AcceptedFails ==
  ASSUME EngineInv, NEW signed, ValidForGood(signed), NEW now_ms
  PROVE  /\ Failed(signed, now_ms) \subseteq {5, 9}
         /\ Checks(signed, now_ms)[5][2] = "ORDER_EXPIRED"
         /\ Checks(signed, now_ms)[9][2] = "MARKET_HALTED"
<1>1. /\ signed.market_id \in DOMAIN markets
  BY DEF ValidForGood, EngineInv, TypeOK, EngineTypes
<1>2. PICK checks : checks = Checks(signed, now_ms)
  OBVIOUS
<1>3. checks[5][2] = "ORDER_EXPIRED" /\ checks[9][2] = "MARKET_HALTED"
  BY <1>2 DEF Checks
<1>6. DOMAIN checks = 1..11
  <2>1. DOMAIN Checks(signed, now_ms) = 1..11
    BY SMTT(60) DEF Checks
  <2> QED BY <1>2, <2>1
<1>4. /\ checks[1][1] /\ checks[2][1] /\ checks[3][1] /\ checks[4][1]
      /\ checks[6][1] /\ checks[7][1] /\ checks[8][1] /\ checks[10][1] /\ checks[11][1]
  BY <1>1, <1>2 DEF Checks, ValidForGood
<1>5. ASSUME NEW k \in 1..11, k \notin {5, 9} PROVE checks[k][1]
  <2>1. k \in {1, 2, 3, 4, 6, 7, 8, 10, 11}
    BY <1>5
  <2> QED BY <1>4, <2>1
<1> QED BY <1>2, <1>3, <1>5, <1>6 DEF Failed

(* A resubmission is told the order that its client order id was accepted  *)
(* as, whatever nonces its trader has used since, and an unchanged one is  *)
(* refused only by the risk checker, for its expiry or its market's pause. *)
THEOREM SpecRetryAnswered == Spec => []RetryAnswered
<1>1. ASSUME EngineInv, RetryInv PROVE RetryAnswered
  <2> SUFFICES ASSUME NEW i \in Accepted, NEW signed \in SignedOrders, NEW now_ms \in Times,
                      NEW verdict \in RiskRefusals \cup {"passed"},
                      signed.trader_id = OrderAt(i).signed.trader_id,
                      signed.client_order_id = OrderAt(i).signed.client_order_id
               PROVE  LET original == OrderAt(i)
                          answer == post_order(signed, now_ms, verdict)
                      IN \/ verdict # "passed" /\ answer.code = verdict
                         \/ /\ Failed(signed, now_ms) # {}
                            /\ signed = original.signed
                                 => answer.code \in {"ORDER_EXPIRED", "MARKET_HALTED"}
                         \/ /\ answer.code = "OK"
                            /\ answer.order_id = original.order_id
                            /\ answer.order_hash = original.order_hash
                            /\ answer.seq_id = log[i].seq_id
    BY DEF RetryAnswered
  <2>0. CASE verdict # "passed"
    <3>1. verdict \in RiskRefusals
      BY <2>0
    <3>2. post_order(signed, now_ms, verdict).code = verdict
      BY <3>1 DEF post_order
    <3> QED BY <2>0, <3>2
  <2>1. CASE verdict = "passed" /\ Failed(signed, now_ms) # {}
    <3>0. verdict \notin RiskRefusals
      BY <2>1 DEF RiskRefusals
    <3>1. ASSUME signed = OrderAt(i).signed
          PROVE  post_order(signed, now_ms, verdict).code \in {"ORDER_EXPIRED", "MARKET_HALTED"}
      <4>1. PICK failed, checks : failed = Failed(signed, now_ms) /\ checks = Checks(signed, now_ms)
        OBVIOUS
      <4>2. ValidForGood(signed)
        BY <1>1, <3>1 DEF RetryInv
      <4>3. /\ failed \subseteq {5, 9} /\ failed # {}
            /\ checks[5][2] = "ORDER_EXPIRED" /\ checks[9][2] = "MARKET_HALTED"
        BY <1>1, <2>1, <4>1, <4>2, AcceptedFails
      <4>4. Min(failed) \in {5, 9}
        BY <4>3, FirstFailure
      <4>5. post_order(signed, now_ms, verdict).code = checks[Min(failed)][2]
        BY <2>1, <3>0, <4>1 DEF post_order
      <4> QED BY <4>3, <4>4, <4>5
    <3> QED BY <2>1, <3>1
  <2>2. CASE verdict = "passed" /\ Failed(signed, now_ms) = {}
    <3>0. verdict \notin RiskRefusals
      BY <2>2 DEF RiskRefusals
    <3>1. KeyRecorded(i) /\ KeyOf(OrderAt(i).signed) = KeyOf(signed)
      BY <1>1 DEF RetryInv, KeyOf
    <3>2. IsDuplicate(signed) /\ post_order(signed, now_ms, verdict) = Duplicate(signed)
      BY <2>2, <3>0, <3>1 DEF IsDuplicate, post_order, KeyRecorded, KeyOf
    <3>3. idempotency[<<signed.trader_id, signed.client_order_id>>]
            = [ original_seq_id |-> log[i].seq_id, order_id |-> OrderAt(i).order_id,
                order_hash |-> OrderAt(i).order_hash ]
      BY <3>1 DEF KeyRecorded, KeyOf
    <3>4. /\ Duplicate(signed).code = "OK"
          /\ Duplicate(signed).order_id = OrderAt(i).order_id
          /\ Duplicate(signed).order_hash = OrderAt(i).order_hash
          /\ Duplicate(signed).seq_id = log[i].seq_id
      BY <3>3 DEF Duplicate
    <3> QED BY <3>2, <3>4
  <2> QED BY <2>0, <2>1, <2>2
<1> QED BY <1>1, SpecEngineInv, SpecRetryInv, PTL

-----------------------------------------------------------------------------
(* Lots taken on entry *)

EntryTaken(entry, id) == IF entry.event.type = "fill" THEN Taken(entry.event.fill, id) ELSE 0

LogTakes(entries, id) == [i \in DOMAIN entries |-> EntryTaken(entries[i], id)]

(* An event or a fill takes a natural number of lots.                      *)
LEMMA TakesType ==
  ASSUME NEW id
  PROVE  /\ \A fill \in Fills : Taken(fill, id) \in Nat
         /\ \A entry \in SequencedEvents : EntryTaken(entry, id) \in Nat
<1>1. \A fill \in Fills : Taken(fill, id) \in Nat
  BY DEF Taken, Fills
<1>2. ASSUME NEW entry \in SequencedEvents, entry.event.type = "fill"
      PROVE  entry.event.fill \in Fills
  BY <1>2 DEF SequencedEvents, Events
<1> QED BY <1>1, <1>2 DEF EntryTaken

(* The amounts of a log.                                                   *)
LEMMA LogTakesType ==
  ASSUME NEW entries \in Seq(SequencedEvents), NEW id
  PROVE  /\ LogTakes(entries, id) \in Seq(Nat)
         /\ Len(LogTakes(entries, id)) = Len(entries)
         /\ \A i \in 1..Len(entries) : LogTakes(entries, id)[i] = EntryTaken(entries[i], id)
<1>1. DOMAIN entries = 1..Len(entries) /\ Len(entries) \in Nat
  BY LenProperties
<1>2. \A i \in 1..Len(entries) : EntryTaken(entries[i], id) \in Nat
  BY TakesType, ElementOfSeq
<1> QED BY <1>1, <1>2 DEF LogTakes

(* A new event takes what it says.                                         *)
LEMMA LogTakenAfter ==
  ASSUME SequencerTypes, NEW event \in Events, append_event(event), NEW id
  PROVE  /\ LogTaken(id) \in Nat
         /\ LogTaken(id)' = LogTaken(id) + (IF event.type = "fill" THEN Taken(event.fill, id) ELSE 0)
<1>1. PICK entry, entries : entry = [seq_id |-> next_seq_id, event |-> event] /\ entries = log
  OBVIOUS
<1>2. /\ entry \in SequencedEvents /\ entry.event = event /\ log' = Append(entries, entry)
      /\ entries \in Seq(SequencedEvents)
  BY <1>1 DEF SequencerTypes, SequencedEvents, append_event
<1> DEFINE longer == Append(entries, entry)
           n == Len(entries)
<1>3. /\ longer \in Seq(SequencedEvents) /\ Len(longer) = n + 1 /\ n \in Nat
      /\ longer[n + 1] = entry /\ \A i \in 1..n : longer[i] = entries[i]
  BY <1>2, AppendProperties, LenProperties
<1>4. longer = log'
  BY <1>2
<1> HIDE DEF longer
<1>5. PICK takes, more, taken : /\ takes = LogTakes(entries, id)
                                /\ more = LogTakes(longer, id) /\ taken = EntryTaken(entry, id)
  OBVIOUS
<1>6. /\ takes \in Seq(Nat) /\ Len(takes) = n
      /\ \A i \in 1..n : takes[i] = EntryTaken(entries[i], id)
  BY <1>2, <1>5, LogTakesType
<1>7. /\ more \in Seq(Nat) /\ Len(more) = n + 1
      /\ \A i \in 1..n + 1 : more[i] = EntryTaken(longer[i], id)
  BY <1>3, <1>5, LogTakesType
<1>8. taken \in Nat
  BY <1>2, <1>5, TakesType
<1> DEFINE want == Append(takes, taken)
<1>9. /\ want \in Seq(Nat) /\ Len(want) = n + 1
      /\ want[n + 1] = taken /\ \A i \in 1..n : want[i] = takes[i]
  BY <1>3, <1>6, <1>8, AppendProperties
<1> HIDE DEF want
<1>10. ASSUME NEW i \in 1..n + 1 PROVE more[i] = want[i]
  <2>1. i \in 1..n \/ i = n + 1
    BY <1>3
  <2> QED BY <1>3, <1>5, <1>6, <1>7, <1>9, <2>1
<1>11. more = want
  BY <1>3, <1>7, <1>9, <1>10, SeqEqual
<1>12. Total(more) = Total(takes) + taken /\ Total(takes) \in Nat
  BY <1>6, <1>8, <1>11, TotalOfAppend DEF want
<1>13. LogTaken(id) = Total(takes) /\ LogTaken(id)' = Total(more)
  BY <1>1, <1>4, <1>5 DEF LogTaken, LogTakes, EntryTaken
<1>14. taken = IF event.type = "fill" THEN Taken(event.fill, id) ELSE 0
  BY <1>2, <1>5 DEF EntryTaken
<1> QED BY <1>12, <1>13, <1>14

(* What the log says an order has taken is a number.                       *)
LEMMA LogTakenType ==
  ASSUME SequencerTypes, NEW id
  PROVE  LogTaken(id) \in Nat
<1>1. PICK takes : takes = LogTakes(log, id)
  OBVIOUS
<1>2. takes \in Seq(Nat) /\ 0 \in Nat
  BY <1>1, LogTakesType DEF SequencerTypes
<1>3. Total(takes) \in Nat
  BY <1>2, TotalOfAppend
<1> QED BY <1>1, <1>3 DEF LogTaken, LogTakes, EntryTaken

(* A step that logs no fill takes nothing.                                 *)
LEMMA NothingTaken ==
  ASSUME SequencerTypes, NoFillLogged, NEW id
  PROVE  LogTaken(id)' = LogTaken(id) /\ LogFilled(id)' = LogFilled(id)
<1>1. CASE UNCHANGED log
  BY <1>1 DEF LogTaken, LogFilled
<1>2. ASSUME NEW event \in Events, event.type # "fill", append_event(event)
      PROVE  LogTaken(id)' = LogTaken(id) /\ LogFilled(id)' = LogFilled(id)
  BY <1>2, LogTakenAfter, LogFilledAfter
<1> QED BY <1>1, <1>2 DEF NoFillLogged

-----------------------------------------------------------------------------
(* The invariant of the answers to cancellations *)

Anywhere(id) == \E m : OnBook(m, id)

Stopped(id) == CancelledFor(id, {"self_trade_prevention"})

\* An order that rested was not closed by its own submission.
Rested(order) == ~Stopped(order.order_id) /\ LogTaken(order.order_id) < order.signed.size_lots

\* What no book holds was a taker only, and cancelled by nobody.
NeverRested(id) ==
  LogTaken(id) = LogFilled(id) /\ ~CancelledFor(id, {"trader_request"})

EntryInv ==
  /\ \A m, id : OnBook(m, id) => Rested(OrderOn(m, id))
  /\ \A id : ~Anywhere(id) => NeverRested(id)
  /\ \A k \in DOMAIN fills : Anywhere(fills[k].maker_order_id)

(* The taker is on no book while it is in process.                         *)
LEMMA TakerOffBook ==
  ASSUME EngineInv, QueueInv, InProcessOrder
  PROVE  ~Anywhere(taker.order_id) /\ taker.order_id \in Nat
<1>1. taker.order_id \in Nat
  BY DEF EngineInv, CallFits, Orders, OrderIds
<1>2. ASSUME NEW m, OnBook(m, taker.order_id) PROVE taker.order_id < taker.order_id
  BY <1>2 DEF QueueInv, IdsFresh, BookIdsFresh, OnBook
<1> QED BY <1>1, <1>2 DEF Anywhere

(* What a new event makes of an order that was cancelled for one of some   *)
(* reasons.                                                                *)
LEMMA CancelledAfter ==
  ASSUME SequencerTypes, NEW event \in Events, append_event(event), NEW id, NEW reasons
  PROVE  CancelledFor(id, reasons)' <=>
           \/ CancelledFor(id, reasons)
           \/ /\ event.type = "order_cancelled" /\ event.reason \in reasons /\ event.order_id = id
<1>1. PICK last : last = Len(log) + 1
  OBVIOUS
<1>2. /\ log'[last] = [seq_id |-> next_seq_id, event |-> event]
      /\ DOMAIN log = 1..Len(log) /\ DOMAIN log' = 1..Len(log) + 1 /\ Len(log) \in Nat
      /\ \A i \in DOMAIN log : log'[i] = log[i]
  BY <1>1, AppendEventType
<1>3. log'[last].event = event /\ last \in DOMAIN log' /\ last \notin DOMAIN log
      /\ DOMAIN log' = DOMAIN log \cup {last}
  BY <1>1, <1>2
<1>4. \A i \in DOMAIN log : i \in CancelPositions' <=> i \in CancelPositions
  BY <1>2, <1>3 DEF CancelPositions
<1>5. last \in CancelPositions' <=> event.type = "order_cancelled"
  BY <1>3 DEF CancelPositions
<1>6. CancelledFor(id, reasons)' <=>
        \E i \in CancelPositions' : log'[i].event.order_id = id /\ log'[i].event.reason \in reasons
  BY DEF CancelledFor
<1>7. CancelledFor(id, reasons) <=>
        \E i \in CancelPositions : log[i].event.order_id = id /\ log[i].event.reason \in reasons
  BY DEF CancelledFor
<1>8. CancelPositions \subseteq DOMAIN log /\ CancelPositions' \subseteq DOMAIN log'
  BY DEF CancelPositions
<1> QED BY <1>2, <1>3, <1>4, <1>5, <1>6, <1>7, <1>8

(* The same of a cancellation.                                             *)
LEMMA CancelledByCancellation ==
  ASSUME SequencerTypes, NEW gone \in OrderIds, NEW hash \in Hashes, NEW reason \in CancelReasons,
         append_event(OrderCancelled(gone, hash, reason)), NEW id, NEW reasons
  PROVE  CancelledFor(id, reasons)' <=> CancelledFor(id, reasons) \/ (id = gone /\ reason \in reasons)
<1> DEFINE event == OrderCancelled(gone, hash, reason)
<1>1. /\ event \in Events /\ event.type = "order_cancelled"
      /\ event.order_id = gone /\ event.reason = reason
  BY DEF OrderCancelled, Events
<1> HIDE DEF event
<1>2. append_event(event)
  BY DEF event
<1> QED BY <1>1, <1>2, CancelledAfter

(* A step that ends no order for good leaves both reasons as they were.    *)
LEMMA NothingCancelled ==
  ASSUME SequencerTypes, NoEndLogged, NEW id
  PROVE  /\ Stopped(id)' <=> Stopped(id)
         /\ CancelledFor(id, {"trader_request"})' <=> CancelledFor(id, {"trader_request"})
<1>1. CASE UNCHANGED log
  BY <1>1 DEF Stopped, CancelledFor, CancelPositions
<1>2. ASSUME NEW event \in Events, append_event(event),
             ~(event.type = "order_cancelled" /\ event.reason \in EndReasons)
      PROVE  /\ Stopped(id)' <=> Stopped(id)
             /\ CancelledFor(id, {"trader_request"})' <=> CancelledFor(id, {"trader_request"})
  <2>1. \A reasons \in SUBSET EndReasons : CancelledFor(id, reasons)' <=> CancelledFor(id, reasons)
    BY <1>2, CancelledAfter
  <2>2. {"trader_request"} \in SUBSET EndReasons /\ {"self_trade_prevention"} \in SUBSET EndReasons
    BY DEF EndReasons
  <2> QED BY <2>1, <2>2 DEF Stopped
<1> QED BY <1>1, <1>2 DEF NoEndLogged

(* A step that logs no fill, puts no order on a book, and cancels for good *)
(* at most an order on a book.                                             *)
LEMMA EntryKept ==
  ASSUME EngineInv, EntryInv, NoFillLogged,
         \A m, id : /\ OnBook(m, id)' <=> OnBook(m, id)
                    /\ OnBook(m, id) => SameOrder(OrderOn(m, id)', OrderOn(m, id)),
         \A id : Stopped(id)' <=> Stopped(id),
         \A id : ~Anywhere(id) /\ CancelledFor(id, {"trader_request"})'
                   => CancelledFor(id, {"trader_request"}),
         \A k \in DOMAIN fills' : Anywhere(fills'[k].maker_order_id)
  PROVE  EntryInv'
<1>1. \A id : LogTaken(id)' = LogTaken(id) /\ LogFilled(id)' = LogFilled(id)
  BY NothingTaken DEF EngineInv, TypeOK
<1>2. \A id : Anywhere(id)' <=> Anywhere(id)
  BY DEF Anywhere
<1>3. ASSUME NEW m, NEW id, OnBook(m, id)' PROVE Rested(OrderOn(m, id))'
  <2>1. PICK before, after : before = OrderOn(m, id) /\ after = OrderOn(m, id)'
    OBVIOUS
  <2>2. Rested(before) /\ after.order_id = before.order_id /\ after.signed = before.signed
    BY <1>3, <2>1 DEF EntryInv, SameOrder
  <2> QED BY <1>1, <2>1, <2>2 DEF Rested
<1>4. ASSUME NEW id, ~Anywhere(id)' PROVE NeverRested(id)'
  BY <1>1, <1>2, <1>4 DEF EntryInv, NeverRested
<1>5. ASSUME NEW k \in DOMAIN fills' PROVE Anywhere(fills[k].maker_order_id)'
  BY <1>2
<1> QED BY <1>3, <1>4, <1>5 DEF EntryInv

(* A turn of the loop fills a maker that is on the taker's book.           *)
LEMMA MatchMakerEntry ==
  ASSUME EngineInv, QueueInv, EntryInv, MatchMaker
  PROVE  EntryInv'
<1> DEFINE market_id == taker.signed.market_id
           head == Head(maker_ids)
<1>1. PICK maker : maker = books[market_id].orders[head]
  OBVIOUS
<1>2. /\ market_id \in DOMAIN books /\ head \in DOMAIN books[market_id].orders
      /\ maker.order_id = head
      /\ StpCancelTaker(maker) \/ FillMaker(maker)
  BY <1>1, MatchMakerMeets
<1>3. UNCHANGED log /\ fills \in Seq(Fills)
  BY DEF MatchMaker, sequencer_vars, EngineInv, TypeOK, CallTypes
<1>4. NoFillLogged /\ NoEndLogged
  BY <1>3 DEF NoFillLogged, NoEndLogged
<1>5. ASSUME NEW m, NEW id
      PROVE  /\ OnBook(m, id)' <=> OnBook(m, id)
             /\ OnBook(m, id) => SameOrder(OrderOn(m, id)', OrderOn(m, id))
  <2>1. OnBook(m, id)' <=> OnBook(m, id)
    BY MatchMakerOrders
  <2>2. ASSUME OnBook(m, id) PROVE SameOrder(OrderOn(m, id)', OrderOn(m, id))
    <3>1. PICK order, after : order = OrderOn(m, id) /\ after = OrderOn(m, id)'
      OBVIOUS
    <3>2. order \in Orders
      BY <2>2, <3>1, OnBookOrder
    <3>3. \/ after = order
          \/ after = after_fill(order, fill_qty(order), taker.created_sequence)
      BY <2>2, <3>1, MatchMakerOrders
    <3>4. SameOrder(after, order)
      BY <3>2, <3>3 DEF after_fill, SameOrder, Orders
    <3> QED BY <3>1, <3>4
  <2> QED BY <2>1, <2>2
<1>6. Anywhere(head)
  BY <1>2 DEF Anywhere, OnBook
<1>7. ASSUME NEW k \in DOMAIN fills' PROVE Anywhere(fills'[k].maker_order_id)
  <2>1. CASE fills' = fills
    BY <2>1 DEF EntryInv
  <2>2. ASSUME NEW new, new.maker_order_id = head, fills' = Append(fills, new)
        PROVE  Anywhere(fills'[k].maker_order_id)
    <3>1. k \in 1..Len(fills) + 1 /\ DOMAIN fills = 1..Len(fills) /\ Len(fills) \in Nat
          /\ fills'[k] = IF k = Len(fills) + 1 THEN new ELSE fills[k]
      BY <1>3, <2>2
    <3>2. k = Len(fills) + 1 \/ k \in DOMAIN fills
      BY <3>1
    <3> QED BY <1>6, <2>2, <3>1, <3>2 DEF EntryInv
  <2>3. FillMaker(maker) => fills' = Append(fills, NewFill(maker, fill_qty(maker)))
                            /\ NewFill(maker, fill_qty(maker)).maker_order_id = head
    BY <1>2 DEF FillMaker, NewFill
  <2> QED BY <1>2, <2>1, <2>2, <2>3 DEF StpCancelTaker
<1> QED BY <1>4, <1>5, <1>7, EntryKept, NothingCancelled DEF EngineInv, TypeOK

(* A fill that is sequenced is one that its taker took, on no book yet, of *)
(* a maker on a book.                                                      *)
LEMMA RecordFillEntry ==
  ASSUME EngineInv, QueueInv, LogInv, EntryInv, RecordFill
  PROVE  EntryInv'
<1>1. PICK fill : fill = Head(fills)
  OBVIOUS
<1>2. /\ InProcessOrder /\ fills # << >> /\ fills' = Tail(fills)
      /\ append_event([type |-> "fill", fill |-> fill]) /\ UNCHANGED books
  BY <1>1 DEF RecordFill, InProcessOrder, engine_vars
<1>3. /\ fills \in Seq(Fills) /\ fill \in Fills /\ 1 \in DOMAIN fills /\ fill = fills[1]
  <2>1. fills \in Seq(Fills)
    BY DEF EngineInv, TypeOK, CallTypes
  <2> QED BY <1>1, <1>2, <2>1, HeadTailProperties, EmptySeq, LenProperties, ElementOfSeq
<1>4. fill.taker_order_id = taker.order_id /\ Anywhere(fill.maker_order_id)
  BY <1>2, <1>3 DEF LogInv, CallRecorded, PendingSound, EntryInv
<1>5. ~Anywhere(taker.order_id)
  BY <1>2, TakerOffBook
<1>6. \A m, id : (OnBook(m, id)' <=> OnBook(m, id)) /\ OrderOn(m, id)' = OrderOn(m, id)
  BY <1>2 DEF OnBook, OrderOn
<1>7. \A id : Anywhere(id)' <=> Anywhere(id)
  BY <1>6 DEF Anywhere
<1>8. PICK event : event = [type |-> "fill", fill |-> fill]
  OBVIOUS
<1>9. /\ event \in Events /\ event.type = "fill" /\ event.fill = fill /\ append_event(event)
      /\ SequencerTypes
  BY <1>2, <1>3, <1>8 DEF Events, EngineInv, TypeOK
<1>10. \A id : /\ Stopped(id)' <=> Stopped(id)
               /\ CancelledFor(id, {"trader_request"})' <=> CancelledFor(id, {"trader_request"})
  <2>1. NoEndLogged
    BY <1>9 DEF NoEndLogged
  <2> QED BY <1>9, <2>1, NothingCancelled
<1>11. ASSUME NEW id
       PROVE  /\ LogTaken(id)' = LogTaken(id) + Taken(fill, id) /\ LogTaken(id) \in Nat
              /\ LogFilled(id)' = LogFilled(id) + Moved(fill, id) /\ LogFilled(id) \in Nat
  BY <1>9, LogTakenAfter, LogFilledAfter
<1>12. ASSUME NEW m, NEW id, OnBook(m, id)' PROVE Rested(OrderOn(m, id))'
  <2>1. PICK order : order = OrderOn(m, id)
    OBVIOUS
  <2>2. OnBook(m, id) /\ order = OrderOn(m, id)' /\ order.order_id = id /\ Rested(order)
    BY <1>6, <1>12, <2>1, OnBookOrder DEF EntryInv
  <2>3. id # taker.order_id
    BY <1>5, <2>2 DEF Anywhere
  <2>4. Taken(fill, id) = 0
    BY <1>4, <2>3 DEF Taken
  <2>5. LogTaken(id)' = LogTaken(id)
    BY <1>11, <2>4
  <2> QED BY <1>10, <2>2, <2>5 DEF Rested
<1>13. ASSUME NEW id, ~Anywhere(id)' PROVE NeverRested(id)'
  <2>1. id # fill.maker_order_id /\ NeverRested(id)
    BY <1>4, <1>7, <1>13 DEF EntryInv
  <2>2. Taken(fill, id) = Moved(fill, id)
    BY <2>1 DEF Taken, Moved, FillOf
  <2> QED BY <1>10, <1>11, <2>1, <2>2 DEF NeverRested
<1>14. ASSUME NEW k \in DOMAIN fills' PROVE Anywhere(fills[k].maker_order_id)'
  <2>1. k + 1 \in DOMAIN fills /\ fills'[k] = fills[k + 1]
    BY <1>2, <1>3, HeadTailProperties, LenProperties
  <2> QED BY <1>7, <2>1 DEF EntryInv
<1> QED BY <1>12, <1>13, <1>14 DEF EntryInv

(* The end of process_order: the taker joins its book only if its fills    *)
(* left something of it and self-trade prevention did not stop it.         *)
LEMMA FinishOrderEntry ==
  ASSUME EngineInv, QueueInv, LogInv, FillInv, PlacesInv, EntryInv, FinishOrder
  PROVE  EntryInv'
<1>1. PICK order : order = taker
  OBVIOUS
<1>2. /\ InProcessOrder /\ fills = << >> /\ UNCHANGED fills
      /\ IF order.status = "cancelled_stp"
         THEN append_event(OrderCancelled(order.order_id, order.order_hash, "self_trade_prevention"))
         ELSE UNCHANGED log
  BY <1>1 DEF FinishOrder, InProcessOrder
<1>3. /\ order \in Orders /\ order.filled_size_lots <= order.signed.size_lots
      /\ TakerPlaced /\ Counted(order)
  BY <1>1, <1>2 DEF EngineInv, CallFits, PlacesInv, FillInv, OrdersCounted
<1>4. /\ order.order_id \in OrderIds /\ order.order_hash \in Hashes
      /\ order.filled_size_lots \in Nat /\ order.signed.size_lots \in Nat
  BY <1>3, SignedOrderType DEF Orders
<1>5. \A id : /\ Stopped(id)' <=> Stopped(id) \/ (id = order.order_id /\ order.status = "cancelled_stp")
              /\ CancelledFor(id, {"trader_request"})' <=> CancelledFor(id, {"trader_request"})
  <2>1. CASE order.status = "cancelled_stp"
    BY <1>2, <1>4, <2>1, CancelledByCancellation DEF EngineInv, TypeOK, CancelReasons, Stopped
  <2>2. CASE order.status # "cancelled_stp"
    BY <1>2, <2>2 DEF Stopped, CancelledFor, CancelPositions
  <2> QED BY <2>1, <2>2
<1>6. \A id : LogTaken(id)' = LogTaken(id) /\ LogFilled(id)' = LogFilled(id)
  <2>1. NoFillLogged
    BY StepNoFillLogged DEF Next, Continue, FinishOrder, RecordFill
  <2> QED BY <2>1, NothingTaken DEF EngineInv, TypeOK
<1>7. ASSUME NEW m, NEW id, OnBook(m, id)' PROVE Rested(OrderOn(m, id))'
  <2>1. PICK after : after = OrderOn(m, id)'
    OBVIOUS
  <2>2. CASE OnBook(m, id)
    <3>1. after = OrderOn(m, id) /\ id # order.order_id
      BY <1>1, <2>1, <2>2, FinishOrderOrders
    <3>2. Rested(after) /\ after.order_id = id
      BY <2>2, <3>1, OnBookOrder DEF EntryInv
    <3> QED BY <1>5, <1>6, <2>1, <3>1, <3>2 DEF Rested
  <2>3. CASE Wants(taker) /\ after = taker
    <3>1. ~is_closed(order) /\ remaining_size_lots(order) > 0 /\ after = order
      BY <1>1, <2>3 DEF Wants
    <3>2. ~Stopped(order.order_id)
      BY <1>1, <1>3 DEF TakerPlaced, Ended, Stopped, CancelledFor
    <3>3. LogTaken(order.order_id) = LogFilled(order.order_id)
      BY <1>1, <1>2, TakerOffBook DEF EntryInv, NeverRested
    <3>4. LogFilled(order.order_id) = order.filled_size_lots
      <4>1. PendingFilled(order.order_id) = 0
        BY <1>2, NothingPending
      <4> QED BY <1>3, <4>1, LogFilledType DEF Counted, Traded, EngineInv, TypeOK
    <3>5. order.filled_size_lots < order.signed.size_lots
      BY <1>4, <3>1 DEF remaining_size_lots
    <3>6. order.status # "cancelled_stp"
      BY <3>1 DEF is_closed
    <3> QED BY <1>5, <1>6, <2>1, <3>1, <3>2, <3>3, <3>4, <3>5, <3>6 DEF Rested
  <2> QED BY <1>7, <2>1, <2>2, <2>3, FinishOrderOrders
<1>8. ASSUME NEW id, ~Anywhere(id)' PROVE NeverRested(id)'
  <2>1. ~Anywhere(id)
    BY <1>8, FinishOrderOrders DEF Anywhere
  <2> QED BY <1>5, <1>6, <2>1 DEF EntryInv, NeverRested
<1>9. ASSUME NEW k \in DOMAIN fills' PROVE Anywhere(fills[k].maker_order_id)'
  BY <1>2
<1> QED BY <1>7, <1>8, <1>9 DEF EntryInv

(* A trader cancels an order that is on a book, and stays there.           *)
LEMMA ProcessCancelEntry ==
  ASSUME EngineInv, QueueInv, LogInv, EntryInv, NEW gone, NEW trader_id, ProcessCancel(gone, trader_id)
  PROVE  EntryInv'
<1>1. /\ UNCHANGED fills /\ find_order(gone) # NoOrder
      /\ append_event(OrderCancelled(gone, find_order(gone).order_hash, "trader_request"))
  BY DEF ProcessCancel, matching_vars
<1>2. PICK order : order = find_order(gone)
  OBVIOUS
<1>3. PICK market_id : OnBook(market_id, gone) /\ order = OrderOn(market_id, gone)
  BY <1>1, <1>2 DEF find_order, OnBook, OrderOn
<1>4. gone \in OrderIds /\ order.order_hash \in Hashes /\ Anywhere(gone)
  BY <1>3, OnBookOrder DEF Orders, Anywhere
<1>5. NoFillLogged
  BY <1>1, <1>2, <1>4, CancellationLogged DEF CancelReasons
<1>6. \A id : /\ Stopped(id)' <=> Stopped(id)
              /\ CancelledFor(id, {"trader_request"})' <=>
                   CancelledFor(id, {"trader_request"}) \/ id = gone
  BY <1>1, <1>2, <1>4, CancelledByCancellation DEF EngineInv, TypeOK, CancelReasons, Stopped
<1>7. ASSUME NEW m, NEW id
      PROVE  /\ OnBook(m, id)' <=> OnBook(m, id)
             /\ OnBook(m, id) => SameOrder(OrderOn(m, id)', OrderOn(m, id))
  <2>1. ASSUME OnBook(m, id) PROVE SameOrder(OrderOn(m, id)', OrderOn(m, id))
    <3>1. PICK before, after : before = OrderOn(m, id) /\ after = OrderOn(m, id)'
      OBVIOUS
    <3>2. before \in Orders /\ (after = before \/ after = [before EXCEPT !.status = "cancelled"])
      BY <2>1, <3>1, OnBookOrder, ProcessCancelOrders
    <3>3. SameOrder(after, before)
      BY <3>2 DEF SameOrder, Orders
    <3> QED BY <3>1, <3>3
  <2> QED BY <2>1, ProcessCancelOrders
<1>8. \A k \in DOMAIN fills' : Anywhere(fills'[k].maker_order_id)
  BY <1>1 DEF EntryInv
<1> QED BY <1>4, <1>5, <1>6, <1>7, <1>8, EntryKept

(* Every step of the engine keeps EntryInv.                                *)
LEMMA EntryStep ==
  ASSUME EngineInv, QueueInv, LogInv, FillInv, PlacesInv, EntryInv, [Next]_vars
  PROVE  EntryInv'
<1>1. ASSUME NoFillLogged, NoEndLogged, UNCHANGED fills,
             \A m, id : /\ OnBook(m, id)' <=> OnBook(m, id)
                        /\ OnBook(m, id) => OrderOn(m, id)' = OrderOn(m, id)
      PROVE  EntryInv'
  <2>1. \A m, id : /\ OnBook(m, id)' <=> OnBook(m, id)
                   /\ OnBook(m, id) => SameOrder(OrderOn(m, id)', OrderOn(m, id))
    BY <1>1 DEF SameOrder
  <2>2. \A id : /\ Stopped(id)' <=> Stopped(id)
                /\ CancelledFor(id, {"trader_request"})' <=> CancelledFor(id, {"trader_request"})
    BY <1>1, NothingCancelled DEF EngineInv, TypeOK
  <2>3. \A k \in DOMAIN fills' : Anywhere(fills'[k].maker_order_id)
    BY <1>1 DEF EntryInv
  <2> QED BY <1>1, <2>1, <2>2, <2>3, EntryKept
<1>2. ASSUME NoFillLogged, NoEndLogged, UNCHANGED <<fills, books>>
      PROVE  EntryInv'
  BY <1>1, <1>2 DEF OnBook, OrderOn
<1>3. ASSUME UNCHANGED <<fills, books, log>>
      PROVE  EntryInv'
  BY <1>2, <1>3 DEF NoFillLogged, NoEndLogged
<1>4. CASE NextLevel \/ EndMatch \/ UNCHANGED vars
  BY <1>3, <1>4 DEF NextLevel, EndMatch, vars, engine_vars, sequencer_vars, matching_vars
<1>5. CASE CancelNext
  <2>1. NoFillLogged
    BY <1>5, StepNoFillLogged DEF CancelNext, RecordFill
  <2> QED BY <1>2, <1>5, <2>1, CancelNextEndsNothing DEF CancelNext, engine_vars, matching_vars
<1>6. ASSUME NEW signed \in SignedOrders, NEW now_ms, ProcessOrder(signed, now_ms)
      PROVE  EntryInv'
  <2>1. PICK order \in Orders : /\ [type |-> "order_accepted", order |-> order] \in Events
                                /\ append_event([type |-> "order_accepted", order |-> order])
    BY <1>6, AcceptanceStep
  <2>2. PICK event : event = [type |-> "order_accepted", order |-> order]
    OBVIOUS
  <2>3. event.type \notin {"fill", "order_cancelled"}
    BY <2>2
  <2>4. NoFillLogged /\ NoEndLogged
    BY <2>1, <2>2, <2>3 DEF NoFillLogged, NoEndLogged
  <2> QED BY <1>2, <1>6, <2>4 DEF ProcessOrder
<1>7. ASSUME NEW market_id \in Markets, PauseMarket(market_id) \/ ResumeMarket(market_id)
      PROVE  EntryInv'
  <2>1. PICK type, from, to : /\ type \in {"market_paused", "market_resumed"}
                                /\ SetStatus(market_id, from, to, type)
    BY <1>7 DEF PauseMarket, ResumeMarket
  <2>2. append_event([type |-> type, market_id |-> market_id]) /\ UNCHANGED fills
    BY <2>1 DEF SetStatus, matching_vars
  <2>3. PICK event : event = [type |-> type, market_id |-> market_id]
    OBVIOUS
  <2>4. event.type = type /\ event.market_id = market_id
    BY <2>3
  <2>5. NoFillLogged /\ NoEndLogged
    <3>1. event \in Events
      BY <2>1, <2>3 DEF Events
    <3>2. event.type \notin {"fill", "order_cancelled"}
      BY <2>1, <2>4
    <3> QED BY <2>2, <2>3, <3>1, <3>2 DEF NoFillLogged, NoEndLogged
  <2> QED BY <1>1, <2>1, <2>2, <2>5, SetStatusOrders
<1>8. ASSUME NEW market_id, CancelAllOrders(market_id)
      PROVE  EntryInv'
  BY <1>3, <1>8 DEF CancelAllOrders, engine_vars, sequencer_vars, matching_vars
<1>9. CASE Call
  BY <1>6, <1>7, <1>8, <1>9, ProcessCancelEntry DEF Call, CancelByClientId
<1>10. CASE Continue
  BY <1>4, <1>5, <1>10, MatchMakerEntry, RecordFillEntry, FinishOrderEntry DEF Continue
<1> QED BY <1>4, <1>9, <1>10 DEF Next

(* In every reachable state the orders of the books rested when their      *)
(* submission ended, and the log says so; every other order was a taker    *)
(* only, and no trader cancelled it.                                       *)
THEOREM SpecEntryInv == Spec => []EntryInv
<1>1. ASSUME Init PROVE EntryInv
  <2>1. (\A m, id : ~OnBook(m, id)) /\ fills = << >> /\ log = << >>
    BY <1>1 DEF Init, OnBook, new_book
  <2>2. \A id : ~CancelledFor(id, {"trader_request"})
    BY <2>1 DEF CancelledFor, CancelPositions
  <2>3. \A id : LogTaken(id) = LogFilled(id)
    <3>1. ASSUME NEW id PROVE LogTaken(id) = LogFilled(id)
      <4>1. DOMAIN log = {}
        BY <2>1
      <4>2. [i \in DOMAIN log |-> IF log[i].event.type = "fill" THEN Taken(log[i].event.fill, id) ELSE 0]
            = [i \in DOMAIN log |-> IF log[i].event.type = "fill" THEN Moved(log[i].event.fill, id) ELSE 0]
        BY <4>1
      <4> QED BY <4>2 DEF LogTaken, LogFilled
    <3> QED BY <3>1
  <2> QED BY <2>1, <2>2, <2>3 DEF EntryInv, NeverRested
<1>2. EngineInv /\ QueueInv /\ LogInv /\ FillInv /\ PlacesInv /\ EntryInv /\ [Next]_vars => EntryInv'
  BY EntryStep
<1> QED BY <1>1, <1>2, SpecEngineInv, SpecQueueInv, SpecLogInv, SpecFillInv, SpecPlacesInv,
           PTL DEF Spec

-----------------------------------------------------------------------------
(* Cancellations and the log *)

(* Both ways of naming an accepted order get one answer.                   *)
LEMMA CancelledAlike ==
  ASSUME RetryInv, NEW i \in Accepted
  PROVE  delete_order(OrderAt(i).order_id, OrderAt(i).signed.trader_id)
           = cancel_by_client_id(OrderAt(i).signed.trader_id, OrderAt(i).signed.client_order_id)
<1>1. PICK order, key : order = OrderAt(i) /\ key = KeyOf(order.signed)
  OBVIOUS
<1>2. KeyRecorded(i)
  BY DEF RetryInv
<1>3. key \in DOMAIN idempotency /\ idempotency[key].order_id = order.order_id
  <2>1. /\ key \in DOMAIN idempotency
        /\ idempotency[key] = [ original_seq_id |-> log[i].seq_id, order_id |-> order.order_id,
                                order_hash |-> order.order_hash ]
    BY <1>1, <1>2 DEF KeyRecorded
  <2> QED BY <2>1
<1> QED BY <1>1, <1>3 DEF cancel_by_client_id, KeyOf

\* What the log says of an order that a book holds.
ReadOffLog(i, live) ==
  /\ ~ClosedOnEntry(i)
  /\ is_closed(live) <=> ~(LogRemaining(i) > 0 /\ ~Ended(OrderAt(i).order_id))
  /\ remaining_size_lots(live) = LogRemaining(i)

(* Between calls the log says of an order on a book what the book says.    *)
LEMMA RestingOrderRead ==
  ASSUME EngineInv, QueueInv, LogInv, NoncesRise, FillInv, PlacesInv, EntryInv, stage = "idle",
         NEW i \in Accepted, NEW m, OnBook(m, OrderAt(i).order_id)
  PROVE  ReadOffLog(i, OrderOn(m, OrderAt(i).order_id))
<1>1. PICK order, id, live : order = OrderAt(i) /\ id = order.order_id /\ live = OrderOn(m, id)
  OBVIOUS
<1>2. fills = << >>
  BY DEF InProcessOrder, LogInv, CallRecorded
<1>3. /\ live \in Orders /\ live.order_id = id /\ live.filled_size_lots <= live.signed.size_lots
      /\ OnBookPlaced(live) /\ Counted(live) /\ AcceptedAs(live) /\ Rested(live)
  BY <1>1, OnBookOrder DEF PlacesInv, FillInv, OrdersCounted, LogInv, BooksRecorded, EntryInv
<1>4. order.signed = live.signed
  BY <1>1, <1>3, AcceptedAsOrder
<1>5. live.filled_size_lots = LogFilled(id)
  BY <1>2, <1>3, NothingPending, LogFilledType DEF Counted, Traded, EngineInv, TypeOK
<1>6. live.filled_size_lots \in Nat /\ live.signed.size_lots \in Nat
  BY <1>3, SignedOrderType DEF Orders
<1>7. ~ClosedOnEntry(i)
  <2>1. LogTaken(id) # order.signed.size_lots
    <3>1. LogTaken(id) < order.signed.size_lots
      BY <1>3, <1>4 DEF Rested
    <3>2. LogTaken(id) \in Nat
      BY LogTakenType DEF EngineInv, TypeOK
    <3> QED BY <1>4, <1>6, <3>1, <3>2
  <2> QED BY <1>1, <1>3, <2>1 DEF ClosedOnEntry, Rested, Stopped
<1>8. remaining_size_lots(live) = LogRemaining(i)
  BY <1>1, <1>4, <1>5 DEF remaining_size_lots, LogRemaining
<1>9. is_closed(live) <=> ~(LogRemaining(i) > 0 /\ ~Ended(id))
  <2>1. LogRemaining(i) > 0 <=> live.status # "filled"
    BY <1>1, <1>3, <1>4, <1>5, <1>6 DEF LogRemaining, OnBookPlaced, StatusTells
  <2> QED BY <1>3, <2>1 DEF OnBookPlaced, is_closed
<1> QED BY <1>1, <1>7, <1>8, <1>9 DEF ReadOffLog

(* An order that no book holds was closed by its own submission.           *)
LEMMA GoneOrderRead ==
  ASSUME EngineInv, LogInv, FillInv, PlacesInv, EntryInv, stage = "idle",
         NEW i \in Accepted, ~Anywhere(OrderAt(i).order_id)
  PROVE  ClosedOnEntry(i)
<1>1. PICK order, id : order = OrderAt(i) /\ id = order.order_id
  OBVIOUS
<1>2. ~InProcessOrder /\ fills = << >>
  BY DEF InProcessOrder, LogInv, CallRecorded
<1>3. Settled(order) /\ NeverRested(id)
  BY <1>1, <1>2 DEF PlacesInv, Elsewhere, Anywhere, EntryInv
<1>4. Traded(id) = LogFilled(id)
  BY <1>2, NothingPending, LogFilledType DEF Traded, EngineInv, TypeOK
<1>5. CASE Ended(id)
  <2>1. Stopped(id)
    BY <1>3, <1>5 DEF Ended, Stopped, NeverRested, CancelledFor
  <2> QED BY <1>1, <2>1 DEF ClosedOnEntry, Stopped
<1>6. CASE ~Ended(id)
  BY <1>1, <1>3, <1>4, <1>6 DEF Settled, NeverRested, ClosedOnEntry
<1> QED BY <1>5, <1>6

(* What the owner of an order that rested is told when it cancels or reads *)
(* it follows from the log, by either of the order's ids.                  *)
THEOREM SpecCancelAnswered == Spec => []CancelAnswered
<1>1. ASSUME EngineInv, QueueInv, LogInv, NoncesRise, FillInv, PlacesInv, RetryInv, EntryInv
      PROVE  CancelAnswered
  <2> SUFFICES ASSUME stage = "idle", NEW i \in Accepted
               PROVE  LET order == OrderAt(i)
                          signed == order.signed
                          answer == delete_order(order.order_id, signed.trader_id)
                          open == i \in OpenInLog(signed.market_id, signed.side, signed.price_ticks)
                          read == get_order(order.order_id)
                      IN /\ answer = cancel_by_client_id(signed.trader_id, signed.client_order_id)
                         /\ ~ClosedOnEntry(i)
                              => answer = [code |-> "OK", was_already_closed |-> ~open]
                         /\ read.code = answer.code
                         /\ read.code = "OK" => read.remaining = LogRemaining(i)
    BY DEF CancelAnswered
  <2>1. PICK order, id, live, answer, read :
          /\ order = OrderAt(i) /\ id = order.order_id /\ live = find_order(id)
          /\ answer = delete_order(id, order.signed.trader_id) /\ read = get_order(id)
    OBVIOUS
  <2>2. PICK open : open = (i \in OpenInLog(order.signed.market_id, order.signed.side,
                                            order.signed.price_ticks))
    OBVIOUS
  <2>3. answer = cancel_by_client_id(order.signed.trader_id, order.signed.client_order_id)
    BY <1>1, <2>1, CancelledAlike
  <2>4. open <=> LogRemaining(i) > 0 /\ ~Ended(id)
    BY <2>1, <2>2 DEF OpenInLog, Ended, ByTraderOrStp
  <2>5. CASE Anywhere(id)
    <3>1. PICK m : OnBook(m, id)
      BY <2>5 DEF Anywhere
    <3>2. live = OrderOn(m, id) /\ live # NoOrder
      BY <1>1, <2>1, <3>1, FindOrder
    <3>3. ReadOffLog(i, live)
      BY <1>1, <2>1, <3>1, <3>2, RestingOrderRead
    <3>4. live.signed = order.signed
      BY <1>1, <2>1, <3>1, <3>2, OnBookOrder, AcceptedAsOrder DEF LogInv, BooksRecorded
    <3>5. /\ id \in DOMAIN order_market_index /\ order_market_index[id] \in DOMAIN books
      BY <1>1, <3>1 DEF QueueInv, IdsFresh, BookIdsFresh, OnBook
    <3>6. answer = [code |-> "OK", was_already_closed |-> is_closed(live)]
      BY <2>1, <3>2, <3>4, <3>5 DEF delete_order
    <3>7. is_closed(live) = ~open
      BY <2>1, <2>2, <2>4, <3>3 DEF ReadOffLog, is_closed
    <3>8. read.code = "OK" /\ read.remaining = LogRemaining(i)
      BY <2>1, <3>2, <3>3 DEF get_order, ReadOffLog
    <3>9. answer = [code |-> "OK", was_already_closed |-> ~open] /\ answer.code = "OK"
      BY <3>6, <3>7
    <3> QED BY <2>1, <2>2, <2>3, <3>8, <3>9
  <2>6. CASE ~Anywhere(id)
    <3>1. live = NoOrder
      BY <1>1, <2>1, <2>6, FindOrder DEF Anywhere
    <3>2. id \in DOMAIN order_market_index => order_market_index[id] \in DOMAIN books
      BY <1>1 DEF EngineInv, TypeOK, EngineTypes, IsMap, PlacesInv
    <3>3. answer = [code |-> "ORDER_NOT_FOUND"] /\ read = [code |-> "ORDER_NOT_FOUND"]
      BY <2>1, <3>1, <3>2 DEF delete_order, get_order
    <3>4. ClosedOnEntry(i)
      BY <1>1, <2>1, <2>6, GoneOrderRead
    <3> QED BY <2>1, <2>3, <3>3, <3>4
  <2> QED BY <2>5, <2>6
<1> QED BY <1>1, SpecEngineInv, SpecQueueInv, SpecLogInv, SpecNoncesRise, SpecFillInv, SpecPlacesInv,
           SpecRetryInv, SpecEntryInv, PTL
-----------------------------------------------------------------------------
(* Trades *)

\* The fills a page may show.
AskedFor(market_id, from_seq) ==
  {i \in FillPositions : log[i].event.fill.market_id = market_id /\ i >= from_seq}

\* A page: the first of them.
PageOf(page, at, n) ==
  /\ n \in 0..Len(at) /\ page = [k \in 1..n |-> log[at[k]]]
  /\ Len(page) = n /\ DOMAIN page = 1..n

IsServed(page, market_id, from_seq, limit) ==
  \E at, n, all : /\ Chooses(all, log, at, AskedFor(market_id, from_seq))
                  /\ PageOf(page, at, n) /\ (limit = 0 => n = Len(at))

(* What first keeps is the beginning of the list.                          *)
LEMMA FirstOf ==
  ASSUME NEW S, NEW seq \in Seq(S), NEW n \in Nat
  PROVE  \E m \in 0..Len(seq) : /\ first(seq, n) = SubSeq(seq, 1, m)
                                /\ m = IF n <= Len(seq) THEN n ELSE Len(seq)
<1>1. PICK len : len = Len(seq) /\ len \in Nat
  OBVIOUS
<1>2. Min({n, len}) = IF n <= len THEN n ELSE len
  BY <1>1 DEF Min
<1>3. PICK m : m = IF n <= len THEN n ELSE len
  OBVIOUS
<1>4. m \in 0..Len(seq) /\ m = Min({n, Len(seq)})
  BY <1>1, <1>2, <1>3
<1>5. first(seq, n) = SubSeq(seq, 1, m)
  BY <1>4, Zenon DEF first
<1> QED BY <1>1, <1>3, <1>4, <1>5

(* The beginning of a list has its first entries.                          *)
LEMMA FirstEntries ==
  ASSUME NEW S, NEW seq \in Seq(S), NEW n \in 0..Len(seq)
  PROVE  SubSeq(seq, 1, n) = [k \in 1..n |-> seq[k]]
<1>1. PICK part : part = SubSeq(seq, 1, n)
  OBVIOUS
<1>2. n \in Nat /\ \A i \in 1..n : seq[i] \in S
  OBVIOUS
<1>3. part \in Seq(S) /\ Len(part) = n /\ \A k \in 1..n : part[k] = seq[k]
  BY <1>1, <1>2, SubSeqProperties
<1>4. part = [k \in 1..n |-> part[k]]
  BY <1>2, <1>3
<1> QED BY <1>1, <1>3, <1>4

(* What get_trades answers: the fills asked for in the order of the log,   *)
(* all of them if the limit is 0.                                          *)
LEMMA TradesServed ==
  ASSUME EngineInv, LogGapless, NEW market_id \in DOMAIN books, NEW from_seq \in Nat, NEW limit \in Nat,
         NEW page, page = get_trades(market_id, from_seq, limit).trades
  PROVE  IsServed(page, market_id, from_seq, limit)
<1>1. /\ log \in Seq(SequencedEvents) /\ Len(log) \in Nat /\ DOMAIN log = 1..Len(log)
      /\ \A i \in DOMAIN log : log[i].seq_id = i
  BY DEF EngineInv, TypeOK, SequencerTypes, LogGapless
<1> DEFINE asked(se) == /\ se.event.type = "fill" /\ se.event.fill.market_id = market_id
                        /\ from_seq = 0 \/ served_from(se, from_seq)
           keep == [i \in DOMAIN log |-> IF asked(log[i]) THEN << log[i] >> ELSE << >>]
           served == FlattenSeq(keep)
           most == Min({limit, MaxTrades})
<1>2. page = IF most = 0 THEN served ELSE first(served, most)
  BY Zenon DEF get_trades, get_fills
<1>3. most \in Nat /\ (limit = 0 => most = 0)
  <2>1. MaxTrades \in Nat
    BY RestAssumption
  <2> QED BY <2>1 DEF Min
<1>4. \A i \in DOMAIN log : asked(log[i]) <=> i \in AskedFor(market_id, from_seq)
  BY <1>1 DEF AskedFor, FillPositions, served_from
<1>5. PICK at : Chooses(served, log, at, AskedFor(market_id, from_seq))
  <2>1. keep = [i \in DOMAIN log |-> IF i \in AskedFor(market_id, from_seq) THEN << log[i] >> ELSE << >>]
    BY <1>4
  <2>2. \A i \in AskedFor(market_id, from_seq) : i \in DOMAIN log
    BY DEF AskedFor, FillPositions
  <2> HIDE DEF keep
  <2> QED BY <1>1, <2>1, <2>2, FlattenChosen
<1> HIDE DEF most, served
<1>6. /\ Len(at) \in Nat /\ \A k \in 1..Len(at) : at[k] \in DOMAIN log
      /\ served = [k \in 1..Len(at) |-> log[at[k]]]
  BY <1>5 DEF Chooses
<1>7. served \in Seq(SequencedEvents) /\ Len(served) = Len(at)
  <2>1. \A k \in 1..Len(at) : log[at[k]] \in SequencedEvents
    BY <1>1, <1>6
  <2>2. served \in [1..Len(at) -> SequencedEvents]
    BY <1>6, <2>1
  <2> QED BY <1>6, <2>2
<1>8. PICK n \in 0..Len(at) : page = SubSeq(served, 1, n) /\ (limit = 0 => n = Len(at))
  <2>1. CASE most = 0
    <3>1. page = SubSeq(served, 1, Len(at)) /\ Len(at) \in 0..Len(at)
      BY <1>2, <1>6, <1>7, <2>1
    <3> QED BY <3>1
  <2>2. CASE most # 0
    BY <1>2, <1>3, <1>7, <2>2, FirstOf
  <2> QED BY <2>1, <2>2
<1>9. PageOf(page, at, n)
  <2>1. SubSeq(served, 1, n) = [k \in 1..n |-> served[k]]
    <3>1. n \in 0..Len(served)
      BY <1>7, <1>8
    <3> QED BY <1>7, <3>1, FirstEntries
  <2>2. \A k \in 1..n : served[k] = log[at[k]]
    BY <1>6, <1>8
  <2>3. page = [k \in 1..n |-> log[at[k]]]
    BY <1>8, <2>1, <2>2
  <2> QED BY <1>6, <1>8, <2>3 DEF PageOf
<1> QED BY <1>5, <1>8, <1>9 DEF IsServed

\* The acceptance that a fill shows.
Shown(i) == log[i].event.fill.sequence_id

(* Between a fill and the acceptance it shows there are fills only.        *)
LEMMA ShownBefore ==
  ASSUME EngineInv, EventsFollowAcceptance, NEW i \in FillPositions
  PROVE  /\ Shown(i) \in Nat \ {0} /\ i \in Nat /\ Shown(i) < i /\ Shown(i) \in Accepted
         /\ \A j \in Accepted : j < i => j <= Shown(i)
<1>1. /\ Shown(i) \in Accepted /\ Shown(i) < i
      /\ \A k \in Shown(i) + 1 .. i : k \in FillPositions
  BY DEF EventsFollowAcceptance, Shown
<1>2. /\ \A j \in Accepted : j \in Nat \ {0} /\ j \notin FillPositions
      /\ i \in Nat
  <2>1. DOMAIN log = 1..Len(log) /\ Len(log) \in Nat
    BY DEF EngineInv, TypeOK, SequencerTypes
  <2> QED BY <2>1 DEF Accepted, FillPositions
<1>3. ASSUME NEW j \in Accepted, j < i PROVE j <= Shown(i)
  <2>1. j \notin Shown(i) + 1 .. i
    BY <1>1, <1>2
  <2> QED BY <1>1, <1>2, <1>3, <2>1
<1> QED BY <1>1, <1>2, <1>3

(* What a page leaves out is beyond the last that it shows.                *)
LEMMA RestFollows ==
  ASSUME EngineInv, LogGapless, EventsFollowAcceptance, NEW m \in DOMAIN books,
         NEW from_seq \in Nat, NEW at, NEW n, NEW all, NEW page, page # << >>,
         Chooses(all, log, at, AskedFor(m, from_seq)), PageOf(page, at, n),
         NEW next, next = page[Len(page)].event.fill.sequence_id + 1,
         NEW rest, rest = get_trades(m, next, 0).trades,
         NEW i \in FillPositions, i >= from_seq, log[i].event.fill.market_id = m
  PROVE  \/ \E k \in DOMAIN page : page[k] = log[i]
         \/ \E k \in DOMAIN rest : rest[k] = log[i]
<1>1. n \in 1..Len(at) /\ Len(at) \in Nat /\ page[n] = log[at[n]] /\ at[n] \in AskedFor(m, from_seq)
  <2>1. n # 0
    BY DEF PageOf
  <2> QED BY <2>1 DEF PageOf, Chooses
<1>2. PICK k \in 1..Len(at) : at[k] = i
  BY DEF Chooses, AskedFor
<1>3. CASE k <= n
  BY <1>1, <1>2, <1>3 DEF PageOf
<1>4. CASE n < k
  <2>1. at[n] < i
    BY <1>1, <1>2, <1>4 DEF Chooses
  <2>2. next = Shown(at[n]) + 1 /\ at[n] \in FillPositions
    BY <1>1 DEF PageOf, Shown, AskedFor
  <2>3. next \in Nat /\ i \in Nat /\ next <= i
    BY <2>1, <2>2, ShownBefore
  <2>4. PICK also, far, more : /\ Chooses(more, log, also, AskedFor(m, next))
                               /\ PageOf(rest, also, far) /\ far = Len(also)
    <3>1. IsServed(rest, m, next, 0)
      BY <2>3, TradesServed
    <3> QED BY <3>1 DEF IsServed
  <2>5. i \in AskedFor(m, next)
    BY <2>3 DEF AskedFor
  <2>6. PICK place \in 1..Len(also) : also[place] = i
    BY <2>4, <2>5 DEF Chooses
  <2>7. place \in DOMAIN rest /\ rest[place] = log[i]
    BY <2>4, <2>6 DEF PageOf
  <2> QED BY <2>7
<1> QED BY <1>1, <1>2, <1>3, <1>4

(* A page comes further, unless one taker's fills fill it.                 *)
LEMMA PageComesFurther ==
  ASSUME EngineInv, EventsFollowAcceptance, NEW m, NEW from_seq \in Nat,
         from_seq = 0 \/ from_seq - 1 \in Accepted,
         NEW at, NEW n, NEW all, NEW page, page # << >>,
         Chooses(all, log, at, AskedFor(m, from_seq)), PageOf(page, at, n),
         NEW next, next = page[Len(page)].event.fill.sequence_id + 1
  PROVE  \/ next > from_seq
         \/ \A k \in DOMAIN page : page[k].event.fill.sequence_id = from_seq - 1
<1>1. n \in 1..Len(at) /\ Len(at) \in Nat
  <2>1. n # 0
    BY DEF PageOf
  <2> QED BY <2>1 DEF PageOf, Chooses
<1>2. \A k \in 1..n : at[k] \in FillPositions /\ at[k] >= from_seq /\ page[k].event.fill.sequence_id = Shown(at[k])
  BY <1>1 DEF PageOf, Chooses, AskedFor, Shown
<1>3. next = Shown(at[n]) + 1 /\ Shown(at[n]) \in Nat
  BY <1>1, <1>2, ShownBefore DEF PageOf
<1>4. CASE from_seq = 0
  BY <1>3, <1>4
<1>5. CASE from_seq - 1 \in Accepted
  <2>1. SUFFICES ASSUME ~(next > from_seq), NEW k \in 1..n PROVE Shown(at[k]) = from_seq - 1
    BY <1>2 DEF PageOf
  <2>2. /\ Shown(at[k]) \in Nat /\ Shown(at[k]) \in Accepted /\ Shown(at[k]) < at[k] /\ at[k] \in Nat
        /\ \A j \in Accepted : j < at[k] => j <= Shown(at[k])
        /\ at[n] \in Nat /\ \A j \in Accepted : j < at[n] => j <= Shown(at[n])
    BY <1>1, <1>2, ShownBefore
  <2>3. from_seq - 1 <= Shown(at[k])
    BY <1>2, <1>5, <2>2
  <2>4. Shown(at[k]) <= Shown(at[n])
    <3>1. k = n \/ at[k] < at[n]
      BY <1>1 DEF Chooses
    <3> QED BY <1>3, <2>2, <3>1
  <2> QED BY <1>3, <2>1, <2>2, <2>3, <2>4
<1> QED BY <1>4, <1>5

\* What one page promises.
PageServes(m, from_seq, page, next, rest) ==
  /\ \A i \in FillPositions :
       i >= from_seq /\ log[i].event.fill.market_id = m
         => \/ \E k \in DOMAIN page : page[k] = log[i]
            \/ \E k \in DOMAIN rest : rest[k] = log[i]
  /\ \/ next > from_seq
     \/ \A k \in DOMAIN page : page[k].event.fill.sequence_id = from_seq - 1

Paged(m, from_seq, limit) ==
  LET page == get_trades(m, from_seq, limit).trades
      next == page[Len(page)].event.fill.sequence_id + 1
      rest == get_trades(m, next, 0).trades
  IN page # << >> => PageServes(m, from_seq, page, next, rest)

(* A client that pages through the trades with the last sequence_id it was *)
(* shown misses none, and comes further unless one taker fills the page.   *)
THEOREM SpecPagesMissNothing == Spec => []PagesMissNothing
<1>1. EngineInv /\ LogGapless /\ EventsFollowAcceptance => PagesMissNothing
  <2>0. SUFFICES ASSUME EngineInv, LogGapless, EventsFollowAcceptance,
                        NEW m \in DOMAIN books, NEW limit \in 0 .. MaxTrades + 1,
                        NEW from_seq \in {0} \cup {log[i].event.fill.sequence_id + 1 : i \in FillPositions}
                 PROVE  Paged(m, from_seq, limit)
    BY Zenon DEF PagesMissNothing, Paged, PageServes
  <2>1. SUFFICES ASSUME NEW page, page = get_trades(m, from_seq, limit).trades, page # << >>,
                        NEW next, next = page[Len(page)].event.fill.sequence_id + 1,
                        NEW rest, rest = get_trades(m, next, 0).trades
                 PROVE  PageServes(m, from_seq, page, next, rest)
    BY Zenon DEF Paged
  <2>2. from_seq \in Nat /\ (from_seq = 0 \/ from_seq - 1 \in Accepted)
    <3>1. CASE from_seq = 0
      BY <3>1
    <3>2. CASE \E i \in FillPositions : from_seq = Shown(i) + 1
      <4>1. PICK i \in FillPositions : from_seq = Shown(i) + 1
        BY <3>2
      <4>2. Shown(i) \in Nat /\ Shown(i) \in Accepted
        BY <2>0, ShownBefore
      <4> QED BY <4>1, <4>2
    <3> QED BY <2>0, <2>1, <3>1, <3>2 DEF Shown
  <2>3. limit \in Nat
    BY RestAssumption
  <2>4. PICK at, n, all : Chooses(all, log, at, AskedFor(m, from_seq)) /\ PageOf(page, at, n)
    <3>1. IsServed(page, m, from_seq, limit)
      BY <2>0, <2>1, <2>2, <2>3, TradesServed
    <3> QED BY <3>1 DEF IsServed
  <2>5. \A i \in FillPositions :
          i >= from_seq /\ log[i].event.fill.market_id = m
            => \/ \E k \in DOMAIN page : page[k] = log[i]
               \/ \E k \in DOMAIN rest : rest[k] = log[i]
    BY <2>0, <2>1, <2>2, <2>4, RestFollows
  <2>6. \/ next > from_seq
        \/ \A k \in DOMAIN page : page[k].event.fill.sequence_id = from_seq - 1
    BY <2>0, <2>1, <2>2, <2>4, PageComesFurther
  <2> QED BY <2>5, <2>6 DEF PageServes
<1> QED BY <1>1, SpecEngineInv, SpecLogGapless, SpecEventsFollowAcceptance, PTL
-----------------------------------------------------------------------------
(* Depth *)

\* Between calls, in what is proved of the engine and its log.
Readable ==
  /\ EngineInv /\ QueueInv /\ LogInv /\ NoncesRise /\ FillInv /\ PlacesInv /\ EntryInv
  /\ stage = "idle"

\* An order that rests in the queue of a market, side and price, and its acceptance.
LiveAt(m, side, p, id, i) ==
  /\ OnBook(m, id) /\ RestsAt(OrderOn(m, id), side, p)
  /\ i \in Accepted /\ i = OrderOn(m, id).created_sequence /\ OrderAt(i).order_id = id
  /\ remaining_size_lots(OrderOn(m, id)) = LogRemaining(i) /\ LogRemaining(i) \in Nat

(* An accepted order that the log leaves open rests on its book.           *)
LEMMA OpenRests ==
  ASSUME Readable, NEW m, NEW side, NEW p, NEW i \in OpenInLog(m, side, p)
  PROVE  LiveAt(m, side, p, OrderAt(i).order_id, i)
<1> USE DEF Readable
<1>1. PICK order, id : order = OrderAt(i) /\ id = order.order_id
  OBVIOUS
<1>2. /\ i \in Accepted /\ LogRemaining(i) > 0 /\ ~Ended(id)
      /\ order.signed.market_id = m /\ order.signed.side = side /\ order.signed.price_ticks = p
  BY <1>1 DEF OpenInLog, Ended, ByTraderOrStp
<1>3. ~InProcessOrder /\ fills = << >>
  BY DEF InProcessOrder, LogInv, CallRecorded
<1>4. Anywhere(id)
  <2>1. SUFFICES ASSUME ~Anywhere(id) PROVE FALSE
    OBVIOUS
  <2>2. Settled(order)
    BY <1>1, <1>2, <1>3, <2>1 DEF PlacesInv, Elsewhere, Anywhere
  <2>3. Traded(id) = LogFilled(id) /\ LogFilled(id) \in Nat
    BY <1>3, NothingPending, LogFilledType DEF Traded, EngineInv, TypeOK
  <2>4. LogFilled(id) = order.signed.size_lots
    BY <1>1, <1>2, <2>2, <2>3 DEF Settled
  <2> QED BY <1>1, <1>2, <2>3, <2>4 DEF LogRemaining
<1>5. PICK market, live : OnBook(market, id) /\ live = OrderOn(market, id)
  BY <1>4 DEF Anywhere
<1>6. live \in Orders /\ live.order_id = id /\ live.filled_size_lots <= live.signed.size_lots
  BY <1>5, OnBookOrder
<1>7. ReadOffLog(i, live)
  BY <1>1, <1>2, <1>5, RestingOrderRead
<1>8. live.signed = order.signed /\ i = live.created_sequence
  <2>1. AcceptedAs(live)
    BY <1>5 DEF LogInv, BooksRecorded
  <2> QED BY <1>1, <1>2, <1>6, <2>1, AcceptedAsOrder
<1>9. market = m
  <2>1. live.signed.market_id = market
    BY <1>5 DEF EngineInv, BooksFit, BookFits, OrdersFit, OnBook, OrderOn
  <2> QED BY <1>2, <1>8, <2>1
<1>10. ~is_closed(live) /\ remaining_size_lots(live) = LogRemaining(i)
  BY <1>1, <1>2, <1>7 DEF ReadOffLog
<1>11. LogRemaining(i) \in Nat
  <2>1. live.signed.size_lots \in Nat /\ live.filled_size_lots \in Nat
    BY <1>6, SignedOrderType DEF Orders
  <2> QED BY <1>6, <1>10, <2>1 DEF remaining_size_lots
<1> QED BY <1>1, <1>2, <1>5, <1>8, <1>9, <1>10, <1>11 DEF LiveAt, RestsAt

(* An order that rests on a book is open in the log.                       *)
LEMMA RestingOpen ==
  ASSUME Readable, NEW m, NEW side, NEW p, NEW id, OnBook(m, id), RestsAt(OrderOn(m, id), side, p),
         NEW i, i = OrderOn(m, id).created_sequence
  PROVE  i \in OpenInLog(m, side, p) /\ LiveAt(m, side, p, id, i)
<1> USE DEF Readable
<1>1. PICK live : live = OrderOn(m, id)
  OBVIOUS
<1>2. live \in Orders /\ live.order_id = id /\ AcceptedAs(live)
  BY <1>1, OnBookOrder DEF LogInv, BooksRecorded
<1>3. i \in Accepted /\ OrderAt(i).order_id = id /\ OrderAt(i).signed = live.signed
  BY <1>1, <1>2 DEF AcceptedAs, Recorded
<1>4. ReadOffLog(i, live)
  BY <1>1, <1>3, RestingOrderRead
<1>5. LogRemaining(i) > 0 /\ ~Ended(id)
  BY <1>1, <1>3, <1>4 DEF ReadOffLog, RestsAt
<1>6. live.signed.market_id = m
  BY <1>1 DEF EngineInv, BooksFit, BookFits, OrdersFit, OnBook, OrderOn
<1>7. i \in OpenInLog(m, side, p)
  BY <1>1, <1>3, <1>5, <1>6 DEF OpenInLog, Ended, ByTraderOrStp, RestsAt
<1>8. LiveAt(m, side, p, id, i)
  BY <1>3, <1>7, OpenRests
<1> QED BY <1>7, <1>8

(* The prices with open orders are the levels of the book.                 *)
LEMMA PricesAgree ==
  ASSUME Readable, NEW m \in DOMAIN books, NEW side \in Sides
  PROVE  PricesInLog(m, side) = DOMAIN books[m].queues[side]
<1>1. PICK book, levels : book = books[m] /\ levels = book.queues[side]
  OBVIOUS
<1>2. QueuesSound(book)
  BY <1>1 DEF Readable, QueueInv, BooksSound
<1>3. ASSUME NEW p \in PricesInLog(m, side) PROVE p \in DOMAIN levels
  <2>1. PICK i : i \in OpenInLog(m, side, p)
    BY DEF PricesInLog
  <2>2. PICK id : OnBook(m, id) /\ RestsAt(OrderOn(m, id), side, p)
    BY <2>1, OpenRests DEF LiveAt
  <2> QED BY <1>1, <1>2, <2>2 DEF QueuesSound, Holds, RestsAt, OnBook, OrderOn
<1>4. ASSUME NEW p \in DOMAIN levels PROVE p \in PricesInLog(m, side)
  <2>1. QueueSound(book.orders, side, p, levels[p])
    BY <1>1, <1>2 DEF QueuesSound
  <2>2. 1 \in DOMAIN levels[p]
    <3>1. levels[p] \in Seq(OrderIds)
      BY <1>1 DEF Readable, EngineInv, BooksFit, BookFits, IsBook, IsMap
    <3> QED BY <2>1, <3>1, EmptySeq DEF QueueSound
  <2>3. PICK id : OnBook(m, id) /\ RestsAt(OrderOn(m, id), side, p)
    BY <1>1, <2>1, <2>2 DEF QueueSound, OnBook, OrderOn
  <2>4. PICK i : i \in OpenInLog(m, side, p)
    BY <2>3, RestingOpen
  <2>5. i \in Accepted /\ OrderAt(i).signed.price_ticks = p
    BY <2>4 DEF OpenInLog
  <2> QED BY <2>4, <2>5 DEF PricesInLog
<1> QED BY <1>1, <1>3, <1>4

\* What the accepted orders of a level have left, each at its acceptance.
LeftInLog(m, side, p) ==
  [i \in DOMAIN log |-> IF i \in OpenInLog(m, side, p) THEN LogRemaining(i) ELSE 0]

\* What a level shows of its orders.
ShownAt(book, side, p) ==
  LET held == held_at(book, side, p) IN [k \in DOMAIN held |-> lots_shown(held[k])]

(* A level shows its open orders in the order of their acceptance.         *)
LEMMA LevelShows ==
  ASSUME Readable, NEW m \in DOMAIN books, NEW side \in Sides, NEW p \in DOMAIN books[m].queues[side]
  PROVE  /\ LeftInLog(m, side, p) \in Seq(Nat)
         /\ \E at : /\ Chooses(ShownAt(books[m], side, p), LeftInLog(m, side, p), at,
                               OpenInLog(m, side, p))
                    /\ Len(at) = Len(books[m].queues[side][p])
<1>1. PICK book, queue, left, shown, open :
        /\ book = books[m] /\ queue = book.queues[side][p] /\ left = LeftInLog(m, side, p)
        /\ shown = ShownAt(book, side, p) /\ open = OpenInLog(m, side, p)
  OBVIOUS
<1>2. PICK n : /\ queue \in Seq(OrderIds) /\ n = Len(queue) /\ n \in Nat /\ DOMAIN queue = 1..n
               /\ QueueSound(book.orders, side, p, queue)
  <2>1. queue \in Seq(OrderIds)
    BY <1>1 DEF Readable, EngineInv, BooksFit, BookFits, IsBook, IsMap
  <2>2. QueueSound(book.orders, side, p, queue)
    BY <1>1 DEF Readable, QueueInv, BooksSound, QueuesSound
  <2> QED BY <2>1, <2>2, LenProperties
<1>3. PICK at : at = [k \in 1..n |-> OrderOn(m, queue[k]).created_sequence]
  OBVIOUS
<1>4. ASSUME NEW k \in 1..n
      PROVE  /\ queue[k] \in DOMAIN book.orders /\ at[k] \in open
             /\ LiveAt(m, side, p, queue[k], at[k])
  <2>1. /\ queue[k] \in DOMAIN book.orders /\ OnBook(m, queue[k])
        /\ RestsAt(OrderOn(m, queue[k]), side, p) /\ at[k] = OrderOn(m, queue[k]).created_sequence
    BY <1>1, <1>2, <1>3 DEF QueueSound, OnBook, OrderOn
  <2> QED BY <1>1, <2>1, RestingOpen
<1>5. ASSUME NEW i \in open PROVE i \in DOMAIN log /\ \E k \in 1..n : at[k] = i
  <2>1. PICK id : LiveAt(m, side, p, id, i)
    BY <1>1, OpenRests
  <2>2. i \in DOMAIN log
    BY <2>1 DEF LiveAt, Accepted
  <2>3. QueuesSound(book) /\ id \in DOMAIN book.orders /\ RestsAt(book.orders[id], side, p)
    BY <1>1, <2>1 DEF Readable, QueueInv, BooksSound, LiveAt, OnBook, OrderOn
  <2>4. PICK k \in 1..n : queue[k] = id
    BY <1>1, <1>2, <2>3 DEF QueuesSound, Holds, RestsAt
  <2>5. at[k] = i
    BY <1>3, <2>1, <2>4 DEF LiveAt
  <2> QED BY <2>2, <2>5
<1>6. /\ DOMAIN log = 1..Len(log) /\ Len(log) \in Nat
  BY DEF Readable, EngineInv, TypeOK, SequencerTypes
<1>7. left \in Seq(Nat) /\ DOMAIN left = DOMAIN log /\ \A i \in open : left[i] = LogRemaining(i)
  <2>1. left = [i \in DOMAIN log |-> IF i \in open THEN LogRemaining(i) ELSE 0]
    BY <1>1, Zenon DEF LeftInLog
  <2>2. \A i \in open : LogRemaining(i) \in Nat
    BY <1>1, OpenRests DEF LiveAt
  <2>3. left \in [1..Len(log) -> Nat]
    BY <1>6, <2>1, <2>2
  <2> QED BY <1>5, <1>6, <2>1, <2>3
<1>8. shown = [k \in 1..n |-> left[at[k]]]
  <2>1. PICK held : held = held_at(book, side, p)
    OBVIOUS
  <2>2. held = [k \in 1..n |-> IF queue[k] \in DOMAIN book.orders THEN book.orders[queue[k]] ELSE NoOrder]
    BY <1>1, <1>2, <2>1, Zenon DEF held_at
  <2>3. DOMAIN held = 1..n
    BY <2>2
  <2>4. shown = [k \in 1..n |-> lots_shown(held[k])]
    BY <1>1, <2>1, <2>3, Zenon DEF ShownAt
  <2>5. ASSUME NEW k \in 1..n PROVE lots_shown(held[k]) = left[at[k]]
    <3>1. held[k] = OrderOn(m, queue[k])
      BY <1>1, <1>4, <2>2 DEF OrderOn
    <3>2. OrderOn(m, queue[k]) \in Orders
      BY <1>4, OnBookOrder DEF LiveAt, Readable
    <3>3. held[k] # NoOrder
      BY <3>1, <3>2, NoOrderAssumption
    <3>4. remaining_size_lots(OrderOn(m, queue[k])) = LogRemaining(at[k])
      BY <1>4 DEF LiveAt
    <3>5. left[at[k]] = LogRemaining(at[k])
      BY <1>4, <1>7
    <3> QED BY <3>1, <3>3, <3>4, <3>5 DEF lots_shown
  <2> QED BY <2>4, <2>5
<1>9. \A j, k \in 1..n : j < k => at[j] < at[k]
  BY <1>1, <1>2, <1>3 DEF QueueSound, OrderOn
<1>10. at \in Seq(DOMAIN left) /\ Len(at) = n
  <2>1. \A k \in 1..n : at[k] \in DOMAIN left
    BY <1>4, <1>5, <1>7
  <2>2. at \in [1..n -> DOMAIN left]
    BY <1>3, <2>1
  <2> QED BY <1>2, <2>2
<1>11. Chooses(shown, left, at, open)
  BY <1>4, <1>5, <1>8, <1>9, <1>10 DEF Chooses
<1> QED BY <1>1, <1>2, <1>7, <1>10, <1>11

\* The prices from the best on.
BestOn(seq, S, side) ==
  /\ seq \in Seq(S) /\ Len(seq) = Cardinality(S)
  /\ \A p \in S : \E k \in 1..Len(seq) : seq[k] = p
  /\ \A j, k \in 1..Len(seq) : j < k => Better(side, seq[j], seq[k])

(* A side's prices come best first, each once.                             *)
LEMMA BestFirstSorts ==
  ASSUME NEW side \in Sides, NEW book, NEW levels, levels = DOMAIN book.queues[side],
         levels \subseteq Nat, IsFiniteSet(levels)
  PROVE  BestOn(best_first(book, side), levels, side)
<1>1. PICK key, up : key = [p \in levels |-> p] /\ up = InOrder(levels, key)
  OBVIOUS
<1>2. SortedBy(up, levels, key)
  <2>1. /\ \A p \in levels : key[p] \in Nat
        /\ \A p, q \in levels : key[p] = key[q] => p = q
    BY <1>1
  <2> QED BY <1>1, <2>1, InOrderSorts
<1>3. PICK n : n = Len(up) /\ n \in Nat
  BY <1>2 DEF SortedBy
<1>4. /\ up \in Seq(levels) /\ n = Cardinality(levels) /\ \A k \in 1..n : up[k] \in levels
      /\ \A p \in levels : \E k \in 1..n : up[k] = p
      /\ \A j, k \in 1..n : j < k => up[j] < up[k]
  <2>1. /\ up \in Seq(levels) /\ n = Cardinality(levels)
        /\ \A p \in levels : \E k \in 1..n : up[k] = p
        /\ \A j, k \in 1..n : j < k => key[up[j]] < key[up[k]]
    BY <1>2, <1>3 DEF SortedBy
  <2>2. \A k \in 1..n : up[k] \in levels
    BY <1>3, <2>1, ElementOfSeq
  <2> QED BY <1>1, <2>1, <2>2
<1>5. best_first(book, side) = IF side = "buy" THEN Reverse(up) ELSE up
  BY <1>1, Zenon DEF best_first
<1>6. CASE side # "buy"
  <2>1. side = "sell"
    BY <1>6 DEF Sides
  <2> QED BY <1>3, <1>4, <1>5, <2>1 DEF BestOn, Better
<1>7. CASE side = "buy"
  <2>1. PICK down : down = Reverse(up)
    OBVIOUS
  <2>2. down = [k \in 1..n |-> up[(n - k) + 1]]
    BY <1>3, <2>1 DEF Reverse
  <2>3. \A k \in 1..n : (n - k) + 1 \in 1..n /\ (n - ((n - k) + 1)) + 1 = k
    BY <1>3
  <2>4. down \in Seq(levels) /\ Len(down) = n
    <3>1. down \in [1..n -> levels]
      BY <1>4, <2>2, <2>3
    <3> QED BY ONLY <1>3, <3>1
  <2>5. ASSUME NEW p \in levels PROVE \E k \in 1..n : down[k] = p
    <3>1. PICK k \in 1..n : up[k] = p
      BY <1>4
    <3>2. down[(n - k) + 1] = p /\ (n - k) + 1 \in 1..n
      BY <2>2, <2>3, <3>1
    <3> QED BY <3>2
  <2>6. ASSUME NEW j \in 1..n, NEW k \in 1..n, j < k PROVE down[j] > down[k]
    <3>1. /\ (n - k) + 1 \in 1..n /\ (n - j) + 1 \in 1..n /\ (n - k) + 1 < (n - j) + 1
          /\ down[j] = up[(n - j) + 1] /\ down[k] = up[(n - k) + 1]
      BY <1>3, <2>2, <2>3, <2>6
    <3>2. down[k] < down[j] /\ down[k] \in Nat /\ down[j] \in Nat
      BY <1>4, <3>1
    <3> QED BY <3>2
  <2> QED BY <1>4, <1>5, <1>7, <2>1, <2>4, <2>5, <2>6 DEF BestOn, Better
<1> QED BY <1>6, <1>7

BetterOnes(side, S, p) == {q \in S : q # p /\ best_of(side, {p, q}) = q}

Ranked(side, S, p, k) == p \in S /\ Cardinality(BetterOnes(side, S, p)) = k - 1

(* The k-th best price has k - 1 prices before it.                         *)
LEMMA RankOfPrice ==
  ASSUME NEW side \in Sides, NEW S, S \subseteq Nat, NEW seq, BestOn(seq, S, side),
         NEW k \in 1..Len(seq), NEW p, p = seq[k]
  PROVE  Ranked(side, S, p, k)
<1>1. PICK n : n = Len(seq) /\ n \in Nat /\ k \in 1..n
  BY DEF BestOn
<1>2. /\ \A j \in 1..n : seq[j] \in S /\ seq[j] \in Nat
      /\ \A q \in S : \E j \in 1..n : seq[j] = q
      /\ \A i, j \in 1..n : i < j => Better(side, seq[i], seq[j])
  <2>1. seq \in Seq(S)
    BY DEF BestOn
  <2>2. \A j \in 1..n : seq[j] \in S
    BY <1>1, <2>1
  <2> QED BY <1>1, <2>2 DEF BestOn
<1>3. p \in S /\ p \in Nat
  BY <1>1, <1>2
<1>4. PICK before : before = {q \in S : q # p /\ best_of(side, {p, q}) = q}
  OBVIOUS
<1>5. ASSUME NEW q \in S PROVE q \in before <=> Better(side, q, p)
  <2>1. q \in Nat /\ {p, q} \subseteq Nat /\ {p, q} # {}
    BY <1>3
  <2>2. PICK b \in Nat : p <= b /\ q <= b
    <3>1. p + q \in Nat /\ p <= p + q /\ q <= p + q
      BY <1>3, <2>1
    <3> QED BY <3>1
  <2>3. PICK best, both : both = {p, q} /\ best = best_of(side, both)
    OBVIOUS
  <2>4. /\ best \in {p, q}
        /\ \A r \in {p, q} : IF side = "buy" THEN best >= r ELSE best <= r
    <3>1. both \subseteq Nat /\ both # {} /\ \A r \in both : r <= b
      BY <2>1, <2>2, <2>3
    <3>2. /\ best_of(side, both) \in both
          /\ \A r \in both : IF side = "buy" THEN best_of(side, both) >= r ELSE best_of(side, both) <= r
      BY ONLY <3>1, side \in Sides, b \in Nat, BestOfIsBest
    <3> QED BY <2>3, <3>2
  <2>5. q \in before <=> q # p /\ best = q
    BY <1>4, <2>3
  <2>6. side \in {"buy", "sell"}
    BY DEF Sides
  <2> QED BY <1>3, <2>1, <2>4, <2>5, <2>6 DEF Better
<1>6. PICK at : at = [j \in 1..k - 1 |-> seq[j]]
  OBVIOUS
<1>7. \A j \in 1..k - 1 : j \in 1..n /\ j < k
  BY <1>1
<1>8. ASSUME NEW j \in 1..k - 1 PROVE at[j] \in before /\ at[j] = seq[j]
  <2>1. at[j] = seq[j] /\ seq[j] \in S
    BY <1>2, <1>6, <1>7
  <2>2. Better(side, seq[j], p)
    BY <1>1, <1>2, <1>7
  <2> QED BY <1>5, <2>1, <2>2
<1>9. ASSUME NEW q \in before PROVE \E j \in 1..k - 1 : at[j] = q
  <2>1. q \in S /\ q \in Nat /\ Better(side, q, p)
    BY <1>4, <1>5
  <2>2. PICK j \in 1..n : seq[j] = q
    BY <1>2, <2>1
  <2>3. j # k /\ ~(k < j)
    BY <1>1, <1>2, <1>3, <2>1, <2>2 DEF Better
  <2>4. j \in 1..k - 1
    BY <1>1, <2>3
  <2> QED BY <1>8, <2>2, <2>4
<1>10. ASSUME NEW i \in 1..k - 1, NEW j \in 1..k - 1, at[i] = at[j] PROVE i = j
  <2>1. seq[i] = seq[j] /\ seq[i] \in Nat /\ i \in 1..n /\ j \in 1..n
    BY <1>2, <1>7, <1>8, <1>10
  <2>2. ~(i < j) /\ ~(j < i)
    BY <1>2, <2>1 DEF Better
  <2> QED BY <1>1, <2>1, <2>2
<1>11. at \in Bijection(1..k - 1, before)
  <2>1. at \in [1..k - 1 -> before]
    BY <1>6, <1>8
  <2> QED BY <1>9, <1>10, <2>1 DEF Bijection, Injection, Surjection, IsInjective
<1>12. IsFiniteSet(1..k - 1) /\ Cardinality(1..k - 1) = k - 1
  <2>1. k - 1 \in Nat
    BY <1>1
  <2> QED BY ONLY <2>1, FS_Interval
<1>13. Cardinality(before) = k - 1
  BY <1>11, <1>12, FS_Bijection DEF ExistsBijection
<1> QED BY <1>3, <1>4, <1>13 DEF BetterOnes, Ranked

\* What one level of the depth says.
LevelMatches(m, side, inlog, level, k) ==
  LET p == level.price
      open == OpenInLog(m, side, p)
      left == Total(LeftInLog(m, side, p))
  IN /\ p \in inlog
     /\ Cardinality(BetterOnes(side, inlog, p)) = k - 1
     /\ level.order_count = Cardinality(open)
     /\ left < WORD => level.total_qty = left

(* A level served is what the log gives at its price.                      *)
LEMMA LevelRead ==
  ASSUME Readable, NEW m \in DOMAIN books, NEW side \in Sides,
         NEW seq, BestOn(seq, DOMAIN books[m].queues[side], side), NEW k \in 1..Len(seq),
         NEW level, level = PriceLevel(books[m], side, seq[k])
  PROVE  LevelMatches(m, side, PricesInLog(m, side), level, k)
<1>1. PICK book, p, inlog : /\ book = books[m] /\ p = seq[k]
                            /\ inlog = DOMAIN book.queues[side] /\ inlog = PricesInLog(m, side)
  BY PricesAgree
<1>2. inlog \subseteq Nat
  BY <1>1 DEF Readable, EngineInv, BooksFit, BookFits, IsBook, IsMap
<1>3. Ranked(side, inlog, p, k) /\ p \in inlog
  <2>1. BestOn(seq, inlog, side) /\ k \in 1..Len(seq) /\ p = seq[k]
    BY <1>1
  <2>2. Ranked(side, inlog, p, k)
    BY ONLY <1>2, <2>1, side \in Sides, RankOfPrice
  <2> QED BY <2>2 DEF Ranked
<1>4. PICK left, shown, open, at :
        /\ left = LeftInLog(m, side, p) /\ shown = ShownAt(book, side, p) /\ open = OpenInLog(m, side, p)
        /\ left \in Seq(Nat) /\ Chooses(shown, left, at, open) /\ Len(at) = Len(book.queues[side][p])
  <2>1. PICK left, shown, open : /\ left = LeftInLog(m, side, p) /\ shown = ShownAt(book, side, p)
                                 /\ open = OpenInLog(m, side, p)
    OBVIOUS
  <2>2. p \in DOMAIN books[m].queues[side]
    BY <1>1, <1>3
  <2>3. left \in Seq(Nat) /\ \E at : Chooses(shown, left, at, open) /\ Len(at) = Len(book.queues[side][p])
    BY <1>1, <2>1, <2>2, LevelShows
  <2> QED BY <2>1, <2>3
<1>5. level.price = p /\ level.total_qty = Total(shown) % WORD /\ level.order_count = Len(at)
  <2>1. /\ level = [ price |-> p, total_qty |-> total_qty(book, side, p),
                     order_count |-> Len(book.queues[side][p]) ]
    BY <1>1 DEF PriceLevel
  <2>2. total_qty(book, side, p) = Total(shown) % WORD
    BY <1>4, Zenon DEF total_qty, ShownAt
  <2> QED BY <1>4, <2>1, <2>2
<1>6. Cardinality(open) = Len(at)
  <2>1. DOMAIN left \subseteq Nat
    BY <1>4
  <2> QED BY <1>4, <2>1, CountOfChosen
<1>7. Total(left) = Total(shown) /\ Total(shown) \in Nat
  <2>1. \A i \in 1..Len(left) : i \in open \/ left[i] = 0
    <3>1. \A i \in DOMAIN log : left[i] = IF i \in open THEN LogRemaining(i) ELSE 0
      BY <1>4 DEF LeftInLog
    <3>2. DOMAIN left = DOMAIN log
      BY <1>4 DEF LeftInLog
    <3> QED BY <1>4, <3>1, <3>2
  <2> QED BY <1>4, <2>1, TotalOfChosen
<1>8. Total(left) < WORD => Total(shown) % WORD = Total(left)
  <2>1. WORD \in Nat \ {0}
    BY RestAssumption
  <2>2. PICK sum \in Nat : sum = Total(shown)
    BY <1>7
  <2>3. sum < WORD => sum % WORD = sum
    BY <2>1
  <2> QED BY <1>7, <2>2, <2>3
<1> QED BY <1>1, <1>3, <1>4, <1>5, <1>6, <1>8 DEF LevelMatches, Ranked

\* What a client reads of one side.
SideMatches(m, side, depth) ==
  LET book == get_book(m, depth)
      levels == IF side = "buy" THEN book.bids ELSE book.asks
      inlog == PricesInLog(m, side)
  IN /\ Len(levels) = Min({depth, MaxDepth, Cardinality(inlog)})
     /\ \A k \in DOMAIN levels : LevelMatches(m, side, inlog, levels[k], k)

(* So is a side, cut at the depth asked for.                               *)
LEMMA SideRead ==
  ASSUME Readable, NEW m \in DOMAIN books, NEW side \in Sides, NEW depth \in Nat
  PROVE  SideMatches(m, side, depth)
<1>1. PICK book, levels, inlog, prices_on, most :
        /\ book = books[m] /\ levels = (IF side = "buy" THEN get_book(m, depth).bids
                                        ELSE get_book(m, depth).asks)
        /\ inlog = PricesInLog(m, side) /\ prices_on = best_first(book, side)
        /\ most = Min({depth, MaxDepth})
  OBVIOUS
<1>2. inlog = DOMAIN book.queues[side] /\ inlog \subseteq Nat /\ IsFiniteSet(inlog)
  <2>1. inlog = DOMAIN book.queues[side]
    BY <1>1, PricesAgree
  <2>2. inlog \subseteq Nat
    BY <1>1, <2>1 DEF Readable, EngineInv, BooksFit, BookFits, IsBook, IsMap
  <2>3. PICK b \in Nat : \A p \in inlog : p <= b
    BY <1>1, <2>1 DEF Readable, EngineInv, BooksFit, BookFits, LevelsBounded
  <2> QED BY <2>1, <2>2, <2>3, FS_BoundedSetOfNaturals
<1>3. BestOn(prices_on, inlog, side)
  BY <1>1, <1>2, BestFirstSorts
<1>4. PICK n : n = Len(prices_on) /\ n = Cardinality(inlog) /\ n \in Nat /\ prices_on \in Seq(inlog)
  BY <1>3 DEF BestOn
<1>5. most \in Nat /\ most = IF depth <= MaxDepth THEN depth ELSE MaxDepth
  <2>1. MaxDepth \in Nat
    BY RestAssumption
  <2> QED BY <1>1, <2>1 DEF Min
<1>6. levels = l2(book, side, most)
  <2>1. get_book(m, depth) = [ code |-> "OK", bids |-> l2(book, "buy", most), asks |-> l2(book, "sell", most) ]
    BY <1>1 DEF get_book
  <2> QED BY <1>1, <2>1 DEF Sides
<1>7. PICK len \in 0..n : /\ first(prices_on, most) = SubSeq(prices_on, 1, len)
                          /\ len = IF most <= n THEN most ELSE n
  BY <1>4, <1>5, FirstOf
<1>8. PICK served : /\ served = first(prices_on, most)
                    /\ served = [k \in 1..len |-> prices_on[k]]
  BY <1>4, <1>7, FirstEntries
<1>9. levels = [k \in 1..len |-> PriceLevel(book, side, served[k])]
  <2>1. DOMAIN served = 1..len
    BY <1>8
  <2> QED BY <1>1, <1>6, <1>8, <2>1, Zenon DEF l2
<1>10. Len(levels) = len /\ DOMAIN levels = 1..len
  <2>1. len \in Nat
    BY <1>4, <1>7
  <2> QED BY <1>9, <2>1
<1>11. len = Min({depth, MaxDepth, Cardinality(inlog)})
  <2>1. MaxDepth \in Nat
    BY RestAssumption
  <2>2. len \in {depth, MaxDepth, n} /\ len <= depth /\ len <= MaxDepth /\ len <= n
    BY <1>4, <1>5, <1>7, <2>1
  <2>3. Min({depth, MaxDepth, n}) = len
    BY <1>4, <2>1, <2>2 DEF Min
  <2> QED BY <1>4, <2>3
<1>12. ASSUME NEW k \in 1..len PROVE LevelMatches(m, side, inlog, levels[k], k)
  <2>1. k \in 1..Len(prices_on) /\ levels[k] = PriceLevel(book, side, prices_on[k])
    BY <1>4, <1>7, <1>8, <1>9
  <2>2. BestOn(prices_on, DOMAIN books[m].queues[side], side)
    BY <1>1, <1>2, <1>3
  <2> QED BY <1>1, <2>1, <2>2, LevelRead
<1> QED BY <1>1, <1>10, <1>11, <1>12 DEF SideMatches

(* The depth a client sees is what the log leaves of the accepted orders,  *)
(* the cancellations of a cancel-all not counted: the best prices in       *)
(* order, with the number of open orders and the lots they have left, for  *)
(* any depth asked for, as long as the sum fits a u64.                     *)
THEOREM SpecDepthMatchesLog == Spec => []DepthMatchesLog
<1>1. Readable => DepthMatchesLog
  <2>1. SUFFICES ASSUME Readable, NEW m \in DOMAIN books, NEW side \in Sides,
                        NEW depth \in 0 .. MaxDepth + 1
                 PROVE  SideMatches(m, side, depth)
    BY Zenon DEF DepthMatchesLog, SideMatches, LevelMatches, LeftInLog, BetterOnes, Readable
  <2>2. depth \in Nat
    BY RestAssumption
  <2> QED BY <2>1, <2>2, SideRead
<1>2. stage # "idle" => DepthMatchesLog
  BY DEF DepthMatchesLog
<1>3. /\ EngineInv /\ QueueInv /\ LogInv /\ NoncesRise /\ FillInv /\ PlacesInv /\ EntryInv
      => DepthMatchesLog
  BY <1>1, <1>2 DEF Readable
<1> QED BY <1>3, SpecEngineInv, SpecQueueInv, SpecLogInv, SpecNoncesRise, SpecFillInv, SpecPlacesInv,
           SpecEntryInv, PTL

-----------------------------------------------------------------------------
(* Orders as signed, and sums as Exchange takes them *)

(* Exchange's sum is the sum of the log.                                   *)
LEMMA PromiseSum ==
  ASSUME NEW amounts
  PROVE  Promise!Sum(amounts) = Total(amounts)
BY DEF Promise!Sum, Promise!FoldLeft, Promise!MapThenFoldSet, Promise!Max,
       Total, FoldLeft, MapThenFoldSet, Max

\* What the signature of id is read from.
SignedRead == \A i \in Accepted : SignedAs(OrderAt(i).order_id) = OrderAt(i).signed

(* An id names one accepted order, so it has one signed order.             *)
LEMMA SignedIsRead == EngineInv /\ LogInv /\ NoncesRise => SignedRead
<1> SUFFICES ASSUME EngineInv, LogInv, NoncesRise, NEW i \in Accepted
             PROVE  SignedAs(OrderAt(i).order_id) = OrderAt(i).signed
  BY DEF SignedRead
<1>1. PICK id, all : id = OrderAt(i).order_id /\ all = {OrderAt(j) : j \in Accepted}
  OBVIOUS
<1>2. PICK found : found = CHOOSE order \in all : order.order_id = id
  OBVIOUS
<1>3. found \in all /\ found.order_id = id
  BY <1>1, <1>2
<1>4. PICK j \in Accepted : found = OrderAt(j)
  BY <1>1, <1>3
<1>5. i = j
  BY <1>1, <1>3, <1>4, DistinctOrders
<1> QED BY <1>1, <1>2, <1>4, <1>5 DEF SignedAs

(* The same of the next state.                                             *)
LEMMA SignedIsReadNext == (EngineInv /\ LogInv /\ NoncesRise)' => SignedRead'
BY SignedIsRead, PTL

(* The signed order of an id stays what it was.                            *)
LEMMA SignedKept ==
  ASSUME EngineInv, LogInv, NoncesRise, EngineInv', LogInv', NoncesRise', LogGrows, IdsAccepted,
         NEW id \in 1..uuids
  PROVE  SignedAs(id)' = SignedAs(id)
<1>1. PICK i \in Accepted : OrderAt(i).order_id = id
  BY DEF IdsAccepted
<1>2. i \in Accepted' /\ OrderAt(i)' = OrderAt(i)
  BY <1>1, PositionsKept DEF Accepted, OrderAt
<1>3. SignedAs(id) = OrderAt(i).signed
  BY <1>1, SignedIsRead DEF SignedRead
<1>4. SignedAs(OrderAt(i).order_id)' = OrderAt(i).signed'
  BY <1>2, SignedIsReadNext DEF SignedRead
<1> QED BY <1>1, <1>2, <1>3, <1>4

-----------------------------------------------------------------------------
(* The fills of the call in progress *)

(* There is a taker while a call is in progress, and only then.            *)
LEMMA TakerThere ==
  ASSUME EngineInv
  PROVE  taker = NoOrder <=> ~InProcessOrder
BY NoOrderAssumption DEF EngineInv, CallFits

(* The log ends with the taker's acceptance and the fills recorded so far. *)
LEMMA CallFillsType ==
  ASSUME EngineInv, LogInv, InProcessOrder
  PROVE  /\ taker.created_sequence \in 1..Len(log) /\ Len(log) \in Nat
         /\ LoggedFills \in Seq(Fills) /\ fills \in Seq(Fills) /\ CallFills \in Seq(Fills)
         /\ Len(LoggedFills) = Len(log) - taker.created_sequence
         /\ CallFills = LoggedFills \o fills
         /\ \A k \in taker.created_sequence + 1 .. Len(log) : log[k].event.type = "fill"
<1>1. PICK c : c = taker.created_sequence
  OBVIOUS
<1>2. log \in Seq(SequencedEvents) /\ fills \in Seq(Fills) /\ taker # NoOrder
  BY TakerThere DEF EngineInv, TypeOK, SequencerTypes, CallTypes
<1>3. Len(log) \in Nat /\ DOMAIN log = 1..Len(log)
  BY <1>2, LenProperties
<1>4. c \in 1..Len(log)
  BY <1>1, <1>3 DEF LogInv, CallRecorded, AcceptedAs, Recorded, Accepted
<1>5. ASSUME NEW k \in c + 1 .. Len(log) PROVE log[k].event.type = "fill" /\ log[k].event.fill \in Fills
  <2>1. k \in FillPositions
    BY <1>1 DEF LogInv, CallRecorded, FillsTaker
  <2>2. log[k] \in SequencedEvents /\ log[k].event.type = "fill"
    BY <1>2, <2>1, ElementOfSeq DEF FillPositions
  <2>3. log[k].event \in Events
    BY <2>2 DEF SequencedEvents
  <2> QED BY <2>2, <2>3 DEF Events
<1>6. PICK n : n = Len(log) - c
  OBVIOUS
<1>7. n \in Nat /\ \A k \in 1..n : c + k \in c + 1 .. Len(log)
  BY <1>3, <1>4, <1>6
<1>8. LoggedFills = [k \in 1..n |-> log[c + k].event.fill]
  BY <1>1, <1>6 DEF LoggedFills
<1>9. LoggedFills \in Seq(Fills) /\ Len(LoggedFills) = n
  <2>1. \A k \in 1..n : log[c + k].event.fill \in Fills
    BY <1>5, <1>7
  <2> QED BY <1>7, <1>8, <2>1
<1>10. CallFills = LoggedFills \o fills /\ CallFills \in Seq(Fills)
  BY <1>2, <1>9, ConcatProperties DEF CallFills
<1> QED BY <1>1, <1>2, <1>3, <1>4, <1>5, <1>6, <1>9, <1>10

(* Moving the head of one list to the end of another keeps them joined.    *)
LEMMA HeadMoves ==
  ASSUME NEW S, NEW a \in Seq(S), NEW b \in Seq(S), b # << >>
  PROVE  Append(a, Head(b)) \o Tail(b) = a \o b
OBVIOUS

(* Recording a fill moves it from the pending to the logged ones.          *)
LEMMA RecordFillKeepsCall ==
  ASSUME EngineInv, QueueInv, LogInv, RecordFill, EngineInv', LogInv'
  PROVE  CallFills' = CallFills /\ LoggedFills' = Append(LoggedFills, Head(fills))
<1>1. PICK c, fill : c = taker.created_sequence /\ fill = Head(fills)
  OBVIOUS
<1>2. /\ InProcessOrder /\ InProcessOrder' /\ fills # << >> /\ fills' = Tail(fills) /\ taker' = taker
      /\ append_event([type |-> "fill", fill |-> fill])
  BY <1>1 DEF RecordFill, InProcessOrder
<1>3. /\ c \in 1..Len(log) /\ Len(log) \in Nat
      /\ LoggedFills \in Seq(Fills) /\ fills \in Seq(Fills)
      /\ Len(LoggedFills) = Len(log) - c /\ CallFills = LoggedFills \o fills
  BY <1>1, <1>2, CallFillsType
<1>4. fill \in Fills
  BY <1>1, <1>2, <1>3, HeadTailProperties
<1>5. PICK event : event = [type |-> "fill", fill |-> fill]
  OBVIOUS
<1>6. event \in Events /\ event.fill = fill /\ append_event(event) /\ SequencerTypes
  BY <1>2, <1>4, <1>5 DEF Events, EngineInv, TypeOK
<1>7. /\ Len(log') = Len(log) + 1 /\ log'[Len(log) + 1].event.fill = fill
      /\ \A i \in 1..Len(log) : log'[i] = log[i]
  <2>1. /\ Len(log') = Len(log) + 1
        /\ log'[Len(log) + 1] = [seq_id |-> next_seq_id, event |-> event]
        /\ DOMAIN log = 1..Len(log) /\ \A i \in DOMAIN log : log'[i] = log[i]
    BY <1>6, AppendEventType
  <2> QED BY <1>6, <2>1
<1>8. PICK n : n = Len(log) - c
  OBVIOUS
<1>9. n \in Nat /\ Len(log') - c = n + 1 /\ c + (n + 1) = Len(log) + 1
      /\ \A k \in 1..n : c + k \in 1..Len(log)
  <2>1. c \in 1..Len(log) /\ Len(log) \in Nat /\ Len(log') = Len(log) + 1
    BY <1>3, <1>7
  <2> QED BY ONLY <1>8, <2>1
<1>10. LoggedFills' = [k \in 1..n + 1 |-> log'[c + k].event.fill]
  BY <1>1, <1>2, <1>9 DEF LoggedFills
<1>11. LoggedFills = [k \in 1..n |-> log[c + k].event.fill]
  BY <1>1, <1>8 DEF LoggedFills
<1>12. LoggedFills' = Append(LoggedFills, fill)
  <2>1. \A k \in 1..n : log'[c + k].event.fill = LoggedFills[k]
    BY <1>7, <1>9, <1>11
  <2>2. log'[c + (n + 1)].event.fill = fill
    BY <1>7, <1>9
  <2>3. PICK logged : logged = LoggedFills
    OBVIOUS
  <2>4. logged \in Seq(Fills) /\ Len(logged) = n
    BY <1>3, <1>8, <2>3
  <2>5. Append(logged, fill) = [k \in 1..n + 1 |-> IF k = n + 1 THEN fill ELSE logged[k]]
    <3>1. PICK more : more = Append(logged, fill)
      OBVIOUS
    <3>2. more \in Seq(Fills) /\ Len(more) = n + 1
          /\ \A k \in 1..n : more[k] = logged[k] /\ more[n + 1] = fill
      BY <1>4, <1>9, <2>4, <3>1, AppendProperties
    <3>3. more = [k \in 1..n + 1 |-> more[k]]
      BY <3>2, LenProperties
    <3>4. \A k \in 1..n + 1 : more[k] = IF k = n + 1 THEN fill ELSE logged[k]
      BY <1>4, <1>9, <2>4, <3>1
    <3> QED BY <3>1, <3>3, <3>4
  <2>6. \A k \in 1..n + 1 : k \in 1..n \/ k = n + 1
    BY <1>9
  <2>7. \A k \in 1..n + 1 : log'[c + k].event.fill = IF k = n + 1 THEN fill ELSE logged[k]
    BY <1>9, <2>1, <2>2, <2>3, <2>6
  <2> QED BY <1>10, <2>3, <2>5, <2>7
<1>13. CallFills' = LoggedFills' \o fills'
  BY <1>2, TakerThere DEF CallFills, EngineInv, CallFits, InProcessOrder
<1> QED BY <1>1, <1>2, <1>3, <1>12, <1>13, HeadMoves

(* A fill that the loop makes is the call's last.                          *)
LEMMA FillGrowsCall ==
  ASSUME EngineInv, LogInv, InProcessOrder, UNCHANGED log, InProcessOrder', EngineInv',
         taker'.created_sequence = taker.created_sequence
  PROVE  /\ fills' = fills => CallFills' = CallFills
         /\ \A new \in Fills : fills' = Append(fills, new) => CallFills' = Append(CallFills, new)
<1>1. LoggedFills' = LoggedFills
  BY DEF LoggedFills
<1>2. /\ LoggedFills \in Seq(Fills) /\ fills \in Seq(Fills) /\ CallFills = LoggedFills \o fills
  BY CallFillsType
<1>3. CallFills' = LoggedFills' \o fills'
  BY NoOrderAssumption DEF CallFills, EngineInv, CallFits
<1>4. ASSUME NEW a \in Seq(Fills), NEW b \in Seq(Fills), NEW new \in Fills
      PROVE  a \o Append(b, new) = Append(a \o b, new)
  OBVIOUS
<1> QED BY <1>1, <1>2, <1>3, <1>4

(* A call begins with none.                                                *)
LEMMA CallBeginsEmpty ==
  ASSUME EngineInv, EngineInv', NEW order, Begins(order)
  PROVE  CallFills = << >> /\ CallFills' = << >>
<1>1. /\ taker = NoOrder /\ taker' = order /\ InProcessOrder' /\ fills' = << >>
      /\ Len(log') = Len(log) + 1 /\ Len(log) \in Nat /\ order.created_sequence = Len(log) + 1
  BY DEF Begins
<1>2. taker' # NoOrder
  BY <1>1, NoOrderAssumption DEF EngineInv, CallFits
<1>3. LoggedFills' = << >>
  <2>1. 1 .. Len(log') - taker'.created_sequence = {}
    BY <1>1
  <2> QED BY <2>1 DEF LoggedFills
<1>4. << >> \o << >> = << >>
  OBVIOUS
<1> QED BY <1>1, <1>2, <1>3, <1>4 DEF CallFills

-----------------------------------------------------------------------------
(* What the fills of a call say of its makers *)

\* The open orders that an order could trade with.
OpenFor(orders, order) ==
  {id \in DOMAIN orders :
     /\ ~is_closed(orders[id])
     /\ orders[id].signed.side = Opposite(order.signed.side)
     /\ Reaches(order, orders[id].signed.price_ticks)}

AheadOfAll(orders, order, id) ==
  id \in OpenFor(orders, order)
    /\ \A other \in OpenFor(orders, order) : other # id => OutRanks(orders[id], orders[other])

MadeWith(orders, order, fill) ==
  LET maker == orders[fill.maker_order_id] IN
  /\ fill.maker_order_id \in DOMAIN orders
  /\ maker.signed.side = Opposite(order.signed.side)
  /\ Reaches(order, maker.signed.price_ticks)
  /\ maker.signed.trader_id # order.signed.trader_id
  /\ fill.price_ticks = maker.signed.price_ticks /\ fill.size_lots > 0
  /\ \/ maker.status = "filled"
     \/ ~is_closed(maker) /\ remaining_size_lots(order) = 0

\* The makers come in line, and all but the last are filled.
MakersInLine(orders, list) ==
  \A j, k \in DOMAIN list :
    j < k => /\ OutRanks(orders[list[j].maker_order_id], orders[list[k].maker_order_id])
             /\ orders[list[j].maker_order_id].status = "filled"

\* Nothing open comes before a maker.
MakersFirst(orders, order, list) ==
  \A k \in DOMAIN list : \A id \in OpenFor(orders, order) :
    id # list[k].maker_order_id => OutRanks(orders[list[k].maker_order_id], orders[id])

\* Self-trade prevention stops an order at its trader's own, and with lots left.
StoppedByOwn(orders, order) ==
  /\ remaining_size_lots(order) > 0
  /\ \E own \in DOMAIN orders :
       AheadOfAll(orders, order, own) /\ orders[own].signed.trader_id = order.signed.trader_id

AmountsOf(list, id) ==
  [k \in DOMAIN list |-> IF list[k].maker_order_id = id THEN list[k].size_lots ELSE 0]

TakenIn(list, id) == Total(AmountsOf(list, id))

TakenOfAll(list, n) == [id \in 1..n |-> TakenIn(list, id)]

CallSound(orders, order, list) ==
  /\ list \in Seq(Fills)
  /\ \A k \in DOMAIN list : MadeWith(orders, order, list[k])
  /\ MakersInLine(orders, list) /\ MakersFirst(orders, order, list)
  /\ order.status = "cancelled_stp" => StoppedByOwn(orders, order)
  /\ Total(TakenOfAll(list, order.order_id - 1)) = order.filled_size_lots

CallInv ==
  InProcessOrder => CallSound(books[taker.signed.market_id].orders, taker, CallFills)

(* What the fills took from an order is a sum of naturals.                 *)
LEMMA AmountsType ==
  ASSUME NEW list \in Seq(Fills), NEW id
  PROVE  /\ AmountsOf(list, id) \in Seq(Nat) /\ Len(AmountsOf(list, id)) = Len(list)
         /\ TakenIn(list, id) \in Nat
<1>1. \A k \in DOMAIN list : list[k] \in Fills /\ list[k].size_lots \in Nat
  <2>1. \A fill \in Fills : fill.size_lots \in Nat
    BY DEF Fills
  <2>2. \A k \in DOMAIN list : list[k] \in Fills
    OBVIOUS
  <2> QED BY <2>1, <2>2
<1>2. AmountsOf(list, id) \in Seq(Nat) /\ Len(AmountsOf(list, id)) = Len(list)
  BY <1>1 DEF AmountsOf
<1>3. TakenIn(list, id) \in Nat
  <2>1. PICK amounts : amounts = AmountsOf(list, id)
    OBVIOUS
  <2>2. amounts \in Seq(Nat)
    BY <1>2, <2>1
  <2>3. Total(amounts) \in Nat
    BY <2>2, TotalAtMost
  <2> QED BY <2>1, <2>3 DEF TakenIn
<1> QED BY <1>2, <1>3

(* So is what they took from all.                                          *)
LEMMA TakenOfAllType ==
  ASSUME NEW list \in Seq(Fills), NEW n \in Nat
  PROVE  /\ TakenOfAll(list, n) \in Seq(Nat) /\ Len(TakenOfAll(list, n)) = n
         /\ Total(TakenOfAll(list, n)) \in Nat
<1>1. \A id \in 1..n : TakenIn(list, id) \in Nat
  BY AmountsType
<1>2. TakenOfAll(list, n) \in Seq(Nat) /\ Len(TakenOfAll(list, n)) = n
  BY <1>1 DEF TakenOfAll
<1>3. PICK amounts : amounts = TakenOfAll(list, n)
  OBVIOUS
<1>4. Total(amounts) \in Nat
  BY <1>2, <1>3, TotalAtMost
<1> QED BY <1>2, <1>3, <1>4

(* What is taken when one more fill is made.                               *)
LEMMA TakenAfter ==
  ASSUME NEW list \in Seq(Fills), NEW fill \in Fills, NEW id
  PROVE  TakenIn(Append(list, fill), id)
           = TakenIn(list, id) + (IF fill.maker_order_id = id THEN fill.size_lots ELSE 0)
<1>1. PICK amount : amount = IF fill.maker_order_id = id THEN fill.size_lots ELSE 0
  OBVIOUS
<1>2. amount \in Nat
  BY <1>1 DEF Fills
<1>3. PICK amounts : amounts = AmountsOf(list, id)
  OBVIOUS
<1>4. amounts \in Seq(Nat) /\ Len(amounts) = Len(list)
  BY <1>3, AmountsType
<1>5. AmountsOf(Append(list, fill), id) = Append(amounts, amount)
  <2>1. PICK more, n : more = Append(list, fill) /\ n = Len(list)
    OBVIOUS
  <2>2. /\ n \in Nat /\ DOMAIN more = 1..n + 1 /\ DOMAIN list = 1..n /\ more[n + 1] = fill
        /\ \A k \in 1..n : more[k] = list[k]
    BY <2>1
  <2>3. Append(amounts, amount) \in Seq(Nat) /\ Len(Append(amounts, amount)) = n + 1
        /\ Append(amounts, amount)[n + 1] = amount
        /\ \A k \in 1..n : Append(amounts, amount)[k] = amounts[k]
    BY <1>2, <1>4, <2>1, <2>2
  <2>4. AmountsOf(more, id) = [k \in 1..n + 1 |-> IF more[k].maker_order_id = id THEN more[k].size_lots ELSE 0]
    BY <2>2 DEF AmountsOf
  <2>5. \A k \in 1..n : amounts[k] = IF list[k].maker_order_id = id THEN list[k].size_lots ELSE 0
    BY <1>3, <2>2 DEF AmountsOf
  <2>6. Append(amounts, amount) = [k \in 1..n + 1 |-> Append(amounts, amount)[k]]
    BY <2>3, LenProperties
  <2>7. \A k \in 1..n + 1 : k \in 1..n \/ k = n + 1
    BY <2>2
  <2>8. \A k \in 1..n + 1 : Append(amounts, amount)[k]
                            = IF more[k].maker_order_id = id THEN more[k].size_lots ELSE 0
    BY <1>1, <2>2, <2>3, <2>5, <2>7
  <2> QED BY <2>1, <2>4, <2>6, <2>8
<1>6. Total(Append(amounts, amount)) = Total(amounts) + amount
  BY <1>2, <1>4, TotalOfAppend
<1> QED BY <1>1, <1>3, <1>5, <1>6 DEF TakenIn

(* And of all together.                                                    *)
LEMMA TakenOfAllAfter ==
  ASSUME NEW list \in Seq(Fills), NEW fill \in Fills, NEW n \in Nat,
         fill.maker_order_id \in 1..n
  PROVE  Total(TakenOfAll(Append(list, fill), n)) = Total(TakenOfAll(list, n)) + fill.size_lots
<1>1. PICK before, after, p, size :
        /\ before = TakenOfAll(list, n) /\ after = TakenOfAll(Append(list, fill), n)
        /\ p = fill.maker_order_id /\ size = fill.size_lots
  OBVIOUS
<1>2. before \in Seq(Nat) /\ Len(before) = n
  BY <1>1, TakenOfAllType
<1>3. after \in Seq(Nat) /\ Len(after) = n
  <2>1. Append(list, fill) \in Seq(Fills)
    OBVIOUS
  <2> QED BY <1>1, <2>1, TakenOfAllType
<1>4. size \in Nat
  BY <1>1 DEF Fills
<1>5. \A id \in 1..n : before[id] = TakenIn(list, id) /\ after[id] = TakenIn(Append(list, fill), id)
  BY <1>1 DEF TakenOfAll
<1>6. \A id \in 1..n : TakenIn(list, id) \in Nat
  BY AmountsType
<1>7. after[p] = before[p] + size /\ p \in 1..Len(before)
  BY <1>1, <1>2, <1>5, TakenAfter
<1>8. \A id \in 1..Len(before) : id # p => after[id] = before[id]
  BY <1>1, <1>2, <1>5, <1>6, TakenAfter
<1>9. Total(after) = Total(before) + size
  BY <1>2, <1>3, <1>4, <1>7, <1>8, TotalChangedAt
<1> QED BY <1>1, <1>9

(* No fills took nothing.                                                  *)
LEMMA NothingTakenYet ==
  ASSUME NEW n \in Nat
  PROVE  Total(TakenOfAll(<< >>, n)) = 0 /\ \A id : TakenIn(<< >>, id) = 0
<1>1. ASSUME NEW id PROVE TakenIn(<< >>, id) = 0
  <2>1. AmountsOf(<< >>, id) = << >>
    BY DEF AmountsOf
  <2>2. << >> \in Seq(Nat) /\ \A k \in 1..Len(<< >>) : << >>[k] = 0
    OBVIOUS
  <2>3. Total(<< >>) = 0
    BY <2>2, TotalOfZeros
  <2> QED BY <2>1, <2>3 DEF TakenIn
<1>2. PICK amounts : amounts = TakenOfAll(<< >>, n)
  OBVIOUS
<1>3. amounts \in Seq(Nat) /\ Len(amounts) = n
  <2>1. << >> \in Seq(Fills)
    OBVIOUS
  <2> QED BY <1>2, <2>1, TakenOfAllType
<1>4. \A k \in 1..n : amounts[k] = 0
  BY <1>1, <1>2 DEF TakenOfAll
<1>5. Total(amounts) = 0
  BY <1>3, <1>4, TotalOfZeros
<1> QED BY <1>1, <1>2, <1>5

(* OutRanks reads nothing of an order that a fill changes.                 *)
LEMMA OutRanksKept ==
  ASSUME NEW a, NEW b, NEW x, NEW y, x.signed = a.signed, y.signed = b.signed,
         x.created_sequence = a.created_sequence, y.created_sequence = b.created_sequence
  PROVE  OutRanks(x, y) <=> OutRanks(a, b)
BY DEF OutRanks

\* One fill: of the maker id that is ahead of all, and filled becomes of it.
OneFill(orders, order, id, filled, taken, fill) ==
  /\ AheadOfAll(orders, order, id) /\ id \in OrderIds /\ id \in 1..order.order_id - 1
  /\ orders[id].signed.trader_id # order.signed.trader_id
  /\ filled.signed = orders[id].signed /\ filled.created_sequence = orders[id].created_sequence
  /\ taken.signed = order.signed /\ taken.order_id = order.order_id
  /\ taken.filled_size_lots = order.filled_size_lots + fill.size_lots
  /\ taken.status # "cancelled_stp"
  /\ \/ filled.status = "filled"
     \/ ~is_closed(filled) /\ remaining_size_lots(taken) = 0
  /\ fill \in Fills /\ fill.maker_order_id = id /\ fill.size_lots > 0
  /\ fill.price_ticks = orders[id].signed.price_ticks

(* A fill of the first in line keeps the call sound.                       *)
LEMMA SoundAfterFill ==
  ASSUME NEW orders, IsMap(orders, OrderIds, Orders), NEW order \in Orders, NEW list,
         CallSound(orders, order, list), remaining_size_lots(order) # 0,
         NEW id, NEW filled, NEW taken, NEW fill, OneFill(orders, order, id, filled, taken, fill),
         NEW after, after = [orders EXCEPT ![id] = filled]
  PROVE  CallSound(after, taken, Append(list, fill))
<1>1. /\ list \in Seq(Fills) /\ \A k \in DOMAIN list : MadeWith(orders, order, list[k])
      /\ MakersInLine(orders, list) /\ MakersFirst(orders, order, list)
      /\ Total(TakenOfAll(list, order.order_id - 1)) = order.filled_size_lots
  BY DEF CallSound
<1>2. /\ AheadOfAll(orders, order, id) /\ id \in 1..order.order_id - 1
      /\ orders[id].signed.trader_id # order.signed.trader_id
      /\ filled.signed = orders[id].signed /\ filled.created_sequence = orders[id].created_sequence
      /\ taken.signed = order.signed /\ taken.order_id = order.order_id
      /\ taken.filled_size_lots = order.filled_size_lots + fill.size_lots
      /\ taken.status # "cancelled_stp"
      /\ filled.status = "filled" \/ (~is_closed(filled) /\ remaining_size_lots(taken) = 0)
      /\ fill \in Fills /\ fill.maker_order_id = id /\ fill.size_lots > 0
      /\ fill.price_ticks = orders[id].signed.price_ticks
  BY DEF OneFill
<1>3. /\ id \in OpenFor(orders, order) /\ id \in DOMAIN orders /\ ~is_closed(orders[id])
      /\ orders[id].signed.side = Opposite(order.signed.side)
      /\ Reaches(order, orders[id].signed.price_ticks)
      /\ \A other \in OpenFor(orders, order) : other # id => OutRanks(orders[id], orders[other])
  BY <1>2 DEF AheadOfAll, OpenFor
<1>4. PICK more, n : more = Append(list, fill) /\ n = Len(list)
  OBVIOUS
<1>5. /\ more \in Seq(Fills) /\ n \in Nat /\ DOMAIN more = 1..n + 1 /\ DOMAIN list = 1..n
      /\ more[n + 1] = fill /\ \A k \in 1..n : more[k] = list[k]
  BY <1>1, <1>2, <1>4
<1>6. /\ DOMAIN after = DOMAIN orders /\ after[id] = filled
      /\ \A x \in DOMAIN orders : x # id => after[x] = orders[x]
  BY <1>3 DEF IsMap
<1>7. ASSUME NEW x \in DOMAIN orders
      PROVE  after[x].signed = orders[x].signed /\ after[x].created_sequence = orders[x].created_sequence
  BY <1>2, <1>6
<1>8. ASSUME NEW x \in DOMAIN orders, NEW y \in DOMAIN orders
      PROVE  OutRanks(after[x], after[y]) <=> OutRanks(orders[x], orders[y])
  BY <1>7, OutRanksKept
<1>9. OpenFor(after, taken) \subseteq OpenFor(orders, order)
  <2>1. ASSUME NEW x \in OpenFor(after, taken) PROVE x \in OpenFor(orders, order)
    <3>1. /\ x \in DOMAIN orders /\ ~is_closed(after[x])
          /\ after[x].signed.side = Opposite(taken.signed.side)
          /\ Reaches(taken, after[x].signed.price_ticks)
      BY <1>6, <2>1 DEF OpenFor
    <3>2. CASE x = id
      BY <1>3, <3>2
    <3>3. CASE x # id
      BY <1>2, <1>6, <3>1, <3>3 DEF OpenFor, Reaches
    <3> QED BY <3>2, <3>3
  <2> QED BY <2>1
<1>10. ASSUME NEW k \in 1..n
       PROVE  /\ list[k].maker_order_id \in DOMAIN orders /\ list[k].maker_order_id # id
              /\ orders[list[k].maker_order_id].status = "filled"
              /\ OutRanks(orders[list[k].maker_order_id], orders[id])
  <2>1. PICK maker : maker = list[k].maker_order_id
    OBVIOUS
  <2>2. maker \in DOMAIN orders /\ orders[maker].status = "filled"
    BY <1>1, <1>5, <2>1 DEF MadeWith
  <2>3. maker # id
    BY <1>3, <2>2 DEF is_closed
  <2>4. OutRanks(orders[maker], orders[id])
    BY <1>1, <1>3, <1>5, <2>1, <2>3 DEF MakersFirst
  <2> QED BY <2>1, <2>2, <2>3, <2>4
<1>11. ASSUME NEW k \in 1..n + 1
       PROVE  \/ k \in 1..n /\ more[k] = list[k]
              \/ k = n + 1 /\ more[k] = fill
  BY <1>5
<1>12. ASSUME NEW k \in DOMAIN more PROVE MadeWith(after, taken, more[k])
  <2>1. CASE k = n + 1
    BY <1>2, <1>3, <1>5, <1>6, <2>1 DEF MadeWith, Reaches
  <2>2. CASE k \in 1..n
    <3>1. PICK maker : maker = list[k].maker_order_id
      OBVIOUS
    <3>2. /\ more[k] = list[k] /\ maker \in DOMAIN orders /\ maker # id
          /\ orders[maker].status = "filled" /\ after[maker] = orders[maker]
      BY <1>5, <1>6, <1>10, <2>2, <3>1
    <3>3. MadeWith(orders, order, list[k])
      BY <1>1, <1>5, <2>2
    <3> QED BY <1>2, <1>6, <3>1, <3>2, <3>3 DEF MadeWith, Reaches
  <2> QED BY <1>5, <1>11, <2>1, <2>2
<1>13. MakersInLine(after, more)
  <2> SUFFICES ASSUME NEW j \in DOMAIN more, NEW k \in DOMAIN more, j < k
               PROVE  /\ OutRanks(after[more[j].maker_order_id], after[more[k].maker_order_id])
                      /\ after[more[j].maker_order_id].status = "filled"
    BY DEF MakersInLine
  <2>1. j \in 1..n /\ more[j] = list[j]
    BY <1>5
  <2>2. PICK maker : maker = list[j].maker_order_id
    OBVIOUS
  <2>3. maker \in DOMAIN orders /\ after[maker] = orders[maker] /\ orders[maker].status = "filled"
    BY <1>6, <1>10, <2>1, <2>2
  <2>4. CASE k = n + 1
    BY <1>2, <1>3, <1>5, <1>8, <1>10, <2>1, <2>2, <2>3, <2>4
  <2>5. CASE k \in 1..n
    <3>1. PICK next : next = list[k].maker_order_id
      OBVIOUS
    <3>2. next \in DOMAIN orders /\ OutRanks(orders[maker], orders[next])
      BY <1>1, <1>5, <1>10, <2>1, <2>2, <2>5, <3>1 DEF MakersInLine
    <3>3. OutRanks(after[maker], after[next])
      BY <1>8, <2>3, <3>2
    <3> QED BY <1>5, <2>1, <2>2, <2>3, <2>5, <3>1, <3>3
  <2> QED BY <1>5, <1>11, <2>4, <2>5
<1>14. MakersFirst(after, taken, more)
  <2> SUFFICES ASSUME NEW k \in DOMAIN more, NEW other \in OpenFor(after, taken),
                      other # more[k].maker_order_id
               PROVE  OutRanks(after[more[k].maker_order_id], after[other])
    BY DEF MakersFirst
  <2>1. other \in OpenFor(orders, order) /\ other \in DOMAIN orders
    BY <1>9 DEF OpenFor
  <2>2. CASE k = n + 1
    BY <1>2, <1>3, <1>5, <1>8, <2>1, <2>2
  <2>3. CASE k \in 1..n
    <3>1. PICK maker : maker = list[k].maker_order_id
      OBVIOUS
    <3>2. maker \in DOMAIN orders /\ more[k] = list[k] /\ other # maker
      BY <1>5, <1>10, <2>3, <3>1
    <3>3. OutRanks(orders[maker], orders[other])
      BY <1>1, <1>5, <2>1, <2>3, <3>1, <3>2 DEF MakersFirst
    <3> QED BY <1>8, <2>1, <3>1, <3>2, <3>3
  <2> QED BY <1>5, <1>11, <2>2, <2>3
<1>15. Total(TakenOfAll(more, taken.order_id - 1)) = taken.filled_size_lots
  <2>1. PICK last : last = order.order_id - 1
    OBVIOUS
  <2>2. last \in Nat
    BY <2>1 DEF Orders, OrderIds
  <2>3. Total(TakenOfAll(more, last)) = Total(TakenOfAll(list, last)) + fill.size_lots
    BY <1>1, <1>2, <1>4, <2>1, <2>2, TakenOfAllAfter
  <2> QED BY <1>1, <1>2, <2>1, <2>3
<1> QED BY <1>2, <1>4, <1>5, <1>12, <1>13, <1>14, <1>15 DEF CallSound

-----------------------------------------------------------------------------
(* Every step keeps the call sound *)

QuietInCall ==
  InProcessOrder /\ UNCHANGED <<books, taker, log, fills, markets, uuids, order_market_index>>

(* The steps that leave a call in progress.                                *)
LEMMA CallSteps ==
  ASSUME [Next]_vars, InProcessOrder'
  PROVE  \/ \E signed \in SignedOrders, now_ms \in Times : ProcessOrder(signed, now_ms)
         \/ MatchMaker \/ RecordFill \/ QuietInCall
<1>1. CASE NextLevel \/ EndMatch
  BY <1>1 DEF NextLevel, EndMatch, QuietInCall, InProcessOrder, engine_vars, sequencer_vars
<1>2. CASE UNCHANGED vars
  BY <1>2 DEF vars, QuietInCall, InProcessOrder, engine_vars, sequencer_vars, matching_vars
<1>3. CASE FinishOrder \/ CancelNext
  <2>1. stage' \in {"idle", "cancelling"}
    BY <1>3 DEF FinishOrder, CancelNext
  <2> QED BY <2>1 DEF InProcessOrder
<1>4. ASSUME NEW id, NEW trader_id, ProcessCancel(id, trader_id) PROVE FALSE
  BY <1>4 DEF ProcessCancel, InProcessOrder
<1>5. ASSUME NEW market_id, PauseMarket(market_id) \/ ResumeMarket(market_id) PROVE FALSE
  BY <1>5 DEF PauseMarket, ResumeMarket, SetStatus, InProcessOrder
<1>6. ASSUME NEW market_id, CancelAllOrders(market_id) PROVE FALSE
  BY <1>6 DEF CancelAllOrders, InProcessOrder
<1>7. CASE Call
  BY <1>4, <1>5, <1>6, <1>7 DEF Call, CancelByClientId
<1> QED BY <1>1, <1>2, <1>3, <1>7 DEF Next, Continue

(* The taker stopped at its trader's own order.                            *)
LEMMA SoundAfterStop ==
  ASSUME NEW orders, NEW order, NEW list, CallSound(orders, order, list),
         remaining_size_lots(order) > 0, NEW own, AheadOfAll(orders, order, own),
         orders[own].signed.trader_id = order.signed.trader_id,
         NEW stopped, stopped.signed = order.signed, stopped.order_id = order.order_id,
         stopped.filled_size_lots = order.filled_size_lots
  PROVE  CallSound(orders, stopped, list)
<1>1. OpenFor(orders, stopped) = OpenFor(orders, order)
  BY DEF OpenFor, Reaches
<1>2. remaining_size_lots(stopped) = remaining_size_lots(order)
  BY DEF remaining_size_lots
<1>3. StoppedByOwn(orders, stopped)
  <2>1. own \in DOMAIN orders /\ AheadOfAll(orders, stopped, own)
    BY <1>1 DEF AheadOfAll, OpenFor
  <2> QED BY <1>2, <2>1 DEF StoppedByOwn
<1>4. \A fill : MadeWith(orders, order, fill) => MadeWith(orders, stopped, fill)
  BY <1>2 DEF MadeWith, Reaches
<1>5. MakersFirst(orders, stopped, list)
  BY <1>1 DEF CallSound, MakersFirst
<1> QED BY <1>3, <1>4, <1>5 DEF CallSound

(* One round of the loop.                                                  *)
LEMMA MatchMakerCall ==
  ASSUME EngineInv, QueueInv, LogInv, CallInv, MatchMaker, EngineInv'
  PROVE  CallInv'
<1>1. PICK m, id : m = taker.signed.market_id /\ id = Head(maker_ids)
  OBVIOUS
<1>2. PICK book : book = books[m]
  OBVIOUS
<1>3. PICK maker : maker = book.orders[id]
  OBVIOUS
<1>4. /\ Wants(taker) /\ InProcessOrder /\ BookFits(book, m) /\ m \in DOMAIN books
      /\ id \in DOMAIN book.orders /\ RestsAt(maker, Opposite(taker.signed.side), price)
      /\ maker \in Orders /\ maker.order_id = id /\ maker.signed.market_id = m
      /\ maker.filled_size_lots <= maker.signed.size_lots
      /\ remaining_size_lots(maker) > 0
      /\ \/ self_trade(maker) /\ StpCancelTaker(maker)
         \/ ~self_trade(maker) /\ FillMaker(maker)
  BY <1>1, <1>2, <1>3, MatchMakerMeets
<1>5. /\ taker \in Orders /\ taker.filled_size_lots <= taker.signed.size_lots
      /\ remaining_size_lots(taker) > 0 /\ remaining_size_lots(taker) # 0
  <2>1. taker \in Orders /\ taker.filled_size_lots <= taker.signed.size_lots
    BY <1>4 DEF EngineInv, CallFits
  <2> QED BY <1>4, <2>1, Remainder DEF Wants
<1>6. UNCHANGED log /\ InProcessOrder' /\ SameOrder(taker', taker)
  BY MatchMakerRecorded
<1>7. PICK orders : orders = book.orders
  OBVIOUS
<1>8. AheadOfAll(orders, taker, id)
  <2>1. FirstInLine(id)
    BY <1>1, HeadFirstInLine
  <2>2. Tradable = OpenFor(orders, taker)
    BY <1>1, <1>2, <1>7 DEF Tradable, OpenFor, Reaches
  <2> QED BY <1>1, <1>2, <1>7, <2>1, <2>2 DEF FirstInLine, AheadOfAll
<1>9. CallSound(orders, taker, CallFills)
  BY <1>1, <1>2, <1>4, <1>7 DEF CallInv
<1>10. /\ taker'.signed = taker.signed /\ taker'.order_id = taker.order_id
       /\ taker'.created_sequence = taker.created_sequence
  BY <1>6 DEF SameOrder
<1>11. /\ fills' = fills => CallFills' = CallFills
       /\ \A new \in Fills : fills' = Append(fills, new) => CallFills' = Append(CallFills, new)
  BY <1>4, <1>6, <1>10, FillGrowsCall
<1>12. CASE self_trade(maker) /\ StpCancelTaker(maker)
  <2>1. /\ books' = books /\ CallFills' = CallFills
        /\ orders[id].signed.trader_id = taker.signed.trader_id
    BY <1>3, <1>7, <1>11, <1>12 DEF StpCancelTaker, self_trade
  <2>2. taker'.filled_size_lots = taker.filled_size_lots
    BY <1>5, <1>12 DEF StpCancelTaker, Orders
  <2>3. CallSound(orders, taker', CallFills)
    BY <1>5, <1>8, <1>9, <1>10, <2>1, <2>2, SoundAfterStop
  <2> QED BY <1>1, <1>2, <1>7, <1>10, <2>1, <2>3 DEF CallInv
<1>13. CASE ~self_trade(maker) /\ FillMaker(maker)
  <2>1. PICK qty, filled, taken, fill :
          /\ qty = fill_qty(maker) /\ filled = after_fill(maker, qty, taker.created_sequence)
          /\ taken = after_fill(taker, qty, taker.created_sequence) /\ fill = NewFill(maker, qty)
    OBVIOUS
  <2>2. /\ taker' = taken /\ fills' = Append(fills, fill)
        /\ books' = [books EXCEPT ![m] = update_maker(book, filled)]
    BY <1>1, <1>2, <1>13, <2>1 DEF FillMaker
  <2>3. /\ qty \in Nat /\ qty > 0
        /\ qty = remaining_size_lots(maker) \/ remaining_size_lots(taken) = 0
        /\ filled \in Orders /\ filled.signed = maker.signed /\ filled.order_id = id
        /\ filled.created_sequence = maker.created_sequence
    BY <1>4, <1>5, <2>1, FillMakerParts
  <2>4. qty <= remaining_size_lots(maker) /\ qty <= remaining_size_lots(taker)
    BY <1>4, <1>5, <2>1, FillQtyFits
  <2>5. filled.status = "filled" \/ (~is_closed(filled) /\ remaining_size_lots(taken) = 0)
    <3>1. is_closed(filled) <=> qty = remaining_size_lots(maker)
      <4>1. taker.created_sequence \in Nat
        BY <1>5 DEF Orders
      <4> QED BY <1>4, <2>1, <2>3, <2>4, <4>1, AfterFillLeaves
    <3>2. filled.status \in {"filled", "partially_filled"}
      BY <1>4, <2>1 DEF after_fill, Orders
    <3>3. filled.status = "partially_filled" => ~is_closed(filled)
      BY DEF is_closed
    <3> QED BY <2>3, <3>1, <3>2, <3>3 DEF is_closed
  <2>6. taken.filled_size_lots = taker.filled_size_lots + qty /\ taken.status # "cancelled_stp"
    <3>1. taken.filled_size_lots = taker.filled_size_lots + qty
      BY <1>5, <2>1 DEF after_fill, Orders
    <3>2. taken.status \in {"filled", "partially_filled"}
      BY <1>5, <2>1 DEF after_fill, Orders
    <3> QED BY <3>1, <3>2
  <2>7. fill \in Fills /\ fill.maker_order_id = id /\ fill.size_lots = qty
        /\ fill.price_ticks = maker.signed.price_ticks
    <3>1. maker.signed.market_id \in Markets /\ price \in Nat
      BY <1>4 DEF EngineInv, TypeOK, EngineTypes, CallTypes
    <3>2. fill \in Fills
      BY <1>4, <1>5, <2>1, <2>3, <3>1, NewFillType
    <3>3. fill.maker_order_id = id /\ fill.size_lots = qty /\ fill.price_ticks = price
      BY <1>4, <2>1 DEF NewFill
    <3> QED BY <1>4, <3>2, <3>3 DEF RestsAt
  <2>8. id \in OrderIds /\ id \in 1..taker.order_id - 1
    <3>1. id < taker.order_id
      BY <1>1, <1>2, <1>4 DEF QueueInv, IdsFresh, BookIdsFresh
    <3>2. id \in OrderIds /\ taker.order_id \in OrderIds
      BY <1>4, <1>5, Remainder
    <3> QED BY <3>1, <3>2 DEF OrderIds
  <2>9. orders[id].signed.trader_id # taker.signed.trader_id
    BY <1>3, <1>7, <1>13 DEF self_trade
  <2>10. OneFill(orders, taker, id, filled, taken, fill)
    BY <1>3, <1>7, <1>8, <1>10, <2>2, <2>3, <2>5, <2>6, <2>7, <2>8, <2>9 DEF OneFill
  <2>11. PICK after : after = [orders EXCEPT ![id] = filled]
    OBVIOUS
  <2>12. CallSound(after, taken, Append(CallFills, fill))
    <3>1. IsMap(orders, OrderIds, Orders)
      BY <1>4, <1>7 DEF BookFits, IsBook
    <3> QED BY <1>5, <1>9, <2>10, <2>11, <3>1, SoundAfterFill
  <2>13. update_maker(book, filled).orders = after
    BY <1>4, <1>7, <2>3, <2>11, UpdateMakerParts
  <2>14. books'[m] = update_maker(book, filled)
    BY <1>4, <2>2 DEF EngineInv, TypeOK, EngineTypes
  <2>15. CallFills' = Append(CallFills, fill)
    BY <1>11, <2>2, <2>7
  <2> QED BY <1>1, <1>10, <2>2, <2>12, <2>13, <2>14, <2>15 DEF CallInv
<1> QED BY <1>4, <1>12, <1>13

(* Every step keeps the call in progress sound.                            *)
LEMMA CallStep ==
  ASSUME EngineInv, QueueInv, LogGapless, LogInv, PlacesInv, CallInv, [Next]_vars,
         EngineInv', LogInv'
  PROVE  CallInv'
<1> SUFFICES ASSUME InProcessOrder' PROVE CallInv'
  BY DEF CallInv
<1>1. ASSUME NEW signed \in SignedOrders, NEW now_ms, ProcessOrder(signed, now_ms)
      PROVE  CallInv'
  <2>1. PICK order \in Orders : Begins(order)
    BY <1>1, OrderBegins
  <2>2. /\ taker' = order /\ order.filled_size_lots = 0 /\ order.status = "open"
        /\ CallFills' = << >>
    BY <2>1, CallBeginsEmpty DEF Begins
  <2>3. PICK orders : orders = books'[taker'.signed.market_id].orders
    OBVIOUS
  <2>4. order.order_id - 1 \in Nat
    BY DEF Orders, OrderIds
  <2>5. << >> \in Seq(Fills) /\ DOMAIN << >> = {}
    OBVIOUS
  <2>6. CallSound(orders, order, << >>)
    BY <2>2, <2>4, <2>5, NothingTakenYet DEF CallSound, MakersInLine, MakersFirst
  <2> QED BY <2>2, <2>3, <2>6 DEF CallInv
<1>2. CASE RecordFill
  <2>1. CallFills' = CallFills
    BY <1>2, RecordFillKeepsCall
  <2>2. UNCHANGED <<books, taker>> /\ InProcessOrder
    BY <1>2 DEF RecordFill, engine_vars, InProcessOrder
  <2> QED BY <2>1, <2>2 DEF CallInv
<1>3. CASE QuietInCall
  BY <1>3 DEF QuietInCall, CallInv, CallFills, LoggedFills
<1> QED BY <1>1, <1>2, <1>3, CallSteps, MatchMakerCall

(* The fills of the call in progress are what matching owes its makers.    *)
THEOREM SpecCallInv == Spec => []CallInv
<1>1. Init => CallInv
  BY DEF Init, CallInv, InProcessOrder
<1>2. EngineInv /\ QueueInv /\ LogGapless /\ LogInv /\ PlacesInv /\ CallInv /\ [Next]_vars
        /\ EngineInv' /\ LogInv' => CallInv'
  BY CallStep
<1> QED BY <1>1, <1>2, SpecEngineInv, SpecQueueInv, SpecLogGapless, SpecLogInv, SpecPlacesInv,
           PTL DEF Spec

-----------------------------------------------------------------------------
(* The trades that the mapping shows *)

TradeAt(entry) ==
  IF entry.event.type = "fill" THEN << SeenTrade(entry.event.fill) >> ELSE << >>

SeenTrades == {SeenTrade(fill) : fill \in Fills}

\* The fills of the call in progress that the log holds, as trades.
CallTrades == [k \in 1..Len(LoggedFills) |-> SeenTrade(LoggedFills[k])]

TradesInv == InProcessOrder => TradesOf(log) = TradesOf(SettledLog) \o CallTrades

(* An entry of the log shows one trade or none.                            *)
LEMMA TradeAtType ==
  ASSUME NEW entry \in SequencedEvents
  PROVE  TradeAt(entry) \in Seq(SeenTrades)
<1>1. entry.event \in Events
  BY DEF SequencedEvents
<1>2. entry.event.type = "fill" => entry.event.fill \in Fills
  BY <1>1 DEF Events
<1>3. CASE entry.event.type = "fill"
  <2>1. PICK trade : trade = SeenTrade(entry.event.fill)
    OBVIOUS
  <2>2. trade \in SeenTrades
    BY <1>2, <1>3, <2>1 DEF SeenTrades
  <2>3. << trade >> \in Seq(SeenTrades)
    BY <2>2
  <2> QED BY <1>3, <2>1, <2>3 DEF TradeAt
<1>4. CASE entry.event.type # "fill"
  BY <1>4 DEF TradeAt
<1> QED BY <1>3, <1>4

(* The trades of a log with one more entry.                                *)
LEMMA TradesOfAppend ==
  ASSUME NEW entries \in Seq(SequencedEvents), NEW entry \in SequencedEvents
  PROVE  /\ TradesOf(Append(entries, entry)) = TradesOf(entries) \o TradeAt(entry)
         /\ TradesOf(entries) \in Seq(SeenTrades) /\ TradeAt(entry) \in Seq(SeenTrades)
<1>1. PICK parts, more, n : /\ parts = [i \in DOMAIN entries |-> TradeAt(entries[i])]
                            /\ more = Append(entries, entry) /\ n = Len(entries)
  OBVIOUS
<1>2. /\ n \in Nat /\ DOMAIN entries = 1..n /\ DOMAIN more = 1..n + 1
      /\ more[n + 1] = entry /\ \A i \in 1..n : more[i] = entries[i] /\ entries[i] \in SequencedEvents
  BY <1>1
<1>3. parts = [i \in 1..n |-> TradeAt(entries[i])]
  BY <1>1, <1>2
<1>4. PICK last : last = TradeAt(entry)
  OBVIOUS
<1>5. last \in Seq(SeenTrades)
  BY <1>4, TradeAtType
<1>6. parts \in Seq(Seq(SeenTrades)) /\ Len(parts) = n
  <2>1. \A i \in 1..n : TradeAt(entries[i]) \in Seq(SeenTrades)
    BY <1>2, TradeAtType
  <2> QED BY <1>2, <1>3, <2>1
<1>7. PICK all : all = [i \in DOMAIN more |-> TradeAt(more[i])]
  OBVIOUS
<1>8. all = Append(parts, last)
  <2>1. PICK grown : grown = Append(parts, last)
    OBVIOUS
  <2>2. /\ grown \in Seq(Seq(SeenTrades)) /\ Len(grown) = n + 1 /\ grown[n + 1] = last
        /\ \A i \in 1..n : grown[i] = parts[i]
    BY <1>2, <1>5, <1>6, <2>1
  <2>3. grown = [i \in 1..n + 1 |-> grown[i]]
    BY <2>2, LenProperties
  <2>4. \A i \in 1..n + 1 : i \in 1..n \/ i = n + 1
    BY <1>2
  <2>5. \A i \in 1..n + 1 : grown[i] = TradeAt(more[i])
    BY <1>2, <1>3, <1>4, <2>2, <2>4
  <2> QED BY <1>2, <1>7, <2>1, <2>3, <2>5
<1>9. FlattenSeq(all) = FlattenSeq(parts) \o last
  BY <1>5, <1>6, <1>8, FlattenOfAppend
<1>10. TradesOf(entries) = FlattenSeq(parts)
  BY <1>1 DEF TradesOf, TradeAt
<1>11. TradesOf(more) = FlattenSeq(all)
  BY <1>7 DEF TradesOf, TradeAt
<1>12. FlattenSeq(parts) \in Seq(SeenTrades)
  BY <1>6, FlattenElements
<1> QED BY <1>1, <1>4, <1>5, <1>9, <1>10, <1>11, <1>12

(* The trades after an event.                                              *)
LEMMA TradesAfter ==
  ASSUME EngineInv, NEW event \in Events, append_event(event)
  PROVE  /\ TradesOf(log) \in Seq(SeenTrades)
         /\ event.type # "fill" => TradesOf(log') = TradesOf(log)
         /\ event.type = "fill" => TradesOf(log') = TradesOf(log) \o << SeenTrade(event.fill) >>
<1>1. PICK entry, trades : entry = [seq_id |-> next_seq_id, event |-> event] /\ trades = TradesOf(log)
  OBVIOUS
<1>2. entry \in SequencedEvents /\ log \in Seq(SequencedEvents) /\ log' = Append(log, entry)
      /\ entry.event = event
  BY <1>1 DEF append_event, SequencedEvents, EngineInv, TypeOK, SequencerTypes
<1>3. TradesOf(log') = trades \o TradeAt(entry) /\ trades \in Seq(SeenTrades)
  BY <1>1, <1>2, TradesOfAppend
<1>4. trades \o << >> = trades
  BY <1>3
<1> QED BY <1>1, <1>2, <1>3, <1>4 DEF TradeAt

(* The log before the call in progress stays what it was.                  *)
LEMMA SettledKept ==
  ASSUME EngineInv, LogInv, EngineInv', LogGrows, InProcessOrder, InProcessOrder',
         taker'.created_sequence = taker.created_sequence
  PROVE  SettledLog' = SettledLog
<1>1. PICK n : n = taker.created_sequence - 1
  OBVIOUS
<1>2. n \in 0..Len(log) /\ Len(log) \in Nat
  <2>1. taker.created_sequence \in 1..Len(log) /\ Len(log) \in Nat
    BY CallFillsType
  <2> QED BY ONLY <1>1, <2>1
<1>3. SettledLog = SubSeq(log, 1, n) /\ SettledLog' = SubSeq(log', 1, n)
  BY <1>1, NoOrderAssumption DEF SettledLog, EngineInv, CallFits
<1>4. log \in Seq(SequencedEvents) /\ log' \in Seq(SequencedEvents)
  BY DEF EngineInv, TypeOK, SequencerTypes
<1>5. n \in 0..Len(log') /\ \A i \in 1..n : log'[i] = log[i]
  <2>1. Len(log') \in {Len(log), Len(log) + 1} /\ \A i \in 1..Len(log) : log'[i] = log[i]
    BY DEF LogGrows
  <2>2. \A i \in 1..n : i \in 1..Len(log)
    BY <1>2
  <2> QED BY <1>2, <2>1, <2>2
<1>6. SubSeq(log, 1, n) = [k \in 1..n |-> log[k]] /\ SubSeq(log', 1, n) = [k \in 1..n |-> log'[k]]
  BY <1>2, <1>4, <1>5, FirstEntries
<1> QED BY <1>3, <1>5, <1>6

(* A call begins with the log as it was.                                   *)
LEMMA SettledAtBegin ==
  ASSUME EngineInv, EngineInv', NEW order, Begins(order)
  PROVE  SettledLog = log /\ SettledLog' = log
<1>1. /\ taker = NoOrder /\ taker' = order /\ InProcessOrder'
      /\ Len(log) \in Nat /\ order.created_sequence = Len(log) + 1
  BY DEF Begins
<1>2. PICK event \in Events : append_event(event)
  BY DEF Begins
<1>3. PICK n : n = Len(log)
  OBVIOUS
<1>4. SettledLog = log /\ SettledLog' = SubSeq(log', 1, n)
  <2>1. taker' # NoOrder
    BY <1>1, NoOrderAssumption DEF EngineInv, CallFits
  <2>2. taker'.created_sequence - 1 = n
    BY <1>1, <1>3
  <2> QED BY <1>1, <2>1, <2>2 DEF SettledLog
<1>5. /\ log \in Seq(SequencedEvents) /\ log' \in Seq(SequencedEvents) /\ Len(log') = n + 1
      /\ \A i \in 1..n : log'[i] = log[i]
  BY <1>2, <1>3, AppendEventType DEF EngineInv, TypeOK, SequencerTypes
<1>6. SubSeq(log', 1, n) = [k \in 1..n |-> log'[k]]
  <2>1. n \in 0..Len(log')
    BY <1>1, <1>3, <1>5
  <2> QED BY <1>5, <2>1, FirstEntries
<1>7. log = [k \in 1..n |-> log[k]]
  BY <1>3, <1>5, LenProperties
<1> QED BY <1>4, <1>5, <1>6, <1>7

(* Every step keeps the log's trades as the settled ones and the call's.   *)
LEMMA TradesStep ==
  ASSUME EngineInv, QueueInv, LogGapless, LogInv, PlacesInv, TradesInv, [Next]_vars,
         EngineInv', LogInv'
  PROVE  TradesInv'
<1> SUFFICES ASSUME InProcessOrder' PROVE TradesInv'
  BY DEF TradesInv
<1>1. LogGrows
  BY StepLogGrows
<1>2. ASSUME NEW signed \in SignedOrders, NEW now_ms, ProcessOrder(signed, now_ms)
      PROVE  TradesInv'
  <2>1. PICK order \in Orders : Begins(order)
    BY <1>2, OrderBegins
  <2>2. PICK event \in Events : event.type = "order_accepted" /\ append_event(event)
    BY <2>1 DEF Begins
  <2>3. TradesOf(log') = TradesOf(log) /\ TradesOf(log) \in Seq(SeenTrades)
    BY <2>2, TradesAfter
  <2>4. SettledLog' = log
    BY <2>1, SettledAtBegin
  <2>5. CallTrades' = << >>
    <3>1. LoggedFills' = << >>
      <4>1. Len(log') = Len(log) + 1 /\ Len(log) \in Nat /\ taker'.created_sequence = Len(log) + 1
        BY <2>1 DEF Begins
      <4>2. 1 .. Len(log') - taker'.created_sequence = {}
        BY <4>1
      <4> QED BY <4>2 DEF LoggedFills
    <3>2. 1..Len(LoggedFills') = {}
      BY <3>1
    <3> QED BY <3>2 DEF CallTrades
  <2>6. PICK trades : trades = TradesOf(log)
    OBVIOUS
  <2>7. trades \o << >> = trades
    BY <2>3, <2>6
  <2> QED BY <2>3, <2>4, <2>5, <2>6, <2>7 DEF TradesInv
<1>3. CASE RecordFill
  <2>1. PICK fill, logged : fill = Head(fills) /\ logged = LoggedFills
    OBVIOUS
  <2>2. /\ InProcessOrder /\ fills # << >> /\ taker' = taker
        /\ append_event([type |-> "fill", fill |-> fill])
    BY <1>3, <2>1 DEF RecordFill, InProcessOrder
  <2>3. fills \in Seq(Fills) /\ logged \in Seq(Fills)
    BY <2>1, <2>2, CallFillsType
  <2>4. fill \in Fills
    BY <2>1, <2>2, <2>3, HeadTailProperties
  <2>5. PICK event : event = [type |-> "fill", fill |-> fill]
    OBVIOUS
  <2>6. event \in Events /\ event.type = "fill" /\ event.fill = fill /\ append_event(event)
    BY <2>2, <2>4, <2>5 DEF Events
  <2>7. TradesOf(log') = TradesOf(log) \o << SeenTrade(fill) >>
    BY <2>6, TradesAfter
  <2>8. SettledLog' = SettledLog
    BY <1>1, <2>2, SettledKept
  <2>9. LoggedFills' = Append(logged, fill)
    BY <1>3, <2>1, RecordFillKeepsCall
  <2>10. PICK settled, before, new : settled = TradesOf(SettledLog) /\ before = CallTrades /\ new = SeenTrade(fill)
    OBVIOUS
  <2>11. TradesOf(log) = settled \o before
    BY <2>2, <2>10 DEF TradesInv
  <2>12. settled \in Seq(SeenTrades)
    <3>1. SettledLog \in Seq(SequencedEvents)
      <4>1. PICK n : n = taker.created_sequence - 1
        OBVIOUS
      <4>2. n \in 0..Len(log) /\ log \in Seq(SequencedEvents)
        <5>1. taker.created_sequence \in 1..Len(log) /\ Len(log) \in Nat
          BY <2>2, CallFillsType
        <5>2. n \in 0..Len(log)
          BY ONLY <4>1, <5>1
        <5> QED BY <5>2 DEF EngineInv, TypeOK, SequencerTypes
      <4>3. SettledLog = SubSeq(log, 1, n)
        BY <2>2, <4>1, TakerThere DEF SettledLog
      <4> QED BY <4>2, <4>3
    <3>2. \E entry : entry \in SequencedEvents
      BY <2>6 DEF append_event, SequencedEvents, EngineInv, TypeOK, SequencerTypes
    <3> QED BY <2>10, <3>1, <3>2, TradesOfAppend
  <2>13. before \in Seq(SeenTrades) /\ Len(before) = Len(logged) /\ new \in SeenTrades
    <3>1. \A k \in 1..Len(logged) : SeenTrade(logged[k]) \in SeenTrades
      BY <2>3, ElementOfSeq DEF SeenTrades
    <3>2. before = [k \in 1..Len(logged) |-> SeenTrade(logged[k])] /\ Len(logged) \in Nat
      BY <2>1, <2>3, <2>10 DEF CallTrades
    <3> QED BY <2>4, <2>10, <3>1, <3>2 DEF SeenTrades
  <2>14. CallTrades' = Append(before, new)
    <3>1. PICK n, more : n = Len(logged) /\ more = Append(logged, fill)
      OBVIOUS
    <3>2. n \in Nat /\ Len(more) = n + 1 /\ more[n + 1] = fill /\ \A k \in 1..n : more[k] = logged[k]
      BY <2>3, <2>4, <3>1
    <3>3. CallTrades' = [k \in 1..n + 1 |-> SeenTrade(more[k])]
      BY <2>9, <3>1, <3>2 DEF CallTrades
    <3>4. PICK grown : grown = Append(before, new)
      OBVIOUS
    <3>5. /\ grown \in Seq(SeenTrades) /\ Len(grown) = n + 1 /\ grown[n + 1] = new
          /\ \A k \in 1..n : grown[k] = before[k]
      BY <2>13, <3>1, <3>2, <3>4
    <3>6. grown = [k \in 1..n + 1 |-> grown[k]]
      BY <3>5, LenProperties
    <3>7. \A k \in 1..n : before[k] = SeenTrade(logged[k])
      BY <2>1, <2>10, <3>1 DEF CallTrades
    <3>8. \A k \in 1..n + 1 : k \in 1..n \/ k = n + 1
      BY <3>2
    <3>9. \A k \in 1..n + 1 : grown[k] = SeenTrade(more[k])
      BY <2>10, <3>2, <3>5, <3>7, <3>8
    <3> QED BY <3>3, <3>4, <3>6, <3>9
  <2>15. (settled \o before) \o << new >> = settled \o Append(before, new)
    <3>1. PICK one : one = << new >>
      OBVIOUS
    <3>2. one \in Seq(SeenTrades) /\ Append(before, new) = before \o one
      BY <2>13, <3>1
    <3>3. (settled \o before) \o one = settled \o (before \o one)
      BY <2>12, <2>13, <3>2, ConcatAssociative
    <3> QED BY <3>1, <3>2, <3>3
  <2> QED BY <2>7, <2>8, <2>10, <2>11, <2>14, <2>15 DEF TradesInv
<1>4. ASSUME InProcessOrder, UNCHANGED log, taker'.created_sequence = taker.created_sequence
      PROVE  TradesInv'
  <2>1. SettledLog' = SettledLog
    BY <1>1, <1>4, SettledKept
  <2>2. CallTrades' = CallTrades
    BY <1>4 DEF CallTrades, LoggedFills
  <2> QED BY <1>4, <2>1, <2>2 DEF TradesInv
<1>5. CASE MatchMaker
  <2>1. InProcessOrder /\ UNCHANGED log /\ SameOrder(taker', taker)
    BY <1>5, MatchMakerRecorded
  <2> QED BY <1>4, <2>1 DEF SameOrder
<1>6. CASE QuietInCall
  BY <1>4, <1>6 DEF QuietInCall
<1> QED BY <1>2, <1>3, <1>5, <1>6, CallSteps

(* The log's trades are the settled ones and then the call's.              *)
THEOREM SpecTradesInv == Spec => []TradesInv
<1>1. Init => TradesInv
  BY DEF Init, TradesInv, InProcessOrder
<1>2. EngineInv /\ QueueInv /\ LogGapless /\ LogInv /\ PlacesInv /\ TradesInv /\ [Next]_vars
        /\ EngineInv' /\ LogInv' => TradesInv'
  BY TradesStep
<1> QED BY <1>1, <1>2, SpecEngineInv, SpecQueueInv, SpecLogGapless, SpecLogInv, SpecPlacesInv,
           PTL DEF Spec

-----------------------------------------------------------------------------
(* The orders that the mapping shows *)

SeenOn(order, taken) ==
  [ signed |-> order.signed, left |-> remaining_size_lots(order) + taken,
    status |-> IF taken > 0 \/ ~is_closed(order) THEN "resting" ELSE order.status ]

SeenOff(signed, traded, stopped) ==
  [ signed |-> signed, left |-> signed.size_lots - traded,
    status |-> IF stopped THEN "stopped" ELSE "filled" ]

SeenHere(m, id) == SeenOn(OrderOn(m, id), TakenIn(CallFills, id))

SeenCount == IF taker = NoOrder THEN uuids ELSE uuids - 1

SeenRead ==
  \A id : /\ \A m : OnBook(m, id) => SeenOrder(id) = SeenHere(m, id)
          /\ ~Anywhere(id) => SeenOrder(id) = SeenOff(SignedAs(id), LogFilled(id), Stopped(id))

(* An order is shown off the book that holds it, else off the log.         *)
LEMMA SeenIsRead == EngineInv /\ QueueInv => SeenRead
<1> SUFFICES ASSUME EngineInv, QueueInv, NEW id
             PROVE  /\ \A m : OnBook(m, id) => SeenOrder(id) = SeenHere(m, id)
                    /\ ~Anywhere(id) => SeenOrder(id)
                                          = SeenOff(SignedAs(id), LogFilled(id), Stopped(id))
  BY DEF SeenRead
<1>1. TakenFrom(id) = TakenIn(CallFills, id)
  BY DEF TakenFrom, TakenIn, AmountsOf
<1>2. ASSUME NEW m, OnBook(m, id) PROVE SeenOrder(id) = SeenHere(m, id)
  <2>1. find_order(id) = OrderOn(m, id) /\ find_order(id) # NoOrder
    BY <1>2, FindOrder
  <2> QED BY <1>1, <2>1 DEF SeenOrder, SeenHere, SeenOn
<1>3. ASSUME ~Anywhere(id)
      PROVE  SeenOrder(id) = SeenOff(SignedAs(id), LogFilled(id), Stopped(id))
  <2>1. find_order(id) = NoOrder
    BY <1>3, FindOrder DEF Anywhere
  <2> QED BY <2>1 DEF SeenOrder, SeenOff, Stopped
<1> QED BY <1>2, <1>3

(* The same of the next state.                                             *)
LEMMA SeenIsReadNext == (EngineInv /\ QueueInv)' => SeenRead'
BY SeenIsRead, PTL

\* What process_order checked of the taker when its call began.
TakerTimely ==
  InProcessOrder =>
    /\ taker.signed.nonce > 0 /\ is_active(markets[taker.signed.market_id])
    /\ \E now_ms \in Times : validate_fields(taker.signed, now_ms)

(* Every step keeps what was checked of the taker when its call began.     *)
LEMMA TakerTimelyStep ==
  ASSUME EngineInv, QueueInv, LogGapless, LogInv, PlacesInv, TakerTimely, [Next]_vars
  PROVE  TakerTimely'
<1> SUFFICES ASSUME InProcessOrder' PROVE TakerTimely'
  BY DEF TakerTimely
<1>1. ASSUME NEW signed \in SignedOrders, NEW now_ms \in Times, ProcessOrder(signed, now_ms)
      PROVE  TakerTimely'
  <2>1. PICK order \in Orders : order.signed = signed /\ Begins(order) /\ Validated(signed, now_ms)
    BY <1>1, OrderBegins
  <2>2. taker'.signed = signed /\ markets' = markets
    BY <2>1 DEF Begins
  <2>3. signed.nonce > 0
    <3>1. signed.nonce > nonces[signed.trader_id]
      BY <1>1 DEF ProcessOrder, check_and_update_nonce
    <3>2. nonces[signed.trader_id] \in Nat /\ signed.nonce \in Nat
      BY SignedOrderType DEF EngineInv, TypeOK, StoreTypes
    <3> QED BY <3>1, <3>2
  <2> QED BY <2>1, <2>2, <2>3 DEF TakerTimely, Validated
<1>2. ASSUME InProcessOrder, UNCHANGED markets, taker'.signed = taker.signed
      PROVE  TakerTimely'
  BY <1>2 DEF TakerTimely
<1>3. CASE MatchMaker
  <2>1. InProcessOrder /\ SameOrder(taker', taker)
    BY <1>3, MatchMakerRecorded
  <2>2. UNCHANGED markets
    BY <1>3 DEF MatchMaker
  <2> QED BY <1>2, <2>1, <2>2 DEF SameOrder
<1>4. CASE RecordFill
  <2>1. InProcessOrder /\ UNCHANGED <<markets, taker>>
    BY <1>4 DEF RecordFill, InProcessOrder, engine_vars
  <2> QED BY <1>2, <2>1
<1>5. CASE QuietInCall
  BY <1>2, <1>5 DEF QuietInCall
<1> QED BY <1>1, <1>3, <1>4, <1>5, CallSteps

(* The taker passed the checks of its fields, and its market is active.    *)
THEOREM SpecTakerTimely == Spec => []TakerTimely
<1>1. Init => TakerTimely
  BY DEF Init, TakerTimely, InProcessOrder
<1>2. EngineInv /\ QueueInv /\ LogGapless /\ LogInv /\ PlacesInv /\ TakerTimely /\ [Next]_vars
        => TakerTimely'
  BY TakerTimelyStep
<1> QED BY <1>1, <1>2, SpecEngineInv, SpecQueueInv, SpecLogGapless, SpecLogInv, SpecPlacesInv,
           PTL DEF Spec

\* Everything known of a state of the engine.
Known ==
  /\ EngineInv /\ QueueInv /\ LogGapless /\ LogInv /\ NoncesRise /\ FillInv /\ PlacesInv
  /\ EntryInv /\ RetryInv /\ IdsAccepted /\ CallInv /\ TradesInv /\ TakerTimely

(* An order that a step leaves alone is shown as before.                   *)
LEMMA SeenKept ==
  ASSUME Known, Known', LogGrows, NEW id \in 1..uuids,
         \A m : OnBook(m, id)' <=> OnBook(m, id),
         \A m : OnBook(m, id) => SeenHere(m, id)' = SeenHere(m, id),
         ~Anywhere(id) => LogFilled(id)' = LogFilled(id) /\ (Stopped(id)' <=> Stopped(id))
  PROVE  SeenOrder(id)' = SeenOrder(id)
<1>1. SeenRead /\ SeenRead'
  BY SeenIsRead, SeenIsReadNext DEF Known
<1>2. ASSUME NEW m, OnBook(m, id) PROVE SeenOrder(id)' = SeenOrder(id)
  <2>1. SeenOrder(id) = SeenHere(m, id)
    BY <1>1, <1>2 DEF SeenRead
  <2>2. SeenOrder(id)' = SeenHere(m, id)'
    BY <1>1, <1>2 DEF SeenRead
  <2> QED BY <1>2, <2>1, <2>2
<1>3. ASSUME ~Anywhere(id) PROVE SeenOrder(id)' = SeenOrder(id)
  <2>1. SeenOrder(id) = SeenOff(SignedAs(id), LogFilled(id), Stopped(id))
    BY <1>1, <1>3 DEF SeenRead
  <2>2. SeenOrder(id)' = SeenOff(SignedAs(id)', LogFilled(id)', Stopped(id)')
    <3>1. ~Anywhere(id)'
      BY <1>3 DEF Anywhere
    <3> QED BY <1>1, <3>1 DEF SeenRead
  <2>3. SignedAs(id)' = SignedAs(id)
    BY SignedKept DEF Known
  <2> QED BY <1>3, <2>1, <2>2, <2>3 DEF SeenOff
<1> QED BY <1>2, <1>3 DEF Anywhere

(* Shown orders that are all as before are the same list.                  *)
LEMMA AllSeenKept ==
  ASSUME Known, Known', LogGrows, SeenCount' = SeenCount,
         \A id \in 1..SeenCount : SeenOrder(id)' = SeenOrder(id)
  PROVE  SeenOrders' = SeenOrders
<1>1. PICK n : n = SeenCount
  OBVIOUS
<1>2. SeenOrders = [id \in 1..n |-> SeenOrder(id)]
  BY <1>1 DEF SeenOrders, SeenCount
<1>3. SeenOrders' = [id \in 1..n |-> SeenOrder(id)']
  BY <1>1 DEF SeenOrders, SeenCount
<1> QED BY <1>1, <1>2, <1>3

(* The ids shown were drawn, and the taker in progress is not among them.  *)
LEMMA SeenCountFits ==
  ASSUME Known
  PROVE  /\ uuids \in Nat /\ SeenCount \in Nat
         /\ \A id \in 1..SeenCount : id \in 1..uuids
         /\ InProcessOrder => SeenCount = taker.order_id - 1
                              /\ \A id \in 1..SeenCount : id # taker.order_id
<1>1. uuids \in Nat
  BY DEF Known, EngineInv, TypeOK, CallTypes
<1>2. CASE InProcessOrder
  <2>1. taker # NoOrder /\ taker.order_id = uuids /\ taker \in Orders
    BY <1>2, TakerThere DEF Known, IdsAccepted, EngineInv, CallFits
  <2>2. SeenCount = uuids - 1 /\ uuids \in OrderIds
    BY <2>1 DEF SeenCount, Orders
  <2> QED BY <1>1, <2>1, <2>2 DEF OrderIds
<1>3. CASE ~InProcessOrder
  <2>1. taker = NoOrder
    BY <1>3, TakerThere DEF Known
  <2> QED BY <1>1, <1>3, <2>1 DEF SeenCount
<1> QED BY <1>2, <1>3

-----------------------------------------------------------------------------
(* The steps that Exchange does not see *)

UnseenStep == UNCHANGED Promise!exchange_vars

(* A step that changes nothing shown is none of Exchange.                  *)
LEMMA Unseen ==
  ASSUME UNCHANGED markets, SeenOrders' = SeenOrders,
         TradesOf(SettledLog') = TradesOf(SettledLog)
  PROVE  UnseenStep
BY DEF UnseenStep, Promise!exchange_vars

(* A call begins: its order is not shown yet.                              *)
LEMMA ProcessOrderUnseen ==
  ASSUME Known, Known', LogGrows, NEW signed \in SignedOrders, NEW now_ms,
         ProcessOrder(signed, now_ms)
  PROVE  UnseenStep
<1>1. PICK order \in Orders : Begins(order)
  BY OrderBegins DEF Known
<1>2. /\ uuids' = uuids + 1 /\ UNCHANGED <<books, markets>> /\ taker = NoOrder /\ InProcessOrder'
      /\ ~InProcessOrder
  BY <1>1 DEF Begins
<1>3. CallFills = << >> /\ CallFills' = << >>
  BY <1>1, CallBeginsEmpty DEF Known
<1>4. PICK event \in Events : event.type = "order_accepted" /\ append_event(event)
  BY <1>1 DEF Begins
<1>5. SequencerTypes /\ uuids \in Nat
  BY DEF Known, EngineInv, TypeOK, CallTypes
<1>6. UNCHANGED fills
  BY DEF ProcessOrder
<1>7. NoFillLogged /\ NoEndLogged
  BY <1>4 DEF NoFillLogged, NoEndLogged
<1>8. SeenCount = uuids /\ SeenCount' = uuids
  <2>1. taker' # NoOrder
    BY <1>2, NoOrderAssumption DEF Known, EngineInv, CallFits
  <2> QED BY <1>2, <1>5, <2>1 DEF SeenCount
<1>9. ASSUME NEW id \in 1..uuids PROVE SeenOrder(id)' = SeenOrder(id)
  <2>1. \A m : (OnBook(m, id)' <=> OnBook(m, id)) /\ SeenHere(m, id)' = SeenHere(m, id)
    BY <1>2, <1>3 DEF OnBook, OrderOn, SeenHere
  <2>2. LogFilled(id)' = LogFilled(id) /\ (Stopped(id)' <=> Stopped(id))
    BY <1>5, <1>6, <1>7, NothingMoved, NothingCancelled
  <2> QED BY <2>1, <2>2, SeenKept
<1>10. SeenOrders' = SeenOrders
  BY <1>8, <1>9, AllSeenKept
<1>11. SettledLog = log /\ SettledLog' = log
  BY <1>1, SettledAtBegin DEF Known
<1> QED BY <1>2, <1>10, <1>11, Unseen

(* A step of the loop: what it takes from a maker is still shown there.    *)
LEMMA MatchMakerUnseen ==
  ASSUME Known, Known', LogGrows, MatchMaker
  PROVE  UnseenStep
<1>1. PICK m, maker_id : m = taker.signed.market_id /\ maker_id = Head(maker_ids)
  OBVIOUS
<1>2. PICK maker : maker = books[m].orders[maker_id]
  OBVIOUS
<1>3. /\ OnBook(m, maker_id) /\ maker = OrderOn(m, maker_id) /\ maker \in Orders
      /\ maker.filled_size_lots <= maker.signed.size_lots /\ remaining_size_lots(maker) > 0
      /\ maker.order_id = maker_id /\ ~is_closed(maker) /\ maker.signed.market_id = m
      /\ \/ self_trade(maker) /\ StpCancelTaker(maker)
         \/ ~self_trade(maker) /\ FillMaker(maker)
  BY <1>1, <1>2, MatchMakerMeets DEF Known, OnBook, OrderOn, RestsAt
<1>4. /\ InProcessOrder /\ InProcessOrder' /\ UNCHANGED <<log, uuids, markets>>
      /\ SameOrder(taker', taker)
  BY MatchMakerRecorded DEF Known, MatchMaker
<1>5. taker \in Orders /\ taker.filled_size_lots <= taker.signed.size_lots /\ Wants(taker)
  BY <1>1, <1>2, <1>4, MatchMakerMeets DEF Known, EngineInv, CallFits
<1>6. /\ fills' = fills => CallFills' = CallFills
      /\ \A new \in Fills : fills' = Append(fills, new) => CallFills' = Append(CallFills, new)
  BY <1>4, FillGrowsCall DEF Known, SameOrder
<1>7. SeenCount' = SeenCount
  BY <1>4, NoOrderAssumption DEF SeenCount, Known, EngineInv, CallFits
<1>8. CallFills \in Seq(Fills)
  BY <1>4, CallFillsType DEF Known
<1>9. ASSUME NEW id \in 1..SeenCount PROVE SeenOrder(id)' = SeenOrder(id)
  <2>1. \A n : OnBook(n, id)' <=> OnBook(n, id)
    BY MatchMakerOrders DEF Known
  <2>2. LogFilled(id)' = LogFilled(id) /\ (Stopped(id)' <=> Stopped(id))
    BY <1>4 DEF LogFilled, Stopped, CancelledFor, CancelPositions
  <2>3. id \in 1..uuids
    BY SeenCountFits
  <2>4. ASSUME NEW n, OnBook(n, id) PROVE SeenHere(n, id)' = SeenHere(n, id)
    <3>1. PICK order, after : order = OrderOn(n, id) /\ after = OrderOn(n, id)'
      OBVIOUS
    <3>2. CASE StpCancelTaker(maker)
      BY <1>6, <3>2 DEF StpCancelTaker, SeenHere, OrderOn
    <3>3. CASE FillMaker(maker)
      <4>1. PICK qty, fill : qty = fill_qty(maker) /\ fill = NewFill(maker, qty)
        OBVIOUS
      <4>2. fills' = Append(fills, fill)
        BY <3>3, <4>1 DEF FillMaker
      <4>3. PICK filled, taken : /\ filled = after_fill(maker, qty, taker.created_sequence)
                                 /\ taken = after_fill(taker, qty, taker.created_sequence)
        OBVIOUS
      <4>4. qty \in Nat /\ qty > 0 /\ filled \in Orders /\ filled.signed = maker.signed
            /\ qty <= remaining_size_lots(maker)
        <5>1. remaining_size_lots(taker) > 0
          BY <1>5 DEF Wants
        <5> QED BY <1>3, <1>5, <4>1, <4>3, <5>1, FillMakerParts, FillQtyFits
      <4>5. fill \in Fills /\ fill.maker_order_id = maker_id /\ fill.size_lots = qty
        <5>1. maker.signed.market_id \in Markets /\ price \in Nat
          BY <1>3 DEF Known, EngineInv, TypeOK, EngineTypes, CallTypes, OnBook
        <5>2. fill \in Fills
          BY <1>3, <1>5, <4>1, <4>4, <5>1, NewFillType
        <5> QED BY <1>3, <4>1, <5>2 DEF NewFill
      <4>6. PICK before : before = TakenIn(CallFills, id)
        OBVIOUS
      <4>7. before \in Nat
        BY <1>8, <4>6, AmountsType
      <4>8. TakenIn(CallFills, id)' = before + (IF maker_id = id THEN qty ELSE 0)
        <5>1. CallFills' = Append(CallFills, fill)
          BY <1>6, <4>2, <4>5
        <5> QED BY <1>8, <4>5, <4>6, <5>1, TakenAfter
      <4>9. CASE n = m /\ id = maker_id
        <5>1. after = filled /\ order = maker
          <6>1. fills' # fills
            BY <1>6, <1>8, <4>2, <4>5
          <6> QED BY <1>1, <1>3, <2>4, <3>1, <4>1, <4>3, <4>9, <6>1, MatchMakerOrders DEF Known
        <5>2. remaining_size_lots(filled) = remaining_size_lots(maker) - qty
          <6>1. taker.created_sequence \in Nat
            BY <1>5 DEF Orders
          <6> QED BY <1>3, <4>3, <4>4, <6>1, AfterFillLeaves
        <5>3. remaining_size_lots(maker) \in Nat
          BY <1>3, Remainder
        <5>4. (remaining_size_lots(maker) - qty) + (before + qty) = remaining_size_lots(maker) + before
              /\ before + qty > 0
          BY ONLY <4>4, <4>7, <5>3
        <5>5. TakenIn(CallFills, id)' = before + qty
          BY <4>8, <4>9
        <5>6. SeenOn(filled, before + qty) = SeenOn(maker, before)
          BY <1>3, <4>4, <5>2, <5>4 DEF SeenOn
        <5> QED BY <3>1, <4>6, <5>1, <5>5, <5>6 DEF SeenHere
      <4>10. CASE ~(n = m /\ id = maker_id)
        <5>1. after = order
          BY <1>1, <2>4, <3>1, <4>10, MatchMakerOrders DEF Known
        <5>2. id # maker_id
          <6>1. n = m => id # maker_id
            BY <4>10
          <6>2. n # m => id # maker_id
            BY <1>3, <2>4 DEF Known, QueueInv, IdsFresh, BookIdsFresh, OnBook
          <6> QED BY <6>1, <6>2
        <5>3. TakenIn(CallFills, id)' = before
          BY <4>7, <4>8, <5>2
        <5> QED BY <3>1, <4>6, <5>1, <5>3 DEF SeenHere
      <4> QED BY <4>9, <4>10
    <3> QED BY <1>3, <3>2, <3>3
  <2> QED BY <2>1, <2>2, <2>3, <2>4, SeenKept
<1>10. SeenOrders' = SeenOrders
  BY <1>7, <1>9, AllSeenKept
<1>11. SettledLog' = SettledLog
  BY <1>4, SettledKept DEF Known, SameOrder
<1> QED BY <1>4, <1>10, <1>11, Unseen

(* A fill is recorded: both its orders are on books or hidden.             *)
LEMMA RecordFillUnseen ==
  ASSUME Known, Known', LogGrows, RecordFill
  PROVE  UnseenStep
<1>1. PICK fill : fill = Head(fills)
  OBVIOUS
<1>2. /\ InProcessOrder /\ InProcessOrder' /\ fills # << >>
      /\ append_event([type |-> "fill", fill |-> fill])
      /\ UNCHANGED <<books, markets, uuids, taker>>
  BY <1>1 DEF RecordFill, InProcessOrder, engine_vars
<1>3. fills \in Seq(Fills) /\ fill \in Fills /\ 1 \in DOMAIN fills /\ fill = fills[1]
  <2>1. fills \in Seq(Fills)
    BY DEF Known, EngineInv, TypeOK, CallTypes
  <2> QED BY <1>1, <1>2, <2>1, HeadTailProperties, EmptySeq, LenProperties, ElementOfSeq
<1>4. fill.taker_order_id = taker.order_id /\ Anywhere(fill.maker_order_id)
  BY <1>2, <1>3 DEF Known, LogInv, CallRecorded, PendingSound, EntryInv
<1>5. CallFills' = CallFills
  BY RecordFillKeepsCall DEF Known
<1>6. PICK event : event = [type |-> "fill", fill |-> fill]
  OBVIOUS
<1>7. event \in Events /\ event.type = "fill" /\ event.fill = fill /\ append_event(event)
      /\ SequencerTypes
  BY <1>2, <1>3, <1>6 DEF Events, Known, EngineInv, TypeOK
<1>8. SeenCount' = SeenCount
  BY <1>2 DEF SeenCount
<1>9. ASSUME NEW id \in 1..SeenCount PROVE SeenOrder(id)' = SeenOrder(id)
  <2>1. \A m : (OnBook(m, id)' <=> OnBook(m, id)) /\ SeenHere(m, id)' = SeenHere(m, id)
    BY <1>2, <1>5 DEF OnBook, OrderOn, SeenHere
  <2>2. Stopped(id)' <=> Stopped(id)
    <3>1. NoEndLogged
      BY <1>7 DEF NoEndLogged
    <3> QED BY <1>7, <3>1, NothingCancelled
  <2>3. ASSUME ~Anywhere(id) PROVE LogFilled(id)' = LogFilled(id)
    <3>1. id # taker.order_id
      BY <1>2, SeenCountFits
    <3>2. Moved(fill, id) = 0
      BY <1>4, <2>3, <3>1 DEF Moved, FillOf
    <3>3. LogFilled(id) \in Nat /\ LogFilled(id)' = LogFilled(id) + Moved(fill, id)
      BY <1>7, LogFilledAfter
    <3> QED BY <3>2, <3>3
  <2>4. id \in 1..uuids
    BY SeenCountFits
  <2> QED BY <2>1, <2>2, <2>3, <2>4, SeenKept
<1>10. SeenOrders' = SeenOrders
  BY <1>8, <1>9, AllSeenKept
<1>11. SettledLog' = SettledLog
  BY <1>2, SettledKept DEF Known
<1> QED BY <1>2, <1>10, <1>11, Unseen

(* A step between calls logs no fill, so the trades shown stay the same.   *)
LEMMA BetweenCalls ==
  ASSUME Known, Known', ~InProcessOrder, ~InProcessOrder', NoFillLogged, UNCHANGED uuids
  PROVE  /\ CallFills = << >> /\ CallFills' = << >> /\ SeenCount' = SeenCount
         /\ TradesOf(SettledLog') = TradesOf(SettledLog)
<1>1. taker = NoOrder /\ taker' = NoOrder
  BY DEF Known, EngineInv, CallFits
<1>2. CallFills = << >> /\ CallFills' = << >> /\ SeenCount' = SeenCount
  BY <1>1 DEF CallFills, SeenCount
<1>3. SettledLog = log /\ SettledLog' = log'
  BY <1>1 DEF SettledLog
<1>4. TradesOf(log') = TradesOf(log)
  <2>1. CASE UNCHANGED log
    BY <2>1
  <2>2. ASSUME NEW event \in Events, event.type # "fill", append_event(event)
        PROVE  TradesOf(log') = TradesOf(log)
    BY <2>2, TradesAfter DEF Known
  <2> QED BY <2>1, <2>2 DEF NoFillLogged
<1> QED BY <1>2, <1>3, <1>4

(* What a step between calls leaves alone is shown as before.              *)
LEMMA SeenBetweenCalls ==
  ASSUME Known, Known', LogGrows, ~InProcessOrder, ~InProcessOrder', NoFillLogged,
         UNCHANGED <<uuids, fills>>, NEW id \in 1..SeenCount,
         \A m : OnBook(m, id)' <=> OnBook(m, id),
         \A m : OnBook(m, id) => OrderOn(m, id)' = OrderOn(m, id),
         Stopped(id)' <=> Stopped(id)
  PROVE  SeenOrder(id)' = SeenOrder(id)
<1>1. CallFills' = CallFills
  BY BetweenCalls
<1>2. \A m : OnBook(m, id) => SeenHere(m, id)' = SeenHere(m, id)
  BY <1>1 DEF SeenHere
<1>3. LogFilled(id)' = LogFilled(id)
  BY NothingMoved DEF Known, EngineInv, TypeOK
<1>4. id \in 1..uuids
  BY SeenCountFits
<1> QED BY <1>2, <1>3, <1>4, SeenKept

(* The administrator's cancellations change no order.                      *)
LEMMA CancelNextUnseen ==
  ASSUME Known, Known', LogGrows, CancelNext, NoFillLogged
  PROVE  UnseenStep
<1>1. /\ ~InProcessOrder /\ ~InProcessOrder' /\ UNCHANGED <<uuids, fills, books, markets>>
  BY DEF CancelNext, InProcessOrder, engine_vars, matching_vars
<1>2. NoEndLogged
  BY CancelNextEndsNothing DEF Known
<1>3. ASSUME NEW id \in 1..SeenCount PROVE SeenOrder(id)' = SeenOrder(id)
  <2>1. \A m : (OnBook(m, id)' <=> OnBook(m, id)) /\ OrderOn(m, id)' = OrderOn(m, id)
    BY <1>1 DEF OnBook, OrderOn
  <2>2. Stopped(id)' <=> Stopped(id)
    BY <1>2, NothingCancelled DEF Known, EngineInv, TypeOK
  <2> QED BY <1>1, <2>1, <2>2, SeenBetweenCalls
<1>4. SeenCount' = SeenCount /\ TradesOf(SettledLog') = TradesOf(SettledLog)
  BY <1>1, BetweenCalls
<1>5. SeenOrders' = SeenOrders
  BY <1>3, <1>4, AllSeenKept
<1> QED BY <1>1, <1>4, <1>5, Unseen

(* A step that changes none of what the mapping reads.                     *)
LEMMA QuietUnseen ==
  ASSUME UNCHANGED <<books, taker, log, fills, markets, uuids, order_market_index>>
  PROVE  UnseenStep
<1>1. SettledLog' = SettledLog /\ CallFills' = CallFills
  BY DEF SettledLog, CallFills, LoggedFills
<1>2. ASSUME NEW id PROVE SeenOrder(id)' = SeenOrder(id)
  <2>1. find_order(id)' = find_order(id)
    BY DEF find_order
  <2>2. TakenFrom(id)' = TakenFrom(id)
    BY <1>1 DEF TakenFrom
  <2>3. SignedAs(id)' = SignedAs(id) /\ LogFilled(id)' = LogFilled(id)
        /\ (Stopped(id)' <=> Stopped(id))
    BY DEF SignedAs, LogFilled, Stopped, CancelledFor, CancelPositions, Accepted, OrderAt
  <2> QED BY <2>1, <2>2, <2>3 DEF SeenOrder, Stopped
<1>3. SeenOrders' = SeenOrders
  BY <1>2 DEF SeenOrders
<1> QED BY <1>1, <1>3, Unseen

-----------------------------------------------------------------------------
(* The steps that Exchange does see *)

SeenStep == Promise!Next

(* process_cancel is Exchange's Cancel.                                    *)
LEMMA ProcessCancelSeen ==
  ASSUME Known, Known', LogGrows, NEW gone, NEW trader_id, ProcessCancel(gone, trader_id),
         NoFillLogged
  PROVE  SeenStep
<1>1. /\ ~InProcessOrder /\ ~InProcessOrder' /\ UNCHANGED <<uuids, fills, markets>>
      /\ find_order(gone) # NoOrder /\ ~is_closed(find_order(gone))
      /\ append_event(OrderCancelled(gone, find_order(gone).order_hash, "trader_request"))
  BY DEF ProcessCancel, InProcessOrder, matching_vars
<1>2. PICK m, order : OnBook(m, gone) /\ order = OrderOn(m, gone) /\ order = find_order(gone)
  BY <1>1 DEF find_order, OnBook, OrderOn
<1>3. order \in Orders /\ order.order_id = gone
  BY <1>2, OnBookOrder DEF Known
<1>4. gone \in OrderIds /\ order.order_hash \in Hashes
  BY <1>3 DEF Orders
<1>5. CallFills = << >> /\ CallFills' = << >> /\ SeenCount' = SeenCount
      /\ TradesOf(SettledLog') = TradesOf(SettledLog)
  BY <1>1, BetweenCalls
<1>6. gone \in 1..SeenCount
  <2>1. gone <= uuids
    BY <1>2 DEF Known, QueueInv, IdsFresh, BookIdsFresh, OnBook
  <2>2. SeenCount = uuids /\ uuids \in Nat
    BY <1>1 DEF SeenCount, Known, EngineInv, CallFits, TypeOK, CallTypes
  <2> QED BY <1>4, <2>1, <2>2 DEF OrderIds
<1>7. ASSUME NEW id \in 1..SeenCount, id # gone PROVE SeenOrder(id)' = SeenOrder(id)
  <2>1. \A n : /\ OnBook(n, id)' <=> OnBook(n, id)
               /\ OnBook(n, id) => OrderOn(n, id)' = OrderOn(n, id)
    BY <1>7, ProcessCancelOrders DEF Known
  <2>2. Stopped(id)' <=> Stopped(id)
    <3>1. append_event(OrderCancelled(gone, order.order_hash, "trader_request"))
      BY <1>1, <1>2
    <3>2. CancelledFor(id, {"self_trade_prevention"})' <=>
            \/ CancelledFor(id, {"self_trade_prevention"})
            \/ id = gone /\ "trader_request" \in {"self_trade_prevention"}
      BY <1>4, <3>1, CancelledByCancellation DEF CancelReasons, Known, EngineInv, TypeOK
    <3> QED BY <3>2 DEF Stopped
  <2> QED BY <1>1, <2>1, <2>2, SeenBetweenCalls
<1>8. SeenOrder(gone).status = "resting"
      /\ SeenOrder(gone)' = [SeenOrder(gone) EXCEPT !.status = "cancelled"]
  <2>1. SeenRead /\ SeenRead'
    BY SeenIsRead, SeenIsReadNext DEF Known
  <2>2. TakenIn(<< >>, gone) = 0
    <3>1. 0 \in Nat
      OBVIOUS
    <3> QED BY <3>1, NothingTakenYet
  <2>3. PICK after : after = OrderOn(m, gone)'
    OBVIOUS
  <2>4. OnBook(m, gone)' /\ after = [order EXCEPT !.status = "cancelled"]
    BY <1>2, <2>3, ProcessCancelOrders DEF Known
  <2>5. SeenOrder(gone) = SeenOn(order, 0) /\ SeenOrder(gone)' = SeenOn(after, 0)
    BY <1>2, <1>5, <2>1, <2>2, <2>3, <2>4 DEF SeenRead, SeenHere
  <2>6. /\ after.signed = order.signed /\ after.filled_size_lots = order.filled_size_lots
        /\ after.status = "cancelled"
    BY <1>3, <2>4 DEF Orders
  <2>7. remaining_size_lots(after) = remaining_size_lots(order) /\ is_closed(after)
    BY <2>6 DEF remaining_size_lots, is_closed
  <2>8. ~is_closed(order)
    BY <1>1, <1>2
  <2> QED BY <2>5, <2>6, <2>7, <2>8 DEF SeenOn
<1>9. PICK n, seen : n = SeenCount /\ seen = SeenOrders
  OBVIOUS
<1>10. seen = [id \in 1..n |-> SeenOrder(id)]
  BY <1>9 DEF SeenOrders, SeenCount
<1>11. SeenOrders' = [id \in 1..n |-> SeenOrder(id)']
  BY <1>5, <1>9 DEF SeenOrders, SeenCount
<1>12. SeenOrders' = [seen EXCEPT ![gone].status = "cancelled"]
  BY <1>6, <1>7, <1>8, <1>9, <1>10, <1>11
<1>13. gone \in DOMAIN SeenOrders /\ SeenOrders[gone].status = "resting"
  BY <1>6, <1>8, <1>9, <1>10
<1>14. Promise!Cancel(gone)
  BY <1>1, <1>5, <1>9, <1>12, <1>13 DEF Promise!Cancel
<1> QED BY <1>13, <1>14 DEF SeenStep, Promise!Next

(* Pausing a market is Exchange's Halt, and resuming one its Reopen.       *)
LEMMA SetStatusSeen ==
  ASSUME Known, Known', LogGrows, NoFillLogged, NEW market_id \in Markets,
         PauseMarket(market_id) \/ ResumeMarket(market_id)
  PROVE  SeenStep
<1>1. PICK from, to, type :
        /\ SetStatus(market_id, from, to, type)
        /\ \/ from = "active" /\ to = "paused" /\ type = "market_paused"
           \/ from = "paused" /\ to = "active" /\ type = "market_resumed"
  BY DEF PauseMarket, ResumeMarket
<1>2. /\ ~InProcessOrder /\ ~InProcessOrder' /\ UNCHANGED <<uuids, fills>>
      /\ markets[market_id] = from /\ markets' = [markets EXCEPT ![market_id] = to]
      /\ append_event([type |-> type, market_id |-> market_id])
  BY <1>1 DEF SetStatus, InProcessOrder, matching_vars, add_market
<1>3. PICK event : event = [type |-> type, market_id |-> market_id]
  OBVIOUS
<1>4. event \in Events /\ event.type # "order_cancelled" /\ append_event(event)
  BY <1>1, <1>2, <1>3 DEF Events
<1>5. NoEndLogged
  BY <1>4 DEF NoEndLogged
<1>6. ASSUME NEW id \in 1..SeenCount PROVE SeenOrder(id)' = SeenOrder(id)
  <2>1. \A m : /\ OnBook(m, id)' <=> OnBook(m, id)
               /\ OnBook(m, id) => OrderOn(m, id)' = OrderOn(m, id)
    BY <1>1, SetStatusOrders
  <2>2. Stopped(id)' <=> Stopped(id)
    BY <1>5, NothingCancelled DEF Known, EngineInv, TypeOK
  <2> QED BY <1>2, <2>1, <2>2, SeenBetweenCalls
<1>7. SeenCount' = SeenCount /\ TradesOf(SettledLog') = TradesOf(SettledLog)
  BY <1>2, BetweenCalls
<1>8. SeenOrders' = SeenOrders
  BY <1>6, <1>7, AllSeenKept
<1>9. markets \in [Markets -> MarketStatuses]
  BY DEF Known, EngineInv, TypeOK, EngineTypes
<1>10. PICK before, after : /\ before = {m \in Markets : ~is_active(markets[m])}
                            /\ after = {m \in Markets : ~is_active(markets'[m])}
  OBVIOUS
<1>11. CASE from = "active" /\ to = "paused"
  <2>1. market_id \notin before /\ after = before \cup {market_id}
    BY <1>2, <1>9, <1>10, <1>11 DEF is_active
  <2>2. Promise!Halt(market_id)
    BY <1>7, <1>8, <1>10, <2>1 DEF Promise!Halt
  <2> QED BY <2>2 DEF SeenStep, Promise!Next
<1>12. CASE from = "paused" /\ to = "active"
  <2>1. market_id \in before /\ after = before \ {market_id}
    BY <1>2, <1>9, <1>10, <1>12 DEF is_active
  <2>2. Promise!Reopen(market_id)
    BY <1>7, <1>8, <1>10, <2>1 DEF Promise!Reopen
  <2> QED BY <2>2 DEF SeenStep, Promise!Next
<1> QED BY <1>1, <1>11, <1>12

(* The engine begins as Exchange does.                                     *)
LEMMA BeginsAsPromised == Init => Promise!Init
<1> SUFFICES ASSUME Init PROVE Promise!Init
  OBVIOUS
<1>1. taker = NoOrder /\ uuids = 0 /\ log = << >> /\ markets = [m \in Markets |-> "active"]
  BY DEF Init
<1>2. {m \in Markets : ~is_active(markets[m])} = {}
  BY <1>1 DEF is_active
<1>3. SeenOrders = << >>
  BY <1>1 DEF SeenOrders
<1>4. TradesOf(SettledLog) = << >>
  <2>1. SettledLog = << >>
    BY <1>1 DEF SettledLog
  <2>2. PICK parts : parts = [ i \in DOMAIN << >> |->
                                 IF << >>[i].event.type = "fill"
                                 THEN << SeenTrade(<< >>[i].event.fill) >> ELSE << >> ]
    OBVIOUS
  <2>3. parts = << >>
    BY <2>2
  <2>4. FlattenSeq(parts) = << >>
    BY <2>3 DEF FlattenSeq
  <2> QED BY <2>1, <2>2, <2>4 DEF TradesOf
<1> QED BY <1>2, <1>3, <1>4 DEF Promise!Init

-----------------------------------------------------------------------------
(* Matching, as Exchange computes it *)

\* Order id, held by the taker's book, before the call took anything from it.
HeldSeen(id, held, order, list) ==
  /\ held \in Orders /\ held.order_id = id
  /\ held.signed.market_id = order.signed.market_id
  /\ held.filled_size_lots <= held.signed.size_lots /\ StatusTells(held)
  /\ SeenOrders[id] = SeenOn(held, TakenIn(list, id))

\* The call has ended: what Exchange sees when it is submitted order.
CallSeen(n, orders, order, list) ==
  /\ n \in Nat /\ n = order.order_id - 1 /\ DOMAIN SeenOrders = 1..n
  /\ order \in Orders /\ order.filled_size_lots <= order.signed.size_lots
  /\ StatusTells(order) /\ order.status # "cancelled"
  /\ CallSound(orders, order, list)
  /\ Wants(order) => OpenFor(orders, order) = {}
  /\ IsMap(orders, OrderIds, Orders)
  /\ \A id \in DOMAIN orders : id \in 1..n /\ HeldSeen(id, orders[id], order, list)
  /\ \A id \in 1..n : id \notin DOMAIN orders =>
       ~(/\ SeenOrders[id].status = "resting"
         /\ SeenOrders[id].signed.market_id = order.signed.market_id)
  /\ \A i, j \in DOMAIN orders :
       i < j <=> orders[i].created_sequence < orders[j].created_sequence

Makers(list) == {list[k].maker_order_id : k \in DOMAIN list}

(* OutRanks is a strict order on one side of a book.                       *)
LEMMA OutRanksStrict ==
  ASSUME NEW a \in Orders, NEW b \in Orders, a.signed.side = b.signed.side, OutRanks(a, b)
  PROVE  ~OutRanks(b, a) /\ a # b
<1>1. /\ a.signed \in SignedOrders /\ b.signed \in SignedOrders
      /\ a.created_sequence \in Nat /\ b.created_sequence \in Nat
  BY DEF Orders
<1>2. PICK p, q : p = a.signed.price_ticks /\ q = b.signed.price_ticks
  OBVIOUS
<1>3. p \in Nat /\ q \in Nat /\ a.signed.side \in Sides
  BY <1>1, <1>2, SignedOrderType
<1>4. CASE p = q
  <2>1. a.created_sequence < b.created_sequence
    BY <1>2, <1>4 DEF OutRanks
  <2>2. ~(b.created_sequence < a.created_sequence) /\ a.created_sequence # b.created_sequence
    BY ONLY <1>1, <2>1
  <2> QED BY <1>2, <1>4, <2>2 DEF OutRanks
<1>5. CASE p # q
  <2>1. IF a.signed.side = "sell" THEN p < q ELSE p > q
    BY <1>2, <1>5 DEF OutRanks
  <2>2. ~(IF a.signed.side = "sell" THEN q < p ELSE q > p)
    BY ONLY <1>3, <2>1
  <2>3. ~OutRanks(b, a)
    BY <1>2, <1>5, <2>2 DEF OutRanks
  <2> QED BY <1>2, <1>5, <2>3
<1> QED BY <1>4, <1>5

(* The orders a call may trade with, or has traded with.                   *)
LEMMA OppositeHeld ==
  ASSUME NEW n, NEW orders, NEW order, NEW list, CallSeen(n, orders, order, list),
         NEW id, id \in OpenFor(orders, order) \cup Makers(list)
  PROVE  /\ id \in DOMAIN orders /\ id \in 1..n /\ orders[id] \in Orders
         /\ orders[id].signed.side = Opposite(order.signed.side)
         /\ Reaches(order, orders[id].signed.price_ticks)
<1>1. id \in DOMAIN orders /\ orders[id].signed.side = Opposite(order.signed.side)
      /\ Reaches(order, orders[id].signed.price_ticks)
  <2>1. CASE id \in OpenFor(orders, order)
    BY <2>1 DEF OpenFor
  <2>2. CASE id \in Makers(list)
    <3>1. PICK k \in DOMAIN list : id = list[k].maker_order_id
      BY <2>2 DEF Makers
    <3>2. MadeWith(orders, order, list[k])
      BY DEF CallSeen, CallSound
    <3> QED BY <3>1, <3>2 DEF MadeWith
  <2> QED BY <2>1, <2>2
<1> QED BY <1>1 DEF CallSeen, HeldSeen

(* A call takes from a maker once, and from no other order.                *)
LEMMA TakenOnce ==
  ASSUME NEW n, NEW orders, NEW order, NEW list, CallSeen(n, orders, order, list)
  PROVE  /\ \A k \in DOMAIN list : TakenIn(list, list[k].maker_order_id) = list[k].size_lots
         /\ \A id : id \notin Makers(list) => TakenIn(list, id) = 0
         /\ \A id : TakenIn(list, id) \in Nat
         /\ \A id : id \in Makers(list) <=> TakenIn(list, id) > 0
         /\ \A j, k \in DOMAIN list : list[j].maker_order_id = list[k].maker_order_id => j = k
<1>1. PICK len : len = Len(list)
  OBVIOUS
<1>2. /\ list \in Seq(Fills) /\ len \in Nat /\ DOMAIN list = 1..len
      /\ \A k \in DOMAIN list : MadeWith(orders, order, list[k])
      /\ MakersInLine(orders, list)
  BY <1>1 DEF CallSeen, CallSound
<1>3. ASSUME NEW j \in DOMAIN list, NEW k \in DOMAIN list,
             list[j].maker_order_id = list[k].maker_order_id
      PROVE  j = k
  <2>1. PICK id : id = list[j].maker_order_id /\ id = list[k].maker_order_id
    BY <1>3
  <2>2. id \in Makers(list)
    BY <2>1 DEF Makers
  <2>3. orders[id] \in Orders
    BY <2>2, OppositeHeld
  <2>4. ~OutRanks(orders[id], orders[id])
    BY <2>3, OutRanksStrict
  <2>5. ~(j < k) /\ ~(k < j)
    BY <1>2, <2>1, <2>4 DEF MakersInLine
  <2> QED BY <1>2, <2>5
<1>4. \A id : TakenIn(list, id) \in Nat
  BY <1>2, AmountsType
<1>5. ASSUME NEW id PROVE \A k \in DOMAIN list :
        AmountsOf(list, id)[k] = IF list[k].maker_order_id = id THEN list[k].size_lots ELSE 0
  BY DEF AmountsOf
<1>6. ASSUME NEW id PROVE AmountsOf(list, id) \in Seq(Nat) /\ Len(AmountsOf(list, id)) = len
  BY <1>1, <1>2, AmountsType
<1>7. ASSUME NEW id, id \notin Makers(list) PROVE TakenIn(list, id) = 0
  <2>1. \A k \in 1..len : AmountsOf(list, id)[k] = 0
    BY <1>2, <1>5, <1>7 DEF Makers
  <2>2. PICK amounts : amounts = AmountsOf(list, id)
    OBVIOUS
  <2>3. amounts \in Seq(Nat) /\ Len(amounts) = len /\ \A k \in 1..len : amounts[k] = 0
    BY <1>6, <2>1, <2>2
  <2>4. Total(amounts) = 0
    BY <2>3, TotalOfZeros
  <2> QED BY <2>2, <2>4 DEF TakenIn
<1>8. ASSUME NEW k \in DOMAIN list PROVE TakenIn(list, list[k].maker_order_id) = list[k].size_lots
  <2>1. PICK id, more : id = list[k].maker_order_id /\ more = list[k].size_lots
    OBVIOUS
  <2>2. PICK zeros : zeros = [j \in 1..len |-> 0]
    OBVIOUS
  <2>3. PICK amounts : amounts = AmountsOf(list, id)
    OBVIOUS
  <2>4. more \in Nat
    <3>1. list[k] \in Fills
      BY <1>2, ElementOfSeq
    <3> QED BY <2>1, <3>1 DEF Fills
  <2>5. zeros \in Seq(Nat) /\ Len(zeros) = len /\ \A j \in 1..len : zeros[j] = 0
    BY <1>2, <2>2
  <2>6. amounts \in Seq(Nat) /\ Len(amounts) = len
    BY <1>6, <2>3
  <2>7. ASSUME NEW j \in 1..len PROVE amounts[j] = IF j = k THEN more ELSE 0
    BY <1>2, <1>3, <1>5, <2>1, <2>3
  <2>8. Total(zeros) = 0
    BY <2>5, TotalOfZeros
  <2>9. Total(amounts) = Total(zeros) + more
    <3>1. k \in 1..Len(zeros) /\ amounts[k] = zeros[k] + more
          /\ \A j \in 1..Len(zeros) : j # k => amounts[j] = zeros[j]
      BY <1>2, <2>4, <2>5, <2>7
    <3> QED BY <2>4, <2>5, <2>6, <3>1, TotalChangedAt
  <2>10. Total(amounts) = more
    BY <2>4, <2>8, <2>9
  <2> QED BY <2>1, <2>3, <2>10 DEF TakenIn
<1>9. ASSUME NEW id PROVE id \in Makers(list) <=> TakenIn(list, id) > 0
  <2>1. CASE id \in Makers(list)
    <3>1. PICK k \in DOMAIN list : id = list[k].maker_order_id
      BY <2>1 DEF Makers
    <3>2. list[k].size_lots > 0
      BY <1>2 DEF MadeWith
    <3> QED BY <1>8, <2>1, <3>1, <3>2
  <2>2. CASE id \notin Makers(list)
    BY <1>7, <2>2
  <2> QED BY <2>1, <2>2
<1> QED BY <1>3, <1>4, <1>7, <1>8, <1>9

(* What Exchange sees of an order that the taker's book holds.             *)
LEMMA HeldRead ==
  ASSUME NEW n, NEW orders, NEW order, NEW list, CallSeen(n, orders, order, list),
         NEW id \in DOMAIN orders
  PROVE  /\ SeenOrders[id].signed = orders[id].signed
         /\ SeenOrders[id].left = remaining_size_lots(orders[id]) + TakenIn(list, id)
         /\ SeenOrders[id].left \in Nat /\ remaining_size_lots(orders[id]) \in Nat
         /\ SeenOrders[id].status = "resting" <=> id \in Makers(list) \/ ~is_closed(orders[id])
         /\ orders[id].status = "filled" <=> remaining_size_lots(orders[id]) = 0
<1>1. PICK held, seen : held = orders[id] /\ seen = SeenOrders[id]
  OBVIOUS
<1>2. /\ held \in Orders /\ held.filled_size_lots <= held.signed.size_lots /\ StatusTells(held)
      /\ seen = SeenOn(held, TakenIn(list, id))
  BY <1>1 DEF CallSeen, HeldSeen
<1>3. TakenIn(list, id) \in Nat /\ (id \in Makers(list) <=> TakenIn(list, id) > 0)
  BY TakenOnce
<1>4. remaining_size_lots(held) \in Nat
  BY <1>2, Remainder
<1>5. held.status \in OrderStatuses /\ held.filled_size_lots \in Nat /\ held.signed \in SignedOrders
  BY <1>2 DEF Orders
<1>6. /\ seen.signed = held.signed /\ seen.left = remaining_size_lots(held) + TakenIn(list, id)
      /\ seen.status = IF TakenIn(list, id) > 0 \/ ~is_closed(held) THEN "resting" ELSE held.status
  BY <1>2 DEF SeenOn
<1>7. held.status # "resting"
  BY <1>5 DEF OrderStatuses
<1>8. held.status = "filled" <=> remaining_size_lots(held) = 0
  <2>1. held.signed.size_lots \in Nat
    BY <1>5, SignedOrderType
  <2> QED BY <1>2, <1>5, <2>1 DEF StatusTells, remaining_size_lots
<1>9. seen.left \in Nat
  <2>1. PICK left, taken : left = remaining_size_lots(held) /\ taken = TakenIn(list, id)
    OBVIOUS
  <2>2. left \in Nat /\ taken \in Nat /\ seen.left = left + taken
    BY <1>3, <1>4, <1>6, <2>1
  <2> QED BY ONLY <2>2
<1>10. seen.status = "resting" <=> id \in Makers(list) \/ ~is_closed(held)
  BY <1>3, <1>6, <1>7
<1> QED BY <1>1, <1>4, <1>6, <1>8, <1>9, <1>10

(* The line of a submission: what its call could trade with, or did.       *)
LEMMA LineRead ==
  ASSUME NEW n, NEW orders, NEW order, NEW list, CallSeen(n, orders, order, list)
  PROVE  Promise!Line(order.signed) = OpenFor(orders, order) \cup Makers(list)
<1>1. order.signed \in SignedOrders /\ DOMAIN SeenOrders = 1..n
  BY DEF CallSeen, Orders
<1>2. order.signed.side \in {"buy", "sell"}
  BY <1>1, SignedOrderType DEF Sides
<1>3. ASSUME NEW id \in Promise!Line(order.signed)
      PROVE  id \in OpenFor(orders, order) \cup Makers(list)
  <2>1. /\ id \in 1..n /\ SeenOrders[id].status = "resting"
        /\ Promise!Meets(order.signed, SeenOrders[id].signed)
    BY <1>1, <1>3 DEF Promise!Line
  <2>2. SeenOrders[id].signed.market_id = order.signed.market_id
    BY <2>1 DEF Promise!Meets
  <2>3. id \in DOMAIN orders
    BY <2>1, <2>2 DEF CallSeen
  <2>4. /\ SeenOrders[id].signed = orders[id].signed
        /\ id \in Makers(list) \/ ~is_closed(orders[id])
    BY <2>1, <2>3, HeldRead
  <2>5. orders[id] \in Orders
    BY <2>3 DEF CallSeen, HeldSeen
  <2>6. orders[id].signed.side \in {"buy", "sell"}
    BY <2>5, SignedOrderType DEF Sides, Orders
  <2>7. /\ orders[id].signed.side = Opposite(order.signed.side)
        /\ Reaches(order, orders[id].signed.price_ticks)
    BY <1>2, <2>1, <2>4, <2>6 DEF Promise!Meets, Opposite, Reaches, crosses
  <2> QED BY <2>3, <2>4, <2>7 DEF OpenFor
<1>4. ASSUME NEW id \in OpenFor(orders, order) \cup Makers(list)
      PROVE  id \in Promise!Line(order.signed)
  <2>1. /\ id \in DOMAIN orders /\ id \in 1..n
        /\ orders[id].signed.side = Opposite(order.signed.side)
        /\ Reaches(order, orders[id].signed.price_ticks)
    BY <1>4, OppositeHeld
  <2>2. id \in Makers(list) \/ ~is_closed(orders[id])
    BY <1>4 DEF OpenFor
  <2>3. SeenOrders[id].signed = orders[id].signed /\ SeenOrders[id].status = "resting"
    BY <2>1, <2>2, HeldRead
  <2>4. orders[id].signed.market_id = order.signed.market_id
    BY <2>1 DEF CallSeen, HeldSeen
  <2>5. Promise!Meets(order.signed, SeenOrders[id].signed)
    BY <1>2, <2>1, <2>3, <2>4 DEF Promise!Meets, Opposite, Reaches, crosses
  <2> QED BY <1>1, <2>1, <2>3, <2>5 DEF Promise!Line
<1> QED BY <1>3, <1>4

(* Exchange's order of the line is price-time priority.                    *)
LEMMA BeforeRead ==
  ASSUME NEW n, NEW orders, NEW order, NEW list, CallSeen(n, orders, order, list),
         NEW i \in DOMAIN orders, NEW j \in DOMAIN orders
  PROVE  Promise!Before(i, j) <=> OutRanks(orders[i], orders[j])
<1>1. i < j <=> orders[i].created_sequence < orders[j].created_sequence
  BY DEF CallSeen
<1>2. SeenOrders[i].signed = orders[i].signed /\ SeenOrders[j].signed = orders[j].signed
  BY HeldRead
<1> QED BY <1>1, <1>2 DEF Promise!Before, OutRanks

(* A submission reaches every maker of its call, and none of its own       *)
(* trader's orders or past one.                                            *)
LEMMA ReachableRead ==
  ASSUME NEW n, NEW orders, NEW order, NEW list, CallSeen(n, orders, order, list)
  PROVE  /\ \A own : own \in Promise!Own(order.signed) <=>
                       /\ own \in OpenFor(orders, order)
                       /\ orders[own].signed.trader_id = order.signed.trader_id
         /\ Promise!Reachable(order.signed) \subseteq OpenFor(orders, order) \cup Makers(list)
         /\ Makers(list) \subseteq Promise!Reachable(order.signed)
         /\ \A i \in Promise!Reachable(order.signed) : \A own \in Promise!Own(order.signed) :
              OutRanks(orders[i], orders[own])
<1>1. PICK signed : signed = order.signed
  OBVIOUS
<1>2. Promise!Line(signed) = OpenFor(orders, order) \cup Makers(list)
  BY <1>1, LineRead
<1>3. ASSUME NEW i \in Promise!Line(signed)
      PROVE  i \in DOMAIN orders /\ SeenOrders[i].signed = orders[i].signed /\ orders[i] \in Orders
             /\ orders[i].signed.side = Opposite(order.signed.side)
  BY <1>2, <1>3, OppositeHeld, HeldRead
<1>4. ASSUME NEW id \in Makers(list)
      PROVE  \E k \in DOMAIN list : /\ id = list[k].maker_order_id
                                    /\ orders[id].signed.trader_id # signed.trader_id
  <2>1. PICK k \in DOMAIN list : id = list[k].maker_order_id
    BY <1>4 DEF Makers
  <2>2. MadeWith(orders, order, list[k])
    BY DEF CallSeen, CallSound
  <2> QED BY <1>1, <2>1, <2>2 DEF MadeWith
<1>5. ASSUME NEW own
      PROVE  own \in Promise!Own(signed) <=>
               /\ own \in OpenFor(orders, order)
               /\ orders[own].signed.trader_id = signed.trader_id
  BY <1>2, <1>3, <1>4 DEF Promise!Own
<1>6. Promise!Reachable(signed) \subseteq OpenFor(orders, order) \cup Makers(list)
  BY <1>2 DEF Promise!Reachable
<1>7. ASSUME NEW id \in Makers(list), NEW own \in Promise!Own(signed)
      PROVE  Promise!Before(id, own)
  <2>1. PICK k \in DOMAIN list : id = list[k].maker_order_id
                                 /\ orders[id].signed.trader_id # signed.trader_id
    BY <1>4
  <2>2. own \in OpenFor(orders, order) /\ own # id
    BY <1>5, <2>1
  <2>3. OutRanks(orders[id], orders[own])
    BY <2>1, <2>2 DEF CallSeen, CallSound, MakersFirst
  <2>4. id \in DOMAIN orders /\ own \in DOMAIN orders
    BY <1>2, <1>3, <2>2
  <2> QED BY <2>3, <2>4, BeforeRead
<1>8. Makers(list) \subseteq Promise!Reachable(signed)
  BY <1>2, <1>4, <1>5, <1>7 DEF Promise!Reachable
<1>9. ASSUME NEW i \in Promise!Reachable(signed), NEW own \in Promise!Own(signed)
      PROVE  OutRanks(orders[i], orders[own])
  <2>1. Promise!Before(i, own)
    BY DEF Promise!Reachable
  <2>2. i \in DOMAIN orders /\ own \in DOMAIN orders
    BY <1>2, <1>3, <1>5, <1>6
  <2> QED BY <2>1, <2>2, BeforeRead
<1> QED BY <1>1, <1>5, <1>6, <1>8, <1>9

(* The lesser of two numbers.                                              *)
LEMMA PromiseMin ==
  ASSUME NEW a \in Nat, NEW b \in Nat
  PROVE  Promise!Min({a, b}) = IF a <= b THEN a ELSE b
<1>1. PICK m : m = IF a <= b THEN a ELSE b
  OBVIOUS
<1>2. m \in {a, b} /\ \A y \in {a, b} : m <= y
  BY <1>1
<1>3. ASSUME NEW x \in {a, b}, \A y \in {a, b} : x <= y PROVE x = m
  BY <1>1, <1>3
<1>4. (CHOOSE x \in {a, b} : \A y \in {a, b} : x <= y) = m
  BY <1>2, <1>3, Zenon
<1> QED BY <1>1, <1>4 DEF Promise!Min

(* What some of the line offer, as a sum.                                  *)
LeftOf(S, n) == [i \in 1..n |-> IF i \in S THEN SeenOrders[i].left ELSE 0]

(* What a set of orders offers is a sum of naturals.                       *)
LEMMA OfferedIsTotal ==
  ASSUME NEW n, NEW orders, NEW order, NEW list, CallSeen(n, orders, order, list),
         NEW S, S \subseteq DOMAIN orders
  PROVE  /\ Promise!Offered(S) = Total(LeftOf(S, n))
         /\ LeftOf(S, n) \in Seq(Nat) /\ Len(LeftOf(S, n)) = n /\ Promise!Offered(S) \in Nat
<1>1. n \in Nat /\ DOMAIN SeenOrders = 1..n
  BY DEF CallSeen
<1>2. Promise!Offered(S) = Total(LeftOf(S, n))
  BY <1>1, PromiseSum DEF Promise!Offered, LeftOf
<1>3. \A i \in S : SeenOrders[i].left \in Nat
  BY HeldRead
<1>4. LeftOf(S, n) \in Seq(Nat) /\ Len(LeftOf(S, n)) = n
  BY <1>1, <1>3 DEF LeftOf
<1>5. Total(LeftOf(S, n)) \in Nat
  <2>1. PICK amounts : amounts = LeftOf(S, n)
    OBVIOUS
  <2>2. \A k \in 1..Len(amounts) : amounts[k] <= amounts[k]
    BY <1>4, <2>1
  <2> QED BY <1>4, <2>1, <2>2, TotalAtMost
<1> QED BY <1>2, <1>4, <1>5

\* Those a submission reaches before id.
AheadOf(signed, id) == {j \in Promise!Reachable(signed) : Promise!Before(j, id)}

(* Before a maker come only makers the call filled.                        *)
LEMMA MakersAhead ==
  ASSUME NEW n, NEW orders, NEW order, NEW list, CallSeen(n, orders, order, list),
         NEW k \in DOMAIN list, NEW id, id = list[k].maker_order_id,
         NEW j \in AheadOf(order.signed, id)
  PROVE  /\ j \in Makers(list) /\ j # id /\ orders[j].status = "filled"
         /\ SeenOrders[j].left = TakenIn(list, j)
<1>1. j \in Promise!Reachable(order.signed) /\ Promise!Before(j, id)
  BY DEF AheadOf
<1>2. id \in Makers(list)
  BY DEF Makers
<1>3. /\ id \in DOMAIN orders /\ orders[id] \in Orders
      /\ orders[id].signed.side = Opposite(order.signed.side)
  BY <1>2, OppositeHeld
<1>4. j \in OpenFor(orders, order) \cup Makers(list)
  BY <1>1, ReachableRead
<1>5. /\ j \in DOMAIN orders /\ orders[j] \in Orders
      /\ orders[j].signed.side = Opposite(order.signed.side)
  BY <1>4, OppositeHeld
<1>6. OutRanks(orders[j], orders[id])
  BY <1>1, <1>3, <1>5, BeforeRead
<1>7. ~OutRanks(orders[id], orders[j]) /\ orders[j] # orders[id]
  BY <1>3, <1>5, <1>6, OutRanksStrict
<1>8. j \in Makers(list)
  <2>1. ASSUME j \in OpenFor(orders, order) PROVE FALSE
    <3>1. j # id
      BY <1>7
    <3> QED BY <1>7, <2>1, <3>1 DEF CallSeen, CallSound, MakersFirst
  <2> QED BY <1>4, <2>1
<1>9. orders[j].status = "filled"
  <2>1. PICK p \in DOMAIN list : j = list[p].maker_order_id
    BY <1>8 DEF Makers
  <2>2. DOMAIN list \subseteq Nat /\ MakersInLine(orders, list)
    BY DEF CallSeen, CallSound
  <2>3. ~(k < p) /\ k # p
    BY <1>7, <2>1, <2>2 DEF MakersInLine
  <2>4. p < k
    BY <2>2, <2>3
  <2> QED BY <2>1, <2>2, <2>4 DEF MakersInLine
<1>10. SeenOrders[j].left = TakenIn(list, j)
  <2>1. remaining_size_lots(orders[j]) = 0 /\ TakenIn(list, j) \in Nat
    BY <1>5, <1>9, HeldRead, TakenOnce
  <2> QED BY <1>5, <2>1, HeldRead
<1> QED BY <1>7, <1>8, <1>9, <1>10

(* So what they offer leaves room for what the call took from the maker,   *)
(* and for nothing more if the maker is still open.                        *)
LEMMA RoomForMaker ==
  ASSUME NEW n, NEW orders, NEW order, NEW list, CallSeen(n, orders, order, list),
         NEW k \in DOMAIN list, NEW id, id = list[k].maker_order_id,
         NEW offered, offered = Promise!Offered(AheadOf(order.signed, id))
  PROVE  /\ offered \in Nat /\ offered + list[k].size_lots <= order.filled_size_lots
         /\ orders[id].status # "filled" => offered + list[k].size_lots = order.signed.size_lots
<1>1. PICK ahead, qty : ahead = AheadOf(order.signed, id) /\ qty = list[k].size_lots
  OBVIOUS
<1>2. /\ id \in Makers(list) /\ id \in DOMAIN orders /\ id \in 1..n /\ TakenIn(list, id) = qty
      /\ qty \in Nat
  <2>1. id \in Makers(list)
    BY DEF Makers
  <2> QED BY <1>1, <2>1, OppositeHeld, TakenOnce
<1>3. ASSUME NEW j \in ahead
      PROVE  /\ j \in Makers(list) /\ j # id /\ j \in DOMAIN orders
             /\ SeenOrders[j].left = TakenIn(list, j)
  BY <1>1, <1>3, MakersAhead, OppositeHeld
<1>4. PICK amounts : amounts = LeftOf(ahead, n)
  OBVIOUS
<1>5. amounts \in Seq(Nat) /\ Len(amounts) = n /\ offered = Total(amounts)
  <2>1. ahead \subseteq DOMAIN orders
    BY <1>3
  <2> QED BY <1>1, <1>4, <2>1, OfferedIsTotal
<1>6. PICK more : more = [i \in 1..n |-> IF i = id THEN qty ELSE amounts[i]]
  OBVIOUS
<1>7. n \in Nat /\ list \in Seq(Fills) /\ n = order.order_id - 1
  BY DEF CallSeen, CallSound
<1>8. more \in Seq(Nat) /\ Len(more) = n
  <2>1. ASSUME NEW i \in 1..n PROVE more[i] \in Nat
    <3>1. amounts[i] \in Nat
      BY <1>5, ElementOfSeq
    <3> QED BY <1>2, <1>6, <3>1
  <2>2. more \in [1..n -> Nat]
    BY <1>6, <2>1
  <2> QED BY ONLY <1>7, <2>2
<1>9. amounts[id] = 0
  BY <1>2, <1>3, <1>4 DEF LeftOf
<1>10. Total(more) = offered + qty /\ offered \in Nat
  <2>1. /\ id \in 1..Len(amounts) /\ more[id] = amounts[id] + qty
        /\ \A i \in 1..Len(amounts) : i # id => more[i] = amounts[i]
    BY <1>2, <1>5, <1>6, <1>9
  <2>2. Total(more) = Total(amounts) + qty /\ Total(amounts) \in Nat
    BY <1>2, <1>5, <1>8, <2>1, TotalChangedAt
  <2> QED BY <1>5, <2>2
<1>11. PICK taken : taken = TakenOfAll(list, n)
  OBVIOUS
<1>12. /\ taken \in Seq(Nat) /\ Len(taken) = n /\ \A i \in 1..n : taken[i] = TakenIn(list, i)
  BY <1>7, <1>11, TakenOfAllType DEF TakenOfAll
<1>13. Total(taken) = order.filled_size_lots
  BY <1>7, <1>11 DEF CallSeen, CallSound
<1>14. ASSUME NEW i \in 1..n
       PROVE more[i] = IF i = id THEN qty ELSE IF i \in ahead THEN taken[i] ELSE 0
  BY <1>3, <1>4, <1>6, <1>12 DEF LeftOf
<1>15. Total(more) <= Total(taken)
  <2>1. \A i \in 1..Len(more) : more[i] <= taken[i]
    <3>1. ASSUME NEW i \in 1..n PROVE more[i] <= taken[i]
      <4>1. taken[i] \in Nat /\ taken[id] = qty
        BY <1>2, <1>12, ElementOfSeq
      <4> QED BY <1>2, <1>14, <4>1
    <3> QED BY <1>8, <3>1
  <2> QED BY <1>8, <1>12, <2>1, TotalAtMost
<1>16. ASSUME orders[id].status # "filled" PROVE offered + qty = order.signed.size_lots
  <2>1. remaining_size_lots(order) = 0 /\ MakersInLine(orders, list)
    BY <1>16 DEF CallSeen, CallSound, MadeWith
  <2>2. order.filled_size_lots = order.signed.size_lots
    <3>1. order.filled_size_lots \in Nat /\ order.signed.size_lots \in Nat
      BY SignedOrderType DEF CallSeen, Orders
    <3> QED BY <2>1, <3>1 DEF remaining_size_lots
  <2>3. ASSUME NEW i \in 1..n PROVE more[i] = taken[i]
    <3>1. CASE i = id
      BY <1>2, <1>12, <1>14, <3>1
    <3>2. CASE i \notin Makers(list)
      <4>1. taken[i] = 0 /\ i # id /\ i \notin ahead
        BY <1>2, <1>3, <1>12, <3>2, TakenOnce
      <4> QED BY <1>14, <4>1
    <3>3. CASE i \in Makers(list) /\ i # id
      <4>1. PICK p \in DOMAIN list : i = list[p].maker_order_id
        BY <3>3 DEF Makers
      <4>2. DOMAIN list \subseteq Nat
        BY <1>7
      <4>3. ~(k < p) /\ k # p
        BY <1>16, <2>1, <3>3, <4>1 DEF MakersInLine
      <4>4. p < k
        BY <4>2, <4>3
      <4>5. OutRanks(orders[i], orders[id])
        BY <2>1, <4>1, <4>4 DEF MakersInLine
      <4>6. i \in Promise!Reachable(order.signed) /\ i \in DOMAIN orders
        BY <3>3, ReachableRead, OppositeHeld
      <4>7. i \in ahead
        BY <1>1, <1>2, <4>5, <4>6, BeforeRead DEF AheadOf
      <4> QED BY <1>14, <3>3, <4>7
    <3> QED BY <3>1, <3>2, <3>3
  <2>4. more = taken
    <3>1. /\ more = [i \in 1..n |-> more[i]] /\ taken = [i \in 1..n |-> taken[i]]
      BY <1>6, <1>11 DEF TakenOfAll
    <3> QED BY <2>3, <3>1
  <2> QED BY <1>10, <1>13, <2>2, <2>4
<1> QED BY <1>1, <1>10, <1>13, <1>15, <1>16

(* A call that ends with lots left ran into its own trader's order, or out *)
(* of orders.                                                              *)
LEMMA EndedEarly ==
  ASSUME NEW n, NEW orders, NEW order, NEW list, CallSeen(n, orders, order, list),
         remaining_size_lots(order) # 0
  PROVE  /\ order.status = "cancelled_stp" => StoppedByOwn(orders, order)
         /\ order.status # "cancelled_stp" => OpenFor(orders, order) = {}
<1>1. order \in Orders /\ order.filled_size_lots <= order.signed.size_lots
      /\ StatusTells(order) /\ order.status # "cancelled"
  BY DEF CallSeen
<1>2. remaining_size_lots(order) > 0
  BY <1>1, Remainder
<1>3. order.status # "filled"
  <2>1. order.filled_size_lots \in Nat /\ order.signed.size_lots \in Nat
    BY <1>1, SignedOrderType DEF Orders
  <2> QED BY <1>1, <1>2, <2>1 DEF StatusTells, remaining_size_lots
<1>4. order.status # "cancelled_stp" => Wants(order)
  BY <1>1, <1>2, <1>3 DEF Wants, is_closed
<1> QED BY <1>4 DEF CallSeen, CallSound

(* An order that the call reached and did not trade with: those ahead of   *)
(* it offered all that was wanted.                                         *)
LEMMA NothingWanted ==
  ASSUME NEW n, NEW orders, NEW order, NEW list, CallSeen(n, orders, order, list),
         NEW id \in Promise!Reachable(order.signed), id \notin Makers(list)
  PROVE  Promise!Offered(AheadOf(order.signed, id)) >= order.signed.size_lots
<1>1. id \in OpenFor(orders, order)
  BY ReachableRead
<1>2. /\ id \in DOMAIN orders /\ orders[id] \in Orders
      /\ orders[id].signed.side = Opposite(order.signed.side)
  BY <1>1, OppositeHeld
<1>3. order.status = "cancelled_stp" \/ remaining_size_lots(order) = 0
  BY <1>1, EndedEarly
<1>4. remaining_size_lots(order) = 0
  <2>1. SUFFICES ASSUME remaining_size_lots(order) # 0 PROVE FALSE
    OBVIOUS
  <2>2. StoppedByOwn(orders, order)
    BY <1>3, <2>1, EndedEarly
  <2>3. PICK own : /\ AheadOfAll(orders, order, own)
                   /\ orders[own].signed.trader_id = order.signed.trader_id
    BY <2>2 DEF StoppedByOwn
  <2>4. own \in OpenFor(orders, order)
    BY <2>3 DEF AheadOfAll
  <2>5. OutRanks(orders[id], orders[own])
    BY <2>3, <2>4, ReachableRead
  <2>6. orders[own] \in Orders /\ orders[own].signed.side = Opposite(order.signed.side)
    BY <2>4, OppositeHeld
  <2>7. ~OutRanks(orders[own], orders[id]) /\ own # id
    BY <1>2, <2>5, <2>6, OutRanksStrict
  <2> QED BY <1>1, <2>3, <2>7 DEF AheadOfAll
<1>5. PICK ahead, amounts, taken : /\ ahead = AheadOf(order.signed, id)
                                   /\ amounts = LeftOf(ahead, n) /\ taken = TakenOfAll(list, n)
  OBVIOUS
<1>6. ahead \subseteq DOMAIN orders
  <2>1. ASSUME NEW j \in ahead PROVE j \in DOMAIN orders
    <3>1. j \in Promise!Reachable(order.signed)
      BY <1>5 DEF AheadOf
    <3> QED BY <3>1, ReachableRead, OppositeHeld
  <2> QED BY <2>1
<1>7. n \in Nat /\ list \in Seq(Fills) /\ n = order.order_id - 1
  BY DEF CallSeen, CallSound
<1>8. amounts \in Seq(Nat) /\ Len(amounts) = n /\ Promise!Offered(ahead) = Total(amounts)
  BY <1>5, <1>6, OfferedIsTotal
<1>9. /\ taken \in Seq(Nat) /\ Len(taken) = n /\ \A i \in 1..n : taken[i] = TakenIn(list, i)
      /\ Total(taken) = order.filled_size_lots
  BY <1>5, <1>7, TakenOfAllType DEF TakenOfAll, CallSeen, CallSound
<1>10. ASSUME NEW i \in 1..n PROVE taken[i] <= amounts[i]
  <2>1. taken[i] \in Nat /\ amounts[i] \in Nat
    BY <1>8, <1>9, ElementOfSeq
  <2>2. CASE i \notin Makers(list)
    <3>1. taken[i] = 0
      BY <1>9, <2>2, TakenOnce
    <3> QED BY <2>1, <3>1
  <2>3. CASE i \in Makers(list)
    <3>1. i \in DOMAIN orders /\ i \in Promise!Reachable(order.signed)
      BY <2>3, ReachableRead, OppositeHeld
    <3>2. PICK k \in DOMAIN list : i = list[k].maker_order_id
      BY <2>3 DEF Makers
    <3>3. i # id
      BY <2>3
    <3>4. OutRanks(orders[i], orders[id])
      BY <1>1, <3>2, <3>3 DEF CallSeen, CallSound, MakersFirst
    <3>5. i \in ahead
      BY <1>2, <1>5, <3>1, <3>4, BeforeRead DEF AheadOf
    <3>6. amounts[i] = SeenOrders[i].left
      BY <1>5, <3>5 DEF LeftOf
    <3>7. PICK left : left = remaining_size_lots(orders[i])
      OBVIOUS
    <3>8. left \in Nat /\ SeenOrders[i].left = left + TakenIn(list, i)
      BY <3>1, <3>7, HeldRead
    <3>9. amounts[i] = left + taken[i]
      BY <1>9, <3>6, <3>8
    <3> QED BY ONLY <2>1, <3>8, <3>9
  <2> QED BY <2>2, <2>3
<1>11. Total(taken) <= Total(amounts) /\ Total(amounts) \in Nat
  <2>1. \A i \in 1..Len(taken) : taken[i] <= amounts[i]
    BY <1>9, <1>10
  <2> QED BY <1>8, <1>9, <2>1, TotalAtMost
<1>12. order.filled_size_lots = order.signed.size_lots /\ order.signed.size_lots \in Nat
  <2>1. order.filled_size_lots \in Nat /\ order.signed.size_lots \in Nat
    BY SignedOrderType DEF CallSeen, Orders
  <2> QED BY <1>4, <2>1 DEF remaining_size_lots
<1> QED BY <1>5, <1>8, <1>9, <1>11, <1>12

(* What an order gives by Exchange's arithmetic is what the call took.     *)
LEMMA GivenRead ==
  ASSUME NEW n, NEW orders, NEW order, NEW list, CallSeen(n, orders, order, list)
  PROVE  /\ DOMAIN Promise!Given(order.signed) = Promise!Reachable(order.signed)
         /\ \A id \in Promise!Reachable(order.signed) :
              Promise!Given(order.signed)[id] = TakenIn(list, id)
<1>1. PICK size : size = order.signed.size_lots
  OBVIOUS
<1>2. size \in Nat
  BY <1>1, SignedOrderType DEF CallSeen, Orders
<1>3. DOMAIN Promise!Given(order.signed) = Promise!Reachable(order.signed)
  BY DEF Promise!Given
<1>4. ASSUME NEW id \in Promise!Reachable(order.signed)
      PROVE  Promise!Given(order.signed)[id] =
               Promise!Min({SeenOrders[id].left,
                 size - Promise!Min({size, Promise!Offered(AheadOf(order.signed, id))})})
  BY <1>1 DEF Promise!Given, AheadOf
<1>5. ASSUME NEW id \in Promise!Reachable(order.signed)
      PROVE  Promise!Given(order.signed)[id] = TakenIn(list, id)
  <2>1. PICK offered, left : /\ offered = Promise!Offered(AheadOf(order.signed, id))
                             /\ left = SeenOrders[id].left
    OBVIOUS
  <2>2. id \in DOMAIN orders
    BY ReachableRead, OppositeHeld
  <2>3. PICK rest, taken : rest = remaining_size_lots(orders[id]) /\ taken = TakenIn(list, id)
    OBVIOUS
  <2>4. left \in Nat /\ left = rest + taken /\ rest \in Nat /\ taken \in Nat
    BY <2>1, <2>2, <2>3, HeldRead, TakenOnce
  <2>5. /\ offered \in Nat
        /\ \/ offered >= size /\ taken = 0
           \/ offered + taken <= size /\ (rest = 0 \/ offered + taken = size)
    <3>1. CASE id \notin Makers(list)
      <4>1. AheadOf(order.signed, id) \subseteq DOMAIN orders
        <5>1. ASSUME NEW j \in AheadOf(order.signed, id) PROVE j \in DOMAIN orders
          <6>1. j \in Promise!Reachable(order.signed)
            BY DEF AheadOf
          <6> QED BY <6>1, ReachableRead, OppositeHeld
        <5> QED BY <5>1
      <4>2. offered \in Nat
        BY <2>1, <4>1, OfferedIsTotal
      <4>3. taken = 0
        BY <2>3, <3>1, TakenOnce
      <4> QED BY <1>1, <2>1, <3>1, <4>2, <4>3, NothingWanted
    <3>2. CASE id \in Makers(list)
      <4>1. PICK k \in DOMAIN list : id = list[k].maker_order_id
        BY <3>2 DEF Makers
      <4>2. taken = list[k].size_lots
        BY <2>3, <4>1, TakenOnce
      <4>3. /\ offered \in Nat /\ offered + taken <= order.filled_size_lots
            /\ orders[id].status # "filled" => offered + taken = size
        BY <1>1, <2>1, <4>1, <4>2, RoomForMaker
      <4>4. orders[id].status = "filled" => rest = 0
        BY <2>2, <2>3, HeldRead
      <4>5. order.filled_size_lots <= size /\ order.filled_size_lots \in Nat
        BY <1>1 DEF CallSeen, Orders
      <4>6. offered + taken <= size
        BY ONLY <1>2, <2>4, <4>3, <4>5
      <4> QED BY <4>3, <4>4, <4>6
    <3> QED BY <3>1, <3>2
  <2>6. PICK placed : placed = IF size <= offered THEN size ELSE offered
    OBVIOUS
  <2>7. Promise!Min({size, offered}) = placed /\ placed \in Nat /\ size - placed \in Nat
    BY <1>2, <2>5, <2>6, PromiseMin
  <2>8. Promise!Min({left, size - placed}) = IF left <= size - placed THEN left ELSE size - placed
    BY <2>4, <2>7, PromiseMin
  <2>9. (IF left <= size - placed THEN left ELSE size - placed) = taken
    BY ONLY <1>2, <2>4, <2>5, <2>6
  <2> QED BY <1>4, <2>1, <2>3, <2>7, <2>8, <2>9
<1> QED BY <1>3, <1>5

(* What the makers give is what the fills took.                            *)
GivesAs(given, makers, list) ==
  makers = Makers(list) /\ \A i \in Makers(list) : given[i] = TakenIn(list, i)

(* So Exchange's makers are the call's, and give what its fills took.      *)
LEMMA MakersRead ==
  ASSUME NEW n, NEW orders, NEW order, NEW list, CallSeen(n, orders, order, list),
         NEW given, given = Promise!Given(order.signed),
         NEW makers, makers = {i \in DOMAIN given : given[i] > 0}
  PROVE  GivesAs(given, makers, list)
<1>1. PICK reach : reach = Promise!Reachable(order.signed)
  OBVIOUS
<1>2. DOMAIN given = reach /\ \A i \in reach : given[i] = TakenIn(list, i)
  BY <1>1, GivenRead
<1>3. Makers(list) \subseteq reach
  BY <1>1, ReachableRead
<1>4. \A i : i \in Makers(list) <=> TakenIn(list, i) > 0
  BY TakenOnce
<1>5. makers = Makers(list)
  BY <1>2, <1>3, <1>4
<1> QED BY <1>2, <1>3, <1>5 DEF GivesAs

(* So what is left of the submission is what is left of the taker.         *)
LEMMA LeftRead ==
  ASSUME NEW n, NEW orders, NEW order, NEW list, CallSeen(n, orders, order, list),
         NEW given, NEW makers, GivesAs(given, makers, list)
  PROVE  order.signed.size_lots
           - Promise!Sum([i \in DOMAIN SeenOrders |-> IF i \in makers THEN given[i] ELSE 0])
           = remaining_size_lots(order)
<1>1. makers = Makers(list) /\ \A i \in Makers(list) : given[i] = TakenIn(list, i)
  BY DEF GivesAs
<1>2. DOMAIN SeenOrders = 1..n /\ n = order.order_id - 1
  BY DEF CallSeen
<1>3. ASSUME NEW i PROVE (IF i \in makers THEN given[i] ELSE 0) = TakenIn(list, i)
  <2>1. CASE i \in makers
    BY <1>1, <2>1
  <2>2. CASE i \notin makers
    BY <1>1, <2>2, TakenOnce
  <2> QED BY <2>1, <2>2
<1>4. [i \in DOMAIN SeenOrders |-> IF i \in makers THEN given[i] ELSE 0] = TakenOfAll(list, n)
  BY <1>2, <1>3 DEF TakenOfAll
<1>5. Total(TakenOfAll(list, n)) = order.filled_size_lots
  BY <1>2 DEF CallSeen, CallSound
<1> QED BY <1>4, <1>5, PromiseSum DEF remaining_size_lots

(* And it was stopped if the call was.                                     *)
LEMMA StatusRead ==
  ASSUME NEW n, NEW orders, NEW order, NEW list, CallSeen(n, orders, order, list)
  PROVE  /\ remaining_size_lots(order) = 0 <=> order.status = "filled"
         /\ remaining_size_lots(order) # 0 =>
              (Promise!Own(order.signed) # {} <=> order.status = "cancelled_stp")
         /\ remaining_size_lots(order) # 0 /\ order.status # "cancelled_stp" => Wants(order)
<1>1. order \in Orders /\ order.filled_size_lots <= order.signed.size_lots
      /\ StatusTells(order) /\ order.status # "cancelled"
  BY DEF CallSeen
<1>2. order.filled_size_lots \in Nat /\ order.signed.size_lots \in Nat
  BY <1>1, SignedOrderType DEF Orders
<1>3. remaining_size_lots(order) = 0 <=> order.status = "filled"
  BY <1>1, <1>2 DEF StatusTells, remaining_size_lots
<1>4. ASSUME remaining_size_lots(order) # 0, order.status # "cancelled_stp"
      PROVE  Wants(order) /\ Promise!Own(order.signed) = {}
  <2>1. remaining_size_lots(order) > 0
    BY <1>1, <1>4, Remainder
  <2>2. OpenFor(orders, order) = {}
    BY <1>4, EndedEarly
  <2>3. Promise!Own(order.signed) = {}
    BY <2>2, ReachableRead
  <2> QED BY <1>1, <1>3, <1>4, <2>1, <2>3 DEF Wants, is_closed
<1>5. ASSUME remaining_size_lots(order) # 0, order.status = "cancelled_stp"
      PROVE  Promise!Own(order.signed) # {}
  <2>1. StoppedByOwn(orders, order)
    BY <1>5, EndedEarly
  <2>2. PICK own : /\ AheadOfAll(orders, order, own)
                   /\ orders[own].signed.trader_id = order.signed.trader_id
    BY <2>1 DEF StoppedByOwn
  <2>3. own \in OpenFor(orders, order)
    BY <2>2 DEF AheadOfAll
  <2> QED BY <2>2, <2>3, ReachableRead
<1> QED BY <1>3, <1>4, <1>5

(* The makers trade in the order the call met them.                        *)
LEMMA InLineRead ==
  ASSUME NEW n, NEW orders, NEW order, NEW list, CallSeen(n, orders, order, list)
  PROVE  Promise!InLine(Makers(list)) = [k \in DOMAIN list |-> list[k].maker_order_id]
<1>1. PICK len, S, R, at : /\ len = Len(list) /\ S = Makers(list)
                           /\ R = {pair \in S \X S : Promise!Before(pair[1], pair[2])}
                           /\ at = [k \in 1..len |-> list[k].maker_order_id]
  OBVIOUS
<1>2. /\ list \in Seq(Fills) /\ len \in Nat /\ DOMAIN list = 1..len /\ MakersInLine(orders, list)
  BY <1>1 DEF CallSeen, CallSound
<1>3. ASSUME NEW x \in S PROVE /\ x \in DOMAIN orders /\ orders[x] \in Orders
                               /\ orders[x].signed.side = Opposite(order.signed.side)
  BY <1>1, <1>3, OppositeHeld
<1>4. ASSUME NEW x \in S, NEW y \in S
      PROVE  <<x, y>> \in R <=> OutRanks(orders[x], orders[y])
  <2>1. Promise!Before(x, y) <=> OutRanks(orders[x], orders[y])
    BY <1>3, BeforeRead
  <2> QED BY <1>1, <2>1
<1>5. IsListOf(at, len, S, R)
  <2>1. ASSUME NEW k \in 1..len PROVE at[k] \in S /\ at[k] = list[k].maker_order_id
    BY <1>1, <1>2 DEF Makers
  <2>2. at \in [1..len -> S]
    BY <1>1, <2>1
  <2>3. \A x \in S : \E k \in 1..len : at[k] = x
    BY <1>1, <1>2, <2>1 DEF Makers
  <2>4. ASSUME NEW j \in 1..len, NEW k \in 1..len, j < k PROVE <<at[j], at[k]>> \in R
    <3>1. OutRanks(orders[at[j]], orders[at[k]])
      BY <1>2, <2>1, <2>4 DEF MakersInLine
    <3> QED BY <1>4, <2>1, <3>1
  <2>5. ASSUME NEW x \in S, NEW y \in S PROVE ~(<<x, y>> \in R /\ <<y, x>> \in R)
    BY <1>3, <1>4, OutRanksStrict
  <2> QED BY <1>2, <2>2, <2>3, <2>4, <2>5 DEF IsListOf
<1>6. /\ Cardinality(S) = len
      /\ at = [k \in 1..len |-> CHOOSE x \in S : Place(S, R, x) = k - 1]
  BY <1>5, ListByPlace
<1>7. ASSUME NEW x \in S PROVE Place(S, R, x) = Cardinality({y \in S : Promise!Before(y, x)})
  <2>1. {y \in S : <<y, x>> \in R} = {y \in S : Promise!Before(y, x)}
    BY <1>1
  <2> QED BY <2>1 DEF Place
<1>8. ASSUME NEW k
      PROVE  (CHOOSE x \in S : Place(S, R, x) = k - 1)
               = (CHOOSE x \in S : Cardinality({y \in S : Promise!Before(y, x)}) = k - 1)
  BY <1>7
<1>9. Promise!InLine(S) =
        [k \in 1..Cardinality(S) |->
           CHOOSE x \in S : Cardinality({y \in S : Promise!Before(y, x)}) = k - 1]
  BY Zenon DEF Promise!InLine, Promise!Cardinality, Cardinality
<1>10. Promise!InLine(S) = at
  BY <1>6, <1>8, <1>9
<1> QED BY <1>1, <1>2, <1>10

\* The call in progress has no fill left to record.
Ending == Known /\ stage = "recording" /\ fills = << >>

(* What is known of the state in which a call ends.                        *)
LEMMA EndingCall ==
  ASSUME Ending, NEW n, n = SeenCount, NEW m, m = taker.signed.market_id
  PROVE  /\ InProcessOrder /\ taker \in Orders /\ taker # NoOrder
         /\ n \in Nat /\ n = taker.order_id - 1 /\ n = uuids - 1
         /\ \A id \in 1..n : id \in 1..uuids /\ id # taker.order_id
         /\ SeenOrders = [id \in 1..n |-> SeenOrder(id)]
         /\ m \in DOMAIN books /\ DOMAIN books[m].orders = {id \in 1..n : OnBook(m, id)}
         /\ \A id : books[m].orders[id] = OrderOn(m, id)
<1>1. InProcessOrder /\ Known
  BY DEF Ending, InProcessOrder
<1>2. taker \in Orders /\ m \in DOMAIN books
  BY <1>1 DEF Known, EngineInv, CallFits
<1>3. taker # NoOrder
  BY <1>2, NoOrderAssumption
<1>4. /\ n \in Nat /\ n = taker.order_id - 1
      /\ \A id \in 1..n : id \in 1..uuids /\ id # taker.order_id
  BY <1>1, SeenCountFits
<1>5. n = uuids - 1
  BY <1>3 DEF SeenCount
<1>6. SeenOrders = [id \in 1..n |-> SeenOrder(id)]
  BY <1>3, <1>5 DEF SeenOrders
<1>7. ASSUME NEW id \in DOMAIN books[m].orders PROVE id \in 1..n
  <2>1. BookIdsFresh(books[m], m)
    BY <1>1, <1>2 DEF Known, QueueInv, IdsFresh
  <2>2. id < taker.order_id
    BY <1>1, <2>1 DEF BookIdsFresh
  <2>3. id \in OrderIds
    BY <1>1, <1>2 DEF Known, EngineInv, BooksFit, BookFits, IsBook, IsMap
  <2>4. taker.order_id \in Nat
    BY <1>2 DEF Orders, OrderIds
  <2> QED BY <1>4, <2>2, <2>3, <2>4 DEF OrderIds
<1>8. DOMAIN books[m].orders = {id \in 1..n : OnBook(m, id)}
  BY <1>2, <1>7 DEF OnBook
<1> QED BY <1>1, <1>2, <1>3, <1>4, <1>5, <1>6, <1>8 DEF OrderOn

(* An order on the book is shown as it was before the call.                *)
LEMMA HeldByBook ==
  ASSUME Ending, NEW m, m = taker.signed.market_id, NEW id \in 1..SeenCount, OnBook(m, id)
  PROVE  HeldSeen(id, OrderOn(m, id), taker, CallFills)
<1>1. Known
  BY DEF Ending
<1>2. PICK held : held = OrderOn(m, id)
  OBVIOUS
<1>3. held \in Orders /\ held.order_id = id /\ held.filled_size_lots <= held.signed.size_lots
  BY <1>1, <1>2, OnBookOrder DEF Known
<1>4. held.signed.market_id = m
  BY <1>1, <1>2 DEF Known, EngineInv, BooksFit, BookFits, OrdersFit, OnBook, OrderOn
<1>5. StatusTells(held)
  BY <1>1, <1>2 DEF Known, PlacesInv, OnBookPlaced
<1>6. SeenOrders[id] = SeenOrder(id)
  <2>1. SeenOrders = [x \in 1..SeenCount |-> SeenOrder(x)]
    BY EndingCall
  <2> QED BY <2>1
<1>7. SeenOrder(id) = SeenHere(m, id)
  BY <1>1, SeenIsRead DEF Known, SeenRead
<1>8. SeenHere(m, id) = SeenOn(held, TakenIn(CallFills, id))
  BY <1>2 DEF SeenHere
<1> QED BY <1>2, <1>3, <1>4, <1>5, <1>6, <1>7, <1>8 DEF HeldSeen

(* An order on no book is not shown as resting.                            *)
LEMMA NotHeldByBook ==
  ASSUME Ending, NEW m, m = taker.signed.market_id, NEW id \in 1..SeenCount, ~OnBook(m, id)
  PROVE  ~(/\ SeenOrders[id].status = "resting" /\ SeenOrders[id].signed.market_id = m)
<1>1. Known
  BY DEF Ending
<1>2. SeenOrders[id] = SeenOrder(id)
  <2>1. SeenOrders = [x \in 1..SeenCount |-> SeenOrder(x)]
    BY EndingCall
  <2> QED BY <2>1
<1>3. SeenRead
  BY <1>1, SeenIsRead DEF Known
<1>4. CASE Anywhere(id)
  <2>1. PICK other : OnBook(other, id)
    BY <1>4 DEF Anywhere
  <2>2. OrderOn(other, id).signed.market_id = other
    BY <1>1, <2>1 DEF Known, EngineInv, BooksFit, BookFits, OrdersFit, OnBook, OrderOn
  <2>3. SeenOrder(id) = SeenOn(OrderOn(other, id), TakenIn(CallFills, id))
    BY <1>3, <2>1 DEF SeenRead, SeenHere
  <2>4. SeenOrder(id).signed = OrderOn(other, id).signed
    BY <2>3 DEF SeenOn
  <2> QED BY <1>2, <2>1, <2>2, <2>4
<1>5. CASE ~Anywhere(id)
  <2>1. SeenOrder(id) = SeenOff(SignedAs(id), LogFilled(id), Stopped(id))
    BY <1>3, <1>5 DEF SeenRead
  <2>2. SeenOrder(id).status # "resting"
    BY <2>1 DEF SeenOff
  <2> QED BY <1>2, <2>2
<1> QED BY <1>4, <1>5

(* Ids and acceptances come in one order.                                  *)
LEMMA IdsInOrder ==
  ASSUME LogInv, EngineInv, NEW a, NEW b, AcceptedAs(a), AcceptedAs(b),
         a.order_id \in Nat, b.order_id \in Nat
  PROVE  a.order_id < b.order_id <=> a.created_sequence < b.created_sequence
<1>1. PICK i, j : i = a.created_sequence /\ j = b.created_sequence
  OBVIOUS
<1>2. /\ i \in Accepted /\ OrderAt(i).order_id = a.order_id
      /\ j \in Accepted /\ OrderAt(j).order_id = b.order_id
  BY <1>1 DEF AcceptedAs, Recorded
<1>3. i \in Nat /\ j \in Nat
  BY <1>2 DEF Accepted, EngineInv, TypeOK, SequencerTypes
<1>4. /\ i < j => a.order_id < b.order_id
      /\ j < i => b.order_id < a.order_id
      /\ i = j => a.order_id = b.order_id
  BY <1>2 DEF LogInv, AcceptancesSound
<1> QED BY <1>1, <1>3, <1>4

(* When the call ends, Exchange's view is as CallSeen says.                *)
LEMMA CallSeenHere ==
  ASSUME Ending, NEW m, m = taker.signed.market_id
  PROVE  CallSeen(SeenCount, books[m].orders, taker, CallFills)
<1>1. Known /\ stage = "recording"
  BY DEF Ending
<1>2. PICK n, orders : n = SeenCount /\ orders = books[m].orders
  OBVIOUS
<1>3. /\ InProcessOrder /\ taker \in Orders /\ n \in Nat /\ n = taker.order_id - 1
      /\ DOMAIN SeenOrders = 1..n /\ m \in DOMAIN books
      /\ DOMAIN orders = {id \in 1..n : OnBook(m, id)}
      /\ \A id : orders[id] = OrderOn(m, id)
  BY <1>2, EndingCall
<1>4. taker.filled_size_lots <= taker.signed.size_lots
  BY <1>1, <1>3 DEF Known, EngineInv, CallFits
<1>5. StatusTells(taker) /\ taker.status # "cancelled"
  BY <1>1, <1>3 DEF Known, PlacesInv, TakerPlaced
<1>6. CallSound(orders, taker, CallFills)
  BY <1>1, <1>2, <1>3 DEF Known, CallInv
<1>7. IsMap(orders, OrderIds, Orders)
  BY <1>1, <1>2, <1>3 DEF Known, EngineInv, BooksFit, BookFits, IsBook
<1>8. ASSUME Wants(taker) PROVE OpenFor(orders, taker) = {}
  <2>1. PICK book : book = books[m]
    OBVIOUS
  <2>2. Unmatched(book, taker) /\ QueuesSound(book)
    BY <1>1, <1>3, <2>1 DEF Known, QueueInv, LoopSound, BooksSound
  <2>3. ASSUME NEW id \in OpenFor(orders, taker) PROVE FALSE
    <3>1. /\ id \in DOMAIN book.orders /\ ~is_closed(book.orders[id])
          /\ book.orders[id].signed.side = Opposite(taker.signed.side)
          /\ Reaches(taker, book.orders[id].signed.price_ticks)
      BY <1>2, <2>1, <2>3 DEF OpenFor
    <3>2. Holds(book.queues[book.orders[id].signed.side], book.orders[id].signed.price_ticks, id)
      BY <2>2, <3>1 DEF QueuesSound
    <3>3. book.orders[id].signed.price_ticks \in DOMAIN book.queues[Opposite(taker.signed.side)]
      BY <3>1, <3>2 DEF Holds
    <3> QED BY <1>8, <2>2, <3>1, <3>3 DEF Unmatched
  <2> QED BY <2>3
<1>9. ASSUME NEW id \in DOMAIN orders PROVE id \in 1..n /\ HeldSeen(id, orders[id], taker, CallFills)
  BY <1>2, <1>3, HeldByBook
<1>10. ASSUME NEW id \in 1..n, id \notin DOMAIN orders
       PROVE  ~(/\ SeenOrders[id].status = "resting"
                /\ SeenOrders[id].signed.market_id = taker.signed.market_id)
  BY <1>2, <1>3, <1>10, NotHeldByBook
<1>11. ASSUME NEW i \in DOMAIN orders, NEW j \in DOMAIN orders
       PROVE  i < j <=> orders[i].created_sequence < orders[j].created_sequence
  <2>1. AcceptedAs(orders[i]) /\ AcceptedAs(orders[j])
    BY <1>1, <1>3 DEF Known, LogInv, BooksRecorded
  <2>2. orders[i].order_id = i /\ orders[j].order_id = j
    BY <1>9 DEF HeldSeen
  <2>3. i \in Nat /\ j \in Nat
    BY <1>3
  <2> QED BY <1>1, <2>1, <2>2, <2>3, IdsInOrder DEF Known
<1> QED BY <1>2, <1>3, <1>4, <1>5, <1>6, <1>7, <1>8, <1>9, <1>10, <1>11 DEF CallSeen

(* What Exchange sees an order was signed as.                              *)
LEMMA SeenSigned ==
  ASSUME Ending, NEW id \in 1..SeenCount, NEW i \in Accepted, OrderAt(i).order_id = id
  PROVE  SeenOrders[id].signed = OrderAt(i).signed
<1>1. Known
  BY DEF Ending
<1>2. SeenOrders[id] = SeenOrder(id)
  <2>1. SeenOrders = [x \in 1..SeenCount |-> SeenOrder(x)]
    BY EndingCall
  <2> QED BY <2>1
<1>3. SeenRead /\ SignedRead
  BY <1>1, SeenIsRead, SignedIsRead DEF Known
<1>4. CASE Anywhere(id)
  <2>1. PICK m : OnBook(m, id)
    BY <1>4 DEF Anywhere
  <2>2. PICK held : held = OrderOn(m, id)
    OBVIOUS
  <2>3. AcceptedAs(held) /\ held.order_id = id
    BY <1>1, <2>1, <2>2, OnBookOrder DEF Known, LogInv, BooksRecorded
  <2>4. OrderAt(i).signed = held.signed
    BY <1>1, <2>3, AcceptedAsOrder DEF Known
  <2>5. SeenOrder(id) = SeenOn(held, TakenIn(CallFills, id))
    BY <1>3, <2>1, <2>2 DEF SeenRead, SeenHere
  <2> QED BY <1>2, <2>4, <2>5 DEF SeenOn
<1>5. CASE ~Anywhere(id)
  <2>1. SeenOrder(id) = SeenOff(SignedAs(id), LogFilled(id), Stopped(id))
    BY <1>3, <1>5 DEF SeenRead
  <2>2. SignedAs(id) = OrderAt(i).signed
    BY <1>3 DEF SignedRead
  <2> QED BY <1>2, <2>1, <2>2 DEF SeenOff
<1> QED BY <1>4, <1>5

(* The submission whose call ends is one that Exchange accepts.            *)
LEMMA SubmissionAcceptable ==
  ASSUME Ending
  PROVE  \E now_ms \in Times : Promise!Acceptable(taker.signed, now_ms)
<1>1. Known
  BY DEF Ending
<1>2. PICK n, order, c, signed : /\ n = SeenCount /\ order = taker
                                 /\ c = taker.created_sequence /\ signed = taker.signed
  OBVIOUS
<1>3. /\ InProcessOrder /\ order \in Orders /\ n \in Nat /\ n = order.order_id - 1
      /\ DOMAIN SeenOrders = 1..n /\ \A id \in 1..n : id \in 1..uuids
  BY <1>2, EndingCall
<1>4. c \in Accepted /\ OrderAt(c).order_id = order.order_id /\ OrderAt(c).signed = signed
  BY <1>1, <1>2, <1>3 DEF Known, LogInv, CallRecorded, AcceptedAs, Recorded
<1>5. ValidForGood(signed) /\ KeyRecorded(c)
  BY <1>1, <1>4 DEF Known, RetryInv
<1>6. PICK now_ms \in Times : validate_fields(signed, now_ms) /\ is_active(markets[signed.market_id])
  BY <1>1, <1>2, <1>3 DEF Known, TakerTimely
<1>7. signed.nonce > 0
  BY <1>1, <1>2, <1>3 DEF Known, TakerTimely
<1>8. ASSUME NEW id \in 1..n, SeenOrders[id].signed.trader_id = signed.trader_id
      PROVE  /\ SeenOrders[id].signed.client_order_id # signed.client_order_id
             /\ SeenOrders[id].signed.nonce < signed.nonce
  <2>1. PICK i \in Accepted : OrderAt(i).order_id = id
    BY <1>1, <1>3 DEF Known, IdsAccepted
  <2>2. SeenOrders[id].signed = OrderAt(i).signed
    BY <1>2, <2>1, SeenSigned
  <2>3. id < order.order_id
    <3>1. order.order_id \in Nat
      BY <1>3 DEF Orders, OrderIds
    <3> QED BY <1>3, <3>1
  <2>4. i < c
    <3>1. i \in Nat /\ c \in Nat
      BY <1>1, <1>4 DEF Accepted, Known, EngineInv, TypeOK, SequencerTypes
    <3>2. i # c /\ ~(c < i)
      <4>1. order.order_id \in Nat
        BY <1>3 DEF Orders, OrderIds
      <4> QED BY <1>1, <1>4, <2>1, <2>3, <4>1 DEF Known, LogInv, AcceptancesSound
    <3> QED BY <3>1, <3>2
  <2>5. OrderAt(i).signed.nonce < OrderAt(c).signed.nonce
    BY <1>1, <1>4, <1>8, <2>2, <2>4 DEF Known, NoncesRise
  <2>6. OrderAt(i).signed.client_order_id # signed.client_order_id
    <3>1. SUFFICES ASSUME OrderAt(i).signed.client_order_id = signed.client_order_id PROVE FALSE
      OBVIOUS
    <3>2. KeyRecorded(i)
      BY <1>1 DEF Known, RetryInv
    <3>3. PICK key : key = KeyOf(signed) /\ key = KeyOf(OrderAt(i).signed)
      BY <1>8, <2>2, <3>1 DEF KeyOf
    <3>4. idempotency[key].order_id = OrderAt(i).order_id
      BY <3>2, <3>3 DEF KeyRecorded
    <3>5. idempotency[key].order_id = OrderAt(c).order_id
      BY <1>4, <1>5, <3>3 DEF KeyRecorded
    <3> QED BY <1>4, <2>1, <2>3, <3>4, <3>5
  <2> QED BY <1>4, <2>2, <2>5, <2>6
<1>9. Promise!Acceptable(signed, now_ms)
  <2>1. /\ Promise!validate_fields(signed, now_ms) /\ Promise!verify_signature(signed)
        /\ Promise!validate_price(signed.market_id, signed.price_ticks)
        /\ Promise!validate_size(signed.market_id, signed.size_lots)
    BY <1>5, <1>6 DEF ValidForGood, Promise!validate_fields, validate_fields,
       Promise!CURRENT_SCHEMA_VERSION, CURRENT_SCHEMA_VERSION, Promise!verify_signature,
       verify_signature, Promise!validate_price, validate_price, Promise!validate_size,
       validate_size
  <2>2. /\ signed.trader_id = hex_encode(signed.trader_pubkey) /\ signed.market_id \in Markets
    BY <1>5 DEF ValidForGood
  <2>3. signed.market_id \in Markets \ {m \in Markets : ~is_active(markets[m])}
    BY <1>6, <2>2
  <2> QED BY <1>3, <1>7, <1>8, <2>1, <2>2, <2>3 DEF Promise!Acceptable
<1> QED BY <1>2, <1>9

\* What Exchange's Submit makes of the orders and trades, from what the call did.
SubmittedAs(seen, id, order, orders, list) ==
  seen = IF id \notin Makers(list) THEN SeenOrders[id]
         ELSE [SeenOrders[id] EXCEPT
                 !.left = @ - TakenIn(list, id),
                 !.status = IF TakenIn(list, id) = SeenOrders[id].left THEN "filled" ELSE @]

NewSeen(order) ==
  [ signed |-> order.signed, left |-> remaining_size_lots(order),
    status |-> IF remaining_size_lots(order) = 0 THEN "filled"
               ELSE IF Promise!Own(order.signed) # {} THEN "stopped" ELSE "resting" ]

(* The last step of a call, as the log and the copies of it tell.          *)
LEMMA EndingStep ==
  ASSUME Ending, Known', LogGrows, FinishOrder, NoFillLogged
  PROVE  /\ ~InProcessOrder' /\ UNCHANGED <<markets, fills, uuids>>
         /\ CallFills' = << >> /\ SeenCount' = uuids
         /\ TradesOf(SettledLog') = TradesOf(SettledLog) \o CallTrades
         /\ CallFills = LoggedFills
         /\ \A id : LogFilled(id)' = LogFilled(id)
         /\ \A id : Stopped(id)' <=>
              Stopped(id) \/ (id = taker.order_id /\ taker.status = "cancelled_stp")
<1>1. Known /\ stage = "recording" /\ fills = << >> /\ InProcessOrder
  BY DEF Ending, InProcessOrder
<1>2. ~InProcessOrder' /\ UNCHANGED <<markets, fills, uuids>> /\ taker' = NoOrder
  BY DEF FinishOrder, InProcessOrder
<1>3. CallFills' = << >> /\ SeenCount' = uuids /\ SettledLog' = log'
  BY <1>2 DEF CallFills, SeenCount, SettledLog
<1>4. CallFills = LoggedFills
  <2>1. CallFills = LoggedFills \o fills /\ LoggedFills \in Seq(Fills)
    BY <1>1, CallFillsType DEF Known
  <2> QED BY <1>1, <2>1
<1>5. TradesOf(log') = TradesOf(log)
  <2>1. CASE UNCHANGED log
    BY <2>1
  <2>2. ASSUME NEW event \in Events, event.type # "fill", append_event(event)
        PROVE  TradesOf(log') = TradesOf(log)
    BY <1>1, <2>2, TradesAfter DEF Known
  <2> QED BY <2>1, <2>2 DEF NoFillLogged
<1>6. TradesOf(log) = TradesOf(SettledLog) \o CallTrades
  BY <1>1 DEF Known, TradesInv
<1>7. ASSUME NEW id PROVE LogFilled(id)' = LogFilled(id)
  BY <1>1, <1>2, NothingMoved DEF Known, EngineInv, TypeOK
<1>8. ASSUME NEW id
      PROVE  Stopped(id)' <=> Stopped(id) \/ (id = taker.order_id /\ taker.status = "cancelled_stp")
  <2>1. CASE taker.status # "cancelled_stp"
    <3>1. UNCHANGED log
      BY <2>1 DEF FinishOrder
    <3>2. Stopped(id)' <=> Stopped(id)
      BY <3>1 DEF Stopped, CancelledFor, CancelPositions
    <3> QED BY <2>1, <3>2
  <2>2. CASE taker.status = "cancelled_stp"
    <3>1. append_event(OrderCancelled(taker.order_id, taker.order_hash, "self_trade_prevention"))
      BY <2>2 DEF FinishOrder
    <3>2. taker.order_id \in OrderIds /\ taker.order_hash \in Hashes
      BY <1>1 DEF Known, EngineInv, CallFits, Orders
    <3>3. CancelledFor(id, {"self_trade_prevention"})' <=>
            \/ CancelledFor(id, {"self_trade_prevention"})
            \/ id = taker.order_id /\ "self_trade_prevention" \in {"self_trade_prevention"}
      BY <1>1, <3>1, <3>2, CancelledByCancellation DEF CancelReasons, Known, EngineInv, TypeOK
    <3> QED BY <2>2, <3>3 DEF Stopped
  <2> QED BY <2>1, <2>2
<1> QED BY <1>2, <1>3, <1>4, <1>5, <1>6, <1>7, <1>8

(* An order accepted before the call, as its last step shows it.           *)
LEMMA EarlierSeen ==
  ASSUME Ending, Known', LogGrows, FinishOrder, NoFillLogged,
         NEW orders, orders = books[taker.signed.market_id].orders,
         NEW list, list = CallFills, NEW id \in 1..SeenCount
  PROVE  SubmittedAs(SeenOrder(id)', id, taker, orders, list)
<1>1. Known
  BY DEF Ending
<1>2. PICK m, n, order : m = taker.signed.market_id /\ n = SeenCount /\ order = taker
  OBVIOUS
<1>3. CallSeen(n, orders, order, list)
  BY <1>2, CallSeenHere
<1>4. /\ id \in 1..uuids /\ id # order.order_id
      /\ SeenOrders[id] = SeenOrder(id)
      /\ DOMAIN orders = {x \in 1..n : OnBook(m, x)}
      /\ \A x : orders[x] = OrderOn(m, x)
  <2>1. SeenOrders = [x \in 1..n |-> SeenOrder(x)]
    BY <1>2, EndingCall
  <2> QED BY <1>2, <2>1, EndingCall
<1>5. ASSUME NEW other
      PROVE  /\ OnBook(other, id)' <=> OnBook(other, id)
             /\ OnBook(other, id) => OrderOn(other, id)' = OrderOn(other, id)
  BY <1>1, <1>2, <1>4, FinishOrderOrders DEF Known
<1>6. /\ CallFills' = << >> /\ LogFilled(id)' = LogFilled(id) /\ (Stopped(id)' <=> Stopped(id))
  BY <1>2, <1>4, EndingStep
<1>7. TakenIn(<< >>, id) = 0
  <2>1. 0 \in Nat
    OBVIOUS
  <2> QED BY <2>1, NothingTakenYet
<1>8. CASE id \notin Makers(list)
  <2>1. TakenIn(CallFills, id) = 0
    BY <1>3, <1>8, TakenOnce
  <2>2. ASSUME NEW other, OnBook(other, id) PROVE SeenHere(other, id)' = SeenHere(other, id)
    BY <1>5, <1>6, <1>7, <2>1, <2>2 DEF SeenHere
  <2>3. SeenOrder(id)' = SeenOrder(id)
    BY <1>1, <1>4, <1>5, <1>6, <2>2, SeenKept
  <2> QED BY <1>4, <1>8, <2>3 DEF SubmittedAs
<1>9. CASE id \in Makers(list)
  <2>1. id \in DOMAIN orders
    BY <1>3, <1>9, OppositeHeld
  <2>2. PICK held, was, seen, taken : /\ held = orders[id] /\ was = SeenOrders[id]
                                      /\ seen = SeenOrder(id)' /\ taken = TakenIn(list, id)
    OBVIOUS
  <2>3. OnBook(m, id)' /\ OrderOn(m, id)' = held
    BY <1>4, <1>5, <2>1, <2>2
  <2>4. SeenRead'
    BY SeenIsReadNext DEF Known
  <2>5. seen = SeenOn(held, 0)
    BY <1>6, <1>7, <2>2, <2>3, <2>4 DEF SeenRead, SeenHere
  <2>6. was = SeenOn(held, taken)
    BY <1>3, <2>1, <2>2 DEF CallSeen, HeldSeen
  <2>7. PICK rest : rest = remaining_size_lots(held)
    OBVIOUS
  <2>8. /\ rest \in Nat /\ taken \in Nat /\ taken > 0
        /\ held.status = "filled" <=> rest = 0
    BY <1>3, <1>9, <2>1, <2>2, <2>7, HeldRead, TakenOnce
  <2>9. held.status = "filled" \/ ~is_closed(held)
    <3>1. PICK k \in DOMAIN list : id = list[k].maker_order_id
      BY <1>9 DEF Makers
    <3>2. MadeWith(orders, order, list[k])
      BY <1>3 DEF CallSeen, CallSound
    <3> QED BY <2>2, <3>1, <3>2 DEF MadeWith
  <2>10. was = [signed |-> held.signed, left |-> rest + taken, status |-> "resting"]
    BY <2>6, <2>7, <2>8 DEF SeenOn
  <2>11. seen = [ signed |-> held.signed, left |-> rest,
                  status |-> IF rest = 0 THEN "filled" ELSE "resting" ]
    <3>1. seen = [ signed |-> held.signed, left |-> rest + 0,
                   status |-> IF ~is_closed(held) THEN "resting" ELSE held.status ]
      BY <2>5, <2>7 DEF SeenOn
    <3>2. CASE rest = 0
      <4>1. held.status = "filled" /\ is_closed(held)
        BY <2>8, <3>2 DEF is_closed
      <4> QED BY <3>1, <3>2, <4>1
    <3>3. CASE rest # 0
      <4>1. ~is_closed(held)
        BY <2>8, <2>9, <3>3
      <4> QED BY <2>8, <3>1, <3>3, <4>1
    <3> QED BY <3>2, <3>3
  <2>12. rest + taken - taken = rest /\ (taken = rest + taken <=> rest = 0)
    BY ONLY <2>8
  <2>13. seen = [was EXCEPT !.left = @ - taken,
                            !.status = IF taken = was.left THEN "filled" ELSE @]
    <3>1. was.left = rest + taken /\ was.status = "resting" /\ was.signed = held.signed
      BY <2>10
    <3>2. PICK left : left = was.left
      OBVIOUS
    <3>3. left - taken = rest /\ (taken = left <=> rest = 0)
      <4>1. left = rest + taken
        BY <3>1, <3>2
      <4> QED BY ONLY <2>8, <4>1
    <3>4. PICK less, status : less = left - taken
                              /\ status = IF taken = left THEN "filled" ELSE was.status
      OBVIOUS
    <3>5. [was EXCEPT !.left = less, !.status = status]
            = [signed |-> was.signed, left |-> less, status |-> status]
      <4>1. PICK a, b, c : was = [signed |-> a, left |-> b, status |-> c]
        BY <2>10
      <4>2. PICK mid : mid = [was EXCEPT !.left = less]
        OBVIOUS
      <4>3. mid = [signed |-> a, left |-> less, status |-> c]
        BY ONLY <4>1, <4>2
      <4>4. [mid EXCEPT !.status = status] = [signed |-> a, left |-> less, status |-> status]
        BY ONLY <4>3
      <4>5. [was EXCEPT !.left = less, !.status = status] = [mid EXCEPT !.status = status]
        BY ONLY <4>2
      <4>6. was.signed = a
        BY ONLY <4>1
      <4> QED BY <4>4, <4>5, <4>6
    <3>6. seen = [signed |-> was.signed, left |-> less, status |-> status]
      BY <2>11, <3>1, <3>3, <3>4
    <3> QED BY <3>2, <3>4, <3>5, <3>6
  <2> QED BY <1>9, <2>2, <2>13 DEF SubmittedAs
<1> QED BY <1>8, <1>9

(* The taker, as the last step shows it.                                   *)
LEMMA TakerSeen ==
  ASSUME Ending, Known', LogGrows, FinishOrder, NoFillLogged, NEW order, order = taker
  PROVE  SeenOrder(order.order_id)' = NewSeen(order)
<1>1. Known /\ InProcessOrder
  BY DEF Ending, InProcessOrder
<1>2. PICK m, n, id, c : m = taker.signed.market_id /\ n = SeenCount /\ id = taker.order_id
                         /\ c = taker.created_sequence
  OBVIOUS
<1>3. PICK orders, list : orders = books[m].orders /\ list = CallFills
  OBVIOUS
<1>4. CallSeen(n, orders, order, list)
  BY <1>2, <1>3, CallSeenHere
<1>5. SeenRead' /\ SignedRead'
  BY SeenIsReadNext, SignedIsReadNext DEF Known
<1>6. /\ CallFills' = << >> /\ LogFilled(id)' = LogFilled(id)
      /\ Stopped(id)' <=> Stopped(id) \/ order.status = "cancelled_stp"
  BY <1>2, EndingStep
<1>7. order \in Orders /\ order.filled_size_lots <= order.signed.size_lots
  BY <1>4 DEF CallSeen
<1>8. PICK rest : rest = remaining_size_lots(order)
  OBVIOUS
<1>9. rest \in Nat
  BY <1>7, <1>8, Remainder
<1>10. CASE Wants(order)
  <2>1. OnBook(m, id)' /\ OrderOn(m, id)' = order
    BY <1>1, <1>2, <1>10, FinishOrderOrders DEF Known
  <2>2. TakenIn(<< >>, id) = 0
    <3>1. 0 \in Nat
      OBVIOUS
    <3> QED BY <3>1, NothingTakenYet
  <2>3. SeenOrder(id)' = SeenOn(order, 0)
    BY <1>5, <1>6, <2>1, <2>2 DEF SeenRead, SeenHere
  <2>4. ~is_closed(order) /\ rest # 0
    BY <1>8, <1>9, <1>10 DEF Wants
  <2>5. Promise!Own(order.signed) = {}
    BY <1>4, <1>8, <2>4, StatusRead DEF is_closed
  <2>6. SeenOn(order, 0) = [signed |-> order.signed, left |-> rest + 0, status |-> "resting"]
    BY <1>8, <2>4 DEF SeenOn
  <2>7. NewSeen(order) = [signed |-> order.signed, left |-> rest, status |-> "resting"]
    BY <1>8, <2>4, <2>5 DEF NewSeen
  <2> QED BY <1>2, <1>9, <2>3, <2>6, <2>7
<1>11. CASE ~Wants(order)
  <2>1. ~Anywhere(id)'
    <3>1. ASSUME NEW other, OnBook(other, id)' PROVE FALSE
      BY <1>1, <1>2, <1>11, <3>1, FinishOrderOrders DEF Known
    <3> QED BY <3>1 DEF Anywhere
  <2>2. SeenOrder(id)' = SeenOff(SignedAs(id)', LogFilled(id)', Stopped(id)')
    BY <1>5, <2>1 DEF SeenRead
  <2>3. SignedAs(id)' = order.signed
    <3>1. AcceptedAs(order) /\ SameOrder(order, order)
      BY <1>1 DEF Known, LogInv, CallRecorded, SameOrder
    <3>2. AcceptedAs(order)'
      BY <3>1, AcceptedAsKept
    <3>3. c \in Accepted' /\ OrderAt(c)'.order_id = id /\ OrderAt(c)'.signed = order.signed
      BY <1>2, <3>2 DEF AcceptedAs, Recorded
    <3> QED BY <1>5, <3>3 DEF SignedRead
  <2>4. order.signed.size_lots - LogFilled(id)' = rest
    <3>1. order.filled_size_lots = LogFilled(id) + PendingFilled(id)
      BY <1>1, <1>2 DEF Known, FillInv, OrdersCounted, Counted, Traded
    <3>2. PendingFilled(id) = 0
      BY NothingPending DEF Ending
    <3>3. LogFilled(id) \in Nat
      BY <1>1, LogFilledType DEF Known, EngineInv, TypeOK
    <3> QED BY <1>6, <1>8, <3>1, <3>2, <3>3 DEF remaining_size_lots
  <2>5. ~Stopped(id)
    BY <1>1, <1>2 DEF Known, PlacesInv, TakerPlaced, Ended, Stopped, CancelledFor
  <2>6. Stopped(id)' <=> rest # 0
    BY <1>4, <1>6, <1>8, <1>11, <2>5, StatusRead
  <2>7. rest # 0 => Promise!Own(order.signed) # {}
    BY <1>4, <1>8, <1>11, StatusRead
  <2>8. SeenOrder(id)' = [ signed |-> order.signed, left |-> rest,
                           status |-> IF Stopped(id)' THEN "stopped" ELSE "filled" ]
    BY <2>2, <2>3, <2>4 DEF SeenOff
  <2>9. NewSeen(order) = [ signed |-> order.signed, left |-> rest,
                           status |-> IF rest = 0 THEN "filled" ELSE "stopped" ]
    BY <1>8, <2>7 DEF NewSeen
  <2> QED BY <1>2, <2>6, <2>8, <2>9
<1> QED BY <1>10, <1>11

\* The orders as Exchange's Submit makes them.
Placed(given, makers, order) ==
  Append([i \in DOMAIN SeenOrders |->
            IF i \notin makers THEN SeenOrders[i]
            ELSE [SeenOrders[i] EXCEPT
                    !.left = @ - given[i],
                    !.status = IF given[i] = SeenOrders[i].left THEN "filled" ELSE @]],
         NewSeen(order))

(* They are what the last step shows.                                      *)
LEMMA SubmittedOrders ==
  ASSUME Ending, Known', LogGrows, FinishOrder, NoFillLogged,
         NEW given, given = Promise!Given(taker.signed),
         NEW makers, makers = {i \in DOMAIN given : given[i] > 0}
  PROVE  SeenOrders' = Placed(given, makers, taker)
<1>1. PICK m, n, order, list, was : /\ m = taker.signed.market_id /\ n = SeenCount
                                    /\ order = taker /\ list = CallFills /\ was = SeenOrders
  OBVIOUS
<1>2. PICK orders : orders = books[m].orders
  OBVIOUS
<1>3. CallSeen(n, orders, order, list)
  BY <1>1, <1>2, CallSeenHere
<1>4. makers = Makers(list) /\ \A i \in Makers(list) : given[i] = TakenIn(list, i)
  BY <1>1, <1>3, MakersRead DEF GivesAs
<1>5. n \in Nat /\ n = order.order_id - 1 /\ n = uuids - 1 /\ DOMAIN was = 1..n
  BY <1>1, EndingCall
<1>6. uuids \in Nat /\ order.order_id \in Nat
  BY <1>3 DEF Ending, Known, EngineInv, TypeOK, CallTypes, CallSeen, Orders, OrderIds
<1>7. SeenOrders' = [id \in 1..n + 1 |-> SeenOrder(id)']
  <2>1. SeenCount' = uuids /\ uuids = n + 1
    BY <1>5, <1>6, EndingStep
  <2>2. SeenOrders' = [id \in 1..SeenCount' |-> SeenOrder(id)']
    BY DEF SeenOrders, SeenCount
  <2> QED BY <2>1, <2>2
<1>8. PICK earlier :
        earlier = [i \in DOMAIN was |->
                     IF i \notin makers THEN was[i]
                     ELSE [was[i] EXCEPT
                             !.left = @ - given[i],
                             !.status = IF given[i] = was[i].left THEN "filled" ELSE @]]
  OBVIOUS
<1>9. ASSUME NEW id \in 1..n PROVE SeenOrder(id)' = earlier[id]
  <2>1. PICK seen : seen = SeenOrder(id)'
    OBVIOUS
  <2>2. SubmittedAs(seen, id, order, orders, list)
    BY <1>1, <1>2, <2>1, EarlierSeen
  <2>3. CASE id \notin makers
    BY <1>1, <1>4, <1>5, <1>8, <2>1, <2>2, <2>3 DEF SubmittedAs
  <2>4. CASE id \in makers
    <3>1. given[id] = TakenIn(list, id) /\ id \in Makers(list)
      BY <1>4, <2>4
    <3>2. seen = [was[id] EXCEPT !.left = @ - given[id],
                                 !.status = IF given[id] = was[id].left THEN "filled" ELSE @]
      BY <1>1, <2>2, <3>1 DEF SubmittedAs
    <3>3. earlier[id] = [was[id] EXCEPT
                           !.left = @ - given[id],
                           !.status = IF given[id] = was[id].left THEN "filled" ELSE @]
      BY <1>5, <1>8, <2>4
    <3> QED BY <2>1, <3>2, <3>3
  <2> QED BY <2>3, <2>4
<1>10. SeenOrder(n + 1)' = NewSeen(order)
  <2>1. n + 1 = order.order_id
    BY <1>5, <1>6
  <2>2. PICK last : last = order.order_id
    OBVIOUS
  <2>3. SeenOrder(last)' = NewSeen(order)
    BY <1>1, <2>2, TakerSeen
  <2> QED BY <2>1, <2>2, <2>3
<1>11. PICK after, new : after = SeenOrders' /\ new = NewSeen(order)
  OBVIOUS
<1>12. /\ after = [id \in 1..n + 1 |-> after[id]] /\ after[n + 1] = new
       /\ \A id \in 1..n : after[id] = earlier[id]
  BY <1>5, <1>7, <1>9, <1>10, <1>11
<1>13. after = Append(earlier, new)
  <2>1. PICK S : S = {earlier[i] : i \in 1..n} \cup {new}
    OBVIOUS
  <2>2. earlier \in [1..n -> S] /\ new \in S
    BY <1>5, <1>8, <2>1
  <2>3. earlier \in Seq(S) /\ Len(earlier) = n
    BY ONLY <1>5, <2>2
  <2>4. PICK grown : grown = Append(earlier, new)
    OBVIOUS
  <2>5. grown \in Seq(S) /\ Len(grown) = n + 1
    BY ONLY <1>5, <2>2, <2>3, <2>4
  <2>6. grown[n + 1] = new /\ \A i \in 1..n : grown[i] = earlier[i]
    BY ONLY <1>5, <2>2, <2>3, <2>4
  <2>7. grown = [i \in 1..n + 1 |-> grown[i]]
    BY <2>5, LenProperties
  <2>8. ASSUME NEW i \in 1..n + 1 PROVE after[i] = grown[i]
    <3>1. i \in 1..n \/ i = n + 1
      BY <1>5
    <3> QED BY <1>12, <2>6, <3>1
  <2> QED BY <1>12, <2>4, <2>7, <2>8
<1> QED BY <1>1, <1>8, <1>11, <1>13 DEF Placed

(* The trades as Exchange makes them, and as the last step shows them.     *)
LEMMA SubmittedTrades ==
  ASSUME Ending, Known', LogGrows, FinishOrder, NoFillLogged,
         NEW given, given = Promise!Given(taker.signed),
         NEW makers, makers = {i \in DOMAIN given : given[i] > 0},
         NEW in_line, in_line = Promise!InLine(makers)
  PROVE  TradesOf(SettledLog') = TradesOf(SettledLog) \o
           [k \in DOMAIN in_line |->
              [ taker |-> Len(SeenOrders) + 1, maker |-> in_line[k],
                price |-> SeenOrders[in_line[k]].signed.price_ticks,
                lots |-> given[in_line[k]] ]]
<1>1. PICK m, n, order, list, was : /\ m = taker.signed.market_id /\ n = SeenCount
                                    /\ order = taker /\ list = CallFills /\ was = SeenOrders
  OBVIOUS
<1>2. PICK orders : orders = books[m].orders
  OBVIOUS
<1>3. CallSeen(n, orders, order, list)
  BY <1>1, <1>2, CallSeenHere
<1>4. makers = Makers(list) /\ \A i \in Makers(list) : given[i] = TakenIn(list, i)
  BY <1>1, <1>3, MakersRead DEF GivesAs
<1>5. in_line = [k \in DOMAIN list |-> list[k].maker_order_id]
  BY <1>3, <1>4, InLineRead
<1>6. Len(was) + 1 = order.order_id
  <2>1. n \in Nat /\ n = order.order_id - 1 /\ was = [id \in 1..n |-> SeenOrder(id)]
    BY <1>1, EndingCall
  <2>2. Len(was) = n /\ order.order_id \in Nat
    BY <1>3, <2>1 DEF CallSeen, Orders, OrderIds
  <2> QED BY <2>1, <2>2
<1>7. list = LoggedFills /\ list \in Seq(Fills)
  BY <1>1, <1>3, EndingStep DEF CallSeen, CallSound
<1>8. CallTrades = [k \in DOMAIN list |-> SeenTrade(list[k])]
  BY <1>7 DEF CallTrades
<1>9. ASSUME NEW k \in DOMAIN list
      PROVE  SeenTrade(list[k]) =
               [ taker |-> Len(was) + 1, maker |-> in_line[k],
                 price |-> was[in_line[k]].signed.price_ticks, lots |-> given[in_line[k]] ]
  <2>1. PICK id : id = list[k].maker_order_id
    OBVIOUS
  <2>2. in_line[k] = id /\ id \in Makers(list)
    BY <1>5, <2>1 DEF Makers
  <2>3. given[id] = list[k].size_lots
    BY <1>3, <1>4, <2>1, <2>2, TakenOnce
  <2>4. list[k].price_ticks = orders[id].signed.price_ticks
    BY <1>3, <2>1 DEF CallSeen, CallSound, MadeWith
  <2>5. was[id].signed = orders[id].signed
    BY <1>1, <1>3, <2>2, OppositeHeld, HeldRead
  <2>6. list[k].taker_order_id = order.order_id
    <3>1. InProcessOrder /\ Known
      BY DEF Ending, InProcessOrder
    <3>2. PICK c, len : c = taker.created_sequence /\ len = Len(log)
      OBVIOUS
    <3>3. c \in 1..len /\ len \in Nat
      BY <3>1, <3>2, CallFillsType DEF Known
    <3>4. \A j \in c + 1 .. len : FillsTaker(j, order.order_id)
      BY <1>1, <3>1, <3>2 DEF Known, LogInv, CallRecorded
    <3>5. list = [j \in 1..len - c |-> log[c + j].event.fill]
      BY <1>7, <3>2 DEF LoggedFills
    <3>6. k \in 1..len - c /\ list[k] = log[c + k].event.fill
      BY <3>5
    <3>7. c + k \in c + 1 .. len
      BY <3>3, <3>6
    <3>8. FillsTaker(c + k, order.order_id)
      BY <3>4, <3>7
    <3> QED BY <3>6, <3>8 DEF FillsTaker
  <2> QED BY <1>6, <2>1, <2>2, <2>3, <2>4, <2>5, <2>6 DEF SeenTrade
<1>10. DOMAIN in_line = DOMAIN list
  BY <1>5
<1>11. CallTrades =
         [k \in DOMAIN in_line |->
            [ taker |-> Len(was) + 1, maker |-> in_line[k],
              price |-> was[in_line[k]].signed.price_ticks, lots |-> given[in_line[k]] ]]
  BY <1>8, <1>9, <1>10
<1>12. TradesOf(SettledLog') = TradesOf(SettledLog) \o CallTrades
  BY EndingStep
<1> QED BY <1>1, <1>11, <1>12

(* The last step of a call is Exchange's Submit, of the whole call.        *)
LEMMA FinishOrderSeen ==
  ASSUME Known, Known', LogGrows, FinishOrder, NoFillLogged
  PROVE  SeenStep
<1>1. Ending
  BY DEF Ending, FinishOrder
<1>2. PICK now_ms \in Times : Promise!Acceptable(taker.signed, now_ms)
  BY <1>1, SubmissionAcceptable
<1>3. PICK given, makers, in_line, n :
        /\ given = Promise!Given(taker.signed)
        /\ makers = {i \in DOMAIN given : given[i] > 0}
        /\ in_line = Promise!InLine(makers) /\ n = SeenCount
  OBVIOUS
<1>4. CallSeen(n, books[taker.signed.market_id].orders, taker, CallFills)
  BY <1>1, <1>3, CallSeenHere
<1>5. taker.signed.size_lots
        - Promise!Sum([i \in DOMAIN SeenOrders |-> IF i \in makers THEN given[i] ELSE 0])
        = remaining_size_lots(taker)
  BY <1>3, <1>4, MakersRead, LeftRead
<1>6. SeenOrders' = Placed(given, makers, taker)
  BY <1>1, <1>3, SubmittedOrders
<1>7. TradesOf(SettledLog') = TradesOf(SettledLog) \o
        [k \in DOMAIN in_line |->
           [ taker |-> Len(SeenOrders) + 1, maker |-> in_line[k],
             price |-> SeenOrders[in_line[k]].signed.price_ticks, lots |-> given[in_line[k]] ]]
  BY <1>1, <1>3, SubmittedTrades
<1>8. UNCHANGED markets
  BY <1>1, EndingStep
<1>9. Promise!Submit(taker.signed, now_ms)
  BY <1>2, <1>3, <1>5, <1>6, <1>7, <1>8, Zenon DEF Promise!Submit, Placed, NewSeen
<1>10. taker.signed \in SignedOrders
  BY <1>4 DEF CallSeen, Orders
<1> QED BY <1>9, <1>10 DEF SeenStep, Promise!Next

(* Every step of the engine is one of Exchange or none.                    *)
LEMMA ExchangeStep ==
  ASSUME Known, Known', [Next]_vars
  PROVE  SeenStep \/ UnseenStep
<1>1. LogGrows
  BY StepLogGrows DEF Known
<1>2. RecordFill \/ NoFillLogged
  BY StepNoFillLogged DEF Known
<1>3. CASE RecordFill
  BY <1>1, <1>3, RecordFillUnseen
<1>4. CASE NoFillLogged /\ UNCHANGED vars
  BY <1>4, QuietUnseen DEF vars, engine_vars, sequencer_vars, matching_vars
<1>5. CASE NoFillLogged /\ Continue
  <2>1. CASE NextLevel \/ EndMatch
    BY <2>1, QuietUnseen DEF NextLevel, EndMatch, engine_vars, sequencer_vars
  <2>2. CASE MatchMaker
    BY <1>1, <2>2, MatchMakerUnseen
  <2>3. CASE FinishOrder
    BY <1>1, <1>5, <2>3, FinishOrderSeen
  <2>4. CASE CancelNext
    BY <1>1, <1>5, <2>4, CancelNextUnseen
  <2> QED BY <1>3, <1>5, <2>1, <2>2, <2>3, <2>4 DEF Continue
<1>6. CASE NoFillLogged /\ Call
  <2>1. ASSUME NEW signed \in SignedOrders, NEW now_ms \in Times, ProcessOrder(signed, now_ms)
        PROVE  UnseenStep
    BY <1>1, <2>1, ProcessOrderUnseen
  <2>2. ASSUME NEW id, NEW trader_id, ProcessCancel(id, trader_id)
        PROVE  SeenStep
    BY <1>1, <1>6, <2>2, ProcessCancelSeen
  <2>3. ASSUME NEW trader_id, NEW client_order_id, CancelByClientId(trader_id, client_order_id)
        PROVE  SeenStep
    <3>1. PICK id : ProcessCancel(id, trader_id)
      BY <2>3 DEF CancelByClientId
    <3> QED BY <2>2, <3>1
  <2>4. ASSUME NEW market_id \in Markets, PauseMarket(market_id) \/ ResumeMarket(market_id)
        PROVE  SeenStep
    BY <1>1, <1>6, <2>4, SetStatusSeen
  <2>5. ASSUME NEW market_id \in Markets, CancelAllOrders(market_id)
        PROVE  UnseenStep
    BY <2>5, QuietUnseen DEF CancelAllOrders, engine_vars, sequencer_vars, matching_vars
  <2> QED BY <1>6, <2>1, <2>2, <2>3, <2>4, <2>5 DEF Call
<1> QED BY <1>2, <1>3, <1>4, <1>5, <1>6 DEF Next

(* All of it holds in every state.                                         *)
LEMMA SpecKnown == Spec => []Known
BY SpecEngineInv, SpecQueueInv, SpecLogGapless, SpecLogInv, SpecNoncesRise, SpecFillInv,
   SpecPlacesInv, SpecEntryInv, SpecRetryInv, SpecIdsAccepted, SpecCallInv, SpecTradesInv,
   SpecTakerTimely, PTL DEF Known

(* Every behaviour of the engine is one of Exchange: whatever the copies,  *)
(* queues and stages of process_order do, a submission trades with exactly *)
(* the resting orders ahead of it in price and time, up to its size and    *)
(* its trader's own first order, and nothing else ever changes an order.   *)
THEOREM SpecImplementsExchange == Spec => ImplementsExchange
<1>1. Known /\ Known' /\ [Next]_vars => [Promise!Next]_Promise!exchange_vars
  BY ExchangeStep DEF SeenStep, UnseenStep
<1> QED BY <1>1, SpecKnown, BeginsAsPromised, PTL DEF Spec, ImplementsExchange, Promise!Spec
=============================================================================
