--------------------------- MODULE RecoveryProofs ---------------------------
(***************************************************************************)
(* Replay, restarts and the state that survives them, for every set of     *)
(* signed orders, markets, traders and every bound.                        *)
(***************************************************************************)
EXTENDS RecoveryProperties, SnapshotProperties, LogProofs

-----------------------------------------------------------------------------
(* Replay, one event at a time *)

\* A sequence, of whatever it holds.
IsSeq(seq) == seq \in Seq({seq[i] : i \in DOMAIN seq})

(* Every sequence is one.                                                  *)
LEMMA SeqIsSeq ==
  ASSUME NEW S, NEW seq \in Seq(S)
  PROVE  IsSeq(seq) /\ Len(seq) \in Nat /\ DOMAIN seq = 1..Len(seq)
<1>1. Len(seq) \in Nat /\ DOMAIN seq = 1..Len(seq) /\ seq \in [1..Len(seq) -> S]
  BY LenProperties
<1>2. PICK n, T : n = Len(seq) /\ T = {seq[i] : i \in DOMAIN seq}
  OBVIOUS
<1>3. \A i \in 1..n : seq[i] \in T
  BY <1>1, <1>2
<1>4. seq \in [1..n -> T]
  BY <1>1, <1>2, <1>3
<1>5. n \in Nat
  BY <1>1, <1>2
<1>6. seq \in Seq(T)
  BY <1>4, <1>5
<1> QED BY <1>1, <1>2, <1>6 DEF IsSeq

\* The recursion that FoldLeft unfolds to, up to position n.
ReplayStep(events, iter, s) ==
  IF s = {} THEN fresh_replay ELSE Apply(iter[s \ {Max(s)}], events[Max(s)])

Replays(events, n, iter) ==
  iter = [s \in SUBSET (1..n) |-> ReplayStep(events, iter, s)]

\* The states that replay goes through, event by event.
Runs(states, events, n) ==
  states[0] = fresh_replay /\ \A k \in 1..n : states[k] = Apply(states[k - 1], events[k])

(* The recursion over one more position.                                   *)
LEMMA ReplaysFurther ==
  ASSUME NEW events, NEW n \in Nat, NEW iter, Replays(events, n, iter)
  PROVE  \E next : Replays(events, n + 1, next)
<1> DEFINE last == n + 1
           next == [s \in SUBSET (1..last) |->
                      IF last \in s THEN Apply(iter[s \ {last}], events[last]) ELSE iter[s]]
<1> SUFFICES ASSUME NEW s \in SUBSET (1..last)
             PROVE  next[s] = ReplayStep(events, next, s)
  <2>1. (\A s \in SUBSET (1..last) : next[s] = ReplayStep(events, next, s))
          => Replays(events, last, next)
    BY DEF Replays
  <2> HIDE DEF next
  <2> QED BY <2>1
<1>1. last \in Nat /\ last \notin 1..n /\ \A x \in 1..last : x # last => x \in 1..n
  OBVIOUS
<1>2. CASE last \in s
  <2>1. Max(s) = last
    <3>1. Max(s) \in s /\ \A y \in s : Max(s) >= y
      BY <1>1, <1>2, MaxOfPositions
    <3>2. Max(s) \in 1..last /\ Max(s) >= last
      BY <1>2, <3>1
    <3> HIDE DEF last
    <3> QED BY <1>1, <3>2
  <2>2. s \ {last} \in SUBSET (1..last) /\ last \notin s \ {last}
    OBVIOUS
  <2>3. next[s \ {last}] = iter[s \ {last}]
    <3> HIDE DEF last
    <3> QED BY <2>2
  <2> HIDE DEF last
  <2> QED BY <1>2, <2>1, <2>3 DEF ReplayStep
<1>3. CASE last \notin s /\ s # {}
  <2>1. s \in SUBSET (1..n)
    BY <1>1, <1>3
  <2>2. Max(s) \in s
    BY <1>3, <2>1, MaxOfPositions
  <2>3. s \ {Max(s)} \in SUBSET (1..last) /\ last \notin s \ {Max(s)}
    BY <1>3
  <2> HIDE DEF last
  <2>4. next[s \ {Max(s)}] = iter[s \ {Max(s)}] /\ next[s] = iter[s]
    BY <1>3, <2>3
  <2>5. iter[s] = ReplayStep(events, iter, s)
    BY <2>1 DEF Replays
  <2> QED BY <1>3, <2>4, <2>5 DEF ReplayStep
<1>4. CASE s = {}
  <2>1. iter[s] = ReplayStep(events, iter, s) /\ last \notin s
    BY <1>4 DEF Replays
  <2> HIDE DEF last
  <2> QED BY <1>4, <2>1 DEF ReplayStep
<1> QED BY <1>2, <1>3, <1>4

(* So it has a solution for every length.                                  *)
LEMMA ReplaysExists ==
  ASSUME NEW events, NEW n \in Nat
  PROVE  \E iter : Replays(events, n, iter)
<1> DEFINE Unfolded == {k \in Nat : ~ \E iter : Replays(events, k, iter)}
<1>1. SUFFICES ASSUME Unfolded # {} PROVE FALSE
  OBVIOUS
<1>2. Unfolded \subseteq Nat
  OBVIOUS
<1>3. PICK least \in Unfolded : \A k \in Unfolded : least <= k
  <2> HIDE DEF Unfolded
  <2> QED BY <1>1, <1>2, LeastNatural
<1>4. CASE least = 0
  <2> DEFINE iter == [s \in SUBSET (1..0) |-> fresh_replay]
  <2>1. SUBSET (1..0) = {{}}
    OBVIOUS
  <2>2. Replays(events, 0, iter)
    BY <2>1 DEF Replays, ReplayStep
  <2> QED BY <1>3, <1>4, <2>2
<1>5. CASE least # 0
  <2>1. least \in Nat /\ least - 1 \in Nat /\ (least - 1) + 1 = least /\ ~(least <= least - 1)
    BY <1>3, <1>5
  <2>2. PICK iter : Replays(events, least - 1, iter)
    BY <1>3, <2>1
  <2>3. \E next : Replays(events, (least - 1) + 1, next)
    BY <2>1, <2>2, ReplaysFurther
  <2> QED BY <1>3, <2>1, <2>3
<1> QED BY <1>4, <1>5

(* Replay goes through states, one per event, and ends in the last.        *)
LEMMA ReplayRuns ==
  ASSUME NEW events, IsSeq(events)
  PROVE  \E states : /\ DOMAIN states = 0..Len(events)
                     /\ Runs(states, events, Len(events))
                     /\ replayed(events) = states[Len(events)]
<1> DEFINE n == Len(events)
           whole == CHOOSE iter : Replays(events, n, iter)
           states == [k \in 0..n |-> whole[1..k]]
<1>1. n \in Nat /\ DOMAIN events = 1..n
  BY LenProperties DEF IsSeq
<1>2. Replays(events, n, whole)
  BY <1>1, ReplaysExists
<1>3. replayed(events) = whole[1..n]
  BY <1>1 DEF replayed, FoldLeft, MapThenFoldSet, Replays, ReplayStep
<1> HIDE DEF n, whole
<1>4. states[0] = fresh_replay
  <2>1. 1..0 = {} /\ 1..0 \in SUBSET (1..n) /\ 0 \in 0..n
    BY <1>1
  <2> QED BY <1>2, <2>1 DEF Replays, ReplayStep
<1>5. ASSUME NEW k \in 1..n PROVE states[k] = Apply(states[k - 1], events[k])
  <2>1. 1..k \in SUBSET (1..n) /\ 1..k # {} /\ k \in 1..k /\ k \in 0..n /\ k - 1 \in 0..n
    BY <1>1
  <2>2. Max(1..k) = k
    <3>1. Max(1..k) \in 1..k /\ Max(1..k) >= k
      BY <1>1, <2>1, MaxOfPositions
    <3> QED BY <3>1
  <2>3. (1..k) \ {k} = 1..k - 1
    BY <1>1
  <2>4. whole[1..k] = Apply(whole[1..k - 1], events[k])
    BY <1>2, <2>1, <2>2, <2>3 DEF Replays, ReplayStep
  <2> QED BY <2>1, <2>4
<1>6. DOMAIN states = 0..n /\ states[n] = whole[1..n]
  BY <1>1
<1> HIDE DEF states
<1>7. DOMAIN states = 0..Len(events) /\ Runs(states, events, Len(events))
      /\ replayed(events) = states[Len(events)]
  BY <1>3, <1>4, <1>5, <1>6 DEF Runs, n
<1> QED BY <1>7

(* Two runs over events that begin alike agree as far as they do.          *)
LEMMA RunsAgree ==
  ASSUME NEW n \in Nat, NEW events, NEW states, NEW other,
         Runs(states, events, n), Runs(other, events, n)
  PROVE  states[n] = other[n]
<1> USE DEF Runs
<1> DEFINE Apart == {k \in 0..n : states[k] # other[k]}
<1>1. SUFFICES ASSUME Apart # {} PROVE FALSE
  OBVIOUS
<1>2. PICK least \in Apart : \A k \in Apart : least <= k
  <2>1. Apart \subseteq Nat
    OBVIOUS
  <2> HIDE DEF Apart
  <2> QED BY <1>1, <2>1, LeastNatural
<1>3. /\ least \in 1..n /\ least - 1 \in 0..n /\ ~(least <= least - 1)
  BY <1>2
<1>4. states[least - 1] = other[least - 1]
  BY <1>2, <1>3
<1> QED BY <1>2, <1>3, <1>4

LEMMA EmptyIsSeq == IsSeq(<< >>) /\ Len(<< >>) = 0 /\ DOMAIN << >> = {}
<1>1. << >> \in Seq({}) /\ Len(<< >>) = 0
  BY EmptySeq
<1>2. IsSeq(<< >>)
  BY EmptySeq DEF IsSeq
<1>3. DOMAIN << >> = 1..Len(<< >>)
  BY <1>1, LenProperties
<1> QED BY <1>1, <1>2, <1>3

(* Nothing to replay.                                                      *)
LEMMA ReplayOfEmpty == replayed(<< >>) = fresh_replay
<1>1. PICK states : Runs(states, << >>, 0) /\ replayed(<< >>) = states[0]
  BY EmptyIsSeq, ReplayRuns
<1> QED BY <1>1 DEF Runs

(* A sequence with one element more.                                       *)
LEMMA AppendedSeq ==
  ASSUME NEW events, IsSeq(events), NEW se
  PROVE  /\ Len(Append(events, se)) = Len(events) + 1
         /\ DOMAIN Append(events, se) = 1..Len(events) + 1
         /\ Append(events, se)[Len(events) + 1] = se
         /\ \A k \in DOMAIN events : Append(events, se)[k] = events[k]
<1> DEFINE S == {events[i] : i \in DOMAIN events}
<1>1. events \in Seq(S)
  BY DEF IsSeq
<1>2. events \in Seq(S \cup {se}) /\ se \in S \cup {se}
  <2> HIDE DEF S
  <2> QED BY <1>1
<1> HIDE DEF S
<1> QED BY <1>2, AppendProperties, LenProperties

(* An appended event is applied to the state that was reached.             *)
LEMMA ReplayOfAppend ==
  ASSUME NEW events, IsSeq(events), NEW se
  PROVE  /\ IsSeq(Append(events, se))
         /\ replayed(Append(events, se)) = Apply(replayed(events), se)
<1> DEFINE longer == Append(events, se)
           n == Len(events)
           S == {events[i] : i \in DOMAIN events}
<1>1. events \in Seq(S) /\ n \in Nat /\ DOMAIN events = 1..n
  BY LenProperties DEF IsSeq
<1>2. /\ Len(longer) = n + 1 /\ DOMAIN longer = 1..n + 1 /\ longer[n + 1] = se
      /\ \A k \in 1..n : longer[k] = events[k]
  <2>1. events \in Seq(S \cup {se}) /\ se \in S \cup {se}
    <3> HIDE DEF S
    <3> QED BY <1>1
  <2> HIDE DEF S
  <2> QED BY <2>1, AppendProperties, LenProperties
<1>3. IsSeq(longer)
  <2>1. longer \in Seq(S \cup {se})
    <3> HIDE DEF S
    <3> QED BY <1>1, AppendProperties
  <2> HIDE DEF longer, S
  <2> QED BY <2>1, SeqIsSeq
<1> HIDE DEF longer, n, S
<1>4. PICK states : Runs(states, events, n) /\ replayed(events) = states[n]
  BY ReplayRuns DEF n
<1>5. PICK more : Runs(more, longer, n + 1) /\ replayed(longer) = more[n + 1]
  BY <1>2, <1>3, ReplayRuns
<1>6. Runs(more, events, n)
  <2>1. ASSUME NEW k \in 1..n PROVE more[k] = Apply(more[k - 1], events[k])
    <3>1. k \in 1..n + 1 /\ longer[k] = events[k]
      BY <1>1, <1>2
    <3> QED BY <1>5, <3>1 DEF Runs
  <2> QED BY <1>5, <2>1 DEF Runs
<1>7. more[n + 1] = Apply(more[n], se)
  <2>1. n + 1 \in 1..n + 1 /\ (n + 1) - 1 = n
    BY <1>1
  <2> QED BY <1>2, <1>5, <2>1 DEF Runs
<1>8. more[n] = states[n]
  BY <1>1, <1>4, <1>6, RunsAgree
<1> QED BY <1>3, <1>4, <1>5, <1>7, <1>8 DEF longer

-----------------------------------------------------------------------------
(* What one event does to a replay state *)

ReplayState(o, f, c, n, l, e) ==
  [ orders |-> o, filled_amounts |-> f, cancelled |-> c, nonces |-> n, last_seq_id |-> l, error |-> e ]

IsReplay(rs) == \E o, f, c, n, l, e : rs = ReplayState(o, f, c, n, l, e)

\* An order with the fields that recovery reads, under its id.
Named(order, id) ==
  {"order_id", "created_sequence"} \subseteq DOMAIN order /\ order.order_id = id

\* Orders are only added, and keep their names and their acceptances.
OrdersKept(orders, after) ==
  /\ DOMAIN orders \subseteq DOMAIN after
  /\ \A id \in DOMAIN orders : Named(orders[id], id) =>
       /\ Named(after[id], id)
       /\ after[id].created_sequence = orders[id].created_sequence

(* What the record of a replay state holds.                                *)
LEMMA ReplayParts ==
  ASSUME NEW o, NEW f, NEW c, NEW n, NEW l, NEW e, NEW rs, rs = ReplayState(o, f, c, n, l, e)
  PROVE  /\ IsReplay(rs) /\ rs.orders = o /\ rs.filled_amounts = f /\ rs.cancelled = c
         /\ rs.nonces = n /\ rs.last_seq_id = l /\ rs.error = e
<1>1. IsReplay(rs)
  BY Zenon DEF IsReplay
<1> QED BY <1>1 DEF ReplayState

\* The nonces after an acceptance, and the amounts after a fill.
Raised(table, order) ==
  [table EXCEPT ![order.signed.trader_id] =
                  IF order.signed.nonce > @ THEN order.signed.nonce ELSE @]

Filled(amounts, fill) ==
  [amounts EXCEPT ![fill.taker_order_hash] = @ + fill.size_lots,
                  ![fill.maker_order_hash] = @ + fill.size_lots]

\* What an acceptance makes of a replay state.
AcceptanceMade(rs, order, after) ==
  /\ IsReplay(after)
  /\ after.orders = put(rs.orders, order.order_id, order)
  /\ after.nonces = Raised(rs.nonces, order)
  /\ after.filled_amounts = rs.filled_amounts /\ after.cancelled = rs.cancelled
  /\ after.last_seq_id = rs.last_seq_id /\ after.error = rs.error

(* An acceptance adds its order and raises its trader's nonce.             *)
LEMMA AcceptanceApplied ==
  ASSUME NEW rs, IsReplay(rs), NEW order, NEW after, after = replay_accepted(rs, order)
  PROVE  AcceptanceMade(rs, order, after)
<1>1. PICK o, f, c, n, l, e : rs = ReplayState(o, f, c, n, l, e)
  BY DEF IsReplay
<1>2. PICK trader, more : trader = order.signed.trader_id /\ more = put(o, order.order_id, order)
  OBVIOUS
<1>3. PICK nonce : nonce = IF order.signed.nonce > n[trader] THEN order.signed.nonce ELSE n[trader]
  OBVIOUS
<1>4. PICK raised : raised = [n EXCEPT ![trader] = nonce]
  OBVIOUS
<1>5. PICK mid : mid = [rs EXCEPT !.nonces[trader] = nonce]
  OBVIOUS
<1>6. rs.nonces = n /\ rs.orders = o
  BY <1>1, ReplayParts
<1>7. mid = ReplayState(o, f, c, raised, l, e)
  BY <1>1, <1>4, <1>5 DEF ReplayState
<1>9. after = [mid EXCEPT !.orders = more]
  BY <1>2, <1>3, <1>5, <1>6 DEF replay_accepted
<1>10. after = ReplayState(more, f, c, raised, l, e)
  BY <1>7, <1>9 DEF ReplayState
<1>11. /\ IsReplay(after) /\ after.orders = more /\ after.nonces = raised
       /\ after.filled_amounts = f /\ after.cancelled = c /\ after.last_seq_id = l /\ after.error = e
  BY <1>10, ReplayParts
<1>12. /\ rs.filled_amounts = f /\ rs.cancelled = c /\ rs.last_seq_id = l /\ rs.error = e
  BY <1>1, ReplayParts
<1> QED BY <1>2, <1>3, <1>4, <1>6, <1>11, <1>12 DEF Raised, AcceptanceMade

\* The orders after a fill of two of them, and after a cancellation of one.
OrdersFilled(orders, fill, seq_id, after) ==
  /\ after = [id \in DOMAIN orders |-> after[id]]
  /\ fill.taker_order_id # fill.maker_order_id =>
       \A id \in DOMAIN orders :
         after[id] = IF FillOf(fill, id) THEN replay_filled(orders[id], fill.size_lots, seq_id)
                     ELSE orders[id]

CancelStatus(reason) == IF reason = "self_trade_prevention" THEN "cancelled_stp" ELSE "cancelled"

replay_ended(order, reason, seq_id) ==
  [order EXCEPT !.status = CancelStatus(reason), !.last_update_sequence = seq_id]

OrderEnded(orders, event, seq_id, after) ==
  /\ after = [id \in DOMAIN orders |-> after[id]]
  /\ \A id \in DOMAIN orders :
       after[id] = IF id = event.order_id THEN replay_ended(orders[id], event.reason, seq_id)
                   ELSE orders[id]

(* A fill of known orders changes these two, and their amounts.            *)
LEMMA FillApplied ==
  ASSUME NEW rs, IsReplay(rs), NEW fill, NEW seq_id,
         {fill.taker_order_id, fill.maker_order_id} \subseteq DOMAIN rs.orders,
         NEW after, after = replay_fill(rs, fill, seq_id)
  PROVE  /\ IsReplay(after)
         /\ DOMAIN after.orders = DOMAIN rs.orders /\ OrdersKept(rs.orders, after.orders)
         /\ OrdersFilled(rs.orders, fill, seq_id, after.orders)
         /\ after.filled_amounts = Filled(rs.filled_amounts, fill)
         /\ after.cancelled = rs.cancelled /\ after.nonces = rs.nonces
         /\ after.last_seq_id = rs.last_seq_id /\ after.error = rs.error
<1>1. PICK o, f, c, n, l, e : rs = ReplayState(o, f, c, n, l, e)
  BY DEF IsReplay
<1>2. /\ rs.orders = o /\ rs.filled_amounts = f /\ rs.cancelled = c /\ rs.nonces = n
      /\ rs.last_seq_id = l /\ rs.error = e
  BY <1>1, ReplayParts
<1>3. PICK t, m, th, mh, qty : /\ t = fill.taker_order_id /\ m = fill.maker_order_id
                               /\ th = fill.taker_order_hash /\ mh = fill.maker_order_hash
                               /\ qty = fill.size_lots
  OBVIOUS
<1>4. PICK x, y, p, q : /\ x = replay_filled(o[t], qty, seq_id) /\ y = replay_filled(o[m], qty, seq_id)
                        /\ p = f[th] + qty /\ q = f[mh] + qty
  OBVIOUS
<1>6. after = [rs EXCEPT !.orders[t] = x, !.orders[m] = y,
                         !.filled_amounts[th] = p, !.filled_amounts[mh] = q]
  BY <1>2, <1>3, <1>4 DEF replay_fill
<1>7. PICK one, both, once, amounts : /\ one = [o EXCEPT ![t] = x] /\ both = [one EXCEPT ![m] = y]
                                      /\ once = [f EXCEPT ![th] = p] /\ amounts = [once EXCEPT ![mh] = q]
  OBVIOUS
<1>8. PICK mid : mid = ReplayState(both, amounts, c, n, l, e)
  OBVIOUS
<1>9. after = mid
  <2>1. [rs EXCEPT !.orders[t] = x] = ReplayState(one, f, c, n, l, e)
    BY <1>1, <1>7 DEF ReplayState
  <2>2. [ReplayState(one, f, c, n, l, e) EXCEPT !.orders[m] = y] = ReplayState(both, f, c, n, l, e)
    BY <1>7 DEF ReplayState
  <2>3. [ReplayState(both, f, c, n, l, e) EXCEPT !.filled_amounts[th] = p]
          = ReplayState(both, once, c, n, l, e)
    BY <1>7 DEF ReplayState
  <2>4. [ReplayState(both, once, c, n, l, e) EXCEPT !.filled_amounts[mh] = q] = mid
    BY <1>7, <1>8 DEF ReplayState
  <2> QED BY <1>6, <2>1, <2>2, <2>3, <2>4
<1>10. /\ IsReplay(after) /\ after.orders = both /\ after.filled_amounts = amounts
       /\ after.cancelled = c /\ after.nonces = n /\ after.last_seq_id = l /\ after.error = e
  BY <1>8, <1>9, ReplayParts
<1>11. ASSUME NEW order, NEW id, Named(order, id)
       PROVE  /\ Named(replay_filled(order, qty, seq_id), id)
              /\ replay_filled(order, qty, seq_id).created_sequence = order.created_sequence
  BY <1>11 DEF Named, replay_filled
<1>12. OrdersKept(o, both) /\ DOMAIN both = DOMAIN o
  BY <1>4, <1>7, <1>11 DEF OrdersKept
<1>14. OrdersFilled(o, fill, seq_id, both)
  <2>1. both = [id \in DOMAIN o |-> both[id]]
    BY <1>7
  <2>2. ASSUME t # m, NEW id \in DOMAIN o
        PROVE  both[id] = IF id = t THEN x ELSE IF id = m THEN y ELSE o[id]
    BY <1>7, <2>2
  <2>3. ASSUME t # m, NEW id \in DOMAIN o
        PROVE  both[id] = IF t = id \/ m = id THEN replay_filled(o[id], qty, seq_id) ELSE o[id]
    BY <1>4, <2>2, <2>3
  <2> QED BY <1>3, <2>1, <2>3 DEF OrdersFilled, FillOf
<1>13. amounts = [f EXCEPT ![th] = p, ![mh] = q]
  BY <1>7
<1> QED BY <1>2, <1>3, <1>4, <1>10, <1>12, <1>13, <1>14 DEF Filled

(* A cancellation of a known order changes it, and its hash is cancelled.  *)
LEMMA CancellationApplied ==
  ASSUME NEW rs, IsReplay(rs), NEW event, NEW seq_id, event.order_id \in DOMAIN rs.orders,
         NEW after, after = replay_cancelled(rs, event, seq_id)
  PROVE  /\ IsReplay(after)
         /\ DOMAIN after.orders = DOMAIN rs.orders /\ OrdersKept(rs.orders, after.orders)
         /\ OrderEnded(rs.orders, event, seq_id, after.orders)
         /\ after.cancelled = rs.cancelled \cup {event.order_hash}
         /\ after.filled_amounts = rs.filled_amounts /\ after.nonces = rs.nonces
         /\ after.last_seq_id = rs.last_seq_id /\ after.error = rs.error
<1>1. PICK o, f, c, n, l, e : rs = ReplayState(o, f, c, n, l, e)
  BY DEF IsReplay
<1>2. /\ rs.orders = o /\ rs.filled_amounts = f /\ rs.cancelled = c /\ rs.nonces = n
      /\ rs.last_seq_id = l /\ rs.error = e
  BY <1>1, ReplayParts
<1>3. PICK id, more, status : /\ id = event.order_id /\ more = c \cup {event.order_hash}
                              /\ status = IF event.reason = "self_trade_prevention"
                                          THEN "cancelled_stp" ELSE "cancelled"
  OBVIOUS
<1>5. after = [rs EXCEPT !.orders[id].status = status, !.orders[id].last_update_sequence = seq_id,
                         !.cancelled = more]
  BY <1>2, <1>3 DEF replay_cancelled
<1>6. PICK one, both : /\ one = [o EXCEPT ![id].status = status]
                       /\ both = [one EXCEPT ![id].last_update_sequence = seq_id]
  OBVIOUS
<1>7. PICK mid : mid = ReplayState(both, f, more, n, l, e)
  OBVIOUS
<1>8. after = mid
  <2>1. [rs EXCEPT !.orders[id].status = status] = ReplayState(one, f, c, n, l, e)
    BY <1>1, <1>6 DEF ReplayState
  <2>2. [ReplayState(one, f, c, n, l, e) EXCEPT !.orders[id].last_update_sequence = seq_id]
          = ReplayState(both, f, c, n, l, e)
    BY <1>6 DEF ReplayState
  <2>3. [ReplayState(both, f, c, n, l, e) EXCEPT !.cancelled = more] = mid
    BY <1>7 DEF ReplayState
  <2> QED BY <1>5, <2>1, <2>2, <2>3
<1>9. /\ IsReplay(after) /\ after.orders = both /\ after.filled_amounts = f
      /\ after.cancelled = more /\ after.nonces = n /\ after.last_seq_id = l /\ after.error = e
  BY <1>7, <1>8, ReplayParts
<1>10. OrdersKept(o, both) /\ DOMAIN both = DOMAIN o
  BY <1>6 DEF OrdersKept, Named
<1>11. OrderEnded(o, event, seq_id, both)
  <2>1. both = [x \in DOMAIN o |-> both[x]]
    BY <1>6
  <2>2. ASSUME NEW x \in DOMAIN o
        PROVE  both[x] = IF x = id THEN replay_ended(o[x], event.reason, seq_id) ELSE o[x]
    BY <1>3, <1>6 DEF replay_ended, CancelStatus
  <2> QED BY <1>3, <2>1, <2>2 DEF OrderEnded
<1> QED BY <1>2, <1>3, <1>9, <1>10, <1>11

-----------------------------------------------------------------------------
(* Replaying a sound log *)

\* What every row of the log and of Postgres is: numbered from 1, and an
\* acceptance carries its own id.
RowSound(row) ==
  /\ row.seq_id \in Nat \ {0}
  /\ row.event.type = "order_accepted" =>
       /\ Named(row.event.order, row.event.order.order_id)
       /\ row.event.order.created_sequence = row.seq_id

Accepts(row, id, seq_id) ==
  row.event.type = "order_accepted" /\ row.event.order.order_id = id /\ row.seq_id = seq_id

\* After n events without an error: these have followed one another, and the
\* orders are the accepted ones.
OrdersAccepted(orders, events, n) ==
  /\ \A id \in DOMAIN orders :
       /\ Named(orders[id], id)
       /\ \E i \in 1..n : Accepts(events[i], id, orders[id].created_sequence)
  /\ \A i \in 1..n : events[i].event.type = "order_accepted"
                       => events[i].event.order.order_id \in DOMAIN orders

ReplaySound(rs, events, n) ==
  /\ IsReplay(rs)
  /\ rs.error = "none" =>
       /\ rs.last_seq_id = IF n = 0 THEN 0 ELSE events[n].seq_id
       /\ \A i \in 2..n : events[i].seq_id = events[i - 1].seq_id + 1
       /\ OrdersAccepted(rs.orders, events, n)

\* The state in which Apply handles the event.
Reached(rs, seq_id) == [rs EXCEPT !.last_seq_id = seq_id]

LEMMA ReachedParts ==
  ASSUME NEW rs, IsReplay(rs), NEW seq_id, NEW at, at = Reached(rs, seq_id)
  PROVE  /\ IsReplay(at) /\ at.orders = rs.orders /\ at.filled_amounts = rs.filled_amounts
         /\ at.cancelled = rs.cancelled /\ at.nonces = rs.nonces
         /\ at.last_seq_id = seq_id /\ at.error = rs.error
<1>1. PICK o, f, c, n, l, e : rs = ReplayState(o, f, c, n, l, e)
  BY DEF IsReplay
<1>2. at = ReplayState(o, f, c, n, seq_id, e)
  BY <1>1 DEF Reached, ReplayState
<1> QED BY <1>1, <1>2, ReplayParts

LEMMA ErrorParts ==
  ASSUME NEW rs, IsReplay(rs), NEW error
  PROVE  IsReplay([rs EXCEPT !.error = error]) /\ [rs EXCEPT !.error = error].error = error
<1>1. PICK o, f, c, n, l, e : rs = ReplayState(o, f, c, n, l, e)
  BY DEF IsReplay
<1>2. PICK after : after = [rs EXCEPT !.error = error]
  OBVIOUS
<1>3. after = ReplayState(o, f, c, n, l, error)
  BY <1>1, <1>2 DEF ReplayState
<1> QED BY <1>1, <1>2, <1>3, ReplayParts

\* What Apply does with an event that follows the ones before.
Handled(at, event, seq_id) ==
  CASE event.type = "order_accepted" -> replay_accepted(at, event.order)
    [] event.type = "fill" -> replay_fill(at, event.fill, seq_id)
    [] event.type = "order_cancelled" -> replay_cancelled(at, event, seq_id)
    [] OTHER -> at

(* The ways in which Apply may end.                                        *)
LEMMA ApplyCases ==
  ASSUME NEW rs, NEW se
  PROVE  /\ rs.error # "none" => Apply(rs, se) = rs
         /\ rs.error = "none" /\ ~follows(rs, se.seq_id)
              => Apply(rs, se) = [rs EXCEPT !.error = "SeqIdGap"]
         /\ rs.error = "none" /\ follows(rs, se.seq_id)
              => Apply(rs, se) = Handled(Reached(rs, se.seq_id), se.event, se.seq_id)
BY DEF Apply, Handled, Reached

(* An event that is handled without an error: what it does to the orders.  *)
LEMMA HandledOrders ==
  ASSUME NEW at, IsReplay(at), at.error = "none", NEW event, NEW seq_id
  PROVE  LET after == Handled(at, event, seq_id) IN
         /\ IsReplay(after)
         /\ after.error = "none" =>
              /\ after.last_seq_id = at.last_seq_id
              /\ event.type = "order_accepted" =>
                   after.orders = put(at.orders, event.order.order_id, event.order)
              /\ event.type # "order_accepted" =>
                   DOMAIN after.orders = DOMAIN at.orders /\ OrdersKept(at.orders, after.orders)
<1>1. PICK after : after = Handled(at, event, seq_id)
  OBVIOUS
<1>2. IsReplay([at EXCEPT !.error = "UnknownOrder"])
      /\ [at EXCEPT !.error = "UnknownOrder"].error # "none"
  BY ErrorParts
<1>3. CASE event.type = "order_accepted"
  <2>1. PICK order : order = event.order
    OBVIOUS
  <2>2. PICK next : next = replay_accepted(at, order)
    OBVIOUS
  <2>3. /\ IsReplay(next) /\ next.orders = put(at.orders, order.order_id, order)
        /\ next.last_seq_id = at.last_seq_id
    BY <2>2, AcceptanceApplied DEF AcceptanceMade
  <2>4. after = next
    BY <1>1, <1>3, <2>1, <2>2 DEF Handled
  <2> QED BY <1>1, <1>3, <2>1, <2>3, <2>4
<1>4. CASE event.type = "fill"
  <2>1. PICK fill : fill = event.fill
    OBVIOUS
  <2>2. PICK next : next = replay_fill(at, fill, seq_id)
    OBVIOUS
  <2>3. after = next
    BY <1>1, <1>4, <2>1, <2>2 DEF Handled
  <2>4. CASE {fill.taker_order_id, fill.maker_order_id} \subseteq DOMAIN at.orders
    <3>1. /\ IsReplay(next) /\ DOMAIN next.orders = DOMAIN at.orders
          /\ OrdersKept(at.orders, next.orders) /\ next.last_seq_id = at.last_seq_id
      BY <2>2, <2>4, FillApplied
    <3> QED BY <1>1, <1>4, <2>3, <3>1
  <2>5. CASE ~({fill.taker_order_id, fill.maker_order_id} \subseteq DOMAIN at.orders)
    <3>1. next = [at EXCEPT !.error = "UnknownOrder"]
      BY <2>2, <2>5 DEF replay_fill
    <3> QED BY <1>1, <1>2, <2>3, <3>1
  <2> QED BY <2>4, <2>5
<1>5. CASE event.type = "order_cancelled"
  <2>1. PICK next : next = replay_cancelled(at, event, seq_id)
    OBVIOUS
  <2>2. after = next
    BY <1>1, <1>5, <2>1 DEF Handled
  <2>3. CASE event.order_id \in DOMAIN at.orders
    <3>1. /\ IsReplay(next) /\ DOMAIN next.orders = DOMAIN at.orders
          /\ OrdersKept(at.orders, next.orders) /\ next.last_seq_id = at.last_seq_id
      BY <2>1, <2>3, CancellationApplied
    <3> QED BY <1>1, <1>5, <2>2, <3>1
  <2>4. CASE event.order_id \notin DOMAIN at.orders
    <3>1. next = [at EXCEPT !.error = "UnknownOrder"]
      BY <2>1, <2>4 DEF replay_cancelled
    <3> QED BY <1>1, <1>2, <2>2, <3>1
  <2> QED BY <2>3, <2>4
<1>6. CASE event.type \notin {"order_accepted", "fill", "order_cancelled"}
  <2>1. after = at
    BY <1>1, <1>6 DEF Handled
  <2>2. OrdersKept(at.orders, at.orders)
    BY DEF OrdersKept
  <2> QED BY <1>1, <1>6, <2>1, <2>2
<1> QED BY <1>3, <1>4, <1>5, <1>6

(* An event that replays without an error: the one before did too, and     *)
(* what it does to the orders.                                             *)
LEMMA AppliedOrders ==
  ASSUME NEW rs, IsReplay(rs), NEW se
  PROVE  LET after == Apply(rs, se) IN
         /\ IsReplay(after)
         /\ after.error = "none" =>
              /\ rs.error = "none" /\ follows(rs, se.seq_id) /\ after.last_seq_id = se.seq_id
              /\ se.event.type = "order_accepted" =>
                   after.orders = put(rs.orders, se.event.order.order_id, se.event.order)
              /\ se.event.type # "order_accepted" =>
                   DOMAIN after.orders = DOMAIN rs.orders /\ OrdersKept(rs.orders, after.orders)
<1>1. PICK after, at, event, s : /\ after = Apply(rs, se) /\ event = se.event /\ s = se.seq_id
                                 /\ at = Reached(rs, s)
  OBVIOUS
<1>2. /\ IsReplay(at) /\ at.orders = rs.orders /\ at.error = rs.error /\ at.last_seq_id = s
  BY <1>1, ReachedParts
<1>3. CASE rs.error # "none"
  BY <1>3, ApplyCases
<1>4. CASE rs.error = "none" /\ ~follows(rs, se.seq_id)
  <2>1. Apply(rs, se) = [rs EXCEPT !.error = "SeqIdGap"]
    BY <1>4, ApplyCases
  <2>2. IsReplay(Apply(rs, se)) /\ Apply(rs, se).error = "SeqIdGap"
    BY <2>1, ErrorParts
  <2> QED BY <2>2
<1>5. CASE rs.error = "none" /\ follows(rs, se.seq_id)
  <2>1. after = Handled(at, event, s)
    BY <1>1, <1>5, ApplyCases
  <2>2. PICK next : next = Handled(at, event, s)
    OBVIOUS
  <2>3. /\ IsReplay(next)
        /\ next.error = "none" =>
             /\ next.last_seq_id = at.last_seq_id
             /\ event.type = "order_accepted" =>
                  next.orders = put(at.orders, event.order.order_id, event.order)
             /\ event.type # "order_accepted" =>
                  DOMAIN next.orders = DOMAIN at.orders /\ OrdersKept(at.orders, next.orders)
    BY <1>2, <1>5, <2>2, HandledOrders
  <2>4. after = next
    BY <2>1, <2>2
  <2> QED BY <1>1, <1>2, <1>5, <2>3, <2>4
<1> QED BY <1>3, <1>4, <1>5


\* An order more, or another one, under the id.
Added(orders, id, order, more) ==
  /\ DOMAIN more = DOMAIN orders \cup {id}
  /\ \A k \in DOMAIN more : more[k] = IF k = id THEN order ELSE orders[k]

(* What an association put into a function does to it.                     *)
LEMMA PutOrder ==
  ASSUME NEW orders, NEW id, NEW order
  PROVE  Added(orders, id, order, put(orders, id, order))
BY DEF put, Added

(* A sound row more.                                                       *)
LEMMA ApplySound ==
  ASSUME NEW rs, NEW events, NEW n \in Nat, ReplaySound(rs, events, n),
         \A i \in 1..n + 1 : RowSound(events[i])
  PROVE  ReplaySound(Apply(rs, events[n + 1]), events, n + 1)
<1>1. PICK se, after : se = events[n + 1] /\ after = Apply(rs, se)
  OBVIOUS
<1>2. IsReplay(rs)
  BY DEF ReplaySound
<1>3. /\ IsReplay(after)
      /\ after.error = "none" =>
           /\ rs.error = "none" /\ follows(rs, se.seq_id) /\ after.last_seq_id = se.seq_id
           /\ se.event.type = "order_accepted" =>
                after.orders = put(rs.orders, se.event.order.order_id, se.event.order)
           /\ se.event.type # "order_accepted" =>
                DOMAIN after.orders = DOMAIN rs.orders /\ OrdersKept(rs.orders, after.orders)
  BY <1>1, <1>2, AppliedOrders
<1>4. SUFFICES ASSUME after.error = "none"
               PROVE  /\ after.last_seq_id = events[n + 1].seq_id
                      /\ \A i \in 2..n + 1 : events[i].seq_id = events[i - 1].seq_id + 1
                      /\ OrdersAccepted(after.orders, events, n + 1)
  BY <1>1, <1>3 DEF ReplaySound
<1>5. /\ rs.last_seq_id = IF n = 0 THEN 0 ELSE events[n].seq_id
      /\ \A i \in 2..n : events[i].seq_id = events[i - 1].seq_id + 1
      /\ OrdersAccepted(rs.orders, events, n)
  BY <1>3, <1>4 DEF ReplaySound
<1>6. \A i \in 2..n + 1 : events[i].seq_id = events[i - 1].seq_id + 1
  <2> SUFFICES ASSUME NEW i \in 2..n + 1 PROVE events[i].seq_id = events[i - 1].seq_id + 1
    OBVIOUS
  <2>1. CASE i \in 2..n
    BY <1>5, <2>1
  <2>2. CASE i = n + 1 /\ n # 0
    <3>1. n \in 1..n + 1 /\ i - 1 = n
      BY <2>2
    <3>2. events[n].seq_id # 0
      BY <3>1 DEF RowSound
    <3> QED BY <1>1, <1>3, <1>4, <1>5, <2>2, <3>1, <3>2 DEF follows
  <2> QED BY <2>1, <2>2
<1>7. RowSound(se) /\ \A i \in 1..n : i \in 1..n + 1
  BY <1>1
<1>8. CASE se.event.type = "order_accepted"
  <2>1. PICK order, id : order = se.event.order /\ id = order.order_id
    OBVIOUS
  <2>2. after.orders = put(rs.orders, id, order)
    BY <1>3, <1>4, <1>8, <2>1
  <2>3. Named(order, id) /\ order.created_sequence = se.seq_id
    BY <1>7, <1>8, <2>1 DEF RowSound
  <2>4. /\ DOMAIN after.orders = DOMAIN rs.orders \cup {id}
        /\ \A k \in DOMAIN rs.orders \cup {id} :
             after.orders[k] = IF k = id THEN order ELSE rs.orders[k]
    <3>1. Added(rs.orders, id, order, after.orders)
      BY <2>2, PutOrder
    <3> QED BY <3>1 DEF Added
  <2>5. n + 1 \in 1..n + 1 /\ Accepts(events[n + 1], id, order.created_sequence)
    BY <1>1, <1>8, <2>1, <2>3 DEF Accepts
  <2>6. ASSUME NEW k \in DOMAIN after.orders
        PROVE  /\ Named(after.orders[k], k)
               /\ \E i \in 1..n + 1 : Accepts(events[i], k, after.orders[k].created_sequence)
    <3>1. CASE k = id
      BY <2>3, <2>4, <2>5, <3>1
    <3>2. CASE k # id
      <4>1. k \in DOMAIN rs.orders /\ after.orders[k] = rs.orders[k]
        BY <2>4, <2>6, <3>2
      <4> QED BY <1>5, <1>7, <4>1 DEF OrdersAccepted
    <3> QED BY <3>1, <3>2
  <2>7. ASSUME NEW i \in 1..n + 1, events[i].event.type = "order_accepted"
        PROVE  events[i].event.order.order_id \in DOMAIN after.orders
    <3>1. CASE i = n + 1
      BY <1>1, <2>1, <2>4, <3>1
    <3>2. CASE i # n + 1
      <4>1. i \in 1..n
        BY <3>2
      <4> QED BY <1>5, <2>4, <2>7, <4>1 DEF OrdersAccepted
    <3> QED BY <3>1, <3>2
  <2>8. OrdersAccepted(after.orders, events, n + 1)
    BY <2>6, <2>7 DEF OrdersAccepted
  <2> QED BY <1>1, <1>3, <1>4, <1>6, <2>8
<1>9. CASE se.event.type # "order_accepted"
  <2>1. DOMAIN after.orders = DOMAIN rs.orders /\ OrdersKept(rs.orders, after.orders)
    BY <1>3, <1>4, <1>9
  <2>2. ASSUME NEW k \in DOMAIN after.orders
        PROVE  /\ Named(after.orders[k], k)
               /\ \E i \in 1..n + 1 : Accepts(events[i], k, after.orders[k].created_sequence)
    <3>1. Named(rs.orders[k], k) /\ \E i \in 1..n : Accepts(events[i], k, rs.orders[k].created_sequence)
      BY <1>5, <2>1 DEF OrdersAccepted
    <3>2. Named(after.orders[k], k) /\ after.orders[k].created_sequence = rs.orders[k].created_sequence
      BY <2>1, <3>1 DEF OrdersKept
    <3> QED BY <1>7, <3>1, <3>2
  <2>3. ASSUME NEW i \in 1..n + 1, events[i].event.type = "order_accepted"
        PROVE  events[i].event.order.order_id \in DOMAIN after.orders
    <3>1. i \in 1..n
      BY <1>1, <1>9, <2>3
    <3> QED BY <1>5, <2>1, <2>3, <3>1 DEF OrdersAccepted
  <2>4. OrdersAccepted(after.orders, events, n + 1)
    BY <2>2, <2>3 DEF OrdersAccepted
  <2> QED BY <1>1, <1>3, <1>4, <1>6, <2>4
<1> QED BY <1>8, <1>9

(* Replaying a log of sound rows: either it ends in an error or its ids    *)
(* follow one another and the orders are those that it accepts.            *)
LEMMA ReplayIsSound ==
  ASSUME NEW events, IsSeq(events), \A i \in DOMAIN events : RowSound(events[i])
  PROVE  ReplaySound(replayed(events), events, Len(events))
<1>1. Len(events) \in Nat /\ DOMAIN events = 1..Len(events)
  BY LenProperties DEF IsSeq
<1>2. PICK n : n = Len(events)
  OBVIOUS
<1>3. PICK states : Runs(states, events, n) /\ replayed(events) = states[n]
  BY <1>2, ReplayRuns
<1> DEFINE Unsound == {k \in 0..n : ~ReplaySound(states[k], events, k)}
<1>4. SUFFICES ASSUME Unsound # {} PROVE FALSE
  BY <1>1, <1>2, <1>3
<1>5. PICK least \in Unsound : \A k \in Unsound : least <= k
  <2>1. Unsound \subseteq Nat
    OBVIOUS
  <2> HIDE DEF Unsound
  <2> QED BY <1>4, <2>1, LeastNatural
<1>6. CASE least = 0
  <2>1. fresh_replay = ReplayState([id \in {} |-> NoOrder], [hash \in Hashes |-> 0], {},
                                   [t \in TraderIds |-> 0], 0, "none")
    BY DEF fresh_replay, ReplayState
  <2>2. IsReplay(fresh_replay) /\ fresh_replay.last_seq_id = 0
        /\ fresh_replay.orders = [id \in {} |-> NoOrder]
    BY <2>1, ReplayParts
  <2>3. OrdersAccepted(fresh_replay.orders, events, 0)
    BY <2>2 DEF OrdersAccepted
  <2>4. ReplaySound(fresh_replay, events, 0)
    BY <2>2, <2>3 DEF ReplaySound
  <2> QED BY <1>3, <1>5, <1>6, <2>4 DEF Runs
<1>7. CASE least # 0
  <2>1. PICK k : k = least - 1
    OBVIOUS
  <2>2. k \in Nat /\ least = k + 1 /\ k \in 0..n /\ least \in 1..n /\ ~(least <= k)
    BY <1>1, <1>2, <1>5, <1>7, <2>1
  <2>3. ReplaySound(states[k], events, k)
    BY <1>5, <2>2
  <2>4. \A i \in 1..k + 1 : RowSound(events[i])
    BY <1>1, <1>2, <2>2
  <2>5. ReplaySound(Apply(states[k], events[k + 1]), events, k + 1)
    BY <2>2, <2>3, <2>4, ApplySound
  <2>6. states[k + 1] = Apply(states[k], events[k + 1])
    BY <1>3, <2>1, <2>2 DEF Runs
  <2> QED BY <1>5, <2>2, <2>5, <2>6
<1> QED BY <1>6, <1>7

-----------------------------------------------------------------------------
(* The invariant *)

\* The log holds sound rows, and the counter is one ahead of the last.
LogSound ==
  /\ IsSeq(log) /\ \A i \in DOMAIN log : RowSound(log[i])
  /\ next_seq_id = IF log = << >> THEN 1 ELSE log[Len(log)].seq_id + 1

\* Replaying the log gives the state store, in the middle of a call too.
StoreHeld ==
  /\ replayed(log).error = "none"
  /\ filled_amounts = replayed(log).filled_amounts
  /\ cancelled = replayed(log).cancelled
  /\ nonces = replayed(log).nonces

\* The orders that a replay of the log knows.
Known == DOMAIN replayed(log).orders

\* The event is one that replay takes, and the store changes as replay does.
StoreFollows(event) ==
  \/ /\ event.type = "order_accepted"
     /\ nonces' = Raised(nonces, event.order) /\ UNCHANGED <<filled_amounts, cancelled>>
  \/ /\ event.type = "fill"
     /\ {event.fill.taker_order_id, event.fill.maker_order_id} \subseteq Known
     /\ filled_amounts' = Filled(filled_amounts, event.fill) /\ UNCHANGED <<cancelled, nonces>>
  \/ /\ event.type = "order_cancelled" /\ event.order_id \in Known
     /\ cancelled' = cancelled \cup {event.order_hash} /\ UNCHANGED <<filled_amounts, nonces>>
  \/ /\ event.type \in {"market_paused", "market_resumed"}
     /\ UNCHANGED <<filled_amounts, cancelled, nonces>>

(* An event that replay takes is handled in the state that replay reached. *)
LEMMA EventReplayed ==
  ASSUME LogSound, StoreHeld, NEW event,
         append_event(event), RowSound([seq_id |-> next_seq_id, event |-> event])
  PROVE  /\ LogSound'
         /\ replayed(log') = Handled(Reached(replayed(log), next_seq_id), event, next_seq_id)
<1>1. PICK se : se = [seq_id |-> next_seq_id, event |-> event]
  OBVIOUS
<1>2. se.seq_id = next_seq_id /\ se.event = event
  BY <1>1
<1>3. log' = Append(log, se) /\ next_seq_id' = next_seq_id + 1
  BY <1>1 DEF append_event
<1>4. IsSeq(log) /\ Len(log) \in Nat /\ DOMAIN log = 1..Len(log)
  BY LenProperties DEF LogSound, IsSeq
<1>5. IsSeq(log') /\ replayed(log') = Apply(replayed(log), se)
  BY <1>3, <1>4, ReplayOfAppend
<1>6. /\ Len(log') = Len(log) + 1 /\ DOMAIN log' = 1..Len(log) + 1 /\ log'[Len(log) + 1] = se
      /\ \A k \in DOMAIN log : log'[k] = log[k]
  BY <1>3, <1>4, AppendedSeq
<1>7. LogSound'
  <2>1. ASSUME NEW i \in DOMAIN log' PROVE RowSound(log'[i])
    BY <1>1, <1>4, <1>6 DEF LogSound
  <2>2. log' # << >> /\ log'[Len(log')].seq_id + 1 = next_seq_id'
    BY <1>2, <1>3, <1>4, <1>6
  <2> QED BY <1>5, <2>1, <2>2 DEF LogSound
<1>8. follows(replayed(log), se.seq_id)
  <2>1. ReplaySound(replayed(log), log, Len(log))
    BY ReplayIsSound DEF LogSound
  <2>2. replayed(log).last_seq_id = IF Len(log) = 0 THEN 0 ELSE log[Len(log)].seq_id
    BY <2>1 DEF ReplaySound, StoreHeld
  <2>3. Len(log) # 0 => log # << >>
    OBVIOUS
  <2> QED BY <1>2, <2>2, <2>3 DEF follows, LogSound
<1>9. replayed(log).error = "none"
  BY DEF StoreHeld
<1>10. Apply(replayed(log), se) = Handled(Reached(replayed(log), se.seq_id), se.event, se.seq_id)
  BY <1>8, <1>9, ApplyCases
<1> QED BY <1>2, <1>5, <1>7, <1>10

(* So the replayed store stays the live one, and no order is forgotten.    *)
LEMMA EventRecorded ==
  ASSUME LogSound, StoreHeld, NEW event, append_event(event), StoreFollows(event),
         RowSound([seq_id |-> next_seq_id, event |-> event])
  PROVE  /\ LogSound' /\ StoreHeld' /\ Known \subseteq Known'
         /\ event.type = "order_accepted" => event.order.order_id \in Known'
<1>1. PICK rs, at, after : /\ rs = replayed(log) /\ at = Reached(rs, next_seq_id)
                           /\ after = replayed(log')
  OBVIOUS
<1>2. LogSound' /\ after = Handled(at, event, next_seq_id)
  BY <1>1, EventReplayed
<1>3. IsReplay(rs)
  BY <1>1, ReplayIsSound DEF LogSound, ReplaySound
<1>4. /\ rs.error = "none" /\ filled_amounts = rs.filled_amounts /\ cancelled = rs.cancelled
      /\ nonces = rs.nonces /\ Known = DOMAIN rs.orders
  BY <1>1 DEF StoreHeld, Known
<1>5. /\ IsReplay(at) /\ at.error = "none" /\ at.filled_amounts = filled_amounts
      /\ at.cancelled = cancelled /\ at.nonces = nonces /\ DOMAIN at.orders = Known
  <2>1. /\ IsReplay(at) /\ at.orders = rs.orders /\ at.filled_amounts = rs.filled_amounts
        /\ at.cancelled = rs.cancelled /\ at.nonces = rs.nonces /\ at.error = rs.error
    BY <1>1, <1>3, ReachedParts
  <2> QED BY <1>4, <2>1
<1>6. SUFFICES /\ after.error = "none" /\ filled_amounts' = after.filled_amounts
               /\ cancelled' = after.cancelled /\ nonces' = after.nonces
               /\ Known \subseteq DOMAIN after.orders
               /\ event.type = "order_accepted" => event.order.order_id \in DOMAIN after.orders
  <2>1. StoreHeld' <=> /\ after.error = "none" /\ filled_amounts' = after.filled_amounts
                       /\ cancelled' = after.cancelled /\ nonces' = after.nonces
    BY <1>1 DEF StoreHeld
  <2>2. Known' = DOMAIN after.orders
    BY <1>1 DEF Known
  <2> QED BY <1>2, <1>6, <2>1, <2>2
<1>7. CASE event.type = "order_accepted"
  <2>1. PICK order, next : order = event.order /\ next = replay_accepted(at, order)
    OBVIOUS
  <2>2. after = next
    BY <1>2, <1>7, <2>1 DEF Handled
  <2>3. /\ next.orders = put(at.orders, order.order_id, order)
        /\ next.nonces = Raised(at.nonces, order)
        /\ next.filled_amounts = at.filled_amounts /\ next.cancelled = at.cancelled
        /\ next.error = at.error
    <3>1. AcceptanceMade(at, order, next)
      BY <1>5, <2>1, AcceptanceApplied
    <3> QED BY <3>1 DEF AcceptanceMade
  <2>4. DOMAIN next.orders = DOMAIN at.orders \cup {order.order_id}
    <3>1. Added(at.orders, order.order_id, order, next.orders)
      BY <2>3, PutOrder
    <3> QED BY <3>1 DEF Added
  <2>5. nonces' = Raised(nonces, order) /\ UNCHANGED <<filled_amounts, cancelled>>
    BY <1>7, <2>1 DEF StoreFollows
  <2> QED BY <1>5, <2>1, <2>2, <2>3, <2>4, <2>5
<1>8. CASE event.type = "fill"
  <2>1. PICK fill, s, next : /\ fill = event.fill /\ s = next_seq_id
                             /\ next = replay_fill(at, fill, s)
    OBVIOUS
  <2>2. after = next
    BY <1>2, <1>8, <2>1 DEF Handled
  <2>3. /\ {fill.taker_order_id, fill.maker_order_id} \subseteq DOMAIN at.orders
        /\ filled_amounts' = Filled(filled_amounts, fill) /\ UNCHANGED <<cancelled, nonces>>
    BY <1>5, <1>8, <2>1 DEF StoreFollows
  <2>4. /\ DOMAIN next.orders = DOMAIN at.orders
        /\ next.filled_amounts = Filled(at.filled_amounts, fill)
        /\ next.cancelled = at.cancelled /\ next.nonces = at.nonces /\ next.error = at.error
    BY <1>5, <2>1, <2>3, FillApplied
  <2> QED BY <1>5, <1>8, <2>2, <2>3, <2>4
<1>9. CASE event.type = "order_cancelled"
  <2>1. PICK s, next : s = next_seq_id /\ next = replay_cancelled(at, event, s)
    OBVIOUS
  <2>2. after = next
    BY <1>2, <1>9, <2>1 DEF Handled
  <2>3. /\ event.order_id \in DOMAIN at.orders
        /\ cancelled' = cancelled \cup {event.order_hash} /\ UNCHANGED <<filled_amounts, nonces>>
    BY <1>5, <1>9 DEF StoreFollows
  <2>4. /\ DOMAIN next.orders = DOMAIN at.orders
        /\ next.cancelled = at.cancelled \cup {event.order_hash}
        /\ next.filled_amounts = at.filled_amounts /\ next.nonces = at.nonces
        /\ next.error = at.error
    BY <1>5, <2>1, <2>3, CancellationApplied
  <2> QED BY <1>5, <1>9, <2>2, <2>3, <2>4
<1>10. CASE event.type \in {"market_paused", "market_resumed"}
  <2>1. after = at
    BY <1>2, <1>10 DEF Handled
  <2>2. UNCHANGED <<filled_amounts, cancelled, nonces>>
    BY <1>10 DEF StoreFollows
  <2> QED BY <1>5, <1>10, <2>1, <2>2
<1> QED BY <1>7, <1>8, <1>9, <1>10 DEF StoreFollows

-----------------------------------------------------------------------------
(* Books that hold known orders only *)

OrdersKnown(orders, known) == \A id \in DOMAIN orders : Named(orders[id], id) /\ id \in known

Book(queues, orders) == [queues |-> queues, orders |-> orders]

BookKnown(book, known) ==
  \E queues, orders : book = Book(queues, orders) /\ OrdersKnown(orders, known)

(* What the record of a book holds.                                        *)
LEMMA BookParts ==
  ASSUME NEW queues, NEW orders, NEW book, book = Book(queues, orders)
  PROVE  /\ book.orders = orders /\ book.queues = queues
         /\ \A q : [book EXCEPT !.queues = q] = Book(q, orders)
         /\ \A o : [book EXCEPT !.orders = o] = Book(queues, o)
BY DEF Book

LEMMA BookKnownParts ==
  ASSUME NEW book, NEW known, BookKnown(book, known)
  PROVE  OrdersKnown(book.orders, known)
<1>1. PICK queues, orders : book = Book(queues, orders) /\ OrdersKnown(orders, known)
  BY DEF BookKnown
<1> QED BY <1>1, BookParts

LEMMA NewBookKnown ==
  ASSUME NEW known
  PROVE  BookKnown(new_book, known)
<1>1. PICK queues, orders : queues = [side \in Sides |-> NoLevels] /\ orders = [id \in {} |-> NoOrder]
  OBVIOUS
<1>2. new_book = Book(queues, orders)
  BY <1>1 DEF new_book, Book
<1>3. OrdersKnown(orders, known)
  BY <1>1 DEF OrdersKnown
<1> QED BY <1>2, <1>3 DEF BookKnown

LEMMA InsertKnown ==
  ASSUME NEW known, NEW book, BookKnown(book, known),
         NEW order, Named(order, order.order_id), order.order_id \in known
  PROVE  BookKnown(insert(book, order), known)
<1>1. PICK queues, orders : book = Book(queues, orders) /\ OrdersKnown(orders, known)
  BY DEF BookKnown
<1>2. book.orders = orders
  BY <1>1, BookParts
<1>3. PICK id, more, q : /\ id = order.order_id /\ more = put(orders, id, order)
                         /\ q = [book.queues EXCEPT ![order.signed.side] =
                                   push_back(@, order.signed.price_ticks, order.order_id)]
  OBVIOUS
<1>4. insert(book, order) = Book(q, more)
  BY <1>2, <1>3 DEF insert, Book
<1>5. Added(orders, id, order, more)
  BY <1>3, PutOrder
<1>6. OrdersKnown(more, known)
  BY <1>1, <1>3, <1>5 DEF Added, OrdersKnown
<1> QED BY <1>4, <1>6 DEF BookKnown

LEMMA RemoveKnown ==
  ASSUME NEW known, NEW book, BookKnown(book, known), NEW id
  PROVE  BookKnown(remove_from_queue(book, id), known)
<1>1. PICK queues, orders : book = Book(queues, orders) /\ OrdersKnown(orders, known)
  BY DEF BookKnown
<1>2. PICK side, p : side = book.orders[id].signed.side /\ p = book.orders[id].signed.price_ticks
  OBVIOUS
<1>3. PICK level : level = take_off(book.queues[side], p, id)
  OBVIOUS
<1>4. PICK q : q = [queues EXCEPT ![side] = level]
  OBVIOUS
<1>5. remove_from_queue(book, id) = [book EXCEPT !.queues[side] = level]
  BY <1>2, <1>3 DEF remove_from_queue
<1>6. [book EXCEPT !.queues[side] = level] = Book(q, orders)
  BY <1>1, <1>4 DEF Book
<1> QED BY <1>1, <1>5, <1>6 DEF BookKnown

LEMMA UpdateKnown ==
  ASSUME NEW known, NEW book, BookKnown(book, known),
         NEW order, Named(order, order.order_id)
  PROVE  /\ BookKnown([book EXCEPT !.orders[order.order_id] = order], known)
         /\ BookKnown(update_maker(book, order), known)
<1>1. PICK queues, orders : book = Book(queues, orders) /\ OrdersKnown(orders, known)
  BY DEF BookKnown
<1>2. PICK id, changed : id = order.order_id /\ changed = [orders EXCEPT ![id] = order]
  OBVIOUS
<1>3. PICK updated : updated = [book EXCEPT !.orders[id] = order]
  OBVIOUS
<1>4. updated = Book(queues, changed)
  BY <1>1, <1>2, <1>3 DEF Book
<1>5. OrdersKnown(changed, known)
  BY <1>1, <1>2 DEF OrdersKnown
<1>6. BookKnown(updated, known)
  BY <1>4, <1>5 DEF BookKnown
<1>7. BookKnown(remove_from_queue(updated, id), known)
  BY <1>6, RemoveKnown
<1>8. update_maker(book, order) = IF is_closed(order) THEN remove_from_queue(updated, id) ELSE updated
  BY <1>2, <1>3 DEF update_maker
<1> QED BY <1>2, <1>3, <1>6, <1>7, <1>8

LEMMA CancelKnown ==
  ASSUME NEW known, NEW book, BookKnown(book, known), NEW id
  PROVE  BookKnown(cancel(book, id), known)
<1>1. PICK queues, orders : book = Book(queues, orders) /\ OrdersKnown(orders, known)
  BY DEF BookKnown
<1>2. PICK updated : updated = [book EXCEPT !.orders[id].status = "cancelled"]
  OBVIOUS
<1>3. PICK changed : changed = [orders EXCEPT ![id].status = "cancelled"]
  OBVIOUS
<1>4. updated = Book(queues, changed)
  BY <1>1, <1>2, <1>3 DEF Book
<1>5. OrdersKnown(changed, known)
  BY <1>1, <1>3 DEF OrdersKnown, Named
<1>6. BookKnown(updated, known)
  BY <1>4, <1>5 DEF BookKnown
<1>7. BookKnown(remove_from_queue(updated, id), known)
  BY <1>6, RemoveKnown
<1>8. cancel(book, id) \in {book, remove_from_queue(updated, id)}
  BY <1>2 DEF cancel, cancel_with_status
<1> QED BY <1>7, <1>8

LEMMA StaysKnown ==
  ASSUME NEW known, NEW more, known \subseteq more, NEW book, BookKnown(book, known)
  PROVE  BookKnown(book, more)
BY DEF BookKnown, OrdersKnown

-----------------------------------------------------------------------------
(* The engine's steps *)

BooksKnown == \A m \in DOMAIN books : BookKnown(books[m], Known)

TakerKnown ==
  /\ {"order_id", "created_sequence", "signed"} \subseteq DOMAIN taker
  /\ taker.order_id \in Known /\ taker.signed.market_id \in DOMAIN books

FillKnown(fill, known) == {fill.taker_order_id, fill.maker_order_id} \subseteq known

FillsKnown == IsSeq(fills) /\ \A i \in DOMAIN fills : FillKnown(fills[i], Known)

CallKnown == (InProcessOrder => TakerKnown) /\ FillsKnown /\ to_cancel \subseteq Accepted

\* What lets a call go on, and its events replay.
ReplayInv == LogSound /\ StoreHeld /\ BooksKnown /\ CallKnown

(* A step that logs nothing.                                               *)
LEMMA NothingRecorded ==
  ASSUME LogSound, StoreHeld, UNCHANGED <<log, next_seq_id, store_vars>>
  PROVE  LogSound' /\ StoreHeld' /\ Known' = Known /\ Accepted' = Accepted
<1> USE DEF store_vars
<1>1. LogSound'
  BY DEF LogSound
<1>2. StoreHeld'
  BY DEF StoreHeld
<1>3. Known' = Known /\ Accepted' = Accepted
  BY DEF Known, Accepted
<1> QED BY <1>1, <1>2, <1>3

(* The counter gives a sound row, unless it is for another acceptance.     *)
LEMMA NextRowSound ==
  ASSUME LogSound, NEW event, event.type # "order_accepted"
  PROVE  RowSound([seq_id |-> next_seq_id, event |-> event])
<1>1. next_seq_id \in Nat \ {0}
  <2>1. CASE log = << >>
    BY <2>1 DEF LogSound
  <2>2. CASE log # << >>
    <3>1. Len(log) \in DOMAIN log
      BY <2>2, LenProperties DEF LogSound, IsSeq
    <3>2. log[Len(log)].seq_id \in Nat
      BY <3>1 DEF LogSound, RowSound
    <3>3. next_seq_id = log[Len(log)].seq_id + 1
      BY <2>2 DEF LogSound
    <3> QED BY <3>2, <3>3
  <2> QED BY <2>1, <2>2
<1>2. PICK se : se = [seq_id |-> next_seq_id, event |-> event]
  OBVIOUS
<1>3. se.seq_id = next_seq_id /\ se.event = event
  BY <1>2
<1> QED BY <1>1, <1>2, <1>3 DEF RowSound

(* The acceptances of a log stay acceptances.                              *)
LEMMA AcceptancesStay ==
  ASSUME LogSound, NEW event, append_event(event)
  PROVE  Accepted \subseteq Accepted'
<1>1. PICK se : se = [seq_id |-> next_seq_id, event |-> event]
  OBVIOUS
<1>2. log' = Append(log, se) /\ IsSeq(log) /\ DOMAIN log = 1..Len(log) /\ Len(log) \in Nat
  BY <1>1, LenProperties DEF append_event, LogSound, IsSeq
<1>3. DOMAIN log' = 1..Len(log) + 1 /\ \A k \in DOMAIN log : log'[k] = log[k]
  BY <1>2, AppendedSeq
<1> QED BY <1>2, <1>3 DEF Accepted

(* A step that logs an event other than an acceptance.                     *)
LEMMA EventKnown ==
  ASSUME LogSound, StoreHeld, NEW event, event.type # "order_accepted",
         append_event(event), StoreFollows(event)
  PROVE  LogSound' /\ StoreHeld' /\ Known \subseteq Known' /\ Accepted \subseteq Accepted'
<1>1. RowSound([seq_id |-> next_seq_id, event |-> event])
  BY NextRowSound
<1> QED BY <1>1, EventRecorded, AcceptancesStay

(* The books stay known when each is as it was or known.                   *)
LEMMA BooksStayKnown ==
  ASSUME BooksKnown, Known \subseteq Known',
         \A m \in DOMAIN books' : \/ m \in DOMAIN books /\ books'[m] = books[m]
                                  \/ BookKnown(books'[m], Known')
  PROVE  BooksKnown'
<1>1. ASSUME NEW m \in DOMAIN books' PROVE BookKnown(books'[m], Known')
  <2>1. CASE m \in DOMAIN books /\ books'[m] = books[m]
    <3>1. BookKnown(books[m], Known)
      BY <2>1 DEF BooksKnown
    <3>2. BookKnown(books[m], Known')
      BY <3>1, StaysKnown
    <3> QED BY <2>1, <3>2
  <2> QED BY <1>1, <2>1
<1> QED BY <1>1 DEF BooksKnown

(* A call in progress goes on with what it has.                            *)
LEMMA CallStaysKnown ==
  ASSUME CallKnown, Known \subseteq Known', Accepted \subseteq Accepted',
         DOMAIN books \subseteq DOMAIN books', UNCHANGED <<taker, fills>>,
         to_cancel' \subseteq to_cancel, InProcessOrder' => InProcessOrder
  PROVE  CallKnown'
<1>1. InProcessOrder' => TakerKnown'
  BY DEF CallKnown, TakerKnown
<1>2. FillsKnown'
  BY DEF CallKnown, FillsKnown, FillKnown
<1> QED BY <1>1, <1>2 DEF CallKnown

(* process_order, steps 1 to 8: the acceptance makes its order known.      *)
LEMMA ProcessOrderReplays ==
  ASSUME ReplayInv, NEW signed, NEW now_ms, ProcessOrder(signed, now_ms)
  PROVE  ReplayInv'
<1> USE DEF ReplayInv
<1>1. PICK order, has_book, event :
        /\ order = NewOrder(signed, uuids + 1) /\ has_book = (signed.market_id \in DOMAIN books)
        /\ event = [type |-> "order_accepted", order |-> order]
  OBVIOUS
<1>2. /\ stage = "idle" /\ append_event(event)
      /\ stage' = IF has_book THEN "matching" ELSE "idle"
      /\ taker' = IF has_book THEN order ELSE NoOrder
      /\ signed.nonce > nonces[signed.trader_id]
      /\ nonces' = [nonces EXCEPT ![signed.trader_id] = signed.nonce]
      /\ UNCHANGED <<books, filled_amounts, cancelled, fills, to_cancel>>
  BY <1>1 DEF ProcessOrder, check_and_update_nonce
<1>3. /\ {"order_id", "created_sequence", "signed"} \subseteq DOMAIN order
      /\ order.signed = signed /\ order.created_sequence = next_seq_id
  BY <1>1 DEF NewOrder
<1>4. event.type = "order_accepted" /\ event.order = order
  BY <1>1
<1>5. StoreFollows(event)
  <2>1. nonces' = Raised(nonces, order)
    BY <1>2, <1>3 DEF Raised
  <2> QED BY <1>2, <1>4, <2>1 DEF StoreFollows
<1>6. RowSound([seq_id |-> next_seq_id, event |-> event])
  <2>1. PICK se : se = [seq_id |-> next_seq_id, event |-> event]
    OBVIOUS
  <2>2. se.seq_id = next_seq_id /\ se.event = event
    BY <2>1
  <2>3. next_seq_id \in Nat \ {0}
    <3>1. PICK pause : pause = [type |-> "market_paused"]
      OBVIOUS
    <3>2. RowSound([seq_id |-> next_seq_id, event |-> pause])
      BY <3>1, NextRowSound
    <3> QED BY <3>2 DEF RowSound
  <2> QED BY <1>3, <1>4, <2>1, <2>2, <2>3 DEF RowSound, Named
<1>7. /\ LogSound' /\ StoreHeld' /\ Known \subseteq Known' /\ order.order_id \in Known'
      /\ Accepted \subseteq Accepted'
  BY <1>2, <1>4, <1>5, <1>6, EventRecorded, AcceptancesStay
<1>8. BooksKnown'
  BY <1>2, <1>7, BooksStayKnown
<1>9. InProcessOrder' => TakerKnown'
  BY <1>1, <1>2, <1>3, <1>7 DEF InProcessOrder, TakerKnown
<1>10. FillsKnown'
  BY <1>2, <1>7 DEF CallKnown, FillsKnown, FillKnown
<1> QED BY <1>2, <1>7, <1>8, <1>9, <1>10 DEF CallKnown

(* A step that logs nothing and leaves books, taker and fills alone.       *)
LEMMA QuietReplays ==
  ASSUME ReplayInv, UNCHANGED <<log, next_seq_id, store_vars, books, taker, fills>>,
         to_cancel' \subseteq Accepted, InProcessOrder' => InProcessOrder
  PROVE  ReplayInv'
<1>1. LogSound' /\ StoreHeld' /\ Known' = Known /\ Accepted' = Accepted
  BY NothingRecorded DEF ReplayInv
<1>2. BooksKnown'
  BY <1>1, BooksStayKnown DEF ReplayInv
<1>3. InProcessOrder' => TakerKnown'
  BY <1>1 DEF ReplayInv, CallKnown, TakerKnown
<1>4. FillsKnown'
  BY <1>1 DEF ReplayInv, CallKnown, FillsKnown
<1> QED BY <1>1, <1>2, <1>3, <1>4 DEF ReplayInv, CallKnown

(* match_order, one maker: fills are between known orders.                 *)
LEMMA MatchMakerReplays ==
  ASSUME ReplayInv, MatchMaker
  PROVE  ReplayInv'
<1> USE DEF ReplayInv
<1>1. PICK m, id : m = taker.signed.market_id /\ id = Head(maker_ids)
  OBVIOUS
<1>2. PICK book, maker : book = books[m] /\ maker = books[m].orders[id]
  OBVIOUS
<1>3. /\ InProcessOrder /\ stage' = stage /\ to_cancel' = to_cancel
      /\ UNCHANGED <<log, next_seq_id, store_vars>>
      /\ IF stale(book, id) THEN UNCHANGED <<taker, books, fills>>
         ELSE IF self_trade(maker) THEN StpCancelTaker(maker) ELSE FillMaker(maker)
  BY <1>1, <1>2 DEF MatchMaker, InProcessOrder, sequencer_vars
<1>4. LogSound' /\ StoreHeld' /\ Known' = Known /\ Accepted' = Accepted
  BY <1>3, NothingRecorded
<1>5. InProcessOrder' /\ TakerKnown /\ m \in DOMAIN books
  BY <1>1, <1>3 DEF InProcessOrder, CallKnown, TakerKnown
<1>6. CASE stale(book, id)
  BY <1>3, <1>6, QuietReplays DEF CallKnown, InProcessOrder
<1>7. CASE ~stale(book, id) /\ self_trade(maker)
  <2>1. /\ taker' = [taker EXCEPT !.status = "cancelled_stp",
                                  !.last_update_sequence = taker.created_sequence]
        /\ UNCHANGED <<books, fills>>
    BY <1>3, <1>7 DEF StpCancelTaker
  <2>2. TakerKnown'
    BY <1>4, <1>5, <2>1 DEF TakerKnown
  <2>3. BooksKnown'
    BY <1>4, <2>1, BooksStayKnown
  <2>4. FillsKnown'
    BY <1>4, <2>1 DEF CallKnown, FillsKnown
  <2> QED BY <1>3, <1>4, <2>2, <2>3, <2>4 DEF CallKnown
<1>8. CASE ~stale(book, id) /\ ~self_trade(maker)
  <2>1. PICK qty, fill, changed :
          /\ qty = fill_qty(maker) /\ fill = NewFill(maker, qty)
          /\ changed = after_fill(maker, qty, taker.created_sequence)
    OBVIOUS
  <2>2. /\ fills' = Append(fills, fill) /\ taker' = after_fill(taker, qty, taker.created_sequence)
        /\ books' = [books EXCEPT ![m] = update_maker(@, changed)]
    BY <1>1, <1>3, <1>8, <2>1 DEF FillMaker
  <2>3. BookKnown(book, Known) /\ id \in DOMAIN book.orders
    BY <1>2, <1>5, <1>8 DEF BooksKnown, stale
  <2>4. Named(maker, id) /\ id \in Known
    BY <1>2, <2>3, BookKnownParts DEF OrdersKnown
  <2>5. Named(changed, changed.order_id)
    BY <2>1, <2>4 DEF after_fill, Named
  <2>6. BookKnown(update_maker(book, changed), Known)
    BY <2>3, <2>5, UpdateKnown
  <2>7. BooksKnown'
    <3>1. ASSUME NEW k \in DOMAIN books'
          PROVE  \/ k \in DOMAIN books /\ books'[k] = books[k]
                 \/ BookKnown(books'[k], Known')
      BY <1>2, <1>4, <2>2, <2>6
    <3> QED BY <1>4, <3>1, BooksStayKnown
  <2>8. TakerKnown'
    <3>1. /\ {"order_id", "created_sequence", "signed"} \subseteq DOMAIN taker'
          /\ taker'.order_id = taker.order_id /\ taker'.signed = taker.signed
      BY <1>5, <2>2 DEF TakerKnown, after_fill
    <3>2. DOMAIN books' = DOMAIN books
      BY <2>2
    <3> QED BY <1>4, <1>5, <3>1, <3>2 DEF TakerKnown
  <2>9. FillKnown(fill, Known)
    BY <1>5, <2>1, <2>4 DEF FillKnown, NewFill, TakerKnown, Named
  <2>10. FillsKnown'
    <3>1. IsSeq(fills) /\ Len(fills) \in Nat /\ DOMAIN fills = 1..Len(fills)
      BY LenProperties DEF CallKnown, FillsKnown, IsSeq
    <3>2. IsSeq(fills')
      BY <2>2, <3>1, ReplayOfAppend
    <3>3. /\ DOMAIN fills' = 1..Len(fills) + 1 /\ fills'[Len(fills) + 1] = fill
          /\ \A k \in DOMAIN fills : fills'[k] = fills[k]
      BY <2>2, <3>1, AppendedSeq
    <3>4. \A k \in DOMAIN fills' : k \in DOMAIN fills \/ k = Len(fills) + 1
      BY <3>1, <3>3
    <3>5. \A k \in DOMAIN fills' : FillKnown(fills'[k], Known)
      BY <2>9, <3>3, <3>4 DEF CallKnown, FillsKnown
    <3> QED BY <1>4, <3>2, <3>5 DEF FillsKnown
  <2> QED BY <1>3, <1>4, <2>7, <2>8, <2>10 DEF CallKnown
<1> QED BY <1>6, <1>7, <1>8

(* process_order, steps 10 and 11: a fill of two known orders.             *)
LEMMA RecordFillReplays ==
  ASSUME ReplayInv, RecordFill
  PROVE  ReplayInv'
<1> USE DEF ReplayInv
<1>1. PICK fill, event : fill = Head(fills) /\ event = [type |-> "fill", fill |-> fill]
  OBVIOUS
<1>2. /\ fills # << >> /\ append_event(event) /\ fills' = Tail(fills) /\ stage' = stage
      /\ filled_amounts' = Filled(filled_amounts, fill)
      /\ UNCHANGED <<books, cancelled, nonces, taker, to_cancel>>
  BY <1>1 DEF RecordFill, apply_fill, Filled, engine_vars
<1>3. IsSeq(fills) /\ \A i \in DOMAIN fills : FillKnown(fills[i], Known)
  BY DEF CallKnown, FillsKnown
<1> DEFINE S == {fills[i] : i \in DOMAIN fills}
<1>4. fills \in Seq(S) /\ DOMAIN fills = 1..Len(fills) /\ Len(fills) \in Nat
  BY <1>3, LenProperties DEF IsSeq
<1>5. /\ 1 \in DOMAIN fills /\ fill = fills[1] /\ fills' \in Seq(S)
      /\ DOMAIN fills' = 1..Len(fills')
  <2> HIDE DEF S
  <2>1. Len(fills) # 0
    BY <1>2, <1>4, EmptySeq
  <2> QED BY <1>1, <1>2, <1>4, <2>1, HeadTailProperties, LenProperties
<1>6. event.type = "fill" /\ event.fill = fill /\ FillKnown(fill, Known)
  BY <1>1, <1>3, <1>5
<1>7. StoreFollows(event)
  BY <1>2, <1>6 DEF StoreFollows, FillKnown
<1>8. LogSound' /\ StoreHeld' /\ Known \subseteq Known' /\ Accepted \subseteq Accepted'
  BY <1>2, <1>6, <1>7, EventKnown
<1>9. BooksKnown'
  BY <1>2, <1>8, BooksStayKnown
<1>10. InProcessOrder' => TakerKnown'
  BY <1>2, <1>8 DEF CallKnown, TakerKnown, InProcessOrder
<1>11. FillsKnown'
  <2>1. ASSUME NEW i \in DOMAIN fills' PROVE fills'[i] \in S
    <3> HIDE DEF S
    <3> QED BY <1>5, <2>1, ElementOfSeq
  <2>2. ASSUME NEW i \in DOMAIN fills' PROVE FillKnown(fills'[i], Known')
    BY <1>3, <1>8, <2>1 DEF FillKnown
  <2>3. IsSeq(fills')
    <3> HIDE DEF S
    <3> QED BY <1>5, SeqIsSeq
  <2> QED BY <2>2, <2>3 DEF FillsKnown
<1> QED BY <1>2, <1>8, <1>9, <1>10, <1>11 DEF CallKnown

(* process_order, step 12: the taker's cancellation and its place.         *)
LEMMA FinishOrderReplays ==
  ASSUME ReplayInv, FinishOrder
  PROVE  ReplayInv'
<1> USE DEF ReplayInv
<1>1. PICK m, id, hash : m = taker.signed.market_id /\ id = taker.order_id /\ hash = taker.order_hash
  OBVIOUS
<1>2. PICK event : event = OrderCancelled(id, hash, "self_trade_prevention")
  OBVIOUS
<1>3. /\ stage = "recording" /\ stage' = "idle"
      /\ IF taker.status = "cancelled_stp"
         THEN append_event(event) /\ cancel_order(hash)
         ELSE UNCHANGED <<log, next_seq_id, cancelled>>
      /\ books' \in {books, [books EXCEPT ![m] = insert(@, taker)]}
      /\ UNCHANGED <<filled_amounts, nonces, fills, to_cancel>>
  BY <1>1, <1>2 DEF FinishOrder, RestResidual
<1>4. TakerKnown /\ id \in Known /\ m \in DOMAIN books
  BY <1>1, <1>3 DEF CallKnown, TakerKnown, InProcessOrder
<1>5. LogSound' /\ StoreHeld' /\ Known \subseteq Known' /\ Accepted \subseteq Accepted'
  <2>1. CASE taker.status # "cancelled_stp"
    BY <1>3, <2>1, NothingRecorded DEF store_vars
  <2>2. CASE taker.status = "cancelled_stp"
    <3>1. event.type = "order_cancelled" /\ event.order_id = id /\ event.order_hash = hash
      BY <1>2 DEF OrderCancelled
    <3>2. StoreFollows(event)
      BY <1>3, <1>4, <2>2, <3>1 DEF StoreFollows, cancel_order
    <3> QED BY <1>3, <2>2, <3>1, <3>2, EventKnown
  <2> QED BY <2>1, <2>2
<1>6. BooksKnown'
  <2>1. BookKnown(books[m], Known)
    BY <1>4 DEF BooksKnown
  <2>2. BookKnown(insert(books[m], taker), Known)
    BY <1>4, <2>1, InsertKnown DEF TakerKnown, Named
  <2>3. BookKnown(insert(books[m], taker), Known')
    BY <1>5, <2>2, StaysKnown
  <2>4. ASSUME NEW k \in DOMAIN books'
        PROVE  \/ k \in DOMAIN books /\ books'[k] = books[k]
               \/ BookKnown(books'[k], Known')
    BY <1>3, <2>3
  <2> QED BY <1>5, <2>4, BooksStayKnown
<1>7. FillsKnown'
  BY <1>3, <1>5 DEF CallKnown, FillsKnown, FillKnown
<1> QED BY <1>3, <1>5, <1>6, <1>7 DEF CallKnown, InProcessOrder

(* process_cancel: the order is in a book, so it is a known one.           *)
LEMMA ProcessCancelReplays ==
  ASSUME ReplayInv, NEW id, NEW trader_id, ProcessCancel(id, trader_id)
  PROVE  ReplayInv'
<1> USE DEF ReplayInv
<1>1. PICK m, hash : m = order_market_index[id] /\ hash = find_order(id).order_hash
  OBVIOUS
<1>2. PICK event : event = OrderCancelled(id, hash, "trader_request")
  OBVIOUS
<1>3. /\ stage = "idle" /\ find_order(id) # NoOrder /\ append_event(event) /\ cancel_order(hash)
      /\ books' = [books EXCEPT ![m] = cancel(@, id)]
      /\ UNCHANGED <<filled_amounts, nonces, stage, taker, fills, to_cancel>>
  BY <1>1, <1>2 DEF ProcessCancel, matching_vars
<1>4. m \in DOMAIN books /\ id \in DOMAIN books[m].orders
  BY <1>1, <1>3 DEF find_order
<1>5. BookKnown(books[m], Known)
  BY <1>4 DEF BooksKnown
<1>6. id \in Known
  BY <1>4, <1>5, BookKnownParts DEF OrdersKnown
<1>7. event.type = "order_cancelled" /\ event.order_id = id /\ event.order_hash = hash
  BY <1>2 DEF OrderCancelled
<1>8. StoreFollows(event)
  BY <1>3, <1>6, <1>7 DEF StoreFollows, cancel_order
<1>9. LogSound' /\ StoreHeld' /\ Known \subseteq Known' /\ Accepted \subseteq Accepted'
  BY <1>3, <1>7, <1>8, EventKnown
<1>10. BooksKnown'
  <2>1. BookKnown(cancel(books[m], id), Known')
    BY <1>5, <1>9, CancelKnown, StaysKnown
  <2>2. ASSUME NEW k \in DOMAIN books'
        PROVE  \/ k \in DOMAIN books /\ books'[k] = books[k]
               \/ BookKnown(books'[k], Known')
    BY <1>3, <2>1
  <2> QED BY <1>9, <2>2, BooksStayKnown
<1>11. CallKnown'
  <2>1. DOMAIN books' = DOMAIN books
    BY <1>3
  <2> QED BY <1>3, <1>9, <2>1, CallStaysKnown DEF InProcessOrder
<1> QED BY <1>9, <1>10, <1>11

(* pause_market and resume_market: replay passes their events by.          *)
LEMMA SetStatusReplays ==
  ASSUME ReplayInv, NEW market_id, NEW from, NEW to,
         NEW type \in {"market_paused", "market_resumed"}, SetStatus(market_id, from, to, type)
  PROVE  ReplayInv'
<1> USE DEF ReplayInv
<1>1. PICK event : event = [type |-> type, market_id |-> market_id]
  OBVIOUS
<1>2. event.type \in {"market_paused", "market_resumed"}
  BY <1>1
<1>3. /\ append_event(event)
      /\ books' = IF market_id \in DOMAIN books THEN books ELSE put(books, market_id, new_book)
      /\ UNCHANGED <<filled_amounts, cancelled, nonces, stage, taker, fills, to_cancel>>
  BY <1>1 DEF SetStatus, add_market, store_vars, matching_vars
<1>4. StoreFollows(event)
  BY <1>2, <1>3 DEF StoreFollows
<1>5. LogSound' /\ StoreHeld' /\ Known \subseteq Known' /\ Accepted \subseteq Accepted'
  BY <1>2, <1>3, <1>4, EventKnown
<1>6. /\ DOMAIN books \subseteq DOMAIN books'
      /\ \A k \in DOMAIN books' : (k \in DOMAIN books /\ books'[k] = books[k]) \/ books'[k] = new_book
  <2>1. CASE market_id \in DOMAIN books
    BY <1>3, <2>1
  <2>2. CASE market_id \notin DOMAIN books
    <3>1. Added(books, market_id, new_book, books')
      BY <1>3, <2>2, PutOrder
    <3> QED BY <2>2, <3>1 DEF Added
  <2> QED BY <2>1, <2>2
<1>7. BooksKnown'
  <2>1. BookKnown(new_book, Known')
    BY NewBookKnown
  <2> QED BY <1>5, <1>6, <2>1, BooksStayKnown
<1>8. CallKnown'
  BY <1>3, <1>5, <1>6, CallStaysKnown DEF InProcessOrder
<1> QED BY <1>5, <1>7, <1>8

(* cancel_all_orders, one order: it was accepted, so replay knows it.      *)
LEMMA CancelNextReplays ==
  ASSUME ReplayInv, CancelNext
  PROVE  ReplayInv'
<1> USE DEF ReplayInv
<1>1. PICK i \in to_cancel :
        LET order == log[i].event.order IN
        /\ cancel_order(order.order_hash)
        /\ append_event(OrderCancelled(order.order_id, order.order_hash, "admin_force"))
        /\ to_cancel' = to_cancel \ {i}
        /\ stage' = IF to_cancel = {i} THEN "idle" ELSE "cancelling"
  BY DEF CancelNext
<1>2. PICK id, hash : id = log[i].event.order.order_id /\ hash = log[i].event.order.order_hash
  OBVIOUS
<1>3. PICK event : event = OrderCancelled(id, hash, "admin_force")
  OBVIOUS
<1>4. /\ append_event(event) /\ cancel_order(hash) /\ to_cancel' \subseteq to_cancel
      /\ stage' \in {"idle", "cancelling"}
  BY <1>1, <1>2, <1>3
<1>5. UNCHANGED <<books, filled_amounts, nonces, taker, fills>>
  BY DEF CancelNext, engine_vars, matching_vars
<1>6. id \in Known
  <2>1. i \in DOMAIN log /\ log[i].event.type = "order_accepted"
    BY DEF CallKnown, Accepted
  <2>2. DOMAIN log = 1..Len(log)
    BY LenProperties DEF LogSound, IsSeq
  <2>3. OrdersAccepted(replayed(log).orders, log, Len(log))
    BY ReplayIsSound DEF LogSound, StoreHeld, ReplaySound
  <2> QED BY <1>2, <2>1, <2>2, <2>3 DEF OrdersAccepted, Known
<1>7. event.type = "order_cancelled" /\ event.order_id = id /\ event.order_hash = hash
  BY <1>3 DEF OrderCancelled
<1>8. StoreFollows(event)
  BY <1>4, <1>5, <1>6, <1>7 DEF StoreFollows, cancel_order
<1>9. LogSound' /\ StoreHeld' /\ Known \subseteq Known' /\ Accepted \subseteq Accepted'
  BY <1>4, <1>7, <1>8, EventKnown
<1>10. BooksKnown'
  BY <1>5, <1>9, BooksStayKnown
<1>11. CallKnown'
  BY <1>4, <1>5, <1>9, CallStaysKnown DEF InProcessOrder
<1> QED BY <1>9, <1>10, <1>11

(* Whatever the engine does, its log replays to its state store.           *)
LEMMA ReplayInvStep ==
  ASSUME ReplayInv, [Next]_vars
  PROVE  ReplayInv'
<1>1. CASE UNCHANGED vars
  BY <1>1, QuietReplays DEF vars, engine_vars, sequencer_vars, matching_vars, ReplayInv,
       CallKnown, InProcessOrder
<1>2. CASE NextLevel
  BY <1>2, QuietReplays DEF NextLevel, engine_vars, sequencer_vars, ReplayInv, CallKnown,
       InProcessOrder
<1>3. CASE EndMatch
  BY <1>3, QuietReplays DEF EndMatch, engine_vars, sequencer_vars, ReplayInv, CallKnown,
       InProcessOrder
<1>4. ASSUME NEW market_id \in Markets, CancelAllOrders(market_id)
      PROVE  ReplayInv'
  <2>1. to_cancel' \subseteq Accepted
    BY <1>4 DEF CancelAllOrders, Accepted
  <2>2. ~InProcessOrder'
    BY <1>4 DEF CancelAllOrders, InProcessOrder
  <2> QED BY <1>4, <2>1, <2>2, QuietReplays DEF CancelAllOrders, engine_vars, sequencer_vars,
            matching_vars
<1>5. ASSUME NEW market_id \in Markets, PauseMarket(market_id) \/ ResumeMarket(market_id)
      PROVE  ReplayInv'
  BY <1>5, SetStatusReplays DEF PauseMarket, ResumeMarket
<1>6. ASSUME NEW key \in DOMAIN idempotency, CancelByClientId(key[1], key[2])
      PROVE  ReplayInv'
  BY <1>6, ProcessCancelReplays DEF CancelByClientId
<1> QED BY <1>1, <1>2, <1>3, <1>4, <1>5, <1>6, ProcessOrderReplays, MatchMakerReplays,
          RecordFillReplays, FinishOrderReplays, ProcessCancelReplays, CancelNextReplays
        DEF Next, Call, Continue

-----------------------------------------------------------------------------
(* Rebuilding a book, one order at a time *)

\* The recursion that FoldLeft unfolds to, up to position n.
BuildStep(orders, ids, iter, s) ==
  IF s = {} THEN new_book ELSE insert(iter[s \ {Max(s)}], orders[ids[Max(s)]])

Builds(orders, ids, n, iter) ==
  iter = [s \in SUBSET (1..n) |-> BuildStep(orders, ids, iter, s)]

\* The states that a book goes through, order by order.
Rests(states, orders, ids, n) ==
  /\ states[0] = new_book
  /\ \A k \in 1..n : states[k] = insert(states[k - 1], orders[ids[k]])

(* The recursion over one more position.                                   *)
LEMMA BuildsFurther ==
  ASSUME NEW orders, NEW ids, NEW n \in Nat, NEW iter, Builds(orders, ids, n, iter)
  PROVE  \E next : Builds(orders, ids, n + 1, next)
<1> DEFINE last == n + 1
           next == [s \in SUBSET (1..last) |->
                      IF last \in s THEN insert(iter[s \ {last}], orders[ids[last]]) ELSE iter[s]]
<1> SUFFICES ASSUME NEW s \in SUBSET (1..last)
             PROVE  next[s] = BuildStep(orders, ids, next, s)
  <2>1. (\A s \in SUBSET (1..last) : next[s] = BuildStep(orders, ids, next, s))
          => Builds(orders, ids, last, next)
    BY DEF Builds
  <2> HIDE DEF next
  <2> QED BY <2>1
<1>1. last \in Nat /\ last \notin 1..n /\ \A x \in 1..last : x # last => x \in 1..n
  OBVIOUS
<1>2. CASE last \in s
  <2>1. Max(s) = last
    <3>1. Max(s) \in s /\ \A y \in s : Max(s) >= y
      BY <1>1, <1>2, MaxOfPositions
    <3>2. Max(s) \in 1..last /\ Max(s) >= last
      BY <1>2, <3>1
    <3> HIDE DEF last
    <3> QED BY <1>1, <3>2
  <2>2. s \ {last} \in SUBSET (1..last) /\ last \notin s \ {last}
    OBVIOUS
  <2>3. next[s \ {last}] = iter[s \ {last}]
    <3> HIDE DEF last
    <3> QED BY <2>2
  <2> HIDE DEF last
  <2> QED BY <1>2, <2>1, <2>3 DEF BuildStep
<1>3. CASE last \notin s /\ s # {}
  <2>1. s \in SUBSET (1..n)
    BY <1>1, <1>3
  <2>2. Max(s) \in s
    BY <1>3, <2>1, MaxOfPositions
  <2>3. s \ {Max(s)} \in SUBSET (1..last) /\ last \notin s \ {Max(s)}
    BY <1>3
  <2> HIDE DEF last
  <2>4. next[s \ {Max(s)}] = iter[s \ {Max(s)}] /\ next[s] = iter[s]
    BY <1>3, <2>3
  <2>5. iter[s] = BuildStep(orders, ids, iter, s)
    BY <2>1 DEF Builds
  <2> QED BY <1>3, <2>4, <2>5 DEF BuildStep
<1>4. CASE s = {}
  <2>1. iter[s] = BuildStep(orders, ids, iter, s) /\ last \notin s
    BY <1>4 DEF Builds
  <2> HIDE DEF last
  <2> QED BY <1>4, <2>1 DEF BuildStep
<1> QED BY <1>2, <1>3, <1>4

(* So it has a solution for every length.                                  *)
LEMMA BuildsExists ==
  ASSUME NEW orders, NEW ids, NEW n \in Nat
  PROVE  \E iter : Builds(orders, ids, n, iter)
<1> DEFINE Unfolded == {k \in Nat : ~ \E iter : Builds(orders, ids, k, iter)}
<1>1. SUFFICES ASSUME Unfolded # {} PROVE FALSE
  OBVIOUS
<1>2. Unfolded \subseteq Nat
  OBVIOUS
<1>3. PICK least \in Unfolded : \A k \in Unfolded : least <= k
  <2> HIDE DEF Unfolded
  <2> QED BY <1>1, <1>2, LeastNatural
<1>4. CASE least = 0
  <2> DEFINE iter == [s \in SUBSET (1..0) |-> new_book]
  <2>1. SUBSET (1..0) = {{}}
    OBVIOUS
  <2>2. Builds(orders, ids, 0, iter)
    BY <2>1 DEF Builds, BuildStep
  <2> QED BY <1>3, <1>4, <2>2
<1>5. CASE least # 0
  <2>1. least \in Nat /\ least - 1 \in Nat /\ (least - 1) + 1 = least /\ ~(least <= least - 1)
    BY <1>3, <1>5
  <2>2. PICK iter : Builds(orders, ids, least - 1, iter)
    BY <1>3, <2>1
  <2>3. \E next : Builds(orders, ids, (least - 1) + 1, next)
    BY <2>1, <2>2, BuildsFurther
  <2> QED BY <1>3, <2>1, <2>3
<1> QED BY <1>4, <1>5

(* A rebuilt book goes through states, one per open order.                 *)
LEMMA BookRests ==
  ASSUME NEW rs, NEW market_id, IsSeq(open_orders(rs, market_id))
  PROVE  \E states : /\ Rests(states, rs.orders, open_orders(rs, market_id),
                              Len(open_orders(rs, market_id)))
                     /\ build_book(rs, market_id) = states[Len(open_orders(rs, market_id))]
<1> DEFINE ids == open_orders(rs, market_id)
           n == Len(ids)
           orders == rs.orders
           whole == CHOOSE iter : Builds(orders, ids, n, iter)
           states == [k \in 0..n |-> whole[1..k]]
<1>1. n \in Nat /\ DOMAIN ids = 1..n
  BY LenProperties DEF IsSeq
<1>2. Builds(orders, ids, n, whole)
  BY <1>1, BuildsExists
<1>3. build_book(rs, market_id) = whole[1..n]
  BY <1>1 DEF build_book, FoldLeft, MapThenFoldSet, Builds, BuildStep
<1> HIDE DEF n, whole, ids
<1>4. states[0] = new_book
  <2>1. 1..0 = {} /\ 1..0 \in SUBSET (1..n) /\ 0 \in 0..n
    BY <1>1
  <2> QED BY <1>2, <2>1 DEF Builds, BuildStep
<1>5. ASSUME NEW k \in 1..n PROVE states[k] = insert(states[k - 1], orders[ids[k]])
  <2>1. 1..k \in SUBSET (1..n) /\ 1..k # {} /\ k \in 1..k /\ k \in 0..n /\ k - 1 \in 0..n
    BY <1>1
  <2>2. Max(1..k) = k
    <3>1. Max(1..k) \in 1..k /\ Max(1..k) >= k
      BY <1>1, <2>1, MaxOfPositions
    <3> QED BY <3>1
  <2>3. (1..k) \ {k} = 1..k - 1
    BY <1>1
  <2>4. whole[1..k] = insert(whole[1..k - 1], orders[ids[k]])
    BY <1>2, <2>1, <2>2, <2>3 DEF Builds, BuildStep
  <2> QED BY <2>1, <2>4
<1>6. states[n] = whole[1..n]
  BY <1>1
<1> HIDE DEF states
<1>7. Rests(states, orders, ids, n) /\ build_book(rs, market_id) = states[n]
  BY <1>3, <1>4, <1>5, <1>6 DEF Rests
<1> QED BY <1>7 DEF n, ids

(* A book rebuilt of known orders holds known orders.                      *)
LEMMA BuiltBookKnown ==
  ASSUME NEW rs, NEW market_id, NEW known, OrdersKnown(rs.orders, known),
         open_orders(rs, market_id) \in Seq(DOMAIN rs.orders)
  PROVE  BookKnown(build_book(rs, market_id), known)
<1> DEFINE ids == open_orders(rs, market_id)
           n == Len(ids)
<1>1. n \in Nat /\ DOMAIN ids = 1..n /\ \A k \in 1..n : ids[k] \in DOMAIN rs.orders
  <2> HIDE DEF ids
  <2>1. ids \in Seq(DOMAIN rs.orders)
    BY DEF ids
  <2> QED BY <2>1, LenProperties, ElementOfSeq
<1>2. IsSeq(ids)
  <2> HIDE DEF ids
  <2> QED BY SeqIsSeq DEF ids
<1>3. PICK states : Rests(states, rs.orders, ids, n) /\ build_book(rs, market_id) = states[n]
  BY <1>2, BookRests
<1> HIDE DEF ids
<1> DEFINE Unknown == {k \in 0..n : ~BookKnown(states[k], known)}
<1> HIDE DEF n
<1>4. SUFFICES ASSUME Unknown # {} PROVE FALSE
  BY <1>1, <1>3
<1>5. PICK least \in Unknown : \A k \in Unknown : least <= k
  <2>1. Unknown \subseteq Nat
    OBVIOUS
  <2> HIDE DEF Unknown
  <2> QED BY <1>4, <2>1, LeastNatural
<1>6. CASE least = 0
  BY <1>3, <1>5, <1>6, NewBookKnown DEF Rests
<1>7. CASE least # 0
  <2>1. /\ least - 1 \in 0..n /\ least \in 1..n /\ ~(least <= least - 1)
    BY <1>1, <1>5, <1>7
  <2>2. PICK before, id, order : before = states[least - 1] /\ id = ids[least] /\ order = rs.orders[id]
    OBVIOUS
  <2>3. BookKnown(before, known)
    BY <1>5, <2>1, <2>2
  <2>4. Named(order, id) /\ id \in known
    BY <1>1, <2>1, <2>2 DEF OrdersKnown
  <2>5. BookKnown(insert(before, order), known)
    BY <2>3, <2>4, InsertKnown DEF Named
  <2>6. states[least] = insert(before, order)
    BY <1>3, <2>1, <2>2 DEF Rests
  <2> QED BY <1>5, <2>5, <2>6
<1> QED BY <1>6, <1>7

-----------------------------------------------------------------------------
(* Loading the rows and restarting *)

(* Ids that follow one another: each is as far from the first as its place.*)
LEMMA IdsCount ==
  ASSUME NEW events, NEW n \in Nat, \A i \in 1..n : events[i].seq_id \in Nat,
         \A i \in 2..n : events[i].seq_id = events[i - 1].seq_id + 1
  PROVE  \A i \in 1..n : events[i].seq_id = events[1].seq_id + (i - 1)
<1> DEFINE Wrong == {i \in 1..n : events[i].seq_id # events[1].seq_id + (i - 1)}
<1>1. SUFFICES ASSUME Wrong # {} PROVE FALSE
  OBVIOUS
<1>2. PICK least \in Wrong : \A i \in Wrong : least <= i
  <2>1. Wrong \subseteq Nat
    OBVIOUS
  <2> HIDE DEF Wrong
  <2> QED BY <1>1, <2>1, LeastNatural
<1>3. least # 1
  BY <1>2
<1>4. least \in 2..n /\ least - 1 \in 1..n /\ ~(least <= least - 1) /\ 1 \in 1..n
  BY <1>2, <1>3
<1>5. events[least - 1].seq_id = events[1].seq_id + (least - 1 - 1)
  BY <1>2, <1>4
<1>6. events[least].seq_id = events[least - 1].seq_id + 1 /\ events[1].seq_id \in Nat
  BY <1>4
<1> QED BY <1>2, <1>4, <1>5, <1>6

\* Finitely many orders, no two accepted at one id.
OrdersDistinct(orders) ==
  /\ IsFiniteSet(DOMAIN orders)
  /\ \A id \in DOMAIN orders : orders[id].created_sequence \in Nat
  /\ \A x, y \in DOMAIN orders :
       orders[x].created_sequence = orders[y].created_sequence => x = y

(* The replayed orders are finitely many, each accepted at its own id.     *)
LEMMA AcceptedDistinct ==
  ASSUME NEW events, NEW n \in Nat, \A i \in 1..n : RowSound(events[i]),
         \A i \in 2..n : events[i].seq_id = events[i - 1].seq_id + 1,
         NEW orders, OrdersAccepted(orders, events, n)
  PROVE  OrdersDistinct(orders)
<1>1. \A i \in 1..n : events[i].seq_id \in Nat
  BY DEF RowSound
<1>2. \A i, j \in 1..n : events[i].seq_id = events[j].seq_id => i = j
  <2>1. \A i \in 1..n : events[i].seq_id = events[1].seq_id + (i - 1)
    BY <1>1, IdsCount
  <2> SUFFICES ASSUME NEW i \in 1..n, NEW j \in 1..n, events[i].seq_id = events[j].seq_id
               PROVE  i = j
    OBVIOUS
  <2>2. events[1].seq_id \in Nat
    BY <1>1
  <2> QED BY <2>1, <2>2
<1>3. \A id \in DOMAIN orders : \E i \in 1..n : Accepts(events[i], id, orders[id].created_sequence)
  BY DEF OrdersAccepted
<1>4. \A id \in DOMAIN orders : orders[id].created_sequence \in Nat
  BY <1>1, <1>3 DEF Accepts
<1>5. \A x, y \in DOMAIN orders :
        orders[x].created_sequence = orders[y].created_sequence => x = y
  BY <1>2, <1>3 DEF Accepts
<1>6. IsFiniteSet(DOMAIN orders)
  <2> DEFINE id_at == [i \in 1..n |-> events[i].event.order.order_id]
             ids == {id_at[i] : i \in 1..n}
  <2>1. IsFiniteSet(1..n)
    BY FS_Interval
  <2>2. id_at \in Surjection(1..n, ids)
    BY DEF Surjection
  <2>3. IsFiniteSet(ids)
    <3> HIDE DEF id_at, ids
    <3> QED BY <2>1, <2>2, FS_Surjection
  <2>4. DOMAIN orders \subseteq ids
    BY <1>3 DEF Accepts
  <2> HIDE DEF ids
  <2> QED BY <2>3, <2>4, FS_Subset
<1> QED BY <1>4, <1>5, <1>6 DEF OrdersDistinct

(* So the open orders of a market are a sequence of them, oldest first.    *)
LEMMA OpenOrdersSorted ==
  ASSUME NEW rs, OrdersDistinct(rs.orders), NEW market_id
  PROVE  LET ids == open_orders(rs, market_id)
             open == {id \in DOMAIN rs.orders : /\ ~is_closed(rs.orders[id])
                                                /\ rs.orders[id].signed.market_id = market_id}
         IN /\ ids \in Seq(open) /\ ids \in Seq(DOMAIN rs.orders)
            /\ \A id \in open : \E k \in 1..Len(ids) : ids[k] = id
            /\ \A j, k \in 1..Len(ids) : j < k =>
                 rs.orders[ids[j]].created_sequence < rs.orders[ids[k]].created_sequence
<1> DEFINE open == {id \in DOMAIN rs.orders : /\ ~is_closed(rs.orders[id])
                                              /\ rs.orders[id].signed.market_id = market_id}
           key == [id \in DOMAIN rs.orders |-> rs.orders[id].created_sequence]
           ids == InOrder(open, key)
<1>1. open \subseteq DOMAIN rs.orders
  OBVIOUS
<1>2. IsFiniteSet(open)
  <2> HIDE DEF open
  <2> QED BY <1>1, FS_Subset DEF OrdersDistinct
<1>3. \A id \in open : key[id] = rs.orders[id].created_sequence
  OBVIOUS
<1>4. (\A x \in open : key[x] \in Nat) /\ \A x, y \in open : key[x] = key[y] => x = y
  BY <1>1, <1>3 DEF OrdersDistinct
<1>5. open_orders(rs, market_id) = ids
  BY Zenon DEF open_orders
<1> HIDE DEF open, key
<1>6. /\ ids \in Seq(open) /\ \A x \in open : \E k \in 1..Len(ids) : ids[k] = x
      /\ \A j, k \in 1..Len(ids) : j < k => key[ids[j]] < key[ids[k]]
  <2>1. SortedBy(ids, open, key)
    BY <1>2, <1>4, InOrderSorts
  <2> HIDE DEF ids
  <2> QED BY <2>1 DEF SortedBy
<1> HIDE DEF ids
<1>7. \A j \in 1..Len(ids) : ids[j] \in open
  BY <1>6, ElementOfSeq
<1>8. ids \in Seq(DOMAIN rs.orders)
  BY <1>1, <1>6
<1>9. \A j, k \in 1..Len(ids) : j < k =>
        rs.orders[ids[j]].created_sequence < rs.orders[ids[k]].created_sequence
  BY <1>3, <1>6, <1>7
<1> QED BY <1>5, <1>6, <1>8, <1>9 DEF open

\* The rows of Postgres: finitely many sound ones, no two with one id.
RowsSound ==
  /\ IsFiniteSet(stored) /\ \A row \in stored : RowSound(row)
  /\ \A one, other \in stored : one.seq_id = other.seq_id => one = other

\* What load_all_events returns for a set of rows: each of them, once.
ListsRows(list, rows) ==
  /\ list \in Seq(rows) /\ IsSeq(list) /\ Len(list) = Cardinality(rows)
  /\ Len(list) \in Nat /\ DOMAIN list = 1..Len(list)
  /\ \A i \in DOMAIN list : list[i] \in rows /\ RowSound(list[i])
  /\ \A row \in rows : \E i \in DOMAIN list : list[i] = row

(* load_all_events: the rows, each once, by rising ids.                    *)
LEMMA RowsListed ==
  ASSUME NEW rows, IsFiniteSet(rows), \A row \in rows : RowSound(row),
         \A one, other \in rows : one.seq_id = other.seq_id => one = other,
         NEW list, list = InOrder(rows, [row \in rows |-> row.seq_id])
  PROVE  ListsRows(list, rows)
<1> DEFINE key == [row \in rows |-> row.seq_id]
<1>1. \A row \in rows : key[row] = row.seq_id
  OBVIOUS
<1>2. /\ \A row \in rows : key[row] \in Nat
      /\ \A x, y \in rows : key[x] = key[y] => x = y
  BY <1>1 DEF RowSound
<1>3. list = InOrder(rows, key)
  BY Zenon
<1> HIDE DEF key
<1>4. /\ list \in Seq(rows) /\ Len(list) = Cardinality(rows)
      /\ \A x \in rows : \E k \in 1..Len(list) : list[k] = x
  <2>1. SortedBy(list, rows, key)
    BY <1>2, <1>3, InOrderSorts
  <2> QED BY <2>1 DEF SortedBy
<1>5. IsSeq(list) /\ Len(list) \in Nat /\ DOMAIN list = 1..Len(list)
  BY <1>4, SeqIsSeq
<1>6. \A i \in DOMAIN list : list[i] \in rows /\ RowSound(list[i])
  BY <1>4, <1>5, ElementOfSeq
<1> QED BY <1>4, <1>5, <1>6 DEF ListsRows

LEMMA LoadedSorted ==
  ASSUME RowsSound
  PROVE  ListsRows(loaded, stored)
<1>1. PICK list : list = InOrder(stored, [row \in stored |-> row.seq_id])
  OBVIOUS
<1>2. ListsRows(list, stored)
  BY <1>1, RowsListed DEF RowsSound
<1>3. loaded = list
  BY <1>1, Zenon DEF loaded
<1> QED BY <1>2, <1>3

(* Engine::new: an empty log replays to an empty store.                    *)
LEMMA FreshReplays ==
  ASSUME books' = [m \in Markets |-> new_book], log' = << >>, next_seq_id' = 1,
         filled_amounts' = [hash \in Hashes |-> 0], cancelled' = {},
         nonces' = [t \in TraderIds |-> 0],
         stage' = "idle", fills' = << >>, to_cancel' = {}
  PROVE  ReplayInv'
<1>1. /\ fresh_replay.error = "none" /\ fresh_replay.cancelled = {}
      /\ fresh_replay.filled_amounts = [hash \in Hashes |-> 0]
      /\ fresh_replay.nonces = [t \in TraderIds |-> 0]
  BY DEF fresh_replay
<1>2. replayed(log') = fresh_replay
  BY ReplayOfEmpty
<1>3. IsSeq(<< >>) /\ DOMAIN << >> = {}
  BY EmptyIsSeq
<1>4. LogSound'
  BY <1>3 DEF LogSound
<1>5. StoreHeld'
  BY <1>1, <1>2 DEF StoreHeld
<1>6. BooksKnown'
  BY NewBookKnown DEF BooksKnown
<1>7. CallKnown'
  BY <1>3 DEF CallKnown, FillsKnown, InProcessOrder
<1> QED BY <1>4, <1>5, <1>6, <1>7 DEF ReplayInv

(* restore_from_events: the engine goes on from what the rows replay to.   *)
LEMMA RestoredReplays ==
  ASSUME RowsSound, RestartRestored
  PROVE  ReplayInv'
<1>1. PICK events, rs : events = loaded /\ rs = replayed(events)
  OBVIOUS
<1>2. /\ stored # {} /\ rs.error = "none" /\ RestoreFromEvents(events, rs)
      /\ stage' = "idle" /\ fills' = << >> /\ to_cancel' = {}
  BY <1>1 DEF RestartRestored, Crash
<1>3. /\ IsSeq(events) /\ Len(events) \in Nat /\ DOMAIN events = 1..Len(events)
      /\ \A i \in DOMAIN events : RowSound(events[i])
      /\ events # << >>
  <2>1. \E i : i \in DOMAIN events
    BY <1>1, <1>2, LoadedSorted DEF ListsRows
  <2> QED BY <1>1, <2>1, LoadedSorted DEF ListsRows
<1>4. /\ log' = events /\ next_seq_id' = events[Len(events)].seq_id + 1
      /\ books' = build_books(rs) /\ filled_amounts' = rs.filled_amounts
      /\ cancelled' = rs.cancelled /\ nonces' = rs.nonces
  BY <1>2 DEF RestoreFromEvents, resume_seq_id
<1>5. LogSound'
  BY <1>3, <1>4 DEF LogSound
<1>6. replayed(log') = rs
  BY <1>1, <1>4
<1>7. StoreHeld'
  BY <1>2, <1>4, <1>6 DEF StoreHeld
<1>8. BooksKnown'
  <2>1. /\ OrdersAccepted(rs.orders, events, Len(events))
        /\ \A i \in 2..Len(events) : events[i].seq_id = events[i - 1].seq_id + 1
    BY <1>1, <1>2, <1>3, ReplayIsSound DEF ReplaySound
  <2>2. \A i \in 1..Len(events) : RowSound(events[i])
    BY <1>3
  <2>4. OrdersDistinct(rs.orders)
    BY <1>3, <2>1, <2>2, AcceptedDistinct
  <2>5. OrdersKnown(rs.orders, DOMAIN rs.orders)
    BY <2>1 DEF OrdersAccepted, OrdersKnown
  <2>6. ASSUME NEW m PROVE BookKnown(build_book(rs, m), DOMAIN rs.orders)
    <3>1. open_orders(rs, m) \in Seq(DOMAIN rs.orders)
      BY <2>4, OpenOrdersSorted
    <3> QED BY <2>5, <3>1, BuiltBookKnown
  <2>7. \A m \in DOMAIN books' : books'[m] = build_book(rs, m)
    BY <1>4 DEF build_books
  <2>8. Known' = DOMAIN rs.orders
    BY <1>6 DEF Known
  <2> QED BY <2>6, <2>7, <2>8 DEF BooksKnown
<1>9. CallKnown'
  <2>1. IsSeq(<< >>) /\ DOMAIN << >> = {}
    BY EmptyIsSeq
  <2> QED BY <1>2, <2>1 DEF CallKnown, FillsKnown, InProcessOrder
<1> QED BY <1>5, <1>7, <1>8, <1>9 DEF ReplayInv

(* The log that replays is contiguous.                                     *)
LEMMA ReplayedContiguous ==
  ASSUME LogSound, StoreHeld
  PROVE  /\ Len(log) \in Nat /\ DOMAIN log = 1..Len(log)
         /\ \A i \in 2..Len(log) : log[i].seq_id = log[i - 1].seq_id + 1
<1>1. Len(log) \in Nat /\ DOMAIN log = 1..Len(log)
  BY LenProperties DEF LogSound, IsSeq
<1>2. ReplaySound(replayed(log), log, Len(log))
  BY ReplayIsSound DEF LogSound
<1> QED BY <1>1, <1>2 DEF ReplaySound, StoreHeld

(* append_events: the rows of a contiguous log, none under a taken id.     *)
LEMMA PersistedSound ==
  ASSUME RowsSound, LogSound, StoreHeld, NEW cursor, PersistSince(cursor)
  PROVE  RowsSound'
<1> DEFINE later == {j \in DOMAIN log : log[j].seq_id > cursor}
           events == {log[i] : i \in later}
           new == {row \in events : row.seq_id \notin StoredIds}
<1>1. stored' = stored \cup new
  BY DEF PersistSince, append_events
<1>2. /\ Len(log) \in Nat /\ DOMAIN log = 1..Len(log)
      /\ \A i \in 2..Len(log) : log[i].seq_id = log[i - 1].seq_id + 1
  BY ReplayedContiguous
<1>3. \A i \in 1..Len(log) : RowSound(log[i]) /\ log[i].seq_id \in Nat
  BY <1>2 DEF LogSound, RowSound
<1>4. \A i, j \in 1..Len(log) : log[i].seq_id = log[j].seq_id => i = j
  <2>1. \A i \in 1..Len(log) : log[i].seq_id = log[1].seq_id + (i - 1)
    BY <1>2, <1>3, IdsCount
  <2> QED BY <1>2, <1>3, <2>1
<1>5. \A row \in new : \E i \in 1..Len(log) : row = log[i]
  BY <1>2
<1>6. IsFiniteSet(new)
  <2> DEFINE rows == {log[i] : i \in 1..Len(log)}
             at == [i \in 1..Len(log) |-> log[i]]
  <2>1. IsFiniteSet(1..Len(log)) /\ at \in Surjection(1..Len(log), rows)
    BY <1>2, FS_Interval DEF Surjection
  <2>2. IsFiniteSet(rows)
    <3> HIDE DEF at, rows
    <3> QED BY <2>1, FS_Surjection
  <2>3. new \subseteq rows
    BY <1>5
  <2> HIDE DEF rows, new
  <2> QED BY <2>2, <2>3, FS_Subset
<1>7. IsFiniteSet(stored')
  <2> HIDE DEF new
  <2> QED BY <1>1, <1>6, FS_Union DEF RowsSound
<1>8. \A row \in new : RowSound(row) /\ row.seq_id \notin StoredIds
  BY <1>3, <1>5
<1>9. \A row \in stored : row.seq_id \in StoredIds
  BY DEF StoredIds
<1>10. \A one, other \in new : one.seq_id = other.seq_id => one = other
  BY <1>4, <1>5
<1> HIDE DEF new
<1>11. \A one, other \in stored' : one.seq_id = other.seq_id => one = other
  BY <1>1, <1>8, <1>9, <1>10 DEF RowsSound
<1> QED BY <1>1, <1>7, <1>8, <1>11 DEF RowsSound

-----------------------------------------------------------------------------
(* Theorems *)

RecoveryInv == ReplayInv /\ RowsSound

LEMMA RecoveryInvInit ==
  ASSUME RecoveryInit
  PROVE  RecoveryInv
<1>1. ReplayInv
  <2>1. /\ fresh_replay.error = "none" /\ fresh_replay.cancelled = {}
        /\ fresh_replay.filled_amounts = [hash \in Hashes |-> 0]
        /\ fresh_replay.nonces = [t \in TraderIds |-> 0]
    BY DEF fresh_replay
  <2>2. IsSeq(<< >>) /\ DOMAIN << >> = {}
    BY EmptyIsSeq
  <2>3. /\ books = [m \in Markets |-> new_book] /\ log = << >> /\ next_seq_id = 1
        /\ filled_amounts = [hash \in Hashes |-> 0] /\ cancelled = {}
        /\ nonces = [t \in TraderIds |-> 0] /\ stage = "idle" /\ fills = << >> /\ to_cancel = {}
    BY DEF RecoveryInit, Init
  <2>4. replayed(log) = fresh_replay
    BY <2>3, ReplayOfEmpty
  <2>5. LogSound
    BY <2>2, <2>3 DEF LogSound
  <2>6. StoreHeld
    BY <2>1, <2>3, <2>4 DEF StoreHeld
  <2>7. BooksKnown
    BY <2>3, NewBookKnown DEF BooksKnown
  <2>8. CallKnown
    BY <2>2, <2>3 DEF CallKnown, FillsKnown, InProcessOrder
  <2> QED BY <2>5, <2>6, <2>7, <2>8 DEF ReplayInv
<1>2. RowsSound
  BY FS_EmptySet DEF RowsSound, RecoveryInit
<1> QED BY <1>1, <1>2 DEF RecoveryInv

LEMMA RecoveryInvStep ==
  ASSUME RecoveryInv, [RecoveryNext]_all_vars
  PROVE  RecoveryInv'
<1> USE DEF RecoveryInv
<1>1. ASSUME [Next]_vars, stored' = stored
      PROVE  RecoveryInv'
  BY <1>1, ReplayInvStep DEF RowsSound
<1>2. CASE Serve
  BY <1>1, <1>2 DEF Serve
<1>3. CASE ServeUnchanged
  BY <1>1, <1>3 DEF ServeUnchanged
<1>4. ASSUME NEW cursor, PersistSince(cursor)
      PROVE  RecoveryInv'
  <2>1. ReplayInv'
    BY <1>4, ReplayInvStep DEF PersistSince
  <2>2. RowsSound'
    BY <1>4, PersistedSound DEF ReplayInv
  <2> QED BY <2>1, <2>2
<1>5. ASSUME NEW cursor, PersistDropped(cursor)
      PROVE  RecoveryInv'
  BY <1>1, <1>5 DEF PersistDropped
<1>6. CASE RestartEmpty \/ RestartFails
  <2>1. StartFresh /\ Crash
    BY <1>6 DEF RestartEmpty, RestartFails
  <2>2. ReplayInv'
    BY <2>1, FreshReplays DEF StartFresh, Crash
  <2>3. RowsSound'
    BY <2>1 DEF Crash, RowsSound
  <2> QED BY <2>2, <2>3
<1>7. CASE RestartRestored
  <2>1. RowsSound'
    BY <1>7 DEF RestartRestored, Crash, RowsSound
  <2> QED BY <1>7, <2>1, RestoredReplays
<1>8. CASE UNCHANGED all_vars
  BY <1>1, <1>8 DEF all_vars, recovery_vars
<1> QED BY <1>2, <1>3, <1>4, <1>5, <1>6, <1>7, <1>8 DEF RecoveryNext

(* The invariant holds in every reachable state, across every restart.     *)
THEOREM SpecRecoveryInv == RecoverySpec => []RecoveryInv
<1>1. RecoveryInit => RecoveryInv
  BY RecoveryInvInit
<1>2. RecoveryInv /\ [RecoveryNext]_all_vars => RecoveryInv'
  BY RecoveryInvStep
<1> QED BY <1>1, <1>2, PTL DEF RecoverySpec

(* The sequencer's ids follow one another, whatever was persisted, lost or *)
(* loaded, and the counter is one ahead of the last.                       *)
THEOREM SpecLogContiguous == RecoverySpec => []LogContiguous
<1>1. RecoveryInv => LogContiguous
  <2> SUFFICES ASSUME RecoveryInv PROVE LogContiguous
    OBVIOUS
  <2>1. LogSound /\ StoreHeld
    BY DEF RecoveryInv, ReplayInv
  <2>2. /\ Len(log) \in Nat /\ DOMAIN log = 1..Len(log)
        /\ \A i \in 2..Len(log) : log[i].seq_id = log[i - 1].seq_id + 1
    BY <2>1, ReplayedContiguous
  <2> QED BY <2>1, <2>2 DEF LogContiguous, LogSound
<1> QED BY <1>1, SpecRecoveryInv, PTL

(* Replaying the running engine's log succeeds and gives its state store,  *)
(* before and after every restart.                                         *)
THEOREM SpecStoreMatchesReplay == RecoverySpec => []StoreMatchesReplay
<1>1. RecoveryInv => StoreMatchesReplay
  BY DEF RecoveryInv, ReplayInv, StoreHeld, StoreMatchesReplay
<1> QED BY <1>1, SpecRecoveryInv, PTL

-----------------------------------------------------------------------------
(* What the log keeps *)

\* Nothing is logged, or one event.
Logs == UNCHANGED log \/ \E event : append_event(event)

(* Every step of the engine logs an event at most.                         *)
LEMMA StepLogs ==
  ASSUME [Next]_vars
  PROVE  Logs
<1>1. CASE UNCHANGED vars
  BY <1>1 DEF vars, sequencer_vars, Logs
<1>2. ASSUME NEW signed, NEW now_ms, ProcessOrder(signed, now_ms) PROVE Logs
  BY <1>2 DEF ProcessOrder, Logs
<1>3. ASSUME NEW id, NEW trader_id, ProcessCancel(id, trader_id) PROVE Logs
  BY <1>3 DEF ProcessCancel, Logs
<1>4. ASSUME NEW key, CancelByClientId(key[1], key[2]) PROVE Logs
  BY <1>3, <1>4 DEF CancelByClientId
<1>5. ASSUME NEW m, PauseMarket(m) \/ ResumeMarket(m) PROVE Logs
  BY <1>5 DEF PauseMarket, ResumeMarket, SetStatus, Logs
<1>6. ASSUME NEW m, CancelAllOrders(m) PROVE Logs
  BY <1>6 DEF CancelAllOrders, sequencer_vars, Logs
<1>7. CASE NextLevel \/ MatchMaker \/ EndMatch
  BY <1>7 DEF NextLevel, MatchMaker, EndMatch, sequencer_vars, Logs
<1>8. CASE RecordFill
  BY <1>8 DEF RecordFill, Logs
<1>9. CASE FinishOrder
  BY <1>9 DEF FinishOrder, Logs
<1>10. CASE CancelNext
  BY <1>10 DEF CancelNext, Logs
<1> QED BY <1>1, <1>2, <1>3, <1>4, <1>5, <1>6, <1>7, <1>8, <1>9, <1>10 DEF Next, Call, Continue

(* So what was logged stays where it is.                                   *)
LEMMA LoggedStays ==
  ASSUME LogSound, Logs
  PROVE  \A i \in DOMAIN log : i \in DOMAIN log' /\ log'[i] = log[i]
<1>1. CASE UNCHANGED log
  BY <1>1
<1>2. ASSUME NEW event, append_event(event)
      PROVE  \A i \in DOMAIN log : i \in DOMAIN log' /\ log'[i] = log[i]
  <2>1. PICK se : se = [seq_id |-> next_seq_id, event |-> event]
    OBVIOUS
  <2>2. log' = Append(log, se) /\ IsSeq(log) /\ DOMAIN log = 1..Len(log) /\ Len(log) \in Nat
    BY <1>2, <2>1, LenProperties DEF append_event, LogSound, IsSeq
  <2>3. DOMAIN log' = 1..Len(log) + 1 /\ \A k \in DOMAIN log : log'[k] = log[k]
    BY <2>2, AppendedSeq
  <2> QED BY <2>2, <2>3
<1> QED BY <1>1, <1>2 DEF Logs

(* When a start-up loads the rows or fails, none is ever lost or replaced: *)
(* each is an event of the running engine's log under its own id.          *)
LEMMA RowsStayLogged ==
  ASSUME ~LoadMayFail, RecoveryInv, RowsAreLogged, [RecoveryNext]_all_vars
  PROVE  RowsAreLogged'
<1> DEFINE Kept == \A i \in DOMAIN log : i \in DOMAIN log' /\ log'[i] = log[i]
<1>1. ASSUME [Next]_vars PROVE Kept
  BY <1>1, StepLogs, LoggedStays DEF RecoveryInv, ReplayInv
<1>2. ASSUME Kept, stored' = stored, up' => up PROVE RowsAreLogged'
  BY <1>2 DEF RowsAreLogged
<1> HIDE DEF Kept
<1>3. CASE Serve \/ ServeUnchanged
  BY <1>1, <1>2, <1>3 DEF Serve, ServeUnchanged
<1>4. ASSUME NEW cursor, PersistDropped(cursor) PROVE RowsAreLogged'
  BY <1>1, <1>2, <1>4 DEF PersistDropped
<1>5. ASSUME NEW cursor, PersistSince(cursor) PROVE RowsAreLogged'
  <2>1. \A row \in stored' : row \in stored \/ \E i \in DOMAIN log : row = log[i]
    BY <1>5 DEF PersistSince, append_events
  <2>2. log' = log /\ up
    BY <1>5 DEF PersistSince, vars, sequencer_vars
  <2> QED BY <2>1, <2>2 DEF RowsAreLogged
<1>6. CASE RestartEmpty
  BY <1>6 DEF RestartEmpty, MayStartEmpty, Crash, RowsAreLogged
<1>7. CASE RestartRestored
  <2>1. stored' = stored /\ log' = loaded
    BY <1>7 DEF RestartRestored, Crash, RestoreFromEvents
  <2> QED BY <2>1, LoadedSorted DEF ListsRows, RecoveryInv, RowsAreLogged
<1>8. CASE RestartFails
  BY <1>8 DEF RestartFails, RowsAreLogged
<1>9. CASE UNCHANGED all_vars
  BY <1>1, <1>2, <1>9 DEF all_vars, recovery_vars
<1> QED BY <1>3, <1>4, <1>5, <1>6, <1>7, <1>8, <1>9 DEF RecoveryNext

(* RowsAreLogged holds unless main goes on without the rows it could not   *)
(* load, as main.rs does: then ON CONFLICT DO NOTHING drops new events.    *)
THEOREM SpecRowsAreLogged ==
  ASSUME ~LoadMayFail
  PROVE  RecoverySpec => []RowsAreLogged
<1>1. RecoveryInit => RowsAreLogged
  BY DEF RecoveryInit, RowsAreLogged
<1>2. RecoveryInv /\ RowsAreLogged /\ [RecoveryNext]_all_vars => RowsAreLogged'
  BY RowsStayLogged
<1> QED BY <1>1, <1>2, SpecRecoveryInv, PTL DEF RecoverySpec

-----------------------------------------------------------------------------
(* Paused markets *)

(* The positions of the status events of a market, and those of them that  *)
(* pause it for good.                                                      *)
Pausing(m) ==
  {i \in StatusEvents(m) : log[i].event.type = "market_paused" /\ \A j \in StatusEvents(m) : j <= i}

\* What PauseHolds says of one market.
MarketPauseHolds(m) ==
  IF markets[m] = "paused"
  THEN \E i \in Pausing(m) : \A j \in Accepted : OrderAt(j).signed.market_id = m => j < i
  ELSE Pausing(m) = {} \/ crashes > 0

PauseInv == DOMAIN markets = Markets /\ crashes \in Nat /\ \A m \in Markets : MarketPauseHolds(m)

(* An event more: the positions before it are the old ones.                *)
LEMMA PositionsAfter ==
  ASSUME LogSound, NEW event, append_event(event)
  PROVE  /\ Len(log) \in Nat /\ DOMAIN log = 1..Len(log) /\ DOMAIN log' = 1..Len(log) + 1
         /\ log'[Len(log) + 1].event = event
         /\ \A k \in DOMAIN log : log'[k] = log[k]
<1>1. PICK se : se = [seq_id |-> next_seq_id, event |-> event]
  OBVIOUS
<1>2. log' = Append(log, se) /\ IsSeq(log) /\ DOMAIN log = 1..Len(log) /\ Len(log) \in Nat
  BY <1>1, LenProperties DEF append_event, LogSound, IsSeq
<1>3. /\ DOMAIN log' = 1..Len(log) + 1 /\ \A k \in DOMAIN log : log'[k] = log[k]
      /\ log'[Len(log) + 1] = se
  BY <1>2, AppendedSeq
<1>4. se.event = event
  BY <1>1
<1> QED BY <1>2, <1>3, <1>4

(* An event that is neither of a market's status events nor an acceptance  *)
(* of a paused market leaves it paused or active.                          *)
LEMMA PauseKept ==
  ASSUME LogSound, crashes \in Nat, NEW event, append_event(event), NEW m, MarketPauseHolds(m),
         ~(event.type \in {"market_paused", "market_resumed"} /\ event.market_id = m),
         event.type = "order_accepted" => event.order.signed.market_id # m \/ markets[m] # "paused",
         markets'[m] = markets[m], crashes' = crashes
  PROVE  MarketPauseHolds(m)'
<1>1. PICK n : n = Len(log) + 1
  OBVIOUS
<1>2. /\ n \in Nat /\ n \notin DOMAIN log /\ DOMAIN log' = DOMAIN log \cup {n}
      /\ log'[n].event = event /\ \A k \in DOMAIN log : log'[k] = log[k]
      /\ DOMAIN log \subseteq Nat
  <2>1. PICK l : l = Len(log)
    OBVIOUS
  <2>2. /\ l \in Nat /\ DOMAIN log = 1..l /\ DOMAIN log' = 1..l + 1
        /\ log'[l + 1].event = event /\ \A k \in DOMAIN log : log'[k] = log[k]
    BY <2>1, PositionsAfter
  <2>3. n = l + 1 /\ 1..l + 1 = (1..l) \cup {l + 1} /\ l + 1 \notin 1..l /\ 1..l \subseteq Nat
    BY <1>1, <2>1, <2>2
  <2> QED BY <2>2, <2>3
<1>3. StatusEvents(m)' = StatusEvents(m)
  BY <1>2 DEF StatusEvents
<1>4. StatusEvents(m) \subseteq DOMAIN log
  BY DEF StatusEvents
<1>5. Pausing(m)' = Pausing(m)
  BY <1>2, <1>3, <1>4 DEF Pausing
<1>6. \A j \in Accepted' : \/ j \in Accepted /\ OrderAt(j)' = OrderAt(j)
                           \/ j = n /\ event.type = "order_accepted" /\ OrderAt(j)' = event.order
  BY <1>2 DEF Accepted, OrderAt
<1>7. CASE markets[m] = "paused"
  <2>1. PICK i \in Pausing(m) : \A j \in Accepted : OrderAt(j).signed.market_id = m => j < i
    BY <1>7 DEF MarketPauseHolds
  <2>2. \A j \in Accepted' : OrderAt(j)'.signed.market_id = m => j < i
    BY <1>6, <1>7, <2>1
  <2> QED BY <1>5, <1>7, <2>1, <2>2 DEF MarketPauseHolds
<1>8. CASE markets[m] # "paused"
  BY <1>5, <1>8 DEF MarketPauseHolds
<1> QED BY <1>7, <1>8

(* A step that leaves the log, the statuses and the crashes alone.         *)
LEMMA PauseUntouched ==
  ASSUME PauseInv, UNCHANGED <<log, markets, crashes>>
  PROVE  PauseInv'
BY DEF PauseInv, MarketPauseHolds, Pausing, StatusEvents, Accepted, OrderAt

(* A status event: its market is paused by it and no order comes after, or *)
(* no longer paused by anything.                                           *)
LEMMA PauseSet ==
  ASSUME LogSound, PauseInv, NEW market_id, NEW from, NEW to, NEW type,
         SetStatus(market_id, from, to, type), crashes' = crashes,
         \/ from = "active" /\ to = "paused" /\ type = "market_paused"
         \/ from = "paused" /\ to = "active" /\ type = "market_resumed"
  PROVE  PauseInv'
<1>1. PICK event : event = [type |-> type, market_id |-> market_id]
  OBVIOUS
<1>2. event.type = type /\ event.market_id = market_id
  BY <1>1
<1>3. append_event(event) /\ markets' = [markets EXCEPT ![market_id] = to]
  BY <1>1 DEF SetStatus, add_market
<1>4. ASSUME NEW m \in Markets, m # market_id PROVE MarketPauseHolds(m)'
  <2>1. markets'[m] = markets[m]
    BY <1>3, <1>4 DEF PauseInv
  <2>2. MarketPauseHolds(m) /\ crashes \in Nat
    BY DEF PauseInv
  <2>3. /\ ~(event.type \in {"market_paused", "market_resumed"} /\ event.market_id = m)
        /\ event.type # "order_accepted"
    BY <1>2, <1>4
  <2> QED BY <1>3, <2>1, <2>2, <2>3, PauseKept
<1>5. ASSUME NEW m \in Markets, m = market_id PROVE MarketPauseHolds(m)'
  <2>1. PICK n : n = Len(log) + 1
    OBVIOUS
  <2>2. /\ n \in Nat /\ n \in 1..n /\ DOMAIN log = 1..n - 1 /\ DOMAIN log' = 1..n
        /\ log'[n].event = event /\ \A k \in DOMAIN log : log'[k] = log[k]
    BY <1>3, <2>1, PositionsAfter
  <2>3. n \in StatusEvents(m)' /\ \A j \in StatusEvents(m)' : j \in 1..n
    <3>1. n \in DOMAIN log'
      BY <2>2
    <3>2. log'[n].event.type \in {"market_paused", "market_resumed"} /\ log'[n].event.market_id = m
      BY <1>2, <1>5, <2>2
    <3>3. StatusEvents(m)' \subseteq DOMAIN log'
      BY DEF StatusEvents
    <3> QED BY <2>2, <3>1, <3>2, <3>3 DEF StatusEvents
  <2>4. markets'[m] = to
    BY <1>3, <1>5 DEF PauseInv
  <2>5. CASE to = "paused"
    <3>1. n \in Pausing(m)'
      BY <1>2, <2>2, <2>3, <2>5 DEF Pausing
    <3>2. \A j \in Accepted' : j < n
      BY <1>2, <2>2, <2>5 DEF Accepted
    <3> QED BY <2>4, <2>5, <3>1, <3>2 DEF MarketPauseHolds
  <2>6. CASE to = "active"
    <3>1. Pausing(m)' = {}
      <4> SUFFICES ASSUME NEW i \in Pausing(m)' PROVE FALSE
        OBVIOUS
      <4>1. i \in 1..n /\ n <= i /\ log'[i].event.type = "market_paused"
        BY <2>3 DEF Pausing
      <4>2. i = n
        BY <2>2, <4>1
      <4> QED BY <1>2, <2>2, <2>6, <4>1, <4>2
    <3> QED BY <2>4, <2>6, <3>1 DEF MarketPauseHolds
  <2> QED BY <2>5, <2>6
<1>6. DOMAIN markets' = Markets /\ crashes' \in Nat
  BY <1>3 DEF PauseInv
<1> QED BY <1>4, <1>5, <1>6 DEF PauseInv

(* A call on the engine: an order is accepted only while its market is     *)
(* active, and no other call touches a status.                             *)
LEMMA PauseInvStep ==
  ASSUME LogSound, PauseInv, [Next]_vars, crashes' = crashes
  PROVE  PauseInv'
<1>1. ASSUME NEW event, append_event(event), markets' = markets,
             event.type \notin {"order_accepted", "market_paused", "market_resumed"}
      PROVE  PauseInv'
  <2>1. ASSUME NEW m \in Markets PROVE MarketPauseHolds(m)'
    BY <1>1, PauseKept DEF PauseInv
  <2> QED BY <1>1, <2>1 DEF PauseInv
<1>2. CASE UNCHANGED <<log, markets>>
  BY <1>2, PauseUntouched
<1>3. ASSUME NEW id, NEW hash, NEW reason, append_event(OrderCancelled(id, hash, reason)),
             markets' = markets
      PROVE  PauseInv'
  <2>1. PICK event : event = OrderCancelled(id, hash, reason)
    OBVIOUS
  <2>2. event.type = "order_cancelled"
    BY <2>1 DEF OrderCancelled
  <2> QED BY <1>1, <1>3, <2>1, <2>2
<1>4. ASSUME NEW signed, NEW now_ms, ProcessOrder(signed, now_ms) PROVE PauseInv'
  <2>1. PICK order, event : /\ order = NewOrder(signed, uuids + 1)
                            /\ event = [type |-> "order_accepted", order |-> order]
    OBVIOUS
  <2>2. append_event(event) /\ markets' = markets /\ markets[signed.market_id] = "active"
    BY <1>4, <2>1 DEF ProcessOrder, Validated, is_active
  <2>3. event.type = "order_accepted" /\ event.order.signed = signed
    BY <2>1 DEF NewOrder
  <2>4. ASSUME NEW m \in Markets PROVE MarketPauseHolds(m)'
    <3>1. event.order.signed.market_id # m \/ markets[m] # "paused"
      BY <2>2, <2>3
    <3> QED BY <2>2, <2>3, <3>1, PauseKept DEF PauseInv
  <2> QED BY <2>2, <2>4 DEF PauseInv
<1>5. ASSUME NEW id, NEW trader_id, ProcessCancel(id, trader_id) PROVE PauseInv'
  BY <1>3, <1>5 DEF ProcessCancel
<1>6. ASSUME NEW key, CancelByClientId(key[1], key[2]) PROVE PauseInv'
  BY <1>5, <1>6 DEF CancelByClientId
<1>7. ASSUME NEW m, PauseMarket(m) \/ ResumeMarket(m) PROVE PauseInv'
  BY <1>7, PauseSet DEF PauseMarket, ResumeMarket
<1>8. ASSUME NEW m, CancelAllOrders(m) PROVE PauseInv'
  BY <1>2, <1>8 DEF CancelAllOrders, engine_vars, sequencer_vars
<1>9. CASE NextLevel \/ MatchMaker \/ EndMatch
  BY <1>2, <1>9 DEF NextLevel, MatchMaker, EndMatch, engine_vars, sequencer_vars
<1>10. CASE RecordFill
  <2>1. PICK event : event = [type |-> "fill", fill |-> Head(fills)]
    OBVIOUS
  <2>2. event.type = "fill" /\ append_event(event) /\ markets' = markets
    BY <1>10, <2>1 DEF RecordFill, engine_vars
  <2> QED BY <1>1, <2>2
<1>11. CASE FinishOrder
  BY <1>2, <1>3, <1>11 DEF FinishOrder
<1>12. CASE CancelNext
  BY <1>3, <1>12 DEF CancelNext, engine_vars
<1>13. CASE UNCHANGED vars
  BY <1>2, <1>13 DEF vars, engine_vars, sequencer_vars
<1> QED BY <1>4, <1>5, <1>6, <1>7, <1>8, <1>9, <1>10, <1>11, <1>12, <1>13 DEF Next, Call, Continue

(* A restart makes every market active.                                    *)
LEMMA PauseAfterCrash ==
  ASSUME PauseInv, Crash
  PROVE  PauseInv'
<1>1. /\ markets' = [m \in Markets |-> "active"] /\ crashes' \in Nat /\ crashes' > 0
  BY DEF Crash, PauseInv
<1>2. \A m \in Markets : markets'[m] # "paused"
  BY <1>1
<1> QED BY <1>1, <1>2 DEF PauseInv, MarketPauseHolds

(* A market is paused exactly if the log's last word on it says so, and no *)
(* order of it is accepted meanwhile; only a restart overrules the log.    *)
THEOREM SpecPauseHolds == RecoverySpec => []PauseHolds
<1>1. RecoveryInit => PauseInv
  <2> SUFFICES ASSUME RecoveryInit PROVE PauseInv
    OBVIOUS
  <2>1. markets = [m \in Markets |-> "active"] /\ log = << >> /\ crashes = 0
    BY DEF RecoveryInit, Init
  <2>2. \A m : Pausing(m) = {}
    BY <2>1, EmptyIsSeq DEF Pausing, StatusEvents
  <2>3. \A m \in Markets : markets[m] # "paused"
    BY <2>1
  <2> QED BY <2>1, <2>2, <2>3 DEF PauseInv, MarketPauseHolds
<1>2. RecoveryInv /\ PauseInv /\ [RecoveryNext]_all_vars => PauseInv'
  <2> SUFFICES ASSUME RecoveryInv, PauseInv, [RecoveryNext]_all_vars PROVE PauseInv'
    OBVIOUS
  <2>1. ASSUME [Next]_vars, crashes' = crashes PROVE PauseInv'
    BY <2>1, PauseInvStep DEF RecoveryInv, ReplayInv
  <2>2. CASE Serve \/ ServeUnchanged
    BY <2>1, <2>2 DEF Serve, ServeUnchanged
  <2>3. ASSUME NEW cursor, PersistSince(cursor) \/ PersistDropped(cursor) PROVE PauseInv'
    BY <2>1, <2>3 DEF PersistSince, PersistDropped
  <2>4. CASE RestartEmpty \/ RestartRestored \/ RestartFails
    BY <2>4, PauseAfterCrash DEF RestartEmpty, RestartRestored, RestartFails
  <2>5. CASE UNCHANGED all_vars
    BY <2>1, <2>5 DEF all_vars, recovery_vars
  <2> QED BY <2>2, <2>3, <2>4, <2>5 DEF RecoveryNext
<1>3. PauseInv => PauseHolds
  <2>1. \A m : {i \in StatusEvents(m) : /\ log[i].event.type = "market_paused"
                                       /\ \A j \in StatusEvents(m) : j <= i} = Pausing(m)
    BY Zenon DEF Pausing
  <2> QED BY <2>1, Zenon DEF PauseInv, MarketPauseHolds, PauseHolds
<1> QED BY <1>1, <1>2, <1>3, SpecRecoveryInv, PTL DEF RecoverySpec

-----------------------------------------------------------------------------
(* Snapshots *)

(* The engine beside the snapshot task takes the steps of module Recovery. *)
LEMMA SnapshotStepRecovers ==
  ASSUME [SnapshotNext]_everything
  PROVE  [RecoveryNext]_all_vars
<1>1. CASE CallStep
  BY <1>1 DEF CallStep, RecoveryNext
<1>2. CASE PersistStep
  BY <1>2 DEF PersistStep, RecoveryNext
<1>3. CASE RestartStep
  BY <1>3 DEF RestartStep, RecoveryNext
<1>4. CASE SnapshotBegins \/ SnapshotWritten \/ SnapshotFails \/ StrayFile
  BY <1>4 DEF SnapshotBegins, SnapshotWritten, SnapshotFails, StrayFile
<1>5. CASE UNCHANGED everything
  BY <1>5 DEF everything
<1> QED BY <1>1, <1>2, <1>3, <1>4, <1>5 DEF SnapshotNext

LEMMA SnapshotRecoveryInv == SnapshotSpec => []RecoveryInv
<1>1. SnapshotInit => RecoveryInv
  BY RecoveryInvInit DEF SnapshotInit
<1>2. RecoveryInv /\ [SnapshotNext]_everything => RecoveryInv'
  BY SnapshotStepRecovers, RecoveryInvStep
<1> QED BY <1>1, <1>2, PTL DEF SnapshotSpec

\* Its log replays to the store whose checksum it carries.
Loads(snap) ==
  LET rs == replayed(snap.events) IN
  /\ rs.error = "none"
  /\ snap.state_checksum =
       [filled_amounts |-> rs.filled_amounts, cancelled |-> rs.cancelled, nonces |-> rs.nonces]

SnapshotsLoad ==
  /\ \A seq \in DOMAIN files : files[seq].whole => Loads(files[seq].snap)
  /\ copy # NoSnapshot => Loads(copy)

LEMMA SnapshotsLoadInit ==
  ASSUME SnapshotInit
  PROVE  SnapshotsLoad
<1>1. DOMAIN files = {} /\ copy = NoSnapshot
  BY DEF SnapshotInit
<1> QED BY <1>1 DEF SnapshotsLoad

(* The copy under the mutex is of a log and of the store it replays to.    *)
LEMMA CopiedLoads ==
  ASSUME StoreHeld
  PROVE  Loads(Copied)
<1>1. Copied.events = log /\ Copied.state_checksum = checksum
  BY DEF Copied
<1> QED BY <1>1 DEF StoreHeld, Loads, checksum

\* One file more, or another under its name.
FileWritten(seq, file) ==
  /\ DOMAIN files' = DOMAIN files \cup {seq}
  /\ \A other \in DOMAIN files' : files'[other] = IF other = seq THEN file ELSE files[other]

LEMMA PutFile ==
  ASSUME NEW seq, NEW file, files' = put(files, seq, file)
  PROVE  FileWritten(seq, file)
BY DEF put, FileWritten

\* What a step of the task or of the rest does to the directory and the copy.
TaskStep ==
  \/ copy' = copy /\ files' = files
  \/ copy' = NoSnapshot /\ files' = files
  \/ log # << >> /\ copy' = Copied /\ FileWritten(Copied.snapshot_seq, Torn)
  \/ copy # NoSnapshot /\ copy' = NoSnapshot /\ FileWritten(copy.snapshot_seq, Content(copy))

LEMMA TaskSteps ==
  ASSUME [SnapshotNext]_everything
  PROVE  TaskStep
<1>1. CASE CallStep \/ PersistStep
  BY <1>1 DEF CallStep, PersistStep, snapshot_vars, TaskStep
<1>2. CASE RestartStep \/ SnapshotFails \/ StrayFile
  BY <1>2 DEF RestartStep, SnapshotFails, StrayFile, TaskStep
<1>3. CASE SnapshotBegins
  BY <1>3, PutFile DEF SnapshotBegins, snapshot_path, nothing_to_write, TaskStep
<1>4. CASE SnapshotWritten
  BY <1>4, PutFile DEF SnapshotWritten, snapshot_path, TaskStep
<1>5. CASE UNCHANGED everything
  BY <1>5 DEF everything, snapshot_vars, TaskStep
<1> QED BY <1>1, <1>2, <1>3, <1>4, <1>5 DEF SnapshotNext

LEMMA SnapshotsLoadStep ==
  ASSUME StoreHeld, SnapshotsLoad, TaskStep
  PROVE  SnapshotsLoad'
<1>1. Torn.whole = FALSE /\ \A snap : Content(snap).snap = snap
  BY DEF Torn, Content
<1>2. Loads(Copied)
  BY CopiedLoads
<1>3. CASE UNCHANGED files /\ (copy' = copy \/ copy' = NoSnapshot)
  BY <1>3 DEF SnapshotsLoad
<1>4. CASE copy' = Copied /\ FileWritten(Copied.snapshot_seq, Torn)
  <2>1. \A seq \in DOMAIN files' : files'[seq].whole => seq \in DOMAIN files /\ files'[seq] = files[seq]
    BY <1>1, <1>4 DEF FileWritten
  <2> QED BY <1>2, <1>4, <2>1 DEF SnapshotsLoad
<1>5. CASE copy # NoSnapshot /\ copy' = NoSnapshot /\ FileWritten(copy.snapshot_seq, Content(copy))
  <2>1. \A seq \in DOMAIN files' : \/ seq \in DOMAIN files /\ files'[seq] = files[seq]
                                  \/ files'[seq].snap = copy
    BY <1>1, <1>5 DEF FileWritten
  <2> QED BY <1>5, <2>1 DEF SnapshotsLoad
<1> QED BY <1>3, <1>4, <1>5 DEF TaskStep

(* Every whole file can be loaded: a snapshot is taken where the log       *)
(* replays to the store, and neither is touched again.                     *)
THEOREM SpecWholeSnapshotsLoad == SnapshotSpec => []WholeSnapshotsLoad
<1>1. SnapshotInit => SnapshotsLoad
  BY SnapshotsLoadInit
<1>2. RecoveryInv /\ SnapshotsLoad /\ [SnapshotNext]_everything => SnapshotsLoad'
  BY TaskSteps, SnapshotsLoadStep DEF RecoveryInv, ReplayInv
<1>3. SnapshotsLoad => WholeSnapshotsLoad
  BY DEF SnapshotsLoad, Loads, WholeSnapshotsLoad, Whole, load_snapshot
<1> QED BY <1>1, <1>2, <1>3, SnapshotRecoveryInv, PTL DEF SnapshotSpec

\* The ids of a log tell its events apart and lie below the counter.
IdsRise ==
  /\ Len(log) \in Nat /\ DOMAIN log = 1..Len(log) /\ next_seq_id \in Nat
  /\ \A i \in 1..Len(log) : log[i].seq_id \in Nat /\ log[i].seq_id < next_seq_id
  /\ \A i, j \in 1..Len(log) : log[i].seq_id = log[j].seq_id => i = j

LEMMA LogIdsRise ==
  ASSUME LogSound, StoreHeld
  PROVE  IdsRise
<1>1. /\ Len(log) \in Nat /\ DOMAIN log = 1..Len(log)
      /\ \A i \in 2..Len(log) : log[i].seq_id = log[i - 1].seq_id + 1
  BY ReplayedContiguous
<1>2. \A i \in 1..Len(log) : log[i].seq_id \in Nat
  BY <1>1 DEF LogSound, RowSound
<1>3. \A i \in 1..Len(log) : log[i].seq_id = log[1].seq_id + (i - 1)
  BY <1>1, <1>2, IdsCount
<1>4. \A i, j \in 1..Len(log) : log[i].seq_id = log[j].seq_id => i = j
  BY <1>1, <1>2, <1>3
<1>5. next_seq_id \in Nat /\ \A i \in 1..Len(log) : log[i].seq_id < next_seq_id
  <2>1. CASE log = << >>
    BY <1>1, <2>1, EmptyIsSeq DEF LogSound
  <2>2. CASE log # << >>
    <3>1. next_seq_id = log[Len(log)].seq_id + 1 /\ Len(log) \in 1..Len(log)
      <4>1. Len(log) # 0
        BY <2>2, EmptySeq DEF LogSound, IsSeq
      <4> QED BY <1>1, <2>2, <4>1 DEF LogSound
    <3> QED BY <1>1, <1>2, <1>3, <3>1
  <2> QED BY <2>1, <2>2
<1> QED BY <1>1, <1>2, <1>4, <1>5 DEF IdsRise

\* The log begins with these events.
Beginning(events) == Len(events) <= Len(log) /\ \A i \in DOMAIN events : events[i] = log[i]

\* Up to what was restored since, the running log has the same events.
AgreesSince(events, life) ==
  \A i \in DOMAIN events, j \in DOMAIN log :
    events[i].seq_id = log[j].seq_id /\ RestoredSince(life, log[j].seq_id) => events[i] = log[j]

SnapshotHeld(snap) ==
  /\ IsSeq(snap.events) /\ snap.events # << >>
  /\ snap.snapshot_seq = snap.events[Len(snap.events)].seq_id
  /\ snap.life \in Nat /\ snap.life <= crashes
  /\ snap.life = crashes => Beginning(snap.events)
  /\ up => AgreesSince(snap.events, snap.life)

\* A start-up restores ids below its counter.
StartsBelow ==
  /\ crashes \in Nat /\ IsSeq(restored) /\ Len(restored) = crashes
  /\ crashes > 0 => restored[crashes] \in Int /\ restored[crashes] < next_seq_id

SnapshotsHeld ==
  /\ StartsBelow
  /\ \A seq \in DOMAIN files :
       files[seq].whole => SnapshotHeld(files[seq].snap) /\ seq = files[seq].snap.snapshot_seq
  /\ copy # NoSnapshot => SnapshotHeld(copy)

LEMMA SnapshotsHeldInit ==
  ASSUME SnapshotInit
  PROVE  SnapshotsHeld
<1>1. DOMAIN files = {} /\ copy = NoSnapshot /\ restored = << >> /\ crashes = 0
  BY DEF SnapshotInit, RecoveryInit
<1> QED BY <1>1, EmptyIsSeq DEF SnapshotsHeld, StartsBelow

(* A copy of the log, under the mutex.                                     *)
LEMMA CopiedHeld ==
  ASSUME LogSound, IdsRise, crashes \in Nat, log # << >>
  PROVE  SnapshotHeld(Copied)
<1>1. Copied.events = log /\ Copied.life = crashes /\ Copied.snapshot_seq = log[Len(log)].seq_id
  BY DEF Copied, last_seq_id
<1>2. Beginning(log)
  BY DEF Beginning, IdsRise
<1>3. AgreesSince(log, crashes)
  BY DEF AgreesSince, IdsRise
<1> QED BY <1>1, <1>2, <1>3 DEF SnapshotHeld, LogSound

\* No start-up: the engine, or nothing.
GoesOn == Logs /\ UNCHANGED <<crashes, restored, up>>

LEMMA RestartOrGoesOn ==
  ASSUME [SnapshotNext]_everything
  PROVE  RestartStep \/ GoesOn
<1> SUFFICES ASSUME ~RestartStep PROVE GoesOn
  OBVIOUS
<1>1. ASSUME [Next]_vars, UNCHANGED <<crashes, restored, up>> PROVE GoesOn
  BY <1>1, StepLogs DEF GoesOn
<1>2. CASE CallStep
  BY <1>1, <1>2 DEF CallStep, Serve, snapshot_vars
<1>3. CASE PersistStep
  BY <1>1, <1>3 DEF PersistStep, ServeUnchanged, PersistSince, PersistDropped, snapshot_vars
<1>4. CASE SnapshotBegins \/ SnapshotWritten \/ SnapshotFails \/ StrayFile
  BY <1>1, <1>4 DEF SnapshotBegins, SnapshotWritten, SnapshotFails, StrayFile, all_vars, recovery_vars
<1>5. CASE UNCHANGED everything
  BY <1>1, <1>5 DEF everything, all_vars, recovery_vars, snapshot_vars
<1> QED BY <1>2, <1>3, <1>4, <1>5 DEF SnapshotNext

(* Beginning is what IsPrefix says of two sequences.                       *)
LEMMA BeginningIsPrefix ==
  ASSUME NEW events, IsSeq(events), IsSeq(log), Beginning(events)
  PROVE  IsPrefix(events, log)
<1> DEFINE S == {events[i] : i \in DOMAIN events} \cup {log[i] : i \in DOMAIN log}
<1>1. events \in Seq(S) /\ log \in Seq(S)
  BY DEF IsSeq
<1> HIDE DEF S
<1>2. /\ Len(events) \in Nat /\ DOMAIN events = 1..Len(events)
      /\ Len(log) \in Nat /\ Len(events) <= Len(log)
  BY <1>1, LenProperties DEF Beginning
<1>3. SubSeq(events, 1, Len(events)) = SubSeq(log, 1, Len(events))
  BY <1>1, <1>2 DEF Beginning
<1> QED BY <1>2, <1>3 DEF IsPrefix

(* A call or the persistence of one: the log keeps what it has, and what   *)
(* it appends is beyond everything that was restored.                      *)
LEMMA HeldWhileLogging ==
  ASSUME GoesOn, LogSound, IdsRise, IdsRise', StartsBelow,
         NEW snap, SnapshotHeld(snap)
  PROVE  SnapshotHeld(snap)'
<1> DEFINE events == snap.events
<1> USE DEF GoesOn
<1>1. \A i \in DOMAIN log : i \in DOMAIN log' /\ log'[i] = log[i]
  BY LoggedStays
<1>2. Len(log) <= Len(log')
  <2>1. CASE Len(log) = 0
    BY <2>1 DEF IdsRise
  <2>2. CASE Len(log) # 0
    <3>1. Len(log) \in DOMAIN log
      BY <2>2 DEF IdsRise
    <3> QED BY <1>1, <3>1 DEF IdsRise
  <2> QED BY <2>1, <2>2
<1>3. snap.life = crashes => Beginning(events)'
  <2> SUFFICES ASSUME snap.life = crashes PROVE Beginning(events)'
    OBVIOUS
  <2>1. Beginning(events)
    BY DEF SnapshotHeld
  <2>2. IsSeq(events) /\ Len(events) \in Nat /\ DOMAIN events = 1..Len(events)
    BY LenProperties DEF SnapshotHeld, IsSeq
  <2>3. \A i \in DOMAIN events : i \in DOMAIN log
    BY <2>1, <2>2 DEF Beginning, IdsRise
  <2> QED BY <1>1, <1>2, <2>1, <2>2, <2>3 DEF Beginning, IdsRise
<1>4. up' => AgreesSince(events, snap.life)'
  <2> SUFFICES ASSUME up, NEW i \in DOMAIN events, NEW j \in DOMAIN log',
                      events[i].seq_id = log'[j].seq_id,
                      \A k \in snap.life + 1 .. crashes : log'[j].seq_id <= restored[k]
               PROVE  events[i] = log'[j]
    BY DEF AgreesSince, RestoredSince
  <2>1. CASE snap.life = crashes
    <3>1. i \in DOMAIN log' /\ log'[i] = events[i]
      <4>1. Beginning(events)'
        BY <1>3, <2>1
      <4>2. Len(events) \in Nat /\ DOMAIN events = 1..Len(events)
        BY LenProperties DEF SnapshotHeld, IsSeq
      <4> QED BY <4>1, <4>2 DEF Beginning, IdsRise
    <3> QED BY <3>1 DEF IdsRise
  <2>2. CASE snap.life # crashes /\ j \in DOMAIN log
    <3>1. RestoredSince(snap.life, log[j].seq_id) /\ log'[j] = log[j]
      BY <1>1, <2>2 DEF RestoredSince
    <3> QED BY <2>2, <3>1 DEF SnapshotHeld, AgreesSince
  <2>3. CASE snap.life # crashes /\ j \notin DOMAIN log
    <3>1. /\ log'[j].seq_id <= restored[crashes] /\ restored[crashes] < next_seq_id
          /\ restored[crashes] \in Int /\ next_seq_id \in Nat
      <4>1. crashes \in snap.life + 1 .. crashes /\ crashes > 0
        BY <2>3 DEF SnapshotHeld, StartsBelow
      <4> QED BY <4>1 DEF StartsBelow, IdsRise
    <3>2. PICK event : append_event(event)
      BY <2>3 DEF Logs
    <3>3. log'[j].seq_id = next_seq_id
      <4>1. PICK se : se = [seq_id |-> next_seq_id, event |-> event]
        OBVIOUS
      <4>2. log' = Append(log, se) /\ se.seq_id = next_seq_id
        BY <3>2, <4>1 DEF append_event
      <4>3. DOMAIN log' = 1..Len(log) + 1 /\ log'[Len(log) + 1] = se
        BY <4>2, AppendedSeq DEF LogSound
      <4> QED BY <2>3, <4>2, <4>3 DEF IdsRise
    <3> QED BY <3>1, <3>3
  <2> QED BY <2>1, <2>2, <2>3
<1> QED BY <1>3, <1>4 DEF SnapshotHeld

(* A start-up: the events that it restores are rows, and the rows were     *)
(* events of the log that it replaces.                                     *)
LEMMA HeldAcrossRestart ==
  ASSUME ~LoadMayFail, RowsSound, RowsAreLogged, StartsBelow, StartsBelow', RestartStep,
         NEW snap, SnapshotHeld(snap)
  PROVE  SnapshotHeld(snap)'
<1>1. up /\ crashes' = crashes + 1 /\ restored' = Append(restored, next_seq_id' - 1)
  BY DEF RestartStep, RestartEmpty, RestartRestored, RestartFails, Crash
<1>2. \A k \in 1..crashes : restored'[k] = restored[k]
  <2>1. PICK last : last = next_seq_id' - 1
    OBVIOUS
  <2>2. restored' = Append(restored, last) /\ DOMAIN restored = 1..crashes
    BY <1>1, <2>1, LenProperties DEF StartsBelow, IsSeq
  <2> QED BY <2>2, AppendedSeq DEF StartsBelow
<1>3. snap.life <= crashes' /\ snap.life # crashes'
  BY <1>1 DEF SnapshotHeld, StartsBelow
<1>4. up' => AgreesSince(snap.events, snap.life)'
  <2> SUFFICES ASSUME up', NEW i \in DOMAIN snap.events, NEW j \in DOMAIN log',
                      snap.events[i].seq_id = log'[j].seq_id,
                      \A k \in snap.life + 1 .. crashes' : log'[j].seq_id <= restored'[k]
               PROVE  snap.events[i] = log'[j]
    BY DEF AgreesSince, RestoredSince
  <2>1. CASE RestartEmpty
    BY <2>1, EmptyIsSeq DEF RestartEmpty, StartFresh
  <2>2. CASE RestartRestored
    <3>1. log'[j] \in stored
      BY <2>2, LoadedSorted DEF ListsRows, RestartRestored, RestoreFromEvents
    <3>2. PICK old \in DOMAIN log : log[old] = log'[j]
      BY <1>1, <3>1 DEF RowsAreLogged
    <3>3. RestoredSince(snap.life, log[old].seq_id)
      <4>1. \A k \in snap.life + 1 .. crashes : k \in snap.life + 1 .. crashes' /\ k \in 1..crashes
        BY <1>1 DEF SnapshotHeld, StartsBelow
      <4> QED BY <1>2, <3>2, <4>1 DEF RestoredSince
    <3> QED BY <1>1, <3>2, <3>3 DEF SnapshotHeld, AgreesSince
  <2>3. CASE RestartFails
    BY <2>3 DEF RestartFails
  <2> QED BY <2>1, <2>2, <2>3 DEF RestartStep
<1> QED BY <1>3, <1>4 DEF SnapshotHeld

(* The counter only moves forward, but at a start-up.                      *)
LEMMA StartsBelowStep ==
  ASSUME StartsBelow, RestartStep \/ GoesOn, LogSound, LogSound', IdsRise, IdsRise'
  PROVE  StartsBelow'
<1>1. CASE RestartStep
  <2> DEFINE last == next_seq_id' - 1
  <2>1. next_seq_id' \in Nat /\ crashes \in Nat
    BY DEF IdsRise, StartsBelow
  <2>2. crashes' = crashes + 1 /\ restored' = Append(restored, last)
    BY <1>1 DEF RestartStep, RestartEmpty, RestartRestored, RestartFails, Crash
  <2>3. last \in Int /\ last < next_seq_id' /\ crashes' \in Nat
    <3>1. \A n \in Nat : n - 1 \in Int /\ n - 1 < n /\ n + 1 \in Nat
      OBVIOUS
    <3> QED BY <2>1, <2>2, <3>1
  <2> HIDE DEF last
  <2>4. IsSeq(restored') /\ Len(restored') = crashes' /\ restored'[crashes'] = last
    BY <2>2, AppendedSeq, ReplayOfAppend DEF StartsBelow
  <2> QED BY <2>3, <2>4 DEF StartsBelow
<1>2. CASE GoesOn
  <2>1. next_seq_id' >= next_seq_id /\ next_seq_id \in Nat /\ next_seq_id' \in Nat
    <3>1. next_seq_id \in Nat /\ next_seq_id' \in Nat
      BY DEF IdsRise
    <3>2. CASE UNCHANGED log
      <4>1. next_seq_id' = next_seq_id
        BY <3>2 DEF LogSound
      <4> QED BY <3>1, <4>1
    <3>3. CASE \E event : append_event(event)
      <4>1. next_seq_id' = next_seq_id + 1
        BY <3>3 DEF append_event
      <4> QED BY <3>1, <4>1
    <3> QED BY <1>2, <3>2, <3>3 DEF GoesOn, Logs
  <2> QED BY <1>2, <2>1 DEF GoesOn, StartsBelow
<1> QED BY <1>1, <1>2

(* What was held in the directory, or is copied now, still is.             *)
LEMMA SnapshotsHeldStep ==
  ASSUME ~LoadMayFail, RecoveryInv, RowsAreLogged, IdsRise, LogSound', IdsRise', SnapshotsHeld,
         [SnapshotNext]_everything
  PROVE  SnapshotsHeld'
<1>1. RestartStep \/ GoesOn
  BY RestartOrGoesOn
<1>2. LogSound /\ RowsSound /\ StartsBelow
  BY DEF RecoveryInv, ReplayInv, SnapshotsHeld
<1>3. StartsBelow'
  BY <1>1, <1>2, StartsBelowStep
<1>4. ASSUME NEW snap, SnapshotHeld(snap) PROVE SnapshotHeld(snap)'
  BY <1>1, <1>2, <1>3, <1>4, HeldWhileLogging, HeldAcrossRestart
<1>5. log # << >> => SnapshotHeld(Copied)
  BY <1>2, CopiedHeld DEF StartsBelow
<1>6. TaskStep
  BY TaskSteps
<1>7. Torn.whole = FALSE /\ \A snap : Content(snap).snap = snap
  BY DEF Torn, Content
<1>8. ASSUME NEW seq \in DOMAIN files', files'[seq].whole
      PROVE  SnapshotHeld(files[seq].snap)' /\ seq = files'[seq].snap.snapshot_seq
  <2>1. PICK snap : snap = files'[seq].snap
    OBVIOUS
  <2>2. SnapshotHeld(snap) /\ seq = snap.snapshot_seq
    <3>1. \/ seq \in DOMAIN files /\ files'[seq] = files[seq]
          \/ copy # NoSnapshot /\ snap = copy /\ seq = copy.snapshot_seq
      BY <1>6, <1>7, <1>8, <2>1 DEF TaskStep, FileWritten
    <3> QED BY <1>8, <2>1, <3>1 DEF SnapshotsHeld
  <2>3. SnapshotHeld(snap)'
    BY <1>4, <2>2
  <2> QED BY <2>1, <2>2, <2>3
<1>9. copy' # NoSnapshot => SnapshotHeld(copy)'
  <2> SUFFICES ASSUME copy' # NoSnapshot PROVE SnapshotHeld(copy)'
    OBVIOUS
  <2>1. PICK snap : snap = copy'
    OBVIOUS
  <2>2. SnapshotHeld(snap)
    BY <1>5, <1>6, <2>1 DEF TaskStep, SnapshotsHeld
  <2>3. SnapshotHeld(snap)'
    BY <1>4, <2>2
  <2> QED BY <2>1, <2>3
<1> QED BY <1>3, <1>8, <1>9 DEF SnapshotsHeld

LEMMA SnapshotIdsRise == SnapshotSpec => []IdsRise
<1>1. RecoveryInv => IdsRise
  BY LogIdsRise DEF RecoveryInv, ReplayInv
<1> QED BY <1>1, SnapshotRecoveryInv, PTL

(* A snapshot is named after its last event and, up to what every start-up *)
(* since has restored, has the running log's events: unless main goes on   *)
(* without the rows it could not load.                                     *)
THEOREM SpecSnapshotsAgree ==
  ASSUME ~LoadMayFail
  PROVE  SnapshotSpec => []SnapshotsAgree
<1>1. SnapshotInit => SnapshotsHeld /\ RowsAreLogged
  BY SnapshotsHeldInit DEF SnapshotInit, RecoveryInit, RowsAreLogged
<1>2. RecoveryInv /\ RowsAreLogged /\ [SnapshotNext]_everything => RowsAreLogged'
  BY SnapshotStepRecovers, RowsStayLogged
<1>3. RecoveryInv => LogSound
  BY DEF RecoveryInv, ReplayInv
<1>4. RecoveryInv /\ RowsAreLogged /\ IdsRise /\ LogSound' /\ IdsRise' /\ SnapshotsHeld
        /\ [SnapshotNext]_everything => SnapshotsHeld'
  BY SnapshotsHeldStep
<1>5. LogSound /\ SnapshotsHeld => SnapshotsAgree
  <2> SUFFICES ASSUME LogSound, SnapshotsHeld, NEW seq \in Whole,
                      NEW snap, snap = files[seq].snap
               PROVE  /\ seq = snap.events[Len(snap.events)].seq_id
                      /\ snap.life = crashes => IsPrefix(snap.events, log)
                      /\ up => AgreesSince(snap.events, snap.life)
    BY DEF SnapshotsAgree, AgreesSince
  <2>1. SnapshotHeld(snap) /\ seq = snap.snapshot_seq
    BY DEF Whole, SnapshotsHeld
  <2>2. ASSUME Beginning(snap.events) PROVE IsPrefix(snap.events, log)
    BY <2>1, <2>2, BeginningIsPrefix DEF LogSound, SnapshotHeld
  <2> QED BY <2>1, <2>2 DEF SnapshotHeld
<1> QED BY <1>1, <1>2, <1>3, <1>4, <1>5, SnapshotRecoveryInv, SnapshotIdsRise, PTL DEF SnapshotSpec
=============================================================================
