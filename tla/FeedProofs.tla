----------------------------- MODULE FeedProofs -----------------------------
(***************************************************************************)
(* The feed, for any handlers, connections, calls, channels and capacity:  *)
(* no envelope is lost between the log and a subscriber unless a try_lock  *)
(* failed, a call panicked or a request was dropped.                       *)
(***************************************************************************)
EXTENDS FeedProperties, SequenceFacts

-----------------------------------------------------------------------------
(* Envelopes *)

(* The envelopes of an event carry its sequence id.                        *)
LEMMA FromSequenced ==
  ASSUME NEW seq_id \in Nat \ {0}, NEW event \in LogEvents
  PROVE  /\ from_sequenced(seq_id, event) \in Seq(Envelopes)
         /\ \A env \in ToSet(from_sequenced(seq_id, event)) : env.sequence_id = seq_id
<1>1. ASSUME NEW kind \in Kinds, NEW name \in Names \cup {""}
      PROVE  /\ Envelope(kind, name, seq_id) \in Envelopes
             /\ Envelope(kind, name, seq_id).sequence_id = seq_id
  BY DEF Envelope, Envelopes
<1> DEFINE Good(envs) == envs \in Seq(Envelopes) /\ \A env \in ToSet(envs) : env.sequence_id = seq_id
<1>2. ASSUME NEW e \in Envelopes, e.sequence_id = seq_id PROVE Good(<< e >>)
  BY <1>2 DEF ToSet
<1>3. ASSUME NEW d \in Envelopes, d.sequence_id = seq_id, NEW e \in Envelopes, e.sequence_id = seq_id
      PROVE  Good(<< d, e >>)
  BY <1>3 DEF ToSet
<1>4. ASSUME NEW d \in Envelopes, d.sequence_id = seq_id, NEW e \in Envelopes, e.sequence_id = seq_id,
             NEW f \in Envelopes, f.sequence_id = seq_id
      PROVE  Good(<< d, e >> \o << f >>) /\ Good(<< d, e >> \o << >>)
  <2>1. /\ << d, e >> \in Seq(Envelopes) /\ << f >> \in Seq(Envelopes)
        /\ << d, e >> \o << f >> \in Seq(Envelopes) /\ << d, e >> \o << >> = << d, e >>
    <3>1. << d, e >> \in Seq(Envelopes) /\ << f >> \in Seq(Envelopes)
      OBVIOUS
    <3> QED BY <3>1, ConcatProperties, ConcatEmptySeq
  <2>2. \A env \in ToSet(<< d, e >> \o << f >>) : env.sequence_id = seq_id
    <3>1. Good(<< d, e >>) /\ Good(<< f >>)
      BY <1>2, <1>3, <1>4
    <3> QED BY <2>1, <3>1, ConcatElements
  <2>3. Good(<< d, e >>)
    BY <1>3, <1>4
  <2> QED BY <2>1, <2>2, <2>3
<1> HIDE DEF Good
<1>5. CASE event.type = "order_accepted"
  <2>1. event.market \in Names /\ event.trader \in Names
    BY <1>5 DEF LogEvents
  <2>2. from_sequenced(seq_id, event)
          = << Envelope("book.l3", event.market, seq_id), Envelope("orders", event.trader, seq_id) >>
    BY <1>5 DEF from_sequenced
  <2>3. Good(from_sequenced(seq_id, event))
    BY <1>1, <1>3, <2>1, <2>2 DEF Kinds
  <2> QED BY <2>3 DEF Good
<1>6. CASE event.type = "fill"
  <2>1. event.market \in Names /\ event.taker \in Names /\ event.maker \in Names
    BY <1>6 DEF LogEvents
  <2>2. from_sequenced(seq_id, event)
          = << Envelope("trades", event.market, seq_id), Envelope("orders", event.taker, seq_id) >>
              \o (IF event.maker = event.taker THEN << >>
                  ELSE << Envelope("orders", event.maker, seq_id) >>)
    BY <1>6 DEF from_sequenced
  <2>3. Good(from_sequenced(seq_id, event))
    BY <1>1, <1>4, <2>1, <2>2 DEF Kinds
  <2> QED BY <2>3 DEF Good
<1>7. CASE event.type = "order_cancelled"
  <2>1. from_sequenced(seq_id, event) = << Envelope("cancels", "", seq_id) >>
    BY <1>7 DEF from_sequenced
  <2>2. Good(from_sequenced(seq_id, event))
    BY <1>1, <1>2, <2>1 DEF Kinds
  <2> QED BY <2>2 DEF Good
<1>8. CASE event.type \in {"market_paused", "market_resumed"}
  <2>1. event.market \in Names
    BY <1>8 DEF LogEvents
  <2>2. from_sequenced(seq_id, event) = << Envelope("market", event.market, seq_id) >>
    BY <1>8 DEF from_sequenced
  <2>3. Good(from_sequenced(seq_id, event))
    BY <1>1, <1>2, <2>1, <2>2 DEF Kinds
  <2> QED BY <2>3 DEF Good
<1> QED BY <1>5, <1>6, <1>7, <1>8 DEF LogEvents

\* The envelope is of the event at this place of the log.
EnvelopeAt(i, env) == env \in ToSet(from_sequenced(i, log[i]))

(* EnvelopesOf gives the envelopes of the events it is asked for.          *)
LEMMA EnvelopesElements ==
  ASSUME log \in Seq(LogEvents), NEW seq_ids
  PROVE  /\ EnvelopesOf(seq_ids) \in Seq(Envelopes)
         /\ \A env : env \in ToSet(EnvelopesOf(seq_ids))
                       <=> \E i \in DOMAIN log \cap seq_ids : EnvelopeAt(i, env)
<1> DEFINE parts == [ i \in DOMAIN log |-> IF i \in seq_ids THEN from_sequenced(i, log[i]) ELSE << >> ]
<1>1. /\ \A i \in 1..Len(log) : i \in Nat \ {0} /\ log[i] \in LogEvents
      /\ DOMAIN log = 1..Len(log) /\ Len(log) \in Nat
  OBVIOUS
<1>2. parts \in Seq(Seq(Envelopes)) /\ DOMAIN parts = DOMAIN log
  <2>1. \A i \in 1..Len(log) : parts[i] \in Seq(Envelopes)
    BY <1>1, FromSequenced
  <2>2. parts = [i \in 1..Len(log) |-> parts[i]]
    BY <1>1
  <2> HIDE DEF parts
  <2> QED BY <1>1, <2>1, <2>2, IsASeq
<1>3. EnvelopesOf(seq_ids) = FlattenSeq(parts)
  BY Zenon DEF EnvelopesOf
<1>4. \A i \in DOMAIN log : \A env : env \in ToSet(parts[i]) <=> i \in seq_ids /\ EnvelopeAt(i, env)
  BY DEF EnvelopeAt, ToSet
<1> HIDE DEF parts
<1> QED BY <1>2, <1>3, <1>4, FlattenElements

(* OnChannel keeps the envelopes of one channel.                           *)
LEMMA OnChannelElements ==
  ASSUME NEW envelopes \in Seq(Envelopes), NEW channel
  PROVE  /\ OnChannel(envelopes, channel) \in Seq(Envelopes)
         /\ \A env : env \in ToSet(OnChannel(envelopes, channel))
                       <=> env \in ToSet(envelopes) /\ env.channel = channel
<1> DEFINE parts == [ i \in DOMAIN envelopes |->
                        IF envelopes[i].channel = channel THEN << envelopes[i] >> ELSE << >> ]
<1>1. parts \in Seq(Seq(Envelopes)) /\ DOMAIN parts = DOMAIN envelopes
  <2>1. \A i \in 1..Len(envelopes) : parts[i] \in Seq(Envelopes)
    OBVIOUS
  <2>2. parts = [i \in 1..Len(envelopes) |-> parts[i]] /\ Len(envelopes) \in Nat
    OBVIOUS
  <2> HIDE DEF parts
  <2> QED BY <2>1, <2>2, IsASeq
<1>2. OnChannel(envelopes, channel) = FlattenSeq(parts)
  BY Zenon DEF OnChannel
<1>3. \A i \in DOMAIN envelopes : \A env :
        env \in ToSet(parts[i]) <=> env = envelopes[i] /\ env.channel = channel
  BY DEF ToSet
<1>4. \A env : env \in ToSet(envelopes) <=> \E i \in DOMAIN envelopes : env = envelopes[i]
  BY Zenon DEF ToSet
<1> HIDE DEF parts
<1> QED BY <1>1, <1>2, <1>3, <1>4, FlattenElements

-----------------------------------------------------------------------------
(* Types, and where the handlers and the connections are *)

\* Only the handler in a call can append, so its cursor is at the end of the log.
HandlerData ==
  /\ log \in Seq(LogEvents)
  /\ \A h \in Handlers :
       /\ pc[h] = "calling" => /\ mutex = h /\ seq_before[h] = Len(log)
                               /\ begun \in 1..Len(Calls)
       /\ pc[h] = "sending" <=> to_send[h] # << >>

\* A closed connection has no channels; one that replays has a request.
ConnectionData ==
  /\ subscriptions = [c \in Connections |-> subscriptions[c]]
  /\ request = [c \in Connections |-> request[c]]
  /\ delivered = [c \in Connections |-> delivered[c]]
  /\ \A c \in Connections :
       /\ status[c] = "closed" => subscriptions[c] = << >>
       /\ status[c] = "replaying" =>
            request[c] \in [channel : Channels, from_seq : FromSeqs \ {0}]

FeedTypes == FeedTypeOK /\ HandlerData /\ ConnectionData

(* At the start every variable has its type.                               *)
LEMMA InitFeedTypes == FeedInit => FeedTypes
<1> SUFFICES ASSUME FeedInit PROVE FeedTypes
  OBVIOUS
<1>1. DOMAIN << >> = {} /\ Len(Calls) \in Nat
  BY FeedAssumption
<1>2. FeedTypeOK
  BY <1>1, FeedAssumption DEF FeedInit, FeedTypeOK
<1>3. HandlerData /\ ConnectionData
  BY FeedAssumption DEF FeedInit, HandlerData, ConnectionData
<1> QED BY <1>2, <1>3 DEF FeedTypes

(* The handlers leave the connections alone.                               *)
LEMMA SocketsKept ==
  ASSUME FeedTypes, UNCHANGED socket_vars, Len(events) \in Nat, Len(events') \in Nat,
         Len(events) <= Len(events')
  PROVE  /\ ConnectionData'
         /\ status' \in [Connections -> {"closed", "open", "replaying"}]
         /\ position' \in [Connections -> 0..Len(events')]
         /\ \A c \in Connections :
              /\ DOMAIN subscriptions'[c] \subseteq Channels
              /\ \A channel \in DOMAIN subscriptions'[c] :
                   subscriptions'[c][channel] \in Nat \ {0}
              /\ \/ request'[c] = NoRequest
                 \/ request'[c] \in [channel : Channels, from_seq : FromSeqs]
              /\ delivered'[c] \subseteq Envelopes
         /\ history' \in [Connections -> Seq(Envelopes)]
         /\ requests' \in [Connections -> 0..MaxRequests]
<1>1. position' \in [Connections -> 0..Len(events')]
  BY DEF FeedTypes, FeedTypeOK, socket_vars
<1> QED BY <1>1 DEF FeedTypes, FeedTypeOK, ConnectionData, socket_vars

\* The types of the handlers' side of the feed.
HandlerTypes ==
  /\ mutex \in Handlers \cup {"reader", "free"}
  /\ begun \in 0..Len(Calls)
  /\ pc \in [Handlers -> {"idle", "calling", "updating", "publishing", "sending"}]
  /\ seq_before \in [Handlers -> Nat]
  /\ to_send \in [Handlers -> Seq(Envelopes)]
  /\ events \in Seq(Envelopes)
  /\ missed \subseteq DOMAIN log /\ abandoned \subseteq DOMAIN log

(* A step of a handler keeps the types that it does not change.            *)
LEMMA HandlerKeepsTypes ==
  ASSUME FeedTypes, UNCHANGED socket_vars, Len(events) \in Nat, Len(events') \in Nat,
         Len(events) <= Len(events'), HandlerTypes', HandlerData'
  PROVE  FeedTypes'
<1>1. ConnectionData'
  BY SocketsKept
<1>2. FeedTypeOK'
  BY SocketsKept DEF FeedTypeOK, HandlerTypes
<1> QED BY <1>1, <1>2 DEF FeedTypes

(* The cursor of a call that begins is at the end of the log.              *)
LEMMA BeginCallTypes ==
  ASSUME FeedTypes, NEW h \in Handlers, BeginCall(h)
  PROVE  FeedTypes'
<1>1. Len(events) \in Nat /\ events' = events /\ UNCHANGED socket_vars
  BY DEF FeedTypes, FeedTypeOK, BeginCall
<1>2. Len(log) \in Nat /\ Len(Calls) \in Nat /\ begun' \in 1..Len(Calls)
  BY FeedAssumption DEF FeedTypes, FeedTypeOK, HandlerData, BeginCall
<1>3. /\ pc' \in [Handlers -> {"idle", "calling", "updating", "publishing", "sending"}]
      /\ seq_before' \in [Handlers -> Nat]
  BY <1>2 DEF FeedTypes, FeedTypeOK, BeginCall, GoTo, cursor
<1>4. HandlerData'
  BY <1>2, FeedAssumption DEF FeedTypes, FeedTypeOK, HandlerData, BeginCall, GoTo, cursor
<1>5. begun' \in 0..Len(Calls) /\ mutex' \in Handlers \cup {"reader", "free"}
  BY <1>2 DEF BeginCall
<1>6. Len(events') \in Nat /\ Len(events) <= Len(events')
  BY <1>1
<1>7. UNCHANGED <<log, to_send, events, missed, abandoned>>
  BY DEF BeginCall
<1>8. HandlerTypes'
  BY <1>1, <1>3, <1>5, <1>7 DEF FeedTypes, FeedTypeOK, HandlerTypes
<1> QED BY <1>1, <1>4, <1>6, <1>8, HandlerKeepsTypes

(* The log only grows, by events.                                          *)
LEMMA AppendTypes ==
  ASSUME FeedTypes, begun \in 1..Len(Calls), AppendEvents
  PROVE  /\ log \in Seq(LogEvents) /\ log' \in Seq(LogEvents)
         /\ Len(log) \in Nat /\ Len(log') \in Nat /\ Len(log) <= Len(log')
         /\ Len(log') = Len(log) + Len(Calls[begun])
         /\ \A i \in DOMAIN log : i \in DOMAIN log' /\ log'[i] = log[i]
<1>1. log \in Seq(LogEvents) /\ Calls[begun] \in Seq(LogEvents)
  BY FeedAssumption DEF FeedTypes, HandlerData
<1> PICK appended : appended = Calls[begun]
  OBVIOUS
<1>2. log' = log \o appended
  BY DEF AppendEvents
<1> QED BY <1>1, <1>2

(* A call that ends has its handler go on.                                 *)
LEMMA EndCallTypes ==
  ASSUME FeedTypes, NEW h \in Handlers, EndCall(h)
  PROVE  FeedTypes'
<1>1. Len(events) \in Nat /\ events' = events /\ UNCHANGED socket_vars
  BY DEF FeedTypes, FeedTypeOK, EndCall
<1>2. /\ log' \in Seq(LogEvents) /\ Len(log') \in Nat
      /\ \A i \in DOMAIN log : i \in DOMAIN log' /\ log'[i] = log[i]
  BY AppendTypes DEF FeedTypes, HandlerData, EndCall, GoTo
<1>3. mutex' = "free"
  BY DEF EndCall, AppendEvents
<1> PICK to : to \in {"updating", "publishing"} /\ GoTo(h, "calling", to)
  BY DEF EndCall
<1>4. pc' \in [Handlers -> {"idle", "calling", "updating", "publishing", "sending"}]
  BY DEF FeedTypes, FeedTypeOK, GoTo
<1>5. missed' \subseteq DOMAIN log' /\ abandoned' \subseteq DOMAIN log'
  BY <1>2 DEF FeedTypes, FeedTypeOK, EndCall
<1>6. UNCHANGED <<begun, seq_before, to_send>>
  BY DEF EndCall
<1>7. HandlerData'
  BY <1>2, <1>6 DEF FeedTypes, FeedTypeOK, HandlerData, GoTo
<1>8. HandlerTypes'
  BY <1>1, <1>3, <1>4, <1>5, <1>6 DEF FeedTypes, FeedTypeOK, HandlerTypes
<1> QED BY <1>1, <1>7, <1>8, HandlerKeepsTypes

(* What a handler abandons has been logged, and it is idle.                *)
LEMMA AbandonTypes ==
  ASSUME FeedTypes, NEW h \in Handlers, NEW last, Abandon(h, last),
         log' \in Seq(LogEvents), DOMAIN log \subseteq DOMAIN log', last = Len(log'),
         mutex' = "free" \/ (mutex' = mutex /\ log' = log),
         pc[h] \in {"calling", "updating"},
         \A k \in Handlers \ {h} : pc[k] = "calling" => mutex' # "free"
  PROVE  FeedTypes'
<1>1. Len(events) \in Nat /\ events' = events /\ UNCHANGED socket_vars
  BY DEF FeedTypes, FeedTypeOK, Abandon
<1>2. UNCHANGED <<begun, to_send, events, missed>>
  BY DEF Abandon
<1>3. /\ pc' \in [Handlers -> {"idle", "calling", "updating", "publishing", "sending"}]
      /\ seq_before' \in [Handlers -> Nat]
      /\ pc'[h] = "idle"
      /\ \A k \in Handlers \ {h} : pc'[k] = pc[k] /\ seq_before'[k] = seq_before[k]
  BY DEF FeedTypes, FeedTypeOK, Abandon
<1>4. abandoned' \subseteq DOMAIN log'
  <2>1. /\ seq_before[h] \in Nat /\ DOMAIN log' = 1..Len(log') /\ Len(log') \in Nat
        /\ abandoned \subseteq DOMAIN log'
    BY DEF FeedTypes, FeedTypeOK
  <2>2. seq_before[h] + 1 .. last \subseteq 1..Len(log')
    BY <2>1
  <2> QED BY <2>1, <2>2 DEF Abandon
<1>5. missed' \subseteq DOMAIN log'
  BY <1>2 DEF FeedTypes, FeedTypeOK
<1>6. HandlerData'
  <2>1. ASSUME NEW k \in Handlers, pc'[k] = "calling"
        PROVE  mutex' = k /\ seq_before'[k] = Len(log') /\ begun' \in 1..Len(Calls)
    BY <1>2, <1>3, <2>1 DEF FeedTypes, HandlerData
  <2>2. ASSUME NEW k \in Handlers PROVE pc'[k] = "sending" <=> to_send'[k] # << >>
    BY <1>2, <1>3 DEF FeedTypes, HandlerData
  <2> QED BY <2>1, <2>2 DEF HandlerData
<1>7. HandlerTypes'
  BY <1>2, <1>3, <1>4, <1>5 DEF FeedTypes, FeedTypeOK, HandlerTypes
<1> QED BY <1>1, <1>6, <1>7, HandlerKeepsTypes

(* A call that panics has appended one event and given it up.              *)
LEMMA PanicCallTypes ==
  ASSUME FeedTypes, NEW h \in Handlers, PanicCall(h)
  PROVE  FeedTypes' /\ Len(log') = Len(log) + 1
<1>1. pc[h] = "calling" /\ mutex' = "free" /\ Abandon(h, Len(log) + 1) /\ AppendEvents
  BY DEF PanicCall, AppendEvents
<1>2. begun \in 1..Len(Calls) /\ mutex = h
  BY <1>1 DEF FeedTypes, HandlerData
<1>3. Len(Calls[begun]) = 1
  BY <1>2, FeedAssumption DEF PanicCall
<1>4. log' \in Seq(LogEvents) /\ Len(log') = Len(log) + 1 /\ DOMAIN log \subseteq DOMAIN log'
  BY <1>1, <1>2, <1>3, AppendTypes
<1>5. \A k \in Handlers \ {h} : pc[k] # "calling"
  BY <1>2 DEF FeedTypes, HandlerData
<1> QED BY <1>1, <1>4, <1>5, AbandonTypes

(* A handler that is dropped leaves the log and the mutex as they are.     *)
LEMMA DroppedTypes ==
  ASSUME FeedTypes, NEW h \in Handlers, Dropped(h)
  PROVE  FeedTypes'
<1>1. /\ pc[h] = "updating" /\ Abandon(h, Len(log)) /\ log' = log /\ mutex' = mutex
      /\ log' \in Seq(LogEvents)
  BY DEF Dropped, FeedTypes, HandlerData
<1>2. \A k \in Handlers : pc[k] = "calling" => mutex' # "free"
  BY <1>1, FeedAssumption DEF FeedTypes, HandlerData
<1> QED BY <1>1, <1>2, AbandonTypes

(* Nothing but the handler's place changes while it updates the prices.    *)
LEMMA UpdateReferenceTypes ==
  ASSUME FeedTypes, NEW h \in Handlers, UpdateReference(h)
  PROVE  FeedTypes'
<1>1. Len(events) \in Nat /\ events' = events /\ UNCHANGED socket_vars
  BY DEF FeedTypes, FeedTypeOK, UpdateReference
<1>2. UNCHANGED <<log, mutex, begun, seq_before, to_send, missed, abandoned>>
  BY DEF UpdateReference
<1>3. pc' \in [Handlers -> {"idle", "calling", "updating", "publishing", "sending"}]
  BY DEF FeedTypes, FeedTypeOK, UpdateReference, GoTo
<1>4. HandlerData'
  BY <1>2 DEF FeedTypes, FeedTypeOK, HandlerData, UpdateReference, GoTo
<1>5. HandlerTypes'
  BY <1>1, <1>2, <1>3 DEF FeedTypes, FeedTypeOK, HandlerTypes
<1> QED BY <1>1, <1>4, <1>5, HandlerKeepsTypes

(* Whoever else takes the mutex is no handler in a call.                   *)
LEMMA LockTypes ==
  ASSUME FeedTypes, Lock \/ Unlock
  PROVE  FeedTypes'
<1>1. Len(events) \in Nat /\ events' = events /\ UNCHANGED socket_vars
  BY DEF FeedTypes, FeedTypeOK, Lock, Unlock
<1>2. HandlerData'
  BY FeedAssumption DEF FeedTypes, HandlerData, Lock, Unlock
<1>3. HandlerTypes'
  BY <1>1 DEF FeedTypes, FeedTypeOK, HandlerTypes, Lock, Unlock
<1> QED BY <1>1, <1>2, <1>3, HandlerKeepsTypes

(* What is published are envelopes, and whoever has some is sending.       *)
LEMMA PublishTypes ==
  ASSUME FeedTypes, NEW h \in Handlers, Publish(h)
  PROVE  FeedTypes'
<1>1. Len(events) \in Nat /\ events' = events /\ UNCHANGED socket_vars
  BY DEF FeedTypes, FeedTypeOK, Publish
<1> PICK envelopes : envelopes = EnvelopesOf(seq_before[h] + 1 .. Len(log))
  OBVIOUS
<1>2. envelopes \in Seq(Envelopes)
  BY EnvelopesElements DEF FeedTypes, HandlerData
<1>3. /\ GoTo(h, "publishing", IF envelopes = << >> THEN "idle" ELSE "sending")
      /\ to_send' = [to_send EXCEPT ![h] = envelopes]
  BY DEF Publish
<1>4. /\ pc' \in [Handlers -> {"idle", "calling", "updating", "publishing", "sending"}]
      /\ seq_before' \in [Handlers -> Nat]
      /\ to_send' \in [Handlers -> Seq(Envelopes)]
  BY <1>2, <1>3 DEF FeedTypes, FeedTypeOK, Publish, GoTo
<1>5. HandlerData'
  BY <1>3 DEF FeedTypes, FeedTypeOK, HandlerData, Publish, GoTo
<1>6. HandlerTypes'
  BY <1>1, <1>4 DEF FeedTypes, FeedTypeOK, HandlerTypes, Publish
<1> QED BY <1>1, <1>5, <1>6, HandlerKeepsTypes

(* What is given up has been logged.                                       *)
LEMMA PublishSkippedTypes ==
  ASSUME FeedTypes, NEW h \in Handlers, PublishSkipped(h)
  PROVE  FeedTypes'
<1>1. Len(events) \in Nat /\ events' = events /\ UNCHANGED socket_vars
  BY DEF FeedTypes, FeedTypeOK, PublishSkipped
<1>2. missed' \subseteq DOMAIN log'
  <2>1. seq_before[h] \in Nat /\ DOMAIN log = 1..Len(log) /\ missed \subseteq DOMAIN log
    BY DEF FeedTypes, FeedTypeOK, HandlerData
  <2>2. seq_before[h] + 1 .. Len(log) \subseteq 1..Len(log)
    BY <2>1
  <2> QED BY <2>1, <2>2 DEF PublishSkipped
<1>3. /\ pc' \in [Handlers -> {"idle", "calling", "updating", "publishing", "sending"}]
      /\ seq_before' \in [Handlers -> Nat]
  BY DEF FeedTypes, FeedTypeOK, PublishSkipped, GoTo
<1>4. HandlerData'
  BY DEF FeedTypes, FeedTypeOK, HandlerData, PublishSkipped, GoTo
<1>5. HandlerTypes'
  BY <1>1, <1>2, <1>3 DEF FeedTypes, FeedTypeOK, HandlerTypes, PublishSkipped
<1> QED BY <1>1, <1>4, <1>5, HandlerKeepsTypes

(* The channel grows by one envelope.                                      *)
LEMMA SendTypes ==
  ASSUME FeedTypes, NEW h \in Handlers, Send(h)
  PROVE  FeedTypes'
<1>1. /\ to_send[h] \in Seq(Envelopes) /\ to_send[h] # << >> /\ events \in Seq(Envelopes)
      /\ pc[h] = "sending"
  BY DEF FeedTypes, FeedTypeOK, HandlerData, Send, GoTo
<1> PICK first : first = Head(to_send[h])
  OBVIOUS
<1> PICK rest : rest = Tail(to_send[h])
  OBVIOUS
<1>2. /\ first \in Envelopes /\ rest \in Seq(Envelopes)
      /\ rest = << >> <=> Len(to_send[h]) = 1
  BY <1>1, HeadTailElements
<1>3. events' \in Seq(Envelopes) /\ Len(events) \in Nat /\ Len(events') = Len(events) + 1
  <2>1. events' = Append(events, first)
    BY DEF Send
  <2> QED BY <1>1, <1>2, <2>1
<1>4. to_send' = [to_send EXCEPT ![h] = rest]
  BY DEF Send
<1>5. /\ pc' \in [Handlers -> {"idle", "calling", "updating", "publishing", "sending"}]
      /\ to_send' \in [Handlers -> Seq(Envelopes)]
  BY <1>2, <1>4 DEF FeedTypes, FeedTypeOK, Send, GoTo
<1>6. HandlerData'
  BY <1>2, <1>4 DEF FeedTypes, FeedTypeOK, HandlerData, Send, GoTo
<1>7. Len(events') \in Nat /\ Len(events) <= Len(events')
  BY <1>3
<1>8. HandlerTypes'
  BY <1>3, <1>5 DEF FeedTypes, FeedTypeOK, HandlerTypes, Send
<1>9. UNCHANGED socket_vars
  BY DEF Send
<1> QED BY <1>3, <1>6, <1>7, <1>8, <1>9, HandlerKeepsTypes

(* The types of one connection: what a step of it has to keep.             *)
ConnectionTypes(c) ==
  /\ status[c] \in {"closed", "open", "replaying"}
  /\ position[c] \in 0..Len(events)
  /\ DOMAIN subscriptions[c] \subseteq Channels
  /\ \A channel \in DOMAIN subscriptions[c] : subscriptions[c][channel] \in Nat \ {0}
  /\ request[c] = NoRequest \/ request[c] \in [channel : Channels, from_seq : FromSeqs]
  /\ delivered[c] \subseteq Envelopes
  /\ history[c] \in Seq(Envelopes)
  /\ requests[c] \in 0..MaxRequests
  /\ status[c] = "closed" => subscriptions[c] = << >>
  /\ status[c] = "replaying" => request[c] \in [channel : Channels, from_seq : FromSeqs \ {0}]

\* The variables of the connections with one connection's entries left out.
Others(c) ==
  /\ status' = [status EXCEPT ![c] = status'[c]]
  /\ position' = [position EXCEPT ![c] = position'[c]]
  /\ subscriptions' = [subscriptions EXCEPT ![c] = subscriptions'[c]]
  /\ request' = [request EXCEPT ![c] = request'[c]]
  /\ history' = [history EXCEPT ![c] = history'[c]]
  /\ delivered' = [delivered EXCEPT ![c] = delivered'[c]]
  /\ requests' = [requests EXCEPT ![c] = requests'[c]]
(* A step of one connection has that connection's types to keep.           *)
LEMMA OneConnection ==
  ASSUME FeedTypes, NEW c \in Connections, UNCHANGED handler_vars, Others(c), ConnectionTypes(c)'
  PROVE  FeedTypes'
<1>1. HandlerData'
  BY DEF FeedTypes, HandlerData, handler_vars
<1>2. /\ status' \in [Connections -> {"closed", "open", "replaying"}]
      /\ position' \in [Connections -> 0..Len(events')]
      /\ history' \in [Connections -> Seq(Envelopes)]
      /\ requests' \in [Connections -> 0..MaxRequests]
  BY DEF FeedTypes, FeedTypeOK, Others, ConnectionTypes, handler_vars
<1>3. \A k \in Connections \ {c} :
        /\ status'[k] = status[k] /\ subscriptions'[k] = subscriptions[k]
        /\ request'[k] = request[k] /\ delivered'[k] = delivered[k]
  BY DEF FeedTypes, FeedTypeOK, ConnectionData, Others
<1>4. ConnectionData'
  <2>1. /\ subscriptions' = [k \in Connections |-> subscriptions'[k]]
        /\ request' = [k \in Connections |-> request'[k]]
        /\ delivered' = [k \in Connections |-> delivered'[k]]
    BY DEF FeedTypes, ConnectionData, Others
  <2>2. ASSUME NEW k \in Connections
        PROVE  /\ status'[k] = "closed" => subscriptions'[k] = << >>
               /\ status'[k] = "replaying" =>
                    request'[k] \in [channel : Channels, from_seq : FromSeqs \ {0}]
    BY <1>3 DEF FeedTypes, ConnectionData, ConnectionTypes
  <2> QED BY <2>1, <2>2 DEF ConnectionData
<1>5. ASSUME NEW k \in Connections
      PROVE  /\ DOMAIN subscriptions'[k] \subseteq Channels
             /\ \A channel \in DOMAIN subscriptions'[k] :
                  subscriptions'[k][channel] \in Nat \ {0}
             /\ \/ request'[k] = NoRequest
                \/ request'[k] \in [channel : Channels, from_seq : FromSeqs]
             /\ delivered'[k] \subseteq Envelopes
  BY <1>3 DEF FeedTypes, FeedTypeOK, ConnectionTypes
<1>6. FeedTypeOK'
  BY <1>2, <1>5 DEF FeedTypes, FeedTypeOK, handler_vars
<1> QED BY <1>1, <1>4, <1>6 DEF FeedTypes

(* The types of a connection before a step of it.                          *)
LEMMA TypesOfOne ==
  ASSUME FeedTypes, NEW c \in Connections
  PROVE  ConnectionTypes(c)
BY DEF FeedTypes, FeedTypeOK, ConnectionData, ConnectionTypes

(* A channel is promised from a sequence id on, never from none.           *)
LEMMA PromiseTypes ==
  ASSUME FeedTypes, NEW c \in Connections, NEW channel \in Channels, NEW first \in Nat \ {0},
         Promise(c, channel, first)
  PROVE  /\ DOMAIN subscriptions'[c] = DOMAIN subscriptions[c] \cup {channel}
         /\ \A ch \in DOMAIN subscriptions'[c] : subscriptions'[c][ch] \in Nat \ {0}
         /\ \A ch \in DOMAIN subscriptions[c] : subscriptions'[c][ch] <= subscriptions[c][ch]
         /\ \A ch \in DOMAIN subscriptions[c] \ {channel} :
              subscriptions'[c][ch] = subscriptions[c][ch]
         /\ subscriptions'[c][channel] <= first
         /\ \/ subscriptions'[c][channel] = first
            \/ /\ channel \in DOMAIN subscriptions[c]
               /\ subscriptions'[c][channel] = subscriptions[c][channel]
         /\ subscriptions' = [subscriptions EXCEPT ![c] = subscriptions'[c]]
         /\ \A k \in Connections : k # c => subscriptions'[k] = subscriptions[k]
<1> PICK old : old = subscriptions[c]
  OBVIOUS
<1> PICK from : from = IF channel \in DOMAIN old /\ old[channel] < first THEN old[channel] ELSE first
  OBVIOUS
<1> PICK new : new = [ch \in DOMAIN old \cup {channel} |->
                    IF ch = channel THEN from ELSE old[ch]]
  OBVIOUS
<1>1. \A ch \in DOMAIN old : old[ch] \in Nat \ {0}
  BY DEF FeedTypes, FeedTypeOK
<1>2. subscriptions' = [subscriptions EXCEPT ![c] = new] /\ subscriptions'[c] = new
  <2>1. subscriptions' = [subscriptions EXCEPT ![c] = new]
    BY Zenon DEF Promise
  <2> QED BY <2>1 DEF FeedTypes, ConnectionData
<1>3. /\ DOMAIN new = DOMAIN old \cup {channel} /\ new[channel] = from
      /\ \A ch \in DOMAIN old \ {channel} : new[ch] = old[ch]
  OBVIOUS
<1>4. /\ from \in Nat \ {0} /\ from <= first
      /\ channel \in DOMAIN old => from <= old[channel]
      /\ from = first \/ (channel \in DOMAIN old /\ from = old[channel])
  BY <1>1
<1>5. \A ch \in DOMAIN new : new[ch] \in Nat \ {0}
  BY <1>1, <1>3, <1>4
<1>6. \A ch \in DOMAIN old : new[ch] <= old[ch]
  <2> SUFFICES ASSUME NEW ch \in DOMAIN old PROVE new[ch] <= old[ch]
    OBVIOUS
  <2>1. CASE ch = channel
    BY <1>3, <1>4, <2>1
  <2>2. CASE ch # channel
    BY <1>1, <1>3, <2>2
  <2> QED BY <2>1, <2>2
<1>7. \A k \in Connections : k # c => subscriptions'[k] = subscriptions[k]
  BY <1>2 DEF FeedTypes, ConnectionData
<1> QED BY <1>2, <1>3, <1>4, <1>5, <1>6, <1>7

(* A receiver begins at the end of the channel.                            *)
LEMMA ConnectTypes ==
  ASSUME FeedTypes, NEW c \in Connections, Connect(c)
  PROVE  FeedTypes'
<1>1. ConnectionTypes(c) /\ Len(events) \in 0..Len(events) /\ UNCHANGED handler_vars
  BY TypesOfOne DEF FeedTypes, FeedTypeOK, Connect
<1>2. Others(c)
  BY DEF FeedTypes, FeedTypeOK, ConnectionData, Connect, Others
<1>3. ConnectionTypes(c)'
  BY <1>1 DEF FeedTypes, FeedTypeOK, Connect, ConnectionTypes, handler_vars, tail
<1> QED BY <1>1, <1>2, <1>3, OneConnection

(* A connection that ends forgets everything.                              *)
LEMMA DisconnectTypes ==
  ASSUME FeedTypes, NEW c \in Connections, Disconnect(c)
  PROVE  /\ FeedTypes'
         /\ UNCHANGED handler_vars
         /\ \A k \in Connections : k # c =>
              /\ subscriptions'[k] = subscriptions[k] /\ delivered'[k] = delivered[k]
              /\ position'[k] = position[k] /\ status'[k] = status[k]
              /\ request'[k] = request[k] /\ history'[k] = history[k]
         /\ subscriptions'[c] = << >> /\ status'[c] = "closed"
<1>1. ConnectionTypes(c) /\ 0 \in 0..Len(events) /\ UNCHANGED handler_vars /\ DOMAIN << >> = {}
  BY TypesOfOne DEF FeedTypes, FeedTypeOK, Disconnect
<1>2. Others(c)
  BY DEF FeedTypes, FeedTypeOK, ConnectionData, Disconnect, Others
<1>3. /\ subscriptions'[c] = << >> /\ request'[c] = NoRequest /\ delivered'[c] = {}
      /\ status'[c] = "closed" /\ position'[c] = 0 /\ history'[c] = << >>
      /\ requests' = requests
  BY DEF FeedTypes, FeedTypeOK, ConnectionData, Disconnect
<1>4. ConnectionTypes(c)'
  BY <1>1, <1>3 DEF ConnectionTypes, handler_vars
<1>5. \A k \in Connections : k # c =>
        /\ subscriptions'[k] = subscriptions[k] /\ delivered'[k] = delivered[k]
        /\ position'[k] = position[k] /\ status'[k] = status[k]
        /\ request'[k] = request[k] /\ history'[k] = history[k]
  BY DEF FeedTypes, FeedTypeOK, ConnectionData, Disconnect
<1> QED BY <1>1, <1>2, <1>3, <1>4, <1>5, OneConnection

(* A channel without history is promised from an id on.                    *)
LEMMA SubscribeLiveTypes ==
  ASSUME FeedTypes, NEW c \in Connections, NEW channel \in Channels, SubscribeLive(c, channel)
  PROVE  FeedTypes'
<1>1. /\ ConnectionTypes(c) /\ Len(log) + 1 \in Nat \ {0} /\ UNCHANGED handler_vars
      /\ MaxRequests \in Nat
  <2>1. ConnectionTypes(c) /\ MaxRequests \in Nat
    BY TypesOfOne, FeedAssumption
  <2>2. log \in Seq(LogEvents)
    BY DEF FeedTypes, HandlerData
  <2>3. Len(log) + 1 \in Nat \ {0}
    BY ONLY <2>2
  <2> QED BY <2>1, <2>3 DEF SubscribeLive
<1>2. Promise(c, channel, Len(log) + 1)
  BY DEF SubscribeLive
<1>3. /\ DOMAIN subscriptions'[c] \subseteq Channels
      /\ \A ch \in DOMAIN subscriptions'[c] : subscriptions'[c][ch] \in Nat \ {0}
      /\ subscriptions' = [subscriptions EXCEPT ![c] = subscriptions'[c]]
  BY <1>1, <1>2, PromiseTypes DEF ConnectionTypes
<1>4. Others(c)
  BY <1>3 DEF FeedTypes, FeedTypeOK, ConnectionData, SubscribeLive, Request, Others
<1>5. requests'[c] \in 0..MaxRequests
  BY <1>1 DEF FeedTypes, FeedTypeOK, SubscribeLive, Request
<1>6. ConnectionTypes(c)'
  BY <1>1, <1>3, <1>5 DEF SubscribeLive, Request, ConnectionTypes, handler_vars
<1> QED BY <1>1, <1>4, <1>6, OneConnection

(* Fewer channels are channels.                                            *)
LEMMA UnsubscribeTypes ==
  ASSUME FeedTypes, NEW c \in Connections, NEW channel \in Channels, Unsubscribe(c, channel)
  PROVE  FeedTypes'
<1>1. ConnectionTypes(c) /\ UNCHANGED handler_vars /\ MaxRequests \in Nat
  BY TypesOfOne, FeedAssumption DEF Unsubscribe
<1>2. Others(c)
  BY DEF FeedTypes, FeedTypeOK, ConnectionData, Unsubscribe, Request, Others
<1>3. requests'[c] \in 0..MaxRequests
  BY <1>1 DEF FeedTypes, FeedTypeOK, Unsubscribe, Request
<1>4. subscriptions'[c] = [ch \in DOMAIN subscriptions[c] \ {channel} |-> subscriptions[c][ch]]
  BY DEF FeedTypes, ConnectionData, Unsubscribe
<1>5. ConnectionTypes(c)'
  BY <1>1, <1>3, <1>4 DEF Unsubscribe, Request, ConnectionTypes, handler_vars
<1> QED BY <1>1, <1>2, <1>5, OneConnection

(* A history consists of envelopes.                                        *)
LEMMA SubscribeFromTypes ==
  ASSUME FeedTypes, NEW c \in Connections, NEW channel \in Channels,
         NEW from_seq \in FromSeqs \ {0}, SubscribeFrom(c, channel, from_seq)
  PROVE  FeedTypes'
<1>1. ConnectionTypes(c) /\ UNCHANGED handler_vars /\ MaxRequests \in Nat
  BY TypesOfOne, FeedAssumption DEF SubscribeFrom
<1> PICK envelopes : envelopes = EnvelopesOf({i \in DOMAIN log : in_history(i, from_seq)})
  OBVIOUS
<1>2. OnChannel(envelopes, channel) \in Seq(Envelopes)
  BY EnvelopesElements, OnChannelElements DEF FeedTypes, HandlerData
<1>3. history' = [history EXCEPT ![c] = OnChannel(envelopes, channel)]
  BY Zenon DEF SubscribeFrom
<1>4. Others(c)
  BY <1>3 DEF FeedTypes, FeedTypeOK, ConnectionData, SubscribeFrom, Request, Others
<1>5. /\ requests'[c] \in 0..MaxRequests
      /\ history'[c] \in Seq(Envelopes)
      /\ status'[c] = "replaying"
      /\ request'[c] \in [channel : Channels, from_seq : FromSeqs \ {0}]
  BY <1>1, <1>2, <1>3 DEF FeedTypes, FeedTypeOK, ConnectionData, SubscribeFrom, Request
<1>6. request'[c] \in [channel : Channels, from_seq : FromSeqs]
  BY <1>5
<1>7. ConnectionTypes(c)'
  BY <1>1, <1>5, <1>6 DEF SubscribeFrom, Request, ConnectionTypes, handler_vars
<1> QED BY <1>1, <1>4, <1>7, OneConnection

(* What goes out of a history is an envelope.                              *)
LEMMA SendHistoryTypes ==
  ASSUME FeedTypes, NEW c \in Connections, SendHistory(c)
  PROVE  FeedTypes'
<1>1. ConnectionTypes(c) /\ UNCHANGED handler_vars
  BY TypesOfOne DEF SendHistory
<1>2. history[c] \in Seq(Envelopes) /\ history[c] # << >>
  BY <1>1 DEF ConnectionTypes, SendHistory
<1>3. Head(history[c]) \in Envelopes /\ Tail(history[c]) \in Seq(Envelopes)
  BY <1>2, HeadTailElements
<1>4. Others(c)
  BY DEF FeedTypes, FeedTypeOK, ConnectionData, SendHistory, Others
<1>5. /\ delivered'[c] = delivered[c] \cup {Head(history[c])}
      /\ history'[c] = Tail(history[c])
  BY DEF FeedTypes, FeedTypeOK, ConnectionData, SendHistory
<1>6. ConnectionTypes(c)'
  BY <1>1, <1>3, <1>5 DEF SendHistory, ConnectionTypes, handler_vars
<1> QED BY <1>1, <1>4, <1>6, OneConnection

(* The request becomes a promise.                                          *)
LEMMA GoLiveTypes ==
  ASSUME FeedTypes, NEW c \in Connections, GoLive(c)
  PROVE  FeedTypes'
<1>1. ConnectionTypes(c) /\ UNCHANGED handler_vars
  BY TypesOfOne DEF GoLive
<1>2. request[c].channel \in Channels /\ request[c].from_seq \in Nat \ {0}
  BY <1>1, FeedAssumption DEF ConnectionTypes, GoLive
<1>3. /\ DOMAIN subscriptions'[c] \subseteq Channels
      /\ \A ch \in DOMAIN subscriptions'[c] : subscriptions'[c][ch] \in Nat \ {0}
      /\ subscriptions' = [subscriptions EXCEPT ![c] = subscriptions'[c]]
  BY <1>1, <1>2, PromiseTypes DEF ConnectionTypes, GoLive
<1>4. Others(c)
  BY <1>3 DEF FeedTypes, FeedTypeOK, ConnectionData, GoLive, Others
<1>5. request'[c] = NoRequest /\ status'[c] = "open"
  BY DEF FeedTypes, FeedTypeOK, ConnectionData, GoLive
<1>6. ConnectionTypes(c)'
  BY <1>1, <1>3, <1>5 DEF GoLive, ConnectionTypes, handler_vars
<1> QED BY <1>1, <1>4, <1>6, OneConnection

(* A receiver takes an envelope that is there.                             *)
LEMMA ReceiveTypes ==
  ASSUME FeedTypes, NEW c \in Connections, Receive(c)
  PROVE  /\ FeedTypes'
         /\ position[c] + 1 \in DOMAIN events
         /\ position'[c] = position[c] + 1
<1>1. ConnectionTypes(c) /\ UNCHANGED handler_vars
  BY TypesOfOne DEF Receive
<1> PICK next : next = position[c] + 1
  OBVIOUS
<1> PICK env : env = events[next]
  OBVIOUS
<1>2. next \in 1..Len(events) /\ next \in 0..Len(events) /\ env \in Envelopes
  <2>1. events \in Seq(Envelopes) /\ position[c] \in 0..Len(events)
    BY <1>1 DEF FeedTypes, FeedTypeOK, ConnectionTypes
  <2>2. Len(events) - position[c] \in 1..BROADCAST_CAPACITY
    BY DEF Receive, Behind
  <2> QED BY <2>1, <2>2, FeedAssumption
<1>3. /\ position' = [position EXCEPT ![c] = next]
      /\ delivered' = [delivered EXCEPT ![c] =
           IF env.channel \in DOMAIN subscriptions[c] THEN delivered[c] \cup {env} ELSE delivered[c]]
  BY DEF Receive, Take
<1>4. Others(c)
  BY <1>3 DEF FeedTypes, FeedTypeOK, ConnectionData, Receive, Others
<1>5. position'[c] = next /\ delivered'[c] \subseteq Envelopes
  BY <1>1, <1>2, <1>3 DEF FeedTypes, FeedTypeOK, ConnectionData
<1>6. ConnectionTypes(c)'
  BY <1>1, <1>2, <1>5 DEF Receive, ConnectionTypes, handler_vars
<1>7. DOMAIN events = 1..Len(events)
  BY DEF FeedTypes, FeedTypeOK
<1> QED BY <1>1, <1>2, <1>4, <1>5, <1>6, <1>7, OneConnection
(* Every variable keeps its type in every step.                            *)
LEMMA StepFeedTypes ==
  ASSUME FeedTypes, [FeedNext]_feed_vars
  PROVE  FeedTypes'
<1>1. ASSUME NEW h \in Handlers, HandlerStep(h) PROVE FeedTypes'
  BY <1>1, BeginCallTypes, EndCallTypes, PanicCallTypes, UpdateReferenceTypes, DroppedTypes,
     PublishTypes, PublishSkippedTypes, SendTypes DEF HandlerStep, HandlerGoesOn
<1>2. ASSUME Lock \/ Unlock PROVE FeedTypes'
  BY <1>2, LockTypes
<1>3. ASSUME NEW c \in Connections, ClientStep(c) PROVE FeedTypes'
  BY <1>3, ConnectTypes, DisconnectTypes, SubscribeLiveTypes, UnsubscribeTypes,
     SubscribeFromTypes DEF ClientStep, Close
<1>4. ASSUME NEW c \in Connections, ConnectionStep(c) PROVE FeedTypes'
  BY <1>4, SendHistoryTypes, GoLiveTypes, ReceiveTypes, DisconnectTypes DEF ConnectionStep, Lag
<1>5. CASE UNCHANGED feed_vars
  <2>1. Len(events) \in Nat /\ events' = events /\ UNCHANGED socket_vars
    BY <1>5 DEF FeedTypes, FeedTypeOK, feed_vars, handler_vars
  <2>2. HandlerData'
    BY <1>5 DEF FeedTypes, HandlerData, feed_vars, handler_vars
  <2> QED BY <1>5, <2>1, <2>2, SocketsKept DEF FeedTypes, FeedTypeOK, feed_vars, handler_vars
<1> QED BY <1>1, <1>2, <1>3, <1>4, <1>5 DEF FeedNext

(* The types hold in every reachable state.                                *)
THEOREM SpecFeedTypes == FeedSpec => []FeedTypes
<1>1. FeedInit => FeedTypes
  BY InitFeedTypes
<1>2. FeedTypes /\ [FeedNext]_feed_vars => FeedTypes'
  BY StepFeedTypes
<1> QED BY <1>1, <1>2, PTL DEF FeedSpec

(* The types of module Feed hold in every reachable state.                 *)
THEOREM SpecFeedTypeOK == FeedSpec => []FeedTypeOK
<1>1. FeedTypes => FeedTypeOK
  BY DEF FeedTypes
<1> QED BY <1>1, SpecFeedTypes, PTL

-----------------------------------------------------------------------------
(* The invariant *)

\* The client has it, or will get it unless it was given up.
Coming(c, env) ==
  env \in delivered[c] \/ Queued(c, env) \/ InFlight(env) \/ GivenUp(env)

\* The connection is sending a history that the envelope belongs to.
Asked(c, env) ==
  /\ status[c] = "replaying"
  /\ env.channel = request[c].channel /\ env.sequence_id >= request[c].from_seq

Served(c, env) ==
  /\ Promised(c, env) => Coming(c, env)
  /\ Asked(c, env) => env \in ToSet(history[c]) \/ Coming(c, env)

(* SubscriberMissesNothing is silent while a history goes out, because the *)
(* channel is added only at the end of it.  By then every event that was   *)
(* logged since the copy must be on its way all the same: the receiver has *)
(* been there since the connection opened.                                 *)
FeedInv ==
  /\ PublishedOrMissed
  /\ \A c \in Connections, env \in Logged : Served(c, env)

(* What is logged are the envelopes of the log's events, each under its    *)
(* place.                                                                  *)
LEMMA LoggedElements ==
  ASSUME log \in Seq(LogEvents)
  PROVE  /\ \A env : env \in Logged <=> \E i \in DOMAIN log : EnvelopeAt(i, env)
         /\ \A i \in DOMAIN log : \A env :
              EnvelopeAt(i, env) => env \in Envelopes /\ env.sequence_id = i
<1>1. \A env : env \in Logged <=> \E i \in DOMAIN log : EnvelopeAt(i, env)
  BY EnvelopesElements DEF Logged
<1>2. ASSUME NEW i \in DOMAIN log, NEW env, EnvelopeAt(i, env)
      PROVE  env \in Envelopes /\ env.sequence_id = i
  <2>1. i \in Nat \ {0} /\ log[i] \in LogEvents
    OBVIOUS
  <2> PICK envs : envs = from_sequenced(i, log[i])
    OBVIOUS
  <2>2. envs \in Seq(Envelopes) /\ env \in ToSet(envs) /\ env.sequence_id = i
    BY <1>2, <2>1, FromSequenced DEF EnvelopeAt
  <2> QED BY <2>2 DEF ToSet
<1> QED BY <1>1, <1>2

LoggedShape ==
  /\ \A env : env \in Logged <=> \E i \in DOMAIN log : EnvelopeAt(i, env)
  /\ \A i \in DOMAIN log : \A env : EnvelopeAt(i, env) => env.sequence_id = i

(* The same in a form that holds of the next state too.                    *)
LEMMA LoggedAlways == log \in Seq(LogEvents) => LoggedShape
BY LoggedElements DEF LoggedShape

(* A queued envelope stays queued when others are sent behind it.          *)
LEMMA SentBehind ==
  ASSUME FeedTypes, NEW sent \in Envelopes, events' = Append(events, sent),
         position' = position, NEW c \in Connections, NEW env
  PROVE  /\ Queued(c, env) => Queued(c, env)'
         /\ env = sent => Queued(c, env)'
         /\ env \in ToSet(events) => env \in ToSet(events')
         /\ env = sent => env \in ToSet(events')
<1> PICK longer : longer = Append(events, sent)
  OBVIOUS
<1>1. /\ Len(events) \in Nat /\ DOMAIN events = 1..Len(events)
      /\ DOMAIN longer = 1..Len(events) + 1
      /\ longer[Len(events) + 1] = sent /\ \A i \in 1..Len(events) : longer[i] = events[i]
  BY DEF FeedTypes, FeedTypeOK
<1>2. position[c] \in 0..Len(events)
  BY DEF FeedTypes, FeedTypeOK
<1>3. Queued(c, env)' <=> \E i \in DOMAIN longer : i > position[c] /\ longer[i] = env
  BY DEF Queued
<1>4. Len(events) + 1 \in DOMAIN longer /\ Len(events) + 1 > position[c]
  BY <1>1, <1>2
<1>5. Queued(c, env) => Queued(c, env)'
  BY <1>1, <1>3 DEF Queued
<1>6. env = sent => Queued(c, env)'
  BY <1>1, <1>3, <1>4
<1>7. /\ env \in ToSet(events) => env \in ToSet(longer)
      /\ env = sent => env \in ToSet(longer)
  BY AppendElements DEF FeedTypes, FeedTypeOK
<1> QED BY <1>5, <1>6, <1>7

\* What a handler's step makes of an envelope on its way.
Onward(env) ==
  InFlight(env) => InFlight(env)' \/ GivenUp(env)' \/ events' = Append(events, env)

(* The steps of the handlers: what is logged stays logged, what is on its  *)
(* way stays so, is sent or is given up, and what is new is on its way or  *)
(* given up.                                                               *)
LEMMA HandlerInv ==
  ASSUME FeedTypes, FeedInv, UNCHANGED socket_vars,
         \A env \in Logged : Onward(env),
         \A env \in Logged' : env \in Logged \/ InFlight(env)' \/ GivenUp(env)',
         missed \subseteq missed', abandoned \subseteq abandoned',
         events' = events \/ \E sent \in Envelopes : events' = Append(events, sent)
  PROVE  FeedInv'
<1>0. \A env : GivenUp(env) => GivenUp(env)'
  BY DEF GivenUp
<1>1. ASSUME NEW c \in Connections, NEW env \in Logged, Coming(c, env)
      PROVE  Coming(c, env)'
  <2>0. position' = position /\ delivered' = delivered
    BY DEF socket_vars
  <2>1. CASE env \in delivered[c] \/ GivenUp(env)
    BY <1>0, <2>0, <2>1 DEF Coming
  <2>2. CASE Queued(c, env)
    <3>1. CASE events' = events
      BY <2>0, <2>2, <3>1 DEF Coming, Queued
    <3>2. CASE events' # events
      BY <2>0, <2>2, <3>2, SentBehind DEF Coming
    <3> QED BY <3>1, <3>2
  <2>3. CASE InFlight(env)
    <3>1. CASE events' = Append(events, env)
      <4>1. env \in Envelopes
        BY LoggedElements DEF FeedTypes, HandlerData
      <4> QED BY <2>0, <3>1, <4>1, SentBehind DEF Coming
    <3>2. CASE InFlight(env)' \/ GivenUp(env)'
      BY <3>2 DEF Coming
    <3> QED BY <2>3, <3>1, <3>2 DEF Onward
  <2> QED BY <1>1, <2>1, <2>2, <2>3 DEF Coming
<1>2. ASSUME NEW c \in Connections, NEW env \in Logged'
      PROVE  Served(c, env)'
  <2>1. CASE env \in Logged
    <3>1. Served(c, env)
      BY <2>1 DEF FeedInv
    <3>2. (Promised(c, env)' => Promised(c, env)) /\ (Asked(c, env)' => Asked(c, env))
      BY DEF Promised, Asked, socket_vars
    <3>3. history' = history
      BY DEF socket_vars
    <3> QED BY <1>1, <2>1, <3>1, <3>2, <3>3 DEF Served
  <2>2. CASE env \notin Logged
    BY <2>2 DEF Served, Coming
  <2> QED BY <2>1, <2>2
<1>3. PublishedOrMissed'
  <2> SUFFICES ASSUME NEW env \in Logged', env.sequence_id > Len(Restored)
               PROVE  env \in ToSet(events') \/ InFlight(env)' \/ GivenUp(env)'
    BY DEF PublishedOrMissed, New
  <2>1. CASE env \in Logged
    <3>1. env \in ToSet(events) \/ InFlight(env) \/ GivenUp(env)
      BY <2>1 DEF FeedInv, PublishedOrMissed, New
    <3>2. env \in Envelopes /\ events \in Seq(Envelopes)
      BY <2>1, LoggedElements DEF FeedTypes, FeedTypeOK, HandlerData
    <3>3. env \in ToSet(events) => env \in ToSet(events')
      BY <3>2, AppendElements
    <3>4. events' = Append(events, env) => env \in ToSet(events')
      BY <3>2, AppendElements
    <3>5. Onward(env)
      BY <2>1
    <3> QED BY <1>0, <3>1, <3>3, <3>4, <3>5 DEF Onward
  <2>2. CASE env \notin Logged
    BY <2>2
  <2> QED BY <2>1, <2>2
<1> QED BY <1>2, <1>3 DEF FeedInv
-----------------------------------------------------------------------------
(* The handlers' steps *)

(* A step that leaves the log alone leaves what is logged alone.           *)
LEMMA LoggedKept ==
  ASSUME log' = log
  PROVE  Logged' = Logged
BY DEF Logged, EnvelopesOf

(* A call that begins changes nothing about any envelope.                  *)
LEMMA BeginCallInv ==
  ASSUME FeedTypes, FeedInv, NEW h \in Handlers, BeginCall(h)
  PROVE  FeedInv'
<1>1. /\ log' = log /\ missed' = missed /\ abandoned' = abandoned
      /\ events' = events /\ to_send' = to_send /\ UNCHANGED socket_vars
  BY DEF BeginCall
<1>2. ASSUME NEW k \in Handlers, pc[k] \in {"updating", "publishing"}
      PROVE  pc'[k] = pc[k] /\ seq_before'[k] = seq_before[k]
  BY <1>2 DEF FeedTypes, FeedTypeOK, BeginCall, GoTo
<1>3. \A env \in Logged : Onward(env)
  BY <1>1, <1>2 DEF Onward, InFlight
<1>4. Logged' = Logged
  BY <1>1, LoggedKept
<1> QED BY <1>1, <1>3, <1>4, HandlerInv

(* What a call appends are envelopes behind the end that the log had.      *)
LEMMA AppendedElements ==
  ASSUME FeedTypes, begun \in 1..Len(Calls), AppendEvents, NEW env \in Logged', env \notin Logged
  PROVE  /\ env.sequence_id \in Len(log) + 1 .. Len(log')
         /\ env.sequence_id > Len(log)
<1>1. /\ log \in Seq(LogEvents) /\ log' \in Seq(LogEvents)
      /\ Len(log) \in Nat /\ Len(log') \in Nat
      /\ \A i \in DOMAIN log : i \in DOMAIN log' /\ log'[i] = log[i]
  BY AppendTypes
<1>2. PICK i \in DOMAIN log' : EnvelopeAt(i, env)' /\ env.sequence_id = i
  <2>1. /\ \A e : e \in Logged' <=> \E i \in DOMAIN log' : EnvelopeAt(i, e)'
        /\ \A i \in DOMAIN log' : \A e : EnvelopeAt(i, e)' => e.sequence_id = i
    <3>1. (log \in Seq(LogEvents))' => LoggedShape'
      BY LoggedAlways, PTL
    <3> QED BY <1>1, <3>1 DEF LoggedShape
  <2> QED BY <2>1
<1>3. i \notin DOMAIN log
  <2>1. SUFFICES ASSUME i \in DOMAIN log PROVE FALSE
    OBVIOUS
  <2>2. EnvelopeAt(i, env)
    BY <1>1, <1>2, <2>1 DEF EnvelopeAt
  <2> QED BY <1>1, <2>1, <2>2, LoggedElements
<1>4. i \in 1..Len(log') /\ i \notin 1..Len(log)
  BY <1>1, <1>2, <1>3
<1> QED BY <1>1, <1>2, <1>4

(* What a call appends is behind the cursor of its handler.                *)
LEMMA EndCallInv ==
  ASSUME FeedTypes, FeedInv, NEW h \in Handlers, EndCall(h)
  PROVE  FeedInv'
<1>1. /\ missed' = missed /\ abandoned' = abandoned /\ events' = events
      /\ to_send' = to_send /\ seq_before' = seq_before /\ UNCHANGED socket_vars
  BY DEF EndCall
<1> PICK to : to \in {"updating", "publishing"} /\ GoTo(h, "calling", to)
  BY DEF EndCall
<1>2. ASSUME NEW k \in Handlers, pc[k] \in {"updating", "publishing"}
      PROVE  pc'[k] = pc[k]
  BY <1>2 DEF FeedTypes, FeedTypeOK, GoTo
<1>3. \A env \in Logged : Onward(env)
  BY <1>1, <1>2 DEF Onward, InFlight
<1>4. pc'[h] \in {"updating", "publishing"} /\ seq_before'[h] = Len(log)
  BY <1>1 DEF FeedTypes, FeedTypeOK, HandlerData, GoTo
<1>5. begun \in 1..Len(Calls) /\ AppendEvents
  BY DEF FeedTypes, HandlerData, EndCall, GoTo
<1>6. ASSUME NEW env \in Logged', env \notin Logged
      PROVE  InFlight(env)'
  BY <1>4, <1>5, <1>6, AppendedElements DEF InFlight
<1> QED BY <1>1, <1>3, <1>6, HandlerInv

(* Abandoning gives up every event behind the cursor.                      *)
LEMMA AbandonInv ==
  ASSUME FeedTypes, FeedInv, NEW h \in Handlers, NEW last, Abandon(h, last),
         pc[h] \in {"calling", "updating"}, Len(log) <= last, last \in Nat,
         \A env \in Logged' : env \in Logged \/ GivenUp(env)'
  PROVE  FeedInv'
<1>1. /\ events' = events /\ to_send' = to_send /\ missed' = missed
      /\ abandoned' = abandoned \cup (seq_before[h] + 1 .. last) /\ UNCHANGED socket_vars
  BY DEF Abandon
<1>2. \A k \in Handlers \ {h} : pc'[k] = pc[k] /\ seq_before'[k] = seq_before[k]
  BY DEF FeedTypes, FeedTypeOK, Abandon
<1>3. ASSUME NEW env \in Logged, env.sequence_id > seq_before[h]
      PROVE  GivenUp(env)'
  <2>1. log \in Seq(LogEvents) /\ seq_before[h] \in Nat
    BY DEF FeedTypes, FeedTypeOK, HandlerData
  <2>2. PICK i \in DOMAIN log : env.sequence_id = i
    BY <2>1, LoggedElements
  <2>3. i \in seq_before[h] + 1 .. last
    BY <1>3, <2>1, <2>2
  <2> QED BY <1>1, <2>2, <2>3 DEF GivenUp
<1>4. \A env \in Logged : Onward(env)
  BY <1>1, <1>2, <1>3 DEF Onward, InFlight
<1> QED BY <1>1, <1>4, HandlerInv

(* A panic gives up the acceptance that the call has appended.             *)
LEMMA PanicCallInv ==
  ASSUME FeedTypes, FeedInv, NEW h \in Handlers, PanicCall(h)
  PROVE  FeedInv'
<1>1. pc[h] = "calling" /\ Abandon(h, Len(log) + 1) /\ AppendEvents
  BY DEF PanicCall
<1>2. /\ seq_before[h] = Len(log) /\ begun \in 1..Len(Calls)
      /\ Len(log) \in Nat /\ Len(log') = Len(log) + 1
  BY <1>1, PanicCallTypes DEF FeedTypes, HandlerData
<1>3. ASSUME NEW env \in Logged', env \notin Logged
      PROVE  GivenUp(env)'
  BY <1>1, <1>2, <1>3, AppendedElements DEF Abandon, GivenUp
<1>4. Len(log) <= Len(log) + 1 /\ Len(log) + 1 \in Nat
  BY <1>2
<1> QED BY <1>1, <1>3, <1>4, AbandonInv

(* A handler that is dropped gives up every event behind its cursor.       *)
LEMMA DroppedInv ==
  ASSUME FeedTypes, FeedInv, NEW h \in Handlers, Dropped(h)
  PROVE  FeedInv'
<1>1. pc[h] = "updating" /\ Abandon(h, Len(log)) /\ log' = log
  BY DEF Dropped
<1>2. Len(log) \in Nat /\ Len(log) <= Len(log)
  BY DEF FeedTypes, HandlerData
<1>3. Logged' = Logged
  BY <1>1, LoggedKept
<1> QED BY <1>1, <1>2, <1>3, AbandonInv

(* While the prices are updated the events wait for their handler.         *)
LEMMA UpdateReferenceInv ==
  ASSUME FeedTypes, FeedInv, NEW h \in Handlers, UpdateReference(h)
  PROVE  FeedInv'
<1>1. /\ log' = log /\ missed' = missed /\ abandoned' = abandoned
      /\ events' = events /\ to_send' = to_send /\ seq_before' = seq_before
      /\ UNCHANGED socket_vars
  BY DEF UpdateReference
<1>2. ASSUME NEW k \in Handlers, pc[k] \in {"updating", "publishing"}
      PROVE  pc'[k] \in {"updating", "publishing"}
  BY <1>2 DEF FeedTypes, FeedTypeOK, UpdateReference, GoTo
<1>3. \A env \in Logged : Onward(env)
  BY <1>1, <1>2 DEF Onward, InFlight
<1>4. Logged' = Logged
  BY <1>1, LoggedKept
<1> QED BY <1>1, <1>3, <1>4, HandlerInv

(* Others may take the mutex; it changes nothing about any envelope.       *)
LEMMA LockInv ==
  ASSUME FeedTypes, FeedInv, Lock \/ Unlock
  PROVE  FeedInv'
<1>1. /\ log' = log /\ missed' = missed /\ abandoned' = abandoned
      /\ events' = events /\ to_send' = to_send
      /\ pc' = pc /\ seq_before' = seq_before /\ UNCHANGED socket_vars
  BY DEF Lock, Unlock
<1>2. \A env \in Logged : Onward(env)
  BY <1>1 DEF Onward, InFlight
<1>3. Logged' = Logged
  BY <1>1, LoggedKept
<1> QED BY <1>1, <1>2, <1>3, HandlerInv

(* Publishing builds the envelope of every event behind the cursor.        *)
LEMMA PublishInv ==
  ASSUME FeedTypes, FeedInv, NEW h \in Handlers, Publish(h)
  PROVE  FeedInv'
<1>1. /\ log' = log /\ missed' = missed /\ abandoned' = abandoned /\ events' = events
      /\ UNCHANGED socket_vars
  BY DEF Publish
<1> PICK envelopes : envelopes = EnvelopesOf(seq_before[h] + 1 .. Len(log))
  OBVIOUS
<1>2. /\ to_send'[h] = envelopes /\ pc[h] = "publishing" /\ to_send[h] = << >>
      /\ \A k \in Handlers \ {h} : /\ to_send'[k] = to_send[k] /\ pc'[k] = pc[k]
                                   /\ seq_before'[k] = seq_before[k]
  BY DEF FeedTypes, FeedTypeOK, HandlerData, Publish, GoTo
<1>3. ASSUME NEW env \in Logged, env.sequence_id > seq_before[h]
      PROVE  env \in ToSet(envelopes)
  <2>1. log \in Seq(LogEvents) /\ seq_before[h] \in Nat
    BY DEF FeedTypes, FeedTypeOK, HandlerData
  <2>2. PICK i \in DOMAIN log : EnvelopeAt(i, env) /\ env.sequence_id = i
    BY <2>1, LoggedElements
  <2>3. i \in seq_before[h] + 1 .. Len(log)
    BY <1>3, <2>1, <2>2
  <2> QED BY <2>1, <2>2, <2>3, EnvelopesElements
<1>4. ASSUME NEW env \in Logged, InFlight(env)
      PROVE  InFlight(env)'
  <2>1. PICK k \in Handlers : \/ pc[k] \in {"updating", "publishing"} /\ env.sequence_id > seq_before[k]
                              \/ env \in ToSet(to_send[k])
    BY <1>4 DEF InFlight
  <2>2. CASE k # h
    BY <1>2, <2>1, <2>2 DEF InFlight
  <2>3. CASE k = h
    <3>1. env \notin ToSet(<< >>)
      BY DEF ToSet
    <3>2. env.sequence_id > seq_before[h]
      BY <1>2, <2>1, <2>3, <3>1
    <3> QED BY <1>2, <1>3, <3>2 DEF InFlight
  <2> QED BY <2>2, <2>3
<1>5. Logged' = Logged
  BY <1>1, LoggedKept
<1>6. \A env \in Logged : Onward(env)
  BY <1>4 DEF Onward
<1> QED BY <1>1, <1>5, <1>6, HandlerInv

(* A failed try_lock gives up every event behind the cursor.               *)
LEMMA PublishSkippedInv ==
  ASSUME FeedTypes, FeedInv, NEW h \in Handlers, PublishSkipped(h)
  PROVE  FeedInv'
<1>1. /\ log' = log /\ events' = events /\ to_send' = to_send /\ abandoned' = abandoned
      /\ missed' = missed \cup (seq_before[h] + 1 .. Len(log)) /\ UNCHANGED socket_vars
  BY DEF PublishSkipped
<1>2. \A k \in Handlers \ {h} : pc'[k] = pc[k] /\ seq_before'[k] = seq_before[k]
  BY DEF FeedTypes, FeedTypeOK, PublishSkipped, GoTo
<1>3. ASSUME NEW env \in Logged, env.sequence_id > seq_before[h]
      PROVE  GivenUp(env)'
  <2>1. log \in Seq(LogEvents) /\ seq_before[h] \in Nat
    BY DEF FeedTypes, FeedTypeOK, HandlerData
  <2>2. PICK i \in DOMAIN log : env.sequence_id = i
    BY <2>1, LoggedElements
  <2>3. i \in seq_before[h] + 1 .. Len(log)
    BY <1>3, <2>1, <2>2
  <2> QED BY <1>1, <2>2, <2>3 DEF GivenUp
<1>4. \A env \in Logged : Onward(env)
  BY <1>1, <1>2, <1>3 DEF Onward, InFlight
<1>5. Logged' = Logged
  BY <1>1, LoggedKept
<1> QED BY <1>1, <1>4, <1>5, HandlerInv

(* An envelope that leaves the handler is in the channel.                  *)
LEMMA SendInv ==
  ASSUME FeedTypes, FeedInv, NEW h \in Handlers, Send(h)
  PROVE  FeedInv'
<1>1. /\ log' = log /\ missed' = missed /\ abandoned' = abandoned
      /\ seq_before' = seq_before /\ UNCHANGED socket_vars
      /\ events' = Append(events, Head(to_send[h]))
  BY DEF Send
<1>2. /\ pc[h] = "sending" /\ to_send'[h] = Tail(to_send[h])
      /\ \A k \in Handlers \ {h} : pc'[k] = pc[k] /\ to_send'[k] = to_send[k]
  BY DEF FeedTypes, FeedTypeOK, Send, GoTo
<1>3. /\ Head(to_send[h]) \in Envelopes
      /\ \A x : x \in ToSet(to_send[h]) <=> x = Head(to_send[h]) \/ x \in ToSet(Tail(to_send[h]))
  <2>1. to_send[h] \in Seq(Envelopes) /\ to_send[h] # << >>
    BY <1>2 DEF FeedTypes, FeedTypeOK, HandlerData
  <2> QED BY <2>1, HeadTailElements
<1>4. \A env \in Logged : Onward(env)
  BY <1>1, <1>2, <1>3 DEF Onward, InFlight
<1>5. Logged' = Logged
  BY <1>1, LoggedKept
<1> QED BY <1>1, <1>3, <1>4, <1>5, HandlerInv
-----------------------------------------------------------------------------
(* The steps of a connection *)

(* A step of one connection has that connection's envelopes to serve.      *)
LEMMA ConnectionInv ==
  ASSUME FeedTypes, FeedInv, NEW c \in Connections, UNCHANGED handler_vars,
         \A k \in Connections : k # c =>
           /\ subscriptions'[k] = subscriptions[k] /\ delivered'[k] = delivered[k]
           /\ position'[k] = position[k] /\ status'[k] = status[k]
           /\ request'[k] = request[k] /\ history'[k] = history[k],
         \A env \in Logged : Served(c, env)'
  PROVE  FeedInv'
<1>1. Logged' = Logged /\ \A env : InFlight(env)' <=> InFlight(env)
  BY LoggedKept DEF handler_vars, InFlight
<1>2. PublishedOrMissed'
  BY <1>1 DEF FeedInv, PublishedOrMissed, New, GivenUp, handler_vars
<1>3. ASSUME NEW k \in Connections, NEW env \in Logged
      PROVE  Served(k, env)'
  <2>1. CASE k = c
    BY <2>1
  <2>2. CASE k # c
    <3>1. Served(k, env)
      BY DEF FeedInv
    <3>2. Queued(k, env)' <=> Queued(k, env)
      BY <2>2 DEF Queued, handler_vars
    <3> QED BY <1>1, <2>2, <3>1, <3>2 DEF Served, Promised, Asked, Coming, GivenUp, handler_vars
  <2> QED BY <2>1, <2>2
<1> QED BY <1>1, <1>2, <1>3 DEF FeedInv

(* A new receiver begins behind every envelope, and with no promise.       *)
LEMMA ConnectInv ==
  ASSUME FeedTypes, FeedInv, NEW c \in Connections, Connect(c)
  PROVE  FeedInv'
<1>1. UNCHANGED <<handler_vars, subscriptions, request, history, delivered>>
  BY DEF Connect
<1>2. \A k \in Connections : k # c => position'[k] = position[k] /\ status'[k] = status[k]
  BY DEF FeedTypes, FeedTypeOK, Connect
<1>3. status'[c] = "open" /\ DOMAIN subscriptions'[c] = {}
  BY DEF FeedTypes, FeedTypeOK, ConnectionData, Connect
<1>4. \A env \in Logged : Served(c, env)'
  BY <1>3 DEF Served, Promised, Asked
<1> QED BY <1>1, <1>2, <1>4, ConnectionInv

(* A connection that ends has nothing promised any more.                   *)
LEMMA DisconnectInv ==
  ASSUME FeedTypes, FeedInv, NEW c \in Connections, Disconnect(c)
  PROVE  FeedInv'
<1>1. DOMAIN subscriptions'[c] = {} /\ status'[c] = "closed"
  BY DisconnectTypes
<1>2. \A env \in Logged : Served(c, env)'
  BY <1>1 DEF Served, Promised, Asked
<1> QED BY <1>2, DisconnectTypes, ConnectionInv

(* What is on its way to a client stays so while the client asks for more. *)
LEMMA ComingKept ==
  ASSUME NEW c \in Connections, NEW env, Coming(c, env), UNCHANGED handler_vars,
         position'[c] = position[c], delivered[c] \subseteq delivered'[c]
  PROVE  Coming(c, env)'
BY DEF Coming, Queued, InFlight, GivenUp, handler_vars

(* A channel without history is promised from the next event on.           *)
LEMMA SubscribeLiveInv ==
  ASSUME FeedTypes, FeedInv, NEW c \in Connections, NEW channel \in Channels,
         SubscribeLive(c, channel)
  PROVE  FeedInv'
<1>1. /\ UNCHANGED <<handler_vars, status, position, request, history, delivered>>
      /\ Promise(c, channel, Len(log) + 1) /\ status[c] = "open"
  BY DEF SubscribeLive, Request
<1>2. log \in Seq(LogEvents) /\ Len(log) + 1 \in Nat \ {0}
  BY DEF FeedTypes, HandlerData
<1>3. \A k \in Connections : k # c => subscriptions'[k] = subscriptions[k]
  BY <1>1, <1>2, PromiseTypes
<1>4. ASSUME NEW env \in Logged, Promised(c, env)'
      PROVE  Promised(c, env)
  <2>1. env.sequence_id <= Len(log) /\ env.sequence_id \in Nat
    BY <1>2, LoggedElements
  <2>2. env.channel \in DOMAIN subscriptions'[c] /\ subscriptions'[c][env.channel] <= env.sequence_id
    BY <1>4 DEF Promised
  <2>3. subscriptions'[c][env.channel] # Len(log) + 1
    BY <1>2, <2>1, <2>2
  <2> QED BY <1>1, <1>2, <2>2, <2>3, PromiseTypes DEF Promised
<1>5. \A env \in Logged : Served(c, env)'
  BY <1>1, <1>4, ComingKept DEF FeedInv, Served, Asked
<1> QED BY <1>1, <1>3, <1>5, ConnectionInv

(* The history that is copied holds all that is asked for and logged.      *)
LEMMA SubscribeFromInv ==
  ASSUME FeedTypes, FeedInv, NEW c \in Connections, NEW channel \in Channels,
         NEW from_seq \in FromSeqs \ {0}, SubscribeFrom(c, channel, from_seq)
  PROVE  FeedInv'
<1>1. UNCHANGED <<handler_vars, position, subscriptions, delivered>>
  BY DEF SubscribeFrom
<1>2. /\ request'[c] = [channel |-> channel, from_seq |-> from_seq]
      /\ history'[c] = OnChannel(EnvelopesOf({i \in DOMAIN log : in_history(i, from_seq)}), channel)
      /\ \A k \in Connections : k # c =>
           status'[k] = status[k] /\ request'[k] = request[k] /\ history'[k] = history[k]
  BY DEF FeedTypes, FeedTypeOK, ConnectionData, SubscribeFrom
<1>3. log \in Seq(LogEvents)
  BY DEF FeedTypes, HandlerData
<1>4. ASSUME NEW env \in Logged, Asked(c, env)'
      PROVE  env \in ToSet(history'[c])
  <2>1. env.channel = channel /\ env.sequence_id >= from_seq
    BY <1>2, <1>4 DEF Asked
  <2>2. PICK i \in DOMAIN log : EnvelopeAt(i, env) /\ env.sequence_id = i
    BY <1>3, LoggedElements
  <2> PICK ids : ids = {j \in DOMAIN log : in_history(j, from_seq)}
    OBVIOUS
  <2>3. i \in DOMAIN log \cap ids
    BY <2>1, <2>2 DEF in_history
  <2>4. EnvelopesOf(ids) \in Seq(Envelopes) /\ env \in ToSet(EnvelopesOf(ids))
    BY <1>3, <2>2, <2>3, EnvelopesElements
  <2> QED BY <1>2, <2>1, <2>4, OnChannelElements
<1>5. ASSUME NEW env \in Logged PROVE Promised(c, env)' <=> Promised(c, env)
  BY <1>1 DEF Promised
<1>6. \A env \in Logged : Served(c, env)'
  BY <1>1, <1>4, <1>5, ComingKept DEF FeedInv, Served
<1> QED BY <1>1, <1>2, <1>6, ConnectionInv

(* A part of the history that is out is delivered.                         *)
LEMMA SendHistoryInv ==
  ASSUME FeedTypes, FeedInv, NEW c \in Connections, SendHistory(c)
  PROVE  FeedInv'
<1>1. UNCHANGED <<handler_vars, status, position, subscriptions, request>>
  BY DEF SendHistory
<1>2. /\ delivered'[c] = delivered[c] \cup {Head(history[c])}
      /\ history'[c] = Tail(history[c])
      /\ \A k \in Connections : k # c => delivered'[k] = delivered[k] /\ history'[k] = history[k]
  BY DEF FeedTypes, FeedTypeOK, ConnectionData, SendHistory
<1>3. \A x : x \in ToSet(history[c]) <=> x = Head(history[c]) \/ x \in ToSet(Tail(history[c]))
  <2>1. history[c] \in Seq(Envelopes) /\ history[c] # << >>
    BY DEF FeedTypes, FeedTypeOK, SendHistory
  <2> QED BY <2>1, HeadTailElements
<1>4. ASSUME NEW env \in Logged PROVE Served(c, env)'
  <2>1. Served(c, env)
    BY DEF FeedInv
  <2>2. /\ Promised(c, env)' => Promised(c, env)
        /\ Asked(c, env)' => Asked(c, env)
    BY <1>1 DEF Promised, Asked
  <2>3. Coming(c, env) => Coming(c, env)'
    BY <1>1, <1>2, ComingKept
  <2>4. env = Head(history[c]) => Coming(c, env)'
    BY <1>2 DEF Coming
  <2> QED BY <1>2, <1>3, <2>1, <2>2, <2>3, <2>4 DEF Served
<1> QED BY <1>1, <1>2, <1>4, ConnectionInv

(* When the history is out, what was asked for becomes what is promised.   *)
LEMMA GoLiveInv ==
  ASSUME FeedTypes, FeedInv, NEW c \in Connections, GoLive(c)
  PROVE  FeedInv'
<1>1. /\ UNCHANGED <<handler_vars, position, history, delivered>>
      /\ status[c] = "replaying" /\ history[c] = << >>
      /\ Promise(c, request[c].channel, request[c].from_seq)
  BY DEF GoLive
<1>2. request[c].channel \in Channels /\ request[c].from_seq \in Nat \ {0}
  BY <1>1, FeedAssumption DEF FeedTypes, ConnectionData
<1>3. /\ status'[c] = "open"
      /\ \A k \in Connections : k # c => status'[k] = status[k] /\ request'[k] = request[k]
  BY DEF FeedTypes, FeedTypeOK, ConnectionData, GoLive
<1>4. \A k \in Connections : k # c => subscriptions'[k] = subscriptions[k]
  BY <1>1, <1>2, PromiseTypes
<1>5. ASSUME NEW env \in Logged, Promised(c, env)'
      PROVE  Promised(c, env) \/ Asked(c, env)
  <2>1. env.channel \in DOMAIN subscriptions'[c] /\ subscriptions'[c][env.channel] <= env.sequence_id
    BY <1>5 DEF Promised
  <2>2. env.sequence_id \in Nat
    BY LoggedElements DEF FeedTypes, HandlerData
  <2>3. CASE env.channel # request[c].channel
    BY <1>1, <1>2, <2>1, <2>3, PromiseTypes DEF Promised
  <2>4. CASE env.channel = request[c].channel
    BY <1>1, <1>2, <2>1, <2>2, <2>4, PromiseTypes DEF Promised, Asked
  <2> QED BY <2>3, <2>4
<1>6. ASSUME NEW env \in Logged PROVE Served(c, env)'
  <2>1. Served(c, env)
    BY DEF FeedInv
  <2>2. Coming(c, env) => Coming(c, env)'
    BY <1>1, ComingKept
  <2>3. env \notin ToSet(history[c]) /\ ~Asked(c, env)'
    BY <1>1, <1>3 DEF ToSet, Asked
  <2> QED BY <1>5, <2>1, <2>2, <2>3 DEF Served
<1> QED BY <1>1, <1>3, <1>4, <1>6, ConnectionInv

(* Unsubscribing promises less.                                            *)
LEMMA UnsubscribeInv ==
  ASSUME FeedTypes, FeedInv, NEW c \in Connections, NEW channel \in Channels,
         Unsubscribe(c, channel)
  PROVE  FeedInv'
<1>1. /\ UNCHANGED <<handler_vars, status, position, request, history, delivered>>
      /\ subscriptions'[c] = [ch \in DOMAIN subscriptions[c] \ {channel} |-> subscriptions[c][ch]]
      /\ \A k \in Connections : k # c => subscriptions'[k] = subscriptions[k]
  BY DEF FeedTypes, ConnectionData, Unsubscribe
<1>2. ASSUME NEW env \in Logged
      PROVE  /\ Promised(c, env)' => Promised(c, env)
             /\ Asked(c, env)' => Asked(c, env)
  BY <1>1 DEF Promised, Asked
<1>3. \A env \in Logged : Served(c, env)'
  BY <1>1, <1>2, ComingKept DEF FeedInv, Served
<1> QED BY <1>1, <1>3, ConnectionInv

(* A receiver drops an envelope only of a channel that is not subscribed.  *)
LEMMA ReceiveInv ==
  ASSUME FeedTypes, FeedInv, NEW c \in Connections, Receive(c)
  PROVE  FeedInv'
<1> PICK env : env = events[position[c] + 1]
  OBVIOUS
<1>1. /\ UNCHANGED <<handler_vars, status, subscriptions, request, history>>
      /\ status[c] = "open"
      /\ \A k \in Connections : k # c => delivered'[k] = delivered[k] /\ position'[k] = position[k]
      /\ delivered'[c] = IF env.channel \in DOMAIN subscriptions[c] THEN delivered[c] \cup {env}
                         ELSE delivered[c]
  BY DEF FeedTypes, FeedTypeOK, ConnectionData, Receive, Take
<1>2. /\ position'[c] = position[c] + 1 /\ position[c] \in Nat /\ DOMAIN events \subseteq Nat
  BY ReceiveTypes DEF FeedTypes, FeedTypeOK
<1>3. ASSUME NEW e \in Logged, Coming(c, e), Promised(c, e)
      PROVE  Coming(c, e)'
  <2>1. CASE Queued(c, e)
    <3>1. PICK i \in DOMAIN events : i > position[c] /\ events[i] = e
      BY <2>1 DEF Queued
    <3>2. CASE i = position[c] + 1
      BY <1>1, <1>3, <3>1, <3>2 DEF Coming, Promised
    <3>3. CASE i # position[c] + 1
      <4>1. i > position'[c]
        BY <1>2, <3>1, <3>3
      <4> QED BY <1>1, <3>1, <4>1 DEF Coming, Queued, handler_vars
    <3> QED BY <3>2, <3>3
  <2>2. CASE ~Queued(c, e)
    BY <1>1, <1>3, <2>2 DEF Coming, InFlight, GivenUp, handler_vars
  <2> QED BY <2>1, <2>2
<1>4. ASSUME NEW e \in Logged PROVE Served(c, e)'
  <2>1. Served(c, e) /\ (Promised(c, e)' <=> Promised(c, e)) /\ ~Asked(c, e)'
    BY <1>1 DEF FeedInv, Promised, Asked
  <2> QED BY <1>3, <2>1 DEF Served
<1> QED BY <1>1, <1>4, ConnectionInv
-----------------------------------------------------------------------------
(* The theorems *)

(* FeedInv holds in every reachable state.                                 *)
THEOREM SpecFeedInv == FeedSpec => []FeedInv
<1>1. FeedInit => FeedInv
  <2> SUFFICES ASSUME FeedInit PROVE FeedInv
    OBVIOUS
  <2>1. log = Restored /\ log \in Seq(LogEvents)
    BY FeedAssumption DEF FeedInit
  <2>2. PublishedOrMissed
    <3>1. ASSUME NEW env \in Logged PROVE ~(env.sequence_id > Len(Restored))
      <4>1. \E i \in DOMAIN log : env.sequence_id = i
        BY <2>1, LoggedElements
      <4> QED BY <2>1, <4>1
    <3> QED BY <3>1 DEF PublishedOrMissed, New
  <2>3. \A c \in Connections : DOMAIN subscriptions[c] = {} /\ status[c] = "closed"
    BY DEF FeedInit
  <2> QED BY <2>2, <2>3 DEF FeedInv, Served, Promised, Asked
<1>2. FeedTypes /\ FeedInv /\ [FeedNext]_feed_vars => FeedInv'
  <2> SUFFICES ASSUME FeedTypes, FeedInv, [FeedNext]_feed_vars PROVE FeedInv'
    OBVIOUS
  <2>1. ASSUME NEW h \in Handlers, HandlerStep(h) PROVE FeedInv'
    BY <2>1, BeginCallInv, EndCallInv, PanicCallInv, UpdateReferenceInv, DroppedInv, PublishInv,
       PublishSkippedInv, SendInv DEF HandlerStep, HandlerGoesOn
  <2>2. ASSUME Lock \/ Unlock PROVE FeedInv'
    BY <2>2, LockInv
  <2>3. ASSUME NEW c \in Connections, ClientStep(c) PROVE FeedInv'
    BY <2>3, ConnectInv, DisconnectInv, SubscribeLiveInv, UnsubscribeInv, SubscribeFromInv
       DEF ClientStep, Close
  <2>4. ASSUME NEW c \in Connections, ConnectionStep(c) PROVE FeedInv'
    BY <2>4, SendHistoryInv, GoLiveInv, ReceiveInv, DisconnectInv DEF ConnectionStep, Lag
  <2>5. CASE UNCHANGED feed_vars
    <3>1. Logged' = Logged
      BY <2>5, LoggedKept DEF feed_vars, handler_vars
    <3>2. UNCHANGED <<socket_vars, missed, abandoned, events>>
      BY <2>5 DEF feed_vars, handler_vars
    <3>3. \A env \in Logged : Onward(env)
      BY <2>5 DEF Onward, InFlight, feed_vars, handler_vars
    <3> QED BY <3>1, <3>2, <3>3, HandlerInv
  <2> QED BY <2>1, <2>2, <2>3, <2>4, <2>5 DEF FeedNext
<1> QED BY <1>1, <1>2, SpecFeedTypes, PTL DEF FeedSpec

(* Every envelope of an event logged since start-up is sent, about to be   *)
(* sent, or given up by a failed try_lock, a panic or a dropped request.   *)
THEOREM SpecPublishedOrMissed == FeedSpec => []PublishedOrMissed
<1>1. FeedInv => PublishedOrMissed
  BY DEF FeedInv
<1> QED BY <1>1, SpecFeedInv, PTL

(* A subscriber gets every event from its from_seq on while it stays       *)
(* connected, has it before it or on its way, or the event was given up,   *)
(* however many handlers publish while its history goes out.               *)
THEOREM SpecSubscriberMissesNothing == FeedSpec => []SubscriberMissesNothing
<1>1. FeedInv => SubscriberMissesNothing
  BY DEF FeedInv, Served, Coming, SubscriberMissesNothing
<1> QED BY <1>1, SpecFeedInv, PTL
=============================================================================
