-------------------------------- MODULE Feed --------------------------------
(***************************************************************************)
(* How the engine's events reach WebSocket clients: the REST handlers that *)
(* call the engine under its mutex and publish afterwards (publish_since), *)
(* the broadcast channel, and a task per connection (handle_socket).       *)
(*                                                                         *)
(* The engine is reduced to the batches of events its calls append;        *)
(* module Engine says what is in them.  Handlers and connections run on    *)
(* the threads of the tokio runtime, so their steps interleave wherever    *)
(* they touch the mutex, the broadcast channel or a socket.                *)
(***************************************************************************)
EXTENDS Integers, Sequences, SequencesExt, FiniteSets

CONSTANTS
  Handlers,            \* the requests that may be served at the same time
  Connections,         \* the WebSocket connections
  Names,               \* the markets and the traders
  Restored,            \* the events the log begins with, restored at start-up
  Calls,               \* the engine calls that append events, in order: the events of each
  Bookless,            \* the markets that a restart has left without a book
  Channels,            \* the channels clients subscribe to
  FromSeqs,            \* the from_seq they ask for; 0 asks for no history
  BROADCAST_CAPACITY,  \* how many envelopes the broadcast channel keeps
  MaxRequests          \* bound: the subscribes and unsubscribes of a connection

\* The events of the log: which there are, and what of them the feed reads.  A
\* cancellation names its order, here by the seq_id of its acceptance; nothing of
\* the feed looks it up.
LogEvents ==
  [type : {"order_accepted"}, market : Names, trader : Names]
    \cup [type : {"fill"}, market : Names, taker : Names, maker : Names]
    \cup [type : {"order_cancelled"}, order : Nat]
    \cup [type : {"market_paused", "market_resumed"}, market : Names]

\* process_order panics in a market without a book, with the acceptance appended.
Panics(batch) ==
  batch # << >> /\ batch[1].type = "order_accepted" /\ batch[1].market \in Bookless

ASSUME FeedAssumption ==
  /\ "free" \notin Handlers /\ "reader" \notin Handlers
  /\ Restored \in Seq(LogEvents)
  /\ Calls \in Seq(Seq(LogEvents))
  /\ \A k \in DOMAIN Calls : Panics(Calls[k]) => Len(Calls[k]) = 1
  /\ FromSeqs \subseteq Nat
  /\ BROADCAST_CAPACITY \in Nat \ {0}
  /\ MaxRequests \in Nat

VARIABLES
  log,            \* the sequencer's log; an event's seq_id is its place
  mutex,          \* who holds the engine's mutex: a handler, "reader" or "free"
  begun,          \* how many of Calls have begun
  pc,             \* where each handler is
  seq_before,     \* each handler's cursor into the log, 0 when it needs none
  to_send,        \* the envelopes each handler has built and not sent
  events,         \* the broadcast channel: every envelope sent so far
  missed,         \* ghost: the seq_ids that a publish_since gave up on
  abandoned,      \* ghost: those whose handler ended before its publish_since
  status,         \* of each connection: "closed", "open" or "replaying"
  position,       \* how many envelopes its receiver has taken or skipped
  subscriptions,  \* its channels; ghost: the seq_id from which each is promised
  request,        \* the subscribe whose history it is sending
  history,        \* the rest of that history
  delivered,      \* ghost: the envelopes sent to the client since it connected
  requests        \* how many requests it has made

handler_vars == <<log, mutex, begun, pc, seq_before, to_send, events, missed, abandoned>>
socket_vars == <<status, position, subscriptions, request, history, delivered, requests>>
feed_vars == <<handler_vars, socket_vars>>

-----------------------------------------------------------------------------
(* Envelopes *)

Envelope(kind, name, seq_id) == [channel |-> <<kind, name>>, sequence_id |-> seq_id]

from_sequenced(seq_id, event) ==
  CASE event.type = "order_accepted" ->
         << Envelope("book.l3", event.market, seq_id), Envelope("orders", event.trader, seq_id) >>
    [] event.type = "fill" ->
         << Envelope("trades", event.market, seq_id), Envelope("orders", event.taker, seq_id) >>
           \o (IF event.maker = event.taker THEN << >>
               ELSE << Envelope("orders", event.maker, seq_id) >>)
    [] event.type = "order_cancelled" -> << Envelope("cancels", "", seq_id) >>
    [] event.type \in {"market_paused", "market_resumed"} ->
         << Envelope("market", event.market, seq_id) >>

\* The envelopes of the log's events with these seq_ids, in the order of the log.
EnvelopesOf(seq_ids) ==
  FlattenSeq([ i \in DOMAIN log |-> IF i \in seq_ids THEN from_sequenced(i, log[i]) ELSE << >> ])

\* The envelopes of one channel, in their order.
OnChannel(envelopes, channel) ==
  FlattenSeq([ i \in DOMAIN envelopes |->
                 IF envelopes[i].channel = channel THEN << envelopes[i] >> ELSE << >> ])

-----------------------------------------------------------------------------
(* Handlers *)

GoTo(h, from, to) == pc[h] = from /\ pc' = [pc EXCEPT ![h] = to]

\* Faulty: the id of the next event instead of the last.
cursor_next == Len(log) + 1

\* peek_next_seq_id().saturating_sub(1)
cursor == Len(log)

\* The handler has the mutex and reads its cursor.
BeginCall(h) ==
  /\ GoTo(h, "idle", "calling")
  /\ begun < Len(Calls)
  /\ mutex = "free" /\ mutex' = h
  /\ begun' = begun + 1
  /\ seq_before' = [seq_before EXCEPT ![h] = cursor]
  /\ UNCHANGED <<log, to_send, events, missed, abandoned, socket_vars>>

\* The call appends its events and the mutex is released.
AppendEvents ==
  /\ log' = log \o Calls[begun]
  /\ mutex' = "free"

\* post_order takes the risk checker's mutex before it publishes, if there are fills.
EndCall(h) ==
  LET filled == \E i \in DOMAIN Calls[begun] : Calls[begun][i].type = "fill" IN
  /\ GoTo(h, "calling", IF filled THEN "updating" ELSE "publishing")
  /\ ~Panics(Calls[begun])
  /\ AppendEvents
  /\ UNCHANGED <<begun, seq_before, to_send, events, missed, abandoned, socket_vars>>

\* The handler ends without publishing what its call has appended.
Abandon(h, last) ==
  /\ pc' = [pc EXCEPT ![h] = "idle"]
  /\ abandoned' = abandoned \cup (seq_before[h] + 1 .. last)
  /\ seq_before' = [seq_before EXCEPT ![h] = 0]
  /\ UNCHANGED <<begun, to_send, events, missed, socket_vars>>

\* The task ends with the panic; a tokio mutex is not poisoned.
PanicCall(h) ==
  /\ pc[h] = "calling" /\ Panics(Calls[begun])
  /\ AppendEvents
  /\ Abandon(h, Len(log) + 1)

\* It has the risk checker's mutex and updates the reference prices (module Risk).
UpdateReference(h) ==
  /\ GoTo(h, "updating", "publishing")
  /\ UNCHANGED <<log, mutex, begun, seq_before, to_send, events, missed, abandoned, socket_vars>>

\* Its client goes away while it waits for that mutex: the server drops the handler.
Dropped(h) ==
  /\ pc[h] = "updating"
  /\ Abandon(h, Len(log))
  /\ UNCHANGED <<log, mutex>>

\* Everyone else who takes the mutex for a moment: a call that is refused, a
\* read-only handler, the copies made by publish_since and persist_since of
\* another handler and by replay_history.
Lock ==
  /\ mutex = "free" /\ mutex' = "reader"
  /\ UNCHANGED <<log, begun, pc, seq_before, to_send, events, missed, abandoned, socket_vars>>

Unlock ==
  /\ mutex = "reader" /\ mutex' = "free"
  /\ UNCHANGED <<log, begun, pc, seq_before, to_send, events, missed, abandoned, socket_vars>>

\* publish_since, try_lock succeeds: it copies every event behind the cursor,
\* those of later calls included.
Publish(h) ==
  LET envelopes == EnvelopesOf(seq_before[h] + 1 .. Len(log)) IN
  /\ GoTo(h, "publishing", IF envelopes = << >> THEN "idle" ELSE "sending")
  /\ mutex = "free"
  /\ to_send' = [to_send EXCEPT ![h] = envelopes]
  /\ seq_before' = [seq_before EXCEPT ![h] = 0]
  /\ UNCHANGED <<log, mutex, begun, events, missed, abandoned, socket_vars>>

\* try_lock fails: nothing is published.
PublishSkipped(h) ==
  /\ GoTo(h, "publishing", "idle")
  /\ mutex # "free"
  /\ missed' = missed \cup (seq_before[h] + 1 .. Len(log))
  /\ seq_before' = [seq_before EXCEPT ![h] = 0]
  /\ UNCHANGED <<log, mutex, begun, to_send, events, abandoned, socket_vars>>

\* One envelope; other handlers may send theirs in between.
Send(h) ==
  /\ GoTo(h, "sending", IF Len(to_send[h]) = 1 THEN "idle" ELSE "sending")
  /\ events' = Append(events, Head(to_send[h]))
  /\ to_send' = [to_send EXCEPT ![h] = Tail(@)]
  /\ UNCHANGED <<log, mutex, begun, seq_before, missed, abandoned, socket_vars>>

-----------------------------------------------------------------------------
(* Connections *)

NoRequest == [channel |-> << >>, from_seq |-> 0]

\* Faulty: the end of the log instead of the end of the channel.
tail_of_log == Len(log)

tail == Len(events)

\* ws_handler subscribes to the broadcast channel: from here on, nothing earlier.
Connect(c) ==
  /\ status[c] = "closed"
  /\ status' = [status EXCEPT ![c] = "open"]
  /\ position' = [position EXCEPT ![c] = tail]
  /\ UNCHANGED <<handler_vars, subscriptions, request, history, delivered, requests>>

\* The end of handle_socket; what it held is dropped.
Disconnect(c) ==
  /\ status' = [status EXCEPT ![c] = "closed"]
  /\ position' = [position EXCEPT ![c] = 0]
  /\ subscriptions' = [subscriptions EXCEPT ![c] = << >>]
  /\ request' = [request EXCEPT ![c] = NoRequest]
  /\ history' = [history EXCEPT ![c] = << >>]
  /\ delivered' = [delivered EXCEPT ![c] = {}]
  /\ UNCHANGED <<handler_vars, requests>>

\* The client closes, or a read or a send fails, also in the middle of a history.
Close(c) == status[c] # "closed" /\ Disconnect(c)

Request(c) ==
  /\ status[c] = "open"
  /\ requests[c] < MaxRequests
  /\ requests' = [requests EXCEPT ![c] = @ + 1]

\* A channel that is added is promised from first on, or from earlier if it was already.
Promise(c, channel, first) ==
  LET old == subscriptions[c]
      from == IF channel \in DOMAIN old /\ old[channel] < first THEN old[channel] ELSE first
  IN subscriptions' = [subscriptions EXCEPT ![c] =
       [ch \in DOMAIN old \cup {channel} |-> IF ch = channel THEN from ELSE old[ch]]]

\* Without a from_seq: every event that is logged from now on.
SubscribeLive(c, channel) ==
  /\ Request(c)
  /\ Promise(c, channel, Len(log) + 1)
  /\ UNCHANGED <<handler_vars, status, position, request, history, delivered>>

\* Faulty: the history begins after from_seq.
in_history_after(seq_id, from_seq) == seq_id > from_seq

in_history(seq_id, from_seq) == seq_id >= from_seq

\* replay_history, once it has the mutex, copies the channel's envelopes.
SubscribeFrom(c, channel, from_seq) ==
  /\ Request(c)
  /\ mutex = "free"
  /\ status' = [status EXCEPT ![c] = "replaying"]
  /\ request' = [request EXCEPT ![c] = [channel |-> channel, from_seq |-> from_seq]]
  /\ history' = [history EXCEPT ![c] =
       OnChannel(EnvelopesOf({i \in DOMAIN log : in_history(i, from_seq)}), channel)]
  /\ UNCHANGED <<handler_vars, position, subscriptions, delivered>>

SendHistory(c) ==
  /\ status[c] = "replaying" /\ history[c] # << >>
  /\ delivered' = [delivered EXCEPT ![c] = @ \cup {Head(history[c])}]
  /\ history' = [history EXCEPT ![c] = Tail(@)]
  /\ UNCHANGED <<handler_vars, status, position, subscriptions, request, requests>>

\* The history is out: the channel is added and the loop goes on.
GoLive(c) ==
  /\ status[c] = "replaying" /\ history[c] = << >>
  /\ status' = [status EXCEPT ![c] = "open"]
  /\ Promise(c, request[c].channel, request[c].from_seq)
  /\ request' = [request EXCEPT ![c] = NoRequest]
  /\ UNCHANGED <<handler_vars, position, history, delivered, requests>>

Unsubscribe(c, channel) ==
  /\ Request(c)
  /\ subscriptions' = [subscriptions EXCEPT ![c] =
       [ch \in DOMAIN @ \ {channel} |-> @[ch]]]
  /\ UNCHANGED <<handler_vars, status, position, request, history, delivered>>

Behind(c) == Len(events) - position[c]

\* Faulty: an envelope that nobody here has subscribed to is left in front.
Take_subscribed_only(c, env) ==
  position' = [position EXCEPT ![c] = IF env.channel \in DOMAIN subscriptions[c] THEN @ + 1 ELSE @]

Take(c, env) == position' = [position EXCEPT ![c] = @ + 1]

\* rx.recv(): the next envelope, forwarded if its channel is subscribed.
Receive(c) ==
  LET env == events[position[c] + 1] IN
  /\ status[c] = "open"
  /\ Behind(c) \in 1..BROADCAST_CAPACITY
  /\ Take(c, env)
  /\ delivered' = [delivered EXCEPT ![c] =
       IF env.channel \in DOMAIN subscriptions[c] THEN @ \cup {env} ELSE @]
  /\ UNCHANGED <<handler_vars, status, subscriptions, request, history, requests>>

\* rx.recv() is Lagged: the next envelope has been overwritten.
Lag(c) ==
  /\ status[c] = "open"
  /\ Behind(c) > BROADCAST_CAPACITY
  /\ Disconnect(c)

-----------------------------------------------------------------------------
(* Specification *)

FeedInit ==
  /\ log = Restored /\ mutex = "free" /\ begun = 0
  /\ pc = [h \in Handlers |-> "idle"]
  /\ seq_before = [h \in Handlers |-> 0]
  /\ to_send = [h \in Handlers |-> << >>]
  /\ events = << >> /\ missed = {} /\ abandoned = {}
  /\ status = [c \in Connections |-> "closed"]
  /\ position = [c \in Connections |-> 0]
  /\ subscriptions = [c \in Connections |-> << >>]
  /\ request = [c \in Connections |-> NoRequest]
  /\ history = [c \in Connections |-> << >>]
  /\ delivered = [c \in Connections |-> {}]
  /\ requests = [c \in Connections |-> 0]

HandlerGoesOn(h) ==
  \/ EndCall(h) \/ PanicCall(h)
  \/ UpdateReference(h)
  \/ Publish(h) \/ PublishSkipped(h)
  \/ Send(h)

HandlerStep(h) == BeginCall(h) \/ HandlerGoesOn(h) \/ Dropped(h)

ClientStep(c) ==
  \/ Connect(c)
  \/ Close(c)
  \/ \E channel \in Channels : SubscribeLive(c, channel) \/ Unsubscribe(c, channel)
  \/ \E channel \in Channels, from_seq \in FromSeqs \ {0} : SubscribeFrom(c, channel, from_seq)

ConnectionStep(c) == SendHistory(c) \/ GoLive(c) \/ Receive(c) \/ Lag(c)

FeedNext ==
  \/ \E h \in Handlers : HandlerStep(h)
  \/ Lock
  \/ Unlock
  \/ \E c \in Connections : ClientStep(c) \/ ConnectionStep(c)

(* A call runs to its end or panics without waiting, and so does           *)
(* publish_since; whoever else holds a mutex releases it, the risk         *)
(* checker's goes to those that wait in turn.  select! picks among its     *)
(* ready branches at random, so a receiver with an envelope in front of it *)
(* is not passed over for ever, however often the client's requests come   *)
(* first.  Clients read their sockets or close them.                       *)
FeedFairness ==
  /\ \A h \in Handlers : WF_feed_vars(HandlerGoesOn(h))
  /\ WF_feed_vars(Unlock)
  /\ \A c \in Connections :
       /\ WF_feed_vars(SendHistory(c) \/ GoLive(c))
       /\ SF_feed_vars(Receive(c) \/ Lag(c))

FeedSpec == FeedInit /\ [][FeedNext]_feed_vars /\ FeedFairness
=============================================================================
