--------------------------- MODULE FeedProperties ---------------------------
(***************************************************************************)
(* What the feed must deliver, and what the comments of the code say of it *)
(* that it does not.                                                       *)
(***************************************************************************)
EXTENDS Feed

Kinds == {"book.l3", "orders", "trades", "cancels", "market"}

Envelopes == [channel : Kinds \X (Names \cup {""}), sequence_id : Nat \ {0}]

(* The types of the variables of module Feed.                              *)
FeedTypeOK ==
  /\ mutex \in Handlers \cup {"reader", "free"}
  /\ begun \in 0..Len(Calls)
  /\ pc \in [Handlers -> {"idle", "calling", "updating", "publishing", "sending"}]
  /\ seq_before \in [Handlers -> Nat]
  /\ to_send \in [Handlers -> Seq(Envelopes)]
  /\ events \in Seq(Envelopes)
  /\ missed \subseteq DOMAIN log /\ abandoned \subseteq DOMAIN log
  /\ status \in [Connections -> {"closed", "open", "replaying"}]
  /\ position \in [Connections -> 0..Len(events)]
  /\ \A c \in Connections :
       /\ DOMAIN subscriptions[c] \subseteq Channels
       /\ \A channel \in DOMAIN subscriptions[c] : subscriptions[c][channel] \in Nat \ {0}
       /\ request[c] = NoRequest \/ request[c] \in [channel : Channels, from_seq : FromSeqs]
       /\ delivered[c] \subseteq Envelopes
  /\ history \in [Connections -> Seq(Envelopes)]
  /\ requests \in [Connections -> 0..MaxRequests]

-----------------------------------------------------------------------------
(* Publication *)

Logged == ToSet(EnvelopesOf(DOMAIN log))

\* Restored events were streamed, if at all, before the restart.
New == {env \in Logged : env.sequence_id > Len(Restored)}

\* Some handler has yet to build or to send the envelope.
InFlight(env) == \E h \in Handlers :
  \/ pc[h] \in {"updating", "publishing"} /\ env.sequence_id > seq_before[h]
  \/ env \in ToSet(to_send[h])

\* The three ways in which an event is given up: the try_lock of publish_since
\* failed, the call panicked, or the handler was dropped while it waited.
GivenUp(env) == env.sequence_id \in missed \cup abandoned

(* Every envelope of every event logged since start-up has been sent, or a *)
(* handler is about to send it, or the event was given up: by a failed     *)
(* try_lock, a panic after the acceptance, or a request that was dropped.  *)
PublishedOrMissed ==
  \A env \in New : env \in ToSet(events) \/ InFlight(env) \/ GivenUp(env)

-----------------------------------------------------------------------------
(* Delivery *)

\* The client has asked for the envelope's channel from this event or earlier.
Promised(c, env) ==
  /\ env.channel \in DOMAIN subscriptions[c]
  /\ subscriptions[c][env.channel] <= env.sequence_id

\* In the receiver and not yet taken.
Queued(c, env) == \E i \in DOMAIN events : i > position[c] /\ events[i] = env

(* ws.rs, subscribe with from_seq and lag handling: while it is connected, *)
(* a client that subscribed has got every envelope that from_sequenced     *)
(* makes for its channel, from its from_seq on (from the moment of         *)
(* subscribing, without one), or has it before it in its receiver or on    *)
(* its way there, unless the event was given up.  No event falls between   *)
(* the history and the live stream, whatever was sent while the history    *)
(* went out, and a slow client never skips one: it is disconnected.        *)
(* Which events a channel carries is CancelsOnTheirChannels, below.        *)
SubscriberMissesNothing ==
  \A c \in Connections, env \in Logged :
    Promised(c, env) =>
      env \in delivered[c] \/ Queued(c, env) \/ InFlight(env) \/ GivenUp(env)

\* What the engine will have logged of the channels once all calls are over.
AllEnvelopes ==
  LET all == Restored \o FlattenSeq(Calls)
  IN {env \in UNION {ToSet(from_sequenced(i, all[i])) : i \in DOMAIN all} :
        env.channel \in Channels}

(* An envelope that from_sequenced makes of a logged event reaches every   *)
(* client that is subscribed to its channel, unless it unsubscribes,       *)
(* disconnects or is disconnected first, or the event was given up:        *)
(* publication and delivery come to an end whatever the other handlers,    *)
(* readers and clients do.                                                 *)
EventsArrive ==
  \A c \in Connections : \A env \in AllEnvelopes :
    (env \in Logged /\ Promised(c, env))
      ~> (env \in delivered[c] \/ GivenUp(env) \/ ~Promised(c, env))

-----------------------------------------------------------------------------
(* What the comments and the documents say, and the code does not do *)

\* No handler has anything left to do.
HandlersDone == \A h \in Handlers : pc[h] = "idle"

(* api/mod.rs:241, publish_since: "the lock is uncontended at this point", *)
(* so that every event is streamed when its handler is done with it.       *)
WritesAreStreamed ==
  HandlersDone => \A env \in New : env \in ToSet(events) \/ env.sequence_id \in abandoned

(* api/mod.rs:33 and ws.rs:9 say that book.l3 carries the cancellations of *)
(* its market, api/mod.rs:35 and ws.rs:11 that orders carries all events   *)
(* of its trader: a cancellation that was not given up has been sent on    *)
(* both when the handlers are done.                                        *)
CancelsOnTheirChannels ==
  HandlersDone =>
    \A i \in DOMAIN log :
      log[i].type = "order_cancelled" /\ i > Len(Restored) /\ i \notin missed \cup abandoned
        => LET accepted == log[log[i].order] IN
           { Envelope("book.l3", accepted.market, i),
             Envelope("orders", accepted.trader, i) } \subseteq ToSet(events)
=============================================================================
