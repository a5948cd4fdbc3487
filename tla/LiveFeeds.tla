----------------------------- MODULE LiveFeeds -----------------------------
(***************************************************************************)
(* The two server-sent event streams.  Viewers of an invoice               *)
(* (payments.service.ts stream) share one Redis connection and count the   *)
(* listeners of a channel (redis-subscription.service.ts); commands on it  *)
(* are sent and not awaited, and Redis takes them in order.  A watcher of  *)
(* a settlement (settlement-stream.service.ts) has a connection of its     *)
(* own, on which it subscribes after a query for the present status.       *)
(*                                                                         *)
(* Abstractions.  One API process, one channel of each kind.  Heartbeats   *)
(* are left out.  Only a payment is published: an invoice that expires or  *)
(* is cancelled ends no stream.  Nothing in src calls publishStatusChange; *)
(* the payout that would is taken to publish after it has committed.       *)
(* Connections to Redis do not break.                                      *)
(***************************************************************************)
EXTENDS Integers, Sequences, FiniteSets

CONSTANTS Viewers, Watchers

VARIABLES
    paid, announced,    \* the invoice's commit, and "no" | "due" | "sent" | "lost"
    listeners,  \* ChannelSubscriber.count; 0 when the map has no entry
    wire,       \* commands Redis has not taken
    subscribed, \* Redis sends the channel to the API
    inbox,      \* messages the API has not handled
    viewer,     \* state of each viewer's stream
    heard,      \* viewers whose channel Redis had when the payment committed
    settled, reported,  \* the settlement's final status, and its message
    watcher,    \* state of each watcher's stream
    gap         \* watchers whose query was answered before the change and
                \* whose subscription Redis took after the message

invoiceFeed == <<paid, announced, listeners, wire, subscribed, inbox, viewer, heard>>
settlementFeed == <<settled, reported, watcher, gap>>
feedsVars == <<paid, announced, listeners, wire, subscribed, inbox, viewer, heard,
               settled, reported, watcher, gap>>

FeedsInit ==
    /\ paid = FALSE /\ announced = "no" /\ listeners = 0 /\ wire = <<>> /\ inbox = <<>>
    /\ subscribed = FALSE /\ viewer = [v \in Viewers |-> "idle"] /\ heard = {}
    /\ settled = FALSE /\ reported = "no"
    /\ watcher = [w \in Watchers |-> "idle"] /\ gap = {}

Viewing == {v \in Viewers : viewer[v] = "open"}

-----------------------------------------------------------------------------
\* The invoice's stream

\* subscribe
OpenStream(v) ==
    /\ viewer[v] = "idle"
    /\ viewer' = [viewer EXCEPT ![v] = "open"]
    /\ listeners' = listeners + 1
    /\ wire' = IF listeners = 0 THEN Append(wire, "subscribe") ELSE wire
    /\ UNCHANGED <<paid, announced, subscribed, inbox, heard, settlementFeed>>

\* Mutant: the channel is given up with one stream left.
TeardownEarly(n) ==
    /\ listeners' = listeners - n
    /\ wire' = IF n > 0 /\ listeners - n <= 1 THEN Append(wire, "unsubscribe") ELSE wire

\* The teardown of n streams: unsubscribe
Teardown(n) ==
    /\ listeners' = listeners - n
    /\ wire' = IF n > 0 /\ listeners - n <= 0 THEN Append(wire, "unsubscribe") ELSE wire

CloseStream(v) ==
    /\ viewer[v] = "open"
    /\ viewer' = [viewer EXCEPT ![v] = "closed"]
    /\ Teardown(1)
    /\ UNCHANGED <<paid, announced, subscribed, inbox, heard, settlementFeed>>

RedisTakes ==
    /\ wire # <<>>
    /\ subscribed' = (Head(wire) = "subscribe") /\ wire' = Tail(wire)
    /\ UNCHANGED <<paid, announced, listeners, inbox, viewer, heard, settlementFeed>>

\* processor.rs: the transaction, and then the message
CommitPaid ==
    /\ ~paid /\ paid' = TRUE /\ announced' = "due"
    /\ heard' = IF subscribed /\ wire = <<>> THEN Viewing ELSE {}
    /\ UNCHANGED <<listeners, wire, subscribed, inbox, viewer, settlementFeed>>

Publish ==
    /\ announced = "due" /\ announced' = "sent"
    /\ inbox' = IF subscribed THEN Append(inbox, "paid") ELSE inbox
    /\ UNCHANGED <<paid, listeners, wire, subscribed, viewer, heard, settlementFeed>>

\* The reconciler dies in between; on replay the event is known and skipped.
PublisherDies ==
    /\ announced = "due" /\ announced' = "lost"
    /\ UNCHANGED <<paid, listeners, wire, subscribed, inbox, viewer, heard, settlementFeed>>

\* on('message') hands it to the streams of the channel
OnMessage == inbox # <<>> /\ inbox' = Tail(inbox)

\* Mutant: only one stream of the channel takes the message.
ReceiveOne ==
    /\ OnMessage
    /\ IF Viewing = {} THEN UNCHANGED <<viewer, listeners, wire>>
       ELSE /\ viewer' = [viewer EXCEPT ![CHOOSE v \in Viewing : TRUE] = "told"]
            /\ Teardown(1)
    /\ UNCHANGED <<paid, announced, subscribed, heard, settlementFeed>>

\* Every stream of the channel sends it and completes.
Receive ==
    /\ OnMessage
    /\ viewer' = [v \in Viewers |-> IF v \in Viewing THEN "told" ELSE viewer[v]]
    /\ Teardown(Cardinality(Viewing))
    /\ UNCHANGED <<paid, announced, subscribed, heard, settlementFeed>>

-----------------------------------------------------------------------------
\* The settlement's stream

Watch(w, from, to) == watcher[w] = from /\ watcher' = [watcher EXCEPT ![w] = to]

OpenWatch(w) == Watch(w, "idle", "query") /\ UNCHANGED <<settled, reported, gap, invoiceFeed>>

\* The present status; a final one completes the stream
Query(w) ==
    /\ Watch(w, "query", IF settled THEN "told" ELSE "subscribing")
    /\ UNCHANGED <<settled, reported, gap, invoiceFeed>>

Subscribed(w) ==
    /\ Watch(w, "subscribing", "listening")
    /\ gap' = IF reported = "sent" THEN gap \union {w} ELSE gap
    /\ UNCHANGED <<settled, reported, invoiceFeed>>

CloseWatch(w) ==
    /\ watcher[w] \in {"query", "subscribing", "listening"}
    /\ watcher' = [watcher EXCEPT ![w] = "closed"]
    /\ UNCHANGED <<settled, reported, gap, invoiceFeed>>

\* The payout commits, and then publishes to those that listen.
Settle ==
    /\ ~settled /\ settled' = TRUE /\ reported' = "due"
    /\ UNCHANGED <<watcher, gap, invoiceFeed>>

PublishStatusChange ==
    /\ reported = "due" /\ reported' = "sent"
    /\ watcher' = [w \in Watchers |-> IF watcher[w] = "listening" THEN "told" ELSE watcher[w]]
    /\ UNCHANGED <<settled, gap, invoiceFeed>>

FeedsNext ==
    \/ \E v \in Viewers : OpenStream(v) \/ CloseStream(v)
    \/ RedisTakes \/ CommitPaid \/ Publish \/ PublisherDies \/ Receive
    \/ \E w \in Watchers : OpenWatch(w) \/ Query(w) \/ Subscribed(w) \/ CloseWatch(w)
    \/ Settle \/ PublishStatusChange

FeedsSpec == FeedsInit /\ [][FeedsNext]_feedsVars

\* Redis takes and delivers what it is sent, a publisher that does not die
\* goes on, and the database answers.  No viewer has to close or to open.
FeedsFairness ==
    /\ WF_feedsVars(RedisTakes) /\ WF_feedsVars(Publish) /\ WF_feedsVars(Receive)
    /\ WF_feedsVars(PublishStatusChange)
    /\ \A w \in Watchers : WF_feedsVars(Query(w) \/ Subscribed(w))

-----------------------------------------------------------------------------
FeedsTypeOK ==
    /\ paid \in BOOLEAN /\ announced \in {"no", "due", "sent", "lost"} /\ listeners \in Nat
    /\ wire \in Seq({"subscribe", "unsubscribe"}) /\ inbox \in Seq({"paid"})
    /\ subscribed \in BOOLEAN /\ heard \subseteq Viewers
    /\ viewer \in [Viewers -> {"idle", "open", "told", "closed"}]
    /\ settled \in BOOLEAN /\ reported \in {"no", "due", "sent"} /\ gap \subseteq Watchers
    /\ watcher \in [Watchers -> {"idle", "query", "subscribing", "listening", "told", "closed"}]

\* The last command sent leaves Redis sending the channel exactly while some
\* stream is open, and the count is the number of open streams, whatever
\* order streams open, close and complete in (subscribe, unsubscribe).
SubscriptionMatchesStreams ==
    /\ listeners = Cardinality(Viewing)
    /\ (IF wire = <<>> THEN subscribed ELSE wire[Len(wire)] = "subscribe") = (Viewing # {})

\* A stream that was open, with its channel at Redis, when the payment
\* committed is told of it or closed, unless the publisher died; a watcher
\* is told the final status or closed, unless the change fell between its
\* query and its subscription (settlement-stream.service.ts lines 25-40).
EventuallyTold ==
    /\ \A v \in Viewers :
          (v \in heard /\ viewer[v] = "open") ~> (viewer[v] # "open" \/ announced = "lost")
    /\ \A w \in Watchers :
          (watcher[w] # "idle" /\ settled) ~> (watcher[w] \in {"told", "closed"} \/ w \in gap)
=============================================================================
