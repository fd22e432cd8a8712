--------------------------- MODULE Subscriptions ---------------------------
(***************************************************************************)
(* GraphQL subscriptions (server/src/graphql.rs) on the broadcast channel  *)
(* that process_block sends into (server/src/http.rs).  Every stream reads *)
(* the one channel of all tables and passes on the messages of its own     *)
(* topic: a table, or "new_block".  The channel keeps the last Capacity    *)
(* messages; a receiver that has fallen further behind is told so by an    *)
(* error, on which "while let Ok" ends the stream.                         *)
(*                                                                         *)
(* The order of the messages is any that threads side by side may send.    *)
(* A stop of the server ends all streams, and so only cuts behaviours off. *)
(***************************************************************************)
EXTENDS Naturals, Sequences

CONSTANTS Subscribers, \* the streams that clients may open
          Topics,      \* the tables and "new_block"
          TopicOf,     \* what each stream passes on
          Capacity,    \* broadcast::channel(1024)
          MaxMessages  \* bound: messages sent

ASSUME TopicAssumption == TopicOf \in [Subscribers -> Topics]

ASSUME CapacityAssumption == Capacity \in Nat \ {0} /\ MaxMessages \in Nat

VARIABLES published, \* history: the topic of every message sent
          channel,   \* the messages that went into the channel: indices of published
          stream,    \* "none", "open", "ended" by the server or "closed" by the client
          next,      \* how much of the channel each receiver has behind it
          since,     \* history: how much was published when the stream was opened
          yielded    \* the messages each stream has passed on

vars == <<published, channel, stream, next, since, yielded>>

Receivers == {s \in Subscribers : stream[s] = "open"}

Init ==
    /\ published = <<>>
    /\ channel = <<>>
    /\ stream = [s \in Subscribers |-> "none"]
    /\ next = [s \in Subscribers |-> 0]
    /\ since = [s \in Subscribers |-> 0]
    /\ yielded = [s \in Subscribers |-> {}]

-----------------------------------------------------------------------------
(* Definitions named Mutant... are wrong versions of the one that follows. *)

(* A bounded queue that refuses a message while a receiver is full.        *)
MutantSendUnlessFull(topic) ==
    /\ Len(published) < MaxMessages
    /\ published' = Append(published, topic)
    /\ channel' = IF Receivers = {} \/ \E s \in Receivers : Len(channel) - next[s] >= Capacity
                  THEN channel
                  ELSE Append(channel, Len(published) + 1)
    /\ UNCHANGED <<stream, next, since, yielded>>

(* event_tx.send in process_block, which ignores that nobody may receive:  *)
(* a message without receivers does not enter the channel.                 *)
Send(topic) ==
    /\ Len(published) < MaxMessages
    /\ published' = Append(published, topic)
    /\ channel' = IF Receivers = {} THEN channel
                  ELSE Append(channel, Len(published) + 1)
    /\ UNCHANGED <<stream, next, since, yielded>>

(* The cursor of a new receiver counted from one.                          *)
MutantSubscribeBeyond(s) ==
    /\ stream[s] = "none"
    /\ stream' = [stream EXCEPT ![s] = "open"]
    /\ since' = [since EXCEPT ![s] = Len(published)]
    /\ next' = [next EXCEPT ![s] = Len(channel) + 1]
    /\ UNCHANGED <<published, channel, yielded>>

(* A subscription field is resolved: tx.subscribe() at the channel's end.  *)
Subscribe(s) ==
    /\ stream[s] = "none"
    /\ stream' = [stream EXCEPT ![s] = "open"]
    /\ since' = [since EXCEPT ![s] = Len(published)]
    /\ next' = [next EXCEPT ![s] = Len(channel)]
    /\ UNCHANGED <<published, channel, yielded>>

Lagging(s) == Len(channel) - next[s] > Capacity

(* Only the stream's own messages move it on.                              *)
MutantReceiveStuck(s) ==
    /\ stream[s] = "open"
    /\ next[s] < Len(channel)
    /\ ~ Lagging(s)
    /\ published[channel[next[s] + 1]] = TopicOf[s]
    /\ next' = [next EXCEPT ![s] = @ + 1]
    /\ yielded' = [yielded EXCEPT ![s] = @ \cup {channel[next[s] + 1]}]
    /\ UNCHANGED <<published, channel, stream, since>>

(* rx.recv() returns a message, which is passed on if it is of the topic.  *)
Receive(s) ==
    /\ stream[s] = "open"
    /\ next[s] < Len(channel)
    /\ ~ Lagging(s)
    /\ next' = [next EXCEPT ![s] = @ + 1]
    /\ yielded' = [yielded EXCEPT ![s] =
          @ \cup {i \in {channel[next[s] + 1]} : published[i] = TopicOf[s]}]
    /\ UNCHANGED <<published, channel, stream, since>>

(* "loop" with the error ignored: recv goes on with the oldest message     *)
(* that is still there.                                                    *)
MutantLagSkips(s) ==
    /\ stream[s] = "open"
    /\ Lagging(s)
    /\ next' = [next EXCEPT ![s] = Len(channel) - Capacity]
    /\ UNCHANGED <<published, channel, stream, since, yielded>>

(* rx.recv() returns RecvError::Lagged: the loop is left, the stream ends. *)
Lag(s) ==
    /\ stream[s] = "open"
    /\ Lagging(s)
    /\ stream' = [stream EXCEPT ![s] = "ended"]
    /\ UNCHANGED <<published, channel, next, since, yielded>>

(* The client goes away or completes the subscription.                     *)
Unsubscribe(s) ==
    /\ stream[s] = "open"
    /\ stream' = [stream EXCEPT ![s] = "closed"]
    /\ UNCHANGED <<published, channel, next, since, yielded>>

Next ==
    \/ \E topic \in Topics : Send(topic)
    \/ \E s \in Subscribers : Subscribe(s) \/ Receive(s) \/ Lag(s) \/ Unsubscribe(s)

Spec == Init /\ [][Next]_vars

(* The server polls a stream as long as its client takes what it yields.   *)
FairSpec == Spec /\ \A s \in Subscribers : WF_vars(Receive(s) \/ Lag(s))

-----------------------------------------------------------------------------
(* Properties.                                                             *)

TypeOK ==
    /\ published \in Seq(Topics)
    /\ channel \in Seq(1 .. Len(published))
    /\ stream \in [Subscribers -> {"none", "open", "ended", "closed"}]
    /\ next \in [Subscribers -> 0 .. Len(channel)]
    /\ since \in [Subscribers -> 0 .. Len(published)]
    /\ yielded \in [Subscribers -> SUBSET (1 .. Len(published))]

(* The message a stream received last, or the one it was opened after.     *)
ReadTo(s) ==
    IF next[s] > 0 /\ channel[next[s]] > since[s] THEN channel[next[s]] ELSE since[s]

(* What a stream has passed on is every message of its topic from its      *)
(* opening to some point: nothing in between is left out, and nothing from *)
(* before comes late, though the channel overwrites what slow receivers    *)
(* have not read.  The gap is always after the end of the stream.          *)
NoSilentGap ==
    \A s \in Subscribers :
        yielded[s] = {i \in since[s] + 1 .. ReadTo(s) : published[i] = TopicOf[s]}

(* What was published since an open stream read last is all ahead of it in *)
(* the channel, though messages bypass the channel while nobody listens.   *)
NothingBypasses ==
    \A s \in Receivers : \A i \in ReadTo(s) + 1 .. Len(published) :
        \E k \in next[s] + 1 .. Len(channel) : channel[k] = i

(* Each message of its topic reaches an open stream in the end, unless the *)
(* stream does not stay open.                                              *)
Delivered ==
    \A s \in Subscribers : \A i \in 1 .. MaxMessages :
        (stream[s] = "open" /\ since[s] < i /\ i <= Len(published)
            /\ published[i] = TopicOf[s])
        ~> (i \in yielded[s] \/ stream[s] # "open")
=============================================================================
