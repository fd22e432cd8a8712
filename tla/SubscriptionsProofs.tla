------------------------ MODULE SubscriptionsProofs ------------------------
(***************************************************************************)
(* Streams without gaps, for any number of subscribers, any capacity of    *)
(* the channel and any sequence of messages.                               *)
(***************************************************************************)
EXTENDS Subscriptions, TLAPS

(* A message in the channel is never overtaken or doubled.                 *)
ChannelInOrder == \A k, l \in DOMAIN channel : k < l => channel[k] < channel[l]

(* An open stream has read nothing of what is ahead of it.                 *)
NothingReadTwice ==
    \A s \in Receivers : \A k \in next[s] + 1 .. Len(channel) : ReadTo(s) < channel[k]

Fresh == \A s \in Subscribers : stream[s] = "none" => yielded[s] = {}

IInv ==
    /\ TypeOK
    /\ ChannelInOrder
    /\ NothingReadTwice
    /\ Fresh
    /\ NothingBypasses
    /\ NoSilentGap

(* ReadTo is a message sent, at or after the opening of the stream.        *)
LEMMA ReadToType ==
  ASSUME TypeOK, NEW s \in Subscribers
  PROVE  ReadTo(s) \in since[s] .. Len(published)
<1>1. next[s] \in 0 .. Len(channel) /\ since[s] \in 0 .. Len(published)
  BY DEF TypeOK
<1>2. Len(published) \in Nat /\ Len(channel) \in Nat
  BY DEF TypeOK
<1>3. next[s] > 0 => channel[next[s]] \in 1 .. Len(published)
  BY <1>1, <1>2 DEF TypeOK
<1> QED
  BY <1>1, <1>2, <1>3 DEF ReadTo

LEMMA InitIInv == Init => IInv
  BY TopicAssumption
     DEF Init, IInv, TypeOK, ChannelInOrder, NothingReadTwice, Fresh, Receivers,
         NothingBypasses, NoSilentGap, ReadTo

(* Sending lengthens what was published and, if anybody listens, the       *)
(* channel.                                                                *)
LEMMA SendIInv ==
  ASSUME IInv, NEW topic \in Topics, Send(topic)
  PROVE  IInv'
<1> DEFINE n == Len(published) + 1
<1>1. TypeOK
  BY DEF IInv
<1>2. /\ Len(published) \in Nat /\ Len(channel) \in Nat
      /\ published' \in Seq(Topics) /\ Len(published') = n
      /\ \A i \in 1 .. Len(published) : published'[i] = published[i]
  BY <1>1 DEF TypeOK, Send
<1>3. /\ channel' \in Seq(1 .. n)
      /\ Len(channel') \in {Len(channel), Len(channel) + 1}
      /\ Receivers # {} => Len(channel') = Len(channel) + 1
      /\ \A k \in 1 .. Len(channel) : channel'[k] = channel[k]
      /\ \A k \in 1 .. Len(channel') : k > Len(channel) => channel'[k] = n
  <2>1. channel \in Seq(1 .. n) /\ n \in 1 .. n
    BY <1>1, <1>2 DEF TypeOK
  <2>2. CASE Receivers = {}
    <3>1. channel' = channel
      BY <2>2 DEF Send
    <3> QED
      BY <1>2, <2>1, <2>2, <3>1
  <2>3. CASE Receivers # {}
    <3>1. channel' = Append(channel, n)
      BY <2>3 DEF Send
    <3>2. channel' \in Seq(1 .. n)
      BY <2>1, <3>1
    <3>3. /\ Len(channel') = Len(channel) + 1
          /\ channel'[Len(channel) + 1] = n
          /\ \A k \in 1 .. Len(channel) : channel'[k] = channel[k]
      BY <1>2, <2>1, <3>1
    <3>4. \A k \in 1 .. Len(channel') : k > Len(channel) => k = Len(channel) + 1
      BY <1>2, <3>3
    <3> QED
      BY <3>2, <3>3, <3>4
  <2> QED
    BY <2>2, <2>3
<1>4. UNCHANGED <<stream, next, since, yielded, Receivers>>
  BY DEF Send, Receivers
<1>5. \A k \in 1 .. Len(channel) : channel[k] \in 1 .. Len(published)
  BY <1>1, <1>2 DEF TypeOK
<1>6. ASSUME NEW s \in Subscribers PROVE ReadTo(s)' = ReadTo(s)
  <2>1. next[s] \in 0 .. Len(channel)
    BY <1>1 DEF TypeOK
  <2> QED
    BY <1>2, <1>3, <1>4, <2>1 DEF ReadTo
<1>7. TypeOK'
  <2>1. /\ next \in [Subscribers -> 0 .. Len(channel')]
        /\ since \in [Subscribers -> 0 .. Len(published')]
        /\ yielded \in [Subscribers -> SUBSET (1 .. Len(published'))]
    BY <1>1, <1>2, <1>3 DEF TypeOK
  <2> QED
    BY <1>1, <1>2, <1>3, <1>4, <2>1 DEF TypeOK
<1>8. ChannelInOrder'
  <2>1. DOMAIN channel = 1 .. Len(channel) /\ DOMAIN channel' = 1 .. Len(channel')
    BY <1>1, <1>3 DEF TypeOK
  <2>2. SUFFICES ASSUME NEW k \in 1 .. Len(channel'), NEW l \in 1 .. Len(channel'), k < l
                 PROVE  channel'[k] < channel'[l]
    BY <2>1 DEF ChannelInOrder
  <2>3. k \in 1 .. Len(channel)
    BY <1>2, <1>3, <2>2
  <2>4. CASE l <= Len(channel)
    <3>1. l \in 1 .. Len(channel)
      BY <1>2, <1>3, <2>2, <2>4
    <3>2. channel[k] < channel[l]
      BY <2>1, <2>2, <2>3, <3>1 DEF IInv, ChannelInOrder
    <3> QED
      BY <1>3, <2>3, <3>1, <3>2
  <2>5. CASE l > Len(channel)
    <3>1. channel'[l] = n
      BY <1>3, <2>2, <2>5
    <3>2. channel'[k] \in 1 .. Len(published)
      BY <1>3, <1>5, <2>3
    <3> QED
      BY <1>2, <3>1, <3>2
  <2> QED
    BY <1>2, <1>3, <2>2, <2>4, <2>5
<1>9. NothingReadTwice'
  <2>1. SUFFICES ASSUME NEW s \in Receivers, NEW k \in next[s] + 1 .. Len(channel')
                 PROVE  ReadTo(s) < channel'[k]
    BY <1>4, <1>6 DEF NothingReadTwice, Receivers
  <2>2. s \in Subscribers /\ next[s] \in 0 .. Len(channel) /\ since[s] \in Nat
    BY <1>1, <1>2 DEF TypeOK, Receivers
  <2>3. CASE k <= Len(channel)
    <3>1. k \in next[s] + 1 .. Len(channel) /\ k \in 1 .. Len(channel)
      BY <1>2, <1>3, <2>1, <2>2, <2>3
    <3>2. ReadTo(s) < channel[k]
      BY <2>1, <3>1 DEF IInv, NothingReadTwice
    <3> QED
      BY <1>3, <3>1, <3>2
  <2>4. CASE k > Len(channel)
    <3>1. ReadTo(s) \in since[s] .. Len(published)
      BY <1>1, <2>2, ReadToType
    <3> QED
      BY <1>2, <1>3, <2>1, <2>2, <2>4, <3>1
  <2> QED
    BY <1>2, <1>3, <2>1, <2>2, <2>3, <2>4
<1>10. Fresh'
  BY <1>4 DEF IInv, Fresh
<1>11. NothingBypasses'
  <2>1. SUFFICES ASSUME NEW s \in Receivers, NEW i \in ReadTo(s) + 1 .. n
                 PROVE  \E k \in next[s] + 1 .. Len(channel') : channel'[k] = i
    BY <1>2, <1>4, <1>6 DEF NothingBypasses, Receivers
  <2>2. /\ s \in Subscribers /\ next[s] \in 0 .. Len(channel)
        /\ ReadTo(s) \in Nat
    BY <1>1, <1>2, ReadToType DEF TypeOK, Receivers
  <2>3. CASE i = n
    <3>1. Len(channel') = Len(channel) + 1 /\ channel'[Len(channel')] = n
      BY <1>2, <1>3, <2>1
    <3> QED
      BY <1>2, <2>2, <2>3, <3>1
  <2>4. CASE i # n
    <3>1. PICK k \in next[s] + 1 .. Len(channel) : channel[k] = i
      BY <1>2, <2>1, <2>2, <2>4 DEF IInv, NothingBypasses
    <3>2. k \in 1 .. Len(channel) /\ k \in next[s] + 1 .. Len(channel')
      BY <1>2, <1>3, <2>2, <3>1
    <3> QED
      BY <1>3, <3>1, <3>2
  <2> QED
    BY <2>3, <2>4
<1>12. NoSilentGap'
  <2>1. SUFFICES ASSUME NEW s \in Subscribers
                 PROVE  yielded[s] = {i \in since[s] + 1 .. ReadTo(s) : published'[i] = TopicOf[s]}
    BY <1>4, <1>6 DEF NoSilentGap
  <2>2. since[s] \in Nat /\ ReadTo(s) \in since[s] .. Len(published)
    BY <1>1, <1>2, ReadToType DEF TypeOK
  <2>3. \A i \in since[s] + 1 .. ReadTo(s) : published'[i] = published[i]
    BY <1>2, <2>2
  <2>4. yielded[s] = {i \in since[s] + 1 .. ReadTo(s) : published[i] = TopicOf[s]}
    BY DEF IInv, NoSilentGap
  <2> QED
    BY <2>3, <2>4
<1> QED
  BY <1>7, <1>8, <1>9, <1>10, <1>11, <1>12 DEF IInv

(* A new stream starts at the end of the channel.                          *)
LEMMA SubscribeIInv ==
  ASSUME IInv, NEW r \in Subscribers, Subscribe(r)
  PROVE  IInv'
<1>1. TypeOK /\ Len(published) \in Nat /\ Len(channel) \in Nat
  BY DEF IInv, TypeOK
<1>2. /\ UNCHANGED <<published, channel, yielded>>
      /\ stream'[r] = "open" /\ next'[r] = Len(channel) /\ since'[r] = Len(published)
      /\ \A s \in Subscribers \ {r} :
            stream'[s] = stream[s] /\ next'[s] = next[s] /\ since'[s] = since[s]
  BY <1>1 DEF Subscribe, TypeOK
<1>3. ASSUME NEW s \in Subscribers \ {r} PROVE ReadTo(s)' = ReadTo(s)
  BY <1>2 DEF ReadTo
<1>4. ReadTo(r)' = Len(published)
  <2>1. Len(channel) > 0 => channel[Len(channel)] \in 1 .. Len(published)
    BY <1>1 DEF TypeOK
  <2> QED
    BY <1>1, <1>2, <2>1 DEF ReadTo
<1>5. TypeOK'
  BY <1>1 DEF TypeOK, Subscribe
<1>6. ChannelInOrder'
  BY <1>2 DEF IInv, ChannelInOrder
<1>7. NothingReadTwice'
  BY <1>1, <1>2, <1>3, <1>4 DEF IInv, NothingReadTwice, Receivers
<1>8. Fresh'
  BY <1>2 DEF IInv, Fresh
<1>9. NothingBypasses'
  BY <1>1, <1>2, <1>3, <1>4 DEF IInv, NothingBypasses, Receivers
<1>10. NoSilentGap'
  <2>1. yielded[r] = {}
    BY DEF IInv, Fresh, Subscribe
  <2> QED
    BY <1>1, <1>2, <1>3, <1>4, <2>1 DEF IInv, NoSilentGap
<1> QED
  BY <1>5, <1>6, <1>7, <1>8, <1>9, <1>10 DEF IInv

(* A stream reads the message that was published next after the one it     *)
(* read last, or one before which only nothing was.                        *)
LEMMA ReceiveIInv ==
  ASSUME IInv, NEW r \in Subscribers, Receive(r)
  PROVE  IInv'
<1> DEFINE k0 == next[r] + 1
           m  == channel[k0]
<1>1. TypeOK /\ Len(published) \in Nat /\ Len(channel) \in Nat
  BY DEF IInv, TypeOK
<1>2. /\ UNCHANGED <<published, channel, stream, since, Receivers>>
      /\ next'[r] = k0
      /\ yielded'[r] = yielded[r] \cup {i \in {m} : published[i] = TopicOf[r]}
      /\ \A s \in Subscribers \ {r} : next'[s] = next[s] /\ yielded'[s] = yielded[s]
  BY <1>1 DEF Receive, TypeOK, Receivers
<1>3. /\ r \in Receivers /\ k0 \in 1 .. Len(channel) /\ next[r] \in Nat
      /\ since[r] \in Nat /\ m \in 1 .. Len(published)
  BY <1>1 DEF Receive, TypeOK, Receivers
<1>4. ReadTo(r) < m /\ ReadTo(r) \in since[r] .. Len(published)
  BY <1>1, <1>3, ReadToType DEF IInv, NothingReadTwice
<1>5. ReadTo(r)' = m
  BY <1>2, <1>3, <1>4 DEF ReadTo
<1>6. ASSUME NEW s \in Subscribers \ {r} PROVE ReadTo(s)' = ReadTo(s)
  BY <1>2 DEF ReadTo
<1>7. \A k \in k0 + 1 .. Len(channel) : m < channel[k]
  <2>1. DOMAIN channel = 1 .. Len(channel)
    BY <1>1 DEF TypeOK
  <2> QED
    BY <1>1, <1>3, <2>1 DEF IInv, ChannelInOrder
<1>8. TypeOK'
  <2>1. next' \in [Subscribers -> 0 .. Len(channel)]
    BY <1>1, <1>3 DEF Receive, TypeOK
  <2>2. yielded' \in [Subscribers -> SUBSET (1 .. Len(published))]
    <3>1. {i \in {m} : published[i] = TopicOf[r]} \subseteq 1 .. Len(published)
      BY <1>3
    <3> QED
      BY <1>1, <3>1 DEF Receive, TypeOK
  <2> QED
    BY <1>1, <1>2, <2>1, <2>2 DEF TypeOK
<1>9. ChannelInOrder' /\ Fresh'
  BY <1>2, <1>3 DEF IInv, ChannelInOrder, Fresh, Receivers
<1>10. NothingReadTwice'
  <2>1. SUFFICES ASSUME NEW s \in Receivers, NEW k \in next'[s] + 1 .. Len(channel)
                 PROVE  ReadTo(s)' < channel[k]
    BY <1>2 DEF NothingReadTwice, Receivers
  <2>2. CASE s = r
    BY <1>2, <1>5, <1>7, <2>1, <2>2
  <2>3. CASE s # r
    BY <1>2, <1>6, <2>1, <2>3 DEF IInv, NothingReadTwice, Receivers
  <2> QED
    BY <2>2, <2>3
<1>11. NothingBypasses'
  <2>1. SUFFICES ASSUME NEW s \in Receivers, NEW i \in ReadTo(s)' + 1 .. Len(published)
                 PROVE  \E k \in next'[s] + 1 .. Len(channel) : channel[k] = i
    BY <1>2 DEF NothingBypasses, Receivers
  <2>2. CASE s = r
    <3>1. i \in ReadTo(r) + 1 .. Len(published) /\ i > m
      BY <1>1, <1>3, <1>4, <1>5, <2>1, <2>2
    <3>2. PICK k \in k0 .. Len(channel) : channel[k] = i
      BY <1>3, <3>1 DEF IInv, NothingBypasses
    <3> QED
      BY <1>2, <1>3, <2>2, <3>1, <3>2
  <2>3. CASE s # r
    BY <1>2, <1>6, <2>1, <2>3 DEF IInv, NothingBypasses, Receivers
  <2> QED
    BY <2>2, <2>3
<1>12. NoSilentGap'
  <2>1. ASSUME NEW s \in Subscribers \ {r}
        PROVE  yielded'[s] = {i \in since'[s] + 1 .. ReadTo(s)' : published'[i] = TopicOf[s]}
    BY <1>2, <1>6 DEF IInv, NoSilentGap
  <2>2. \A i \in ReadTo(r) + 1 .. m : i = m
    <3>1. SUFFICES ASSUME NEW i \in ReadTo(r) + 1 .. m PROVE i = m
      OBVIOUS
    <3>2. PICK k \in k0 .. Len(channel) : channel[k] = i
      BY <1>1, <1>3, <1>4, <3>1 DEF IInv, NothingBypasses
    <3>3. i <= m
      BY <1>1, <1>3, <1>4, <3>1
    <3>4. k \in k0 + 1 .. Len(channel) => m < i
      BY <1>7, <3>2
    <3>5. k = k0
      BY <1>1, <1>3, <3>1, <3>2, <3>3, <3>4
    <3> QED
      BY <3>2, <3>5
  <2>3. yielded[r] = {i \in since[r] + 1 .. ReadTo(r) : published[i] = TopicOf[r]}
    BY DEF IInv, NoSilentGap
  <2>4. \A i : i \in since[r] + 1 .. m <=> i \in since[r] + 1 .. ReadTo(r) \/ i = m
    BY <1>1, <1>3, <1>4, <2>2
  <2>5. yielded'[r] = {i \in since[r] + 1 .. m : published[i] = TopicOf[r]}
    BY <1>2, <2>3, <2>4
  <2> QED
    BY <1>2, <1>5, <2>1, <2>5 DEF NoSilentGap
<1> QED
  BY <1>8, <1>9, <1>10, <1>11, <1>12 DEF IInv

(* A stream that stops, for whatever reason, keeps what it has passed on.  *)
LEMMA EndIInv ==
  ASSUME IInv, NEW r \in Subscribers, Lag(r) \/ Unsubscribe(r)
  PROVE  IInv'
<1>1. /\ UNCHANGED <<published, channel, next, since, yielded>>
      /\ stream' \in [Subscribers -> {"none", "open", "ended", "closed"}]
      /\ Receivers' \subseteq Receivers
      /\ \A s \in Subscribers : stream'[s] = "none" => stream[s] = "none"
  BY DEF IInv, TypeOK, Lag, Unsubscribe, Receivers
<1>2. \A s \in Subscribers : ReadTo(s)' = ReadTo(s)
  BY <1>1 DEF ReadTo
<1>3. Receivers \subseteq Subscribers
  BY DEF Receivers
<1> QED
  BY <1>1, <1>2, <1>3
     DEF IInv, TypeOK, ChannelInOrder, NothingReadTwice, Fresh, NothingBypasses, NoSilentGap

LEMMA StepIInv ==
  ASSUME IInv, [Next]_vars
  PROVE  IInv'
<1>1. CASE UNCHANGED vars
  BY <1>1 DEF vars, IInv, TypeOK, ChannelInOrder, NothingReadTwice, Fresh,
              NothingBypasses, NoSilentGap, ReadTo, Receivers
<1> QED
  BY <1>1, SendIInv, SubscribeIInv, ReceiveIInv, EndIInv DEF Next

(* The invariant that the theorems rest on.                                *)
THEOREM StreamsCorrect == Spec => []IInv
  BY InitIInv, StepIInv, PTL DEF Spec

(* Every cursor lies in the channel, every message passed on was sent.     *)
THEOREM StreamTypes == Spec => []TypeOK
<1>1. IInv => TypeOK
  BY DEF IInv
<1> QED
  BY <1>1, StreamsCorrect, PTL

(* No stream ever leaves a message of its topic out between two that it    *)
(* passes on (the loops of graphql.rs end at the first error).             *)
THEOREM StreamsHaveNoGap == Spec => []NoSilentGap
<1>1. IInv => NoSilentGap
  BY DEF IInv
<1> QED
  BY <1>1, StreamsCorrect, PTL

(* Whatever is published after an open stream's last message is in the     *)
(* channel ahead of it (process_block ignores a send without receivers).   *)
THEOREM StreamsMissNothing == Spec => []NothingBypasses
<1>1. IInv => NothingBypasses
  BY DEF IInv
<1> QED
  BY <1>1, StreamsCorrect, PTL
=============================================================================
