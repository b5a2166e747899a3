------------------------- MODULE HubDeliveryProofs -------------------------
(***************************************************************************)
(* Proofs that the hub loses no event silently: what becomes of an event   *)
(* once it was offered to a connection.                                    *)
(***************************************************************************)
EXTENDS HubProofs

\* What c was given: the events its browser read, those on their way to it, and
\* those whose write failed
Given(c) == Range(received[c]) \cup Range(InHand(c)) \cup Range(buf[c]) \cup lost[c]

-----------------------------------------------------------------------------
(* Ranges of sequences.                                                    *)

\* The range of a concatenation is the two ranges together.
LEMMA RangeConcat ==
  ASSUME NEW S, NEW s \in Seq(S), NEW t \in Seq(S)
  PROVE  s \o t \in Seq(S) /\ Range(s \o t) = Range(s) \cup Range(t)
<1>1. /\ s \o t \in Seq(S) /\ Len(s \o t) = Len(s) + Len(t)
      /\ Len(s) \in Nat /\ Len(t) \in Nat
      /\ \A i \in 1..Len(s) + Len(t) : (s \o t)[i] = IF i <= Len(s) THEN s[i] ELSE t[i - Len(s)]
  BY ConcatProperties, LenProperties
<1>2. /\ DOMAIN s = 1..Len(s) /\ DOMAIN t = 1..Len(t)
      /\ DOMAIN (s \o t) = 1..Len(s) + Len(t)
  BY <1>1, LenProperties
<1>3. ASSUME NEW i \in 1..Len(s) + Len(t) PROVE (s \o t)[i] \in Range(s) \cup Range(t)
  <2>1. CASE i <= Len(s)
    BY <1>1, <1>2, <2>1 DEF Range
  <2>2. CASE i > Len(s)
    <3>1. i - Len(s) \in 1..Len(t)
      BY <1>1, <2>2
    <3> QED
      BY <1>1, <1>2, <2>2, <3>1 DEF Range
  <2> QED
    BY <1>1, <2>1, <2>2
<1>4. ASSUME NEW i \in 1..Len(s) PROVE s[i] \in Range(s \o t)
  <2>1. i \in 1..Len(s) + Len(t) /\ (s \o t)[i] = s[i]
    BY <1>1
  <2> QED
    BY <1>2, <2>1 DEF Range
<1>5. ASSUME NEW i \in 1..Len(t) PROVE t[i] \in Range(s \o t)
  <2>1. Len(s) + i \in 1..Len(s) + Len(t) /\ (s \o t)[Len(s) + i] = t[i]
    BY <1>1
  <2> QED
    BY <1>2, <2>1 DEF Range
<1>6. Range(s \o t) \subseteq Range(s) \cup Range(t)
  BY <1>2, <1>3 DEF Range
<1>7. Range(s) \subseteq Range(s \o t) /\ Range(t) \subseteq Range(s \o t)
  BY <1>2, <1>4, <1>5 DEF Range
<1> QED
  BY <1>1, <1>6, <1>7

\* Appending adds one element to the range.
LEMMA RangeAppend ==
  ASSUME NEW S, NEW s \in Seq(S), NEW e \in S
  PROVE  Range(Append(s, e)) = Range(s) \cup {e}
<1>1. /\ DOMAIN s = 1..Len(s) /\ DOMAIN Append(s, e) = 1..Len(s) + 1
      /\ Len(s) \in Nat
      /\ \A i \in 1..Len(s) : Append(s, e)[i] = s[i]
      /\ Append(s, e)[Len(s) + 1] = e
  BY AppendProperties, LenProperties
<1>2. 1..Len(s) + 1 = 1..Len(s) \cup {Len(s) + 1}
  BY <1>1
<1> QED
  BY <1>1, <1>2 DEF Range

\* A sequence's range is its head and the range of its tail.
LEMMA RangeTail ==
  ASSUME NEW S, NEW s \in Seq(S), s # <<>>
  PROVE  Range(s) = {Head(s)} \cup Range(Tail(s))
<1>1. /\ Head(s) = s[1] /\ Len(s) \in Nat \ {0}
      /\ Tail(s) \in Seq(S) /\ Len(Tail(s)) = Len(s) - 1
      /\ \A i \in 1..Len(Tail(s)) : Tail(s)[i] = s[i + 1]
      /\ DOMAIN s = 1..Len(s)
  BY HeadTailProperties, EmptySeq, LenProperties
<1>2. DOMAIN Tail(s) = 1..Len(s) - 1
  BY <1>1, LenProperties
<1>3. ASSUME NEW i \in 1..Len(s) PROVE s[i] \in {Head(s)} \cup Range(Tail(s))
  <2>1. CASE i = 1
    BY <1>1, <2>1
  <2>2. CASE i # 1
    <3>1. i - 1 \in 1..Len(s) - 1 /\ Tail(s)[i - 1] = s[i]
      BY <1>1, <2>2
    <3> QED
      BY <1>2, <3>1 DEF Range
  <2> QED
    BY <2>1, <2>2
<1>4. ASSUME NEW i \in 1..Len(s) - 1 PROVE Tail(s)[i] \in Range(s)
  <2>1. i + 1 \in 1..Len(s) /\ Tail(s)[i] = s[i + 1]
    BY <1>1
  <2> QED
    BY <1>1, <2>1 DEF Range
<1>5. Head(s) \in Range(s)
  BY <1>1 DEF Range
<1> QED
  BY <1>1, <1>2, <1>3, <1>4, <1>5 DEF Range

\* The form in which NoSilentGap and BurstAbsorbed speak of what c was given
LEMMA GivenIs ==
  ASSUME TypeOK, NEW c \in Conn
  PROVE  /\ Range(received[c] \o InHand(c) \o buf[c]) \cup lost[c] = Given(c)
         /\ Given(c) \subseteq Event
<1>1. /\ received[c] \in Seq(Event) /\ buf[c] \in Seq(Event) /\ lost[c] \subseteq Event
      /\ pc[c] = "write" => hand[c] \in Event
  BY DEF TypeOK, ChannelTypeOK, HandlerTypeOK, HistoryTypeOK
<1>2. InHand(c) \in Seq(Event)
  BY <1>1, EmptySeq DEF InHand
<1>3. Range(received[c] \o InHand(c) \o buf[c])
        = Range(received[c]) \cup Range(InHand(c)) \cup Range(buf[c])
  <2> DEFINE r == received[c] \o InHand(c)
  <2>1. r \in Seq(Event) /\ Range(r) = Range(received[c]) \cup Range(InHand(c))
    BY <1>1, <1>2, RangeConcat
  <2> HIDE DEF r
  <2>2. Range(r \o buf[c]) = Range(r) \cup Range(buf[c])
    BY <1>1, <2>1, RangeConcat
  <2> QED
    BY <2>1, <2>2 DEF r
<1>4. \A s \in Seq(Event) : Range(s) \subseteq Event
  <2> SUFFICES ASSUME NEW s \in Seq(Event) PROVE \A i \in DOMAIN s : s[i] \in Event
    BY DEF Range
  <2> QED
    BY LenProperties, ElementOfSeq
<1> QED
  BY <1>1, <1>2, <1>3, <1>4 DEF Given

\* What a connection was given are events.
LEMMA GivenEvents == TypeOK => \A c \in Conn : Given(c) \subseteq Event
BY GivenIs

\* What NoSilentGap and BurstAbsorbed say, in terms of what c was given
GapOK == \A c \in Subscribed : \A e \in Offered(c) : e > subAt[c] => e \in Given(c) \cup dropped[c]

Absorbed(c) == \A e \in dropped[c] : Cardinality({d \in Given(c) : d < e}) >= ClientBuffer

DeliveryInv == OrderInv /\ ChannelInv /\ GapOK /\ \A c \in Conn : Absorbed(c)

\* The two properties and their restatements agree.
LEMMA GivenForm ==
  TypeOK => /\ NoSilentGap <=> GapOK
            /\ BurstAbsorbed <=> \A c \in Conn : Absorbed(c)
<1> SUFFICES ASSUME TypeOK
             PROVE  /\ NoSilentGap <=> GapOK
                    /\ BurstAbsorbed <=> \A c \in Conn : Absorbed(c)
  OBVIOUS
<1>1. \A c \in Conn : Range(received[c] \o InHand(c) \o buf[c]) \cup lost[c] = Given(c)
  BY GivenIs
<1>2. NoSilentGap <=> GapOK
  BY <1>1 DEF NoSilentGap, GapOK, Subscribed
<1>3. BurstAbsorbed <=> \A c \in Conn : Absorbed(c)
  BY <1>1 DEF BurstAbsorbed, Absorbed
<1> QED
  BY <1>2, <1>3
-----------------------------------------------------------------------------
(* What becomes of an event.                                               *)

\* Steps that move no event of c
Still(c) == /\ received'[c] = received[c] /\ buf'[c] = buf[c] /\ lost'[c] = lost[c]
            /\ dropped'[c] = dropped[c]
            /\ InHand(c)' = InHand(c)

\* Run's other steps, and the handler's that handle no event, move no event of c.
LEMMA StillRun ==
  ASSUME TypeOK, NEW c \in Conn,
         \/ Broadcast \/ Cancel \/ Register \/ Unregister \/ TakeEvent \/ FanoutEnd
         \/ TakeDone \/ Return \/ UNCHANGED vars
         \/ Subscribe(c) \/ Unsubscribe(c) \/ Close(c) \/ Request(c) \/ RequestDone(c)
         \/ ReceiveClosed(c) \/ Expire(c) \/ Leave(c) \/ NoticeLeft(c)
  PROVE  Still(c)
<1> USE DEF Still, InHand, history, TypeOK, HandlerTypeOK
<1>1. CASE \/ Broadcast \/ Cancel \/ Register \/ Unregister \/ TakeEvent \/ FanoutEnd
           \/ TakeDone \/ Return \/ UNCHANGED vars
  BY <1>1 DEF Broadcast, Cancel, Register, Unregister, TakeEvent, FanoutEnd, TakeDone, Return, vars
<1>2. CASE Subscribe(c) \/ Unsubscribe(c) \/ Close(c)
  BY <1>2 DEF Subscribe, Unsubscribe, Close, Goto
<1>3. CASE Request(c) \/ RequestDone(c) \/ ReceiveClosed(c)
  BY <1>3 DEF Request, RequestDone, ReceiveClosed, Goto
<1>4. CASE Expire(c) \/ Leave(c) \/ NoticeLeft(c)
  BY <1>4 DEF Expire, Leave, NoticeLeft
<1> QED
  BY <1>1, <1>2, <1>3, <1>4

\* Nor do the steps of another connection.
LEMMA StillOther ==
  ASSUME TypeOK, NEW c \in Conn, NEW d \in Conn, d # c,
         \/ Subscribe(d) \/ Unsubscribe(d) \/ Offer(d) \/ Close(d)
         \/ ReceiveEvent(d) \/ HandlerStep(d)
  PROVE  Still(c)
<1>1. /\ pc'[c] = pc[c] /\ hand'[c] = hand[c] /\ received'[c] = received[c]
      /\ buf'[c] = buf[c] /\ lost'[c] = lost[c] /\ dropped'[c] = dropped[c]
  BY DEF Subscribe, Unsubscribe, Offer, Close, ReceiveEvent, HandlerStep, Request, RequestDone,
     ReceiveClosed, Write, WriteLost, Expire, Leave, NoticeLeft, Goto, history, TypeOK,
     ChannelTypeOK, HandlerTypeOK, HistoryTypeOK
<1> QED
  BY <1>1 DEF Still, InHand

\* A handler moves events on: from its channel to its hand, and from there to its
\* browser or to those lost.
LEMMA Moves ==
  ASSUME TypeOK, NEW c \in Conn, ReceiveEvent(c) \/ Write(c) \/ WriteLost(c)
  PROVE  Given(c)' = Given(c) /\ dropped'[c] = dropped[c]
<1>1. /\ received[c] \in Seq(Event) /\ buf[c] \in Seq(Event)
      /\ received \in [Conn -> Seq(Event)] /\ buf \in [Conn -> Seq(Event)]
      /\ lost \in [Conn -> SUBSET Event]
      /\ pc \in [Conn -> HandlerPc] /\ hand \in [Conn -> 0..MaxEvents]
      /\ pc[c] = "write" => hand[c] \in Event
  BY DEF TypeOK, ChannelTypeOK, HandlerTypeOK, HistoryTypeOK
<1>2. Range(<<>>) = {} /\ \A e : Range(<<e>>) = {e}
  BY DEF Range
<1>3. CASE ReceiveEvent(c)
  <2>1. /\ buf[c] # <<>> /\ pc[c] = "loop" /\ pc'[c] = "write"
        /\ hand'[c] = Head(buf[c]) /\ buf'[c] = Tail(buf[c])
        /\ received' = received /\ lost' = lost /\ dropped' = dropped
    BY <1>1, <1>3 DEF ReceiveEvent, Goto, history
  <2>2. Range(buf[c]) = {hand'[c]} \cup Range(buf'[c])
    BY <1>1, <2>1, RangeTail
  <2>3. Range(InHand(c)) = {} /\ Range(InHand(c)') = {hand'[c]}
    BY <1>2, <2>1 DEF InHand
  <2> QED
    BY <2>1, <2>2, <2>3 DEF Given
<1>4. CASE Write(c)
  <2>1. /\ pc[c] = "write" /\ pc'[c] = "loop"
        /\ received'[c] = Append(received[c], hand[c])
        /\ buf' = buf /\ lost' = lost /\ dropped' = dropped
    BY <1>1, <1>4 DEF Write, Goto
  <2>2. Range(received'[c]) = Range(received[c]) \cup {hand[c]}
    BY <1>1, <2>1, RangeAppend
  <2>3. Range(InHand(c)) = {hand[c]} /\ Range(InHand(c)') = {}
    BY <1>2, <2>1 DEF InHand
  <2> QED
    BY <2>1, <2>2, <2>3 DEF Given
<1>5. CASE WriteLost(c)
  <2>1. /\ pc[c] = "write" /\ pc'[c] = "loop"
        /\ lost'[c] = lost[c] \cup {hand[c]}
        /\ buf' = buf /\ received' = received /\ dropped' = dropped
    BY <1>1, <1>5 DEF WriteLost, Goto
  <2>2. Range(InHand(c)) = {hand[c]} /\ Range(InHand(c)') = {}
    BY <1>2, <2>1 DEF InHand
  <2> QED
    BY <2>1, <2>2 DEF Given
<1> QED
  BY <1>3, <1>4, <1>5

\* An event offered to c is put in its channel, or dropped because it is full.
LEMMA Offers ==
  ASSUME TypeOK, NEW c \in Conn, Offer(c)
  PROVE  \/ Given(c)' = Given(c) \cup {runEvent} /\ dropped'[c] = dropped[c]
         \/ /\ Len(buf[c]) >= ClientBuffer
            /\ Given(c)' = Given(c) /\ buf' = buf
            /\ dropped'[c] = dropped[c] \cup {runEvent}
<1>1. /\ buf[c] \in Seq(Event) /\ buf \in [Conn -> Seq(Event)]
      /\ dropped \in [Conn -> SUBSET Event] /\ runEvent \in Event /\ Len(buf[c]) \in Nat
      /\ pc' = pc /\ hand' = hand /\ received' = received /\ lost' = lost
  BY LenProperties DEF TypeOK, RunTypeOK, ChannelTypeOK, HistoryTypeOK, Offer
<1>2. InHand(c)' = InHand(c)
  BY <1>1 DEF InHand
<1>3. CASE Len(buf[c]) < ClientBuffer
  <2>1. buf'[c] = Append(buf[c], runEvent) /\ dropped' = dropped
    BY <1>1, <1>3 DEF Offer
  <2>2. Range(buf'[c]) = Range(buf[c]) \cup {runEvent}
    BY <1>1, <2>1, RangeAppend
  <2> QED
    BY <1>1, <1>2, <2>1, <2>2 DEF Given
<1>4. CASE ~(Len(buf[c]) < ClientBuffer)
  <2>1. buf' = buf /\ dropped'[c] = dropped[c] \cup {runEvent}
    BY <1>1, <1>4 DEF Offer
  <2> QED
    BY <1>1, <1>2, <1>4, <2>1, ClientBufferAssumption DEF Given
<1> QED
  BY <1>3, <1>4
-----------------------------------------------------------------------------
(* The two invariants.                                                     *)

\* Nothing c was given is taken back.
LEMMA GivenGrows ==
  ASSUME TypeOK, [Next]_vars, NEW c \in Conn
  PROVE  /\ Given(c) \subseteq Given(c)'
         /\ \/ dropped'[c] = dropped[c]
            \/ /\ Offer(c) /\ Len(buf[c]) >= ClientBuffer
               /\ dropped'[c] = dropped[c] \cup {runEvent}
<1>1. Still(c) => Given(c)' = Given(c) /\ dropped'[c] = dropped[c]
  BY DEF Still, Given
<1>2. CASE \/ Broadcast \/ Cancel \/ Register \/ Unregister \/ TakeEvent \/ FanoutEnd
           \/ TakeDone \/ Return \/ UNCHANGED vars
  BY <1>1, <1>2, StillRun
<1>3. ASSUME NEW d \in Conn, d # c, \/ Subscribe(d) \/ Unsubscribe(d) \/ Offer(d) \/ Close(d)
                                    \/ ReceiveEvent(d) \/ HandlerStep(d)
      PROVE  Still(c)
  BY <1>3, StillOther
<1>4. CASE Offer(c)
  BY <1>4, Offers
<1>5. CASE ReceiveEvent(c) \/ Write(c) \/ WriteLost(c)
  BY <1>5, Moves
<1>6. CASE \/ Subscribe(c) \/ Unsubscribe(c) \/ Close(c) \/ Request(c) \/ RequestDone(c)
           \/ ReceiveClosed(c) \/ Expire(c) \/ Leave(c) \/ NoticeLeft(c)
  BY <1>1, <1>6, StillRun
<1> QED
  BY <1>1, <1>2, <1>3, <1>4, <1>5, <1>6, StepCases DEF HandlerStep

\* An event can have been offered to c after a step only if it was before, or if
\* the step is its Offer; and only Subscribe makes c a subscriber.
LEMMA OfferedGrows ==
  ASSUME DeliveryInv, [Next]_vars, NEW c \in Conn, c \in Subscribed', ~Subscribe(c)
  PROVE  /\ c \in Subscribed /\ subAt'[c] = subAt[c]
         /\ Offered(c)' \subseteq Offered(c) \cup (IF Offer(c) THEN {runEvent} ELSE {})
<1>1. TypeOK /\ MapOK /\ BroadcastOK
  BY DEF DeliveryInv, OrderInv, ChannelInv
<1>2. /\ runEvent \in Nat /\ sent \in Nat /\ pc \in [Conn -> HandlerPc]
      /\ subAt \in [Conn -> 0..MaxEvents] /\ todo \subseteq Conn
  BY <1>1, MaxEventsAssumption DEF TypeOK, RunTypeOK, HistoryTypeOK, HandlerTypeOK
<1> USE DEF Subscribed, Offered, hubVars, runVars, history, Goto
<1>3. CASE TakeEvent
  <2>1. /\ run = "select" /\ run' = "fanout" /\ todo' = clients /\ pc' = pc /\ subAt' = subAt
        /\ runEvent' = Head(broadcast) /\ broadcast # <<>>
    BY <1>3 DEF TakeEvent
  <2>2. runEvent' = runEvent + 1
    <3>1. Head(broadcast) = broadcast[1] /\ Len(broadcast) \in Nat \ {0}
      BY <1>1, <2>1, HeadTailProperties, EmptySeq DEF TypeOK, ChannelTypeOK
    <3> QED
      BY <1>1, <2>1, <3>1 DEF BroadcastOK
  <2>3. c \in todo'
    BY <1>1, <2>1 DEF MapOK
  <2> QED
    BY <1>2, <2>1, <2>2, <2>3
<1>4. CASE Broadcast \/ Cancel \/ UNCHANGED vars
  BY <1>4 DEF Broadcast, Cancel, vars
<1>5. CASE Register \/ Unregister \/ FanoutEnd \/ TakeDone \/ Return
  BY <1>5 DEF Register, Unregister, FanoutEnd, TakeDone, Return
<1>6. ASSUME NEW d \in Conn, Offer(d) PROVE
        /\ c \in Subscribed /\ subAt'[c] = subAt[c]
        /\ Offered(c)' \subseteq Offered(c) \cup (IF Offer(c) THEN {runEvent} ELSE {})
  BY <1>2, <1>6 DEF Offer
<1>7. ASSUME NEW d \in Conn, Close(d) PROVE
        c \in Subscribed /\ subAt'[c] = subAt[c] /\ Offered(c)' = Offered(c)
  BY <1>2, <1>7 DEF Close
<1>8. ASSUME NEW d \in Conn, d # c, Subscribe(d) PROVE
        c \in Subscribed /\ subAt'[c] = subAt[c] /\ Offered(c)' = Offered(c)
  BY <1>2, <1>8 DEF Subscribe
<1>9. ASSUME NEW d \in Conn, Unsubscribe(d) PROVE
        c \in Subscribed /\ subAt'[c] = subAt[c] /\ Offered(c)' = Offered(c)
  BY <1>2, <1>9 DEF Unsubscribe
<1>10. ASSUME NEW d \in Conn, ReceiveEvent(d) \/ HandlerStep(d) PROVE
        c \in Subscribed /\ subAt'[c] = subAt[c] /\ Offered(c)' = Offered(c)
  <2>1. Subscribed' = Subscribed
    BY <1>1, <1>10, HandlerLeavesMap
  <2>2. subAt' = subAt /\ run' = run /\ runEvent' = runEvent /\ todo' = todo
    BY <1>10 DEF ReceiveEvent, HandlerStep, Request, RequestDone, ReceiveClosed, Write, WriteLost,
       Expire, Leave, NoticeLeft
  <2> QED
    BY <2>1, <2>2
<1> QED
  BY <1>3, <1>4, <1>5, <1>6, <1>7, <1>8, <1>9, <1>10, StepCases

\* Every step keeps the feed of c without a silent gap.
LEMMA GapStep == DeliveryInv /\ [Next]_vars => GapOK'
<1> SUFFICES ASSUME DeliveryInv, [Next]_vars, NEW c \in Conn, c \in Subscribed',
                    NEW e \in Offered(c)', e > subAt'[c]
             PROVE  e \in Given(c)' \cup dropped'[c]
  BY DEF GapOK, Subscribed
<1>1. TypeOK /\ BroadcastOK /\ GapOK
  BY DEF DeliveryInv, OrderInv
<1>2. Given(c) \subseteq Given(c)' /\ dropped[c] \subseteq dropped'[c]
  BY <1>1, GivenGrows
<1>3. CASE Subscribe(c)
  <2>1. /\ subAt'[c] = sent /\ runEvent' = runEvent
        /\ runEvent \in Nat /\ sent \in Nat /\ Len(broadcast) \in Nat
    BY <1>1, <1>3, MaxEventsAssumption, LenProperties
    DEF Subscribe, TypeOK, HistoryTypeOK, RunTypeOK, ChannelTypeOK
  <2>2. e \in 1..runEvent
    BY <2>1 DEF Offered
  <2> QED
    BY <1>1, <2>1, <2>2 DEF BroadcastOK
<1>4. CASE ~Subscribe(c)
  <2>1. /\ c \in Subscribed /\ subAt'[c] = subAt[c]
        /\ Offered(c)' \subseteq Offered(c) \cup (IF Offer(c) THEN {runEvent} ELSE {})
    BY <1>4, OfferedGrows
  <2>2. CASE e \in Offered(c)
    <3>1. e \in Given(c) \cup dropped[c]
      BY <1>1, <2>1, <2>2 DEF GapOK
    <3> QED
      BY <1>2, <3>1
  <2>3. CASE Offer(c) /\ e = runEvent
    BY <1>1, <2>3, Offers
  <2> QED
    BY <2>1, <2>2, <2>3
<1> QED
  BY <1>3, <1>4

\* The same of the next state.
LEMMA GivenEventsNext == TypeOK' => (\A c \in Conn : Given(c) \subseteq Event)'
BY GivenEvents, PTL

\* Every step keeps a channel full of older events in front of what was dropped.
LEMMA AbsorbedStep == DeliveryInv /\ [Next]_vars => \A c \in Conn : Absorbed(c)'
<1> SUFFICES ASSUME DeliveryInv, [Next]_vars, NEW c \in Conn, NEW e \in dropped'[c]
             PROVE  Cardinality({d \in Given(c)' : d < e}) >= ClientBuffer
  BY DEF Absorbed
<1>1. TypeOK /\ OrderOK(c) /\ Absorbed(c)
  BY DEF DeliveryInv, OrderInv
<1>2. Given(c) \subseteq Given(c)' /\ Given(c) \subseteq Event
  BY <1>1, GivenGrows, GivenIs
<1> DEFINE before == {d \in Given(c) : d < e}
           after == {d \in Given(c)' : d < e}
<1>3. IsFiniteSet(after) /\ Cardinality(before) <= Cardinality(after)
  <2>1. TypeOK'
    BY TypeStep DEF DeliveryInv, ChannelInv
  <2>2. Given(c)' \subseteq Event
    BY <2>1, GivenEventsNext
  <2>3. IsFiniteSet(Event)
    BY FS_Interval, MaxEventsAssumption DEF Event
  <2>4. IsFiniteSet(after)
    BY <2>2, <2>3, FS_Subset
  <2>5. before \subseteq after
    BY <1>2
  <2> QED
    BY <2>4, <2>5, FS_Subset
<1>4. Cardinality(before) \in Nat /\ Cardinality(after) \in Nat
  <2>1. IsFiniteSet(before)
    BY <1>2, <1>3, FS_Subset
  <2> QED
    BY <1>3, <2>1, FS_CardinalityType
<1>5. Cardinality(before) >= ClientBuffer
  <2>1. CASE e \in dropped[c]
    BY <1>1, <2>1 DEF Absorbed
  <2>2. CASE e \notin dropped[c]
    <3>1. Offer(c) /\ Len(buf[c]) >= ClientBuffer /\ e = runEvent
      BY <1>1, <2>2, GivenGrows
    <3>2. /\ buf[c] \in Seq(Event) /\ DOMAIN buf[c] = 1..Len(buf[c]) /\ Len(buf[c]) \in Nat
          /\ buf[c] \in [1..Len(buf[c]) -> Event]
      BY <1>1, LenProperties DEF TypeOK, ChannelTypeOK
    <3>3. \A j \in 1..Len(buf[c]) : buf[c][j] < e
      BY <1>1, <3>1 DEF OrderOK, Past, Offer
    <3>4. \A j \in 1..Len(buf[c]) : buf[c][j] \in before
      BY <3>2, <3>3 DEF Given, Range
    <3>5. \A i, j \in 1..Len(buf[c]) : i # j => buf[c][i] # buf[c][j]
      <4> SUFFICES ASSUME NEW i \in 1..Len(buf[c]), NEW j \in 1..Len(buf[c]), i # j
                   PROVE  buf[c][i] # buf[c][j]
        OBVIOUS
      <4>1. buf[c][i] \in Nat /\ buf[c][j] \in Nat
        BY <3>2 DEF Event
      <4>2. i < j \/ j < i
        BY <3>2
      <4> QED
        BY <1>1, <4>1, <4>2 DEF OrderOK, Increasing
    <3>6. buf[c] \in Injection(1..Len(buf[c]), before)
      BY <3>2, <3>4, <3>5 DEF Injection, IsInjective
    <3>7. Cardinality(1..Len(buf[c])) <= Cardinality(before)
      BY <1>2, <1>3, <3>6, FS_Injection, FS_Subset
    <3>8. Cardinality(1..Len(buf[c])) = Len(buf[c])
      BY <3>2, FS_Interval
    <3> QED
      BY <1>4, <3>1, <3>2, <3>7, <3>8, ClientBufferAssumption
  <2> QED
    BY <2>1, <2>2
<1> QED
  BY <1>3, <1>4, <1>5, ClientBufferAssumption

\* DeliveryInv is an invariant.
LEMMA DeliveryInvariant == Spec => []DeliveryInv
<1>1. Init => GapOK /\ \A c \in Conn : Absorbed(c)
  BY DEF Init, GapOK, Absorbed, Subscribed
<1>2. OrderInv /\ OrderInv' /\ ChannelInv /\ ChannelInv' /\ GapOK /\ (\A c \in Conn : Absorbed(c))
      /\ [Next]_vars => GapOK' /\ (\A c \in Conn : Absorbed(c))'
  BY GapStep, AbsorbedStep DEF DeliveryInv
<1> QED
  BY <1>1, <1>2, OrderInvariant, ChannelInvariant, PTL DEF Spec, DeliveryInv

\* Every event fanned out since c's Subscribe returned was read, is on its way, was
\* dropped because c's channel was full, or failed in the write.
THEOREM NoGap == Spec => []NoSilentGap
<1>1. DeliveryInv => NoSilentGap
  BY GivenForm DEF DeliveryInv, ChannelInv
<1> QED
  BY <1>1, DeliveryInvariant, PTL

\* A client misses an event only after it was given a channel full of older ones.
THEOREM Burst == Spec => []BurstAbsorbed
<1>1. DeliveryInv => BurstAbsorbed
  BY GivenForm DEF DeliveryInv, ChannelInv
<1> QED
  BY <1>1, DeliveryInvariant, PTL
-----------------------------------------------------------------------------
(* Why streams end, and when their handlers do not.                        *)

\* The causes net/http knows, those Run acts on, and the ends of handlers they lead to
CauseInv ==
  /\ ChannelInv
  /\ reqDone \subseteq left \cup expired
  /\ run \in {"closing", "stopped"} => ctxDone
  /\ closed \subseteq left \cup expired \/ ctxDone
  /\ \A c \in Conn : pc[c] \in {"unsubscribe", "done"} => c \in left \cup expired \/ ctxDone

LEMMA CauseStep == CauseInv /\ ChannelInv' /\ [Next]_vars => CauseInv'
<1> SUFFICES ASSUME CauseInv, ChannelInv', [Next]_vars PROVE CauseInv'
  OBVIOUS
<1>0. pc \in [Conn -> HandlerPc]
  BY DEF CauseInv, ChannelInv, TypeOK, HandlerTypeOK
<1> USE DEF CauseInv, hubVars, runVars, netVars
<1>1. CASE Broadcast \/ Cancel \/ TakeEvent \/ UNCHANGED vars
  BY <1>0, <1>1 DEF Broadcast, Cancel, TakeEvent, vars
<1>2. CASE TakeDone \/ RunStep
  <2>1. CASE TakeDone
    BY <2>1 DEF TakeDone
  <2>2. CASE Register \/ FanoutEnd \/ Return
    BY <2>2 DEF Register, FanoutEnd, Return
  <2>3. CASE Unregister
    <3>1. \A c \in todo : c \in Conn /\ pc[c] = "done"
      BY <2>3 DEF Unregister, ChannelInv, MapOK, TypeOK, RunTypeOK
    <3> QED
      BY <2>3, <3>1 DEF Unregister
  <2>4. ASSUME NEW c \in Conn, Offer(c) \/ Close(c) PROVE CauseInv'
    BY <2>4 DEF Offer, Close
  <2> QED
    BY <1>2, <2>1, <2>2, <2>3, <2>4 DEF RunStep
<1>3. ASSUME NEW c \in Conn, Request(c) \/ Subscribe(c) \/ Unsubscribe(c) \/ ReceiveEvent(c) \/ Write(c)
      PROVE  CauseInv'
  BY <1>0, <1>3 DEF Request, Subscribe, Unsubscribe, ReceiveEvent, Write, Goto
<1>4. ASSUME NEW c \in Conn, RequestDone(c) \/ ReceiveClosed(c) \/ WriteLost(c) PROVE CauseInv'
  BY <1>0, <1>4 DEF RequestDone, ReceiveClosed, WriteLost, Goto
<1>5. ASSUME NEW c \in Conn, Network(c) PROVE CauseInv'
  BY <1>0, <1>5 DEF Network, Expire, Leave, NoticeLeft
<1> QED
  BY <1>1, <1>2, <1>3, <1>4, <1>5 DEF Next, Handler

\* A stream ends only when its browser left, its write deadline has passed or the
\* server shuts down (sse.go:102-118): no event, full channel, other browser or
\* failure of Run ends it.
EndsForCause == \A c \in Conn : pc[c] = "done" => c \in left \/ c \in expired \/ ctxDone

LEMMA CauseInvariant == Spec => []CauseInv
<1>1. Init /\ ChannelInv => CauseInv
  BY DEF Init, CauseInv
<1> QED
  BY <1>1, CauseStep, ChannelInvariant, PTL DEF Spec

THEOREM StreamsEndForCause == Spec => []EndsForCause
<1>1. CauseInv => EndsForCause
  BY DEF CauseInv, EndsForCause
<1> QED
  BY <1>1, CauseInvariant, PTL

\* WriteTimeout (main.go:92) is all that is wrong with "the connection is
\* intentionally long-lived" (sse.go:87): as long as no deadline passes it is true.
THEOREM LongLivedButForDeadline == Spec /\ [](expired = {}) => []LongLived
<1>1. EndsForCause /\ expired = {} => LongLived
  BY DEF EndsForCause, LongLived
<1> QED
  BY <1>1, StreamsEndForCause, PTL

\* A handler that reaches its deferred Unsubscribe after Run has returned stays in it
\* for good (sse.go:80, 102), whatever the network, the bridge and the other handlers
\* do: on a stopped hub no request ends, and the drain announced in main.go:108 cannot.
Stuck(c) == run = "stopped" /\ pc[c] = "unsubscribe"

LEMMA StuckStep == ASSUME NEW c \in Conn PROVE TypeOK /\ Stuck(c) /\ [Next]_vars => Stuck(c)'
<1> SUFFICES ASSUME TypeOK, Stuck(c), [Next]_vars PROVE Stuck(c)'
  OBVIOUS
<1>0. pc \in [Conn -> HandlerPc]
  BY DEF TypeOK, HandlerTypeOK
<1> USE DEF Stuck, hubVars, runVars
<1>1. CASE \/ Broadcast \/ Cancel \/ TakeEvent \/ TakeDone \/ Register \/ Unregister
           \/ FanoutEnd \/ Return \/ UNCHANGED vars
  BY <1>1 DEF Broadcast, Cancel, TakeEvent, TakeDone, Register, Unregister, FanoutEnd, Return, vars
<1>2. ASSUME NEW d \in Conn, Offer(d) \/ Close(d) \/ Subscribe(d) \/ Unsubscribe(d) PROVE Stuck(c)'
  BY <1>2 DEF Offer, Close, Subscribe, Unsubscribe
<1>3. ASSUME NEW d \in Conn, ReceiveEvent(d) \/ HandlerStep(d) PROVE Stuck(c)'
  BY <1>0, <1>3 DEF ReceiveEvent, HandlerStep, Request, RequestDone, ReceiveClosed, Write, WriteLost,
     Expire, Leave, NoticeLeft, Goto
<1> QED
  BY <1>1, <1>2, <1>3, StepCases

THEOREM HandlersBlock ==
  ASSUME NEW c \in Conn
  PROVE  Spec => [](Stuck(c) => [](pc[c] = "unsubscribe"))
<1>1. TypeOK /\ Stuck(c) /\ [Next]_vars => Stuck(c)'
  BY StuckStep
<1>2. Stuck(c) => pc[c] = "unsubscribe"
  BY DEF Stuck
<1> QED
  BY <1>1, <1>2, TypeCorrect, PTL DEF Spec
=============================================================================
