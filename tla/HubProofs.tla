----------------------------- MODULE HubProofs -----------------------------
(***************************************************************************)
(* Proofs about Hub, for any connections, capacities and number of events. *)
(***************************************************************************)
EXTENDS Hub, TLAPS, SequenceTheorems, FiniteSetTheorems

\* What a step of a handler or of the network under it is.
HandlerStep(c) ==
  \/ Request(c) \/ RequestDone(c) \/ ReceiveClosed(c) \/ Write(c) \/ WriteLost(c)
  \/ Expire(c) \/ Leave(c) \/ NoticeLeft(c)

\* The steps of the system, one disjunct for each way they are reasoned about.
LEMMA StepCases ==
  ASSUME [Next]_vars
  PROVE  \/ Broadcast \/ Cancel \/ Register \/ Unregister \/ TakeEvent \/ FanoutEnd
         \/ TakeDone \/ Return \/ UNCHANGED vars
         \/ \E c \in Conn : \/ Subscribe(c) \/ Unsubscribe(c) \/ Offer(c) \/ Close(c)
                            \/ ReceiveEvent(c) \/ HandlerStep(c)
BY DEF Next, RunStep, Handler, Network, HandlerStep

\* Every step keeps the types of what Run owns.
LEMMA RunType == TypeOK /\ [Next]_vars => RunTypeOK'
<1> SUFFICES ASSUME TypeOK, [Next]_vars PROVE RunTypeOK'
  OBVIOUS
<1> USE DEF TypeOK, RunTypeOK, RunPc, Event, hubVars, runVars
<1>1. CASE Broadcast
  BY <1>1 DEF Broadcast
<1>2. CASE Cancel
  BY <1>2 DEF Cancel
<1>3. CASE Register
  BY <1>3 DEF Register
<1>4. CASE Unregister
  BY <1>4 DEF Unregister
<1>5. CASE TakeEvent
  <2>1. Head(broadcast) \in Event
    BY <1>5, HeadTailProperties DEF TakeEvent, ChannelTypeOK
  <2> QED
    BY <1>5, <2>1, MaxEventsAssumption DEF TakeEvent
<1>6. CASE FanoutEnd \/ TakeDone \/ Return
  BY <1>6 DEF FanoutEnd, TakeDone, Return
<1>7. CASE UNCHANGED vars
  BY <1>7 DEF vars
<1>8. ASSUME NEW c \in Conn, Subscribe(c) \/ Unsubscribe(c) PROVE RunTypeOK'
  BY <1>8 DEF Subscribe, Unsubscribe
<1>9. ASSUME NEW c \in Conn, Offer(c) \/ Close(c) PROVE RunTypeOK'
  BY <1>9 DEF Offer, Close
<1>10. ASSUME NEW c \in Conn, ReceiveEvent(c) \/ HandlerStep(c) PROVE RunTypeOK'
  BY <1>10 DEF ReceiveEvent, HandlerStep, Request, RequestDone, ReceiveClosed, Write, WriteLost,
     Expire, Leave, NoticeLeft
<1> QED
  BY <1>1, <1>2, <1>3, <1>4, <1>5, <1>6, <1>7, <1>8, <1>9, <1>10, StepCases

\* Every step keeps the two kinds of channel within their types and capacities.
LEMMA ChannelType == TypeOK /\ [Next]_vars => ChannelTypeOK'
<1> SUFFICES ASSUME TypeOK, [Next]_vars PROVE ChannelTypeOK'
  OBVIOUS
<1> USE DEF TypeOK, ChannelTypeOK
<1>1. CASE Broadcast
  <2>1. sent' \in Event /\ broadcast' = Append(broadcast, sent') /\ buf' = buf
    BY <1>1, MaxEventsAssumption DEF Broadcast, HistoryTypeOK, Event
  <2>2. broadcast' \in Seq(Event) /\ Len(broadcast') = Len(broadcast) + 1
    BY <2>1, AppendProperties
  <2> QED
    BY <1>1, <2>1, <2>2, BroadcastCapAssumption DEF Broadcast
<1>2. CASE TakeEvent
  <2>1. buf' = buf /\ broadcast # <<>> /\ broadcast' = Tail(broadcast)
    BY <1>2 DEF TakeEvent
  <2>2. broadcast' \in Seq(Event) /\ Len(broadcast') = Len(broadcast) - 1 /\ Len(broadcast) \in Nat
    BY <2>1, HeadTailProperties, LenProperties
  <2> QED
    BY <2>1, <2>2, BroadcastCapAssumption
<1>3. ASSUME NEW c \in Conn, Offer(c) PROVE ChannelTypeOK'
  <2>1. CASE Len(buf[c]) < ClientBuffer
    <3>1. broadcast' = broadcast /\ buf' = [buf EXCEPT ![c] = Append(buf[c], runEvent)]
      BY <1>3, <2>1 DEF Offer
    <3>2. Append(buf[c], runEvent) \in Seq(Event) /\ Len(Append(buf[c], runEvent)) = Len(buf[c]) + 1
      BY <1>3, AppendProperties DEF Offer, RunTypeOK
    <3> QED
      BY <2>1, <3>1, <3>2, ClientBufferAssumption
  <2>2. CASE ~(Len(buf[c]) < ClientBuffer)
    BY <1>3, <2>2 DEF Offer
  <2> QED
    BY <2>1, <2>2
<1>4. ASSUME NEW c \in Conn, ReceiveEvent(c) PROVE ChannelTypeOK'
  <2>1. broadcast' = broadcast /\ buf[c] # <<>> /\ buf' = [buf EXCEPT ![c] = Tail(buf[c])]
    BY <1>4 DEF ReceiveEvent
  <2>2. Tail(buf[c]) \in Seq(Event) /\ Len(Tail(buf[c])) = Len(buf[c]) - 1 /\ Len(buf[c]) \in Nat
    BY <2>1, HeadTailProperties, LenProperties
  <2> QED
    BY <2>1, <2>2, ClientBufferAssumption
<1>5. CASE \/ Cancel \/ Register \/ Unregister \/ FanoutEnd \/ TakeDone \/ Return \/ UNCHANGED vars
  BY <1>5 DEF Cancel, Register, Unregister, FanoutEnd, TakeDone, Return, vars
<1>6. ASSUME NEW c \in Conn, Subscribe(c) \/ Unsubscribe(c) \/ Close(c) \/ HandlerStep(c)
      PROVE ChannelTypeOK'
  BY <1>6 DEF Subscribe, Unsubscribe, Close, HandlerStep, Request, RequestDone, ReceiveClosed, Write,
     WriteLost, Expire, Leave, NoticeLeft
<1> QED
  BY <1>1, <1>2, <1>3, <1>4, <1>5, <1>6, StepCases

\* Every step keeps the types of the handlers and their requests.
LEMMA HandlerType == TypeOK /\ [Next]_vars => HandlerTypeOK'
<1> SUFFICES ASSUME TypeOK, [Next]_vars PROVE HandlerTypeOK'
  OBVIOUS
<1> USE DEF TypeOK, HandlerTypeOK, HandlerPc, netVars, Goto
<1>1. CASE \/ Broadcast \/ Cancel \/ Register \/ Unregister \/ TakeEvent \/ FanoutEnd
           \/ TakeDone \/ Return \/ UNCHANGED vars
  BY <1>1 DEF Broadcast, Cancel, Register, Unregister, TakeEvent, FanoutEnd, TakeDone, Return, vars
<1>2. ASSUME NEW c \in Conn, Offer(c) \/ Close(c) PROVE HandlerTypeOK'
  BY <1>2 DEF Offer, Close
<1>3. ASSUME NEW c \in Conn, Subscribe(c) \/ Unsubscribe(c) PROVE HandlerTypeOK'
  BY <1>3 DEF Subscribe, Unsubscribe
<1>4. ASSUME NEW c \in Conn, ReceiveEvent(c) PROVE HandlerTypeOK'
  <2>1. Head(buf[c]) \in Event
    BY <1>4, HeadTailProperties DEF ReceiveEvent, ChannelTypeOK
  <2> QED
    BY <1>4, <2>1, MaxEventsAssumption DEF ReceiveEvent, Event
<1>5. ASSUME NEW c \in Conn, HandlerStep(c) PROVE HandlerTypeOK'
  <2>1. CASE Request(c) \/ RequestDone(c) \/ ReceiveClosed(c)
    BY <2>1 DEF Request, RequestDone, ReceiveClosed
  <2>2. CASE Write(c) \/ WriteLost(c)
    BY <2>2 DEF Write, WriteLost
  <2>3. CASE Expire(c) \/ Leave(c) \/ NoticeLeft(c)
    BY <2>3 DEF Expire, Leave, NoticeLeft
  <2> QED
    BY <1>5, <2>1, <2>2, <2>3 DEF HandlerStep
<1> QED
  BY <1>1, <1>2, <1>3, <1>4, <1>5, StepCases

\* Every step keeps the types of the history.
LEMMA HistoryType == TypeOK /\ [Next]_vars => HistoryTypeOK'
<1> SUFFICES ASSUME TypeOK, [Next]_vars PROVE HistoryTypeOK'
  OBVIOUS
<1> USE MaxEventsAssumption DEF TypeOK, HistoryTypeOK, history
<1>1. CASE Broadcast
  BY <1>1 DEF Broadcast
<1>2. CASE \/ Cancel \/ Register \/ Unregister \/ TakeEvent \/ FanoutEnd
           \/ TakeDone \/ Return \/ UNCHANGED vars
  BY <1>2 DEF Cancel, Register, Unregister, TakeEvent, FanoutEnd, TakeDone, Return, vars
<1>3. ASSUME NEW c \in Conn, Offer(c) PROVE HistoryTypeOK'
  <2>1. runEvent \in Event
    BY <1>3 DEF Offer, RunTypeOK
  <2>2. UNCHANGED <<sent, subAt, lost, received>>
    BY <1>3 DEF Offer
  <2>3. dropped' = dropped \/ dropped' = [dropped EXCEPT ![c] = @ \cup {runEvent}]
    BY <1>3 DEF Offer
  <2>4. dropped' \in [Conn -> SUBSET Event]
    BY <2>1, <2>3
  <2> QED
    BY <2>2, <2>4
<1>4. ASSUME NEW c \in Conn, Subscribe(c) PROVE HistoryTypeOK'
  BY <1>4 DEF Subscribe
<1>5. ASSUME NEW c \in Conn, Unsubscribe(c) \/ Close(c) \/ ReceiveEvent(c) PROVE HistoryTypeOK'
  BY <1>5 DEF Unsubscribe, Close, ReceiveEvent
<1>6. ASSUME NEW c \in Conn, Write(c) PROVE HistoryTypeOK'
  BY <1>6, AppendProperties DEF Write, HandlerTypeOK
<1>7. ASSUME NEW c \in Conn, WriteLost(c) PROVE HistoryTypeOK'
  BY <1>7 DEF WriteLost, HandlerTypeOK
<1>8. ASSUME NEW c \in Conn, \/ Request(c) \/ RequestDone(c) \/ ReceiveClosed(c)
                             \/ Expire(c) \/ Leave(c) \/ NoticeLeft(c)
      PROVE HistoryTypeOK'
  BY <1>8 DEF Request, RequestDone, ReceiveClosed, Expire, Leave, NoticeLeft
<1> QED
  BY <1>1, <1>2, <1>3, <1>4, <1>5, <1>6, <1>7, <1>8, StepCases DEF HandlerStep

\* The program starts in a type-correct state.
LEMMA InitType == Init => TypeOK
<1> SUFFICES ASSUME Init PROVE TypeOK
  OBVIOUS
<1> USE MaxEventsAssumption, BroadcastCapAssumption, ClientBufferAssumption DEF Init
<1>1. RunTypeOK
  <2>1. ctxDone \in BOOLEAN
    BY Zenon
  <2> QED
    BY <2>1 DEF RunTypeOK, RunPc
<1>2. ChannelTypeOK
  BY EmptySeq DEF ChannelTypeOK
<1>3. HandlerTypeOK
  BY DEF HandlerTypeOK, HandlerPc
<1>4. HistoryTypeOK
  BY EmptySeq DEF HistoryTypeOK
<1> QED
  BY <1>1, <1>2, <1>3, <1>4 DEF TypeOK

\* Every step keeps the types.
LEMMA TypeStep == TypeOK /\ [Next]_vars => TypeOK'
BY RunType, ChannelType, HandlerType, HistoryType DEF TypeOK

\* Every reachable state is type correct.
THEOREM TypeCorrect == Spec => []TypeOK
BY InitType, TypeStep, PTL DEF Spec
-----------------------------------------------------------------------------
(* Run's map and its channels.                                             *)

\* A step of a handler that is no rendezvous leaves Run's state alone, and whether
\* the handler is between its Subscribe and its Unsubscribe.
LEMMA HandlerLeavesMap ==
  ASSUME TypeOK, NEW c \in Conn, ReceiveEvent(c) \/ HandlerStep(c)
  PROVE  /\ UNCHANGED <<run, todo, clients, connected, closed>>
         /\ Subscribed' = Subscribed
         /\ \A d \in Conn : pc[d] = "done" => pc'[d] = "done"
<1> USE DEF TypeOK, HandlerTypeOK, Subscribed, Goto, hubVars, runVars
<1>1. CASE ReceiveEvent(c)
  BY <1>1 DEF ReceiveEvent
<1>2. CASE Request(c)
  BY <1>2 DEF Request
<1>3. CASE RequestDone(c) \/ ReceiveClosed(c)
  BY <1>3 DEF RequestDone, ReceiveClosed
<1>4. CASE Write(c) \/ WriteLost(c)
  BY <1>4 DEF Write, WriteLost
<1>5. CASE Expire(c) \/ Leave(c) \/ NoticeLeft(c)
  BY <1>5 DEF Expire, Leave, NoticeLeft
<1> QED
  BY <1>1, <1>2, <1>3, <1>4, <1>5 DEF HandlerStep

\* Every step keeps Run's map in accord with the handlers.
LEMMA MapStep == ChannelInv /\ [Next]_vars => MapOK'
<1> SUFFICES ASSUME ChannelInv, [Next]_vars PROVE MapOK'
  OBVIOUS
<1>1. TypeOK /\ MapOK
  BY DEF ChannelInv
<1>2. IsFiniteSet(clients) /\ IsFiniteSet(Subscribed)
  BY <1>1, ConnAssumption, FS_Subset DEF TypeOK, RunTypeOK, Subscribed
<1> USE <1>1
<1>3. CASE Broadcast \/ Cancel \/ UNCHANGED vars
  BY <1>3 DEF Broadcast, Cancel, vars, hubVars, runVars, MapOK, Subscribed
<1>4. CASE Register
  <2>1. PICK c \in Conn : todo = {c}
    BY <1>4 DEF Register, MapOK
  <2>2. /\ run = "register" /\ run' = "select" /\ todo' = {} /\ pc' = pc
        /\ clients' = clients \cup {c} /\ connected' = connected + 1 /\ closed' = closed
    BY <1>4, <2>1 DEF Register
  <2>3. c \in Subscribed /\ clients = Subscribed \ {c}
    BY <2>1, <2>2 DEF MapOK
  <2>4. Cardinality(clients \cup {c}) = Cardinality(clients) + 1
    BY <1>2, <2>3, FS_AddElement
  <2>5. clients' = Subscribed'
    BY <2>2, <2>3 DEF Subscribed
  <2> QED
    BY <2>2, <2>4, <2>5 DEF MapOK
<1>5. CASE Unregister
  <2>1. PICK c \in Conn : todo = {c}
    BY <1>5 DEF Unregister, MapOK
  <2>2. run = "unregister" /\ pc[c] = "done" /\ clients = Subscribed \cup {c}
    BY <1>5, <2>1 DEF Unregister, MapOK
  <2>3. /\ run' = "select" /\ todo' = {} /\ pc' = pc
        /\ clients' = clients \ {c} /\ connected' = connected - 1 /\ closed' = closed \cup {c}
    BY <1>5, <2>1, <2>2 DEF Unregister
  <2>4. Cardinality(clients \ {c}) = Cardinality(clients) - 1
    BY <1>2, <2>2, FS_RemoveElement
  <2>5. clients' = Subscribed'
    BY <2>2, <2>3 DEF Subscribed
  <2>6. \A d \in closed' : pc'[d] = "done"
    BY <2>2, <2>3 DEF MapOK
  <2> QED
    BY <2>3, <2>4, <2>5, <2>6 DEF MapOK
<1>6. CASE TakeEvent
  BY <1>6 DEF TakeEvent, MapOK, Subscribed
<1>7. CASE FanoutEnd \/ TakeDone \/ Return
  BY <1>7 DEF FanoutEnd, TakeDone, Return, MapOK, Subscribed
<1>8. ASSUME NEW c \in Conn, Subscribe(c) PROVE MapOK'
  <2>1. /\ run = "select" /\ run' = "register" /\ todo' = {c}
        /\ clients' = clients /\ connected' = connected /\ closed' = closed
        /\ pc[c] = "subscribe" /\ pc' = [pc EXCEPT ![c] = "loop"]
        /\ \A d \in closed : pc[d] = "done"
    BY <1>8 DEF Subscribe, Goto, MapOK
  <2>2. Subscribed' = Subscribed \cup {c} /\ c \notin Subscribed
    BY <2>1 DEF Subscribed, TypeOK, HandlerTypeOK
  <2>3. \A d \in closed' : pc'[d] = "done"
    BY <2>1 DEF TypeOK, HandlerTypeOK, RunTypeOK
  <2> QED
    BY <2>1, <2>2, <2>3 DEF MapOK
<1>9. ASSUME NEW c \in Conn, Unsubscribe(c) PROVE MapOK'
  <2>1. /\ run = "select" /\ run' = "unregister" /\ todo' = {c}
        /\ clients' = clients /\ connected' = connected /\ closed' = closed
        /\ pc[c] = "unsubscribe" /\ pc' = [pc EXCEPT ![c] = "done"]
        /\ \A d \in closed : pc[d] = "done"
    BY <1>9 DEF Unsubscribe, Goto, MapOK
  <2>2. Subscribed = Subscribed' \cup {c} /\ pc'[c] = "done"
    BY <2>1 DEF Subscribed, TypeOK, HandlerTypeOK
  <2>3. \A d \in closed' : pc'[d] = "done"
    BY <2>1 DEF TypeOK, HandlerTypeOK, RunTypeOK
  <2> QED
    BY <2>1, <2>2, <2>3 DEF MapOK
<1>10. ASSUME NEW c \in Conn, Offer(c) \/ Close(c) PROVE MapOK'
  BY <1>10 DEF Offer, Close, MapOK, Subscribed
<1>11. ASSUME NEW c \in Conn, ReceiveEvent(c) \/ HandlerStep(c) PROVE MapOK'
  <2>1. /\ UNCHANGED <<run, todo, clients, connected, closed>>
        /\ Subscribed' = Subscribed
        /\ \A d \in Conn : pc[d] = "done" => pc'[d] = "done"
    BY <1>11, HandlerLeavesMap
  <2>2. todo \subseteq Conn /\ closed \subseteq Conn
    BY DEF TypeOK, RunTypeOK
  <2> QED
    BY <2>1, <2>2 DEF MapOK
<1> QED
  BY <1>3, <1>4, <1>5, <1>6, <1>7, <1>8, <1>9, <1>10, <1>11, StepCases

\* No step brings Run closer to using a channel it has closed.
LEMMA ClosedStep == ChannelInv /\ [Next]_vars => NoUseOfClosedChannel'
<1> SUFFICES ASSUME ChannelInv, [Next]_vars PROVE NoUseOfClosedChannel'
  OBVIOUS
<1>1. TypeOK /\ MapOK /\ NoUseOfClosedChannel
  BY DEF ChannelInv
<1> USE <1>1 DEF NoUseOfClosedChannel
<1>2. CASE Broadcast \/ Cancel \/ UNCHANGED vars
  BY <1>2 DEF Broadcast, Cancel, vars, hubVars, runVars
<1>3. CASE Register
  BY <1>3 DEF Register, MapOK, Subscribed
<1>4. CASE Unregister
  BY <1>4 DEF Unregister
<1>5. CASE TakeEvent \/ FanoutEnd \/ TakeDone \/ Return
  BY <1>5 DEF TakeEvent, FanoutEnd, TakeDone, Return
<1>6. ASSUME NEW c \in Conn, Subscribe(c) \/ Unsubscribe(c) PROVE NoUseOfClosedChannel'
  BY <1>6 DEF Subscribe, Unsubscribe
<1>7. ASSUME NEW c \in Conn, Offer(c) \/ Close(c) PROVE NoUseOfClosedChannel'
  BY <1>7 DEF Offer, Close, MapOK
<1>8. ASSUME NEW c \in Conn, ReceiveEvent(c) \/ HandlerStep(c) PROVE NoUseOfClosedChannel'
  BY <1>8, HandlerLeavesMap
<1> QED
  BY <1>2, <1>3, <1>4, <1>5, <1>6, <1>7, <1>8, StepCases

\* ChannelInv is an invariant.
LEMMA ChannelInvariant == Spec => []ChannelInv
<1>1. Init => ChannelInv
  <2> SUFFICES ASSUME Init PROVE ChannelInv
    OBVIOUS
  <2>1. Subscribed = {}
    BY DEF Init, Subscribed
  <2>2. MapOK
    BY <2>1, FS_EmptySet DEF Init, MapOK
  <2>3. NoUseOfClosedChannel
    BY DEF Init, NoUseOfClosedChannel
  <2> QED
    BY <2>2, <2>3, InitType DEF ChannelInv
<1>2. ChannelInv /\ [Next]_vars => ChannelInv'
  BY TypeStep, MapStep, ClosedStep DEF ChannelInv
<1> QED
  BY <1>1, <1>2, PTL DEF Spec

\* Run never sends on a channel it has closed and never closes one twice.
THEOREM NoPanic == Spec => []NoUseOfClosedChannel
BY ChannelInvariant, PTL DEF ChannelInv

\* In its select Run knows the handlers that are subscribed, all and only them.
THEOREM NoLeak == Spec => []ClientsAreSubscribers
<1>1. ChannelInv => ClientsAreSubscribers
  BY DEF ChannelInv, MapOK, ClientsAreSubscribers
<1> QED
  BY <1>1, ChannelInvariant, PTL
-----------------------------------------------------------------------------
(* The order of the events, and the feed the hub implements.               *)

\* Appending a larger element keeps a sequence increasing.
LEMMA IncreasingAppend ==
  ASSUME NEW s \in Seq(Nat), NEW e \in Nat, Increasing(s), \A i \in 1..Len(s) : s[i] < e
  PROVE  Increasing(Append(s, e))
BY DEF Increasing

\* The tail of an increasing sequence is increasing, and larger than its head.
LEMMA IncreasingTail ==
  ASSUME NEW s \in Seq(Nat), s # <<>>, Increasing(s)
  PROVE  /\ Increasing(Tail(s))
         /\ \A j \in 1..Len(Tail(s)) : Head(s) < Tail(s)[j]
<1>1. /\ Head(s) = s[1] /\ Len(s) \in Nat \ {0}
      /\ Len(Tail(s)) = Len(s) - 1
      /\ \A i \in 1..Len(Tail(s)) : Tail(s)[i] = s[i + 1]
  BY HeadTailProperties, EmptySeq
<1> QED
  BY <1>1 DEF Increasing

\* Every step keeps the broadcast channel the run of events after runEvent.
LEMMA BroadcastStep == TypeOK /\ BroadcastOK /\ [Next]_vars => BroadcastOK'
<1> SUFFICES ASSUME TypeOK, BroadcastOK, [Next]_vars PROVE BroadcastOK'
  OBVIOUS
<1>1. /\ broadcast \in Seq(Event) /\ Len(broadcast) \in Nat
      /\ sent \in Nat /\ runEvent \in Nat
  BY MaxEventsAssumption, LenProperties DEF TypeOK, ChannelTypeOK, HistoryTypeOK, RunTypeOK
<1> USE <1>1 DEF BroadcastOK
<1>2. CASE Broadcast
  <2>1. broadcast' = Append(broadcast, sent + 1) /\ sent' = sent + 1 /\ runEvent' = runEvent
    BY <1>2 DEF Broadcast, hubVars, runVars
  <2>2. sent + 1 \in Event
    BY <1>2, MaxEventsAssumption DEF Broadcast, Event, TypeOK, HistoryTypeOK
  <2>3. /\ Len(broadcast') = Len(broadcast) + 1
        /\ \A i \in 1..Len(broadcast) : broadcast'[i] = broadcast[i]
        /\ broadcast'[Len(broadcast) + 1] = sent + 1
    BY <2>1, <2>2, AppendProperties
  <2> QED
    BY <2>1, <2>3
<1>3. CASE TakeEvent
  <2>1. /\ broadcast # <<>> /\ broadcast' = Tail(broadcast)
        /\ runEvent' = Head(broadcast) /\ sent' = sent
    BY <1>3 DEF TakeEvent, history
  <2>2. /\ Head(broadcast) = broadcast[1] /\ Len(broadcast) \in Nat \ {0}
        /\ Len(Tail(broadcast)) = Len(broadcast) - 1
        /\ \A i \in 1..Len(Tail(broadcast)) : Tail(broadcast)[i] = broadcast[i + 1]
    BY <2>1, HeadTailProperties, EmptySeq
  <2>3. runEvent' = runEvent + 1 /\ Len(broadcast') = Len(broadcast) - 1
    BY <2>1, <2>2
  <2>4. ASSUME NEW i \in 1..Len(broadcast') PROVE broadcast'[i] = runEvent' + i
    <3>1. i + 1 \in 1..Len(broadcast)
      BY <2>2, <2>3
    <3>2. broadcast[i + 1] = runEvent + (i + 1)
      BY <3>1
    <3>3. broadcast'[i] = broadcast[i + 1]
      BY <2>1, <2>2
    <3> QED
      BY <2>3, <3>2, <3>3
  <2>5. Len(broadcast') = sent' - runEvent'
    BY <2>1, <2>3
  <2> QED
    BY <2>4, <2>5
<1>4. CASE \/ Cancel \/ Register \/ Unregister \/ FanoutEnd \/ TakeDone \/ Return \/ UNCHANGED vars
  BY <1>4 DEF Cancel, Register, Unregister, FanoutEnd, TakeDone, Return, vars, hubVars, runVars, history
<1>5. ASSUME NEW c \in Conn, Subscribe(c) \/ Unsubscribe(c) \/ Offer(c) \/ Close(c)
      PROVE BroadcastOK'
  BY <1>5 DEF Subscribe, Unsubscribe, Offer, Close, history
<1>6. ASSUME NEW c \in Conn, ReceiveEvent(c) \/ HandlerStep(c) PROVE BroadcastOK'
  BY <1>6 DEF ReceiveEvent, HandlerStep, Request, RequestDone, ReceiveClosed, Write, WriteLost,
     Expire, Leave, NoticeLeft, hubVars, runVars, history
<1> QED
  BY <1>2, <1>3, <1>4, <1>5, <1>6, StepCases

\* Steps of Run that put nothing into c's channel, and main's
LEMMA OrderRun ==
  ASSUME OrderInv, NEW c \in Conn,
         \/ Broadcast \/ Cancel \/ Register \/ Unregister \/ TakeEvent \/ FanoutEnd
         \/ TakeDone \/ Return \/ UNCHANGED vars
  PROVE  OrderOK(c)'
<1>1. TypeOK /\ BroadcastOK /\ OrderOK(c)
  BY DEF OrderInv
<1>2. /\ \A i \in 1..Len(received[c]) : received[c][i] \in Nat
      /\ \A j \in 1..Len(buf[c]) : buf[c][j] \in Nat
      /\ hand[c] \in Nat /\ runEvent \in Nat
  BY <1>1, ElementOfSeq, MaxEventsAssumption
  DEF TypeOK, ChannelTypeOK, HistoryTypeOK, HandlerTypeOK, RunTypeOK, Event
<1>3. /\ buf' = buf /\ received' = received /\ hand' = hand /\ pc' = pc
  BY DEF Broadcast, Cancel, Register, Unregister, TakeEvent, FanoutEnd, TakeDone, Return, vars, history
<1>4. ASSUME NEW e \in Nat, Past(c, e) PROVE Past(c, e)'
  <2>1. CASE TakeEvent
    <3>1. runEvent' = runEvent + 1 /\ run = "select"
      <4>1. Head(broadcast) = broadcast[1] /\ Len(broadcast) \in Nat \ {0}
        BY <1>1, <2>1, HeadTailProperties, EmptySeq DEF TakeEvent, TypeOK, ChannelTypeOK
      <4> QED
        BY <1>1, <2>1, <4>1 DEF TakeEvent, BroadcastOK
    <3> QED
      BY <1>2, <1>4, <3>1 DEF Past
  <2>2. CASE FanoutEnd
    BY <1>2, <1>4, <2>2 DEF FanoutEnd, Past
  <2>3. CASE Register \/ Unregister \/ TakeDone \/ Return
    BY <1>2, <1>4, <2>3 DEF Register, Unregister, TakeDone, Return, Past
  <2>4. CASE Broadcast \/ Cancel \/ UNCHANGED vars
    BY <1>2, <1>4, <2>4 DEF Broadcast, Cancel, vars, hubVars, runVars, Past
  <2> QED
    BY <2>1, <2>2, <2>3, <2>4
<1> QED
  BY <1>1, <1>2, <1>3, <1>4 DEF OrderOK

\* Steps of another connection
LEMMA OrderOther ==
  ASSUME OrderInv, NEW c \in Conn, NEW d \in Conn, d # c,
         \/ Subscribe(d) \/ Unsubscribe(d) \/ Offer(d) \/ Close(d)
         \/ ReceiveEvent(d) \/ HandlerStep(d)
  PROVE  OrderOK(c)'
<1>1. TypeOK /\ OrderOK(c)
  BY DEF OrderInv
<1> USE <1>1 DEF TypeOK
<1>2. /\ buf'[c] = buf[c] /\ received'[c] = received[c] /\ hand'[c] = hand[c]
      /\ pc'[c] = pc[c]
  BY DEF Subscribe, Unsubscribe, Offer, Close, ReceiveEvent, HandlerStep, Request, RequestDone,
     ReceiveClosed, Write, WriteLost, Expire, Leave, NoticeLeft, Goto, history,
     ChannelTypeOK, HandlerTypeOK, HistoryTypeOK
<1>3. ASSUME NEW e PROVE Past(c, e) => Past(c, e)'
  <2>1. CASE ReceiveEvent(d) \/ HandlerStep(d)
    BY <2>1 DEF ReceiveEvent, HandlerStep, Request, RequestDone, ReceiveClosed, Write, WriteLost,
       Expire, Leave, NoticeLeft, hubVars, runVars, Past
  <2>2. CASE Subscribe(d) \/ Unsubscribe(d)
    BY <2>2 DEF Subscribe, Unsubscribe, Past
  <2>3. CASE Offer(d) \/ Close(d)
    BY <2>3 DEF Offer, Close, Past
  <2> QED
    BY <2>1, <2>2, <2>3
<1> QED
  BY <1>2, <1>3 DEF OrderOK

\* Steps of the connection itself
LEMMA OrderOwn ==
  ASSUME OrderInv, NEW c \in Conn,
         \/ Subscribe(c) \/ Unsubscribe(c) \/ Offer(c) \/ Close(c)
         \/ ReceiveEvent(c) \/ HandlerStep(c)
  PROVE  OrderOK(c)'
<1>1. TypeOK /\ OrderOK(c)
  BY DEF OrderInv
<1>2. /\ received[c] \in Seq(Nat) /\ buf[c] \in Seq(Nat) /\ hand[c] \in Nat /\ runEvent \in Nat
      /\ pc \in [Conn -> HandlerPc] /\ buf \in [Conn -> Seq(Event)]
      /\ received \in [Conn -> Seq(Event)] /\ hand \in [Conn -> 0..MaxEvents]
  BY <1>1, MaxEventsAssumption
  DEF TypeOK, ChannelTypeOK, HistoryTypeOK, HandlerTypeOK, RunTypeOK, Event
<1>3. /\ \A i \in 1..Len(received[c]) : received[c][i] \in Nat
      /\ \A j \in 1..Len(buf[c]) : buf[c][j] \in Nat
  BY <1>2, ElementOfSeq
<1>4. CASE Offer(c)
  <2>1. /\ run = "fanout" /\ run' = run /\ runEvent' = runEvent /\ c \in todo /\ todo' = todo \ {c}
        /\ received' = received /\ hand' = hand /\ pc' = pc
    BY <1>4 DEF Offer
  <2>2. \A e : Past(c, e) <=> e < runEvent
    BY <2>1 DEF Past
  <2>3. \A e : Past(c, e)' <=> e <= runEvent
    BY <2>1 DEF Past
  <2>4. CASE buf' = buf
    BY <1>1, <1>2, <1>3, <2>1, <2>2, <2>3, <2>4 DEF OrderOK
  <2>5. CASE buf' = [buf EXCEPT ![c] = Append(buf[c], runEvent)]
    <3>1. /\ buf'[c] = Append(buf[c], runEvent) /\ Len(buf'[c]) = Len(buf[c]) + 1
          /\ buf'[c][Len(buf[c]) + 1] = runEvent
          /\ \A j \in 1..Len(buf[c]) : buf'[c][j] = buf[c][j]
      BY <1>2, <2>5, AppendProperties
    <3>2. \A j \in 1..Len(buf[c]) : buf[c][j] < runEvent
      BY <1>1, <2>2 DEF OrderOK
    <3>3. Increasing(buf'[c])
      BY <1>1, <1>2, <3>1, <3>2, IncreasingAppend DEF OrderOK
    <3>4. \A j \in 1..Len(buf'[c]) : buf'[c][j] = runEvent \/ j \in 1..Len(buf[c])
      BY <1>2, <3>1
    <3> QED
      BY <1>1, <1>2, <1>3, <2>1, <2>2, <2>3, <3>1, <3>2, <3>3, <3>4 DEF OrderOK
  <2> QED
    BY <1>4, <2>4, <2>5 DEF Offer
<1>5. CASE ReceiveEvent(c)
  <2>1. /\ buf[c] # <<>> /\ buf'[c] = Tail(buf[c]) /\ hand'[c] = Head(buf[c])
        /\ received' = received /\ run' = run /\ todo' = todo /\ runEvent' = runEvent
    BY <1>2, <1>5 DEF ReceiveEvent, hubVars, runVars, history
  <2>2. /\ Head(buf[c]) = buf[c][1] /\ 1 \in 1..Len(buf[c])
        /\ Len(buf'[c]) = Len(buf[c]) - 1
        /\ \A j \in 1..Len(buf'[c]) : buf'[c][j] = buf[c][j + 1] /\ j + 1 \in 1..Len(buf[c])
    BY <1>2, <2>1, HeadTailProperties, EmptySeq
  <2>3. Increasing(buf'[c]) /\ \A j \in 1..Len(buf'[c]) : hand'[c] < buf'[c][j]
    BY <1>1, <1>2, <2>1, IncreasingTail DEF OrderOK
  <2>4. \A e : Past(c, e)' <=> Past(c, e)
    BY <2>1 DEF Past
  <2> QED
    BY <1>1, <1>2, <1>3, <2>1, <2>2, <2>3, <2>4 DEF OrderOK
<1>6. CASE Write(c)
  <2>1. /\ pc[c] = "write" /\ pc'[c] = "loop" /\ buf' = buf
        /\ received'[c] = Append(received[c], hand[c])
        /\ run' = run /\ todo' = todo /\ runEvent' = runEvent
    BY <1>2, <1>6 DEF Write, Goto, hubVars, runVars
  <2>2. /\ Len(received'[c]) = Len(received[c]) + 1
        /\ received'[c][Len(received[c]) + 1] = hand[c]
        /\ \A i \in 1..Len(received[c]) : received'[c][i] = received[c][i]
    BY <1>2, <2>1, AppendProperties
  <2>3. Increasing(received'[c])
    BY <1>1, <1>2, <2>1, IncreasingAppend DEF OrderOK
  <2>4. \A i \in 1..Len(received'[c]) : received'[c][i] = hand[c] \/ i \in 1..Len(received[c])
    BY <1>2, <2>2
  <2>5. \A e : Past(c, e)' <=> Past(c, e)
    BY <2>1 DEF Past
  <2> QED
    BY <1>1, <1>2, <1>3, <2>1, <2>2, <2>3, <2>4, <2>5 DEF OrderOK
<1>7. CASE \/ Subscribe(c) \/ Unsubscribe(c) \/ Close(c) \/ Request(c) \/ RequestDone(c)
           \/ ReceiveClosed(c) \/ WriteLost(c) \/ Expire(c) \/ Leave(c) \/ NoticeLeft(c)
  <2>1. /\ buf' = buf /\ received' = received /\ hand' = hand
        /\ pc'[c] = "write" => pc[c] = "write"
    BY <1>2, <1>7 DEF Subscribe, Unsubscribe, Close, Request, RequestDone, ReceiveClosed, WriteLost,
       Expire, Leave, NoticeLeft, Goto, history
  <2>2. ASSUME NEW e PROVE Past(c, e) => Past(c, e)'
    BY <1>7 DEF Subscribe, Unsubscribe, Close, Request, RequestDone, ReceiveClosed, WriteLost,
       Expire, Leave, NoticeLeft, hubVars, runVars, Past
  <2> QED
    BY <1>1, <2>1, <2>2 DEF OrderOK
<1> QED
  BY <1>4, <1>5, <1>6, <1>7 DEF HandlerStep

\* OrderInv is an invariant.
LEMMA OrderInvariant == Spec => []OrderInv
<1>1. Init => OrderInv
  <2> SUFFICES ASSUME Init PROVE OrderInv
    OBVIOUS
  <2>1. BroadcastOK
    BY DEF Init, BroadcastOK
  <2>2. \A c \in Conn : OrderOK(c)
    BY DEF Init, OrderOK, Increasing
  <2> QED
    BY <2>1, <2>2, InitType DEF OrderInv
<1>2. OrderInv /\ [Next]_vars => OrderInv'
  <2> SUFFICES ASSUME OrderInv, [Next]_vars PROVE OrderInv'
    OBVIOUS
  <2>1. TypeOK' /\ BroadcastOK'
    BY TypeStep, BroadcastStep DEF OrderInv
  <2>2. ASSUME NEW c \in Conn PROVE OrderOK(c)'
    BY StepCases, OrderRun, OrderOther, OrderOwn
  <2> QED
    BY <2>1, <2>2 DEF OrderInv
<1> QED
  BY <1>1, <1>2, PTL DEF Spec

\* Increasing sequences, one below the other, concatenate to an increasing one.
LEMMA IncreasingConcat ==
  ASSUME NEW s \in Seq(Nat), NEW t \in Seq(Nat), Increasing(s), Increasing(t),
         \A i \in 1..Len(s), j \in 1..Len(t) : s[i] < t[j]
  PROVE  Increasing(s \o t)
<1>1. /\ Len(s \o t) = Len(s) + Len(t) /\ Len(s) \in Nat /\ Len(t) \in Nat
      /\ \A i \in 1..Len(s \o t) : (s \o t)[i] = IF i <= Len(s) THEN s[i] ELSE t[i - Len(s)]
  BY ConcatProperties, LenProperties
<1>2. SUFFICES ASSUME NEW i \in 1..Len(s \o t), NEW j \in 1..Len(s \o t), i < j
               PROVE  (s \o t)[i] < (s \o t)[j]
  BY DEF Increasing
<1>3. CASE j <= Len(s)
  BY <1>1, <1>2, <1>3 DEF Increasing
<1>4. CASE i <= Len(s) /\ j > Len(s)
  <2>1. i \in 1..Len(s) /\ j - Len(s) \in 1..Len(t)
    BY <1>1, <1>4
  <2> QED
    BY <1>1, <1>4, <2>1
<1>5. CASE i > Len(s)
  <2>1. i - Len(s) \in 1..Len(t) /\ j - Len(s) \in 1..Len(t) /\ i - Len(s) < j - Len(s)
    BY <1>1, <1>2, <1>5
  <2>2. t[i - Len(s)] < t[j - Len(s)]
    BY <2>1 DEF Increasing
  <2> QED
    BY <1>1, <1>2, <1>5, <2>2
<1> QED
  BY <1>1, <1>3, <1>4, <1>5

\* Browsers read events in order, none twice, and what is on its way follows.
THEOREM Order == Spec => []InOrder
<1>1. OrderInv => InOrder
  <2> SUFFICES ASSUME OrderInv, NEW c \in Conn
               PROVE  Increasing(received[c] \o InHand(c) \o buf[c])
    BY DEF InOrder
  <2>1. OrderOK(c) /\ TypeOK
    BY DEF OrderInv
  <2>2. received[c] \in Seq(Nat) /\ buf[c] \in Seq(Nat) /\ hand[c] \in Nat
    BY <2>1, MaxEventsAssumption DEF TypeOK, HistoryTypeOK, ChannelTypeOK, HandlerTypeOK, Event
  <2>3. CASE pc[c] = "write"
    <3> DEFINE r == Append(received[c], hand[c])
    <3>1. received[c] \o InHand(c) = r
      BY <2>2, <2>3 DEF InHand
    <3>2. /\ r \in Seq(Nat) /\ Len(r) = Len(received[c]) + 1 /\ r[Len(r)] = hand[c]
          /\ \A i \in 1..Len(received[c]) : r[i] = received[c][i]
      BY <2>2, AppendProperties
    <3>3. Increasing(r)
      BY <2>1, <2>2, <2>3, IncreasingAppend DEF OrderOK
    <3>4. ASSUME NEW i \in 1..Len(r), NEW j \in 1..Len(buf[c]) PROVE r[i] < buf[c][j]
      <4>1. i \in 1..Len(received[c]) \/ i = Len(r)
        BY <2>2, <3>2
      <4> QED
        BY <2>1, <2>3, <3>2, <4>1 DEF OrderOK
    <3> HIDE DEF r
    <3>5. Increasing(buf[c])
      BY <2>1 DEF OrderOK
    <3> QED
      BY <2>2, <3>1, <3>2, <3>3, <3>4, <3>5, IncreasingConcat
  <2>4. CASE pc[c] # "write"
    <3>1. received[c] \o InHand(c) = received[c]
      BY <2>2, <2>4, ConcatEmptySeq DEF InHand
    <3> QED
      BY <2>1, <2>2, <3>1, IncreasingConcat DEF OrderOK
  <2> QED
    BY <2>3, <2>4
<1> QED
  BY <1>1, OrderInvariant, PTL

\* Every step of the hub is a step of the feed, or leaves it as it is.
LEMMA FeedStep == OrderInv /\ [Next]_vars => [Feed!FeedNext]_(Feed!feedVars)
<1> SUFFICES ASSUME OrderInv, [Next]_vars PROVE [Feed!FeedNext]_(Feed!feedVars)
  OBVIOUS
<1>1. TypeOK /\ BroadcastOK
  BY DEF OrderInv
<1> DEFINE ph == [c \in Conn |-> Phase(c)]
<1>2. pc \in [Conn -> HandlerPc] /\ received \in [Conn -> Seq(Event)]
  BY <1>1 DEF TypeOK, HandlerTypeOK, HistoryTypeOK
<1> USE DEF Feed!FeedNext, Feed!feedVars
<1>3. CASE Broadcast
  <2>1. sent < MaxEvents /\ sent' = sent + 1 /\ ph' = ph /\ received' = received
    BY <1>3 DEF Broadcast, Phase
  <2> QED
    BY <2>1 DEF Feed!Accept
<1>4. CASE \/ Cancel \/ Register \/ Unregister \/ TakeEvent \/ FanoutEnd \/ TakeDone \/ Return
           \/ UNCHANGED vars
  <2>1. sent' = sent /\ pc' = pc /\ received' = received
    BY <1>4 DEF Cancel, Register, Unregister, TakeEvent, FanoutEnd, TakeDone, Return, vars, history
  <2>2. ph' = ph
    BY <2>1 DEF Phase
  <2> QED
    BY <2>1, <2>2
<1>5. ASSUME NEW c \in Conn, sent' = sent, received' = received,
             \/ pc' = pc
             \/ \E label \in HandlerPc : /\ pc' = [pc EXCEPT ![c] = label]
                                        /\ Phase(c)' = Phase(c)
      PROVE  UNCHANGED Feed!feedVars
  <2>1. \A d \in Conn : Phase(d)' = Phase(d)
    BY <1>2, <1>5 DEF Phase
  <2> QED
    BY <1>5, <2>1
<1>6. ASSUME NEW c \in Conn, Subscribe(c) PROVE Feed!Open(c)
  <2>1. /\ pc[c] = "subscribe" /\ pc' = [pc EXCEPT ![c] = "loop"]
        /\ sent' = sent /\ received' = received
    BY <1>6 DEF Subscribe, Goto
  <2>2. ph[c] = "new" /\ ph' = [ph EXCEPT ![c] = "open"]
    BY <1>2, <2>1 DEF Phase
  <2> QED
    BY <2>1, <2>2 DEF Feed!Open
<1>7. ASSUME NEW c \in Conn, RequestDone(c) \/ ReceiveClosed(c) PROVE Feed!End(c)
  <2>1. /\ pc[c] = "loop" /\ pc' = [pc EXCEPT ![c] = "unsubscribe"]
        /\ sent' = sent /\ received' = received
    BY <1>7 DEF RequestDone, ReceiveClosed, Goto, history
  <2>2. ph[c] = "open" /\ ph' = [ph EXCEPT ![c] = "over"]
    BY <1>2, <2>1 DEF Phase
  <2> QED
    BY <2>1, <2>2 DEF Feed!End
<1>8. ASSUME NEW c \in Conn, Write(c) PROVE \E e \in 1..sent : Feed!Show(c, e)
  <2>1. /\ pc[c] = "write" /\ pc' = [pc EXCEPT ![c] = "loop"]
        /\ sent' = sent /\ received' = [received EXCEPT ![c] = Append(received[c], hand[c])]
    BY <1>8 DEF Write, Goto
  <2>2. ph[c] = "open" /\ ph' = ph
    BY <1>2, <2>1 DEF Phase
  <2>3. /\ \A i \in 1..Len(received[c]) : received[c][i] < hand[c]
        /\ Past(c, hand[c])
    BY <2>1 DEF OrderInv, OrderOK
  <2>4. hand[c] \in 1..sent
    <3>1. hand[c] \in Event /\ runEvent \in Nat /\ sent \in Nat /\ Len(broadcast) \in Nat
      BY <1>1, <2>1, MaxEventsAssumption, LenProperties
      DEF TypeOK, HandlerTypeOK, RunTypeOK, HistoryTypeOK, ChannelTypeOK
    <3>2. hand[c] <= runEvent /\ runEvent <= sent
      BY <1>1, <2>3, <3>1, MaxEventsAssumption DEF Past, BroadcastOK, Event
    <3> QED
      BY <3>1, <3>2, MaxEventsAssumption DEF Event
  <2>5. Feed!Show(c, hand[c])
    BY <2>1, <2>2, <2>3 DEF Feed!Show, Feed!Newer
  <2> QED
    BY <2>4, <2>5
<1>9. ASSUME NEW c \in Conn, Request(c) \/ Unsubscribe(c) \/ ReceiveEvent(c) \/ WriteLost(c)
      PROVE UNCHANGED Feed!feedVars
  <2>1. sent' = sent /\ received' = received
    BY <1>9 DEF Request, Unsubscribe, ReceiveEvent, WriteLost, history
  <2>2. PICK label \in HandlerPc : pc' = [pc EXCEPT ![c] = label] /\ Phase(c)' = Phase(c)
    BY <1>2, <1>9 DEF Request, Unsubscribe, ReceiveEvent, WriteLost, Goto, Phase, HandlerPc
  <2> QED
    BY <1>5, <2>1, <2>2
<1>10. ASSUME NEW c \in Conn, Offer(c) \/ Close(c) \/ Expire(c) \/ Leave(c) \/ NoticeLeft(c)
       PROVE UNCHANGED Feed!feedVars
  <2>1. sent' = sent /\ received' = received /\ pc' = pc
    BY <1>10 DEF Offer, Close, Expire, Leave, NoticeLeft, history
  <2> QED
    BY <1>5, <2>1
<1> QED
  BY <1>3, <1>4, <1>6, <1>7, <1>8, <1>9, <1>10, StepCases DEF HandlerStep

\* The hub implements the feed its browsers are promised.
THEOREM Refinement == Spec => FeedRefined
<1>1. Init => Feed!FeedInit
  BY DEF Init, Feed!FeedInit, Phase
<1> QED
  BY <1>1, FeedStep, OrderInvariant, PTL DEF Spec, FeedRefined, Feed!FeedSpec
=============================================================================
