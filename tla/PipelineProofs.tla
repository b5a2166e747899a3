-------------------------- MODULE PipelineProofs --------------------------
(***************************************************************************)
(* Proofs about Pipeline, for any providers, browsers, capacities and      *)
(* number of ticks.  The pipeline is a behaviour of the pollers and one of *)
(* the hub; what is proved of them is cited, not proved again.             *)
(***************************************************************************)
EXTENDS Pipeline, TLAPS, SequenceTheorems

PollersP == INSTANCE IngestionProofs WITH pc <- pollerPc, MaxCrashes <- 0
FeedP == INSTANCE HubProofs WITH pc <- handlerPc, MaxEvents <- MaxTicks

\* Steps of the pipeline that are none of the pollers
LEMMA LeavesPollers ==
  ASSUME \/ BridgeBroadcast \/ BridgeStop \/ RunStep
         \/ \E c \in Conn : Request(c) \/ HandlerStep(c)
         \/ Shutdown \/ Drained \/ DrainTimesOut \/ Exit \/ UNCHANGED vars
  PROVE  UNCHANGED <<ctxDone, pollersOnly>>
<1>1. CASE BridgeBroadcast \/ BridgeStop
  BY <1>1 DEF BridgeBroadcast, BridgeStop, Feed!Broadcast
<1>2. CASE RunStep
  BY <1>2 DEF RunStep, Feed!TakeEvent, Feed!TakeDone, Feed!RunStep, Feed!Register, Feed!Unregister,
     Feed!FanoutEnd, Feed!Return, Feed!Offer, Feed!Close
<1>3. ASSUME NEW c \in Conn, Request(c) PROVE UNCHANGED <<ctxDone, pollersOnly>>
  BY <1>3 DEF Request, Feed!Request
<1>4. ASSUME NEW c \in Conn, HandlerStep(c) PROVE UNCHANGED <<ctxDone, pollersOnly>>
  BY <1>4 DEF HandlerStep, Feed!Handler, Feed!Network, Feed!Subscribe, Feed!Unsubscribe,
     Feed!RequestDone, Feed!ReceiveEvent, Feed!ReceiveClosed, Feed!Write, Feed!WriteLost,
     Feed!Expire, Feed!Leave, Feed!NoticeLeft
<1>5. CASE Shutdown \/ Drained \/ DrainTimesOut \/ Exit \/ UNCHANGED vars
  BY <1>5 DEF Shutdown, Drained, DrainTimesOut, Exit, vars
<1> QED
  BY <1>1, <1>2, <1>3, <1>4, <1>5

\* Every step of the pipeline is one of the pollers or leaves them alone.
LEMMA PollersStep == [Next]_vars => [PollersP!Next]_(PollersP!vars)
<1> SUFFICES ASSUME [Next]_vars PROVE [PollersP!Next]_(PollersP!vars)
  OBVIOUS
<1> USE DEF Pollers!dbVars, Pollers!tickVars, Pollers!pollVars, Pollers!busVars,
        PollersP!dbVars, PollersP!tickVars, PollersP!pollVars, PollersP!busVars
<1>1. UNCHANGED <<ctxDone, pollersOnly>> => UNCHANGED PollersP!vars
  BY DEF pollersOnly, PollersP!vars
<1>2. CASE Ticker
  BY <1>2 DEF Ticker, Pollers!Tick, PollersP!Tick, PollersP!Next
<1>3. CASE BridgeTake
  BY <1>3 DEF BridgeTake, Pollers!Consume, PollersP!Consume, PollersP!Next
<1>4. CASE Signal
  BY <1>4 DEF Signal, Pollers!Cancel, PollersP!Cancel, Pollers!Calls, PollersP!Calls, PollersP!Next
<1>5. ASSUME NEW d \in Device, PollerStep(d) PROVE PollersP!Next
  <2>1. Pollers!Poller(d)
    BY <1>5 DEF PollerStep
  <2> USE DEF Pollers!Goto, PollersP!Goto, Pollers!CanSucceed, PollersP!CanSucceed,
          Pollers!Sleep, PollersP!Sleep, Pollers!Reading, PollersP!Reading,
          Pollers!BatteryStatus, PollersP!BatteryStatus
  <2>2. Pollers!Stop(d) => PollersP!Stop(d)
    BY DEF Pollers!Stop, PollersP!Stop
  <2>3. Pollers!Receive(d) => PollersP!Receive(d)
    BY DEF Pollers!Receive, PollersP!Receive
  <2>4. Pollers!StatusFails(d) => PollersP!StatusFails(d)
    BY DEF Pollers!StatusFails, PollersP!StatusFails
  <2>5. Pollers!StatusReturns(d) => PollersP!StatusReturns(d)
    BY DEF Pollers!StatusReturns, PollersP!StatusReturns
  <2>6. Pollers!ReadingSaved(d) => PollersP!ReadingSaved(d)
    BY DEF Pollers!ReadingSaved, PollersP!ReadingSaved
  <2>7. Pollers!ReadingFails(d) => PollersP!ReadingFails(d)
    BY DEF Pollers!ReadingFails, PollersP!ReadingFails
  <2>8. Pollers!BatteryReturns(d) => PollersP!BatteryReturns(d)
    BY DEF Pollers!BatteryReturns, PollersP!BatteryReturns
  <2>9. Pollers!NoBattery(d) => PollersP!NoBattery(d)
    BY DEF Pollers!NoBattery, PollersP!NoBattery
  <2>10. Pollers!BatteryPanics(d) => PollersP!BatteryPanics(d)
    BY DEF Pollers!BatteryPanics, PollersP!BatteryPanics
  <2>11. Pollers!BatterySaved(d) => PollersP!BatterySaved(d)
    BY DEF Pollers!BatterySaved, PollersP!BatterySaved
  <2>12. Pollers!BatterySaveFails(d) => PollersP!BatterySaveFails(d)
    BY DEF Pollers!BatterySaveFails, PollersP!BatterySaveFails
  <2>13. Pollers!Publish(d) => PollersP!Publish(d)
    BY DEF Pollers!Publish, PollersP!Publish
  <2>14. Pollers!Wake(d) => PollersP!Wake(d)
    BY DEF Pollers!Wake, PollersP!Wake
  <2>15. PollersP!Poller(d)
    BY <2>1, <2>2, <2>3, <2>4, <2>5, <2>6, <2>7, <2>8, <2>9, <2>10, <2>11, <2>12, <2>13, <2>14
    DEF Pollers!Poller, Pollers!Cycle, PollersP!Poller, PollersP!Cycle
  <2> QED
    BY <2>15 DEF PollersP!Next
<1> QED
  BY <1>1, <1>2, <1>3, <1>4, <1>5, LeavesPollers DEF Next, Main

\* A behaviour of the pipeline is one of the pollers.
LEMMA PollersBehave == Spec => PollersP!Spec
<1>1. Init => PollersP!Init
  BY DEF Init, Pollers!Init, PollersP!Init
<1> QED
  BY <1>1, PollersStep, PTL DEF Spec, PollersP!Spec

\* Steps of the pipeline that are none of the hub
LEMMA LeavesFeed ==
  ASSUME \/ Ticker \/ (\E d \in Device : PollerStep(d)) \/ BridgeTake \/ BridgeStop
         \/ Shutdown \/ Drained \/ DrainTimesOut \/ Exit \/ UNCHANGED vars
  PROVE  UNCHANGED <<ctxDone, feedOnly>>
<1>1. CASE Ticker \/ BridgeTake \/ BridgeStop
  BY <1>1 DEF Ticker, BridgeTake, BridgeStop, Pollers!Tick, Pollers!Consume
<1>2. ASSUME NEW d \in Device, PollerStep(d) PROVE UNCHANGED <<ctxDone, feedOnly>>
  BY <1>2 DEF PollerStep, Pollers!Poller, Pollers!Cycle, Pollers!Stop, Pollers!Receive,
     Pollers!StatusFails, Pollers!StatusReturns, Pollers!ReadingSaved, Pollers!ReadingFails,
     Pollers!BatteryReturns, Pollers!NoBattery, Pollers!BatteryPanics, Pollers!BatterySaved,
     Pollers!BatterySaveFails, Pollers!Publish, Pollers!Wake
<1>3. CASE Shutdown \/ Drained \/ DrainTimesOut \/ Exit \/ UNCHANGED vars
  BY <1>3 DEF Shutdown, Drained, DrainTimesOut, Exit, vars
<1> QED
  BY <1>1, <1>2, <1>3

\* A behaviour of the pipeline is one of the hub.
LEMMA FeedBehaves == Spec => FeedP!Spec
<1>1. Init => FeedP!Init
  BY DEF Init, Feed!Init, FeedP!Init
<1>2. [Next]_vars => [FeedP!Next]_(FeedP!vars)
  <2> SUFFICES ASSUME [Next]_vars PROVE [FeedP!Next]_(FeedP!vars)
    OBVIOUS
  <2> USE DEF Feed!runVars, Feed!hubVars, Feed!netVars, Feed!history, Feed!Goto,
          FeedP!runVars, FeedP!hubVars, FeedP!netVars, FeedP!history, FeedP!Goto
  <2>1. UNCHANGED <<ctxDone, feedOnly>> => UNCHANGED FeedP!vars
    BY DEF feedOnly, FeedP!vars
  <2>2. CASE BridgeBroadcast
    BY <2>2 DEF BridgeBroadcast, Feed!Broadcast, FeedP!Broadcast, FeedP!Next
  <2>3. CASE Signal
    BY <2>3 DEF Signal, Feed!Cancel, FeedP!Cancel, FeedP!Next
  <2>4. CASE RunStep
    <3>1. Feed!TakeEvent => FeedP!TakeEvent
      BY DEF Feed!TakeEvent, FeedP!TakeEvent
    <3>2. Feed!TakeDone => FeedP!TakeDone
      BY DEF Feed!TakeDone, FeedP!TakeDone
    <3>3. Feed!Register \/ Feed!Unregister => FeedP!Register \/ FeedP!Unregister
      BY DEF Feed!Register, FeedP!Register, Feed!Unregister, FeedP!Unregister
    <3>4. Feed!FanoutEnd \/ Feed!Return => FeedP!FanoutEnd \/ FeedP!Return
      BY DEF Feed!FanoutEnd, FeedP!FanoutEnd, Feed!Return, FeedP!Return
    <3>5. ASSUME NEW c \in Conn PROVE Feed!Offer(c) \/ Feed!Close(c) => FeedP!Offer(c) \/ FeedP!Close(c)
      BY DEF Feed!Offer, FeedP!Offer, Feed!Close, FeedP!Close
    <3> QED
      BY <2>4, <3>1, <3>2, <3>3, <3>4, <3>5 DEF RunStep, Feed!RunStep, FeedP!RunStep, FeedP!Next
  <2>5. ASSUME NEW c \in Conn, Request(c) PROVE FeedP!Next
    BY <2>5 DEF Request, Feed!Request, FeedP!Request, FeedP!Next
  <2>6. ASSUME NEW c \in Conn, HandlerStep(c) PROVE FeedP!Next
    <3>1. Feed!Subscribe(c) => FeedP!Subscribe(c)
      BY DEF Feed!Subscribe, FeedP!Subscribe
    <3>2. Feed!Unsubscribe(c) => FeedP!Unsubscribe(c)
      BY DEF Feed!Unsubscribe, FeedP!Unsubscribe
    <3>3. Feed!RequestDone(c) => FeedP!RequestDone(c)
      BY DEF Feed!RequestDone, FeedP!RequestDone
    <3>4. Feed!ReceiveEvent(c) => FeedP!ReceiveEvent(c)
      BY DEF Feed!ReceiveEvent, FeedP!ReceiveEvent
    <3>5. Feed!ReceiveClosed(c) => FeedP!ReceiveClosed(c)
      BY DEF Feed!ReceiveClosed, FeedP!ReceiveClosed
    <3>6. Feed!Write(c) => FeedP!Write(c)
      BY DEF Feed!Write, FeedP!Write
    <3>7. Feed!WriteLost(c) => FeedP!WriteLost(c)
      BY DEF Feed!WriteLost, FeedP!WriteLost
    <3>8. Feed!Network(c) => FeedP!Network(c)
      BY DEF Feed!Network, Feed!Expire, Feed!Leave, Feed!NoticeLeft, Feed!Serving,
         FeedP!Network, FeedP!Expire, FeedP!Leave, FeedP!NoticeLeft, FeedP!Serving
    <3>9. FeedP!Handler(c) \/ FeedP!Network(c)
      BY <2>6, <3>1, <3>2, <3>3, <3>4, <3>5, <3>6, <3>7, <3>8
      DEF HandlerStep, Feed!Handler, FeedP!Handler
    <3> QED
      BY <3>9 DEF FeedP!Next
  <2> QED
    BY <2>1, <2>2, <2>3, <2>4, <2>5, <2>6, LeavesFeed DEF Next, Main
<1> QED
  BY <1>1, <1>2, PTL DEF Spec, FeedP!Spec
-----------------------------------------------------------------------------
(* What the two ends guarantee, and what the bridge adds.                  *)

EndsInv == PollersP!PersistInv /\ FeedP!OrderInv

\* The invariants of the two ends hold in the pipeline.
LEMMA EndsInvariant == Spec => []EndsInv
<1>1. PollersP!DeviceAssumption /\ PollersP!BusCapAssumption /\ PollersP!BoundAssumption
  BY DeviceAssumption, CapacityAssumption, BoundAssumption
  DEF PollersP!DeviceAssumption, PollersP!BusCapAssumption, PollersP!BoundAssumption
<1>2. PollersP!Spec => []PollersP!PersistInv
  BY <1>1, PollersP!PersistInvariant
<1>3. /\ FeedP!ConnAssumption /\ FeedP!MaxEventsAssumption
      /\ FeedP!ClientBufferAssumption /\ FeedP!BroadcastCapAssumption
  <2>1. FeedP!ConnAssumption
    BY ConnAssumption DEF FeedP!ConnAssumption, FeedP!IsFiniteSet, IsFiniteSet
  <2>2. FeedP!MaxEventsAssumption /\ FeedP!ClientBufferAssumption /\ FeedP!BroadcastCapAssumption
    BY CapacityAssumption, BoundAssumption
    DEF FeedP!ClientBufferAssumption, FeedP!BroadcastCapAssumption, FeedP!MaxEventsAssumption
  <2> QED
    BY <2>1, <2>2
<1>4. FeedP!Spec => []FeedP!OrderInv
  BY <1>3, FeedP!OrderInvariant
<1> QED
  BY <1>2, <1>4, PollersBehave, FeedBehaves, PTL DEF EndsInv

\* The invariant behind the refinement of ReadingLog holds in the pipeline.
LEMMA LogsBehave == Spec => []PollersP!LogInv
<1>1. PollersP!DeviceAssumption /\ PollersP!BusCapAssumption /\ PollersP!BoundAssumption
  BY DeviceAssumption, CapacityAssumption, BoundAssumption
  DEF PollersP!DeviceAssumption, PollersP!BusCapAssumption, PollersP!BoundAssumption
<1>2. PollersP!Spec => []PollersP!LogInv
  BY <1>1, PollersP!LogInvariant
<1> QED
  BY <1>2, PollersBehave, PTL

\* Where the bridge is and what it holds
BridgeOK == /\ bridge \in {"select", "broadcast", "stopped"}
            /\ bridge = "broadcast" => \E n \in Nat : held = <<n>>
            /\ bridge # "broadcast" => held = <<>>

\* BridgeKeepsOrder, for the bridge's event and for the bus
PendingOK == /\ Len(published) = sent + Len(held) + Len(bus)
             /\ bridge = "broadcast" => held[1] = sent + 1
             /\ \A i \in 1..Len(bus) : bus[i] = sent + Len(held) + i

BridgeInv == EndsInv /\ BridgeOK /\ PendingOK

\* The types the proofs about the bridge need
LEMMA EndsTypes ==
  EndsInv => /\ published \in Seq(PollersP!EventType) /\ Len(published) \in Nat
             /\ bus \in Seq(Nat) /\ Len(bus) \in Nat
             /\ sent \in Nat
<1> SUFFICES ASSUME EndsInv
             PROVE  /\ published \in Seq(PollersP!EventType) /\ Len(published) \in Nat
                    /\ bus \in Seq(Nat) /\ Len(bus) \in Nat
                    /\ sent \in Nat
  OBVIOUS
<1>1. published \in Seq(PollersP!EventType) /\ bus \in Seq(Nat)
  BY DEF EndsInv, PollersP!PersistInv, PollersP!TypeOK, PollersP!BusTypeOK
<1>2. sent \in Nat
  BY BoundAssumption DEF EndsInv, FeedP!OrderInv, FeedP!TypeOK, FeedP!HistoryTypeOK
<1> QED
  BY <1>1, <1>2, LenProperties

\* The length of what the bridge holds
LEMMA HeldLength ==
  BridgeOK => /\ held \in Seq(Nat)
              /\ bridge = "broadcast" => Len(held) = 1 /\ held = <<held[1]>>
              /\ bridge # "broadcast" => held = <<>> /\ Len(held) = 0
<1>1. ASSUME NEW n \in Nat PROVE <<n>> \in Seq(Nat) /\ Len(<<n>>) = 1 /\ <<n>>[1] = n
  OBVIOUS
<1>2. <<>> \in Seq(Nat) /\ Len(<<>>) = 0
  BY EmptySeq
<1> QED
  BY <1>1, <1>2 DEF BridgeOK

\* Steps that touch neither the bus, the bridge nor the count of events accepted
LEMMA BridgeStill ==
  ASSUME BridgeInv, \/ Ticker \/ RunStep \/ Main \/ UNCHANGED vars
                    \/ \E c \in Conn : Request(c) \/ HandlerStep(c)
  PROVE  UNCHANGED <<bus, published, sent, bridgeVars>>
<1>1. CASE Ticker \/ UNCHANGED vars
  BY <1>1 DEF Ticker, Pollers!Tick, Pollers!busVars, vars, pollersOnly, feedOnly
<1>2. CASE RunStep
  BY <1>2 DEF RunStep, Feed!TakeEvent, Feed!TakeDone, Feed!RunStep, Feed!Register, Feed!Unregister,
     Feed!FanoutEnd, Feed!Return, Feed!Offer, Feed!Close, Feed!history, pollersOnly
<1>3. ASSUME NEW c \in Conn, Request(c) PROVE UNCHANGED <<bus, published, sent, bridgeVars>>
  BY <1>3 DEF Request, Feed!Request, Feed!history, pollersOnly
<1>4. ASSUME NEW c \in Conn, HandlerStep(c) PROVE UNCHANGED <<bus, published, sent, bridgeVars>>
  BY <1>4 DEF HandlerStep, Feed!Handler, Feed!Network, Feed!Subscribe, Feed!Unsubscribe,
     Feed!RequestDone, Feed!ReceiveEvent, Feed!ReceiveClosed, Feed!Write, Feed!WriteLost,
     Feed!Expire, Feed!Leave, Feed!NoticeLeft, Feed!history, pollersOnly
<1>5. CASE Main
  BY <1>5 DEF Main, Signal, Shutdown, Drained, DrainTimesOut, Exit, Pollers!Cancel, Pollers!busVars,
     Feed!Cancel, Feed!history, pollersOnly, feedOnly
<1> QED
  BY <1>1, <1>2, <1>3, <1>4, <1>5

\* A poller puts the event it publishes at the end of the bus, or leaves both alone.
LEMMA PollerPublishes ==
  ASSUME NEW d \in Device, PollerStep(d)
  PROVE  /\ UNCHANGED <<sent, bridgeVars>>
         /\ \/ UNCHANGED <<bus, published>>
            \/ \E e : /\ published' = Append(published, e)
                      /\ bus' = Append(bus, Len(published'))
<1>1. Pollers!Poller(d) /\ UNCHANGED <<sent, bridgeVars>>
  BY DEF PollerStep, feedOnly
<1>2. CASE Pollers!Publish(d)
  BY <1>1, <1>2 DEF Pollers!Publish, Pollers!busVars
<1>3. CASE ~Pollers!Publish(d)
  BY <1>1, <1>3 DEF Pollers!Poller, Pollers!Cycle, Pollers!Stop, Pollers!Receive,
     Pollers!StatusFails, Pollers!StatusReturns, Pollers!ReadingSaved, Pollers!ReadingFails,
     Pollers!BatteryReturns, Pollers!NoBattery, Pollers!BatteryPanics, Pollers!BatterySaved,
     Pollers!BatterySaveFails, Pollers!Wake, Pollers!busVars
<1> QED
  BY <1>1, <1>2, <1>3

\* Every step keeps the events pending between the pollers and the hub in order.
LEMMA PendingStep == BridgeInv /\ EndsInv' /\ [Next]_vars => BridgeOK' /\ PendingOK'
<1> SUFFICES ASSUME BridgeInv, EndsInv', [Next]_vars PROVE BridgeOK' /\ PendingOK'
  OBVIOUS
<1>1. BridgeOK /\ PendingOK
  BY DEF BridgeInv
<1>2. /\ published \in Seq(PollersP!EventType) /\ Len(published) \in Nat
      /\ bus \in Seq(Nat) /\ Len(bus) \in Nat /\ sent \in Nat
  BY EndsTypes DEF BridgeInv
<1>3. /\ held \in Seq(Nat)
      /\ bridge = "broadcast" => Len(held) = 1 /\ held = <<held[1]>>
      /\ bridge # "broadcast" => held = <<>> /\ Len(held) = 0
  BY <1>1, HeldLength
<1>4. CASE \/ Ticker \/ RunStep \/ Main \/ UNCHANGED vars
           \/ \E c \in Conn : Request(c) \/ HandlerStep(c)
  BY <1>1, <1>4, BridgeStill DEF BridgeOK, PendingOK, bridgeVars
<1>5. CASE BridgeStop
  BY <1>1, <1>3, <1>5 DEF BridgeStop, BridgeOK, PendingOK, pollersOnly, feedOnly
<1>6. CASE BridgeTake
  <2>1. /\ bridge = "select" /\ bridge' = "broadcast" /\ held' = <<Head(bus)>> /\ held = <<>>
        /\ bus # <<>> /\ bus' = Tail(bus) /\ published' = published /\ sent' = sent
    BY <1>3, <1>6 DEF BridgeTake, Pollers!Consume, feedOnly
  <2>2. /\ Head(bus) = bus[1] /\ Head(bus) \in Nat /\ Len(bus) \in Nat \ {0}
        /\ Len(bus') = Len(bus) - 1
        /\ \A i \in 1..Len(bus') : bus'[i] = bus[i + 1] /\ i + 1 \in 1..Len(bus)
    BY <1>2, <2>1, HeadTailProperties, EmptySeq
  <2>3. Len(held) = 0 /\ Len(held') = 1 /\ held'[1] = Head(bus)
    BY <1>3, <2>1
  <2>4. BridgeOK'
    BY <2>1, <2>2 DEF BridgeOK
  <2> QED
    <3>1. Len(published') = sent' + Len(held') + Len(bus')
      <4>1. Len(published) = sent + Len(held) + Len(bus)
        BY <1>1 DEF PendingOK
      <4>2. Len(published') = Len(published)
        BY <2>1
      <4> QED
        BY <1>2, <2>1, <2>2, <2>3, <4>1, <4>2
    <3>2. held'[1] = sent' + 1
      BY <1>1, <1>2, <2>1, <2>2, <2>3 DEF PendingOK
    <3>3. ASSUME NEW i \in 1..Len(bus') PROVE bus'[i] = sent' + Len(held') + i
      <4>1. i + 1 \in 1..Len(bus) /\ bus'[i] = bus[i + 1]
        BY <2>2
      <4> QED
        BY <1>1, <1>2, <2>1, <2>3, <4>1 DEF PendingOK
    <3> QED
      BY <2>1, <2>4, <3>1, <3>2, <3>3 DEF PendingOK
<1>7. CASE BridgeBroadcast
  <2>1. /\ bridge = "broadcast" /\ bridge' = "select" /\ held' = <<>>
        /\ sent' = sent + 1 /\ bus' = bus /\ published' = published
    BY <1>7 DEF BridgeBroadcast, Feed!Broadcast, pollersOnly
  <2>2. Len(held) = 1 /\ Len(held') = 0
    BY <1>3, <2>1
  <2> QED
    BY <1>1, <1>2, <2>1, <2>2 DEF BridgeOK, PendingOK
<1>8. ASSUME NEW d \in Device, PollerStep(d) PROVE BridgeOK' /\ PendingOK'
  <2>1. held' = held /\ bridge' = bridge /\ sent' = sent
    BY <1>8, PollerPublishes DEF bridgeVars
  <2>2. CASE UNCHANGED <<bus, published>>
    BY <1>1, <2>1, <2>2 DEF BridgeOK, PendingOK
  <2>3. ASSUME NEW e, published' = Append(published, e), bus' = Append(bus, Len(published'))
        PROVE  BridgeOK' /\ PendingOK'
    <3>1. Len(published') = Len(published) + 1
      BY <1>2, <2>3
    <3>2. /\ Len(bus') = Len(bus) + 1 /\ bus'[Len(bus) + 1] = Len(published')
          /\ \A i \in 1..Len(bus) : bus'[i] = bus[i]
      BY <1>2, <2>3, <3>1, AppendProperties
    <3>3. Len(published') = sent + Len(held) + (Len(bus) + 1) /\ Len(held) \in Nat
      BY <1>1, <1>2, <1>3, <3>1 DEF PendingOK
    <3>4. \A i \in 1..Len(bus') : i \in 1..Len(bus) \/ i = Len(bus) + 1
      BY <1>2, <3>2
    <3> QED
      BY <1>1, <1>2, <2>1, <3>2, <3>3, <3>4 DEF BridgeOK, PendingOK
  <2> QED
    BY <1>8, <2>2, <2>3, PollerPublishes
<1> QED
  BY <1>4, <1>5, <1>6, <1>7, <1>8 DEF Next

\* BridgeInv is an invariant.
LEMMA BridgeInvariant == Spec => []BridgeInv
<1>1. Init => BridgeOK /\ PendingOK
  BY EmptySeq DEF Init, Pollers!Init, Feed!Init, BridgeOK, PendingOK
<1>2. EndsInv /\ EndsInv' /\ BridgeOK /\ PendingOK /\ [Next]_vars => BridgeOK' /\ PendingOK'
  BY PendingStep DEF BridgeInv
<1> QED
  BY <1>1, <1>2, EndsInvariant, PTL DEF Spec, BridgeInv

\* Between a poller and the hub no event is lost, doubled or overtaken.
THEOREM BridgeOrder == Spec => []BridgeKeepsOrder
<1>1. BridgeInv => BridgeKeepsOrder
  <2> SUFFICES ASSUME BridgeInv PROVE BridgeKeepsOrder
    OBVIOUS
  <2>1. BridgeOK /\ PendingOK /\ bus \in Seq(Nat) /\ Len(bus) \in Nat /\ sent \in Nat
    BY EndsTypes DEF BridgeInv
  <2>2. /\ held \in Seq(Nat)
        /\ bridge = "broadcast" => Len(held) = 1 /\ held = <<held[1]>>
        /\ bridge # "broadcast" => held = <<>> /\ Len(held) = 0
    BY <2>1, HeldLength
  <2>3. /\ Len(held \o bus) = Len(held) + Len(bus)
        /\ \A i \in 1..Len(held) + Len(bus) :
             (held \o bus)[i] = IF i <= Len(held) THEN held[i] ELSE bus[i - Len(held)]
    BY <2>1, <2>2, ConcatProperties
  <2>4. ASSUME NEW i \in 1..Len(held) + Len(bus) PROVE (held \o bus)[i] = sent + i
    <3>1. CASE i <= Len(held)
      BY <2>1, <2>2, <2>3, <3>1 DEF PendingOK
    <3>2. CASE i > Len(held)
      <4>1. i - Len(held) \in 1..Len(bus) /\ Len(held) \in Nat
        BY <2>1, <2>2, <3>2
      <4> QED
        BY <2>1, <2>3, <3>2, <4>1 DEF PendingOK
    <3> QED
      BY <2>1, <2>2, <3>1, <3>2
  <2> QED
    BY <2>1, <2>2, <2>3, <2>4 DEF PendingOK, BridgeKeepsOrder
<1> QED
  BY <1>1, BridgeInvariant, PTL

\* No browser is ever shown a number that is not in the database.
THEOREM Shown == Spec => []ShownIsPersisted
<1>1. BridgeInv => ShownIsPersisted
  <2> SUFFICES ASSUME BridgeInv, NEW c \in Conn, NEW i \in 1..Len(received[c])
               PROVE  LET n == received[c][i]
                      IN  /\ n \in 1..Len(published)
                          /\ Pollers!Reading(published[n].device, published[n].at) \in rows
                          /\ published[n].charged =>
                               Pollers!BatteryStatus(published[n].device, published[n].at) \in rows
    BY DEF ShownIsPersisted
  <2> DEFINE n == received[c][i]
  <2>1. /\ FeedP!TypeOK /\ FeedP!BroadcastOK /\ FeedP!OrderOK(c)
        /\ PollersP!PublishedArePersisted /\ PendingOK /\ BridgeOK
    BY DEF BridgeInv, EndsInv, FeedP!OrderInv, PollersP!PersistInv
  <2>2. n \in FeedP!Event
    BY <2>1, ElementOfSeq DEF FeedP!TypeOK, FeedP!HistoryTypeOK
  <2>3. /\ n \in Nat \ {0} /\ runEvent \in Nat /\ Len(broadcast) \in Nat
        /\ sent \in Nat /\ Len(published) \in Nat /\ Len(bus) \in Nat /\ Len(held) \in Nat
    BY <2>1, <2>2, BoundAssumption, LenProperties, EndsTypes, HeldLength
    DEF BridgeInv, FeedP!Event, FeedP!TypeOK, FeedP!RunTypeOK, FeedP!ChannelTypeOK
  <2>4. n <= runEvent
    BY <2>1, <2>3 DEF FeedP!OrderOK, FeedP!Past
  <2>5. runEvent <= sent /\ sent <= Len(published)
    BY <2>1, <2>3 DEF FeedP!BroadcastOK, PendingOK
  <2> HIDE DEF n
  <2>6. n \in 1..Len(published)
    BY <2>3, <2>4, <2>5
  <2> QED
    BY <2>1, <2>6 DEF PollersP!PublishedArePersisted, PollersP!Reading, PollersP!BatteryStatus,
       Pollers!Reading, Pollers!BatteryStatus, n
<1> QED
  BY <1>1, BridgeInvariant, PTL
-----------------------------------------------------------------------------
(* The pipeline implements LiveView.                                       *)

\* What a browser was ever handed, or is being handed, was published.
LEMMA ReadWasPublished ==
  ASSUME BridgeInv, NEW c \in Conn
  PROVE  /\ received[c] \in Seq(Nat) /\ Len(received[c]) \in Nat
         /\ \A i \in 1..Len(received[c]) : received[c][i] \in 1..Len(published)
         /\ handlerPc[c] = "write" =>
              /\ hand[c] \in 1..Len(published)
              /\ \A i \in 1..Len(received[c]) : received[c][i] < hand[c]
<1>1. FeedP!TypeOK /\ FeedP!BroadcastOK /\ FeedP!OrderOK(c) /\ PendingOK /\ BridgeOK
  BY DEF BridgeInv, EndsInv, FeedP!OrderInv
<1>2. received[c] \in Seq(FeedP!Event) /\ (handlerPc[c] = "write" => hand[c] \in FeedP!Event)
  BY <1>1 DEF FeedP!TypeOK, FeedP!HistoryTypeOK, FeedP!HandlerTypeOK
<1>3. \A i \in 1..Len(received[c]) : received[c][i] \in FeedP!Event
  BY <1>2, ElementOfSeq
<1>4. FeedP!Event \subseteq Nat \ {0}
  BY BoundAssumption DEF FeedP!Event
<1>5. /\ runEvent \in Nat /\ Len(broadcast) \in Nat /\ sent \in Nat
      /\ Len(published) \in Nat /\ Len(bus) \in Nat /\ Len(held) \in Nat
  BY <1>1, BoundAssumption, LenProperties, EndsTypes, HeldLength
  DEF BridgeInv, FeedP!TypeOK, FeedP!RunTypeOK, FeedP!ChannelTypeOK
<1>6. runEvent <= sent /\ sent <= Len(published)
  BY <1>1, <1>5 DEF FeedP!BroadcastOK, PendingOK
<1>7. \A e \in FeedP!Event : FeedP!Past(c, e) => e \in 1..Len(published)
  BY <1>4, <1>5, <1>6 DEF FeedP!Past
<1>8. received[c] \in Seq(Nat)
  BY <1>2, <1>4, SeqMonotonic
<1> QED
  BY <1>1, <1>2, <1>3, <1>7, <1>8, LenProperties DEF FeedP!OrderOK

\* Steps that add nothing to what browsers read
LEMMA NothingRead ==
  ASSUME [Next]_vars, \A c \in Conn : ~(HandlerStep(c) /\ Feed!Write(c))
  PROVE  received' = received
<1>1. CASE \/ Ticker \/ BridgeTake \/ BridgeStop \/ Shutdown \/ Drained \/ DrainTimesOut \/ Exit
           \/ \E d \in Device : PollerStep(d)
  BY <1>1 DEF Ticker, BridgeTake, BridgeStop, Shutdown, Drained, DrainTimesOut, Exit, PollerStep, feedOnly
<1>2. CASE BridgeBroadcast \/ Signal \/ UNCHANGED vars
  BY <1>2 DEF BridgeBroadcast, Signal, vars, feedOnly, Feed!Broadcast, Feed!Cancel, Feed!history
<1>3. CASE RunStep
  BY <1>3 DEF RunStep, Feed!TakeEvent, Feed!TakeDone, Feed!RunStep, Feed!Register, Feed!Unregister,
     Feed!FanoutEnd, Feed!Return, Feed!Offer, Feed!Close, Feed!history
<1>4. ASSUME NEW c \in Conn, Request(c) PROVE received' = received
  BY <1>4 DEF Request, Feed!Request, Feed!history
<1>5. ASSUME NEW c \in Conn, HandlerStep(c), ~Feed!Write(c) PROVE received' = received
  BY <1>5 DEF HandlerStep, Feed!Handler, Feed!Network, Feed!Subscribe, Feed!Unsubscribe,
     Feed!RequestDone, Feed!ReceiveEvent, Feed!ReceiveClosed, Feed!WriteLost,
     Feed!Expire, Feed!Leave, Feed!NoticeLeft, Feed!history
<1> QED
  BY <1>1, <1>2, <1>3, <1>4, <1>5 DEF Next, Main

\* No step changes an event that was published.
LEMMA PublishedStays ==
  ASSUME BridgeInv, [Next]_vars
  PROVE  \A n \in 1..Len(published) : n \in 1..Len(published') /\ published'[n] = published[n]
<1>1. published \in Seq(PollersP!EventType) /\ Len(published) \in Nat
  BY EndsTypes DEF BridgeInv
<1>2. published' = published \/ \E e : published' = Append(published, e)
  <2>1. CASE \/ Ticker \/ RunStep \/ Main \/ UNCHANGED vars
             \/ \E c \in Conn : Request(c) \/ HandlerStep(c)
    BY <2>1, BridgeStill
  <2>2. CASE BridgeTake \/ BridgeBroadcast \/ BridgeStop
    BY <2>2 DEF BridgeTake, BridgeBroadcast, BridgeStop, Pollers!Consume, pollersOnly
  <2>3. ASSUME NEW d \in Device, PollerStep(d)
        PROVE  published' = published \/ \E e : published' = Append(published, e)
    BY <2>3, PollerPublishes
  <2> QED
    BY <2>1, <2>2, <2>3 DEF Next
<1> QED
  BY <1>1, <1>2

\* A sequence is one of any set its elements are in.
LEMMA SeqOfElements ==
  ASSUME NEW S, NEW T, NEW s \in Seq(S), \A i \in 1..Len(s) : s[i] \in T
  PROVE  s \in Seq(T)
<1>1. s = [i \in 1..Len(s) |-> s[i]] /\ Len(s) \in Nat
  BY LenProperties
<1> QED
  BY <1>1

\* Mapping a function over a sequence commutes with Append.
LEMMA MapAppend ==
  ASSUME NEW S, NEW T, NEW f \in [S -> T], NEW s \in Seq(S), NEW e \in S
  PROVE  [i \in 1..Len(Append(s, e)) |-> f[Append(s, e)[i]]]
           = Append([i \in 1..Len(s) |-> f[s[i]]], f[e])
<1> DEFINE m == [i \in 1..Len(s) |-> f[s[i]]]
           t == [i \in 1..Len(Append(s, e)) |-> f[Append(s, e)[i]]]
<1>1. /\ Len(Append(s, e)) = Len(s) + 1 /\ Len(s) \in Nat
      /\ \A i \in 1..Len(s) : Append(s, e)[i] = s[i]
      /\ Append(s, e)[Len(s) + 1] = e
  BY AppendProperties, LenProperties
<1>2. m \in Seq(T) /\ Len(m) = Len(s)
  <2>1. \A i \in 1..Len(s) : f[s[i]] \in T
    BY ElementOfSeq
  <2> QED
    BY <1>1, <2>1
<1>3. t \in Seq(T) /\ Len(t) = Len(s) + 1
  <2>1. \A i \in 1..Len(s) + 1 : f[Append(s, e)[i]] \in T
    BY <1>1, ElementOfSeq
  <2> QED
    BY <1>1, <2>1
<1>4. f[e] \in T
  OBVIOUS
<1> HIDE DEF m
<1>5. /\ Append(m, f[e]) \in Seq(T)
      /\ Len(Append(m, f[e])) = Len(s) + 1
      /\ \A i \in 1..Len(s) : Append(m, f[e])[i] = m[i]
      /\ Append(m, f[e])[Len(s) + 1] = f[e]
  BY <1>2, <1>4, AppendProperties
<1>6. \A i \in 1..Len(s) + 1 : t[i] = Append(m, f[e])[i]
  BY <1>1, <1>5 DEF m
<1> HIDE DEF t
<1>7. t = Append(m, f[e])
  BY <1>3, <1>5, <1>6, SeqEqual
<1> QED
  BY <1>7 DEF t, m

\* Every step of the pipeline is a step of the view, or leaves it alone.
LEMMA ViewStep ==
  BridgeInv /\ PollersP!LogInv /\ [Next]_vars => [View!ViewNext]_(View!viewVars)
<1> SUFFICES ASSUME BridgeInv, PollersP!LogInv, [Next]_vars
             PROVE  View!ViewNext \/ UNCHANGED <<clock, rows, published, shown>>
  BY DEF View!viewVars, View!logVars
<1>1. CASE \A c \in Conn : ~(HandlerStep(c) /\ Feed!Write(c))
  <2>1. received' = received
    BY <1>1, NothingRead
  <2>2. shown' = shown
    BY <2>1, ReadWasPublished, PublishedStays DEF shown
  <2>3. PollersP!Log!LogNext \/ UNCHANGED <<clock, rows, published>>
    <3>1. PollersP!DeviceAssumption /\ PollersP!BusCapAssumption /\ PollersP!BoundAssumption
      BY DeviceAssumption, CapacityAssumption, BoundAssumption
      DEF PollersP!DeviceAssumption, PollersP!BusCapAssumption, PollersP!BoundAssumption
    <3> QED
      BY <3>1, PollersStep, PollersP!LogStep DEF PollersP!Log!logVars
  <2>4. PollersP!Log!LogNext => View!LogNext
    BY DEF PollersP!Log!LogNext, PollersP!Log!Pass, PollersP!Log!StoreReading,
       PollersP!Log!StoreBattery, PollersP!Log!Announce, PollersP!Log!Latest,
       PollersP!Log!Reading, PollersP!Log!BatteryStatus,
       View!LogNext, View!Pass, View!StoreReading, View!StoreBattery, View!Announce,
       View!Latest, View!Reading, View!BatteryStatus
  <2> QED
    BY <2>2, <2>3, <2>4 DEF View!ViewNext
<1>2. ASSUME NEW c \in Conn, HandlerStep(c), Feed!Write(c) PROVE View!ViewNext
  <2>1. /\ handlerPc[c] = "write"
        /\ received' = [received EXCEPT ![c] = Append(@, hand[c])]
        /\ UNCHANGED <<clock, rows, published>>
    BY <1>2 DEF HandlerStep, Feed!Write, pollersOnly
  <2>2. /\ received[c] \in Seq(Nat) /\ Len(received[c]) \in Nat
        /\ \A i \in 1..Len(received[c]) : received[c][i] \in 1..Len(published)
        /\ hand[c] \in 1..Len(published)
        /\ \A i \in 1..Len(received[c]) : received[c][i] < hand[c]
    BY <2>1, ReadWasPublished
  <2> DEFINE e == published[hand[c]]
  <2>3. \A i \in 1..Len(shown[c]) : shown[c][i].device = e.device => shown[c][i].at < e.at
    <3>1. Len(shown[c]) = Len(received[c])
          /\ \A i \in 1..Len(received[c]) : shown[c][i] = published[received[c][i]]
      BY <2>2 DEF shown
    <3>2. PollersP!PublishedInOrder
      BY DEF BridgeInv, EndsInv, PollersP!PersistInv
    <3>3. \A m, n \in 1..Len(published) :
            m < n /\ published[m].device = published[n].device => published[m].at < published[n].at
      BY <3>2 DEF PollersP!PublishedInOrder
    <3> HIDE DEF shown
    <3>4. ASSUME NEW i \in 1..Len(shown[c]), shown[c][i].device = e.device
          PROVE  shown[c][i].at < e.at
      <4>1. /\ shown[c][i] = published[received[c][i]]
            /\ received[c][i] \in 1..Len(published) /\ received[c][i] < hand[c]
        BY <2>2, <3>1
      <4> QED
        BY <2>2, <3>3, <3>4, <4>1
    <3> QED
      BY <3>4
  <2>4. shown' = [shown EXCEPT ![c] = Append(@, e)]
    <3>1. received \in [Conn -> Seq(FeedP!Event)]
      BY DEF BridgeInv, EndsInv, FeedP!OrderInv, FeedP!TypeOK, FeedP!HistoryTypeOK
    <3>2. received'[c] = Append(received[c], hand[c])
          /\ \A b \in Conn : b # c => received'[b] = received[b]
      BY <2>1, <3>1
    <3>3. [i \in 1..Len(received'[c]) |-> published[received'[c][i]]] = Append(shown[c], e)
      <4>1. published \in [1..Len(published) -> PollersP!EventType]
        BY EndsTypes, LenProperties DEF BridgeInv
      <4>2. received[c] \in Seq(1..Len(published))
        BY <2>2, SeqOfElements
      <4>3. shown[c] = [i \in 1..Len(received[c]) |-> published[received[c][i]]]
        BY DEF shown
      <4> QED
        BY <2>2, <3>2, <4>1, <4>2, <4>3, MapAppend
    <3>4. shown'[c] = Append(shown[c], e)
      BY <2>1, <3>3 DEF shown
    <3>5. \A b \in Conn \ {c} : shown'[b] = shown[b]
      BY <2>1, <3>2 DEF shown
    <3>6. /\ shown = [b \in Conn |-> shown[b]]
          /\ shown' = [b \in Conn |-> shown'[b]]
      BY DEF shown
    <3> HIDE DEF shown
    <3> QED
      BY <3>4, <3>5, <3>6
  <2>5. View!Show(c, e)
    BY <2>1, <2>3, <2>4 DEF View!Show, View!logVars
  <2> QED
    BY <2>2, <2>5 DEF View!ViewNext
<1> QED
  BY <1>1, <1>2

\* End to end, a browser is shown what is in the database, and the readings of a
\* device in the order of their timestamps.
THEOREM Refinement == Spec => ViewRefined
<1>1. Init => View!ViewInit
  BY EmptySeq DEF Init, Pollers!Init, Feed!Init, View!ViewInit, View!LogInit, shown
<1> QED
  BY <1>1, ViewStep, BridgeInvariant, LogsBehave, PTL DEF Spec, ViewRefined, View!ViewSpec
=============================================================================
