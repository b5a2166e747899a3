-------------------------- MODULE IngestionProofs --------------------------
(***************************************************************************)
(* Proofs about Ingestion, for any providers, capacities and bounds.       *)
(***************************************************************************)
EXTENDS Ingestion, TLAPS, SequenceTheorems, FiniteSetTheorems

\* Every step keeps the types of the ticker, of the process and of main's cancel.
LEMMA TickType == TypeOK /\ [Next]_vars => TickTypeOK'
<1> SUFFICES ASSUME TypeOK, [Next]_vars PROVE TickTypeOK'
  OBVIOUS
<1> USE BoundAssumption DEF TypeOK, TickTypeOK
<1>1. CASE Tick
  <2>1. /\ ctxDone' = ctxDone /\ crashes' = crashes
        /\ ticks' = ticks + 1 /\ ticks < MaxTicks
    BY <1>1 DEF Tick
  <2>2. tick' \in 0..1 /\ missed' \in Nat
    BY <1>1 DEF Tick
  <2> QED
    BY <2>1, <2>2
<1>2. CASE Consume \/ Cancel
  BY <1>2 DEF Consume, Cancel, tickVars
<1>3. CASE Crash
  <2>1. ctxDone' \in BOOLEAN
    BY <1>3, Zenon DEF Crash
  <2>2. tick' = 0 /\ missed' = 0 /\ ticks' = ticks /\ crashes < MaxCrashes /\ crashes' = crashes + 1
    BY <1>3, Zenon DEF Crash
  <2> QED
    BY <2>1, <2>2
<1>4. ASSUME NEW d \in Device, Poller(d) PROVE TickTypeOK'
  BY <1>4 DEF Poller, Cycle, Stop, Receive, StatusFails, StatusReturns, ReadingSaved, ReadingFails,
     BatteryReturns, NoBattery, BatteryPanics, BatterySaved, BatterySaveFails, Publish, Wake,
     tickVars
<1>5. CASE UNCHANGED vars
  BY <1>5 DEF vars, tickVars
<1> QED
  BY <1>1, <1>2, <1>3, <1>4, <1>5 DEF Next

\* Every step keeps the types of what the pollers own.
LEMMA PollType == TypeOK /\ [Next]_vars => PollTypeOK'
<1> SUFFICES ASSUME TypeOK, [Next]_vars PROVE PollTypeOK'
  OBVIOUS
<1> USE DEF TypeOK, PollTypeOK, Pc, Calls, Time
<1>1. CASE Tick \/ Consume \/ UNCHANGED vars
  BY <1>1 DEF Tick, Consume, vars, pollVars
<1>2. CASE Cancel
  BY <1>2 DEF Cancel
<1>3. CASE Crash
  BY <1>3 DEF Crash
<1>4. ASSUME NEW d \in Device, Poller(d) PROVE PollTypeOK'
  <2> USE DEF Goto
  <2>1. CASE Stop(d) \/ Receive(d)
    BY <2>1 DEF Stop, Receive
  <2>2. CASE StatusFails(d) \/ ReadingFails(d) \/ BatteryPanics(d)
    BY <2>2 DEF StatusFails, ReadingFails, BatteryPanics, Sleep
  <2>3. CASE StatusReturns(d)
    BY <2>3 DEF StatusReturns
  <2>4. CASE ReadingSaved(d) \/ BatteryReturns(d) \/ NoBattery(d)
    BY <2>4 DEF ReadingSaved, BatteryReturns, NoBattery
  <2>5. CASE BatterySaved(d) \/ BatterySaveFails(d)
    BY <2>5 DEF BatterySaved, BatterySaveFails
  <2>6. CASE Publish(d) \/ Wake(d)
    BY <2>6 DEF Publish, Wake
  <2> QED
    BY <1>4, <2>1, <2>2, <2>3, <2>4, <2>5, <2>6 DEF Poller, Cycle
<1> QED
  BY <1>1, <1>2, <1>3, <1>4 DEF Next

\* Every step keeps the rows those of registered devices.
LEMMA DbType == TypeOK /\ (\A d \in Device : CycleOK(d)) /\ [Next]_vars => DbTypeOK'
<1> SUFFICES ASSUME TypeOK, \A d \in Device : CycleOK(d), [Next]_vars PROVE DbTypeOK'
  OBVIOUS
<1> USE DEF TypeOK, DbTypeOK, dbVars
<1>1. CASE Tick \/ Consume \/ Crash \/ UNCHANGED vars
  BY <1>1 DEF Tick, Consume, Crash, vars
<1>2. CASE Cancel
  BY <1>2 DEF Cancel
<1>3. ASSUME NEW d \in Device, Poller(d) PROVE DbTypeOK'
  <2>1. now[d] \in Time
    BY DEF PollTypeOK
  <2>2. d \in Registered => Reading(d, now[d]) \in RowType /\ BatteryStatus(d, now[d]) \in RowType
    BY <2>1 DEF Reading, BatteryStatus, RowType
  <2>3. CASE ReadingSaved(d) \/ ReadingFails(d)
    BY <2>2, <2>3 DEF ReadingSaved, ReadingFails
  <2>4. CASE BatterySaved(d) \/ BatterySaveFails(d)
    <3>1. Reading(d, now[d]) \in RowType
      BY <2>4 DEF BatterySaved, BatterySaveFails, CycleOK
    <3>2. d \in Registered
      BY <3>1 DEF Reading, RowType
    <3> QED
      BY <2>2, <2>4, <3>2 DEF BatterySaved, BatterySaveFails
  <2>5. CASE \/ Stop(d) \/ Receive(d) \/ StatusFails(d) \/ StatusReturns(d) \/ BatteryReturns(d)
             \/ NoBattery(d) \/ BatteryPanics(d) \/ Publish(d) \/ Wake(d)
    BY <2>5 DEF Stop, Receive, StatusFails, StatusReturns, BatteryReturns, NoBattery, BatteryPanics,
       Publish, Wake
  <2> QED
    BY <1>3, <2>3, <2>4, <2>5 DEF Poller, Cycle
<1> QED
  BY <1>1, <1>2, <1>3 DEF Next

\* Every step keeps the bus and what was published well formed.
LEMMA BusType == TypeOK /\ [Next]_vars => BusTypeOK'
<1> SUFFICES ASSUME TypeOK, [Next]_vars PROVE BusTypeOK'
  OBVIOUS
<1> USE DEF TypeOK, BusTypeOK, busVars
<1>1. CASE Tick \/ Cancel \/ UNCHANGED vars
  BY <1>1 DEF Tick, Cancel, vars
<1>2. CASE Consume
  <2>1. bus # <<>> /\ bus' = Tail(bus) /\ published' = published
    BY <1>2 DEF Consume
  <2>2. bus' \in Seq(Nat) /\ Len(bus') = Len(bus) - 1
    BY <2>1, HeadTailProperties
  <2>3. Len(bus) \in Nat
    BY LenProperties
  <2> QED
    BY <2>1, <2>2, <2>3, BusCapAssumption
<1>3. CASE Crash
  BY <1>3, BusCapAssumption DEF Crash
<1>4. ASSUME NEW d \in Device, Poller(d) PROVE BusTypeOK'
  <2>1. CASE Publish(d)
    <3> DEFINE e == [device |-> d, at |-> now[d], charged |-> d \in charged]
    <3>1. e \in EventType
      BY DEF EventType, PollTypeOK
    <3>2. CASE Len(bus) < BusCap
      <4>1. published' = Append(published, e) /\ bus' = Append(bus, Len(published'))
        BY <2>1, <3>2 DEF Publish
      <4>2. published' \in Seq(EventType)
        BY <3>1, <4>1
      <4>3. bus' \in Seq(Nat) /\ Len(bus') = Len(bus) + 1
        BY <4>1, <4>2
      <4> QED
        BY <3>2, <4>2, <4>3, BusCapAssumption
    <3>3. CASE ~(Len(bus) < BusCap)
      BY <2>1, <3>3 DEF Publish
    <3> QED
      BY <3>2, <3>3
  <2>2. CASE ~Publish(d)
    BY <1>4, <2>2 DEF Poller, Cycle, Stop, Receive, StatusFails, StatusReturns, ReadingSaved,
       ReadingFails, BatteryReturns, NoBattery, BatteryPanics, BatterySaved, BatterySaveFails, Wake
  <2> QED
    BY <2>1, <2>2
<1> QED
  BY <1>1, <1>2, <1>3, <1>4 DEF Next

\* The program starts in a state of the invariant.
LEMMA InitPersist == Init => PersistInv
<1> SUFFICES ASSUME Init PROVE PersistInv
  OBVIOUS
<1> USE BoundAssumption, BusCapAssumption DEF Init
<1>1. TypeOK
  <2>1. TickTypeOK
    <3>1. ctxDone \in BOOLEAN
      BY Zenon
    <3> QED
      BY <3>1 DEF TickTypeOK
  <2>2. DbTypeOK
    BY DEF DbTypeOK
  <2>3. PollTypeOK
    BY DEF PollTypeOK, Pc, Calls, Time
  <2>4. BusTypeOK
    BY EmptySeq DEF BusTypeOK
  <2> QED
    BY <2>1, <2>2, <2>3, <2>4 DEF TypeOK
<1>2. \A d \in Device : CycleOK(d)
  BY DEF CycleOK
<1>3. PublishedArePersisted /\ BatteryRowsHaveReadings /\ PublishedInOrder
  BY DEF PublishedArePersisted, BatteryRowsHaveReadings, PublishedInOrder
<1> QED
  BY <1>1, <1>2, <1>3 DEF PersistInv

\* No step takes a row out of the database.
LEMMA RowsGrow == [Next]_vars => rows \subseteq rows'
<1> SUFFICES ASSUME [Next]_vars PROVE rows \subseteq rows'
  OBVIOUS
<1>1. CASE Tick \/ Consume \/ Cancel \/ Crash \/ UNCHANGED vars
  BY <1>1 DEF Tick, Consume, Cancel, Crash, vars, dbVars
<1>2. ASSUME NEW d \in Device, Poller(d) PROVE rows \subseteq rows'
  BY <1>2 DEF Poller, Cycle, Stop, Receive, StatusFails, StatusReturns, ReadingSaved, ReadingFails,
     BatteryReturns, NoBattery, BatteryPanics, BatterySaved, BatterySaveFails, Publish, Wake, dbVars
<1> QED
  BY <1>1, <1>2 DEF Next

\* Only Publish adds to what was published, and it adds the cycle's own event.
LEMMA PublishedGrows ==
  ASSUME TypeOK, [Next]_vars, published' # published
  PROVE  \E d \in Device : /\ Publish(d) 
                           /\ published' = Append(published, [device |-> d, at |-> now[d],
                                                            charged |-> d \in charged])
<1>1. CASE Tick \/ Consume \/ Cancel \/ Crash \/ UNCHANGED vars
  BY <1>1 DEF Tick, Consume, Cancel, Crash, vars, busVars
<1>2. ASSUME NEW d \in Device, Poller(d) PROVE Publish(d)
  BY <1>2 DEF Poller, Cycle, Stop, Receive, StatusFails, StatusReturns, ReadingSaved, ReadingFails,
     BatteryReturns, NoBattery, BatteryPanics, BatterySaved, BatterySaveFails, Wake, busVars
<1>3. ASSUME NEW d \in Device, Publish(d)
      PROVE  published' = Append(published, [device |-> d, at |-> now[d], charged |-> d \in charged])
  BY <1>3 DEF Publish, busVars
<1> QED
  BY <1>1, <1>2, <1>3 DEF Next

\* A poller leaves the cycles of the others alone.
LEMMA OtherCycle ==
  ASSUME TypeOK, NEW d \in Device, NEW e \in Device, d # e, Poller(e)
  PROVE  /\ pc'[d] = pc[d] /\ now'[d] = now[d]
         /\ d \in charged' <=> d \in charged
         /\ clock' \in Nat /\ clock <= clock'
<1> USE DEF TypeOK, PollTypeOK, Time, Goto, Sleep
<1>1. CASE Stop(e) \/ Receive(e) \/ Wake(e) \/ Publish(e)
  BY <1>1 DEF Stop, Receive, Wake, Publish
<1>2. CASE StatusFails(e) \/ ReadingFails(e) \/ BatteryPanics(e)
  BY <1>2 DEF StatusFails, ReadingFails, BatteryPanics
<1>3. CASE StatusReturns(e)
  BY <1>3 DEF StatusReturns
<1>4. CASE ReadingSaved(e) \/ BatteryReturns(e) \/ NoBattery(e)
  BY <1>4 DEF ReadingSaved, BatteryReturns, NoBattery
<1>5. CASE BatterySaved(e) \/ BatterySaveFails(e)
  BY <1>5 DEF BatterySaved, BatterySaveFails
<1> QED
  BY <1>1, <1>2, <1>3, <1>4, <1>5 DEF Poller, Cycle

\* Every step keeps what holds in the course of a cycle.
LEMMA CycleStep == PersistInv /\ [Next]_vars => \A d \in Device : CycleOK(d)'
<1> SUFFICES ASSUME PersistInv, [Next]_vars, NEW d \in Device PROVE CycleOK(d)'
  OBVIOUS
<1>1. TypeOK /\ CycleOK(d) /\ rows \subseteq rows' /\ clock \in Nat /\ now[d] \in Nat
  BY RowsGrow DEF PersistInv, TypeOK, PollTypeOK, Time
<1>2. published \in Seq(EventType) /\ \A n \in 1..Len(published) : published[n].at \in Nat
  <2>1. published \in Seq(EventType)
    BY <1>1 DEF TypeOK, BusTypeOK
  <2>2. \A n \in 1..Len(published) : published[n] \in EventType
    BY <2>1, ElementOfSeq
  <2> QED
    BY <2>1, <2>2 DEF EventType, Time
<1> USE <1>1
<1>3. CASE Tick \/ Consume \/ Cancel \/ UNCHANGED vars
  <2>1. /\ pc' = pc /\ now' = now /\ charged' = charged /\ clock' = clock /\ published' = published
    BY <1>3 DEF Tick, Consume, Cancel, vars, pollVars, busVars
  <2> QED
    BY <2>1 DEF CycleOK, Reading, BatteryStatus
<1>4. CASE Crash
  <2>1. /\ pc'[d] = "select" /\ now'[d] = 0 /\ clock' = clock /\ published' = published
    BY <1>4 DEF Crash
  <2> QED
    BY <2>1 DEF CycleOK
<1>5. ASSUME NEW e \in Device, e # d, Poller(e) PROVE CycleOK(d)'
  <2>1. /\ pc'[d] = pc[d] /\ now'[d] = now[d]
        /\ d \in charged' <=> d \in charged
        /\ clock' \in Nat /\ clock <= clock'
    BY <1>5, OtherCycle
  <2>2. CASE published' = published
    BY <1>2, <2>1, <2>2 DEF CycleOK, Reading, BatteryStatus
  <2>3. CASE published' # published
    <3>1. PICK f \in Device : Publish(f) /\ published' = Append(published,
             [device |-> f, at |-> now[f], charged |-> f \in charged])
      BY <2>3, PublishedGrows
    <3>2. f # d
      BY <2>1, <3>1 DEF Publish, Goto, TypeOK, PollTypeOK
    <3> QED
      BY <1>2, <2>1, <3>1, <3>2 DEF CycleOK, Reading, BatteryStatus
  <2> QED
    BY <2>2, <2>3
<1>6. CASE Poller(d)
  <2> USE DEF TypeOK, PollTypeOK, Time, Goto, Sleep, CycleOK
  <2>1. CASE Stop(d) \/ Receive(d) \/ Wake(d)
    BY <1>2, <2>1 DEF Stop, Receive, Wake, busVars
  <2>2. CASE StatusFails(d) \/ ReadingFails(d) \/ BatteryPanics(d)
    BY <1>2, <2>2 DEF StatusFails, ReadingFails, BatteryPanics, busVars
  <2>3. CASE StatusReturns(d)
    BY <1>2, <2>3 DEF StatusReturns, busVars
  <2>4. CASE ReadingSaved(d)
    BY <1>2, <2>4 DEF ReadingSaved, Reading, busVars
  <2>5. CASE BatteryReturns(d) \/ NoBattery(d)
    BY <1>2, <2>5 DEF BatteryReturns, NoBattery, Reading, BatteryStatus, busVars
  <2>6. CASE BatterySaved(d)
    BY <1>2, <2>6 DEF BatterySaved, Reading, BatteryStatus, busVars
  <2>7. CASE BatterySaveFails(d)
    BY <1>2, <2>7 DEF BatterySaveFails, Reading, BatteryStatus, busVars
  <2>8. CASE Publish(d)
    <3>1. CASE published' = published
      BY <1>2, <2>8, <3>1 DEF Publish
    <3>2. CASE published' = Append(published, [device |-> d, at |-> now[d], charged |-> d \in charged])
      BY <1>2, <2>8, <3>2 DEF Publish
    <3> QED
      BY <2>8, <3>1, <3>2 DEF Publish, busVars
  <2> QED
    BY <1>6, <2>1, <2>2, <2>3, <2>4, <2>5, <2>6, <2>7, <2>8 DEF Poller, Cycle
<1> QED
  BY <1>3, <1>4, <1>5, <1>6 DEF Next

\* Every step keeps the three invariants on what was published and persisted.
LEMMA PersistStep ==
  PersistInv /\ [Next]_vars =>
    PublishedArePersisted' /\ BatteryRowsHaveReadings' /\ PublishedInOrder'
<1> SUFFICES ASSUME PersistInv, [Next]_vars
             PROVE  PublishedArePersisted' /\ BatteryRowsHaveReadings' /\ PublishedInOrder'
  OBVIOUS
<1> USE DEF PersistInv
<1>1. rows \subseteq rows'
  BY RowsGrow
<1>2. published \in Seq(EventType)
  BY DEF TypeOK, BusTypeOK
<1>3. PublishedArePersisted' /\ PublishedInOrder'
  <2>1. CASE published' = published
    BY <1>1, <2>1 DEF PublishedArePersisted, PublishedInOrder, Reading, BatteryStatus
  <2>2. CASE published' # published
    <3>1. PICK d \in Device : Publish(d) /\ published' = Append(published,
             [device |-> d, at |-> now[d], charged |-> d \in charged])
      BY <2>2, PublishedGrows
    <3>2. pc[d] = "publish" /\ CycleOK(d)
      BY <3>1 DEF Publish
    <3>3. PublishedArePersisted'
      <4> DEFINE e == [device |-> d, at |-> now[d], charged |-> d \in charged]
      <4>1. /\ Len(published') = Len(published) + 1
            /\ published'[Len(published')] = e
            /\ \A n \in 1..Len(published) : published'[n] = published[n]
        BY <1>2, <3>1
      <4>2. Len(published) \in Nat
        BY <1>2
      <4>3. /\ Reading(e.device, e.at) \in rows'
            /\ e.charged => BatteryStatus(e.device, e.at) \in rows'
        BY <1>1, <3>2 DEF CycleOK
      <4> HIDE DEF e
      <4>4. ASSUME NEW n \in 1..Len(published')
            PROVE  /\ Reading(published'[n].device, published'[n].at) \in rows'
                   /\ published'[n].charged =>
                        BatteryStatus(published'[n].device, published'[n].at) \in rows'
        <5>1. CASE n = Len(published')
          BY <4>1, <4>3, <5>1
        <5>2. CASE n # Len(published')
          <6>1. n \in 1..Len(published)
            BY <4>1, <4>2, <5>2
          <6> QED
            BY <1>1, <4>1, <6>1 DEF PublishedArePersisted
        <5> QED
          BY <5>1, <5>2
      <4> QED
        BY <4>4 DEF PublishedArePersisted, Reading, BatteryStatus
    <3>4. PublishedInOrder'
      <4>1. \A k \in 1..Len(published) :
              published[k].device = d => published[k].at < now[d]
        BY <1>2, <3>2 DEF CycleOK
      <4>2. ASSUME NEW m \in 1..Len(published'), NEW n \in 1..Len(published'),
                   m < n, published'[m].device = published'[n].device
            PROVE  published'[m].at < published'[n].at
        <5>1. m \in 1..Len(published) /\ published'[m] = published[m]
          BY <3>1, <4>2
        <5>2. CASE n \in 1..Len(published)
          BY <1>2, <3>1, <4>2, <5>1, <5>2 DEF PublishedInOrder
        <5>3. CASE n \notin 1..Len(published)
          BY <3>1, <4>1, <4>2, <5>1, <5>3
        <5> QED
          BY <5>2, <5>3
      <4> QED
        BY <4>2 DEF PublishedInOrder
    <3> QED
      BY <3>3, <3>4
  <2> QED
    BY <2>1, <2>2
<1>4. BatteryRowsHaveReadings'
  <2> USE DEF BatteryRowsHaveReadings, Reading, BatteryStatus
  <2>1. CASE rows' = rows
    BY <2>1
  <2>2. ASSUME NEW d \in Device, ReadingSaved(d) \/ ReadingFails(d) PROVE BatteryRowsHaveReadings'
    BY <2>2 DEF ReadingSaved, ReadingFails
  <2>3. ASSUME NEW d \in Device, BatterySaved(d) \/ BatterySaveFails(d) PROVE BatteryRowsHaveReadings'
    <3>1. Reading(d, now[d]) \in rows
      BY <2>3 DEF BatterySaved, BatterySaveFails, CycleOK
    <3> QED
      BY <2>3, <3>1 DEF BatterySaved, BatterySaveFails
  <2>4. ASSUME NEW d \in Device, \/ Stop(d) \/ Receive(d) \/ StatusFails(d) \/ StatusReturns(d)
                                 \/ BatteryReturns(d) \/ NoBattery(d) \/ BatteryPanics(d)
                                 \/ Publish(d) \/ Wake(d)
        PROVE rows' = rows
    BY <2>4 DEF Stop, Receive, StatusFails, StatusReturns, BatteryReturns, NoBattery, BatteryPanics,
       Publish, Wake, dbVars
  <2>5. CASE Tick \/ Consume \/ Cancel \/ Crash \/ UNCHANGED vars
    BY <2>1, <2>5 DEF Tick, Consume, Cancel, Crash, vars, dbVars
  <2> QED
    BY <2>1, <2>2, <2>3, <2>4, <2>5 DEF Next, Poller, Cycle
<1> QED
  BY <1>3, <1>4

\* PersistInv is an invariant: it holds at the start and no step breaks it.
THEOREM PersistInvariant == Spec => []PersistInv
<1>1. PersistInv /\ [Next]_vars => PersistInv'
  BY TickType, PollType, DbType, BusType, CycleStep, PersistStep DEF PersistInv, TypeOK
<1> QED
  BY <1>1, InitPersist, PTL DEF Spec

\* Every reachable state is type correct.
THEOREM TypeCorrect == Spec => []TypeOK
BY PersistInvariant, PTL DEF PersistInv

\* Nothing is published, and so nothing shown, that the database does not hold.
THEOREM Persisted == Spec => []PublishedArePersisted
BY PersistInvariant, PTL DEF PersistInv

\* Every battery row comes with the reading row of its cycle.
THEOREM BatteryRowsJoin == Spec => []BatteryRowsHaveReadings
BY PersistInvariant, PTL DEF PersistInv

\* The events of a device are published in the order of their timestamps.
THEOREM Ordered == Spec => []PublishedInOrder
BY PersistInvariant, PTL DEF PersistInv
-----------------------------------------------------------------------------
(* Cancellation.                                                           *)

\* Rows of d that were written after cancel()
LateRows(d) == {r \in rows \ rowsAtCancel : r.device = d}

\* The one late row of a poller is that of the call cancel() found under way: as
\* long as the call is, there is none.
CancelOK(d) == /\ d \in inFlight => pc[d] \in Calls /\ LateRows(d) = {}
               /\ \E r : LateRows(d) \subseteq {r}

CancelInv == ctxDone => \A d \in Device : CancelOK(d)

\* A call with a context that is done writes nothing unless it was under way, and
\* then it is not under way any more.
LEMMA WriteOnce ==
  ASSUME TypeOK, ctxDone, NEW d \in Device, Poller(d)
  PROVE  /\ ctxDone' = ctxDone /\ rowsAtCancel' = rowsAtCancel
         /\ inFlight' = inFlight \ {d}
         /\ \A e \in Device : e # d => pc'[e] = pc[e]
         /\ \/ rows' = rows
            \/ d \in inFlight /\ \E r : r.device = d /\ rows' = rows \cup {r}
<1> USE DEF TypeOK, PollTypeOK, Goto, Sleep, CanSucceed, dbVars
<1>1. CASE Stop(d) \/ Receive(d) \/ Wake(d) \/ Publish(d)
  BY <1>1 DEF Stop, Receive, Wake, Publish
<1>2. CASE StatusFails(d) \/ StatusReturns(d) \/ BatteryReturns(d) \/ NoBattery(d) \/ BatteryPanics(d)
  BY <1>2 DEF StatusFails, StatusReturns, BatteryReturns, NoBattery, BatteryPanics
<1>3. CASE ReadingSaved(d) \/ ReadingFails(d)
  BY <1>3 DEF ReadingSaved, ReadingFails, Reading
<1>4. CASE BatterySaved(d) \/ BatterySaveFails(d)
  BY <1>4 DEF BatterySaved, BatterySaveFails, BatteryStatus
<1> QED
  BY <1>1, <1>2, <1>3, <1>4 DEF Poller, Cycle

\* Every step keeps the late rows in accord with the calls under way.
LEMMA CancelStep == TypeOK /\ CancelInv /\ [Next]_vars => CancelInv'
<1> SUFFICES ASSUME TypeOK, CancelInv, [Next]_vars, ctxDone', NEW d \in Device
             PROVE  CancelOK(d)'
  BY DEF CancelInv
<1>1. CASE Cancel
  BY <1>1 DEF Cancel, CancelOK, LateRows
<1>2. CASE Crash
  BY <1>2 DEF Crash
<1>3. CASE Tick \/ Consume \/ UNCHANGED vars
  BY <1>3 DEF Tick, Consume, vars, dbVars, pollVars, CancelInv, CancelOK, LateRows
<1>4. ASSUME NEW e \in Device, Poller(e) PROVE CancelOK(d)'
  <2>1. ctxDone
    BY <1>4 DEF Poller, Cycle, Stop, Receive, StatusFails, StatusReturns, ReadingSaved, ReadingFails,
       BatteryReturns, NoBattery, BatteryPanics, BatterySaved, BatterySaveFails, Publish, Wake
  <2>2. CancelOK(d)
    BY <2>1 DEF CancelInv
  <2>3. /\ rowsAtCancel' = rowsAtCancel /\ inFlight' = inFlight \ {e}
        /\ d # e => pc'[d] = pc[d]
        /\ \/ rows' = rows
           \/ e \in inFlight /\ \E r : r.device = e /\ rows' = rows \cup {r}
    BY <1>4, <2>1, WriteOnce
  <2>4. CASE rows' = rows
    BY <2>2, <2>3, <2>4 DEF CancelOK, LateRows
  <2>5. ASSUME NEW r, e \in inFlight, r.device = e, rows' = rows \cup {r} PROVE CancelOK(d)'
    <3>1. CASE e = d
      <4>1. LateRows(d) = {} /\ d \notin inFlight'
        BY <2>2, <2>3, <2>5, <3>1 DEF CancelOK
      <4>2. LateRows(d)' \subseteq {r}
        BY <2>3, <2>5, <4>1 DEF LateRows
      <4> QED
        BY <4>1, <4>2 DEF CancelOK
    <3>2. CASE e # d
      <4>1. LateRows(d)' = LateRows(d)
        BY <2>3, <2>5, <3>2 DEF LateRows
      <4> QED
        BY <2>2, <2>3, <3>2, <4>1 DEF CancelOK
    <3> QED
      BY <3>1, <3>2
  <2> QED
    BY <2>3, <2>4, <2>5
<1> QED
  BY <1>1, <1>2, <1>3, <1>4 DEF Next

\* After cancel() a poller writes one row at most, however many cycles, ticks and
\* failures come before it stops.
THEOREM CancelReachesWrites == Spec => []AtMostOneRowAfterCancel
<1>1. Init => CancelInv
  BY DEF Init, CancelInv
<1>2. CancelInv => AtMostOneRowAfterCancel
  <2> SUFFICES ASSUME CancelInv, ctxDone, NEW d \in Device
               PROVE  Cardinality(LateRows(d)) <= 1
    BY DEF AtMostOneRowAfterCancel, LateRows
  <2>1. PICK r : LateRows(d) \subseteq {r}
    BY DEF CancelInv, CancelOK
  <2>2. LateRows(d) = {} \/ LateRows(d) = {r}
    BY <2>1
  <2>3. Cardinality({}) = 0 /\ Cardinality({r}) = 1
    BY FS_EmptySet, FS_Singleton
  <2>4. CASE LateRows(d) = {}
    BY <2>3, <2>4
  <2>5. CASE LateRows(d) = {r}
    BY <2>3, <2>5
  <2> QED
    BY <2>2, <2>4, <2>5
<1> QED
  BY <1>1, <1>2, CancelStep, TypeCorrect, PTL DEF Spec
-----------------------------------------------------------------------------
(* A provider whose device is not registered.                              *)

\* Such a poller never gets past SaveReading.
LEMMA UnregisteredStaysShort ==
  ASSUME PersistInv, NEW d \in Device \ Registered
  PROVE  pc[d] \notin {"battery", "saveBattery", "publish"}
<1>1. pc[d] \in {"battery", "saveBattery", "publish"} => Reading(d, now[d]) \in RowType
  BY DEF PersistInv, CycleOK, TypeOK, DbTypeOK
<1> QED
  BY <1>1 DEF Reading, RowType

\* Every step keeps the factor of such a poller in accord with its cycles.
LEMMA BackoffStep ==
  PersistInv /\ UnregisteredBacksOffForever /\ [Next]_vars => UnregisteredBacksOffForever'
<1> SUFFICES ASSUME PersistInv, UnregisteredBacksOffForever, [Next]_vars, NEW d \in Device \ Registered
             PROVE  polls'[d] = factor'[d] + (IF pc'[d] \in Calls \cup {"publish"} THEN 1 ELSE 0)
  BY DEF UnregisteredBacksOffForever
<1>1. /\ polls[d] = factor[d] + (IF pc[d] \in Calls \cup {"publish"} THEN 1 ELSE 0)
      /\ pc[d] \notin {"battery", "saveBattery", "publish"}
      /\ pc \in [Device -> Pc] /\ polls \in [Device -> Nat] /\ factor \in [Device -> Nat]
  BY UnregisteredStaysShort DEF PersistInv, TypeOK, PollTypeOK, UnregisteredBacksOffForever
<1> USE <1>1
<1>2. CASE Tick \/ Consume \/ Cancel \/ UNCHANGED vars
  BY <1>2 DEF Tick, Consume, Cancel, vars, pollVars
<1>3. CASE Crash
  BY <1>3 DEF Crash, Calls
<1>4. ASSUME NEW e \in Device, e # d, Poller(e)
      PROVE  polls'[d] = polls[d] /\ factor'[d] = factor[d] /\ pc'[d] = pc[d]
  <2> USE DEF Goto, Sleep
  <2>1. CASE Stop(e) \/ Receive(e) \/ Wake(e) \/ Publish(e)
    BY <1>4, <2>1 DEF Stop, Receive, Wake, Publish
  <2>2. CASE StatusFails(e) \/ ReadingFails(e) \/ BatteryPanics(e)
    BY <1>4, <2>2 DEF StatusFails, ReadingFails, BatteryPanics
  <2>3. CASE StatusReturns(e) \/ ReadingSaved(e) \/ BatteryReturns(e) \/ NoBattery(e)
    BY <1>4, <2>3 DEF StatusReturns, ReadingSaved, BatteryReturns, NoBattery
  <2>4. CASE BatterySaved(e) \/ BatterySaveFails(e)
    BY <1>4, <2>4 DEF BatterySaved, BatterySaveFails
  <2> QED
    BY <1>4, <2>1, <2>2, <2>3, <2>4 DEF Poller, Cycle
<1>5. CASE Poller(d)
  <2> USE DEF Goto, Sleep, Calls
  <2>1. CASE Stop(d) \/ Receive(d) \/ Wake(d)
    BY <2>1 DEF Stop, Receive, Wake
  <2>2. CASE StatusFails(d) \/ ReadingFails(d)
    BY <2>2 DEF StatusFails, ReadingFails
  <2>3. CASE StatusReturns(d)
    BY <2>3 DEF StatusReturns
  <2>4. ~ReadingSaved(d) /\ ~BatteryReturns(d) /\ ~NoBattery(d) /\ ~BatteryPanics(d)
    BY DEF ReadingSaved, BatteryReturns, NoBattery, BatteryPanics
  <2>5. ~BatterySaved(d) /\ ~BatterySaveFails(d) /\ ~Publish(d)
    BY DEF BatterySaved, BatterySaveFails, Publish
  <2> QED
    BY <1>5, <2>1, <2>2, <2>3, <2>4, <2>5 DEF Poller, Cycle
<1> QED
  BY <1>2, <1>3, <1>4, <1>5 DEF Next

\* The poller of a device that is not registered fails in every cycle.
THEOREM Unregistered == Spec => []UnregisteredBacksOffForever
<1>1. Init => UnregisteredBacksOffForever
  BY DEF Init, UnregisteredBacksOffForever, Calls
<1> QED
  BY <1>1, BackoffStep, PersistInvariant, PTL DEF Spec
-----------------------------------------------------------------------------
(* The pollers implement ReadingLog.                                       *)

\* What the step of a poller stores: nothing, the reading of its cycle while it is
\* in SaveReading, or the battery status while it is in SaveBatteryStatus.
LEMMA Stores ==
  ASSUME NEW d \in Device, Poller(d)
  PROVE  \/ rows' = rows
         \/ /\ pc[d] = "saveReading"
            /\ rows' = rows \cup {Reading(d, now[d])}
            /\ UNCHANGED <<now, clock, published>>
         \/ /\ pc[d] = "saveBattery"
            /\ rows' = rows \cup {BatteryStatus(d, now[d])}
            /\ UNCHANGED <<now, clock, published>>
<1> USE DEF dbVars, busVars, Sleep
<1>1. CASE Stop(d) \/ Receive(d) \/ Wake(d) \/ Publish(d)
  BY <1>1 DEF Stop, Receive, Wake, Publish
<1>2. CASE StatusFails(d) \/ StatusReturns(d) \/ BatteryReturns(d) \/ NoBattery(d) \/ BatteryPanics(d)
  BY <1>2 DEF StatusFails, StatusReturns, BatteryReturns, NoBattery, BatteryPanics
<1>3. CASE ReadingSaved(d) \/ ReadingFails(d)
  BY <1>3 DEF ReadingSaved, ReadingFails
<1>4. CASE BatterySaved(d) \/ BatterySaveFails(d)
  BY <1>4 DEF BatterySaved, BatterySaveFails
<1> QED
  BY <1>1, <1>2, <1>3, <1>4 DEF Poller, Cycle

\* Where a poller's own step takes it, as far as RowsOK asks
LEMMA Moves ==
  ASSUME TypeOK, NEW d \in Device, Poller(d)
  PROVE  /\ clock' \in Nat /\ clock <= clock'
         /\ pc'[d] = "saveReading" => now'[d] = clock + 1 /\ rows' = rows
         /\ pc'[d] \in {"battery", "saveBattery", "publish"} =>
              now'[d] = now[d] /\ pc[d] \in {"saveReading", "battery", "saveBattery"}
         /\ pc'[d] = "battery" => pc[d] = "saveReading"
         /\ pc'[d] = "saveBattery" => pc[d] = "battery" /\ rows' = rows
<1> USE DEF TypeOK, PollTypeOK, Time, Goto, Sleep, dbVars
<1>1. CASE Stop(d) \/ Receive(d) \/ Wake(d) \/ Publish(d)
  BY <1>1 DEF Stop, Receive, Wake, Publish
<1>2. CASE StatusFails(d) \/ ReadingFails(d) \/ BatteryPanics(d)
  BY <1>2 DEF StatusFails, ReadingFails, BatteryPanics
<1>3. CASE StatusReturns(d)
  BY <1>3 DEF StatusReturns
<1>4. CASE ReadingSaved(d) \/ BatteryReturns(d) \/ NoBattery(d)
  BY <1>4 DEF ReadingSaved, BatteryReturns, NoBattery
<1>5. CASE BatterySaved(d) \/ BatterySaveFails(d)
  BY <1>5 DEF BatterySaved, BatterySaveFails
<1> QED
  BY <1>1, <1>2, <1>3, <1>4, <1>5 DEF Poller, Cycle

\* Every step keeps the rows of a device behind its poller.
LEMMA RowsStep == LogInv /\ [Next]_vars => \A d \in Device : RowsOK(d)'
<1> SUFFICES ASSUME LogInv, [Next]_vars, NEW d \in Device PROVE RowsOK(d)'
  OBVIOUS
<1>1. TypeOK /\ RowsOK(d) /\ CycleOK(d) /\ clock \in Nat /\ now[d] \in Nat
  BY DEF LogInv, PersistInv, TypeOK, PollTypeOK, Time
<1>2. \A r \in rows : r.at \in Nat
  BY <1>1 DEF TypeOK, DbTypeOK, RowType, Time
<1>3. CASE Tick \/ Consume \/ Cancel \/ UNCHANGED vars
  <2>1. rows' = rows /\ clock' = clock /\ pc' = pc /\ now' = now
    BY <1>3 DEF Tick, Consume, Cancel, vars, dbVars, pollVars
  <2> QED
    BY <1>1, <2>1 DEF RowsOK
<1>4. CASE Crash
  <2>1. rows' = rows /\ clock' = clock /\ pc'[d] = "select"
    BY <1>4 DEF Crash, dbVars
  <2> QED
    BY <1>1, <2>1 DEF RowsOK
<1>5. ASSUME NEW e \in Device, e # d, Poller(e) PROVE RowsOK(d)'
  <2>1. pc'[d] = pc[d] /\ now'[d] = now[d] /\ clock' \in Nat /\ clock <= clock'
    BY <1>1, <1>5, OtherCycle
  <2>2. \A r \in rows' : r.device = d => r \in rows
    BY <1>5, Stores DEF Reading, BatteryStatus
  <2> QED
    BY <1>1, <1>2, <2>1, <2>2 DEF RowsOK
<1>6. CASE Poller(d)
  <2>1. /\ clock' \in Nat /\ clock <= clock'
        /\ pc'[d] = "saveReading" => now'[d] = clock + 1 /\ rows' = rows
        /\ pc'[d] \in {"battery", "saveBattery", "publish"} =>
             now'[d] = now[d] /\ pc[d] \in {"saveReading", "battery", "saveBattery"}
        /\ pc'[d] = "battery" => pc[d] = "saveReading"
        /\ pc'[d] = "saveBattery" => pc[d] = "battery" /\ rows' = rows
    BY <1>1, <1>6, Moves
  <2>2. \A r \in rows' : \/ r \in rows
                         \/ r = Reading(d, now[d]) /\ pc[d] = "saveReading"
                         \/ r = BatteryStatus(d, now[d]) /\ pc[d] = "saveBattery"
    BY <1>6, Stores
  <2>3. now[d] <= clock
    BY <1>1 DEF CycleOK
  <2> SUFFICES ASSUME NEW r \in rows', r.device = d
               PROVE  /\ r.at <= clock'
                      /\ pc'[d] = "saveReading" => r.at < now'[d]
                      /\ pc'[d] \in {"battery", "saveBattery", "publish"} => r.at <= now'[d]
                      /\ pc'[d] \in {"battery", "saveBattery"} /\ r.table = "battery_status" =>
                           r.at < now'[d]
    BY DEF RowsOK
  <2>4. CASE r \in rows
    BY <1>1, <1>2, <2>1, <2>3, <2>4 DEF RowsOK
  <2>5. CASE r = Reading(d, now[d]) /\ pc[d] = "saveReading" /\ r \notin rows
    BY <1>1, <2>1, <2>3, <2>5 DEF Reading
  <2>6. CASE r = BatteryStatus(d, now[d]) /\ pc[d] = "saveBattery" /\ r \notin rows
    BY <1>1, <2>1, <2>3, <2>6 DEF BatteryStatus
  <2> QED
    BY <2>2, <2>4, <2>5, <2>6
<1> QED
  BY <1>3, <1>4, <1>5, <1>6 DEF Next

\* LogInv is an invariant.
THEOREM LogInvariant == Spec => []LogInv
<1>1. Init => \A d \in Device : RowsOK(d)
  BY DEF Init, RowsOK
<1>2. PersistInv /\ (\A d \in Device : RowsOK(d)) /\ [Next]_vars => (\A d \in Device : RowsOK(d))'
  BY RowsStep DEF LogInv
<1> QED
  BY <1>1, <1>2, PersistInvariant, PTL DEF Spec, LogInv

\* Every step of the pollers is a step of the log, or leaves it alone.
LEMMA LogStep == LogInv /\ [Next]_vars => [Log!LogNext]_(Log!logVars)
<1> SUFFICES ASSUME LogInv, [Next]_vars PROVE Log!LogNext \/ UNCHANGED <<clock, rows, published>>
  BY DEF Log!logVars
<1>1. CASE Tick \/ Consume \/ Cancel \/ Crash \/ UNCHANGED vars
  BY <1>1 DEF Tick, Consume, Cancel, Crash, vars, dbVars, pollVars, busVars
<1>2. ASSUME NEW d \in Device, Poller(d) PROVE Log!LogNext \/ UNCHANGED <<clock, rows, published>>
  <2>1. CycleOK(d) /\ RowsOK(d) /\ TypeOK
    BY DEF LogInv, PersistInv
  <2>2. now[d] \in 0..clock
    BY <2>1 DEF CycleOK, TypeOK, PollTypeOK, Time
  <2>3. CASE rows' # rows /\ pc[d] = "saveReading" /\ rows' = rows \cup {Reading(d, now[d])}
             /\ UNCHANGED <<now, clock, published>>
    <3>1. Log!StoreReading(d, now[d])
      BY <2>1, <2>3 DEF Log!StoreReading, Log!Reading, Reading, RowsOK
    <3> QED
      BY <2>2, <3>1 DEF Log!LogNext
  <2>4. CASE rows' # rows /\ pc[d] = "saveBattery" /\ rows' = rows \cup {BatteryStatus(d, now[d])}
             /\ UNCHANGED <<now, clock, published>>
    <3>1. Log!Latest(d, now[d])
      BY <2>1, <2>4 DEF Log!Latest, Log!Reading, Reading, RowsOK, CycleOK
    <3>2. Log!StoreBattery(d, now[d])
      BY <2>4, <3>1 DEF Log!StoreBattery, Log!BatteryStatus, BatteryStatus
    <3> QED
      BY <2>2, <3>2 DEF Log!LogNext
  <2>5. CASE rows' = rows /\ Publish(d) /\ published' # published
    <3> DEFINE charge == d \in charged
    <3>1. published' = Append(published, [device |-> d, at |-> now[d], charged |-> charge])
      BY <2>5 DEF Publish, busVars
    <3>2. Log!Latest(d, now[d])
      BY <2>1, <2>5 DEF Publish, Log!Latest, Log!Reading, Reading, RowsOK, CycleOK
    <3>3. charge => Log!BatteryStatus(d, now[d]) \in rows
      BY <2>1, <2>5 DEF Publish, Log!BatteryStatus, BatteryStatus, CycleOK
    <3>4. \A n \in 1..Len(published) : published[n].device = d => published[n].at < now[d]
      BY <2>1, <2>5 DEF Publish, CycleOK
    <3>5. clock' = clock /\ charge \in BOOLEAN
      BY <2>5 DEF Publish
    <3> HIDE DEF charge
    <3>6. Log!Announce(d, now[d], charge)
      BY <2>5, <3>1, <3>2, <3>3, <3>4, <3>5 DEF Log!Announce
    <3> QED
      BY <2>2, <3>5, <3>6 DEF Log!LogNext
  <2>6. CASE StatusReturns(d)
    BY <2>6 DEF StatusReturns, Log!LogNext, Log!Pass, dbVars, busVars
  <2>7. CASE rows' = rows /\ published' = published /\ ~StatusReturns(d)
    <3>1. clock' = clock
      BY <1>2, <2>7 DEF Poller, Cycle, Stop, Receive, StatusFails, ReadingSaved, ReadingFails,
         BatteryReturns, NoBattery, BatteryPanics, BatterySaved, BatterySaveFails, Publish, Wake
    <3> QED
      BY <2>7, <3>1
  <2>8. published' = published \/ Publish(d)
    BY <1>2 DEF Poller, Cycle, Stop, Receive, StatusFails, StatusReturns, ReadingSaved, ReadingFails,
       BatteryReturns, NoBattery, BatteryPanics, BatterySaved, BatterySaveFails, Wake, busVars
  <2>9. Publish(d) => rows' = rows
    BY DEF Publish, dbVars
  <2> QED
    BY <1>2, <2>3, <2>4, <2>5, <2>6, <2>7, <2>8, <2>9, Stores
<1> QED
  BY <1>1, <1>2 DEF Next

\* The pollers implement ReadingLog: what they announce is, at that moment, the
\* latest the database holds of its device, whatever failed or was restarted before.
THEOREM Refinement == Spec => LogRefined
<1>1. Init => Log!LogInit
  BY DEF Init, Log!LogInit
<1> QED
  BY <1>1, LogStep, LogInvariant, PTL DEF Spec, LogRefined, Log!LogSpec
-----------------------------------------------------------------------------
(* Every tick, for a provider on its own.                                  *)

\* Until the first crash every tick of the ticker is waiting, was dropped, or was
\* received by the one poller there is.
TicksOK(d) ==
  /\ tick \in 0..1 /\ ticks \in Nat /\ missed \in Nat /\ crashes \in Nat
  /\ polls \in [Device -> Nat]
  /\ crashes = 0 => ticks = tick + missed + polls[d]

LEMMA TicksStep ==
  ASSUME NEW d, Device = {d}
  PROVE  TicksOK(d) /\ [Next]_vars => TicksOK(d)'
<1> SUFFICES ASSUME TicksOK(d), [Next]_vars PROVE TicksOK(d)'
  OBVIOUS
<1> USE DEF TicksOK
<1>1. CASE Tick
  BY <1>1 DEF Tick, pollVars
<1>2. CASE Crash
  <2>1. polls' = [e \in Device |-> 0] /\ tick' = 0 /\ ticks' = ticks /\ missed' = 0 /\ crashes' = crashes + 1
    BY <1>2 DEF Crash
  <2> QED
    BY <2>1
<1>3. CASE Consume \/ Cancel \/ UNCHANGED vars
  BY <1>3 DEF Consume, Cancel, vars, tickVars, pollVars
<1>4. CASE Receive(d)
  BY <1>4 DEF Receive
<1>5. CASE Stop(d) \/ Cycle(d)
  BY <1>5 DEF Stop, Cycle, StatusFails, StatusReturns, ReadingSaved, ReadingFails, BatteryReturns,
     NoBattery, BatteryPanics, BatterySaved, BatterySaveFails, Publish, Wake, tickVars
<1> QED
  BY <1>1, <1>2, <1>3, <1>4, <1>5 DEF Next, Poller

\* "IngestionService polls a ProviderAdapter on every tick" (ingestion_service.go:20)
\* is true of a server with one provider, for any number of ticks and failures: what
\* makes it false is the channel the pollers share.
THEOREM EveryTickOfOne ==
  ASSUME NEW d, Device = {d}
  PROVE  Spec => []EveryTickPollsEveryProvider
<1>1. Init => TicksOK(d)
  BY DEF Init, TicksOK
<1>2. TicksOK(d) => EveryTickPollsEveryProvider
  BY DEF TicksOK, EveryTickPollsEveryProvider
<1> QED
  BY <1>1, <1>2, TicksStep, PTL DEF Spec

\* Of any two providers: since the start of the process they have together been
\* polled at most as often as the ticker ticked (main.go:83), so that two providers
\* cannot both be polled on every tick.
TicksShared(a, b) == polls[a] + polls[b] + tick + missed <= ticks

THEOREM TicksAreShared ==
  ASSUME NEW a \in Device, NEW b \in Device, a # b
  PROVE  Spec => []TicksShared(a, b)
<1> DEFINE Inv == /\ tick \in 0..1 /\ ticks \in Nat /\ missed \in Nat
                  /\ polls \in [Device -> Nat]
                  /\ TicksShared(a, b)
<1> USE DEF TicksShared
<1>1. Init => Inv
  BY DEF Init
<1>2. Inv /\ [Next]_vars => Inv'
  <2> SUFFICES ASSUME Inv, [Next]_vars PROVE Inv'
    OBVIOUS
  <2>1. CASE Tick
    BY <2>1 DEF Tick, pollVars
  <2>2. CASE Crash
    <3>1. polls' = [d \in Device |-> 0] /\ tick' = 0 /\ missed' = 0 /\ ticks' = ticks
      BY <2>2 DEF Crash
    <3> QED
      BY <3>1
  <2>3. CASE Consume \/ Cancel \/ UNCHANGED vars
    BY <2>3 DEF Consume, Cancel, vars, tickVars, pollVars
  <2>4. ASSUME NEW d \in Device, Receive(d) PROVE Inv'
    <3>1. /\ tick = 1 /\ tick' = 0 /\ ticks' = ticks /\ missed' = missed
          /\ polls' = [polls EXCEPT ![d] = @ + 1]
      BY <2>4 DEF Receive
    <3>2. /\ polls' \in [Device -> Nat]
          /\ polls'[a] + polls'[b] <= polls[a] + polls[b] + 1
      BY <3>1
    <3> QED
      BY <3>1, <3>2
  <2>5. ASSUME NEW d \in Device, Stop(d) \/ Cycle(d) PROVE Inv'
    BY <2>5 DEF Stop, Cycle, StatusFails, StatusReturns, ReadingSaved, ReadingFails, BatteryReturns,
       NoBattery, BatteryPanics, BatterySaved, BatterySaveFails, Publish, Wake, tickVars
  <2> QED
    BY <2>1, <2>2, <2>3, <2>4, <2>5 DEF Next, Poller
<1> QED
  BY <1>1, <1>2, PTL DEF Spec
=============================================================================
