-------------------------- MODULE DashboardProofs --------------------------
(* Theorems about Dashboard.tla, for any devices, intervals and bounds.    *)
EXTENDS Dashboard, TLAPS, SequenceTheorems, WellFoundedInduction

\* At most one fetch of a hook is due, and none unless it is awaited.
Single(hook, awaited) ==
  /\ \A f, g \in asked : f.hook = hook /\ g.hook = hook => f = g
  /\ \A a, b \in answers : a.fetch.hook = hook /\ b.fetch.hook = hook => a = b
  /\ \A f \in asked, a \in answers : ~(f.hook = hook /\ a.fetch.hook = hook)
  /\ (\E f \in asked : f.hook = hook) \/ (\E a \in answers : a.fetch.hook = hook) => awaited

\* The inductive invariant of the history: unless a click was hasty, one fetch is due
\* at most, while the hook is loading, and for the selected interval.
HistoryInv ==
  ~hasty => /\ Single("history", loading)
            /\ \A f \in asked : f.hook = "history" => f.interval = interval
            /\ \A a \in answers : a.fetch.hook = "history" => a.fetch.interval = interval
            /\ ~loading => readings \subseteq {interval}

\* No history is due but the first, for the initial interval.
LEMMA HistoryInit == Init => HistoryInv
BY DEF Init, HistoryInv, Single, Fetch

\* Nothing but fetches, answers and clicks touches what HistoryInv is about.
LEMMA HistoryFrame ==
  ASSUME HistoryInv, UNCHANGED <<asked, answers, loading, interval, readings, hasty>>
  PROVE  HistoryInv'
BY DEF HistoryInv, Single

\* A click is hasty, or no history was due: as there are buttons, one that is due for a
\* hook that is loading makes the Gap.
LEMMA HistoryClick ==
  ASSUME HistoryInv, NEW i \in Interval, Click(i)
  PROVE  HistoryInv'
<1> SUFFICES ASSUME ~hasty' PROVE HistoryInv'
  BY DEF HistoryInv
<1>1. ~shown.loading /\ ~Gap /\ ~(hasty /\ HistoryDue)
  BY DEF Click, SetHistoryInterval
<1>2. ~loading
  BY <1>1 DEF Gap
<1>3. ~HistoryDue
  <2>1. CASE hasty
    BY <1>1, <2>1
  <2>2. CASE ~hasty
    BY <1>2, <2>2 DEF HistoryInv, Single, HistoryDue
  <2> QED
    BY <2>1, <2>2
<1>4. /\ \A f \in asked : f.hook # "history"
      /\ \A a \in answers : a.fetch.hook # "history"
  BY <1>3 DEF HistoryDue
<1>5. /\ asked' = asked \cup {Fetch("history", i, clicks')} /\ answers' = answers
      /\ interval' = i /\ loading' = TRUE
  BY DEF Click, SetHistoryInterval
<1> QED
  BY <1>4, <1>5 DEF HistoryInv, Single, Fetch

\* Every step keeps the history due that of the selected interval.
LEMMA HistoryNext == HistoryInv /\ [Next]_vars => HistoryInv'
<1> SUFFICES ASSUME HistoryInv, [Next]_vars PROVE HistoryInv'
  OBVIOUS
<1> USE DEF history
<1>1. ASSUME NEW d \in Device, Save(d) PROVE HistoryInv'
  BY <1>1, HistoryFrame DEF Save
<1>2. ASSUME NEW n \in unsent, Publish(n) PROVE HistoryInv'
  BY <1>2, HistoryFrame DEF Publish
<1>3. ASSUME NEW f \in asked, Answer(f) PROVE HistoryInv'
  BY <1>3 DEF Answer, HistoryInv, Single
<1>4. ASSUME NEW a \in answers, StatusAnswered(a) PROVE HistoryInv'
  BY <1>4 DEF StatusAnswered, Deliver, HistoryInv, Single
<1>5. ASSUME NEW a \in answers, BatteryAnswered(a) PROVE HistoryInv'
  BY <1>5 DEF BatteryAnswered, Deliver, HistoryInv, Single
<1>6. ASSUME NEW a \in answers, HistoryAnswered(a) PROVE HistoryInv'
  BY <1>6 DEF HistoryAnswered, Deliver, HistoryInv, Single
<1>7. ASSUME NEW s \in Source, Open(s) \/ Lose(s) \/ Message(s) PROVE HistoryInv'
  BY <1>7, HistoryFrame DEF Open, Lose, Message
<1>8. CASE Effects
  BY <1>8, HistoryFrame DEF Effects, network
<1>9. CASE RenderHistory
  BY <1>9, HistoryFrame DEF RenderHistory, network
<1>10. CASE UNCHANGED vars
  BY <1>10, HistoryFrame DEF vars, network
<1> QED
  BY <1>1, <1>2, <1>3, <1>4, <1>5, <1>6, <1>7, <1>8, <1>9, <1>10, HistoryClick DEF Next, Answered

\* What the chart shows once it is rendered is the history of the selected interval, for
\* any clicks but hasty ones (HistoryChart.tsx:22, usePowerHistory.ts:35-43).
THEOREM HistoryMatches == Spec => []ReadingsMatchInterval
<1>1. Spec => []HistoryInv
  BY HistoryInit, HistoryNext, PTL DEF Spec
<1>2. HistoryInv => ReadingsMatchInterval
  BY DEF HistoryInv, ReadingsMatchInterval
<1> QED
  BY <1>1, <1>2, PTL
-----------------------------------------------------------------------------
\* Events on the wire are ordinals of cycles.
WireOK ==
  /\ cycles \in Seq([device : Device, battery : BOOLEAN]) /\ unsent \subseteq Nat
  /\ wire \in [Source -> Seq(Nat)]

\* The inductive invariant of the cards: a status is there only once its fetch has
\* been answered, so that nothing but events changes it from then on.
CardsInv ==
  /\ Single("status", status = Null)
  /\ WireOK
  /\ latestEvent \in Nat \/ (latestEvent = Null /\ effected = Null)
  /\ merged => status # Null
  /\ CardsFollowHeader

\* There is no status before the first fetch is answered.
LEMMA CardsInit == Init => CardsInv
BY DEF Init, CardsInv, Single, WireOK, CardsFollowHeader, Fetch, Null

\* Every step keeps the cards in step with the header.
LEMMA CardsNext == CardsInv /\ [Next]_vars => CardsInv'
<1> SUFFICES ASSUME CardsInv, [Next]_vars PROVE CardsInv'
  OBVIOUS
<1> USE DEF history, CardsInv, CardsFollowHeader
<1>1. ASSUME NEW d \in Device, Save(d) PROVE CardsInv'
  <2>1. WireOK'
    <3>1. PICK b \in BOOLEAN : cycles' = Append(cycles, [device |-> d, battery |-> b])
      BY <1>1 DEF Save
    <3>2. cycles' \in Seq([device : Device, battery : BOOLEAN]) /\ Len(cycles') \in Nat
      BY <3>1 DEF WireOK
    <3> QED
      BY <1>1, <3>2 DEF Save, WireOK
  <2> QED
    BY <1>1, <2>1 DEF Save, Single, live
<1>2. ASSUME NEW n \in unsent, Publish(n) PROVE CardsInv'
  BY <1>2 DEF Publish, WireOK, Single, live
<1>3. ASSUME NEW f \in asked, Answer(f) PROVE CardsInv'
  BY <1>3 DEF Answer, WireOK, Single, live
<1>4. ASSUME NEW a \in answers, StatusAnswered(a) PROVE CardsInv'
  BY <1>4 DEF StatusAnswered, Deliver, WireOK, Single, live
<1>5. ASSUME NEW a \in answers, BatteryAnswered(a) PROVE CardsInv'
  BY <1>5 DEF BatteryAnswered, Deliver, WireOK, Single, live
<1>6. ASSUME NEW a \in answers, HistoryAnswered(a) PROVE CardsInv'
  BY <1>6 DEF HistoryAnswered, Deliver, WireOK, Single, live
<1>7. ASSUME NEW s \in Source, Open(s) PROVE CardsInv'
  BY <1>7 DEF Open, WireOK, Single, live
<1>8. ASSUME NEW s \in Source, Lose(s) PROVE CardsInv'
  BY <1>8 DEF Lose, WireOK, Single, live
<1>9. ASSUME NEW s \in Source, Message(s) PROVE CardsInv'
  BY <1>9 DEF Message, WireOK, Single
<1>10. CASE Effects
  <2>1. latestEvent \in Nat /\ effected' = latestEvent /\ latestEvent' = latestEvent
    BY <1>10 DEF Effects
  <2>2. status' = IF status = Null THEN Null ELSE latestEvent
    BY <1>10 DEF Effects, MergeStatus
  <2>3. merged' => status # Null
    BY <1>10 DEF Effects
  <2>4. (status' = Null) = (status = Null)
    BY <2>1, <2>2 DEF Null
  <2>5. Single("status", status = Null)' /\ WireOK'
    BY <1>10, <2>4 DEF Effects, network, WireOK, Single
  <2> QED
    BY <2>1, <2>2, <2>3, <2>4, <2>5
<1>11. ASSUME NEW i \in Interval, Click(i) PROVE CardsInv'
  BY <1>11 DEF Click, SetHistoryInterval, WireOK, Single, live, Fetch
<1>12. CASE RenderHistory
  BY <1>12 DEF RenderHistory, network, live, WireOK, Single
<1>13. CASE UNCHANGED vars
  BY <1>13 DEF vars, network, live, WireOK, Single
<1> QED
  BY <1>1, <1>2, <1>3, <1>4, <1>5, <1>6, <1>7, <1>8, <1>9, <1>10, <1>11, <1>12, <1>13
  DEF Next, Answered

\* Once a live event has been merged, the cards show the event of the header's time
\* (usePowerStatus.ts:22-37).
THEOREM CardsFollow == Spec => []CardsFollowHeader
<1>1. Spec => []CardsInv
  BY CardsInit, CardsNext, PTL DEF Spec
<1> QED
  BY <1>1, PTL DEF CardsInv
-----------------------------------------------------------------------------
\* m is older than n, if they are cycles of one device; cs are the cycles.
Older(cs, m, n) == cs[m].device = cs[n].device => m < n

HeaderTypes ==
  /\ cycles \in Seq([device : Device, battery : BOOLEAN])
  /\ unsent \subseteq 1..Len(cycles) /\ seen \subseteq 1..Len(cycles)
  /\ wire \in [Source -> Seq(1..Len(cycles))]
  /\ online \subseteq Sources /\ \A s \in Source \ online : wire[s] = <<>>
SeenFirst == \A m \in seen, n \in unsent : Older(cycles, m, n)
WireOrder(s) ==
  \A i \in 1..Len(wire[s]) :
     /\ \A n \in seen : Older(cycles, n, wire[s][i])
     /\ \A n \in unsent : Older(cycles, wire[s][i], n)
     /\ \A j \in 1..Len(wire[s]) : i < j => Older(cycles, wire[s][i], wire[s][j])

\* The inductive invariant of the header: of each device the cycles that were shown
\* come before those on the wire, which are in order, and these before those that are
\* not published.
HeaderInv == HeaderTypes /\ SeenFirst /\ \A s \in Source : WireOrder(s)

\* Steps that leave the cycles and the wires alone
LEMMA HeaderFrame ==
  ASSUME HeaderInv, UNCHANGED <<cycles, unsent, online, wire, seen>>
  PROVE  HeaderInv'
BY DEF HeaderInv, HeaderTypes, SeenFirst, WireOrder

\* What is on a wire are ordinals of cycles.
LEMMA WireElements ==
  ASSUME HeaderInv, NEW s \in Source
  PROVE  /\ wire[s] \in Seq(1..Len(cycles)) /\ Len(wire[s]) \in Nat /\ Len(cycles) \in Nat
         /\ \A i \in 1..Len(wire[s]) : wire[s][i] \in 1..Len(cycles)
<1>1. wire[s] \in Seq(1..Len(cycles)) /\ cycles \in Seq([device : Device, battery : BOOLEAN])
  BY DEF HeaderInv, HeaderTypes
<1> QED
  BY <1>1, LenProperties, ElementOfSeq

\* A cycle that is saved is newer than all before it.
LEMMA HeaderSave ==
  ASSUME HeaderInv, NEW d \in Device, Save(d)
  PROVE  HeaderInv'
<1>1. PICK b \in BOOLEAN : cycles' = Append(cycles, [device |-> d, battery |-> b])
  BY DEF Save
<1>2. /\ cycles' \in Seq([device : Device, battery : BOOLEAN])
      /\ Len(cycles) \in Nat /\ Len(cycles') = Len(cycles) + 1
      /\ \A n \in 1..Len(cycles) : cycles'[n] = cycles[n]
      /\ cycles'[Len(cycles')].device = d
  BY <1>1, AppendProperties, LenProperties DEF HeaderInv, HeaderTypes
<1>3. /\ unsent' = unsent \cup {Len(cycles')}
      /\ online' = online /\ wire' = wire /\ seen' = seen
      /\ unsent \subseteq 1..Len(cycles) /\ seen \subseteq 1..Len(cycles)
  BY DEF Save, live, HeaderInv, HeaderTypes
<1>4. HeaderTypes'
  <2>1. \A t \in Seq(1..Len(cycles)) : t \in Seq(1..Len(cycles'))
    BY <1>2
  <2>2. wire' \in [Source -> Seq(1..Len(cycles'))]
    BY <1>3, <2>1 DEF HeaderInv, HeaderTypes
  <2>3. unsent' \subseteq 1..Len(cycles') /\ seen' \subseteq 1..Len(cycles')
    <3>1. 1..Len(cycles) \subseteq 1..Len(cycles') /\ Len(cycles') \in 1..Len(cycles')
      BY <1>2
    <3> QED
      BY <1>3, <3>1
  <2> QED
    BY <1>2, <1>3, <2>2, <2>3 DEF HeaderInv, HeaderTypes
<1>5. \A m \in 1..Len(cycles), n \in 1..Len(cycles) : Older(cycles', m, n) <=> Older(cycles, m, n)
  BY <1>2 DEF Older
<1>6. \A m \in 1..Len(cycles) : Older(cycles', m, Len(cycles'))
  BY <1>2 DEF Older
<1>8. SeenFirst'
  <2> SUFFICES ASSUME NEW m \in seen, NEW n \in unsent' PROVE Older(cycles', m, n)
    BY <1>3 DEF SeenFirst
  <2>1. CASE n \in unsent
    BY <1>3, <1>5, <2>1 DEF HeaderInv, SeenFirst
  <2> QED
    BY <1>3, <1>6, <2>1
<1>9. ASSUME NEW s \in Source PROVE WireOrder(s)'
  <2>1. WireOrder(s) /\ \A i \in 1..Len(wire[s]) : wire[s][i] \in 1..Len(cycles)
    BY WireElements DEF HeaderInv
  <2> QED
    BY <1>3, <1>5, <1>6, <2>1 DEF WireOrder
<1> QED
  BY <1>4, <1>8, <1>9 DEF HeaderInv

\* A cycle that is published goes behind those of its device on the wire.
LEMMA HeaderPublish ==
  ASSUME HeaderInv, NEW n \in unsent, Publish(n)
  PROVE  HeaderInv'
<1>1. PICK reached \in SUBSET online :
        wire' = [s \in Source |-> IF s \in reached THEN Append(wire[s], n) ELSE wire[s]]
  BY DEF Publish
<1>2. /\ cycles' = cycles /\ unsent' = unsent \ {n} /\ online' = online /\ seen' = seen
      /\ n \in 1..Len(cycles)
  BY DEF Publish, live, HeaderInv, HeaderTypes
<1>3. ASSUME NEW s \in Source
      PROVE  /\ wire'[s] \in Seq(1..Len(cycles)) /\ Len(wire'[s]) \in Nat
             /\ s \notin online => wire'[s] = wire[s]
             /\ \A i \in 1..Len(wire'[s]) :
                  \/ i \in 1..Len(wire[s]) /\ wire'[s][i] = wire[s][i]
                  \/ i = Len(wire[s]) + 1 /\ wire'[s][i] = n
  <2>1. wire[s] \in Seq(1..Len(cycles)) /\ Len(wire[s]) \in Nat
    BY WireElements
  <2>2. CASE s \in reached
    <3>1. wire'[s] = Append(wire[s], n)
      BY <1>1, <2>2
    <3> QED
      BY <1>2, <2>1, <2>2, <3>1, AppendProperties
  <2>3. CASE s \notin reached
    BY <1>1, <2>1, <2>3
  <2> QED
    BY <2>2, <2>3
<1>4. HeaderTypes'
  <2>1. wire' = [s \in Source |-> wire'[s]]
    BY <1>1
  <2>2. wire' \in [Source -> Seq(1..Len(cycles'))]
    BY <1>2, <1>3, <2>1
  <2> QED
    BY <1>2, <1>3, <2>2 DEF HeaderInv, HeaderTypes
<1>5. SeenFirst'
  BY <1>2 DEF HeaderInv, SeenFirst
<1>6. \A m \in unsent \ {n} : Older(cycles, n, m)
  BY <1>2 DEF Publish, HeaderInv, HeaderTypes, Older
<1>7. ASSUME NEW s \in Source PROVE WireOrder(s)'
  <2>1. WireOrder(s) /\ Len(wire[s]) \in Nat
    BY WireElements DEF HeaderInv
  <2> SUFFICES ASSUME NEW i \in 1..Len(wire'[s])
               PROVE  /\ \A m \in seen : Older(cycles, m, wire'[s][i])
                      /\ \A m \in unsent \ {n} : Older(cycles, wire'[s][i], m)
                      /\ \A j \in 1..Len(wire'[s]) : i < j => Older(cycles, wire'[s][i], wire'[s][j])
    BY <1>2 DEF WireOrder
  <2>2. CASE i \in 1..Len(wire[s]) /\ wire'[s][i] = wire[s][i]
    <3>1. Older(cycles, wire[s][i], n)
      BY <2>1, <2>2 DEF WireOrder
    <3>2. ASSUME NEW j \in 1..Len(wire'[s]), i < j PROVE Older(cycles, wire'[s][i], wire'[s][j])
      BY <1>3, <2>1, <2>2, <3>1, <3>2 DEF WireOrder
    <3> QED
      BY <2>1, <2>2, <3>2 DEF WireOrder
  <2>3. CASE i = Len(wire[s]) + 1 /\ wire'[s][i] = n
    <3>1. \A m \in seen : Older(cycles, m, n)
      BY DEF HeaderInv, SeenFirst
    <3>2. \A j \in 1..Len(wire'[s]) : ~(i < j)
      BY <1>3, <2>1, <2>3
    <3> QED
      BY <1>6, <2>3, <3>1, <3>2
  <2> QED
    BY <1>3, <2>2, <2>3
<1> QED
  BY <1>4, <1>5, <1>7 DEF HeaderInv

\* The event a message brings is newer than those of its device that were shown.
LEMMA HeaderMessage ==
  ASSUME HeaderInv, NEW s \in Source, Message(s)
  PROVE  /\ HeaderInv'
         /\ cycles' = cycles /\ \A n \in seen : Older(cycles, n, latestEvent')
<1>1. /\ wire[s] \in Seq(1..Len(cycles)) /\ wire[s] # <<>>
      /\ wire \in [Source -> Seq(1..Len(cycles))]
      /\ latestEvent' = Head(wire[s]) /\ wire' = [wire EXCEPT ![s] = Tail(wire[s])]
      /\ seen' = seen \cup {latestEvent'}
      /\ cycles' = cycles /\ unsent' = unsent /\ online' = online
  BY DEF Message, HeaderInv, HeaderTypes
<1>2. /\ Head(wire[s]) = wire[s][1] /\ 1 \in 1..Len(wire[s])
      /\ Head(wire[s]) \in 1..Len(cycles)
      /\ Tail(wire[s]) \in Seq(1..Len(cycles))
      /\ \A i \in 1..Len(Tail(wire[s])) : /\ i + 1 \in 1..Len(wire[s]) /\ 1 < i + 1
                                          /\ Tail(wire[s])[i] = wire[s][i + 1]
      /\ \A i, j \in 1..Len(Tail(wire[s])) : i < j => i + 1 < j + 1
  BY <1>1, HeadTailProperties, EmptySeq, LenProperties
<1>3. wire'[s] = Tail(wire[s]) /\ \A t \in Source : t # s => wire'[t] = wire[t]
  BY <1>1
<1>4. s \in online /\ \A t \in Source : t # s => wire'[t] = <<>>
  BY <1>1, <1>3 DEF HeaderInv, HeaderTypes, Sources
<1>5. WireOrder(s)
  BY DEF HeaderInv
<1>6. \A n \in seen : Older(cycles, n, latestEvent')
  BY <1>1, <1>2, <1>5 DEF WireOrder
<1>7. HeaderTypes'
  <2>1. wire' \in [Source -> Seq(1..Len(cycles))]
    BY <1>1, <1>2
  <2> QED
    BY <1>1, <1>2, <1>3, <1>4, <2>1 DEF HeaderInv, HeaderTypes
<1>8. SeenFirst'
  <2>1. \A n \in unsent : Older(cycles, latestEvent', n)
    BY <1>1, <1>2, <1>5 DEF WireOrder
  <2> QED
    BY <1>1, <2>1 DEF HeaderInv, SeenFirst
<1>9. WireOrder(s)'
  <2> SUFFICES ASSUME NEW i \in 1..Len(wire'[s])
               PROVE  /\ \A n \in seen' : Older(cycles, n, wire'[s][i])
                      /\ \A n \in unsent : Older(cycles, wire'[s][i], n)
                      /\ \A j \in 1..Len(wire'[s]) : i < j => Older(cycles, wire'[s][i], wire'[s][j])
    BY <1>1 DEF WireOrder
  <2>1. i + 1 \in 1..Len(wire[s]) /\ 1 < i + 1 /\ wire'[s][i] = wire[s][i + 1]
    BY <1>2, <1>3
  <2>2. Older(cycles, latestEvent', wire'[s][i])
    BY <1>1, <1>2, <1>5, <2>1 DEF WireOrder
  <2>3. ASSUME NEW j \in 1..Len(wire'[s]), i < j PROVE Older(cycles, wire'[s][i], wire'[s][j])
    <3>1. j + 1 \in 1..Len(wire[s]) /\ i + 1 < j + 1 /\ wire'[s][j] = wire[s][j + 1]
      BY <1>2, <1>3, <2>3
    <3> QED
      BY <1>5, <2>1, <3>1 DEF WireOrder
  <2> QED
    BY <1>1, <1>5, <2>1, <2>2, <2>3 DEF WireOrder
<1>10. \A t \in Source : t # s => WireOrder(t)'
  BY <1>4 DEF WireOrder
<1> QED
  BY <1>1, <1>6, <1>7, <1>8, <1>9, <1>10 DEF HeaderInv

\* Every step keeps HeaderInv.
LEMMA HeaderNext == HeaderInv /\ [Next]_vars => HeaderInv'
<1> SUFFICES ASSUME HeaderInv, [Next]_vars PROVE HeaderInv'
  OBVIOUS
<1>1. ASSUME NEW f \in asked, Answer(f) PROVE HeaderInv'
  BY <1>1, HeaderFrame DEF Answer, live
<1>2. ASSUME NEW a \in answers, StatusAnswered(a) \/ BatteryAnswered(a) \/ HistoryAnswered(a)
      PROVE  HeaderInv'
  BY <1>2, HeaderFrame DEF StatusAnswered, BatteryAnswered, HistoryAnswered, Deliver, live
<1>3. ASSUME NEW s \in Source, Open(s) PROVE HeaderInv'
  BY <1>3 DEF Open, HeaderInv, HeaderTypes, SeenFirst, WireOrder, live
<1>4. ASSUME NEW s \in Source, Lose(s) PROVE HeaderInv'
  <2>1. /\ cycles' = cycles /\ unsent' = unsent /\ seen' = seen
        /\ online' = online \ {s} /\ wire' = [wire EXCEPT ![s] = <<>>]
        /\ wire \in [Source -> Seq(1..Len(cycles))]
    BY <1>4 DEF Lose, live, HeaderInv, HeaderTypes
  <2>2. wire'[s] = <<>> /\ \A t \in Source : t # s => wire'[t] = wire[t]
    BY <2>1
  <2>3. wire' \in [Source -> Seq(1..Len(cycles))]
    BY <2>1, EmptySeq
  <2> QED
    BY <2>1, <2>2, <2>3 DEF HeaderInv, HeaderTypes, SeenFirst, WireOrder
<1>5. ASSUME NEW i \in Interval, Click(i) PROVE HeaderInv'
  BY <1>5, HeaderFrame DEF Click, SetHistoryInterval, live
<1>6. CASE Effects \/ RenderHistory \/ UNCHANGED vars
  BY <1>6, HeaderFrame DEF Effects, RenderHistory, vars, network, live
<1> QED
  BY <1>1, <1>2, <1>3, <1>4, <1>5, <1>6, HeaderSave, HeaderPublish, HeaderMessage
  DEF Next, Answered

\* The header's time never goes back, over lost connections and reconnects.
THEOREM HeaderForward == Spec => HeaderMovesForward
<1>1. Init => HeaderInv
  BY EmptySeq DEF Init, HeaderInv, HeaderTypes, SeenFirst, WireOrder, Sources
<1>2. HeaderInv /\ [Next]_vars =>
        [latestEvent' # latestEvent =>
           \A n \in seen : cycles[n].device = cycles'[latestEvent'].device => n < latestEvent']_vars
  <2> SUFFICES ASSUME HeaderInv, [Next]_vars, latestEvent' # latestEvent
               PROVE  \A n \in seen : cycles[n].device = cycles'[latestEvent'].device => n < latestEvent'
    OBVIOUS
  <2>1. PICK s \in Source : Message(s)
    BY DEF Next, Answered, Save, Publish, Answer, StatusAnswered, BatteryAnswered, HistoryAnswered,
       Deliver, Open, Lose, Effects, Click, SetHistoryInterval, RenderHistory, vars, network, live
  <2> QED
    BY <2>1, HeaderMessage DEF Older
<1> QED
  BY <1>1, <1>2, HeaderNext, PTL DEF Spec, HeaderMovesForward
-----------------------------------------------------------------------------
Below == {mn \in Nat \X Nat : mn[1] < mn[2]}

\* Natural numbers are well founded, in the form WFMin asks for.
LEMMA BelowWellFounded == IsWellFoundedOn(Below, Nat)
BY NatLessThanWellFounded DEF Below, OpToRel

\* What ORDER BY ... DESC LIMIT 1 answers is 0 or one of the rows.
LEMMA NewestIsIn ==
  ASSUME NEW n \in Nat, NEW S \in SUBSET (1..n)
  PROVE  Newest(S) \in {NoData} \cup S
<1> DEFINE R == {NoData} \cup S
           T == {k \in 0..n : \E x \in R : k = n - x}
<1>1. R \subseteq 0..n /\ T \subseteq Nat
  BY DEF NoData
<1>2. \A y \in R : n - y \in T
  BY <1>1
<1>3. T # {}
  BY <1>2
<1>4. PICK k \in T : \A j \in T : <<j, k>> \notin Below
  <2> HIDE DEF T
  <2> QED
    BY <1>1, <1>3, BelowWellFounded, WFMin
<1>5. \A j \in T : ~(j < k)
  BY <1>1, <1>4 DEF Below
<1>6. PICK m \in R : k = n - m
  OBVIOUS
<1>7. \A y \in R : m >= y
  <2> TAKE y \in R
  <2>1. ~(n - y < n - m)
    BY <1>2, <1>5, <1>6
  <2> QED
    BY <1>1, <2>1
<1> QED
  BY <1>6, <1>7 DEF Newest, Max

\* The types HeaderTypes does not state.  A click asks for what has not been asked for
\* before: the fetches of the histories are numbered.
Saved == 1..Len(cycles)
FetchType(f, n) ==
  /\ f.hook \in {"status", "battery", "history"} /\ f.n \in Nat /\ f.interval \in Interval
  /\ f.hook = "history" => f.n <= n
AnswerTypes ==
  /\ \A f \in asked : FetchType(f, clicks)
  /\ \A a \in answers : /\ FetchType(a.fetch, clicks)
                        /\ a.result \in {Failed, NoData} \cup Saved /\ a.fetch \notin asked
ShownTypes ==
  /\ latestEvent \in {Null} \cup Saved /\ effected \in {Null} \cup Saved
  /\ status \in {Null, NoData} \cup Saved
  /\ battery = NoBattery \/ battery \in [charge : Saved, flow : Saved]
  /\ interval \in Interval /\ readings \subseteq Interval /\ loading \in BOOLEAN
  /\ shown \in [readings : SUBSET Interval, loading : BOOLEAN] /\ hasty \in BOOLEAN
  /\ merged \in BOOLEAN
BoundTypes == Len(cycles) <= MaxCycles /\ clicks \in 0..MaxClicks /\ losses \in 0..MaxLosses

\* That effects run with an event takes CardsInv, and that events are of cycles takes
\* HeaderInv.
TypeInv == CardsInv /\ HeaderInv /\ AnswerTypes /\ ShownTypes /\ BoundTypes

\* The queries behind the endpoints answer with a saved cycle or with no data.
LEMMA QueryIsSaved ==
  ASSUME HeaderInv, AnswerTypes, NEW f \in asked
  PROVE  Query(f) \in {NoData} \cup Saved
<1>1. DOMAIN cycles = Saved /\ Len(cycles) \in Nat
  BY LenProperties DEF HeaderInv, HeaderTypes, Saved
<1>2. /\ GetLatestReadings(deviceId) \in {NoData} \cup Saved
      /\ GetLatestBatteryStatus(deviceId) \in {NoData} \cup Saved
  <2> DEFINE R == {n \in DOMAIN cycles : cycles[n].device = deviceId}
             B == {n \in DOMAIN cycles : cycles[n].device = deviceId /\ cycles[n].battery}
  <2>1. R \in SUBSET (1..Len(cycles)) /\ B \in SUBSET (1..Len(cycles))
    BY <1>1 DEF Saved
  <2> HIDE DEF R, B
  <2>2. Newest(R) \in {NoData} \cup R /\ Newest(B) \in {NoData} \cup B
    BY <1>1, <2>1, NewestIsIn
  <2>3. Newest(R) \in {NoData} \cup Saved /\ Newest(B) \in {NoData} \cup Saved
    BY <2>1, <2>2 DEF Saved
  <2> QED
    BY <2>3 DEF GetLatestReadings, GetLatestBatteryStatus, R, B
<1> QED
  BY <1>2 DEF Query, AnswerTypes, FetchType

\* Types and bounds hold when the page has just been mounted.
LEMMA TypeInit == Init => TypeInv
<1> SUFFICES ASSUME Init PROVE TypeInv
  OBVIOUS
<1>1. HeaderInv
  BY EmptySeq DEF Init, HeaderInv, HeaderTypes, SeenFirst, WireOrder, Sources
<1>2. AnswerTypes
  BY IntervalAssumption DEF Init, AnswerTypes, FetchType, Fetch
<1>3. ShownTypes
  BY IntervalAssumption DEF Init, ShownTypes
<1>4. BoundTypes
  BY EmptySeq, BoundAssumption DEF Init, BoundTypes
<1> QED
  BY <1>1, <1>2, <1>3, <1>4, CardsInit DEF TypeInv

\* Every step keeps types and bounds.
LEMMA TypeNext == TypeInv /\ [Next]_vars => TypeInv'
<1> SUFFICES ASSUME TypeInv, [Next]_vars PROVE (AnswerTypes /\ ShownTypes /\ BoundTypes)'
  BY CardsNext, HeaderNext DEF TypeInv
<1>0. CardsInv /\ HeaderInv /\ AnswerTypes /\ ShownTypes /\ BoundTypes /\ Len(cycles) \in Nat
  BY LenProperties DEF TypeInv, HeaderInv, HeaderTypes
<1> USE DEF history, live
<1>1. ASSUME NEW d \in Device, Save(d) PROVE (AnswerTypes /\ ShownTypes /\ BoundTypes)'
  <2>1. PICK b \in BOOLEAN : cycles' = Append(cycles, [device |-> d, battery |-> b])
    BY <1>1 DEF Save
  <2>2. Len(cycles') = Len(cycles) + 1 /\ Len(cycles) < MaxCycles
    BY <1>0, <1>1, <2>1, AppendProperties DEF Save, HeaderInv, HeaderTypes
  <2>3. Saved \subseteq Saved' /\ Len(cycles') <= MaxCycles
    BY <1>0, <2>2, BoundAssumption DEF Saved
  <2>4. AnswerTypes'
    BY <1>0, <1>1, <2>3 DEF Save, AnswerTypes, FetchType
  <2>5. ShownTypes'
    BY <1>0, <1>1, <2>3 DEF Save, ShownTypes
  <2> QED
    BY <1>0, <1>1, <2>3, <2>4, <2>5 DEF Save, BoundTypes
<1>2. ASSUME NEW n \in unsent, Publish(n) PROVE (AnswerTypes /\ ShownTypes /\ BoundTypes)'
  BY <1>0, <1>2 DEF Publish, AnswerTypes, FetchType, ShownTypes, BoundTypes, Saved
<1>3. ASSUME NEW f \in asked, Answer(f) PROVE (AnswerTypes /\ ShownTypes /\ BoundTypes)'
  <2>1. Query(f) \in {NoData} \cup Saved
    BY <1>0, QueryIsSaved
  <2>2. AnswerTypes'
    BY <1>0, <1>3, <2>1 DEF Answer, AnswerTypes, FetchType, Saved
  <2> QED
    BY <1>0, <1>3, <2>2 DEF Answer, ShownTypes, BoundTypes, Saved
<1>4. ASSUME NEW a \in answers, StatusAnswered(a) PROVE (AnswerTypes /\ ShownTypes /\ BoundTypes)'
  BY <1>0, <1>4 DEF StatusAnswered, Deliver, AnswerTypes, FetchType, ShownTypes, BoundTypes, Saved, Failed
<1>5. ASSUME NEW a \in answers, BatteryAnswered(a) PROVE (AnswerTypes /\ ShownTypes /\ BoundTypes)'
  <2>1. a.result \in {Failed, NoData} \cup Saved
    BY <1>0 DEF AnswerTypes
  <2>2. a.result \in Cycle => a.result \in Saved
    BY <2>1 DEF Failed, NoData, Null, Cycle
  <2>3. battery' = NoBattery \/ battery' \in [charge : Saved, flow : Saved]
    BY <1>5, <2>2 DEF BatteryAnswered
  <2> QED
    BY <1>0, <1>5, <2>3 DEF BatteryAnswered, Deliver, AnswerTypes, FetchType, ShownTypes, BoundTypes, Saved
<1>6. ASSUME NEW a \in answers, HistoryAnswered(a) PROVE (AnswerTypes /\ ShownTypes /\ BoundTypes)'
  BY <1>0, <1>6 DEF HistoryAnswered, Deliver, AnswerTypes, FetchType, ShownTypes, BoundTypes, Saved
<1>7. ASSUME NEW s \in Source, Open(s) \/ Lose(s) PROVE (AnswerTypes /\ ShownTypes /\ BoundTypes)'
  BY <1>0, <1>7, BoundAssumption DEF Open, Lose, AnswerTypes, FetchType, ShownTypes, BoundTypes, Saved
<1>8. ASSUME NEW s \in Source, Message(s) PROVE (AnswerTypes /\ ShownTypes /\ BoundTypes)'
  <2>1. wire[s] \in Seq(Saved) /\ wire[s] # <<>> /\ latestEvent' = Head(wire[s])
    BY <1>0, <1>8 DEF Message, HeaderInv, HeaderTypes, Saved
  <2>2. latestEvent' \in Saved
    BY <2>1, HeadTailProperties
  <2> QED
    BY <1>0, <1>8, <2>2 DEF Message, AnswerTypes, FetchType, ShownTypes, BoundTypes, Saved
<1>9. CASE Effects
  <2>1. latestEvent \in Saved
    BY <1>0, <1>9 DEF Effects, CardsInv, ShownTypes, Null
  <2>2. battery' = NoBattery \/ battery' \in [charge : Saved, flow : Saved]
    BY <1>0, <1>9, <2>1 DEF Effects, MergeBattery, ShownTypes
  <2> QED
    BY <1>0, <1>9, <2>1, <2>2 DEF Effects, MergeStatus, network, AnswerTypes, FetchType, ShownTypes, BoundTypes, Saved
<1>10. ASSUME NEW i \in Interval, Click(i) PROVE (AnswerTypes /\ ShownTypes /\ BoundTypes)'
  <2>1. clicks' \in 0..MaxClicks /\ clicks \in Nat /\ clicks' \in Nat /\ clicks' = clicks + 1
    BY <1>0, <1>10, BoundAssumption DEF Click, SetHistoryInterval, BoundTypes
  <2>2. \A a \in answers : a.fetch # Fetch("history", i, clicks')
    BY <1>0, <2>1, BoundAssumption DEF AnswerTypes, FetchType, Fetch
  <2>3. AnswerTypes'
    <3>1. asked' = asked \cup {Fetch("history", i, clicks')} /\ answers' = answers /\ cycles' = cycles
      BY <1>10 DEF Click, SetHistoryInterval
    <3>2. ASSUME NEW f, FetchType(f, clicks) PROVE FetchType(f, clicks')
      <4>1. f.n \in Nat /\ (f.hook = "history" => f.n <= clicks)
        BY <3>2 DEF FetchType
      <4>2. f.hook = "history" => f.n <= clicks'
        BY <2>1, <4>1
      <4> QED
        BY <3>2, <4>2 DEF FetchType
    <3>3. FetchType(Fetch("history", i, clicks'), clicks')
      BY <2>1 DEF FetchType, Fetch
    <3> QED
      BY <1>0, <2>2, <3>1, <3>2, <3>3 DEF AnswerTypes, Saved
  <2>4. hasty' \in BOOLEAN
    BY <1>10, Zenon DEF Click, SetHistoryInterval
  <2>5. ShownTypes'
    BY <1>0, <1>10, <2>4 DEF Click, SetHistoryInterval, ShownTypes, Saved
  <2> QED
    BY <1>0, <1>10, <2>1, <2>3, <2>5 DEF Click, SetHistoryInterval, BoundTypes, Saved
<1>11. CASE RenderHistory \/ UNCHANGED vars
  BY <1>0, <1>11 DEF RenderHistory, vars, network, AnswerTypes, FetchType, ShownTypes, BoundTypes, Saved
<1> QED
  BY <1>1, <1>2, <1>3, <1>4, <1>5, <1>6, <1>7, <1>8, <1>9, <1>10, <1>11 DEF Next, Answered

\* What is shown of a reading or a battery is of a cycle that was saved, and the
\* answer "no data" is never shown as a battery (api.ts:32).
THEOREM TypeCorrect == Spec => []TypeOK
<1>1. TypeInv => TypeOK
  <2> SUFFICES ASSUME TypeInv PROVE TypeOK
    OBVIOUS
  <2>1. DOMAIN cycles = Saved
    BY LenProperties DEF TypeInv, HeaderInv, HeaderTypes, Saved
  <2>2. BrowserTypeOK
    BY <2>1 DEF TypeInv, HeaderInv, HeaderTypes, ShownTypes, BoundTypes, BrowserTypeOK, Saved
  <2>3. online \subseteq Source
    BY DEF TypeInv, HeaderInv, HeaderTypes, Sources, Source
  <2>4. \A f \in asked \cup {a.fetch : a \in answers} :
          f.hook \in {"status", "battery", "history"} /\ f.n \in Nat /\ f.interval \in Interval
    BY DEF TypeInv, AnswerTypes, FetchType
  <2>5. ServerTypeOK
    BY <2>1, <2>3, <2>4
    DEF TypeInv, AnswerTypes, HeaderInv, HeaderTypes, BoundTypes, ServerTypeOK, Saved
  <2> QED
    BY <2>2, <2>5 DEF TypeOK
<1> QED
  BY <1>1, TypeInit, TypeNext, PTL DEF Spec
=============================================================================
