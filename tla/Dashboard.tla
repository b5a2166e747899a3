----------------------------- MODULE Dashboard -----------------------------
(***************************************************************************)
(* The browser's side: the hooks of frontend/src/hooks on what the REST    *)
(* endpoints (handler.go, power_service.go, reading_repository.go) answer  *)
(* and what the event stream brings, and the components that show it.      *)
(*                                                                         *)
(* A poll cycle is named by its index, which is also its timestamp: the    *)
(* reading, the battery status and the event of one cycle are the same     *)
(* number.  JavaScript runs one callback at a time, so each handler, each  *)
(* .then, each run of the effects and each render of the chart is one step;*)
(* between them anything may happen.  The build is the one of              *)
(* Dockerfile.frontend, where React 18 runs the effects of a commit once.  *)
(***************************************************************************)
EXTENDS Integers, Sequences, FiniteSetsExt

CONSTANTS Device,            \* the devices whose cycles are saved and published
          deviceId,          \* VITE_DEVICE_ID, the device that is shown
          Interval, Hour,    \* HistoryInterval and its initial value
          MaxCycles,         \* bound: poll cycles
          MaxClicks,         \* bound: changes of the interval
          MaxLosses          \* bound: connections lost

ASSUME DeviceAssumption == deviceId \in Device
ASSUME IntervalAssumption == Hour \in Interval
ASSUME BoundAssumption == MaxCycles \in Nat /\ MaxClicks \in Nat /\ MaxLosses \in Nat

VARIABLES      \* the server and the network
  cycles,      \* cycles[n]: the device of cycle n, and whether it saved a battery status
  unsent,      \* the cycles whose event is not published yet
  asked,       \* the fetches the server has not answered
  answers,     \* its answers that are under way
  online,      \* the EventSources with a connection: useSSE's connected
  wire         \* wire[s]: the events under way to EventSource s

VARIABLES      \* the browser
  latestEvent, \* useSSE
  effected,    \* the latestEvent the effects of the last commit have run with
  status,      \* usePowerStatus
  battery,     \* useBatteryStatus
  interval, readings, loading,  \* usePowerHistory, with every setState that was called
  shown        \* the readings and loading the HistoryChart was last rendered with

VARIABLES      \* history
  clicks, losses,
  hasty,       \* of the histories due, one was asked for in the Gap after another
  seen,        \* the events that have been latestEvent
  merged       \* a live event has been merged into status

network == <<cycles, unsent, asked, answers, online, wire>>
live == <<latestEvent, effected, seen, merged>>
history == <<interval, readings, loading, shown, clicks, hasty>>
vars == <<network, live, status, battery, history, losses>>

Source == 1..2
Cycle == 1..MaxCycles
Null == -1     \* null: no status, no event
NoData == 0    \* the answer {"status": "no data"}
NoBattery == [charge |-> Null, flow |-> Null]
Failed == Null \* an answer that rejects its fetch

Fetch(hook, i, n) == [hook |-> hook, interval |-> i, n |-> n]

\* Mutant: the effect of useSSE has neither dependencies nor a cleanup
SourcesLeaked == Source

\* The EventSources that are open: useSSE makes one and closes it on unmount.
Sources == {1}

Init ==
  /\ cycles = <<>> /\ unsent = {}
  /\ online = {} /\ wire = [s \in Source |-> <<>>]
  /\ asked = {Fetch(h, Hour, 0) : h \in {"status", "battery", "history"}}
  /\ answers = {}
  /\ latestEvent = Null /\ effected = Null
  /\ status = Null /\ battery = NoBattery
  /\ interval = Hour /\ readings = {} /\ loading = TRUE
  /\ shown = [readings |-> {}, loading |-> TRUE]
  /\ clicks = 0 /\ losses = 0 /\ hasty = FALSE /\ seen = {} /\ merged = FALSE
-----------------------------------------------------------------------------
(* The server.                                                             *)

\* A poller has saved a cycle of d and put its event on the bus.
Save(d) ==
  /\ Len(cycles) < MaxCycles
  /\ \E b \in BOOLEAN : cycles' = Append(cycles, [device |-> d, battery |-> b])
  /\ unsent' = unsent \cup {Len(cycles')}
  /\ UNCHANGED <<asked, answers, online, wire, live, status, battery, history, losses>>

\* The hub fans out the event of a cycle, those of a device in their order; it reaches
\* the clients whose buffers have room, and none if the bus was full.
Publish(n) ==
  /\ n \in unsent /\ \A m \in unsent : cycles[m].device = cycles[n].device => n <= m
  /\ unsent' = unsent \ {n}
  /\ \E reached \in SUBSET online :
       wire' = [s \in Source |-> IF s \in reached THEN Append(wire[s], n) ELSE wire[s]]
  /\ UNCHANGED <<cycles, asked, answers, online, live, status, battery, history, losses>>

\* ORDER BY reading_timestamp DESC LIMIT 1, and "no data" if there is no row
Newest(S) == Max({NoData} \cup S)
GetLatestReadings(d) == Newest({n \in DOMAIN cycles : cycles[n].device = d})
GetLatestBatteryStatus(d) ==
  Newest({n \in DOMAIN cycles : cycles[n].device = d /\ cycles[n].battery})

\* What the handler answers now; of a history only the interval matters here.
Query(f) == CASE f.hook = "status" -> GetLatestReadings(deviceId)
              [] f.hook = "battery" -> GetLatestBatteryStatus(deviceId)
              [] f.hook = "history" -> NoData

\* The database has run the query, or the request has failed on the way.
Answer(f) ==
  /\ f \in asked
  /\ asked' = asked \ {f}
  /\ \E result \in {Query(f), Failed} : answers' = answers \cup {[fetch |-> f, result |-> result]}
  /\ UNCHANGED <<cycles, unsent, online, wire, live, status, battery, history, losses>>
-----------------------------------------------------------------------------
(* useSSE.                                                                 *)

\* onopen: the hub has the client, which gets what is broadcast from now on.
Open(s) ==
  /\ s \in Sources \ online
  /\ online' = online \cup {s}
  /\ UNCHANGED <<cycles, unsent, asked, answers, wire, live, status, battery, history, losses>>

\* onerror: the connection is gone with what it carried; EventSource reconnects.
Lose(s) ==
  /\ s \in online /\ losses < MaxLosses
  /\ losses' = losses + 1
  /\ online' = online \ {s}
  /\ wire' = [wire EXCEPT ![s] = <<>>]
  /\ UNCHANGED <<cycles, unsent, asked, answers, live, status, battery, history>>

\* onmessage
Message(s) ==
  /\ wire[s] # <<>>
  /\ latestEvent' = Head(wire[s])
  /\ wire' = [wire EXCEPT ![s] = Tail(@)]
  /\ seen' = seen \cup {latestEvent'}
  /\ UNCHANGED <<cycles, unsent, asked, answers, online, effected, merged, status, battery,
                 history, losses>>
-----------------------------------------------------------------------------
(* usePowerStatus and useBatteryStatus.                                    *)

\* The merge replaces every field of the status, whichever device the event is of;
\* there is no status before the first answer.
MergeStatus(e) == IF status = Null THEN Null ELSE e

\* Of the battery it replaces the flow, if the event has one.
MergeBattery(e) == IF cycles[e].battery /\ battery # NoBattery
                     THEN [battery EXCEPT !.flow = e] ELSE battery

\* Mutant: liveEvent among the dependencies of the fetch
EffectsRefetch ==
  /\ latestEvent # effected
  /\ effected' = latestEvent
  /\ status' = MergeStatus(latestEvent)
  /\ merged' = (merged \/ status # Null)
  /\ battery' = MergeBattery(latestEvent)
  /\ asked' = asked \cup {Fetch("status", Hour, latestEvent)}
  /\ UNCHANGED <<cycles, unsent, answers, online, wire, latestEvent, seen, history, losses>>

\* React has rendered the latest of the messages that came since it last did, and
\* runs the effects of both hooks.
Effects ==
  /\ latestEvent # effected
  /\ effected' = latestEvent
  /\ status' = MergeStatus(latestEvent)
  /\ merged' = (merged \/ status # Null)
  /\ battery' = MergeBattery(latestEvent)
  /\ UNCHANGED <<network, latestEvent, seen, history, losses>>

\* a is delivered; a later fetch of the same kind gives another answer
Deliver(a, hook) ==
  /\ a \in answers /\ a.fetch.hook = hook
  /\ answers' = answers \ {a}
  /\ UNCHANGED <<cycles, unsent, asked, online, wire, live, losses>>

StatusAnswered(a) ==
  /\ Deliver(a, "status")
  /\ status' = a.result
  /\ UNCHANGED <<battery, history>>

\* Mutant: fetchBatteryStatus takes {"status": "no data"} for a battery
BatteryAnsweredNoData(a) ==
  /\ Deliver(a, "battery")
  /\ battery' = IF a.result = Failed THEN NoBattery ELSE [charge |-> a.result, flow |-> a.result]
  /\ UNCHANGED <<status, history>>

BatteryAnswered(a) ==
  /\ Deliver(a, "battery")
  /\ battery' = IF a.result \in Cycle THEN [charge |-> a.result, flow |-> a.result] ELSE NoBattery
  /\ UNCHANGED <<status, history>>
-----------------------------------------------------------------------------
(* usePowerHistory and the HistoryChart.                                   *)

HistoryDue == \E f \in asked \cup {a.fetch : a \in answers} : f.hook = "history"

\* The effect has set loading, and React has not rendered it yet: the chart still
\* has its buttons, under the new interval and over the old readings.
Gap == loading /\ ~shown.loading

\* A change of the interval.  React renders what a click sets, and runs the effects
\* of that render, before it handles anything else: the fetch is asked for, but the
\* loading the effect sets is rendered at a lower priority, by RenderHistory.
SetHistoryInterval(i) ==
  /\ clicks < MaxClicks /\ i # interval
  /\ interval' = i /\ loading' = TRUE
  /\ clicks' = clicks + 1
  /\ hasty' = (Gap \/ (hasty /\ HistoryDue))
  /\ asked' = asked \cup {Fetch("history", i, clicks')}
  /\ UNCHANGED <<cycles, unsent, answers, online, wire, live, status, battery, readings, shown,
                 losses>>

\* Mutant: the buttons are there while the chart is loading
ClickWhileLoading(i) == SetHistoryInterval(i)

\* A click on a button of the chart, which has none while it shows its skeleton.
Click(i) == ~shown.loading /\ SetHistoryInterval(i)

\* React renders what the effect and the answers have set since it last did.
RenderHistory ==
  /\ shown # [readings |-> readings, loading |-> loading]
  /\ shown' = [readings |-> readings, loading |-> loading]
  /\ UNCHANGED <<network, live, status, battery, interval, readings, loading, clicks, hasty, losses>>

\* Mutant: the catch does not reset loading
HistoryAnsweredOrStuck(a) ==
  /\ Deliver(a, "history")
  /\ readings' = IF a.result = Failed THEN {} ELSE {a.fetch.interval}
  /\ loading' = (loading /\ a.result = Failed)
  /\ UNCHANGED <<status, battery, interval, shown, clicks, hasty>>

\* Whichever history it is of: nothing compares it with the interval.
HistoryAnswered(a) ==
  /\ Deliver(a, "history")
  /\ readings' = IF a.result = Failed THEN {} ELSE {a.fetch.interval}
  /\ loading' = FALSE
  /\ UNCHANGED <<status, battery, interval, shown, clicks, hasty>>
-----------------------------------------------------------------------------
Answered == \E a \in answers : StatusAnswered(a) \/ BatteryAnswered(a) \/ HistoryAnswered(a)

Next ==
  \/ (\E d \in Device : Save(d)) \/ (\E n \in unsent : Publish(n))
  \/ (\E f \in asked : Answer(f)) \/ Answered
  \/ (\E s \in Source : Open(s) \/ Lose(s) \/ Message(s))
  \/ Effects
  \/ (\E i \in Interval : Click(i)) \/ RenderHistory

Spec == Init /\ [][Next]_vars

\* Every fetch ends (30 s of TimeoutHandler, routes.go:47), and the browser runs
\* the callbacks, effects and renders that are due.
FairSpec ==
  /\ Spec
  /\ WF_vars(\E f \in asked : Answer(f)) /\ WF_vars(Answered)
  /\ WF_vars(Effects) /\ WF_vars(RenderHistory)
-----------------------------------------------------------------------------
(* Properties.                                                             *)

ServerTypeOK ==
  /\ cycles \in Seq([device : Device, battery : BOOLEAN]) /\ Len(cycles) <= MaxCycles
  /\ unsent \subseteq DOMAIN cycles
  /\ \A f \in asked \cup {a.fetch : a \in answers} :
        f.hook \in {"status", "battery", "history"} /\ f.n \in Nat /\ f.interval \in Interval
  /\ \A a \in answers : a.result \in {Failed, NoData} \cup DOMAIN cycles /\ a.fetch \notin asked
  /\ online \subseteq Source
  /\ wire \in [Source -> Seq(DOMAIN cycles)] /\ \A s \in Source \ online : wire[s] = <<>>
BrowserTypeOK ==
  /\ latestEvent \in {Null} \cup DOMAIN cycles /\ effected \in {Null} \cup DOMAIN cycles
  /\ status \in {Null, NoData} \cup DOMAIN cycles
  /\ battery = NoBattery \/ battery \in [charge : DOMAIN cycles, flow : DOMAIN cycles]
  /\ interval \in Interval /\ readings \subseteq Interval /\ loading \in BOOLEAN
  /\ shown \in [readings : SUBSET Interval, loading : BOOLEAN] /\ hasty \in BOOLEAN
  /\ clicks \in 0..MaxClicks /\ losses \in 0..MaxLosses
  /\ seen \subseteq DOMAIN cycles /\ merged \in BOOLEAN

\* Every variable has its type; what is shown of a reading or a battery is of a
\* cycle that was saved, and the answer "no data" is never shown as a battery
\* (api.ts:32).
TypeOK == ServerTypeOK /\ BrowserTypeOK

\* Once React has rendered what was set, a chart that is not loading shows the history
\* of the selected interval, whatever was clicked and however the answers came - unless
\* a click fell into the Gap after another.  Nothing in usePowerHistory orders its
\* answers, so that in that case the earlier one may come last and stay: that otherwise
\* one history is due at a time is up to the skeleton (HistoryChart.tsx:22).
ReadingsMatchInterval ==
  ~hasty /\ ~shown.loading /\ ~loading /\ shown.readings = readings => readings \subseteq {interval}

\* The header's time never goes back, over lost connections and reconnects: what one
\* connection left undelivered is gone when the next begins, and a device's events are
\* fanned out in their order (useSSE.ts:16-37).
HeaderMovesForward ==
  [][latestEvent' # latestEvent =>
       \A n \in seen : cycles[n].device = cycles'[latestEvent'].device => n < latestEvent']_vars

\* Once a live event has been merged into the cards, they show the event the header
\* tells the time of, as soon as the effects have run: no answer to a fetch comes
\* after it (usePowerStatus.ts:22-37).
CardsFollowHeader ==
  merged => status = effected

\* The chart does not stay a skeleton, whether the fetches succeed or fail and however
\* many there are.
SkeletonGoes == shown.loading ~> ~shown.loading
=============================================================================
