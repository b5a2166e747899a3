----------------------------- MODULE Ingestion -----------------------------
(***************************************************************************)
(* The pollers of backend/internal/service/ingestion_service.go, with the  *)
(* ticker they share, the database they write to and the event bus they    *)
(* publish on.  One goroutine RunPoller per configured provider; a poller  *)
(* is named by the device id it was given.                                 *)
(*                                                                         *)
(* A call that leaves the goroutine (the provider's API, the database) is  *)
(* one step, from the goroutine's point of view, at which it returns; the  *)
(* other pollers, the ticker and main run between the calls.  An event is  *)
(* its place in the history "published".  The time a reading is stamped    *)
(* with is a counter that every successful GetSystemStatus advances.       *)
(***************************************************************************)
EXTENDS Naturals, Sequences, FiniteSets

CONSTANTS Device,      \* device ids of the configured providers
          Registered,  \* those with a row in table devices
          Battery,     \* those whose adapter returns a battery status
          BusCap,      \* capacity of eventBus
          MaxTicks,    \* bound: ticks of the ticker in a behaviour
          MaxCrashes   \* bound: crashes in a behaviour

ASSUME DeviceAssumption == Registered \subseteq Device /\ Battery \subseteq Device
ASSUME BusCapAssumption == BusCap \in Nat \ {0}
ASSUME BoundAssumption == MaxTicks \in Nat /\ MaxCrashes \in Nat

VARIABLES
  ctxDone,    \* main has called cancel()
  tick,       \* how many ticks the ticker's channel holds
  pc,         \* pc[d]: where the poller of d is
  now,        \* now[d]: the timestamp of d's current cycle
  charged,    \* devices whose event has its battery fields set
  factor,     \* factor[d]: backoff.factor
  inFlight,   \* pollers whose current call began before cancel()
  rows,       \* the database: rows of power_readings and battery_status
  bus         \* contents of eventBus

VARIABLES     \* history
  ticks, crashes,  \* ticks fired, crashes so far
  clock,           \* the last timestamp handed out
  polls,           \* polls[d]: ticks poller d received since the process started
  missed,          \* ticks dropped because the ticker's channel was full
  rowsAtCancel,    \* rows when cancel() was called
  published        \* every event sent to eventBus, in order

dbVars == <<rows, rowsAtCancel>>
tickVars == <<tick, ticks, missed>>
pollVars == <<pc, now, charged, factor, inFlight, polls, clock>>
busVars == <<bus, published>>
vars == <<ctxDone, crashes, dbVars, tickVars, pollVars, busVars>>

Reading(d, t) == [table |-> "power_readings", device |-> d, at |-> t]
BatteryStatus(d, t) == [table |-> "battery_status", device |-> d, at |-> t]

\* Where a poller waits for a call with ctx to return
Calls == {"status", "saveReading", "battery", "saveBattery"}

Init ==
  /\ ctxDone = FALSE /\ tick = 0
  /\ pc = [d \in Device |-> "select"]
  /\ now = [d \in Device |-> 0]
  /\ charged = {}
  /\ factor = [d \in Device |-> 0]
  /\ inFlight = {}
  /\ rows = {} /\ bus = <<>>
  /\ ticks = 0 /\ crashes = 0 /\ clock = 0 /\ missed = 0
  /\ polls = [d \in Device |-> 0]
  /\ rowsAtCancel = {} /\ published = <<>>
-----------------------------------------------------------------------------
(* Everything around the pollers.                                          *)

\* time.Ticker: a channel of one slot, a tick that finds it taken is dropped.
Tick ==
  /\ ticks < MaxTicks
  /\ ticks' = ticks + 1
  /\ IF tick = 1 THEN missed' = missed + 1 /\ UNCHANGED tick
                 ELSE tick' = 1 /\ UNCHANGED missed
  /\ UNCHANGED <<ctxDone, crashes, dbVars, pollVars, busVars>>

\* The bridge takes an event from the bus.
Consume ==
  /\ bus # <<>>
  /\ bus' = Tail(bus)
  /\ UNCHANGED <<ctxDone, crashes, dbVars, tickVars, pollVars, published>>

Cancel ==
  /\ ~ctxDone
  /\ ctxDone' = TRUE
  /\ inFlight' = {d \in Device : pc[d] \in Calls}
  /\ rowsAtCancel' = rows
  /\ UNCHANGED <<crashes, rows, tickVars, pc, now, charged, factor, polls, clock, busVars>>

\* Mutant: readings stamped with the time since the process started
CrashResetsClock ==
  /\ crashes < MaxCrashes
  /\ crashes' = crashes + 1
  /\ ctxDone' = FALSE /\ tick' = 0
  /\ pc' = [d \in Device |-> "select"]
  /\ now' = [d \in Device |-> 0]
  /\ charged' = {} /\ inFlight' = {}
  /\ factor' = [d \in Device |-> 0]
  /\ polls' = [d \in Device |-> 0]
  /\ missed' = 0 /\ clock' = 0
  /\ bus' = <<>>
  /\ UNCHANGED <<dbVars, ticks, published>>

\* The process dies and is started again: only the database survives.
Crash ==
  /\ crashes < MaxCrashes
  /\ crashes' = crashes + 1
  /\ ctxDone' = FALSE /\ tick' = 0
  /\ pc' = [d \in Device |-> "select"]
  /\ now' = [d \in Device |-> 0]
  /\ charged' = {} /\ inFlight' = {}
  /\ factor' = [d \in Device |-> 0]
  /\ polls' = [d \in Device |-> 0]
  /\ missed' = 0
  /\ bus' = <<>>
  /\ UNCHANGED <<dbVars, ticks, clock, published>>
-----------------------------------------------------------------------------
(* RunPoller, pollSafe and pollOnce, for the poller of d.                  *)

\* The poller of d goes on to label; a call made after cancel() is not in flight.
Goto(d, label) == /\ pc' = [pc EXCEPT ![d] = label]
                  /\ inFlight' = inFlight \ {d}

\* Mutant: pollOnce makes its calls with context.Background()
CanAlwaysSucceed(d) == TRUE

\* A call with a context that is done fails before it has any effect.
CanSucceed(d) == ~ctxDone \/ d \in inFlight

\* Mutant: RunPoller ranges over the trigger channel, which no ticker closes
StopOnClosedTrigger(d) == pc[d] = "select" /\ FALSE /\ UNCHANGED vars

Stop(d) ==
  /\ pc[d] = "select" /\ ctxDone
  /\ Goto(d, "stopped")
  /\ UNCHANGED <<ctxDone, crashes, dbVars, tickVars, now, charged, factor, polls, clock, busVars>>

Receive(d) ==
  /\ pc[d] = "select" /\ tick = 1
  /\ tick' = 0
  /\ polls' = [polls EXCEPT ![d] = @ + 1]
  /\ Goto(d, "status")
  /\ UNCHANGED <<ctxDone, crashes, dbVars, ticks, missed, now, charged, factor, clock, busVars>>

\* pollOnce returned an error or panicked: sleep for b.increase()
Sleep(d) ==
  /\ Goto(d, "backoff")
  /\ factor' = [factor EXCEPT ![d] = @ + 1]

\* The adapter returns an error, whichever, or panics.
StatusFails(d) ==
  /\ pc[d] = "status"
  /\ Sleep(d)
  /\ UNCHANGED <<ctxDone, crashes, dbVars, tickVars, now, charged, polls, clock, busVars>>

StatusReturns(d) ==
  /\ pc[d] = "status" /\ CanSucceed(d)
  /\ clock' = clock + 1
  /\ now' = [now EXCEPT ![d] = clock']
  /\ charged' = charged \ {d}
  /\ Goto(d, "saveReading")
  /\ UNCHANGED <<ctxDone, crashes, dbVars, tickVars, factor, polls, busVars>>

\* Mutant: a schema without the foreign key
ReadingSavedWithoutKey(d) ==
  /\ pc[d] = "saveReading" /\ CanSucceed(d)
  /\ rows' = rows \cup {Reading(d, now[d])}
  /\ Goto(d, "battery")
  /\ UNCHANGED <<ctxDone, crashes, rowsAtCancel, tickVars, now, charged, factor, polls, clock, busVars>>

\* The insert violates the foreign key unless the device is registered.
ReadingSaved(d) ==
  /\ pc[d] = "saveReading" /\ d \in Registered /\ CanSucceed(d)
  /\ rows' = rows \cup {Reading(d, now[d])}
  /\ Goto(d, "battery")
  /\ UNCHANGED <<ctxDone, crashes, rowsAtCancel, tickVars, now, charged, factor, polls, clock, busVars>>

\* Mutant: a failed SaveReading is only logged, like a failed SaveBatteryStatus
ReadingFailureLogged(d) ==
  /\ pc[d] = "saveReading"
  /\ \/ UNCHANGED rows
     \/ d \in Registered /\ CanSucceed(d) /\ rows' = rows \cup {Reading(d, now[d])}
  /\ Goto(d, "battery")
  /\ UNCHANGED <<ctxDone, crashes, rowsAtCancel, tickVars, now, charged, factor, polls, clock, busVars>>

\* SaveReading returns an error; if the connection was lost after the commit,
\* the row is there nevertheless.
ReadingFails(d) ==
  /\ pc[d] = "saveReading"
  /\ \/ UNCHANGED rows
     \/ d \in Registered /\ CanSucceed(d) /\ rows' = rows \cup {Reading(d, now[d])}
  /\ Sleep(d)
  /\ UNCHANGED <<ctxDone, crashes, rowsAtCancel, tickVars, now, charged, polls, clock, busVars>>

BatteryReturns(d) ==
  /\ pc[d] = "battery" /\ d \in Battery /\ CanSucceed(d)
  /\ Goto(d, "saveBattery")
  /\ UNCHANGED <<ctxDone, crashes, dbVars, tickVars, now, charged, factor, polls, clock, busVars>>

\* nil, or an error, which is only logged
NoBattery(d) ==
  /\ pc[d] = "battery"
  /\ Goto(d, "publish")
  /\ UNCHANGED <<ctxDone, crashes, dbVars, tickVars, now, charged, factor, polls, clock, busVars>>

BatteryPanics(d) ==
  /\ pc[d] = "battery"
  /\ Sleep(d)
  /\ UNCHANGED <<ctxDone, crashes, dbVars, tickVars, now, charged, polls, clock, busVars>>

BatterySaved(d) ==
  /\ pc[d] = "saveBattery" /\ CanSucceed(d)
  /\ rows' = rows \cup {BatteryStatus(d, now[d])}
  /\ charged' = charged \cup {d}
  /\ Goto(d, "publish")
  /\ UNCHANGED <<ctxDone, crashes, rowsAtCancel, tickVars, now, factor, polls, clock, busVars>>

\* Mutant: the event gets its battery fields whether or not the save succeeded
BatterySaveFailureCharged(d) ==
  /\ pc[d] = "saveBattery"
  /\ \/ UNCHANGED rows
     \/ CanSucceed(d) /\ rows' = rows \cup {BatteryStatus(d, now[d])}
  /\ charged' = charged \cup {d}
  /\ Goto(d, "publish")
  /\ UNCHANGED <<ctxDone, crashes, rowsAtCancel, tickVars, now, factor, polls, clock, busVars>>

\* Only logged: the event goes out without its battery fields.
BatterySaveFails(d) ==
  /\ pc[d] = "saveBattery"
  /\ \/ UNCHANGED rows
     \/ CanSucceed(d) /\ rows' = rows \cup {BatteryStatus(d, now[d])}
  /\ Goto(d, "publish")
  /\ UNCHANGED <<ctxDone, crashes, rowsAtCancel, tickVars, now, charged, factor, polls, clock, busVars>>

\* Mutant: no default case, the poller waits for room on the bus
PublishBlocking(d) ==
  /\ pc[d] = "publish"
  /\ Len(bus) < BusCap
  /\ published' = Append(published, [device |-> d, at |-> now[d], charged |-> d \in charged])
  /\ bus' = Append(bus, Len(published'))
  /\ factor' = [factor EXCEPT ![d] = 0]
  /\ Goto(d, "select")
  /\ UNCHANGED <<ctxDone, crashes, dbVars, tickVars, now, charged, polls, clock>>

\* select { case s.eventBus <- event: default: }, then b.reset()
Publish(d) ==
  /\ pc[d] = "publish"
  /\ IF Len(bus) < BusCap
       THEN /\ published' = Append(published, [device |-> d, at |-> now[d], charged |-> d \in charged])
            /\ bus' = Append(bus, Len(published'))
       ELSE UNCHANGED busVars
  /\ factor' = [factor EXCEPT ![d] = 0]
  /\ Goto(d, "select")
  /\ UNCHANGED <<ctxDone, crashes, dbVars, tickVars, now, charged, polls, clock>>

\* time.Sleep returns; it does not watch ctx.
Wake(d) ==
  /\ pc[d] = "backoff"
  /\ Goto(d, "select")
  /\ UNCHANGED <<ctxDone, crashes, dbVars, tickVars, now, charged, factor, polls, clock, busVars>>

\* The steps of a cycle, between two visits of the select
Cycle(d) == \/ StatusFails(d) \/ StatusReturns(d)
            \/ ReadingSaved(d) \/ ReadingFails(d)
            \/ BatteryReturns(d) \/ NoBattery(d) \/ BatteryPanics(d)
            \/ BatterySaved(d) \/ BatterySaveFails(d)
            \/ Publish(d) \/ Wake(d)

Poller(d) == Stop(d) \/ Receive(d) \/ Cycle(d)

Next == Tick \/ Consume \/ Cancel \/ Crash \/ \E d \in Device : Poller(d)

Spec == Init /\ [][Next]_vars

\* A goroutine keeps running and its calls return (client.go:28, the Enphase
\* client times out after 15 s); select is random, so a poller that comes back to
\* it while ctx is done stops some time.  Nothing obliges the ticker to tick or
\* the bridge to read.
FairSpec == Spec /\ \A d \in Device : WF_vars(Cycle(d)) /\ SF_vars(Stop(d))
-----------------------------------------------------------------------------
(* Properties.                                                             *)

Pc == Calls \cup {"select", "publish", "backoff", "stopped"}
Time == Nat
EventType == [device : Device, at : Time, charged : BOOLEAN]
RowType == [table : {"power_readings", "battery_status"}, device : Registered, at : Time]

TickTypeOK == /\ ctxDone \in BOOLEAN
              /\ tick \in 0..1 /\ ticks \in 0..MaxTicks /\ missed \in Nat
              /\ crashes \in 0..MaxCrashes
PollTypeOK == /\ pc \in [Device -> Pc]
              /\ now \in [Device -> Time] /\ clock \in Time
              /\ factor \in [Device -> Nat] /\ polls \in [Device -> Nat]
              /\ charged \subseteq Device /\ inFlight \subseteq Device
DbTypeOK == rows \subseteq RowType /\ rowsAtCancel \subseteq RowType
BusTypeOK == /\ published \in Seq(EventType)
             /\ bus \in Seq(Nat) /\ Len(bus) <= BusCap

\* Every variable has its type, rows are rows of registered devices only (the
\* foreign keys of the schema), and the bus keeps to its capacity.
TypeOK == TickTypeOK /\ PollTypeOK /\ DbTypeOK /\ BusTypeOK

\* What browsers are shown is in the database: a published event's reading has
\* its row, and if the event has battery fields the battery status has its row
\* too - over failed saves, commits whose answer was lost, panics and crashes
\* (ingestion_service.go:94-101, 116-133 before 135-139).
PublishedArePersisted ==
  \A n \in 1..Len(published) :
     LET e == published[n]
     IN /\ Reading(e.device, e.at) \in rows
        /\ e.charged => BatteryStatus(e.device, e.at) \in rows

\* The history of the battery joins with that of the power: a battery row has
\* the reading row of the same cycle, whichever calls failed.
BatteryRowsHaveReadings ==
  \A r \in rows : r.table = "battery_status" => Reading(r.device, r.at) \in rows

\* The events of one device are published in the order of their timestamps,
\* none twice, also across restarts.
PublishedInOrder ==
  \A m, n \in 1..Len(published) :
     m < n /\ published[m].device = published[n].device => published[m].at < published[n].at

\* What holds of the poller of d in the course of its cycle, from which the three
\* invariants above follow
CycleOK(d) ==
  /\ pc[d] \in {"battery", "saveBattery", "publish"} => Reading(d, now[d]) \in rows
  /\ pc[d] \in {"saveReading", "battery", "saveBattery"} => d \notin charged
  /\ pc[d] = "publish" /\ d \in charged => BatteryStatus(d, now[d]) \in rows
  /\ now[d] <= clock
  /\ \A n \in 1..Len(published) : published[n].device = d =>
        /\ published[n].at <= clock
        /\ pc[d] \in {"saveReading", "battery", "saveBattery", "publish"} => published[n].at < now[d]

\* The inductive invariant of the persistence properties
PersistInv == /\ TypeOK
              /\ \A d \in Device : CycleOK(d)
              /\ PublishedArePersisted /\ BatteryRowsHaveReadings /\ PublishedInOrder

\* After cancel() a poller writes at most one row more, the one of the call that
\* was already under way: ctx reaches every call.
AtMostOneRowAfterCancel ==
  ctxDone => \A d \in Device : Cardinality({r \in rows \ rowsAtCancel : r.device = d}) <= 1

\* A poller whose device is not registered (the Enphase poller is given
\* uuid.New(), provider_factory.go:38) fails in every cycle and never leaves its
\* backoff: its factor counts all the cycles it has ended since the start.
UnregisteredBacksOffForever ==
  \A d \in Device \ Registered :
     polls[d] = factor[d] + (IF pc[d] \in Calls \cup {"publish"} THEN 1 ELSE 0)

\* No cycle hangs or kills its poller: whatever fails or panics, and though
\* nobody reads the bus, the poller comes back to its select.
CycleEnds ==
  \A d \in Device : pc[d] \notin {"select", "stopped"} ~> pc[d] = "select"

\* Every poller stops after cancel(), a sleep in its backoff notwithstanding
\* (until the next start, if the process is restarted).
PollersStop == ctxDone ~> (~ctxDone \/ \A d \in Device : pc[d] = "stopped")
-----------------------------------------------------------------------------
(* The pollers implement the log of readings the dashboard is built on.    *)

\* The rows of d against its poller: none is of a later cycle than the one it is
\* in, and of that cycle there is only what its calls have stored.
RowsOK(d) ==
  \A r \in rows : r.device = d =>
     /\ r.at <= clock
     /\ pc[d] = "saveReading" => r.at < now[d]
     /\ pc[d] \in {"battery", "saveBattery", "publish"} => r.at <= now[d]
     /\ pc[d] \in {"battery", "saveBattery"} /\ r.table = "battery_status" => r.at < now[d]

LogInv == PersistInv /\ \A d \in Device : RowsOK(d)

Log == INSTANCE ReadingLog WITH stored <- rows, announced <- published

\* The calls of a cycle, one by one, with what may fail in each, over a shared
\* ticker, an event bus that drops and restarts of the process, never store or
\* announce what ReadingLog excludes: what is announced is the latest the database
\* has of its device, so that a browser which fetches at that moment gets no less
\* (ingestion_service.go:86-140, power_service.go).
LogRefined == Log!LogSpec
-----------------------------------------------------------------------------
(* What the comments say and the code does not do.                         *)

\* "IngestionService polls a ProviderAdapter on every tick"
\* (ingestion_service.go:20): when no tick was missed and all were handled, every
\* poller has polled as often as the ticker ticked.
EveryTickPollsEveryProvider ==
  (/\ tick = 0 /\ missed = 0 /\ crashes = 0
   /\ \A d \in Device : pc[d] = "select") => \A d \in Device : polls[d] = ticks
=============================================================================
