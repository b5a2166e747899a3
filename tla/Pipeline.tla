------------------------------ MODULE Pipeline ------------------------------
(***************************************************************************)
(* The server of backend/cmd/server/main.go, from the ticker to the        *)
(* browsers: the pollers of Ingestion, the hub and the handlers of Hub, the*)
(* bridge goroutine between them and the main goroutine that shuts them    *)
(* down.  The two ends meet in the event bus, which Ingestion fills and the*)
(* bridge empties, and in Broadcast, which only the bridge calls.          *)
(***************************************************************************)
EXTENDS Naturals, Sequences, FiniteSets

CONSTANTS Device, Registered, Battery, BusCap, MaxTicks,   \* see Ingestion
          Conn, ClientBuffer, BroadcastCap                 \* see Hub

ASSUME DeviceAssumption == Registered \subseteq Device /\ Battery \subseteq Device
ASSUME ConnAssumption == IsFiniteSet(Conn)
ASSUME CapacityAssumption == {BusCap, ClientBuffer, BroadcastCap} \subseteq Nat \ {0}
ASSUME BoundAssumption == MaxTicks \in Nat

VARIABLES ctxDone
VARIABLES tick, pollerPc, now, charged, factor, inFlight, rows, bus,
          ticks, crashes, clock, polls, missed, rowsAtCancel, published
VARIABLES run, runEvent, todo, clients, connected, broadcast, buf, closed,
          handlerPc, hand, reqDone, expired, left, sent, subAt, dropped, lost, received
VARIABLES
  bridge,  \* where the bridge is: "select", "broadcast" or "stopped"
  held,    \* the event it took from the bus and has not broadcast, or <<>>
  main     \* where main is: "serving", "cancelled", "draining", "closing" or "exited"

Pollers == INSTANCE Ingestion WITH pc <- pollerPc, MaxCrashes <- 0
Feed == INSTANCE Hub WITH pc <- handlerPc, MaxEvents <- MaxTicks

pollersOnly == <<tick, pollerPc, now, charged, factor, inFlight, rows, bus, ticks,
                 crashes, clock, polls, missed, rowsAtCancel, published>>
feedOnly == <<run, runEvent, todo, clients, connected, broadcast, buf, closed, handlerPc,
              hand, reqDone, expired, left, sent, subAt, dropped, lost, received>>
bridgeVars == <<bridge, held>>
vars == <<ctxDone, pollersOnly, feedOnly, bridgeVars, main>>

\* main has created the hub, the bus, the goroutines and the ticker.
Init == /\ Pollers!Init /\ Feed!Init
        /\ bridge = "select" /\ held = <<>>
        /\ main = "serving"
-----------------------------------------------------------------------------
(* The bridge.                                                             *)

\* Mutant: a second event taken before the first is broadcast replaces it
BridgeTakeNewest ==
  /\ bridge \in {"select", "broadcast"}
  /\ Pollers!Consume
  /\ bridge' = "broadcast" /\ held' = <<Head(bus)>>
  /\ UNCHANGED <<feedOnly, main>>

\* Mutant: events are taken from the bus only while a browser is connected
BridgeTakeIfWatched ==
  /\ bridge = "select" /\ connected > 0
  /\ Pollers!Consume
  /\ bridge' = "broadcast" /\ held' = <<Head(bus)>>
  /\ UNCHANGED <<feedOnly, main>>

BridgeTake ==
  /\ bridge = "select"
  /\ Pollers!Consume
  /\ bridge' = "broadcast" /\ held' = <<Head(bus)>>
  /\ UNCHANGED <<feedOnly, main>>

BridgeBroadcast ==
  /\ bridge = "broadcast"
  /\ Feed!Broadcast
  /\ bridge' = "select" /\ held' = <<>>
  /\ UNCHANGED <<pollersOnly, main>>

\* Mutant: Broadcast gives up once ctx is done, with the event still in hand
BridgeStopAnywhere ==
  /\ bridge \in {"select", "broadcast"} /\ ctxDone
  /\ bridge' = "stopped"
  /\ UNCHANGED <<ctxDone, pollersOnly, feedOnly, held, main>>

BridgeStop ==
  /\ bridge = "select" /\ ctxDone
  /\ bridge' = "stopped"
  /\ UNCHANGED <<ctxDone, pollersOnly, feedOnly, held, main>>
-----------------------------------------------------------------------------
(* main, from the signal on.                                               *)

\* SIGTERM or SIGINT: cancel()
Signal ==
  /\ main = "serving"
  /\ Pollers!Cancel /\ Feed!Cancel
  /\ main' = "cancelled"
  /\ UNCHANGED bridgeVars

\* srv.Shutdown closes the listener and waits for the requests in flight.
Shutdown ==
  /\ main = "cancelled"
  /\ main' = "draining"
  /\ UNCHANGED <<ctxDone, pollersOnly, feedOnly, bridgeVars>>

\* All requests have ended: every handler is done or was never started.
Drained ==
  /\ main = "draining"
  /\ \A c \in Conn : ~Feed!Serving(c)
  /\ main' = "closing"
  /\ UNCHANGED <<ctxDone, pollersOnly, feedOnly, bridgeVars>>

\* Mutant: Shutdown is given context.Background()
DrainWithoutDeadline == main = "draining" /\ FALSE /\ UNCHANGED vars

\* shutCtx expires after 10 s; the error is logged.
DrainTimesOut ==
  /\ main = "draining"
  /\ main' = "closing"
  /\ UNCHANGED <<ctxDone, pollersOnly, feedOnly, bridgeVars>>

\* The deferred db.Close() waits for the connections in use; then main returns
\* and the process is gone, with all its goroutines.
Exit ==
  /\ main = "closing"
  /\ \A d \in Device : pollerPc[d] \notin {"saveReading", "saveBattery"}
  /\ main' = "exited"
  /\ UNCHANGED <<ctxDone, pollersOnly, feedOnly, bridgeVars>>

Main == Signal \/ Shutdown \/ Drained \/ DrainTimesOut \/ Exit
-----------------------------------------------------------------------------
PollerStep(d) == Pollers!Poller(d) /\ UNCHANGED <<feedOnly, bridgeVars, main>>
Ticker == Pollers!Tick /\ UNCHANGED <<feedOnly, bridgeVars, main>>

RunStep == /\ Feed!TakeEvent \/ Feed!TakeDone \/ Feed!RunStep
           /\ UNCHANGED <<pollersOnly, bridgeVars, main>>

HandlerStep(c) == /\ Feed!Handler(c) \/ Feed!Network(c)
                  /\ UNCHANGED <<pollersOnly, bridgeVars, main>>

\* The listener accepts requests until Shutdown closes it.
Request(c) == /\ main \in {"serving", "cancelled"}
              /\ Feed!Request(c)
              /\ UNCHANGED <<pollersOnly, bridgeVars, main>>

Next == /\ main # "exited"
        /\ \/ Ticker \/ (\E d \in Device : PollerStep(d))
           \/ BridgeTake \/ BridgeBroadcast \/ BridgeStop
           \/ RunStep \/ (\E c \in Conn : Request(c) \/ HandlerStep(c))
           \/ Main

Spec == Init /\ [][Next]_vars

\* As in Ingestion and Hub, as far as the properties below need it; main and the
\* bridge are goroutines as well, and the 10 s of shutCtx elapse.  Nobody has to
\* send a signal.
FairSpec ==
  /\ Spec
  /\ \A d \in Device :
       WF_vars(main # "exited" /\ Pollers!Cycle(d) /\ UNCHANGED <<feedOnly, bridgeVars, main>>)
  /\ SF_vars(main # "exited" /\ BridgeTake)
  /\ WF_vars(main # "exited" /\ BridgeBroadcast)
  /\ WF_vars(main # "exited" /\ Feed!RunStep /\ UNCHANGED <<pollersOnly, bridgeVars, main>>)
  /\ SF_vars(main # "exited" /\ Feed!TakeEvent /\ UNCHANGED <<pollersOnly, bridgeVars, main>>)
  /\ WF_vars(Shutdown \/ Drained \/ DrainTimesOut \/ Exit)
-----------------------------------------------------------------------------
(* Properties.                                                             *)

\* Every variable main and the bridge add has its type; the bridge holds an event
\* exactly while it is in Broadcast.
TypeOK ==
  /\ bridge \in {"select", "broadcast", "stopped"}
  /\ held \in Seq(1..MaxTicks) /\ Len(held) = (IF bridge = "broadcast" THEN 1 ELSE 0)
  /\ main \in {"serving", "cancelled", "draining", "closing", "exited"}
  /\ ctxDone = (main # "serving")

\* Between a poller and the hub nothing is lost, doubled or overtaken: the events
\* published are those broadcast, then the one the bridge holds, then those on the
\* bus, and they are in that order (main.go:71-80).
BridgeKeepsOrder ==
  LET pending == held \o bus
  IN /\ Len(published) = sent + Len(pending)
     /\ \A i \in 1..Len(pending) : pending[i] = sent + i

\* No browser is ever shown a number that is not in the database: what it read was
\* published, and the rows of the reading and, if shown, of the battery exist.
ShownIsPersisted ==
  \A c \in Conn : \A i \in 1..Len(received[c]) :
     /\ received[c][i] \in 1..Len(published)
     /\ LET e == published[received[c][i]]
        IN /\ Pollers!Reading(e.device, e.at) \in rows
           /\ e.charged => Pollers!BatteryStatus(e.device, e.at) \in rows

\* The events themselves of the ordinals each browser read
shown == [c \in Conn |-> [i \in 1..Len(received[c]) |-> published[received[c][i]]]]

View == INSTANCE LiveView WITH stored <- rows, announced <- published

\* End to end, over bus, bridge, hub, handlers and shutdown: a browser is shown what
\* is in the database, and the readings of a device in the order of their
\* timestamps (main.go:66-120).
ViewRefined == View!ViewSpec

\* Every published event comes to the hub's fan-out, over the bounded channels in
\* between, unless the server is told to stop first.
PublishedIsFannedOut ==
  \A n \in 1..MaxTicks : Len(published) >= n ~> (runEvent >= n \/ ctxDone)

\* Once told to stop the process exits, however many goroutines are stuck: pollers
\* in their backoff, handlers on the hub that has stopped, the bridge on a full
\* channel.
ProcessExits == main = "cancelled" ~> main = "exited"
=============================================================================
