-------------------------------- MODULE Hub --------------------------------
(***************************************************************************)
(* The server-sent-events hub of backend/internal/api/sse.go: the goroutine*)
(* Hub.Run, the ServeSSE handlers that net/http runs one per request, and  *)
(* the browsers at the other end.                                          *)
(*                                                                         *)
(* A connection is one GET /api/v1/events: its handler goroutine and the   *)
(* channel Subscribe makes for it share the name, and EventSource coming   *)
(* back after a cut is a new connection.  An event is the ordinal of its   *)
(* call to Broadcast.  A send on an unbuffered channel is one step of the  *)
(* sender and of Run together; what Run then does with the value is a step *)
(* of Run alone, as is each non-blocking send of the fan-out.              *)
(***************************************************************************)
EXTENDS Integers, Sequences, FiniteSets, Functions

CONSTANTS Conn,          \* GET /api/v1/events requests in a behaviour
          ClientBuffer,  \* sseClientBuffer
          BroadcastCap,  \* capacity of Hub.broadcast
          MaxEvents      \* bound: calls to Broadcast in a behaviour

ASSUME ConnAssumption == IsFiniteSet(Conn)
ASSUME ClientBufferAssumption == ClientBuffer \in Nat \ {0}
ASSUME BroadcastCapAssumption == BroadcastCap \in Nat \ {0}
ASSUME MaxEventsAssumption == MaxEvents \in Nat

VARIABLES
  ctxDone,    \* main has called cancel()
  run,        \* where Run is: "select", "register", "unregister", "fanout",
              \* "closing" or "stopped"
  runEvent,   \* the last event Run took from broadcast
  todo,       \* channels the case at hand has still to deal with: the one just
              \* received, or those the range loop has not visited
  clients,    \* Run's map of clients
  connected,  \* Hub.connected
  broadcast,  \* contents of Hub.broadcast
  buf,        \* buf[c]: contents of c's channel
  closed      \* channels Run has closed

VARIABLES
  pc,         \* pc[c]: where the handler of c is: "none", "subscribe", "loop",
              \* "write", "unsubscribe" or "done"
  hand,       \* hand[c]: the event the handler took from its channel
  reqDone,    \* requests whose context is done
  expired,    \* connections past the server's WriteTimeout
  left        \* connections the browser has closed

VARIABLES     \* history
  sent,       \* calls to Broadcast that returned
  subAt,      \* subAt[c]: the value of sent when c's Subscribe returned
  dropped,    \* dropped[c]: events the fan-out dropped because buf[c] was full
  lost,       \* lost[c]: events whose write to c failed or reached nobody
  received    \* received[c]: events the browser read, in order

runVars == <<run, runEvent, todo>>
hubVars == <<runVars, clients, connected, closed>>
netVars == <<reqDone, expired, left>>
history == <<sent, subAt, dropped, lost, received>>
vars == <<ctxDone, hubVars, broadcast, buf, pc, hand, netVars, history>>

Init ==
  /\ ctxDone = FALSE
  /\ run = "select" /\ runEvent = 0 /\ todo = {}
  /\ clients = {} /\ connected = 0 /\ closed = {}
  /\ broadcast = <<>>
  /\ buf = [c \in Conn |-> <<>>]
  /\ pc = [c \in Conn |-> "none"]
  /\ hand = [c \in Conn |-> 0]
  /\ reqDone = {} /\ expired = {} /\ left = {}
  /\ sent = 0
  /\ subAt = [c \in Conn |-> 0]
  /\ dropped = [c \in Conn |-> {}]
  /\ lost = [c \in Conn |-> {}]
  /\ received = [c \in Conn |-> <<>>]

Goto(c, label) == pc' = [pc EXCEPT ![c] = label]
-----------------------------------------------------------------------------
(* Callers of the hub outside the handlers: the bridge and main.           *)

\* Mutant: the broadcast channel without its capacity
BroadcastUnbounded ==
  /\ sent < MaxEvents
  /\ sent' = sent + 1
  /\ broadcast' = Append(broadcast, sent')
  /\ UNCHANGED <<ctxDone, hubVars, buf, pc, hand, netVars, subAt, dropped, lost, received>>

\* Blocks while the channel is full; the bridge is the only caller.
Broadcast ==
  /\ sent < MaxEvents
  /\ Len(broadcast) < BroadcastCap
  /\ sent' = sent + 1
  /\ broadcast' = Append(broadcast, sent')
  /\ UNCHANGED <<ctxDone, hubVars, buf, pc, hand, netVars, subAt, dropped, lost, received>>

Cancel ==
  /\ ~ctxDone
  /\ ctxDone' = TRUE
  /\ UNCHANGED <<hubVars, broadcast, buf, pc, hand, netVars, history>>
-----------------------------------------------------------------------------
(* Hub.Run.  The two rendezvous are steps of a handler as well.            *)

\* h.subscribe <- ch in Subscribe with case ch := <-h.subscribe in Run
Subscribe(c) ==
  /\ run = "select" /\ pc[c] = "subscribe"
  /\ run' = "register" /\ todo' = {c}
  /\ Goto(c, "loop")
  /\ subAt' = [subAt EXCEPT ![c] = sent]
  /\ UNCHANGED <<ctxDone, runEvent, clients, connected, closed, broadcast, buf, hand,
                 netVars, sent, dropped, lost, received>>

Register ==
  /\ run = "register"
  /\ run' = "select" /\ todo' = {}
  /\ clients' = clients \cup todo
  /\ connected' = connected + 1
  /\ UNCHANGED <<ctxDone, runEvent, closed, broadcast, buf, pc, hand, netVars, history>>

\* the deferred h.unsubscribe <- ch with case ch := <-h.unsubscribe in Run
Unsubscribe(c) ==
  /\ run = "select" /\ pc[c] = "unsubscribe"
  /\ run' = "unregister" /\ todo' = {c}
  /\ Goto(c, "done")
  /\ UNCHANGED <<ctxDone, runEvent, clients, connected, closed, broadcast, buf, hand,
                 netVars, history>>

\* Mutant: delete(clients, ch) forgotten
UnregisterWithoutDelete ==
  /\ run = "unregister"
  /\ run' = "select" /\ todo' = {}
  /\ closed' = closed \cup todo
  /\ connected' = connected - 1
  /\ UNCHANGED <<ctxDone, runEvent, clients, broadcast, buf, pc, hand, netVars, history>>

Unregister ==
  /\ run = "unregister"
  /\ run' = "select" /\ todo' = {}
  /\ IF todo \subseteq clients
       THEN /\ clients' = clients \ todo
            /\ closed' = closed \cup todo
            /\ connected' = connected - 1
       ELSE UNCHANGED <<clients, closed, connected>>
  /\ UNCHANGED <<ctxDone, runEvent, broadcast, buf, pc, hand, netVars, history>>

\* Mutant: the event is looked at but left in the channel
TakeEventPeek ==
  /\ run = "select" /\ broadcast # <<>>
  /\ run' = "fanout"
  /\ runEvent' = Head(broadcast)
  /\ todo' = clients
  /\ UNCHANGED <<ctxDone, clients, connected, closed, broadcast, buf, pc, hand, netVars, history>>

TakeEvent ==
  /\ run = "select" /\ broadcast # <<>>
  /\ run' = "fanout"
  /\ runEvent' = Head(broadcast)
  /\ broadcast' = Tail(broadcast)
  /\ todo' = clients
  /\ UNCHANGED <<ctxDone, clients, connected, closed, buf, pc, hand, netVars, history>>

\* Mutant: no default case, the fan-out waits for room
OfferBlocking(c) ==
  /\ run = "fanout" /\ c \in todo
  /\ todo' = todo \ {c}
  /\ Len(buf[c]) < ClientBuffer
  /\ buf' = [buf EXCEPT ![c] = Append(@, runEvent)]
  /\ UNCHANGED <<ctxDone, run, runEvent, clients, connected, closed, broadcast, pc, hand, netVars, history>>

\* Mutant: a full client ends the range loop for the clients after it
OfferBreaks(c) ==
  /\ run = "fanout" /\ c \in todo
  /\ IF Len(buf[c]) < ClientBuffer
       THEN /\ todo' = todo \ {c}
            /\ buf' = [buf EXCEPT ![c] = Append(@, runEvent)]
            /\ UNCHANGED dropped
       ELSE /\ todo' = {}
            /\ dropped' = [dropped EXCEPT ![c] = @ \cup {runEvent}]
            /\ UNCHANGED buf
  /\ UNCHANGED <<ctxDone, run, runEvent, clients, connected, closed, broadcast, pc, hand,
                 netVars, sent, subAt, lost, received>>

\* Mutant: channels made one slot short
OfferShort(c) ==
  /\ run = "fanout" /\ c \in todo
  /\ todo' = todo \ {c}
  /\ IF Len(buf[c]) < ClientBuffer - 1
       THEN /\ buf' = [buf EXCEPT ![c] = Append(@, runEvent)]
            /\ UNCHANGED dropped
       ELSE /\ dropped' = [dropped EXCEPT ![c] = @ \cup {runEvent}]
            /\ UNCHANGED buf
  /\ UNCHANGED <<ctxDone, run, runEvent, clients, connected, closed, broadcast, pc, hand,
                 netVars, sent, subAt, lost, received>>

\* select { case ch <- event: default: } for the next client of the range loop
Offer(c) ==
  /\ run = "fanout" /\ c \in todo
  /\ todo' = todo \ {c}
  /\ IF Len(buf[c]) < ClientBuffer
       THEN /\ buf' = [buf EXCEPT ![c] = Append(@, runEvent)]
            /\ UNCHANGED dropped
       ELSE /\ dropped' = [dropped EXCEPT ![c] = @ \cup {runEvent}]
            /\ UNCHANGED buf
  /\ UNCHANGED <<ctxDone, run, runEvent, clients, connected, closed, broadcast, pc, hand,
                 netVars, sent, subAt, lost, received>>

FanoutEnd ==
  /\ run = "fanout" /\ todo = {}
  /\ run' = "select"
  /\ UNCHANGED <<ctxDone, runEvent, todo, clients, connected, closed, broadcast, buf, pc,
                 hand, netVars, history>>

\* Mutant: shutdown waits for the clients to leave first
TakeDoneWhenEmpty ==
  /\ run = "select" /\ ctxDone /\ clients = {}
  /\ run' = "closing" /\ todo' = clients
  /\ UNCHANGED <<ctxDone, runEvent, clients, connected, closed, broadcast, buf, pc, hand,
                 netVars, history>>

TakeDone ==
  /\ run = "select" /\ ctxDone
  /\ run' = "closing" /\ todo' = clients
  /\ UNCHANGED <<ctxDone, runEvent, clients, connected, closed, broadcast, buf, pc, hand,
                 netVars, history>>

Close(c) ==
  /\ run = "closing" /\ c \in todo
  /\ todo' = todo \ {c}
  /\ closed' = closed \cup {c}
  /\ UNCHANGED <<ctxDone, run, runEvent, clients, connected, broadcast, buf, pc, hand,
                 netVars, history>>

Return ==
  /\ run = "closing" /\ todo = {}
  /\ run' = "stopped"
  /\ UNCHANGED <<ctxDone, runEvent, todo, clients, connected, closed, broadcast, buf, pc,
                 hand, netVars, history>>

\* What Run does by itself once it has left its select
RunStep == \/ Register \/ Unregister \/ FanoutEnd \/ Return
           \/ \E c \in Conn : Offer(c) \/ Close(c)
-----------------------------------------------------------------------------
(* ServeSSE and the connection under it.                                   *)

\* A browser opens the stream; http.Server's writer is always a Flusher.
Request(c) ==
  /\ pc[c] = "none"
  /\ Goto(c, "subscribe")
  /\ UNCHANGED <<ctxDone, hubVars, broadcast, buf, hand, netVars, history>>

\* Mutant: the handler returns without its deferred Unsubscribe
RequestDoneLeak(c) ==
  /\ pc[c] = "loop" /\ c \in reqDone
  /\ Goto(c, "done")
  /\ UNCHANGED <<ctxDone, hubVars, broadcast, buf, hand, netVars, history>>

\* Mutant: the handler watches its channel only, not its request's context
RequestDoneIgnored(c) ==
  /\ pc[c] = "loop" /\ c \in reqDone \cap closed
  /\ Goto(c, "unsubscribe")
  /\ UNCHANGED <<ctxDone, hubVars, broadcast, buf, hand, netVars, history>>

RequestDone(c) ==
  /\ pc[c] = "loop" /\ c \in reqDone
  /\ Goto(c, "unsubscribe")
  /\ UNCHANGED <<ctxDone, hubVars, broadcast, buf, hand, netVars, history>>

ReceiveEvent(c) ==
  /\ pc[c] = "loop" /\ buf[c] # <<>>
  /\ hand' = [hand EXCEPT ![c] = Head(buf[c])]
  /\ buf' = [buf EXCEPT ![c] = Tail(@)]
  /\ Goto(c, "write")
  /\ UNCHANGED <<ctxDone, hubVars, broadcast, netVars, history>>

ReceiveClosed(c) ==
  /\ pc[c] = "loop" /\ buf[c] = <<>> /\ c \in closed
  /\ Goto(c, "unsubscribe")
  /\ UNCHANGED <<ctxDone, hubVars, broadcast, buf, hand, netVars, history>>

\* Fprintf and Flush reach the browser.  Until the write deadline they block
\* for as long as the browser does not read.
Write(c) ==
  /\ pc[c] = "write" /\ c \notin expired \cup left
  /\ received' = [received EXCEPT ![c] = Append(@, hand[c])]
  /\ Goto(c, "loop")
  /\ UNCHANGED <<ctxDone, hubVars, broadcast, buf, hand, netVars, sent, subAt, dropped, lost>>

\* Mutant: an event whose write failed is put back at the end of the channel
WriteLostRequeued(c) ==
  /\ pc[c] = "write" /\ c \in expired \cup left
  /\ buf' = [buf EXCEPT ![c] = Append(@, hand[c])]
  /\ Goto(c, "loop")
  /\ UNCHANGED <<ctxDone, hubVars, broadcast, hand, netVars, history>>

\* ServeSSE ignores the error of a failed write, but net/http cancels the
\* request's context with it.  The first write to a browser that has just left
\* may still succeed, into nothing.
WriteLost(c) ==
  /\ pc[c] = "write" /\ c \in expired \cup left
  /\ lost' = [lost EXCEPT ![c] = @ \cup {hand[c]}]
  /\ \/ reqDone' = reqDone \cup {c}
     \/ c \notin expired /\ UNCHANGED reqDone
  /\ Goto(c, "loop")
  /\ UNCHANGED <<ctxDone, hubVars, broadcast, buf, hand, expired, left, sent, subAt, dropped, received>>

\* A request net/http is still serving
Serving(c) == pc[c] \notin {"none", "done"}

\* WriteTimeout elapses, counted from the request: later writes fail.
Expire(c) ==
  /\ Serving(c) /\ c \notin expired
  /\ expired' = expired \cup {c}
  /\ UNCHANGED <<ctxDone, hubVars, broadcast, buf, pc, hand, reqDone, left, history>>

Leave(c) ==
  /\ Serving(c) /\ c \notin left
  /\ left' = left \cup {c}
  /\ UNCHANGED <<ctxDone, hubVars, broadcast, buf, pc, hand, reqDone, expired, history>>

\* net/http's background read sees the connection close.
NoticeLeft(c) ==
  /\ Serving(c) /\ c \in left \ reqDone
  /\ reqDone' = reqDone \cup {c}
  /\ UNCHANGED <<ctxDone, hubVars, broadcast, buf, pc, hand, expired, left, history>>

Handler(c) == \/ Subscribe(c) \/ Unsubscribe(c)
              \/ RequestDone(c) \/ ReceiveEvent(c) \/ ReceiveClosed(c)
              \/ Write(c) \/ WriteLost(c)
Network(c) == Expire(c) \/ Leave(c) \/ NoticeLeft(c)

Next == \/ Broadcast \/ Cancel \/ TakeEvent \/ TakeDone \/ RunStep
        \/ \E c \in Conn : Request(c) \/ Handler(c) \/ Network(c)

Spec == Init /\ [][Next]_vars
-----------------------------------------------------------------------------
(* Fairness.  Every goroutine keeps running, hence WF of what one does by  *)
(* itself; a select takes one of its ready cases at random, hence SF of    *)
(* each case; deadlines elapse and a closed connection is noticed.  Nothing*)
(* obliges a browser to come, to read or to leave, main to call cancel, or *)
(* the bridge to call Broadcast.                                           *)

RunFairness == /\ WF_vars(RunStep)
               /\ SF_vars(TakeEvent)
               /\ SF_vars(TakeDone)
               /\ \A c \in Conn : SF_vars(Subscribe(c)) /\ SF_vars(Unsubscribe(c))

HandlerFairness ==
  \A c \in Conn : /\ SF_vars(RequestDone(c)) /\ SF_vars(ReceiveEvent(c))
                  /\ WF_vars(ReceiveClosed(c)) /\ WF_vars(WriteLost(c))
                  /\ WF_vars(Expire(c)) /\ WF_vars(NoticeLeft(c))

RunFairSpec == Spec /\ RunFairness
FairSpec == RunFairSpec /\ HandlerFairness
-----------------------------------------------------------------------------
(* Properties.                                                             *)

Event == 1..MaxEvents
RunPc == {"select", "register", "unregister", "fanout", "closing", "stopped"}
HandlerPc == {"none", "subscribe", "loop", "write", "unsubscribe", "done"}

RunTypeOK == /\ ctxDone \in BOOLEAN
             /\ run \in RunPc /\ runEvent \in 0..MaxEvents
             /\ todo \subseteq Conn /\ clients \subseteq Conn /\ closed \subseteq Conn
             /\ run = "fanout" => runEvent \in Event
             /\ connected \in Int
ChannelTypeOK == /\ broadcast \in Seq(Event) /\ Len(broadcast) <= BroadcastCap
                 /\ buf \in [Conn -> Seq(Event)]
                 /\ \A c \in Conn : Len(buf[c]) <= ClientBuffer
HandlerTypeOK == /\ pc \in [Conn -> HandlerPc]
                 /\ hand \in [Conn -> 0..MaxEvents]
                 /\ \A c \in Conn : pc[c] = "write" => hand[c] \in Event
                 /\ reqDone \subseteq Conn /\ expired \subseteq Conn /\ left \subseteq Conn
HistoryTypeOK == /\ sent \in 0..MaxEvents
                 /\ subAt \in [Conn -> 0..MaxEvents]
                 /\ dropped \in [Conn -> SUBSET Event]
                 /\ lost \in [Conn -> SUBSET Event]
                 /\ received \in [Conn -> Seq(Event)]

\* Every variable has its type, and the two channels stay within their
\* capacities.
TypeOK == RunTypeOK /\ ChannelTypeOK /\ HandlerTypeOK /\ HistoryTypeOK

\* Handlers between their Subscribe and their Unsubscribe
Subscribed == {c \in Conn : pc[c] \in {"loop", "write", "unsubscribe"}}

\* Run panics neither by a send on a closed channel nor by closing one twice:
\* the channels the loop at hand will still send to or close are open, and so
\* are all of Run's clients as long as Run can still act on the map (sse.go:49,
\* 58, 63 over three different handlers' lifetimes).
NoUseOfClosedChannel ==
  /\ run \in {"fanout", "closing"} => todo \cap closed = {}
  /\ run \notin {"closing", "stopped"} => clients \cap closed = {}

\* Whenever Run waits in its select, its map holds exactly the handlers between
\* Subscribe and Unsubscribe, and ConnectedClients counts them: no handler that
\* ended, in whatever way, is leaked.
ClientsAreSubscribers ==
  run \in {"select", "fanout"} => /\ clients = Subscribed
                                 /\ connected = Cardinality(Subscribed)

Increasing(s) == \A i, j \in 1..Len(s) : i < j => s[i] < s[j]

InHand(c) == IF pc[c] = "write" THEN <<hand[c]>> ELSE <<>>

\* What a browser read, what its handler is writing and what waits in its
\* channel are, together, events in the order of their Broadcast, none twice.
InOrder == \A c \in Conn : Increasing(received[c] \o InHand(c) \o buf[c])

\* Events the fan-out is done with as far as c is concerned
Offered(c) == {e \in 1..runEvent : ~ (run = "fanout" /\ e = runEvent /\ c \in todo)}

\* No silent gap: every event broadcast after c's Subscribe returned, and
\* fanned out since, was read by the browser, is on its way to it, was dropped
\* because the channel was full, or failed in the write.  The unbuffered
\* subscribe channel is there for this ("prevents races where Broadcast() fires
\* before a subscription is registered", sse.go:35-37).
NoSilentGap ==
  \A c \in Subscribed : \A e \in Offered(c) : e > subAt[c] =>
     \/ e \in Range(received[c] \o InHand(c) \o buf[c])
     \/ e \in dropped[c] \cup lost[c]

\* The buffer absorbs a burst of sseClientBuffer events: a client misses an event
\* only after that many older ones were put in its channel, however slow its
\* browser is.
BurstAbsorbed ==
  \A c \in Conn : \A e \in dropped[c] :
     Cardinality({d \in Range(received[c] \o InHand(c) \o buf[c]) \cup lost[c] : d < e})
        >= ClientBuffer

\* The broadcast loop is never held up by slow clients: an event in the
\* broadcast channel is fanned out, even if no browser ever reads, unless the
\* server is shutting down (sse.go:25, 62-69).
BroadcastProgress == \A e \in Event : e <= sent ~> (runEvent >= e \/ ctxDone)

\* While the server runs, the handler of a browser that left ends and gives its
\* place in the map back, whatever it was doing when the browser left.
DepartedHandlerEnds ==
  HandlerFairness =>
    \A c \in Conn : (Serving(c) /\ c \in left) ~> (pc[c] = "done" \/ ctxDone)

\* cancel() stops Run, whatever handlers and the bridge are doing.
RunStops == ctxDone ~> run = "stopped"
-----------------------------------------------------------------------------
(* The inductive invariants behind the safety properties.                  *)

\* Run's map against the handlers, in the middle of a case of the select as well:
\* while Run works on a request, todo is the one channel it received.
MapOK ==
  /\ run \in {"register", "unregister"} => \E c \in Conn : todo = {c}
  /\ run = "select" => todo = {}
  /\ run = "register" => todo \subseteq Subscribed
  /\ run = "unregister" => \A c \in todo : pc[c] = "done"
  /\ run \in {"fanout", "closing"} => todo \subseteq clients
  /\ run \notin {"closing", "stopped"} =>
       clients = CASE run = "register" -> Subscribed \ todo
                   [] run = "unregister" -> Subscribed \cup todo
                   [] OTHER -> Subscribed
  /\ run \notin {"closing", "stopped"} => \A c \in closed : pc[c] = "done"
  /\ connected = Cardinality(clients)

ChannelInv == TypeOK /\ MapOK /\ NoUseOfClosedChannel

\* An event that c may have been offered already: the one being fanned out only
\* once the range loop has visited c
Past(c, e) == IF run = "fanout" /\ c \in todo THEN e < runEvent ELSE e <= runEvent

\* For one connection: what was read comes before what is in hand, that before
\* what waits in the channel, and Run has offered all of it.
OrderOK(c) ==
  /\ Increasing(received[c]) /\ Increasing(buf[c])
  /\ \A i \in 1..Len(received[c]) : Past(c, received[c][i])
  /\ \A j \in 1..Len(buf[c]) : Past(c, buf[c][j])
  /\ \A i \in 1..Len(received[c]), j \in 1..Len(buf[c]) : received[c][i] < buf[c][j]
  /\ pc[c] = "write" => /\ Past(c, hand[c])
                        /\ \A i \in 1..Len(received[c]) : received[c][i] < hand[c]
                        /\ \A j \in 1..Len(buf[c]) : hand[c] < buf[c][j]

\* The broadcast channel holds the events Run has not taken, in their order.
BroadcastOK == /\ Len(broadcast) = sent - runEvent
               /\ \A i \in 1..Len(broadcast) : broadcast[i] = runEvent + i

OrderInv == TypeOK /\ BroadcastOK /\ \A c \in Conn : OrderOK(c)
-----------------------------------------------------------------------------
(* What the comments say and the code does not do.                         *)

\* "No write timeout - the connection is intentionally long-lived" (sse.go:87):
\* a handler ends only when its browser left or the server shuts down.
LongLived == \A c \in Conn : pc[c] = "done" => c \in left \/ ctxDone

\* "shutdown: signal received, draining..." (main.go:108): once cancel() is
\* called the requests in flight end, so that Shutdown can return before its
\* deadline.
HandlersDrain == \A c \in Conn : (ctxDone /\ Serving(c)) ~> pc[c] = "done"
-----------------------------------------------------------------------------
(* The hub implements the feed the browsers are promised.                  *)

Phase(c) == CASE pc[c] \in {"none", "subscribe"} -> "new"
              [] pc[c] \in {"loop", "write"} -> "open"
              [] OTHER -> "over"

Feed == INSTANCE EventFeed WITH accepted <- sent,
                                phase <- [c \in Conn |-> Phase(c)],
                                feed <- received

FeedRefined == Feed!FeedSpec
=============================================================================
