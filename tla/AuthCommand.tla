---------------------------- MODULE AuthCommand ----------------------------
(***************************************************************************)
(* The one-shot command backend/cmd/enphase-auth/main.go: it shows a URL,  *)
(* waits on :8081 for the browser to be sent back with a code, shuts its   *)
(* HTTP server down and exchanges the code for tokens.  The browser may    *)
(* come back more than once - a reload, a second tab, a refusal followed   *)
(* by a consent -, and each time a handler sends on a channel of one slot. *)
(***************************************************************************)
EXTENDS Naturals

CONSTANT MaxCallbacks  \* bound: callbacks in one run of the command

VARIABLES
  command,    \* where main is; "off" while no such process runs
  handlers,   \* handlers[k]: goroutines that are about to send on channel k
  queued,     \* queued[k]: what channel k, of capacity 1, holds
  callbacks   \* callbacks in this run of the command

vars == <<command, handlers, queued, callbacks>>

\* codeCh and errCh
Channel == {"code", "error"}
Empty == [k \in Channel |-> 0]

Init == command = "off" /\ handlers = Empty /\ queued = Empty /\ callbacks = 0

\* The end of the process, and of every goroutine it has
Exit == command' = "off" /\ handlers' = Empty /\ queued' = Empty /\ callbacks' = 0

Goto(from, to) == command = from /\ command' = to
-----------------------------------------------------------------------------
\* just auth-enphase
Begin == Goto("off", "wait") /\ UNCHANGED <<handlers, queued, callbacks>>

\* The listener cannot be opened: an error is sent, and nobody will call back.
ListenFails == /\ command = "wait" /\ callbacks = 0
               /\ handlers' = [handlers EXCEPT !["error"] = @ + 1]
               /\ callbacks' = MaxCallbacks
               /\ UNCHANGED <<command, queued>>

\* The browser comes back, with a code or without one; its page is written.
Callback(k) == /\ command \in {"wait", "stop"} /\ callbacks < MaxCallbacks
               /\ callbacks' = callbacks + 1
               /\ handlers' = [handlers EXCEPT ![k] = @ + 1]
               /\ UNCHANGED <<command, queued>>

\* codeCh <- code or errCh <- err, which blocks while the slot is taken
Send(k) == /\ handlers[k] > 0 /\ queued[k] = 0
           /\ handlers' = [handlers EXCEPT ![k] = @ - 1]
           /\ queued' = [queued EXCEPT ![k] = 1]
           /\ UNCHANGED <<command, callbacks>>

\* The select: a code, ...
ReceiveCode == /\ queued["code"] > 0
               /\ Goto("wait", "stop")
               /\ queued' = [queued EXCEPT !["code"] = 0]
               /\ UNCHANGED <<handlers, callbacks>>

\* ... an error, ...
ReceiveError == command = "wait" /\ queued["error"] > 0 /\ Exit

\* ... or five minutes have passed.
TimeOut == command = "wait" /\ Exit

\* Shutdown closes the listener, ...
CloseListener == Goto("stop", "drain") /\ UNCHANGED <<handlers, queued, callbacks>>

\* Mutant: Shutdown with context.Background()
DrainedCompletely == /\ handlers = Empty
                     /\ Goto("drain", "exchange") /\ UNCHANGED <<handlers, queued, callbacks>>

\* ... and returns when the handlers have, or after 15 s; main ignores which.
Drained == Goto("drain", "exchange") /\ UNCHANGED <<handlers, queued, callbacks>>

\* ExchangeCode has answered: main prints the tokens or an error and ends.
Exchanged == command = "exchange" /\ Exit

\* Ctrl-C
Interrupt == command # "off" /\ Exit

Waiting == \/ Begin \/ ListenFails \/ ReceiveCode \/ ReceiveError \/ TimeOut
           \/ CloseListener \/ Drained \/ Interrupt
           \/ \E k \in Channel : Callback(k) \/ Send(k)

Next == Waiting \/ Exchanged

Spec == Init /\ [][Next]_vars
=============================================================================
