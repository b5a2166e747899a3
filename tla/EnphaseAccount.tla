--------------------------- MODULE EnphaseAccount ---------------------------
(***************************************************************************)
(* One Enphase account: the adapter of a running server (EnphaseAdapter)   *)
(* and the authorisation command (AuthCommand), which somebody runs beside *)
(* it, now and again.  Where EnphaseAdapter has a step Authorise, the      *)
(* command has to come to the end of its exchange.                         *)
(***************************************************************************)
EXTENDS EnphaseAdapter

CONSTANT MaxCallbacks  \* see AuthCommand

ASSUME CallbackAssumption == MaxCallbacks \in Nat

VARIABLES command, handlers, queued, callbacks  \* see AuthCommand

Auth == INSTANCE AuthCommand

commandVars == <<command, handlers, queued, callbacks>>
accountVars == <<vars, commandVars>>

AccountInit == Init /\ Auth!Init

Adapting == AdapterNext /\ UNCHANGED commandVars

Commanding == Auth!Waiting /\ UNCHANGED vars

\* The code was good, and the operator copies the printed tokens into .env.
ExchangeGranted == Auth!Exchanged /\ Authorise

\* It was refused, or the answer lost; a grant nobody has the tokens of is no grant.
ExchangeFails == Auth!Exchanged /\ UNCHANGED vars

AccountNext == Adapting \/ Commanding \/ ExchangeGranted \/ ExchangeFails

AccountSpec == AccountInit /\ [][AccountNext]_accountVars

Aside(A) == A /\ UNCHANGED commandVars

\* The ticker keeps the poller calling and every request ends (two clients with a
\* time-out of 15 s).  The strong fairness is an assumption about the provider, not
\* about this code: one that is asked again and again is up some time.  Of the
\* command the deadlines elapse: 5 min, 15 s and 15 s.  Nobody has to start it or to
\* come back from the browser, and no handler has to get rid of its value.
FairAccount ==
  /\ AccountSpec
  /\ WF_accountVars(Aside(Call)) /\ WF_accountVars(Aside(Answer))
  /\ SF_accountVars(Aside(Accepted)) /\ SF_accountVars(Aside(Rejected))
  /\ SF_accountVars(Aside(\E token \in 0..MaxGrants : Refreshed(token)))
  /\ WF_accountVars((Auth!TimeOut \/ Auth!CloseListener \/ Auth!Drained) /\ UNCHANGED vars)
  /\ WF_accountVars(ExchangeGranted \/ ExchangeFails)
-----------------------------------------------------------------------------
(* Properties.                                                             *)

\* A run of the authorisation command ends by itself, whatever handlers it leaves
\* blocked: after the first code nobody receives from codeCh and errCh, so that the
\* third callback blocks for good, and Shutdown waits for its handler (enphase-auth
\* main.go:54-55, 66, 70, 93-95).
CommandEnds == []<>(command = "off")

\* A handler that finds its channel full once main has received a code is left there.
Blocked(k) == /\ command \in {"stop", "drain", "exchange"}
              /\ queued[k] = 1 /\ handlers[k] > 0

\* It stays there until the process ends, whatever else calls back, and whatever the
\* adapter and the provider do meanwhile.
BlockedForGood == [][\A k \in Auth!Channel : Blocked(k) => Blocked(k)' \/ command' = "off"]_accountVars
=============================================================================
