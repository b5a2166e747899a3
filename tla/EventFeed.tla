----------------------------- MODULE EventFeed -----------------------------
(***************************************************************************)
(* What the dashboard's live feed promises a browser, with no channels, no *)
(* goroutines and no HTTP.  The server accepts events one after the other; *)
(* an event is its ordinal.  Each connection may be shown any of them, but *)
(* only while it is open, never twice and never out of order.  Nothing is  *)
(* promised about completeness: a slow browser may miss events.            *)
(***************************************************************************)
EXTENDS Naturals, Sequences

CONSTANTS Conn,      \* the connections browsers open, one name per request
          MaxEvents  \* bound: events accepted in a behaviour

VARIABLES accepted,  \* how many events the server has taken on
          phase,     \* phase[c]: "new", "open" or "over"
          feed       \* feed[c]: the events connection c was shown, in order

feedVars == <<accepted, phase, feed>>

FeedInit == /\ accepted = 0
            /\ phase = [c \in Conn |-> "new"]
            /\ feed = [c \in Conn |-> <<>>]

Accept == /\ accepted < MaxEvents
          /\ accepted' = accepted + 1
          /\ UNCHANGED <<phase, feed>>

Open(c) == /\ phase[c] = "new"
           /\ phase' = [phase EXCEPT ![c] = "open"]
           /\ UNCHANGED <<accepted, feed>>

\* e is newer than everything c has been shown
Newer(c, e) == \A i \in 1..Len(feed[c]) : feed[c][i] < e

Show(c, e) == /\ phase[c] = "open"
              /\ Newer(c, e)
              /\ feed' = [feed EXCEPT ![c] = Append(@, e)]
              /\ UNCHANGED <<accepted, phase>>

End(c) == /\ phase[c] = "open"
          /\ phase' = [phase EXCEPT ![c] = "over"]
          /\ UNCHANGED <<accepted, feed>>

FeedNext == \/ Accept
            \/ \E c \in Conn : \/ Open(c)
                               \/ End(c)
                               \/ \E e \in 1..accepted : Show(c, e)

FeedSpec == FeedInit /\ [][FeedNext]_feedVars
=============================================================================
