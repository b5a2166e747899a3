------------------------------ MODULE LiveView ------------------------------
(***************************************************************************)
(* What the server promises a browser end to end: of the readings it has   *)
(* stored and announced (ReadingLog) a browser is shown some, each after   *)
(* its rows are stored, and those of one device in the order of their      *)
(* timestamps.  Which it misses is not said.                               *)
(***************************************************************************)
EXTENDS ReadingLog

CONSTANT Conn   \* the connections browsers open

VARIABLE shown  \* shown[c]: the events c was shown, in order

viewVars == <<logVars, shown>>

ViewInit == LogInit /\ shown = [c \in Conn |-> <<>>]

Show(c, e) ==
  /\ \A i \in 1..Len(shown[c]) : shown[c][i].device = e.device => shown[c][i].at < e.at
  /\ shown' = [shown EXCEPT ![c] = Append(@, e)]
  /\ UNCHANGED logVars

ViewNext == \/ LogNext /\ UNCHANGED shown
            \/ \E c \in Conn, n \in 1..Len(announced) : Show(c, announced[n])

ViewSpec == ViewInit /\ [][ViewNext]_viewVars
=============================================================================
