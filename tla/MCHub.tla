------------------------------- MODULE MCHub -------------------------------
(* Hub.tla on small instances.                                             *)
EXTENDS Hub, TLC

CONSTANTS c1, c2

MCConn == {c1, c2}
OneConn == {c1}

\* Nothing tells connections apart, so the safety runs identify permutations.
ConnSymmetry == Permutations(MCConn)
=============================================================================
