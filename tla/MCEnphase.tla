----------------------------- MODULE MCEnphase -----------------------------
(* EnphaseAccount.tla on a small instance; its constants are numbers.      *)
EXTENDS EnphaseAccount
=============================================================================
