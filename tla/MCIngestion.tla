---------------------------- MODULE MCIngestion ----------------------------
(* Ingestion.tla on small instances: the two providers BuildProviders      *)
(* knows.  The fake one has a battery.                                     *)
EXTENDS Ingestion

CONSTANTS enphase, fake

BothProviders == {enphase, fake}
FakeOnly == {fake}
=============================================================================
