---------------------------- MODULE MCPipeline ----------------------------
(* Pipeline.tla on small instances: the fake provider and at most one      *)
(* browser.                                                                *)
EXTENDS Pipeline

CONSTANTS fake, c1

OneDevice == {fake}
OneConn == {c1}
=============================================================================
