------------------------- MODULE MCEngineLifecycle -------------------------
(* Instances of EngineLifecycle for TLC.                                    *)
EXTENDS EngineLifecycle, TLC

CONSTANTS e1, e2

One  == {e1}
None == {}
MetaAll    == {"name", "error", "empty"}
MetaKeyed  == {"name", "error"}
MetaNamed  == {"name"}
=============================================================================
