---------------------------- MODULE MCLogStreams ----------------------------
(* Instances of LogStreams for TLC.                                         *)
EXTENDS LogStreams, TLC

CONSTANTS c1, s1, s2

OneContainer == {c1}
TwoSockets   == {s1, s2}
=============================================================================
