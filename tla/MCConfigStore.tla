--------------------------- MODULE MCConfigStore ---------------------------
(* Instances of ConfigStore for TLC.                                        *)
EXTENDS ConfigStore, TLC

CONSTANTS c1, c2, d1, d2

TwoConns == {c1, c2}
TwoDocs  == {d1, d2}

Interchangeable == Permutations(TwoConns) \cup Permutations(TwoDocs)
=============================================================================
