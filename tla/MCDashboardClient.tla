------------------------- MODULE MCDashboardClient -------------------------
(* Instances of DashboardClient for TLC.                                    *)
EXTENDS DashboardClient, TLC

CONSTANTS t1, t2

OneTab  == {t1}
TwoTabs == {t1, t2}

AtRoot == Root
AtPage == Earlier

Interchangeable == Permutations(TwoTabs)
=============================================================================
