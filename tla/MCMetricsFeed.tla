---------------------------- MODULE MCMetricsFeed ----------------------------
(* A machine that is watched; one whose disks move, come and go; and        *)
(* machines with GPUs that do not open, are not asked for or are simulated, *)
(* of discrete, unified and unknown memory.                                 *)
EXTENDS MetricsFeed

Bare == [watched |-> FALSE, disks |-> {}, gpus |-> 0, opens |-> {}, gpu_index |-> None,
         simulate |-> 0, procs |-> <<>>, pids |-> {}, family |-> "other", vram |-> None,
         ram |-> 100]
Procs(n) == [i \in 0 .. n - 1 |-> {i + 1, 9}]

MCHosts ==
    { [Bare EXCEPT !.watched = TRUE],
      [Bare EXCEPT !.disks = {[name |-> "sda", of |-> None], [name |-> "sda1", of |-> "sda"],
                              [name |-> "sdb", of |-> None]}] }
    \cup { [Bare EXCEPT !.gpus = 2, !.opens = o, !.gpu_index = g, !.simulate = s, !.procs = Procs(2),
                        !.pids = {1, 2}] :
             o \in SUBSET {0, 1}, g \in {None, 1, 3}, s \in {0, 1} }
    \cup { [Bare EXCEPT !.gpus = 1, !.opens = {0}, !.procs = Procs(1), !.family = f, !.vram = v] :
             f \in {"unified", "other"}, v \in {None, 24, 95, 128} }
=============================================================================
