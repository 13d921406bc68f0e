----------------------------- MODULE MCSupervisor -----------------------------
(* Supervisor, on small instances. *)
EXTENDS Supervisor, TLC

\* sources with the same option are interchangeable
Symmetry == Permutations(AlwaysWait) \union Permutations(Workers \ AlwaysWait)

\* bound: one task at most comes to its end without a row in the statistics, and that is not of the last collect
OneFails ==
  \A t \in Tasks : tpc[t] = "returned" /\ t \notin stats =>
    t[1] < MaxCollect /\ \A u \in Tasks : tpc[u] = "returned" => u = t \/ u \in stats
===============================================================================
