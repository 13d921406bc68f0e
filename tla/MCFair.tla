------------------------------- MODULE MCFair -------------------------------
(* What must come about in the end of a request and of a collect, on small          *)
(* instances, side by side: a behaviour is one of the part that is on, the other    *)
(* stays as it begins.                                                          *)
EXTENDS LspSession

CONSTANTS Workers, AlwaysWait, MaxCollect, MaxItems  \* of Supervisor

VARIABLES
  on,  \* the part
  \* --- Supervisor, where the names are not those of LspSession ---
  work_task, cpc, prev, stop, g_pending, g_lockq, waiting, acc, order, tpc, tstop, batches, instances, stats

gather == <<work_task, cpc, prev, stop, g_pending, g_lockq, waiting, acc, order, tpc, tstop, batches, instances, stats>>

Gather == INSTANCE Supervisor WITH pending <- g_pending, lockq <- g_lockq

\* Collects and tasks get past the locks that they wait for, unless they wait for a collect that was left to gather (runtime.py:123).
TurnsCome == Gather!TurnsCome

-----------------------------------------------------------------------------

PartsInit == on \in {"session", "gather"} /\ Init /\ Gather!Init

PartsNext ==
  \/ on = "session" /\ Next /\ UNCHANGED <<on, gather>>
  \/ on = "gather" /\ Gather!Next /\ UNCHANGED <<on, vars>>

\* nothing that has to go on is enabled in a part that stays as it begins
PartsSpec == PartsInit /\ [][PartsNext]_<<on, vars, gather>> /\ Fairness /\ Gather!Fairness
=============================================================================
