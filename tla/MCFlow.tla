------------------------------- MODULE MCFlow -------------------------------
(* The flow of completions, and the start of the server that serves it, on small     *)
(* instances, side by side: a behaviour is one of the part that is on, the other    *)
(* stays as it begins.                                                          *)
EXTENDS CompletionFlow, Launcher

VARIABLE on  \* the part

Init ==
  /\ on \in {"flow", "launcher"}
  /\ FlowInit
  \* the one that is not on begins in one way only
  /\ IF on = "launcher" THEN TRUE ELSE lnInstalled = TRUE
  /\ LnInit

Next ==
  \/ on = "flow" /\ FlowNext /\ UNCHANGED <<on, lnVars>>
  \/ on = "launcher" /\ LnNext /\ UNCHANGED <<on, flowVars>>

\* nothing that has to go on is enabled in a part that stays as it begins
Spec == Init /\ [][Next]_<<on, flowVars, lnVars>> /\ FlowFairness /\ LnFairness

TypesOK == FlowTypeOK /\ LnTypeOK
=============================================================================
