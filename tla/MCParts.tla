------------------------------- MODULE MCParts ------------------------------
(* The sources and what is done with their items, on small instances: a behaviour   *)
(* is one of a source or of a part, since they are apart from one another.          *)
EXTENDS MCSources, MCItems

PartsInit == SourcesInit /\ ItemsInit /\ (source = "none" \/ part = "none")

PartsNext ==
  \/ SourcesNext /\ UNCHANGED itemsVars
  \/ ItemsNext /\ UNCHANGED sourcesVars

PartsSpec == PartsInit /\ [][PartsNext]_<<sourcesVars, itemsVars>>

TypesOK == SourcesTypeOK /\ ItemsTypeOK
=============================================================================
