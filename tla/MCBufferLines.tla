---------------------------- MODULE MCBufferLines ----------------------------
(* BufferLines, on small instances. *)
EXTENDS BufferLines, TLC

\* the properties say nothing of what comes after a torn shift
Whole == ~torn
==============================================================================
