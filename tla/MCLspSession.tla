--------------------------- MODULE MCLspSession ---------------------------
(* Small instances of LspSession for TLC.                                    *)
EXTENDS LspSession, TLC

Symmetry == Permutations(Clients)
=============================================================================
