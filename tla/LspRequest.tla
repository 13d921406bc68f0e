----------------------------- MODULE LspRequest -----------------------------
(***************************************************************************)
(* What async_request (coq/lsp/requests/request.py) promises those who     *)
(* iterate over it, whatever carries the answers: requests of a name are   *)
(* made in the order of their uids, and one that is open yields answers    *)
(* which its own clients have given to it, until it is closed for good.    *)
(* An answer may be yielded late, more than once, or never.                *)
(***************************************************************************)
EXTENDS Integers

CONSTANTS Uids, Names       \* sessions; clients, with the name of "none at all"

VARIABLES
  phase,      \* "idle", "open" or "closed"
  answered,   \* who has answered each session
  yields      \* what each session's generator has yielded

vars == <<phase, answered, yields>>

Init ==
  /\ phase = [g \in Uids |-> "idle"]
  /\ answered = [g \in Uids |-> {}]
  /\ yields = [g \in Uids |-> {}]

Open(g) ==
  /\ phase[g] = "idle"
  /\ \A h \in Uids : h < g => phase[h] # "idle"
  /\ phase' = [phase EXCEPT ![g] = "open"]
  /\ UNCHANGED <<answered, yields>>

\* a closed session's clients may still answer
Answer(g, c) ==
  /\ phase[g] # "idle"
  /\ answered' = [answered EXCEPT ![g] = @ \union {c}]
  /\ UNCHANGED <<phase, yields>>

Yield(g, c) ==
  /\ phase[g] = "open"
  /\ c \in answered[g]
  /\ yields' = [yields EXCEPT ![g] = @ \union {[uid |-> g, client |-> c]}]
  /\ UNCHANGED <<phase, answered>>

Close(g) ==
  /\ phase[g] = "open"
  /\ phase' = [phase EXCEPT ![g] = "closed"]
  /\ UNCHANGED <<answered, yields>>

Next == \E g \in Uids : \/ Open(g) \/ Close(g)
                        \/ \E c \in Names : Answer(g, c) \/ Yield(g, c)

Spec == Init /\ [][Next]_vars
=============================================================================
