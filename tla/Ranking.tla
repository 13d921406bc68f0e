-------------------------------- MODULE Ranking --------------------------------
(***************************************************************************)
(* coq/server/trans.py: which of the items that a collect has brought are     *)
(* shown, once they are in the order of their weights.  The weights themselves  *)
(* are sums of what Fuzzy computes and of counters, and are not modelled.       *)
(***************************************************************************)
EXTENDS Naturals, Sequences, FiniteSets, SequencesExt

CONSTANTS
  RkTexts,    \* what items insert
  RkMax,      \* match.max_results
  MaxRanked   \* bound: items that a collect brings

ASSUME RkAssumption == RkMax \in Nat \ {0} /\ MaxRanked \in Nat

VARIABLES
  rkManual,  \* the completion was asked for
  rkRanked,  \* items, the best first
  rkSeen,    \* seen: how many items have been looked at, and the texts that are shown
  rkMenu     \* the places in rkRanked of what is shown

rkVars == <<rkManual, rkRanked, rkSeen, rkMenu>>

RkItems == [text : RkTexts, snippet : BOOLEAN]

RkTypeOK ==
  /\ rkManual \in BOOLEAN /\ rkRanked \in BoundedSeq(RkItems, MaxRanked)
  /\ rkSeen.at \in 0 .. Len(rkRanked) /\ rkSeen.texts \subseteq RkTexts
  /\ rkMenu \in Seq(DOMAIN rkRanked)

\* the program begins with the metrics that a collect has returned
RkInit ==
  /\ rkManual \in BOOLEAN
  /\ rkRanked \in BoundedSeq(RkItems, MaxRanked)
  /\ rkSeen = [at |-> 0, texts |-> {}]
  /\ rkMenu = <<>>

IsFull == ~rkManual /\ Cardinality(rkSeen.texts) > RkMax

\* Mutant: a snippet hides words as well, before it is known to be shown
RkTakeAny ==
  /\ rkSeen.at < Len(rkRanked) /\ ~IsFull
  /\ LET item == rkRanked[rkSeen.at + 1] IN
       /\ rkSeen' = [at |-> rkSeen.at + 1, texts |-> rkSeen.texts \union {item.text}]
       /\ rkMenu' = IF item.text \in rkSeen.texts THEN rkMenu ELSE Append(rkMenu, rkSeen.at + 1)
  /\ UNCHANGED <<rkManual, rkRanked>>

\* _prune: the next item, unless a word of that text is shown; snippets hide nothing
RkTake ==
  /\ rkSeen.at < Len(rkRanked) /\ ~IsFull
  /\ LET item == rkRanked[rkSeen.at + 1]
         new == item.text \notin rkSeen.texts
     IN  /\ rkSeen' = [at |-> rkSeen.at + 1,
                       texts |-> IF new /\ ~item.snippet THEN rkSeen.texts \union {item.text} ELSE rkSeen.texts]
         /\ rkMenu' = IF new THEN Append(rkMenu, rkSeen.at + 1) ELSE rkMenu
  /\ UNCHANGED <<rkManual, rkRanked>>

RkNext == RkTake

RkSpec == RkInit /\ [][RkNext]_rkVars

-----------------------------------------------------------------------------

IsPruned == rkSeen.at = Len(rkRanked) \/ IsFull
Shown(k) == k \in ToSet(rkMenu)

\* a better word of the same text is shown
Hides(j, k) == j < k /\ Shown(j) /\ ~rkRanked[j].snippet /\ rkRanked[j].text = rkRanked[k].text
ShownBefore(k) == {rkRanked[j].text : j \in {j \in 1 .. k - 1 : Shown(j)}}

\* What is not shown is hidden by a better word of the same text, or comes after at least as many
\* texts as are wanted, which happens to a completion on keystroke alone; what is hidden is not shown
\* (README.md:444, docs/FUZZY.md:55, trans.py:68).  This asks nothing of how many are shown, which are more than wanted: one
\* text, and whatever snippets come before it.
LeftOutForCause ==
  IsPruned =>
    \A k \in DOMAIN rkRanked :
      IF Shown(k) THEN \A j \in DOMAIN rkRanked : ~Hides(j, k)
      ELSE \/ \E j \in DOMAIN rkRanked : Hides(j, k)
           \/ ~rkManual /\ Cardinality(ShownBefore(k)) >= RkMax
=============================================================================
