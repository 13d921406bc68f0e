------------------------------ MODULE TmuxPanes ------------------------------
(***************************************************************************)
(* coq/clients/tmux and coq/tmux/parse.py: the words of the other panes.    *)
(*                                                                         *)
(* The poll, which a keystroke cancels, and FocusGained, which it does not,  *)
(* list the panes, take a screenshot of each and write those that have       *)
(* changed since they were last written.  Of the two, the one that finds     *)
(* the other at work does nothing.  A text is all the words it has, of which *)
(* TmuxWords are told apart.                                               *)
(***************************************************************************)
EXTENDS Integers, FiniteSets

CONSTANTS
  TmuxPanesOf,  \* panes, but for the one nvim is in
  TmuxTexts,    \* what a pane can show
  TmuxWords     \* the words of a text, by their place

ASSUME TmuxAssumption == IsFiniteSet(TmuxPanesOf) /\ IsFiniteSet(TmuxTexts)

VARIABLES
  tmShown,    \* what each pane shows, for those that are there
  tmRun,      \* _periodical: who holds the lock, where, and what it has read
  tmRows,     \* the panes of the database
  tmWords,    \* and their words
  tmCache,    \* _cache
  tmTorn      \* history: panes whose row has been replaced and whose words have not

tmuxVars == <<tmShown, tmRun, tmRows, tmWords, tmCache, tmTorn>>

Keyed(S, T) == UNION {[X -> T] : X \in SUBSET S}
NoTmuxRun == [at |-> "none", by |-> "poll", current |-> "none", left |-> {}, shots |-> <<>>]
TmuxStatements == {"delete", "panes", "words"}
Words(p, t) == {p} \X {t} \X TmuxWords

TmuxTypeOK ==
  /\ tmShown \in Keyed(TmuxPanesOf, TmuxTexts)
  /\ tmRun.at \in {"none", "list", "shots"} \union TmuxStatements
  /\ tmRows \subseteq TmuxPanesOf /\ tmTorn \subseteq TmuxPanesOf
  /\ tmWords \subseteq tmRows \X TmuxTexts \X TmuxWords
  /\ tmCache \in Keyed(TmuxPanesOf, TmuxTexts \union {""})

TmuxInit ==
  /\ tmShown \in [TmuxPanesOf -> TmuxTexts]
  /\ tmRun = NoTmuxRun /\ tmRows = {} /\ tmWords = {} /\ tmCache = <<>> /\ tmTorn = {}

-----------------------------------------------------------------------------

TmuxShow(p, t) ==
  /\ tmShown' = [q \in DOMAIN tmShown \union {p} |-> IF q = p THEN t ELSE tmShown[q]]
  /\ tmShown' # tmShown
  /\ UNCHANGED <<tmRun, tmRows, tmWords, tmCache, tmTorn>>

TmuxGone(p) ==
  /\ p \in DOMAIN tmShown
  /\ tmShown' = [q \in DOMAIN tmShown \ {p} |-> tmShown[q]]
  /\ UNCHANGED <<tmRun, tmRows, tmWords, tmCache, tmTorn>>

tmuxDb == <<tmRows, tmWords, tmCache, tmTorn>>

TmuxBegin ==
  /\ tmRun.at = "none"
  /\ \E by \in {"poll", "focus"} : tmRun' = [NoTmuxRun EXCEPT !.at = "list", !.by = by]
  /\ UNCHANGED <<tmShown, tmuxDb>>

\* _panes, which are none when tmux fails
TmuxList ==
  /\ tmRun.at = "list"
  /\ \E panes \in {DOMAIN tmShown, {}} : \E current \in panes \union {"none"} :
       tmRun' = [tmRun EXCEPT !.at = "shots", !.left = panes, !.current = current]
  /\ UNCHANGED <<tmShown, tmuxDb>>

\* _screenshot: a pane that is gone by then shows nothing, which is a text without words
TmuxShot(p) ==
  /\ tmRun.at = "shots" /\ p \in tmRun.left
  /\ LET t == IF p \in DOMAIN tmShown THEN tmShown[p] ELSE "" IN
       tmRun' = [tmRun EXCEPT !.left = @ \ {p},
         !.shots = [q \in DOMAIN @ \union {p} |-> IF q = p THEN t ELSE @[q]]]
  /\ UNCHANGED <<tmShown, tmuxDb>>

\* periodical forgets the panes that are gone, then writes those that it does not remember;
\* the one that nvim is in is neither written nor forgotten
TmuxLive == DOMAIN tmRun.shots
TmuxChanged ==
  {p \in TmuxLive \ {tmRun.current} : p \in DOMAIN tmCache => tmCache[p] # tmRun.shots[p]}

TmuxForget ==
  /\ tmRun.at = "shots" /\ tmRun.left = {}
  /\ tmCache' = [p \in DOMAIN tmCache \intersect TmuxLive |-> tmCache[p]]
  /\ tmRun' = [tmRun EXCEPT !.at = "delete"]
  /\ UNCHANGED <<tmShown, tmRows, tmWords, tmTorn>>

Remember(ps) ==
  tmCache' = [p \in DOMAIN tmCache \union ps |-> IF p \in ps THEN tmRun.shots[p] ELSE tmCache[p]]

DropWords(ps) == {w \in tmWords : w[1] \notin ps}
AllWords(ps) == UNION {IF tmRun.shots[p] = "" THEN {} ELSE Words(p, tmRun.shots[p]) : p \in ps}

\* each executemany, for some of its rows: the words of a pane go with its row, be it replaced
TmuxDelete(ps) ==
  /\ tmRows' = tmRows \ ps /\ tmWords' = DropWords(ps)
  /\ tmTorn' = tmTorn \ ps /\ UNCHANGED tmCache

TmuxReplace(ps) ==
  /\ tmRows' = tmRows \union ps /\ tmWords' = DropWords(ps)
  /\ tmTorn' = tmTorn \union ps /\ UNCHANGED tmCache

TmuxDead == tmRows \ TmuxLive

TmuxStatement ==
  \/ /\ tmRun.at = "delete" /\ TmuxDelete(TmuxDead)
     /\ tmRun' = [tmRun EXCEPT !.at = "panes", !.left = TmuxChanged]
     /\ UNCHANGED tmShown
  \/ /\ tmRun.at = "panes" /\ TmuxReplace(tmRun.left)
     /\ tmRun' = [tmRun EXCEPT !.at = "words"]
     /\ UNCHANGED tmShown

\* Mutant: a pane is remembered when its words are about to be written
TmuxWordsEarly(p) ==
  /\ tmRun.at = "words" /\ p \in tmRun.left
  /\ \E some \in SUBSET AllWords({p}) :
       /\ tmWords' = tmWords \union some
       /\ tmTorn' = tmTorn \ {p}
       /\ Remember({p})
       /\ tmRun' = IF some = AllWords({p}) THEN [tmRun EXCEPT !.left = @ \ {p}] ELSE NoTmuxRun
  /\ UNCHANGED <<tmShown, tmRows>>

\* a pane is remembered after its last word; an interrupt aborts the statement of some word
TmuxWrite(p) ==
  /\ tmRun.at = "words" /\ p \in tmRun.left
  /\ \E some \in SUBSET AllWords({p}) :
       /\ tmWords' = tmWords \union some
       /\ IF some = AllWords({p})
          THEN /\ Remember({p})
               /\ tmTorn' = tmTorn \ {p}
               /\ tmRun' = [tmRun EXCEPT !.left = @ \ {p}]
          ELSE tmRun' = NoTmuxRun /\ UNCHANGED <<tmCache, tmTorn>>
  /\ UNCHANGED <<tmShown, tmRows>>

TmuxEnd ==
  /\ tmRun.at = "words" /\ tmRun.left = {}
  /\ tmRun' = NoTmuxRun
  /\ UNCHANGED <<tmShown, tmuxDb>>

\* a keystroke cancels the poll where it awaits, not what FocusGained has begun
TmuxCancel ==
  /\ tmRun.at \in {"list", "shots"} /\ tmRun.by = "poll"
  /\ tmRun' = NoTmuxRun
  /\ UNCHANGED <<tmShown, tmuxDb>>

\* and aborts the statement of either after some of its rows
TmuxAbort ==
  /\ \/ tmRun.at = "delete" /\ \E ps \in SUBSET TmuxDead : TmuxDelete(ps)
     \/ tmRun.at = "panes" /\ \E ps \in SUBSET tmRun.left : TmuxReplace(ps)
  /\ tmRun' = NoTmuxRun
  /\ UNCHANGED tmShown

TmuxOf(p) == TmuxGone(p) \/ TmuxShot(p) \/ TmuxWrite(p) \/ \E t \in TmuxTexts : TmuxShow(p, t)

TmuxNext ==
  \/ \E p \in TmuxPanesOf : TmuxOf(p)
  \/ TmuxBegin \/ TmuxList \/ TmuxForget \/ TmuxStatement \/ TmuxEnd \/ TmuxCancel \/ TmuxAbort

TmuxSpec == TmuxInit /\ [][TmuxNext]_tmuxVars

-----------------------------------------------------------------------------

\* The words of a pane are those of the text that it is remembered by, so that a pane which
\* shows that text again need not be written.  It is not so for a pane whose row has been
\* replaced and whose words were then interrupted (database.py:58, :89, :96).
RememberedIsStored ==
  \A p \in DOMAIN tmCache \ tmTorn :
    {w \in tmWords : w[1] = p} = IF tmCache[p] = "" THEN {} ELSE Words(p, tmCache[p])

=============================================================================
