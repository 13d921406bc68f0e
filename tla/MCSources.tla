------------------------------ MODULE MCSources -----------------------------
(* The sources that neither share state nor talk to each other, on small instances, *)
(* side by side: a behaviour is one of the source that is on, if any is, the others *)
(* stay as they begin.                                                         *)
EXTENDS TagsIndex, Registers, TmuxPanes, Treesitter, SnippetStore, TabNine, LspCache

CONSTANTS wu, wv  \* words

VARIABLE source  \* the one that is on

-----------------------------------------------------------------------------
(* Treesitter: one word is before the other.                                  *)

OneOrTwo == {<<wu>>, <<wv, wu>>}

-----------------------------------------------------------------------------

\* Snippets: one of the user's first version is bundled as well.
BundledOrUsers == {<<"bundled", 1>>} \union SnFiles \X {1}

First(set) == CHOOSE e \in set : TRUE

SourcesInit ==
  /\ source \in {"none", "tags", "registers", "tmux", "treesitter", "snippets", "t9", "lsp"}
  \* those that are not on begin in one way only
  /\ TagsInit
  /\ RegInit
  /\ IF source = "tmux" THEN TRUE ELSE tmShown = [pane \in TmuxPanesOf |-> First(TmuxTexts)]
  /\ TmuxInit
  /\ IF source = "treesitter" THEN TRUE ELSE tsHere = First(TsBufs) /\ tsText = [buf \in {tsHere} |-> <<wu>>]
  /\ TsInit
  /\ SnInit
  /\ T9Init
  /\ IF source = "lsp" THEN TRUE ELSE lcInline = TRUE
  /\ LcInit

SourcesNext ==
  \/ source = "tags" /\ TagsNext /\ UNCHANGED <<source, regVars, tmuxVars, tsVars, snVars, t9Vars, lcVars>>
  \/ source = "registers" /\ RegNext /\ UNCHANGED <<source, tagsVars, tmuxVars, tsVars, snVars, t9Vars, lcVars>>
  \/ source = "tmux" /\ TmuxNext /\ UNCHANGED <<source, tagsVars, regVars, tsVars, snVars, t9Vars, lcVars>>
  \/ source = "treesitter" /\ TsNext /\ UNCHANGED <<source, tagsVars, regVars, tmuxVars, snVars, t9Vars, lcVars>>
  \/ source = "snippets" /\ SnNext /\ UNCHANGED <<source, tagsVars, regVars, tmuxVars, tsVars, t9Vars, lcVars>>
  \/ source = "t9" /\ T9Next /\ UNCHANGED <<source, tagsVars, regVars, tmuxVars, tsVars, snVars, lcVars>>
  \/ source = "lsp" /\ LcNext /\ UNCHANGED <<source, tagsVars, regVars, tmuxVars, tsVars, snVars, t9Vars>>

sourcesVars == <<source, tagsVars, regVars, tmuxVars, tsVars, snVars, t9Vars, lcVars>>

SourcesTypeOK ==
  /\ source = "tags" => TagsTypeOK
  /\ source = "registers" => RegTypeOK
  /\ source = "tmux" => TmuxTypeOK
  /\ source = "treesitter" => TsTypeOK
  /\ source = "snippets" => SnTypeOK
  /\ source = "t9" => T9TypeOK
  /\ source = "lsp" => LcTypeOK
=============================================================================
