------------------------------- MODULE MCItems ------------------------------
(* Which items are shown, and what of them, what an item does to the buffer, and the  *)
(* marks of a snippet, on small instances, side by side: a behaviour is one of the    *)
(* part that is on, if any is, the others stay as they begin.                       *)
EXTENDS Preview, EditPlan, Marks, SnippetText, Fuzzy, Ranking

CONSTANTS cx, cy, cn, cw  \* characters

VARIABLE part  \* the one that is on

-----------------------------------------------------------------------------
(* EditPlan: three lines, the cursor after the cy of the second one.           *)

Buffer == << <<cw, cx>>, <<cx, cy, cw, cx>>, <<cy>> >>
AfterCy == <<2, 2>>
RangeEdit(b, e, new) ==
  [kind |-> "range", begin |-> b, end |-> e, new |-> new, stop |-> new, encoding |-> "utf16",
   parsed |-> FALSE, parts |-> 1, prefix |-> <<<<>>>>, suffix |-> <<<<>>>>]
\* cy (cn cw): the parts are a symbol and a word, the first is before the cursor and the last behind it
TwoParts == [RangeEdit(<<2, 1>>, <<2, 1>>, <<<<cy, cn, cw>>>>) EXCEPT
               !.parts = 2, !.prefix = <<<<cy>>>>, !.suffix = <<<<cw>>>>]
Snippet == [RangeEdit(<<2, 2>>, <<2, 2>>, <<<<cn, cn>>>>) EXCEPT !.parsed = TRUE, !.parts = 2, !.stop = <<<<cn>>>>]
ContextEdit(prefix, suffix, new, stop) ==
  [kind |-> "context", prefix |-> prefix, suffix |-> suffix, new |-> new, stop |-> stop]
Primaries == {ContextEdit(<<<<cy>>>>, <<<<>>>>, <<<<cn, cn>>>>, <<<<cn, cn>>>>),
              ContextEdit(<<<<>>>>, <<<<cw>>>>, <<<<cn>>, <<cn>>>>, <<<<cn>>>>),
              ContextEdit(<<<<cx>>, <<cx, cy>>>>, <<<<>>>>, <<<<cn>>>>, <<<<cn>>>>),
              RangeEdit(<<2, 1>>, <<2, 3>>, <<<<cn, cw>>>>), TwoParts, Snippet}
Secondaries == {RangeEdit(<<1, 0>>, <<1, 0>>, <<<<cn>>, <<>>>>), RangeEdit(<<1, 1>>, <<1, 2>>, <<<<>>>>),
                RangeEdit(<<1, 1>>, <<1, 2>>, <<<<cn>>, <<cn>>>>), RangeEdit(<<2, 0>>, <<2, 1>>, <<<<cn>>>>),
                RangeEdit(<<2, 2>>, <<2, 0>>, <<<<cn>>>>), RangeEdit(<<1, 1>>, <<2, 0>>, <<<<cn>>>>),
                RangeEdit(<<1, 0>>, <<2, 3>>, <<<<cn>>>>),
                RangeEdit(<<2, 3>>, <<2, 4>>, <<<<cn, cn>>>>), RangeEdit(<<3, 0>>, <<3, 1>>, <<<<cn>>>>),
                RangeEdit(<<5, 0>>, <<5, 0>>, <<<<cn>>>>)}
Items == {[primary |-> p, secondary |-> s] : p \in Primaries, s \in UNION {[1 .. k -> Secondaries] : k \in 0 .. 2}}
TypedTexts == {<<<<>>>>, <<<<cx>>>>, <<<<cy>>, <<cx, cx, cx, cx>>>>}
Wide == {cw}

-----------------------------------------------------------------------------
(* Marks: two marks of one number, marks that are empty, and three of one number. *)

Placed(id, idx, b, e, text) == [id |-> id, idx |-> idx, begin |-> b, end |-> e, text |-> text]
TwoLinked == [line |-> <<cx, cn, cx, cn, cy, cw, cx, cn>>,
              marks |-> {Placed(1, 1, 1, 2, <<cn>>), Placed(2, 1, 3, 4, <<cn>>), Placed(3, 2, 5, 7, <<cw>>), Placed(4, 0, 8, 9, <<cn>>)},
              texts |-> {1}, choices |-> {2}]
SomeEmpty == [line |-> <<cx, cn>>, marks |-> {Placed(1, 1, 0, 0, <<>>), Placed(3, 2, 1, 2, <<cn>>), Placed(4, 0, 2, 2, <<>>)}, texts |-> {}, choices |-> {2}]
ThreeLinked == [line |-> <<cn, cx, cn, cx, cn, cx>>,
                marks |-> {Placed(1, 1, 0, 1, <<cn>>), Placed(2, 1, 2, 3, <<cn>>), Placed(3, 1, 4, 5, <<cn>>), Placed(4, 0, 6, 6, <<>>)}, texts |-> {}, choices |-> {}]
NoMarks == [line |-> <<cx>>, marks |-> {}, texts |-> {}, choices |-> {}]
UpToTwo == {TwoLinked, SomeEmpty, NoMarks}
UpToThree == UpToTwo \union {ThreeLinked}
Answers == {<<>>, <<cy>>, <<cy, cw>>}

-----------------------------------------------------------------------------
(* SnippetText: sentences of the grammars, and some that are not.              *)

Ltr == Chars(<<"x">>, <<"x">>)
NL == Chars(<<"nl">>, <<"nl">>)
Sp == Chars(<<".">>, <<".">>)
Esc == Chars(<<"\\", "}">>, <<"}">>)
Tab(i) == Then(Region(Digit[i], Chars(<<"$", i>>, <<>>)), Sp)
TabEnd(i) == Region(Digit[i], Chars(<<"$", i>>, <<>>))
TabB(i) == Region(Digit[i], Chars(<<"$", "{", i, "}">>, <<>>))
Place(i, a) == Region(Digit[i], Scope(<<"$", "{", i, ":">>, a, <<"}">>))
Pick(i) == Region(Digit[i], Chars(<<"$", "{", i, "|", "x", ",", "x", "|", "}">>, <<"[", "x", "|", "x", "]">>))
Var(name, out) == Chars(<<"$", "{">> \o name \o <<"}">>, out)
VarU(a) == Scope(<<"$", "{", "U", ":">>, a, <<"}">>)
Default(name, out, a) == [src |-> <<"$", "{", name, ":">> \o a.src \o <<"}">>, out |-> out, regs |-> <<>>, plain |-> FALSE]
Naked == Then(Chars(<<"$", "V">>, <<"v">>), Sp)
NakedEnd == Special(Chars(<<"$", "V">>, <<"v">>))
Decor(name, regex, format, options, out) ==
  Chars(<<"$", "{", name, "/", regex, "/">> \o format \o <<"/">> \o options \o <<"}">>, out)
Fmt(op, out) == Decor("V", "v", <<"$", "{", "0", ":">> \o op \o <<"}">>, <<"g">>, out)
Both == {Ltr, NL, Esc, Tab("1"), TabB("0"), TabB("2"), Var(<<"U">>, <<"U">>), Var(<<"V">>, <<"v">>)}
Formats == {Decor("V", "v", <<"$", "0">>, <<>>, <<"v">>), Decor("V", "V", <<"$", "{", "0", "}">>, <<"g", "i">>, <<"v">>),
            Fmt(<<"/", "upcase">>, <<"V">>), Fmt(<<"?", "x", ":", "U">>, <<"x">>),
            Decor("E", "x", <<"$", "{", "0", ":", "?", "x", ":", "U", "}">>, <<>>, <<"U">>)}
Lsp == Both \union Formats \union {Pick("2"), Naked}
Snu2 == Both \union {Var(<<"$", "V">>, <<"$", "V">>)}
Deep(S) == {Place("1", Then(a, b)) : a, b \in S} \union {VarU(a) : a \in S} \union {Place("2", Place("1", a)) : a \in S}
InGrammar(g, S) == {[src |-> s.src, out |-> s.out, regs |-> s.regs, plain |-> s.plain, grammar |-> g] : s \in S}
\* a brace that closes nothing is a character
Brace == Chars(<<"}">>, <<"}">>)
Seqs(S) == {Then(a, b) : a, b \in S} \union {Then(a, b) : a \in {Ltr, NL, Tab("1")}, b \in Deep(S)}
             \union {Then(a, Brace) : a \in S \union Deep(S)}
\* of those with texts for what is matched, and for what is not
WithIf == {Special(Fmt(<<"+", "x">>, <<"x">>))}
WithElse == {Special(Fmt(<<"-", "x">>, <<"v">>)), Special(Fmt(<<"x">>, <<"v">>))}
WithDefault == {Default("V", <<"v">>, Ltr), Default("E", <<>>, Tab("1"))}
AtEnd == {Then(Ltr, NakedEnd)}
Odd == WithIf \union WithElse \union WithDefault \union AtEnd
WellFormed == InGrammar("lsp", Seqs(Lsp) \union Odd) \union InGrammar("snu", Seqs(Snu2) \union WithDefault \union {Special(TabEnd("1"))})
Malformed == {Special(Chars(t, <<>>)) : t \in {<<"\\", "x">>, <<"$", ".">>, <<"$", "{", ".">>, <<"$", "{", "1", "x">>, <<"x", "$", "{", "1", ":", "x">>,
  <<"$", "{", "V", "/", "x", "/", "$", "{", "1", ":">>, <<"$", "{", "1", "/", "x", "/", "1", "/", "i", "}">>, <<"$", "{", "1", "/", "x", "}">>,
  <<"$", "{", "1", "/", "/", "/", "1">>, <<"$", "{", "V", "/", "x", "/", "$", "1", "/", "i">>, <<"$", "{", "V", "/", "x", "/", "$", "1", "/", "x", "}">>}}
Sentences == WellFormed \union InGrammar("lsp", Malformed) \union InGrammar("snu", Malformed)
Indents == {0, 2}

-----------------------------------------------------------------------------

(* Fuzzy: all words of up to three of two characters, and some with one more.   *)

FzWords == {<<>>} \union UNION {[1 .. k -> {cx, cy}] : k \in 1 .. 3} \union {<<cw, cx>>, <<cx, cy, cw>>, <<cw, cx, cw>>, <<cy, cw, cx, cw>>}
AllPairs == [cword : FzWords, match : FzWords]
FewPairs == [cword : {<<cx, cy>>}, match : {<<cy, cx>>, <<cx, cx, cy>>, <<cy, cy, cx>>}]

-----------------------------------------------------------------------------

Some(set) == CHOOSE e \in set : TRUE

ItemsInit ==
  /\ part \in {"none", "preview", "edit", "marks", "parse", "fuzzy", "menu"}
  \* those that are not on begin in one way only
  /\ IF part = "preview" THEN TRUE ELSE pvDocs = {}
  /\ PvInit
  /\ IF part = "edit" THEN TRUE ELSE epItem = Some(Items) /\ epTyped = <<<<>>>>
  /\ EpInit
  /\ IF part = "marks" THEN TRUE ELSE mkLine = NoMarks.line
  /\ MkInit
  /\ IF part = "parse" THEN TRUE ELSE lxGoal = Some(LxSentences) /\ lxIndent = 0
  /\ LxInit
  /\ FzInit
  /\ IF part = "menu" THEN TRUE ELSE rkRanked = <<>> /\ rkManual = FALSE
  /\ RkInit

ItemsNext ==
  \/ part = "preview" /\ PvNext /\ UNCHANGED <<part, epVars, mkVars, lxVars, fzVars, rkVars>>
  \/ part = "edit" /\ EpNext /\ UNCHANGED <<part, pvVars, mkVars, lxVars, fzVars, rkVars>>
  \/ part = "marks" /\ MkNext /\ UNCHANGED <<part, pvVars, epVars, lxVars, fzVars, rkVars>>
  \/ part = "parse" /\ LxNext /\ UNCHANGED <<part, pvVars, epVars, mkVars, fzVars, rkVars>>
  \/ part = "fuzzy" /\ FzNext /\ UNCHANGED <<part, pvVars, epVars, mkVars, lxVars, rkVars>>
  \/ part = "menu" /\ RkNext /\ UNCHANGED <<part, pvVars, epVars, mkVars, lxVars, fzVars>>

itemsVars == <<part, pvVars, epVars, mkVars, lxVars, fzVars, rkVars>>

ItemsSpec == ItemsInit /\ [][ItemsNext]_itemsVars

ItemsTypeOK ==
  /\ part = "preview" => PvTypeOK
  /\ part = "edit" => EpTypeOK
  /\ part = "marks" => MkTypeOK
  /\ part = "parse" => LxTypeOK
  /\ part = "fuzzy" => FzTypeOK
  /\ part = "menu" => RkTypeOK
=============================================================================
