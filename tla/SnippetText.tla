------------------------------ MODULE SnippetText ------------------------------
(***************************************************************************)
(* coq/snippets: the text of a snippet becomes the text that is inserted and   *)
(* the marks on its placeholders.  One pass over the characters yields tokens   *)
(* (parsers/lsp.py, parsers/snu.py); the tokens become a text and regions       *)
(* (parsers/lexer.py); the regions that do not contain each other become marks,  *)
(* rows and columns of the buffer (parse.py).                                   *)
(*                                                                         *)
(* A text is a sequence of characters of one byte each; "nl" breaks the line,   *)
(* and a word like "upcase" counts for one.  V is a variable that has a value,    *)
(* E one whose value is empty (in snu, VISUAL); a regular expression is the text *)
(* that it matches.  Left out: escapes in choices, expressions and formats, snu's *)
(* `lang`, and the tokens that carry a transform to the marks.                  *)
(***************************************************************************)
EXTENDS Integers, Sequences, FiniteSets, SequencesExt

CONSTANTS
  LxSentences,  \* snippets of the grammar, with what they stand for: see below
  LxIndents     \* lengths of what is before the snippet on its line

ASSUME LxAssumption ==
  /\ LxIndents \subseteq Nat
  /\ \A sentence \in LxSentences : sentence.src \in Seq(ToSet(sentence.src))

VARIABLES
  lxGoal,    \* the sentence that is parsed
  lxIndent,  \* the length of line_before
  lxAt,      \* lex, parsed, or error: ParseError
  lxRest,    \* what has not been read
  lxStack,   \* ParserCtx.stack: scopes that are open
  lxTokens,  \* the tokens so far
  lxParsed   \* Parsed

lxVars == <<lxGoal, lxIndent, lxAt, lxRest, lxStack, lxTokens, lxParsed>>

-----------------------------------------------------------------------------
(* Sentences: the characters, what is inserted for them, and the regions of    *)
(* their tabstops in the order in which they end.  Plain ones have nothing of   *)
(* what is known not to be read as the grammar says.                           *)

NoParse == [out |-> <<>>, regs |-> <<>>]

Chars(text, out) == [src |-> text, out |-> out, regs |-> <<>>, plain |-> TRUE]
Special(sentence) == [sentence EXCEPT !.plain = FALSE]
Then(a, b) ==
  [src |-> a.src \o b.src, out |-> a.out \o b.out,
   regs |-> a.regs \o [i \in DOMAIN b.regs |->
              [b.regs[i] EXCEPT !.begin = @ + Len(a.out), !.end = @ + Len(a.out)]],
   plain |-> a.plain /\ b.plain]
Scope(head, a, tail) == [a EXCEPT !.src = head \o @ \o tail]
Region(idx, a) == [a EXCEPT !.regs = Append(@, [idx |-> idx, begin |-> 0, end |-> Len(a.out)])]

-----------------------------------------------------------------------------
(* The tokens.                                                                *)

Digit == [c \in {"0", "1", "2"} |-> CASE c = "0" -> 0 [] c = "1" -> 1 [] c = "2" -> 2]
Digits == DOMAIN Digit
Lowercase == {"g", "i", "u", "v", "x"}
Letters == Lowercase \union {"E", "U", "V", "X"}

LxInit ==
  /\ lxGoal \in LxSentences /\ lxIndent \in LxIndents
  /\ lxAt = "lex" /\ lxRest = lxGoal.src /\ lxStack = <<>> /\ lxTokens = <<>> /\ lxParsed = NoParse

Snu == lxGoal.grammar = "snu"

\* the options of a regular expression, and what the name of a variable begins with
Flags == IF Snu THEN Lowercase ELSE {"g", "i"}
NameBegin == IF Snu THEN Letters \union {"$"} ELSE Letters

At(i) == IF i \in DOMAIN lxRest THEN lxRest[i] ELSE "eof"
\* the first one from i on that is, or is not, one of these
Upon(i, chars) == Min({j \in i .. Len(lxRest) : lxRest[j] \in chars} \union {Len(lxRest) + 1})
Past(i, chars) == Min({j \in i .. Len(lxRest) : lxRest[j] \notin chars} \union {Len(lxRest) + 1})
Between(i, j) == SubSeq(lxRest, i, j - 1)

Text(chars) == [i \in DOMAIN chars |-> [kind |-> "text", char |-> chars[i]]]
Number(digits) == FoldLeft(LAMBDA n, d : 10 * n + Digit[d], 0, digits)
IntBegin(digits) == <<[kind |-> "int", idx |-> Number(digits)]>>
VarBegin == <<[kind |-> "var"]>>
Unparsed1 == <<[kind |-> "unparsed"]>>
End1 == <<[kind |-> "end"]>>

\* _variable_substitution: the value, or the name
Known(name) == name \in {<<"V">>, <<"E">>}
ValueOf(name) == CASE name = <<"V">> -> <<"v">> [] name = <<"E">> -> <<>> [] OTHER -> name
Substituted(name) == Text(ValueOf(name))

\* tokens are yielded, and what is before i has been read
Yield(tokens, i) ==
  /\ lxTokens' = lxTokens \o tokens /\ lxRest' = Between(i, Len(lxRest) + 1)
  /\ UNCHANGED <<lxGoal, lxIndent, lxAt, lxParsed>>
Yields(tokens, i) == Yield(tokens, i) /\ UNCHANGED lxStack
Opens(tokens, i) == Yield(tokens, i) /\ lxStack' = Append(lxStack, "scope")

\* raise_err
Fails == lxAt' = "error" /\ UNCHANGED <<lxGoal, lxIndent, lxRest, lxStack, lxTokens, lxParsed>>

Reads == lxAt = "lex" /\ lxRest # <<>>

LxText ==
  /\ Reads /\ At(1) \notin {"\\", "$"} /\ (At(1) = "}" => lxStack = <<>>)
  /\ Yields(Text(<<At(1)>>), 2)

\* _lex_escape: what cannot be escaped is an error, or in snu the backslash stays
LxEscape ==
  /\ Reads /\ At(1) = "\\"
  /\ IF At(2) \in {"\\", "$", "}"} THEN Yields(Text(<<At(2)>>), 3)
     ELSE IF Snu THEN Yields(Text(<<"\\">>), 2) ELSE Fails

\* _lex: the end of the innermost scope
LxClose ==
  /\ Reads /\ At(1) = "}" /\ lxStack # <<>>
  /\ Yield(End1, 2)
  /\ lxStack' = Front(lxStack)

\* _lex_scope: $1; in snu, nothing at the end of the text
LxTabstop ==
  /\ Reads /\ At(1) = "$" /\ At(2) \in Digits
  /\ LET i == Past(2, Digits)
     IN  Yields(IF Snu /\ At(i) = "eof" THEN <<>> ELSE IntBegin(Between(2, i)) \o End1, i)

\* _lex_variable_naked: nothing at the end of the text
LxNaked ==
  /\ Reads /\ At(1) = "$" /\ At(2) \in Letters /\ ~Snu
  /\ LET i == Past(2, Letters \union Digits)
     IN  Yields(IF At(i) = "eof" THEN <<>> ELSE Substituted(Between(2, i)), i)

\* anything else is an error, or in snu the dollar is dropped
LxDollar ==
  /\ Reads /\ At(1) = "$" /\ At(2) \notin Digits \union {"{"} /\ (Snu \/ At(2) \notin Letters)
  /\ IF Snu THEN Yields(<<>>, 2) ELSE Fails

\* _lex_inner_scope
LxBrace ==
  /\ Reads /\ At(1) = "$" /\ At(2) = "{" /\ At(3) \notin Digits \union NameBegin
  /\ Fails

\* _half_lex_choice: the texts, in brackets; without its end, the placeholder is not closed
Choice(i) ==
  LET j == Upon(i + 1, {"|"})
      text == <<"[">> \o [k \in 1 .. j - i - 1 |-> IF lxRest[i + k] = "," THEN "|" ELSE lxRest[i + k]]
  IN  [ok |-> At(j) = "eof" \/ At(j + 1) = "}", end |-> j + 2,
       tokens |-> IF At(j) = "eof" THEN Text(text) ELSE Text(text \o <<"]">>) \o End1]

\* _lex_tp: in snu the any may have a mark before it
AfterColon(i) == IF Snu /\ At(i + 1) = "#" /\ At(i + 2) = ":" THEN i + 3 ELSE i + 1

\* _lex_decorated of snu: what is between the slashes is not parsed; that there are three, and an
\* end, is not asked for
Decoration(i) ==
  LET third == Upon(Upon(i + 1, {"/"}) + 1, {"/"})
      last == Past(third + 1, Flags)
  IN  [ok |-> At(last) \in {"}", "eof"}, end |-> last + 1,
       tokens |-> IF At(last) = "}" THEN Unparsed1 \o End1 ELSE End1]

\* what is behind the number: in lsp a choice, in snu a decoration
AfterInt(i) == IF Snu THEN Decoration(i) ELSE Choice(i)

\* _lex_tcp, _lex_tp: ${1}, ${1:any}, in lsp ${1|text,text|} and in snu ${1/text/text/options}
LxInt ==
  /\ Reads /\ At(1) = "$" /\ At(2) = "{" /\ At(3) \in Digits
  /\ LET i == Past(3, Digits)
         begin == IntBegin(Between(3, i))
     IN  CASE At(i) = "eof" -> Yields(<<>>, i)
           [] At(i) = "}" -> Yields(begin \o End1, i + 1)
           [] At(i) = ":" -> Opens(begin, AfterColon(i))
           [] At(i) = (IF Snu THEN "/" ELSE "|") ->
                IF AfterInt(i).ok THEN Yields(begin \o AfterInt(i).tokens, AfterInt(i).end) ELSE Fails
           [] OTHER -> Fails

\* a format: the slash behind it, its group, and what is done with that: by its sign, and texts
Identity(end, group) == [end |-> end, group |-> group, sign |-> "id", text |-> <<>>, other |-> <<>>]

\* _lex_fmt_back: what comes after the colon; but for the first two signs its text ends at a colon
FormatBack(i, group) ==
  LET colon == Upon(i + 1, {":"})
      stop == CASE At(i) \in {"/", "+"} -> Upon(i + 1, {"}"})
                [] At(i) = "?" -> Upon(colon + 1, {"}"})
                [] OTHER -> colon
  IN  [end |-> stop + 1, group |-> group, sign |-> At(i),
       text |-> Between(i + 1, IF At(i) = "?" THEN colon ELSE stop), other |-> Between(colon + 1, stop)]

\* _lex_fmt: $1, ${1} or ${1:..}; at 0 if there is none
Format(i) ==
  LET bare == Past(i + 1, Digits)
      j == Past(i + 2, Digits)
  IN  CASE At(i) = "$" /\ At(i + 1) \in Digits -> Identity(bare, Number(Between(i + 1, bare)))
        [] At(i) = "$" /\ At(i + 1) = "{" /\ At(j) = "}" -> Identity(j + 1, Number(Between(i + 2, j)))
        [] At(i) = "$" /\ At(i + 1) = "{" /\ At(j) = ":" -> FormatBack(j + 1, Number(Between(i + 2, j)))
        [] OTHER -> Identity(0, 0)

Small == [U |-> "u", V |-> "v", X |-> "x"]
Large == [u |-> "U", v |-> "V", x |-> "X"]
Cased(table, c) == IF c \in DOMAIN table THEN table[c] ELSE c

\* trans: the sign for what there is puts its text for what is empty, as the two for what is empty do
Formatted(format, value) ==
  CASE format.sign = "/" ->
         [k \in DOMAIN value |->
            CASE format.text = <<"upcase">> -> Cased(Large, value[k])
              [] format.text = <<"downcase">> -> Cased(Small, value[k])
              [] format.text = <<"capitalize">> -> Cased(IF k = 1 THEN Large ELSE Small, value[k])
              [] OTHER -> value[k]]
    [] format.sign = "?" -> IF value # <<>> THEN format.text ELSE format.other
    [] format.sign = "id" -> value
    [] OTHER -> IF value # <<>> THEN value ELSE format.text

\* xform: the group that the expression has at the beginning of the value; of a plain one, all of it is the
\* only group, and the value itself is taken for any other, and when there is no match
Matched(regex, flags, group, value) ==
  LET head == SubSeq(value, 1, Len(regex))
      Folded(text) == IF "i" \in flags THEN [k \in DOMAIN text |-> Cased(Small, text[k])] ELSE text
  IN  IF group = 0 /\ Len(regex) <= Len(value) /\ Folded(head) = Folded(regex) THEN head ELSE value

\* _lex_variable_decorated: ${var/regex/format/options}; the options may end with the text
Decorated(name, i) ==
  LET slash == Upon(i + 1, {"/"})
      format == Format(slash + 1)
      last == Past(format.end + 1, Flags)
      matched == Matched(Between(i + 1, slash), ToSet(Between(format.end + 1, last)), format.group, ValueOf(name))
  IN  IF format.end # 0 /\ At(format.end) = "/" /\ At(last) \in {"}", "eof"}
      THEN Yields(Text(Formatted(format, matched)), last + 1)
      ELSE Fails

\* _lex_variable: in snu a name is all there is up to its end
NameEnd(i) == IF Snu THEN Upon(i, {"}", ":"}) ELSE Past(i, Letters \union Digits)

\* _lex_variable_nested: ${var}, ${var:any} and ${var/../../}; what a variable that is
\* known has for a default is read all the same, and the end of it
LxName ==
  /\ Reads /\ At(1) = "$" /\ At(2) = "{" /\ At(3) \in NameBegin
  /\ LET i == NameEnd(3)
         name == Between(3, i)
     IN  CASE At(i) = "eof" -> Yields(<<>>, i)
           [] At(i) = "}" -> Yields(Substituted(name), i + 1)
           [] At(i) = ":" -> Opens(IF Known(name) THEN Substituted(name) ELSE VarBegin, i + 1)
           [] At(i) = "/" -> Decorated(name, i)
           [] OTHER -> Fails

-----------------------------------------------------------------------------
(* The text and the regions.                                                  *)

\* token_parser: what is open, what is closed and where; bad when they do not match
Tokens ==
  LET Step(acc, token) ==
        CASE token.kind = "text" -> [acc EXCEPT !.out = Append(@, token.char)]
          [] token.kind = "unparsed" -> [acc EXCEPT !.bad = TRUE]
          [] token.kind = "end" ->
               IF acc.open = <<>> THEN [acc EXCEPT !.bad = TRUE]
               ELSE LET begin == Last(acc.open) IN
                    [acc EXCEPT !.open = Front(@),
                                !.regs = IF begin.kind = "int"
                                         THEN Append(@, [idx |-> begin.idx, begin |-> begin.pos, end |-> Len(acc.out)])
                                         ELSE @]
          [] OTHER -> [acc EXCEPT !.open = Append(@, [kind |-> token.kind, pos |-> Len(acc.out),
                                                     idx |-> IF token.kind = "int" THEN token.idx ELSE 0])]
  IN  FoldLeft(Step, [out |-> <<>>, open |-> <<>>, regs |-> <<>>, bad |-> FALSE], lxTokens)

LxParse ==
  /\ lxAt = "lex" /\ lxRest = <<>>
  /\ IF Tokens.bad \/ Tokens.open # <<>> THEN Fails
     ELSE /\ lxAt' = "parsed" /\ lxParsed' = [out |-> Tokens.out, regs |-> Tokens.regs]
          /\ UNCHANGED <<lxGoal, lxIndent, lxRest, lxStack, lxTokens>>

LxNext ==
  \/ LxText \/ LxEscape \/ LxClose \/ LxTabstop \/ LxNaked \/ LxDollar \/ LxBrace \/ LxInt \/ LxName
  \/ LxParse

LxSpec == LxInit /\ [][LxNext]_lxVars

\* _overlap: one contains the other
Nested(r1, r2) == (r1.begin >= r2.begin /\ r1.end <= r2.end) \/ (r2.begin >= r1.begin /\ r2.end <= r1.end)

Size(region) == region.end - region.begin

\* of those that contain each other the shortest stays, of the shortest that of the lowest number, and 0 is the highest
Sooner(r1, r2) ==
  IF Size(r1) # Size(r2) THEN Size(r1) < Size(r2) ELSE r1.idx # r2.idx /\ (r2.idx = 0 \/ (r1.idx # 0 /\ r1.idx < r2.idx))
Preferred(regs, k) ==
  {i \in DOMAIN regs : Sooner(regs[i], regs[k]) \/ (~Sooner(regs[k], regs[i]) /\ i < k)}
ByLength(regs) ==
  [n \in DOMAIN regs |-> regs[CHOOSE k \in DOMAIN regs : Cardinality(Preferred(regs, k)) = n - 1]]

\* Mutant: the longest first
ConsolidatedLongest(regs) ==
  LET Take(acc, region) == IF \E k \in DOMAIN acc : Nested(region, acc[k]) THEN acc ELSE Append(acc, region)
  IN  FoldLeft(Take, <<>>, Reverse(ByLength(regs)))

\* _consolidate
Consolidated(regs) ==
  LET Take(acc, region) == IF \E k \in DOMAIN acc : Nested(region, acc[k]) THEN acc ELSE Append(acc, region)
  IN  FoldLeft(Take, <<>>, ByLength(regs))

\* the offsets at which the lines end, with their breaks
LineEnds(text) == {i \in DOMAIN text : text[i] = "nl"}

\* _marks: the row of the first line that ends behind the offset, and the column in it; but that of the
\* beginning of the second row is taken for one of the first
MarkPos(text, offset, indent) ==
  LET ended == {i \in LineEnds(text) : i <= offset}
      row == Cardinality(ended) + 1
      begin == Max({0} \union ended)
  IN  <<row, offset - begin + (IF row = 1 \/ (row = 2 /\ offset = begin) THEN indent ELSE 0)>>

-----------------------------------------------------------------------------

LxTypeOK ==
  /\ lxGoal \in LxSentences /\ lxIndent \in LxIndents /\ lxAt \in {"lex", "parsed", "error"}
  /\ Len(lxRest) <= Len(lxGoal.src) /\ lxStack \in Seq({"scope"})

\* The text and the tabstops of a sentence of the grammar are what the grammar says
\* (parsers/lsp.py:46, parsers/snu.py:20).
Understood ==
  /\ lxAt # "error"
  /\ lxAt = "parsed" => lxParsed = [out |-> lxGoal.out, regs |-> lxGoal.regs]

\* That is so for each sentence without a known variable that has a default, a variable or (snu) a
\* tabstop at the end of the text, and a format with a text for what is matched, or only one for what is not:
\* the code reads those otherwise, or refuses them (lsp.py:287, :384, :394, :583, snu.py:145).
PlainIsUnderstood == lxGoal.plain => Understood

\* Every mark is on the text of its region, as that is in the buffer; no mark contains another, and a
\* tabstop that contains no other, however short, keeps its mark (lexer.py:88, parse.py:42); but a
\* mark at the beginning of the second row is set off by the text before the snippet.
InnermostAreMarked ==
  lxAt = "parsed" =>
    LET regs == lxParsed.regs
        kept == Consolidated(regs)
        Innermost(i) == \A j \in DOMAIN regs \ {i} : Nested(regs[i], regs[j]) => Size(regs[j]) > Size(regs[i])
        text == [k \in 1 .. lxIndent |-> "x"] \o lxParsed.out
        IsBegin(row, i) == \/ row = 1 /\ i = 0
                           \/ i \in LineEnds(text) /\ Cardinality({k \in LineEnds(text) : k <= i}) = row - 1
        IsAt(pos, offset) == \/ \E i \in 0 .. Len(text) : IsBegin(pos[1], i) /\ i + pos[2] = lxIndent + offset
                             \/ lxIndent > 0 /\ pos[1] = 2 /\ offset \in LineEnds(lxParsed.out)
    IN  /\ \A i, j \in DOMAIN kept : i # j => ~Nested(kept[i], kept[j])
        /\ \A i \in DOMAIN regs : Innermost(i) => \E k \in DOMAIN kept : kept[k] = regs[i]
        /\ \A k \in DOMAIN kept : \A offset \in {kept[k].begin, kept[k].end} :
             IsAt(MarkPos(lxParsed.out, offset, lxIndent), offset)

\* Both: a plain sentence comes to the text it says, and every mark to its place in it.
ParsedAsWritten == PlainIsUnderstood /\ InnermostAreMarked
=============================================================================
