-------------------------------- MODULE Marks --------------------------------
(***************************************************************************)
(* coq/server/registrants/marks.py: a snippet leaves marks on its              *)
(* placeholders, and the key for it goes from one to the next.  What is under  *)
(* a mark is replaced: by nothing; by what is answered and transformed, or     *)
(* chosen, if its number has a transformation or choices; or, where several    *)
(* marks have the same number, by one answer in all of them at once.           *)
(*                                                                         *)
(* The marks are on one line.  nvim moves those that an edit touches or is     *)
(* before: where they begin it pushes on, where they end it does not.          *)
(***************************************************************************)
EXTENDS EditPlan

CONSTANTS
  MkSnippets,  \* lines with marks: their number, where they begin and end, their text; and which numbers
               \* have a transformation, and which have choices
  MkAnswers    \* what may be answered, or come of it, or be chosen: a text of one line

\* the column is not inside of a character
IsBetween(line, col) == \E k \in 0 .. Len(line) : Bytes(SubSeq(line, 1, k)) = col

TextAt(line, b, e) == From(Upto(line, e), b)

\* what a snippet leaves behind: marks on its text, none of which is inside of another
IsMark(m) ==
  /\ m = [id |-> m.id, idx |-> m.idx, begin |-> m.begin, end |-> m.end, text |-> m.text]
  /\ m.id \in Nat /\ m.idx \in Nat
IsMarked(line, marks) ==
  /\ IsLine(line) /\ IsFiniteSet(marks)
  /\ \A m \in marks : /\ IsMark(m) /\ m.begin <= m.end /\ m.text = TextAt(line, m.begin, m.end)
                      /\ IsBetween(line, m.begin) /\ IsBetween(line, m.end)
  /\ \A k, m \in marks : k # m => k.id # m.id /\ (k.end <= m.begin \/ m.end <= k.begin)

ASSUME MkAssumption ==
  /\ \A s \in MkSnippets : IsMarked(s.line, s.marks)
  /\ \A new \in MkAnswers : IsLine(new)

VARIABLES
  mkLine,    \* the line
  mkMarks,   \* the extmarks of the namespace
  mkTrans,   \* text_trans of the state: the numbers with a transformation, and those with choices
  mkCursor,  \* the column of the cursor
  mkLast     \* history: the marks that were replaced at last, with what

mkVars == <<mkLine, mkMarks, mkTrans, mkCursor, mkLast>>

NoLast == [begins |-> {}, new |-> <<>>]

MkTypeOK ==
  /\ mkCursor \in 0 .. Bytes(mkLine)
  /\ \A m \in mkMarks : m.begin >= 0

MkInit ==
  /\ \E s \in MkSnippets :
       mkLine = s.line /\ mkMarks = s.marks /\ mkTrans = [texts |-> s.texts, choices |-> s.choices]
  /\ mkCursor = 0 /\ mkLast = NoLast

\* where nvim puts a position that an edit pushes on, and one that it does not, when it gives the bytes from b to e
\* this many: the first are behind what is put there, the others before it
Pushed(col, b, e, bytes) == IF col < b THEN col ELSE IF col < e THEN b + bytes ELSE col - (e - b) + bytes
Stayed(col, b, e, bytes) == IF col <= b THEN col ELSE IF col <= e THEN b ELSE col - (e - b) + bytes
Moved(mark, b, e, bytes) == [mark EXCEPT !.begin = Pushed(@, b, e, bytes), !.end = Stayed(@, b, e, bytes)]

\* _ls_marks: by number, 0 last, then by position, and as nvim lists those of one position
Precedes(m1, m2) ==
  IF m1.idx # m2.idx THEN m2.idx = 0 \/ (m1.idx # 0 /\ m1.idx < m2.idx)
  ELSE IF m1.begin # m2.begin THEN m1.begin < m2.begin
  ELSE m1.end < m2.end \/ (m1.end = m2.end /\ m1.id < m2.id)
InTurn(marks) ==
  [n \in 1 .. Cardinality(marks) |-> CHOOSE m \in marks : Cardinality({k \in marks : Precedes(k, m)}) = n - 1]
LsMarks == InTurn({m \in mkMarks : m.begin <= m.end})

\* _marks: the first one is deleted if it is empty and the cursor is on it already
IsVisited(mark) == mark.begin = mkCursor /\ mark.end = mkCursor
Listed == IF LsMarks # <<>> /\ IsVisited(Head(LsMarks)) THEN Tail(LsMarks) ELSE LsMarks

\* _trans
MarkInst(mark, new) ==
  [primary |-> FALSE, begin |-> <<1, mark.begin>>, end |-> <<1, mark.end>>, yoffset |-> 0, xpos |-> -1, new |-> <<new>>]

\* Mutant: the edits are not shifted
AppliedRaw(insts) ==
  LET One(acc, inst) ==
        LET text == SetText(<<acc.line>>, inst.begin, inst.end, inst.new)
        IN  [line |-> text[1],
             marks |-> {Moved(m, inst.begin[2], inst.end[2], Bytes(inst.new[1])) : m \in acc.marks}]
  IN  FoldLeft(One, [line |-> mkLine, marks |-> mkMarks], insts)

\* apply: what it makes of the line and of the marks there are
Applied(insts) ==
  LET One(acc, inst) ==
        LET text == SetText(<<acc.line>>, inst.begin, inst.end, inst.new)
        IN  [line |-> text[1],
             marks |-> {Moved(m, inst.begin[2], inst.end[2], Bytes(inst.new[1])) : m \in acc.marks}]
  IN  FoldLeft(One, [line |-> mkLine, marks |-> mkMarks], Shift(insts))

\* the marks of the first one's number, and that one
Linked == InTurn({m \in ToSet(Listed) : m.idx = Listed[1].idx})

\* _linked_marks and _single_mark: the text of all of them, or of the first one, is replaced, and the cursor is put
\* so far behind where the first one begins
Visit(marks, new, shift) ==
  LET applied == Applied([i \in DOMAIN marks |-> MarkInst(marks[i], new)])
      skipped == {m \in mkMarks : Listed # LsMarks /\ m = Head(LsMarks)}
  IN  /\ mkLine' = applied.line
      /\ mkMarks' = {m \in applied.marks : \A gone \in ToSet(marks) \union skipped : m.id # gone.id}
      /\ mkCursor' = marks[1].begin + shift
      /\ mkLast' = [begins |-> {m.begin : m \in ToSet(marks)}, new |-> new]
      /\ UNCHANGED mkTrans

\* nav_mark, where several are linked and there is an answer
MkAnswer(new) == Listed # <<>> /\ Len(Linked) > 1 /\ Visit(Linked, new, Bytes(new))

\* ... or a mark that is alone, or there is none.  Nothing is put under it;
MkSingle ==
  /\ Listed # <<>> /\ Listed[1].idx \notin mkTrans.texts \union mkTrans.choices
  /\ Visit(<<Listed[1]>>, <<>>, 0)

\* or what its transformation makes of an answer, or else the text that is there, with the cursor before it;
MkTransformed ==
  /\ Listed # <<>> /\ Listed[1].idx \in mkTrans.texts
  /\ \E new \in (MkAnswers \ {<<>>}) \union {TextAt(mkLine, Listed[1].begin, Listed[1].end)} :
       Visit(<<Listed[1]>>, new, 0)

\* or what is chosen, if something is, with the cursor behind it
MkChosen ==
  /\ Listed # <<>> /\ Listed[1].idx \in mkTrans.choices
  /\ \E new \in MkAnswers \union {<<>>} : Visit(<<Listed[1]>>, new, Bytes(new))

\* or there was no mark but the one that the cursor is on
MkNoMore ==
  /\ LsMarks # <<>> /\ Listed = <<>>
  /\ mkMarks' = mkMarks \ {LsMarks[1]} /\ mkLast' = NoLast
  /\ UNCHANGED <<mkLine, mkTrans, mkCursor>>

MkNext == MkSingle \/ MkTransformed \/ MkChosen \/ MkNoMore \/ \E new \in MkAnswers : MkAnswer(new)

MkSpec == MkInit /\ [][MkNext]_mkVars

-----------------------------------------------------------------------------

\* A mark that has not been visited is still on its text, whatever was put under those before it
\* (marks.py:151, edit.py:392).
MarksKeepTheirText == \A m \in mkMarks : TextAt(mkLine, m.begin, m.end) = m.text

\* What is answered is put under each of the marks that are linked: the text between them is as it
\* was (docs/KEYBIND.md:85).
LinkedAreReplaced ==
  [][mkMarks' # mkMarks =>
       LET gone == SetToSortSeq({m \in mkMarks : m.begin \in mkLast'.begins /\ \A k \in mkMarks' : k.id # m.id}, Precedes)
           One(line, m) == Upto(line, m.begin) \o mkLast'.new \o From(line, m.end)
       IN  mkLine' = FoldRight(LAMBDA m, line : One(line, m), gone, mkLine)]_mkVars
=============================================================================
