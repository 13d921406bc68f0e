-------------------------------- MODULE EditPlan --------------------------------
(***************************************************************************)
(* coq/server/edit.py: what an accepted item does to the buffer.  What was    *)
(* typed while the item was resolved is taken out; the primary edit and the    *)
(* secondary ones become instructions, those that overlap are dropped, the     *)
(* rest are shifted by those before them and applied one after the other; and  *)
(* what was typed is put back at the new cursor.                               *)
(*                                                                         *)
(* A text is a sequence of lines, a line a sequence of characters.  Rows begin *)
(* at 1; columns are bytes and begin at 0, but those of an edit are in its      *)
(* encoding.  A character of EpWide is two bytes, and one unit of UTF-16.      *)
(***************************************************************************)
EXTENDS Integers, Sequences, FiniteSets, SequencesExt

CONSTANTS
  EpWide,    \* characters of two bytes
  EpText,    \* the buffer when the item was offered
  EpCursor,  \* the position of its context
  EpItems,   \* items: a primary edit and the secondary ones
  EpTyped    \* what may be typed while the item is resolved: lines

IsLine(line) == line \in Seq(ToSet(line))
IsText(text) == text \in Seq(ToSet(text)) /\ text # <<>> /\ \A i \in DOMAIN text : IsLine(text[i])

\* An edit: what it puts there, and up to where the cursor is; and what it asks for around the cursor, or from where
\* to where it is.  Of one that is not of a snippet, how many parts coalesce finds in it, and what trans_adjusted
\* (shared/trans.py) would replace around the cursor.
IsEdit(edit) ==
  /\ IsText(edit.new) /\ IsText(edit.stop) /\ IsText(edit.prefix) /\ IsText(edit.suffix)
  /\ \/ edit.kind = "context"
     \/ /\ edit.kind = "range" /\ edit.parsed \in BOOLEAN /\ edit.parts \in Nat
        /\ edit.begin \in (Nat \ {0}) \X Nat /\ edit.end \in (Nat \ {0}) \X Nat

ASSUME EpAssumption ==
  /\ IsText(EpText) /\ EpCursor \in (DOMAIN EpText) \X Nat
  /\ \A typed \in EpTyped : IsText(typed)
  /\ \A item \in EpItems :
       /\ IsEdit(item.primary)
       /\ item.secondary \in Seq(ToSet(item.secondary))
       /\ \A i \in DOMAIN item.secondary : IsEdit(item.secondary[i]) /\ item.secondary[i].kind = "range"

VARIABLES
  epItem,    \* the item that is accepted
  epTyped,   \* what is typed before the edit
  epAt,      \* edit
  epText,    \* the lines of the buffer
  epPlan,    \* _Parsed.instructions, in the positions of the buffer as it was
  epTodo,    \* the instructions apply has left, shifted
  epKept     \* inserted

epVars == <<epItem, epTyped, epAt, epText, epPlan, epTodo, epKept>>

-----------------------------------------------------------------------------
(* Lines and positions.                                                       *)

Bytes(line) == Len(line) + Cardinality({i \in DOMAIN line : line[i] \in EpWide})

\* the longest part of the line of no more than these bytes
Upto(line, bytes) ==
  LET Fits(k) == Bytes(SubSeq(line, 1, k)) <= bytes
  IN  SubSeq(line, 1, CHOOSE k \in 0 .. Len(line) : Fits(k) /\ (k < Len(line) => ~Fits(k + 1)))
From(line, bytes) == SubSeq(line, Len(Upto(line, bytes)) + 1, Len(line))

Before(p, q) == p[1] < q[1] \/ (p[1] = q[1] /\ p[2] < q[2])

\* text with its first and last line joined to what is around them
Joined(head, text, tail) ==
  IF Len(text) = 1 THEN <<head \o text[1] \o tail>>
  ELSE <<head \o Head(text)>> \o SubSeq(text, 2, Len(text) - 1) \o <<Last(text) \o tail>>

\* nvim_buf_set_text, which fails outside of the buffer
SetText(text, begin, end, new) ==
  IF /\ begin[1] \in DOMAIN text /\ end[1] \in DOMAIN text /\ ~Before(end, begin)
     /\ begin[2] \in 0 .. Bytes(text[begin[1]]) /\ end[2] \in 0 .. Bytes(text[end[1]])
  THEN SubSeq(text, 1, begin[1] - 1)
         \o Joined(Upto(text[begin[1]], begin[2]), new, From(text[end[1]], end[2]))
         \o SubSeq(text, end[1] + 1, Len(text))
  ELSE text

-----------------------------------------------------------------------------
(* Instructions.                                                              *)

EpRow == EpCursor[1]

\* _rows_to_fetch: the first and the last row of each edit, and one more for each secondary edit
RowsToFetch(item) ==
  LET More(lo, hi) == [lo |-> lo, hi |-> Min({Len(EpText), hi + Len(item.secondary)})]
      Of(edit) == IF edit.kind = "context" THEN More(EpRow - Len(edit.prefix) + 1, EpRow + Len(edit.suffix) - 1)
                  ELSE More(edit.begin[1], edit.end[1])
  IN  {Of(edit) : edit \in {item.primary} \union ToSet(item.secondary)}

\* _view: there are such rows, or the item is given up
HasView(item, text) == \A rows \in RowsToFetch(item) : rows.lo \in 1 .. Len(text) + 1 /\ rows.hi <= Len(text)

\* _lines: what is not fetched is empty
View(item, text) == [row \in UNION {rows.lo .. rows.hi : rows \in RowsToFetch(item)} |-> text[row]]
LineIn(view, row) == IF row \in DOMAIN view THEN view[row] ELSE <<>>

\* _contextual_edit_trans: around the cursor
ContextInst(view, edit) ==
  [primary |-> TRUE,
   begin |-> <<EpRow - Len(edit.prefix) + 1,
               IF Len(edit.prefix) > 1 THEN Bytes(LineIn(view, EpRow - Len(edit.prefix) + 1)) - Bytes(edit.prefix[1])
               ELSE EpCursor[2] - Bytes(edit.prefix[1])>>,
   end |-> <<EpRow + Len(edit.suffix) - 1,
             IF Len(edit.suffix) > 1 THEN Bytes(Last(edit.suffix)) ELSE EpCursor[2] + Bytes(edit.suffix[1])>>,
   yoffset |-> Len(edit.stop) - Len(edit.prefix),
   xpos |-> IF Len(edit.stop) > 1 THEN Bytes(Last(edit.stop))
            ELSE EpCursor[2] - Bytes(Last(edit.prefix)) + Bytes(edit.stop[1]),
   new |-> edit.new]

\* a column of the client; UTF-32 is taken for UTF-8
ByteCol(line, edit, col) ==
  Min({Bytes(line), IF edit.encoding = "utf16" THEN Bytes(SubSeq(line, 1, Min({col, Len(line)}))) ELSE col})

\* _range_edit_trans: from the first of the two positions to the other one
RangeInst(view, edit, primary) ==
  LET turned == Before(edit.end, edit.begin)
      lo == IF turned THEN edit.end ELSE edit.begin
      hi == IF turned THEN edit.begin ELSE edit.end
      line == LineIn(view, hi[1])
      c1 == ByteCol(LineIn(view, lo[1]), edit, lo[2])
      c2 == ByteCol(line, edit, hi[2])
  IN  [primary |-> primary,
       begin |-> <<lo[1], c1>>,
       end |-> <<hi[1], c2>>,
       yoffset |-> hi[1] - lo[1] + Len(edit.stop) - 1,
       xpos |-> IF ~primary THEN -1
                ELSE IF Len(edit.stop) > 1 THEN Bytes(Last(edit.stop)) ELSE Bytes(Upto(line, c1)) + Bytes(edit.stop[1]),
       new |-> edit.new]

\* _edit_trans: the text goes to the cursor and replaces what is like it around there
Adjusted(edit) ==
  [kind |-> "context", prefix |-> edit.prefix, suffix |-> edit.suffix, new |-> edit.new, stop |-> edit.new]

\* an insertion of several words is not made where it says, unless it is that of a snippet
Primary(item) ==
  IF /\ item.primary.kind = "range" /\ ~item.primary.parsed
     /\ item.primary.begin = item.primary.end /\ item.primary.parts > 1
  THEN Adjusted(item.primary) ELSE item.primary

\* _instructions: the primary one first
Instructions(view, item) ==
  <<IF Primary(item).kind = "range" THEN RangeInst(view, Primary(item), TRUE) ELSE ContextInst(view, Primary(item))>>
    \o [i \in DOMAIN item.secondary |-> RangeInst(view, item.secondary[i], FALSE)]

\* in the order of their positions, of equals the first one first
Earlier(a, b) == Before(a.begin, b.begin) \/ (a.begin = b.begin /\ Before(a.end, b.end))
Ahead(insts, k) ==
  {i \in DOMAIN insts : Earlier(insts[i], insts[k]) \/ (~Earlier(insts[k], insts[i]) /\ i < k)}
InOrder(insts) ==
  [n \in DOMAIN insts |-> insts[CHOOSE k \in DOMAIN insts : Cardinality(Ahead(insts, k)) = n - 1]]

\* the last one that ends before this one
LastBefore(stack, inst) == Max({0} \union {i \in DOMAIN stack : ~Before(inst.begin, stack[i].end)})

\* _consolidate: of two that overlap the first one stays; but the primary one always does
Consolidate(insts) ==
  LET Take(acc, inst) ==
        IF ~Before(inst.begin, acc.pivot) THEN [stack |-> Append(acc.stack, inst), pivot |-> inst.end]
        ELSE IF inst.primary
        THEN [stack |-> Append(SubSeq(acc.stack, 1, LastBefore(acc.stack, inst)), inst), pivot |-> inst.end]
        ELSE acc
  IN  FoldLeft(Take, [stack |-> <<>>, pivot |-> <<1, 0>>], InOrder(insts)).stack

\* Mutant: the columns of edits on one line are not shifted
ShiftRows(insts) ==
  LET Step(acc, inst) ==
        [row |-> acc.row + inst.yoffset,
         out |-> Append(acc.out, [inst EXCEPT !.begin[1] = @ + acc.row, !.end[1] = @ + acc.row])]
  IN  FoldLeft(Step, [row |-> 0, out |-> <<>>], insts).out

\* _shift: by the rows all instructions before have added, and by the columns the last one on the line has
Shift(insts) ==
  LET ColOf(acc, row) == IF row \in DOMAIN acc.col THEN acc.col[row] ELSE 0
      Step(acc, inst) ==
        LET b == inst.begin
            e == inst.end
            added == IF inst.new = <<>> THEN 0 ELSE Bytes(Last(inst.new))
            shift == (IF b[1] = e[1] THEN b[2] - e[2] ELSE -e[2]) + added
        IN  [row |-> acc.row + inst.yoffset,
             col |-> [row \in DOMAIN acc.col \union {e[1]} |-> IF row = e[1] THEN shift ELSE acc.col[row]],
             out |-> Append(acc.out, [inst EXCEPT !.begin = <<b[1] + acc.row, b[2] + ColOf(acc, b[1])>>,
                                                  !.end = <<e[1] + acc.row, e[2] + ColOf(acc, e[1])>>])]
  IN  FoldLeft(Step, [row |-> 0, col |-> <<>>, out |-> <<>>], insts).out

\* _cursor: the rows added up to the primary instruction, and its column
CursorAfter(insts) ==
  LET k == CHOOSE i \in DOMAIN insts : insts[i].primary
  IN  <<FoldLeft(LAMBDA sum, inst : sum + inst.yoffset, EpRow, SubSeq(insts, 1, k)), insts[k].xpos>>

-----------------------------------------------------------------------------
(* edit.                                                                      *)

TextTyped(typed) == SetText(EpText, EpCursor, EpCursor, typed)

EpInit ==
  /\ epItem \in EpItems /\ epTyped \in EpTyped
  /\ epAt = "typed" /\ epText = TextTyped(epTyped)
  /\ epPlan = <<>> /\ epTodo = <<>> /\ epKept = <<>>

\* the mark after the cursor, which what is typed moves
MarkAfter == <<EpRow + Len(epTyped) - 1, Bytes(Last(epTyped)) + (IF Len(epTyped) = 1 THEN EpCursor[2] ELSE 0)>>

\* _restore: what is between the columns of the marks on the row of the context; if there is something,
\* all that is between the marks is taken out
EpRestore ==
  /\ epAt = "typed"
  /\ epAt' = "parse"
  /\ epKept' = From(Upto(epText[EpRow], MarkAfter[2]), EpCursor[2])
  /\ epText' = IF epKept' = <<>> THEN epText ELSE SetText(epText, EpCursor, MarkAfter, <<<<>>>>)
  /\ UNCHANGED <<epItem, epTyped, epPlan, epTodo>>

\* parse: the instructions; without a view the item is given up, and with it what was taken out
EpParse ==
  /\ epAt = "parse"
  /\ IF HasView(epItem, epText)
     THEN /\ epPlan' = Consolidate(Instructions(View(epItem, epText), epItem))
          /\ epTodo' = Shift(epPlan')
          /\ epAt' = "apply"
     ELSE epAt' = "failed" /\ UNCHANGED <<epPlan, epTodo>>
  /\ UNCHANGED <<epItem, epTyped, epText, epKept>>

\* apply: one after the other; one that fails is logged
EpApply ==
  /\ epAt = "apply" /\ epTodo # <<>>
  /\ LET inst == Head(epTodo) IN epText' = SetText(epText, inst.begin, inst.end, inst.new)
  /\ epTodo' = Tail(epTodo)
  /\ UNCHANGED <<epItem, epTyped, epAt, epPlan, epKept>>

\* what was taken out goes to where the cursor will be
EpPutBack ==
  /\ epAt = "apply" /\ epTodo = <<>>
  /\ epAt' = "done"
  /\ LET cursor == CursorAfter(epPlan)
     IN  epText' = IF epKept = <<>> THEN epText ELSE SetText(epText, cursor, cursor, <<epKept>>)
  /\ UNCHANGED <<epItem, epTyped, epPlan, epTodo, epKept>>

EpNext == EpRestore \/ EpParse \/ EpApply \/ EpPutBack

EpSpec == EpInit /\ [][EpNext]_epVars

-----------------------------------------------------------------------------

EpTypeOK ==
  /\ epItem \in EpItems /\ epTyped \in EpTyped
  /\ epAt \in {"typed", "parse", "failed", "apply", "done"}
  /\ Len(epTodo) <= Len(epPlan) /\ epText # <<>>

\* The reference: the last edit first, so that none moves another; what was typed is put after
\* the part of the primary edit that ends at the cursor.
Simultaneous(plan, stop, typed) ==
  LET pos == <<Len(stop), Bytes(Last(stop))>>
      New(inst) == IF inst.primary THEN SetText(inst.new, pos, pos, typed) ELSE inst.new
  IN  FoldRight(LAMBDA inst, text : SetText(text, inst.begin, inst.end, New(inst)), plan, EpText)

\* What _shift and _cursor provide for: each edit is on one line, but for the primary one, whose
\* last line is then the one of the cursor; no third edit follows two on a line, nothing follows
\* on its line what begins inside a line and joins or breaks lines, or a snippet whose cursor is not at its end;
\* and if something was typed, no edit is before the primary one on its line,
\* and that one begins there.
ProvidedFor(plan, item, typed) ==
  /\ \A i \in DOMAIN plan : plan[i].primary \/ plan[i].begin[1] = plan[i].end[1]
  /\ \A i \in DOMAIN plan : plan[i].primary /\ i < Len(plan) => Primary(item).stop = Primary(item).new
  /\ Primary(item).kind = "range" => Primary(item).begin[1] = Primary(item).end[1]
  /\ Primary(item).kind = "context" =>
       Len(Primary(item).suffix) = 1 /\ (Len(Primary(item).prefix) = 1 \/ typed = <<<<>>>>)
  /\ \A i, j \in DOMAIN plan : i < j /\ plan[i].end[1] = plan[j].begin[1] =>
       /\ j = i + 1 /\ (i = 1 \/ plan[i - 1].end[1] < plan[i].begin[1])
       /\ plan[i].begin[2] = 0 \/ (Len(plan[i].new) = 1 <=> plan[i].begin[1] = plan[i].end[1])
       /\ plan[j].primary => typed = <<<<>>>>

Overlap(a, b) == Before(a.begin, b.end) /\ Before(b.begin, a.end)

\* the text that the instructions are made for: what was typed is taken out
TextSeen == IF epKept = <<>> THEN TextTyped(epTyped) ELSE SetText(TextTyped(epTyped), EpCursor, MarkAfter, <<<<>>>>)

\* No two instructions overlap, the primary one is among them, and one that is left out overlaps
\* one that is not, or else one that the primary one puts out (edit.py:361).
PlanIsDisjoint ==
  epAt \in {"apply", "done"} =>
    LET all == ToSet(Instructions(View(epItem, TextSeen), epItem))
        plan == ToSet(epPlan)
    IN  /\ \A i, j \in DOMAIN epPlan : i < j => ~Before(epPlan[j].begin, epPlan[i].end)
        /\ \E i \in DOMAIN epPlan : epPlan[i].primary
        /\ plan \subseteq all
        /\ \A inst \in all \ plan : \E other \in all :
              /\ Overlap(inst, other)
              /\ other \in plan \/ \E kept \in plan : kept.primary /\ Overlap(other, kept)

\* Applied one after the other, shifted, the instructions do what they do all at once, and what
\* was typed in the meantime is after the primary one (edit.py:392, 460, 597); as far as ProvidedFor
\* says, which the code does not ask for.  To begin with, the instructions are disjoint.
ReplayIsSimultaneous ==
  /\ PlanIsDisjoint
  /\ epAt = "done" /\ Len(epTyped) = 1 /\ ProvidedFor(epPlan, epItem, epTyped) =>
       epText = Simultaneous(epPlan, Primary(epItem).stop, epTyped)

=============================================================================
