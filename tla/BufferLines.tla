----------------------------- MODULE BufferLines -----------------------------
(***************************************************************************)
(* coq/clients/buffers: the table of lines that the buffer source keeps of  *)
(* a buffer, fed by change events, by BufEnter and by a poll when idle.     *)
(*                                                                         *)
(* The connection is in autocommit mode, so that every statement stands for *)
(* itself, and Worker.interrupt aborts the one that runs.  The operations   *)
(* of the database run on the loop of the worker and await nothing; nvim   *)
(* and the interrupts go on in between.  Rows are keyed by buffer: this is  *)
(* one buffer.  Words follow their lines by foreign key and are left out.   *)
(***************************************************************************)
EXTENDS Integers, Sequences, FiniteSets

CONSTANTS
  Lines,      \* what a line can be
  Blank,      \* the line of an empty buffer
  Height,     \* of the window
  MaxLen,     \* bound: lines of the buffer
  MaxEdits    \* bound: changes of the buffer

ASSUME BufferAssumption ==
  Blank \in Lines /\ Height \in Nat /\ MaxLen \in Nat /\ MaxEdits \in Nat

VARIABLES
  text,       \* the buffer in nvim
  edits,      \* changes so far
  events,     \* nvim_buf_lines_event, in flight to the main loop
  work,       \* updates that collected tasks have still to apply
  poll,       \* Worker._poll and what its _info has read
  pstop,      \* the future of _with_interrupt is resolved
  rows,       \* the table lines of the buffer
  op,         \* the operation of the database that runs
  torn,       \* history: a shift has been aborted between its halves
  fresh,      \* history: the buffer is as the poll has begun to read it
  held        \* history: the lines that an operation of such a poll has left, up to the
              \* next operation and the next change

vars == <<text, edits, events, work, poll, pstop, rows, op, torn, fresh, held>>

Row(n, l) == [num |-> n, line |-> l]
Update(lo, hi, lines) == [lo |-> lo, hi |-> hi, lines |-> lines]
Updates == [lo : Nat, hi : Nat, lines : Seq(Lines)]

\* "vacuum" .. "count" is the statement that runs; before is history
NoOp == [at |-> "none", by |-> "work", u |-> Update(0, 0, <<>>), count |-> 0,
         left |-> {}, before |-> {}]
Points == {"none", "vacuum", "delete", "shift_1", "shift_2", "insert", "count"}
Ops == [at : Points, by : {"poll", "work", "enter"}, u : Updates, count : Nat,
        left : SUBSET Nat, before : SUBSET [num : Int, line : Lines]]

NoPoll == [at |-> "idle", count |-> 0, u |-> Update(0, 0, <<>>)]
PollPoints == {"idle", "counting", "reading", "ready"}

TypeOK ==
  /\ text \in Seq(Lines) /\ text # <<>>
  /\ edits \in Nat
  /\ events \in Seq(Updates) /\ work \in Seq(Updates)
  /\ poll \in [at : PollPoints, count : Nat, u : Updates]
  /\ pstop \in BOOLEAN
  /\ rows \subseteq [num : Int, line : Lines]
  /\ op \in Ops
  /\ torn \in BOOLEAN /\ fresh \in BOOLEAN /\ held \subseteq Nat

Init ==
  /\ text = <<Blank>> /\ edits = 0 /\ events = <<>>
  /\ work = <<>>
  /\ poll = NoPoll /\ pstop = FALSE
  /\ rows = {} /\ op = NoOp
  /\ torn = FALSE /\ fresh = FALSE /\ held = {}

-----------------------------------------------------------------------------
(* nvim.                                                                      *)

\* the lines lo .. hi - 1 (from 0) of s replaced
Replaced(s, u) == SubSeq(s, 1, u.lo) \o u.lines \o SubSeq(s, u.hi + 1, Len(s))

\* a handler that nvim waits for
Blocked == op.by = "enter"

\* a buffer without lines has one that is blank, which the event does not tell
Edit(u) ==
  /\ edits < MaxEdits /\ ~Blocked
  /\ u.lo <= u.hi /\ u.hi <= Len(text) /\ (u.lo # u.hi \/ u.lines # <<>>)
  /\ Len(Replaced(text, u)) <= MaxLen
  /\ edits' = edits + 1
  /\ text' = IF Replaced(text, u) = <<>> THEN <<Blank>> ELSE Replaced(text, u)
  /\ events' = Append(events, u)
  /\ fresh' = FALSE /\ held' = {}
  /\ UNCHANGED <<work, poll, pstop, rows, op, torn>>

-----------------------------------------------------------------------------
(* The operations of the database, a statement at a time.                     *)

outside == <<text, edits, events, work, poll, pstop>>

\* what ends without an error, or with one, leaves the loop to the next operation
Over == op' = NoOp

Start(by, at, u, count) ==
  op' = [at |-> at, by |-> by, u |-> u, count |-> count,
         left |-> DOMAIN u.lines, before |-> rows]

Shift(u) == Len(u.lines) - (u.hi - u.lo)
InRange(u, r) == u.lo <= r.num /\ r.num < u.hi

\* what an UPDATE makes of a row
Negated(u, r) == IF r.num >= u.lo THEN [r EXCEPT !.num = -(@ + Shift(u))] ELSE r
Restored(r) == IF r.num < 0 THEN [r EXCEPT !.num = -@] ELSE r

\* UNIQUE(buffer_id, line_num), when every row r becomes f[r]
Clash(f) == \E r, s \in DOMAIN f : r # s /\ f[r].num = f[s].num

\* the statement takes effect, or ends the operation: only OperationalError is suppressed
Execute(f, next) ==
  IF Clash(f)
  THEN Over /\ UNCHANGED rows
  ELSE op' = [op EXCEPT !.at = next] /\ rows' = {f[r] : r \in rows}

\* Mutant: the line after the last one is left
VacuumOneLess ==
  /\ op.at = "vacuum"
  /\ rows' = {r \in rows : r.num <= op.count}
  /\ op' = [op EXCEPT !.at = "delete", !.before = rows']
  /\ UNCHANGED <<outside, torn, fresh, held>>

Vacuum ==
  /\ op.at = "vacuum"
  /\ rows' = {r \in rows : r.num < op.count}
  /\ op' = [op EXCEPT !.at = "delete", !.before = rows']
  /\ UNCHANGED <<outside, torn, fresh, held>>

\* Mutant: hi is deleted, too
DeleteOneMore ==
  /\ op.at = "delete"
  /\ rows' = {r \in rows : ~(op.u.lo <= r.num /\ r.num <= op.u.hi)}
  /\ op' = [op EXCEPT !.at = "shift_1"]
  /\ UNCHANGED <<outside, torn, fresh, held>>

\* Mutant: the last line of the range is left
DeleteOneLess ==
  /\ op.at = "delete"
  /\ rows' = {r \in rows : ~(op.u.lo <= r.num /\ r.num < op.u.hi - 1)}
  /\ op' = [op EXCEPT !.at = "shift_1"]
  /\ UNCHANGED <<outside, torn, fresh, held>>

Delete ==
  /\ op.at = "delete"
  /\ rows' = {r \in rows : ~InRange(op.u, r)}
  /\ op' = [op EXCEPT !.at = "shift_1"]
  /\ UNCHANGED <<outside, torn, fresh, held>>

LinesShift1 ==
  /\ op.at = "shift_1"
  /\ Execute([r \in rows |-> Negated(op.u, r)], "shift_2")
  /\ UNCHANGED <<outside, torn, fresh, held>>

LinesShift2 ==
  /\ op.at = "shift_2"
  /\ Execute([r \in rows |-> Restored(r)], "insert")
  /\ torn' = (torn \/ op' = NoOp)
  /\ UNCHANGED <<outside, fresh, held>>

\* Mutant: the lines are numbered from lo + 1
InsertLineBelow(i) ==
  /\ op.at = "insert" /\ i \in op.left
  /\ IF \E r \in rows : r.num = op.u.lo + i
     THEN Over /\ UNCHANGED rows
     ELSE /\ rows' = rows \union {Row(op.u.lo + i, op.u.lines[i])}
          /\ op' = [op EXCEPT !.left = @ \ {i}]
  /\ UNCHANGED <<outside, torn, fresh, held>>

\* executemany, in the order that shuffle has chosen
InsertLine(i) ==
  /\ op.at = "insert" /\ i \in op.left
  /\ IF \E r \in rows : r.num = op.u.lo + i - 1
     THEN Over /\ UNCHANGED rows
     ELSE /\ rows' = rows \union {Row(op.u.lo + i - 1, op.u.lines[i])}
          /\ op' = [op EXCEPT !.left = @ \ {i}]
  /\ UNCHANGED <<outside, torn, fresh, held>>

\* the words of the lines
InsertWords ==
  /\ op.at = "insert" /\ op.left = {}
  /\ op' = [op EXCEPT !.at = "count"]
  /\ UNCHANGED <<outside, rows, torn, fresh, held>>

\* COALESCE(MAX(line_num), -1) + 1 is 0
NoLines == (\A r \in rows : r.num < 0) /\ (rows # {} => \E r \in rows : r.num = -1)

EnsureLine ==
  /\ op.at = "count"
  /\ rows' = IF NoLines THEN rows \union {Row(0, Blank)} ELSE rows
  /\ Over
  /\ held' = IF op.by = "poll" /\ fresh THEN op.u.lo .. op.u.hi - 1 ELSE {}
  /\ fresh' = (fresh /\ op.by # "poll")
  /\ UNCHANGED <<outside, torn>>

Statement ==
  \/ Vacuum \/ Delete \/ LinesShift1 \/ LinesShift2 \/ InsertWords \/ EnsureLine
  \/ \E i \in 1 .. MaxLen : InsertLine(i)

\* sqlite3_interrupt: the statement that runs has no effect; vacuum suppresses the error
\* itself, and the lines of the poll follow
Abort ==
  /\ op # NoOp
  /\ IF op.at = "vacuum" THEN op' = [op EXCEPT !.at = "delete"] ELSE Over
  /\ torn' = (torn \/ op.at = "shift_2")
  /\ fresh' = (fresh /\ op.by # "poll")
  /\ UNCHANGED held

-----------------------------------------------------------------------------
(* The main loop.                                                             *)

\* Worker.interrupt: resolves the future of _with_interrupt, and interrupts the connection
Interrupted ==
  /\ pstop' = (poll.at # "idle")
  /\ Abort \/ UNCHANGED <<op, torn, fresh, held>>

\* supervised, for any collect
Interrupt ==
  /\ op # NoOp \/ poll.at # "idle"
  /\ Interrupted
  /\ UNCHANGED <<text, edits, events, work, poll, rows>>

\* _lines_event: Supervisor.interrupt, and a collect in insert mode
LinesEvent ==
  /\ events # <<>>
  /\ events' = Tail(events)
  /\ Interrupted
  /\ work' \in {work, Append(work, Head(events))}
  /\ UNCHANGED <<text, edits, poll, rows>>

-----------------------------------------------------------------------------
(* The loop of the worker.                                                    *)

\* a task that is cancelled before it comes to the database
Cancelled ==
  /\ work # <<>>
  /\ work' = Tail(work)
  /\ UNCHANGED <<text, edits, events, poll, pstop, rows, op, torn, fresh, held>>

\* _work; a poll that the interrupt of its task has stopped is over by then, because the
\* task has had to wait for the main loop
Work ==
  /\ op = NoOp /\ ~pstop
  /\ work # <<>>
  /\ work' = Tail(work)
  /\ Start("work", "delete", Head(work), 0)
  /\ held' = {}
  /\ UNCHANGED <<text, edits, events, poll, pstop, rows, torn, fresh>>

\* the lines around the cursor, of a buffer of count lines
Window(count, row) ==
  LET lo == IF row > Height THEN row - Height ELSE 0
      hi == IF count < row + Height + 1 THEN count ELSE row + Height + 1
  IN Update(lo, hi, SubSeq(text, lo + 1, hi))

\* _buf_enter: nvim waits until set_lines is over
BufEnter(row) ==
  /\ op = NoOp /\ row < Len(text)
  /\ Start("enter", "delete", Window(Len(text), row), 0)
  /\ held' = {}
  /\ UNCHANGED <<outside, rows, torn, fresh>>

Idle ==
  /\ poll.at = "idle"
  /\ op.by # "poll"
  /\ poll' = [poll EXCEPT !.at = "counting"]
  /\ UNCHANGED <<text, edits, events, work, pstop, rows, op, torn, fresh, held>>

\* _info asks nvim for the count of lines, for the cursor, and then for the lines
InfoCount(row) ==
  /\ poll.at = "counting" /\ ~Blocked /\ row < Len(text)
  /\ poll' = [at |-> "reading", count |-> Len(text), u |-> Window(Len(text), row)]
  /\ fresh' = TRUE
  /\ UNCHANGED <<text, edits, events, work, pstop, rows, op, torn, held>>

\* what is out of the buffer by now is an error of nvim
InfoLines ==
  /\ poll.at = "reading" /\ ~Blocked
  /\ poll' = IF poll.u.hi <= Len(text)
             THEN [at |-> "ready", count |-> poll.count,
                   u |-> [poll.u EXCEPT !.lines = SubSeq(text, poll.u.lo + 1, poll.u.hi)]]
             ELSE NoPoll
  /\ pstop' = (pstop /\ poll'.at = "ready")
  /\ UNCHANGED <<text, edits, events, work, rows, op, torn, fresh, held>>

\* whether or not an interrupt is on its way
PollSets ==
  /\ poll.at = "ready" /\ op = NoOp
  /\ poll' = NoPoll
  /\ pstop' = FALSE
  /\ Start("poll", "vacuum", poll.u, poll.count)
  /\ held' = {}
  /\ UNCHANGED <<text, edits, events, work, rows, torn, fresh>>

PollStopped ==
  /\ pstop
  /\ poll' = NoPoll
  /\ pstop' = FALSE
  /\ UNCHANGED <<text, edits, events, work, rows, op, torn, fresh, held>>

-----------------------------------------------------------------------------
Inputs == {Update(lo, hi, lines) :
             lo \in 0 .. MaxLen, hi \in 0 .. MaxLen,
             lines \in UNION {[1 .. n -> Lines] : n \in 0 .. MaxLen}}

Next ==
  \/ \E u \in Inputs : Edit(u)
  \/ Statement \/ Interrupt \/ LinesEvent
  \/ Cancelled \/ Work \/ Idle \/ InfoLines \/ PollSets \/ PollStopped
  \/ \E row \in 0 .. MaxLen - 1 : BufEnter(row) \/ InfoCount(row)

Spec == Init /\ [][Next]_vars

-----------------------------------------------------------------------------
\* the lines lo .. hi - 1 of a table replaced, and those that follow moved
Spliced(before, u) ==
  {r \in before : r.num < u.lo}
    \union {[r EXCEPT !.num = @ + Shift(u)] : r \in {s \in before : s.num >= u.hi}}
    \union {Row(u.lo + i - 1, u.lines[i]) : i \in DOMAIN u.lines}

\* the next statement fails on UNIQUE
Clashes ==
  \/ op.at = "shift_1" /\ Clash([r \in rows |-> Negated(op.u, r)])
  \/ op.at = "shift_2" /\ Clash([r \in rows |-> Restored(r)])
  \/ op.at = "insert" /\ \E i \in op.left, r \in rows : r.num = op.u.lo + i - 1

(* Two UPDATEs, the first through negative numbers, and inserts in a random order
   come to the same as replacing the lines in one step, whatever updates have been
   lost or aborted before, unless one was aborted between the two.             *)
UpdatesSplice == op.at = "count" /\ ~torn => rows = Spliced(op.before, op.u)

(* No statement fails on the uniqueness of the line numbers, unless an operation has
   been aborted between the halves of its shift: lost updates only leave gaps. *)
NoClash == ~torn => ~Clashes

(* A poll that reads while the buffer does not change, and is not aborted, leaves the
   lines of the window as they are in nvim, and none past the end of the buffer,
   whatever updates were lost or applied twice before.                         *)
PollRepairs ==
  held # {} /\ ~torn =>
    /\ \A n \in held : Row(n, text[n + 1]) \in rows
    /\ \A r, s \in rows : r.num = s.num => r = s
    /\ \A r \in rows : r.num \in 0 .. Len(text) - 1

(* An operation that ends, or is aborted, loses lines of its own range only: the others are
   where they were, or where they belong, or on their way.                     *)
OthersAreKept ==
  [][op # NoOp /\ op' = NoOp /\ ~torn =>
       \A r \in op.before : ~InRange(op.u, r) =>
         \E s \in rows' : /\ s.line = r.line
                          /\ s.num \in {r.num, r.num + Shift(op.u), -(r.num + Shift(op.u))}]_vars

=============================================================================
