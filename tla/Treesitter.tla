----------------------------- MODULE Treesitter -----------------------------
(***************************************************************************)
(* coq/treesitter/request.py, lua/coq/ts-request.lua and                   *)
(* coq/clients/tree_sitter: words from the syntax tree about the cursor.    *)
(*                                                                         *)
(* When nvim is idle, the poll counts the lines of the buffers and asks for  *)
(* the nodes about the cursor at the same time, stores the nodes, and then   *)
(* clears what lies behind the end of a buffer.  A keystroke cancels the     *)
(* poll where it awaits and aborts the statement that runs.  What insert     *)
(* mode starts is nothing: the coroutine of _insert_enter, which would       *)
(* tell a slow buffer, is started from within itself.                      *)
(*                                                                         *)
(* A buffer is the word of each of its lines, from 0.                      *)
(***************************************************************************)
EXTENDS Integers, Sequences, FiniteSets

CONSTANTS
  TsBufs,     \* buffers
  TsNames,    \* words
  TsTexts,    \* bound: what a buffer can be
  MaxTsUid    \* bound: requests

ASSUME TsAssumption ==
  IsFiniteSet(TsBufs) /\ TsTexts \subseteq Seq(TsNames) \ {<<>>} /\ MaxTsUid \in Nat

VARIABLES
  tsText,     \* the buffers that are open
  tsHere,     \* the one that nvim is in
  tsAsked,    \* requests that vim.schedule has put off
  tsReplies,  \* to _ts_notify
  tsCell,     \* _CELL
  tsPoll,     \* the poll: its request, and the lines it has counted
  tsUid,      \* _UIDS
  tsRows,     \* the words of the database, with their lines, and the buffers that it has
  tsStill     \* history: nvim is as the poll has begun to see it

tsVars == <<tsText, tsHere, tsAsked, tsReplies, tsCell, tsPoll, tsUid, tsRows, tsStill>>

NoPayload == [buf |-> "none", lo |-> 0, hi |-> 0, nodes |-> {}]
NoCounts == [b \in {} |-> 0]
NoTsPoll == [at |-> "idle", uid |-> 0, load |-> "none", counts |-> NoCounts, counted |-> FALSE]
TsStatements == {"delete", "insert", "buffers", "words"}

TsNodes == TsNames \X Nat

TsTypeOK ==
  /\ DOMAIN tsText \subseteq TsBufs /\ \A b \in DOMAIN tsText : tsText[b] \in TsTexts
  /\ tsHere \in DOMAIN tsText
  /\ tsPoll.at \in {"idle", "request", "vacuum"} \union TsStatements
  /\ tsUid \in 0 .. MaxTsUid /\ tsCell.uid <= tsUid
  /\ DOMAIN tsRows \subseteq TsBufs
  /\ \A b \in DOMAIN tsRows :
       /\ tsRows[b] \subseteq TsNodes
       /\ \A v, w \in tsRows[b] : v[1] = w[1] => v = w
  /\ tsStill \in BOOLEAN

TsInit ==
  /\ \E b \in TsBufs : tsHere = b /\ tsText \in [{b} -> TsTexts]
  /\ tsAsked = <<>> /\ tsReplies = <<>>
  /\ tsCell = [uid |-> 0, done |-> TRUE, load |-> NoPayload]
  /\ tsPoll = NoTsPoll /\ tsUid = 0
  /\ tsRows = [b \in {} |-> {}]
  /\ tsStill = FALSE

-----------------------------------------------------------------------------
(* nvim.                                                                      *)

tsServer == <<tsAsked, tsReplies, tsCell, tsPoll, tsUid, tsRows>>

\* a change of a buffer, which may open it
TsEdit(b, t) ==
  /\ tsText' = [c \in DOMAIN tsText \union {b} |-> IF c = b THEN t ELSE tsText[c]]
  /\ tsText' # tsText
  /\ tsHere' = b /\ tsStill' = FALSE
  /\ UNCHANGED tsServer

TsClose(b) ==
  /\ b # tsHere /\ b \in DOMAIN tsText
  /\ tsText' = [c \in DOMAIN tsText \ {b} |-> tsText[c]]
  /\ tsStill' = FALSE
  /\ UNCHANGED <<tsHere, tsServer>>

Nodes(t, lo, hi) == {<<t[n + 1], n>> : n \in {m \in 0 .. Len(t) - 1 : lo <= m /\ m < hi}}

\* COQ.ts_req: the lines about the cursor; without a parser there are no nodes
TsParse ==
  /\ tsAsked # <<>>
  /\ tsAsked' = Tail(tsAsked)
  /\ \E lo \in 0 .. Len(tsText[tsHere]) - 1, hi \in 1 .. Len(tsText[tsHere]) :
       /\ lo < hi
       /\ tsReplies' = Append(tsReplies,
            [uid |-> Head(tsAsked),
             load |-> [buf |-> tsHere, lo |-> lo, hi |-> hi,
                       nodes |-> Nodes(tsText[tsHere], lo, hi)]])
  /\ UNCHANGED <<tsText, tsHere, tsCell, tsPoll, tsUid, tsRows, tsStill>>

\* a query that raises has no reply
TsRaise ==
  /\ tsAsked # <<>>
  /\ tsAsked' = Tail(tsAsked)
  /\ UNCHANGED <<tsText, tsHere, tsReplies, tsCell, tsPoll, tsUid, tsRows, tsStill>>

-----------------------------------------------------------------------------
(* The request.                                                               *)

tsNvim == <<tsText, tsHere>>

TsNotify ==
  /\ tsReplies # <<>>
  /\ tsReplies' = Tail(tsReplies)
  /\ LET r == Head(tsReplies) IN
       tsCell' = IF r.uid >= tsCell.uid THEN [uid |-> r.uid, done |-> TRUE, load |-> r.load] ELSE tsCell
  /\ UNCHANGED <<tsNvim, tsAsked, tsPoll, tsUid, tsRows, tsStill>>

\* async_request, in the hands of the poll alone
TsRequest ==
  /\ tsPoll.at = "idle" /\ tsUid < MaxTsUid
  /\ tsUid' = tsUid + 1
  /\ tsCell' = [uid |-> tsUid', done |-> FALSE, load |-> NoPayload]
  /\ tsAsked' = Append(tsAsked, tsUid')
  /\ tsPoll' = [NoTsPoll EXCEPT !.at = "request", !.uid = tsUid']
  /\ tsStill' = TRUE
  /\ UNCHANGED <<tsNvim, tsReplies, tsRows>>

-----------------------------------------------------------------------------
(* The poll.                                                                  *)

tsRequests == <<tsNvim, tsAsked, tsReplies, tsCell, tsUid, tsStill>>

\* _bufs, which is nothing when nvim fails
TsCount ==
  /\ tsPoll.at \in {"request", "vacuum"} /\ ~tsPoll.counted
  /\ \E counts \in {[b \in DOMAIN tsText |-> Len(tsText[b])], NoCounts} :
       tsPoll' = [tsPoll EXCEPT !.counted = TRUE, !.counts = counts]
  /\ UNCHANGED <<tsRequests, tsRows>>

\* populate: the buffer is ensured
TsPopulate ==
  /\ tsPoll.at = "request" /\ tsCell.uid = tsPoll.uid /\ tsCell.done
  /\ tsPoll' = [tsPoll EXCEPT !.at = "delete"]
  /\ LET b == tsCell.load.buf IN
       tsRows' = [c \in DOMAIN tsRows \union {b} |-> IF c \in DOMAIN tsRows THEN tsRows[c] ELSE {}]
  /\ UNCHANGED tsRequests

Overlaps(w, lo, hi) == w[2] >= lo /\ (hi >= 0 => w[2] < hi)
Cut(rows, b, lo, hi) == [rows EXCEPT ![b] = {w \in @ : ~Overlaps(w, lo, hi)}]

TsDelete ==
  /\ tsPoll.at = "delete"
  /\ tsRows' = Cut(tsRows, tsCell.load.buf, tsCell.load.lo, tsCell.load.hi)
  /\ tsPoll' = [tsPoll EXCEPT !.at = "insert"]
  /\ UNCHANGED tsRequests

\* INSERT OR IGNORE: a word that is stored at another line stays there; a word that is twice
\* among the nodes is stored where it comes first
Inserted(rows, nodes) ==
  rows \union {w \in nodes : (\A v \in rows : v[1] # w[1]) /\ (\A v \in nodes : v[1] = w[1] => v[2] >= w[2])}

TsInsert ==
  /\ tsPoll.at = "insert"
  /\ tsRows' = [tsRows EXCEPT ![tsCell.load.buf] = Inserted(@, tsCell.load.nodes)]
  /\ tsPoll' = [tsPoll EXCEPT !.at = "vacuum"]
  /\ UNCHANGED tsRequests

TsVacuum ==
  /\ tsPoll.at = "vacuum" /\ tsPoll.counted
  /\ tsPoll' = IF tsPoll.counts = NoCounts THEN NoTsPoll ELSE [tsPoll EXCEPT !.at = "buffers"]
  /\ UNCHANGED <<tsRequests, tsRows>>

DropBuffers(dead) == [b \in DOMAIN tsRows \ dead |-> tsRows[b]]

TsVacuumBuffers ==
  /\ tsPoll.at = "buffers"
  /\ tsRows' = DropBuffers(DOMAIN tsRows \ DOMAIN tsPoll.counts)
  /\ tsPoll' = [tsPoll EXCEPT !.at = "words"]
  /\ UNCHANGED tsRequests

\* Mutant: the line after the last one is left
TsVacuumWordsOneLess ==
  /\ tsPoll.at = "words"
  /\ tsRows' = [b \in DOMAIN tsRows |->
                  {w \in tsRows[b] : ~Overlaps(w, tsPoll.counts[b] + 1, -1)}]
  /\ tsPoll' = [NoTsPoll EXCEPT !.load = "swept"]
  /\ UNCHANGED tsRequests

TsVacuumWords ==
  /\ tsPoll.at = "words"
  /\ tsRows' = [b \in DOMAIN tsRows |-> {w \in tsRows[b] : ~Overlaps(w, tsPoll.counts[b], -1)}]
  /\ tsPoll' = [NoTsPoll EXCEPT !.load = "swept"]
  /\ UNCHANGED tsRequests

\* a keystroke
TsCancel ==
  /\ tsPoll.at \in {"request", "vacuum"}
  /\ tsPoll' = NoTsPoll
  /\ UNCHANGED <<tsRequests, tsRows>>

\* an aborted populate goes on to the vacuum, an aborted vacuum is over
TsAbort ==
  /\ tsPoll.at \in TsStatements
  /\ tsPoll' = IF tsPoll.at \in {"delete", "insert"} THEN [tsPoll EXCEPT !.at = "vacuum"] ELSE NoTsPoll
  /\ \/ tsPoll.at \in {"delete", "words"} /\ UNCHANGED tsRows
     \/ /\ tsPoll.at = "insert"
        /\ \E some \in SUBSET tsCell.load.nodes :
             tsRows' = [tsRows EXCEPT ![tsCell.load.buf] = Inserted(@, some)]
     \/ /\ tsPoll.at = "buffers"
        /\ \E dead \in SUBSET (DOMAIN tsRows \ DOMAIN tsPoll.counts) : tsRows' = DropBuffers(dead)
  /\ UNCHANGED tsRequests

-----------------------------------------------------------------------------

TsBuf(b) == TsClose(b) \/ \E t \in TsTexts : TsEdit(b, t)

TsNext ==
  \/ \E b \in TsBufs : TsBuf(b)
  \/ TsParse \/ TsRaise \/ TsNotify \/ TsRequest \/ TsCount \/ TsPopulate \/ TsDelete \/ TsInsert
  \/ TsVacuum \/ TsVacuumBuffers \/ TsVacuumWords \/ TsCancel \/ TsAbort

TsSpec == TsInit /\ [][TsNext]_tsVars

-----------------------------------------------------------------------------

\* After a poll that has run to its end, and as long as nvim has not changed since it began, the
\* database has no buffer that is closed and no word behind the end of one: whatever replies of
\* cancelled requests and aborted statements came before (request.py:73, database.py:43-54).
NoGhosts ==
  tsPoll.load = "swept" /\ tsStill =>
    \A b \in DOMAIN tsRows : b \in DOMAIN tsText /\ \A w \in tsRows[b] : w[2] < Len(tsText[b])

=============================================================================
