-------------------------------- MODULE LspCache --------------------------------
(***************************************************************************)
(* coq/clients/lsp, coq/clients/inline and coq/clients/cache: the two tasks   *)
(* of a worker of language servers, on the loop of that worker.  _work        *)
(* serves one context: it offers what is cached and what the servers answer.  *)
(* _poll is woken when it ends, stores what it had, and asks again to fill     *)
(* the cache for the next keystroke.  A keystroke interrupts both.            *)
(*                                                                         *)
(* A context is its number; its row is what _use_cache compares.  An item is   *)
(* the context it was asked for and the request that brought it.  Of the       *)
(* requests of one name only the newest is answered (LspSession); the          *)
(* generators of those before it end.                                         *)
(*                                                                         *)
(* _local_cached.pre keeps the iterator of every complete answer.  A work goes *)
(* through the items of an answer in one turn of the loop, so that something    *)
(* is left in an iterator only if what is done with an item fails; that work is *)
(* over, and has the lock until its generator is finalized.                    *)
(***************************************************************************)
EXTENDS Integers, Sequences, FiniteSets

CONSTANTS
  LcRows,    \* what _use_cache tells apart: commit, buffer, row, word
  MaxLcCtx   \* bound: keystrokes

ASSUME LcAssumption == IsFiniteSet(LcRows) /\ MaxLcCtx \in Nat

VARIABLES
  lcInline,   \* the worker is that of inline completions: no database, no look at the lock
  lcRow,      \* the rows of the contexts that there have been
  lcStarted,  \* the context of the newest work
  lcWork,     \* _work
  lcPoll,     \* _poll
  lcCtx,      \* _cache_ctx, 0 at first
  lcCached,   \* _cached
  lcDb,       \* the keys in the table words
  lcPost,     \* _local_cached.post
  lcPre,      \* what is left in the iterators of _local_cached.pre
  lcReqs,     \* requests that there have been
  lcBegan,    \* history: the contexts whose work has begun
  lcOffered   \* what was offered for the newest work from the cache

lcVars == <<lcInline, lcRow, lcStarted, lcWork, lcPoll, lcCtx, lcCached, lcDb, lcPost, lcPre, lcReqs, lcBegan, lcOffered>>

Current == Len(lcRow)                         \* supervisor.current_context
NoTask == [at |-> "off", ctx |-> 0, req |-> 0]
LcItems == [ctx : 1 .. MaxLcCtx, req : 1 .. 4 * MaxLcCtx]

LcTypeOK ==
  /\ lcInline \in BOOLEAN /\ lcRow \in Seq(LcRows) /\ lcStarted \in 0 .. Current /\ lcCtx \in 0 .. Current
  /\ lcWork.at \in {"off", "lock", "ask", "stream", "over"}
  /\ lcPoll.at \in {"off", "woken", "left", "ask", "stream"}
  /\ lcCached \subseteq LcItems /\ lcDb \subseteq LcItems /\ lcPost \subseteq LcItems
  /\ lcPre \subseteq LcItems /\ lcOffered \subseteq LcItems

LcInit ==
  /\ lcInline \in BOOLEAN
  /\ lcRow = <<>> /\ lcStarted = 0 /\ lcWork = NoTask /\ lcPoll = NoTask
  /\ lcCtx = 0 /\ lcCached = {} /\ lcDb = {} /\ lcPost = {} /\ lcPre = {} /\ lcReqs = 0 /\ lcBegan = {} /\ lcOffered = {}

-----------------------------------------------------------------------------
(* CacheWorker.                                                               *)

UseCache(ctx) == lcCtx # 0 /\ lcRow[lcCtx] = lcRow[ctx] /\ lcCached # {}

\* set_cache; an interrupt makes the insertion fail as a whole, and what it was of is cached all the same
SetCache(items) ==
  /\ lcCached' = lcCached \union items
  /\ \E stored \in IF lcInline THEN {{}} ELSE {items, {}} : lcDb' = lcDb \union stored

\* Mutant: the iterators are not cleared with the cache
StoredAnyway(ctx) == lcPre

\* What a work goes on with: nothing, once the iterators are cleared
Stored(ctx) == IF UseCache(ctx) THEN lcPre ELSE {}

\* apply_cache, and what _work clears with it; the table is read or emptied later
ApplyCache(ctx) ==
  /\ lcCtx' = ctx
  /\ lcCached' = IF UseCache(ctx) THEN lcCached ELSE {}
  /\ lcPost' = (IF UseCache(ctx) THEN lcPost ELSE {}) \union Stored(ctx)

\* get: the rows that are selected, of which those that are cached; after a clear there are none
Selected == IF lcInline THEN lcCached ELSE lcDb \intersect lcCached

-----------------------------------------------------------------------------
(* The keystroke.                                                             *)

lcCache == <<lcCtx, lcCached, lcDb, lcPost, lcPre>>

\* Supervisor.collect: there is a new context
LcKeystroke(row) ==
  /\ Current < MaxLcCtx
  /\ lcRow' = Append(lcRow, row)
  /\ UNCHANGED <<lcInline, lcStarted, lcWork, lcPoll, lcCache, lcReqs, lcBegan, lcOffered>>

LcLocked == lcWork.at \in {"ask", "stream", "over"}

Woken(task) == IF task.at = "off" THEN [NoTask EXCEPT !.at = "woken"] ELSE task

\* Worker.supervised, _interrupt: the poll is cancelled, then the work before, whose end wakes the poll
LcSupervised ==
  /\ lcStarted < Current
  /\ lcStarted' = Current
  /\ LET poll == IF lcPoll.at \in {"left", "ask", "stream"} THEN NoTask ELSE lcPoll
     IN  lcPoll' = IF LcLocked THEN Woken(poll) ELSE poll
  /\ lcWork' = [at |-> "lock", ctx |-> Current, req |-> 0]
  /\ UNCHANGED <<lcInline, lcRow, lcCache, lcReqs, lcBegan, lcOffered>>

-----------------------------------------------------------------------------
(* _work, under _work_lock.                                                   *)

\* What is left in the iterators is offered first, and may fail again
LcBegin ==
  /\ lcWork.at = "lock"
  /\ ApplyCache(lcWork.ctx)
  /\ \E left \in {{}, Stored(lcWork.ctx)} :
       /\ lcPre' = left
       /\ lcWork' = [lcWork EXCEPT !.at = IF left = {} THEN "ask" ELSE "over"]
  /\ lcBegan' = lcBegan \union {lcWork.ctx} /\ lcOffered' = Stored(lcWork.ctx)
  /\ UNCHANGED <<lcInline, lcRow, lcStarted, lcPoll, lcDb, lcReqs>>

\* db: what is cached, or the table is emptied; then lsp, whose request supersedes those before it
LcAsk ==
  /\ lcWork.at = "ask"
  /\ lcOffered' = lcOffered \union Selected
  /\ lcDb' = IF lcCached = {} /\ ~lcInline THEN {} ELSE lcDb
  /\ lcReqs' = lcReqs + 1
  /\ lcWork' = [lcWork EXCEPT !.at = "stream", !.req = lcReqs']
  /\ UNCHANGED <<lcInline, lcRow, lcStarted, lcPoll, lcCtx, lcCached, lcPost, lcPre, lcBegan>>

\* a client answers: what is not in the cache is remembered for the poll
LcAnswer ==
  /\ lcWork.at = "stream" /\ lcWork.req = lcReqs
  /\ lcPost' = IF lcInline THEN lcPost ELSE lcPost \union {[ctx |-> lcWork.ctx, req |-> lcWork.req]}
  /\ UNCHANGED <<lcInline, lcRow, lcStarted, lcWork, lcPoll, lcCtx, lcCached, lcDb, lcPre, lcReqs, lcBegan, lcOffered>>

\* ... and an item of a complete answer fails: it is remembered, and what follows it is left
LcBreaks ==
  /\ lcWork.at = "stream" /\ lcWork.req = lcReqs /\ ~lcInline
  /\ LET item == [ctx |-> lcWork.ctx, req |-> lcWork.req]
     IN  lcPost' = lcPost \union {item} /\ lcPre' = {item}
  /\ lcWork' = [lcWork EXCEPT !.at = "over"]
  /\ UNCHANGED <<lcInline, lcRow, lcStarted, lcPoll, lcCtx, lcCached, lcDb, lcReqs, lcBegan, lcOffered>>

\* All clients have answered, the limit is reached, or a newer request has been made; or the generator
\* is finalized: notify_all.  A work does not both begin and end in the one turn that _poll yields.
LcEnd ==
  /\ lcWork.at \in {"stream", "over"} /\ lcPoll.at # "left"
  /\ lcWork' = NoTask /\ lcPoll' = Woken(lcPoll)
  /\ UNCHANGED <<lcInline, lcRow, lcStarted, lcCache, lcReqs, lcBegan, lcOffered>>

-----------------------------------------------------------------------------
(* _poll.                                                                     *)

\* cont: nothing while a work has the lock; else what the work has left is stored
LcPollBegins ==
  /\ lcPoll.at = "woken"
  /\ IF lcInline
     THEN lcPoll' = [lcPoll EXCEPT !.at = "ask"] /\ UNCHANGED <<lcCached, lcDb>>
     ELSE IF LcLocked
     THEN lcPoll' = NoTask /\ UNCHANGED <<lcCached, lcDb>>
     ELSE lcPoll' = [lcPoll EXCEPT !.at = IF lcPre = {} THEN "ask" ELSE "left"] /\ SetCache(lcPost)
  /\ UNCHANGED <<lcInline, lcRow, lcStarted, lcWork, lcCtx, lcPost, lcPre, lcReqs, lcBegan, lcOffered>>

\* after a turn of the loop: what is left in the iterators is stored, unless a work has the lock by now
LcPollContinues ==
  /\ lcPoll.at = "left"
  /\ lcPoll' = [lcPoll EXCEPT !.at = "ask"]
  /\ IF LcLocked THEN UNCHANGED <<lcCached, lcDb, lcPre>> ELSE SetCache(lcPre) /\ lcPre' = {}
  /\ UNCHANGED <<lcInline, lcRow, lcStarted, lcWork, lcCtx, lcPost, lcReqs, lcBegan, lcOffered>>

\* _request of the context that is the current one by now
LcPollAsks ==
  /\ lcPoll.at = "ask"
  /\ lcReqs' = lcReqs + 1
  /\ lcPoll' = [at |-> "stream", ctx |-> Current, req |-> lcReqs']
  /\ UNCHANGED <<lcInline, lcRow, lcStarted, lcWork, lcCache, lcBegan, lcOffered>>

\* a client answers; what comes while a work has the lock is thrown away
LcPollStores ==
  /\ lcPoll.at = "stream" /\ lcPoll.req = lcReqs
  /\ lcInline \/ ~LcLocked
  /\ SetCache({[ctx |-> lcPoll.ctx, req |-> lcPoll.req]})
  /\ UNCHANGED <<lcInline, lcRow, lcStarted, lcWork, lcPoll, lcCtx, lcPost, lcPre, lcReqs, lcBegan, lcOffered>>

LcPollEnds ==
  /\ lcPoll.at = "stream"
  /\ lcPoll' = NoTask
  /\ UNCHANGED <<lcInline, lcRow, lcStarted, lcWork, lcCache, lcReqs, lcBegan, lcOffered>>

LcNext ==
  \/ \E row \in LcRows : LcKeystroke(row)
  \/ LcSupervised \/ LcBegin \/ LcAsk \/ LcAnswer \/ LcBreaks \/ LcEnd
  \/ LcPollBegins \/ LcPollContinues \/ LcPollAsks \/ LcPollStores \/ LcPollEnds

LcSpec == LcInit /\ [][LcNext]_lcVars

-----------------------------------------------------------------------------

\* What is offered in the newest context from the cache, and from the iterators that older works
\* have left, was asked for in the same row: no answer to an older context enters the cache after it
\* was emptied, in whatever order works, polls, answers, failures and interrupts come
\* (worker.py:117,127,160,177, cache/worker.py:138).  It says nothing of
\* an answer for a context whose work never began: the poll asks in the newest context, before its
\* work, and a keystroke that goes back to the row before then finds the answer of that context.
OffersAreOfTheRow ==
  LcLocked /\ lcWork.ctx = Current => \A item \in lcOffered :
    item.ctx \in lcBegan => lcRow[item.ctx] = lcRow[lcWork.ctx]

=============================================================================
