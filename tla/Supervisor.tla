----------------------------- MODULE Supervisor -----------------------------
(***************************************************************************)
(* coq/shared/runtime.py: Supervisor.collect, Supervisor.interrupt and     *)
(* Worker.supervised.                                                      *)
(*                                                                         *)
(* A collect gathers the completions for one keystroke.  It runs on the    *)
(* main event loop; the tasks it hands to the workers run on a loop and a  *)
(* thread per worker.  A cancellation is asked for in one step and raised  *)
(* in a later one, so that a task goes on working in between.              *)
(***************************************************************************)
EXTENDS Integers, FiniteSets, Sequences, SequencesExt

CONSTANTS
  Workers,      \* the completion sources
  AlwaysWait,   \* those whose option always_wait is set
  MaxCollect,   \* bound: collects are numbered 1 .. MaxCollect
  MaxItems      \* bound: completions that one task can yield

ASSUME SupervisorAssumption ==
  /\ IsFiniteSet(Workers) /\ Workers # {}
  /\ AlwaysWait \subseteq Workers
  /\ MaxCollect \in Nat /\ MaxItems \in Nat

VARIABLES
  \* --- the main loop ---
  work_task,    \* Supervisor._work_task, 0 when None
  cpc,          \* where each collect is suspended
  prev,         \* the collect each one cancels first, 0 when None
  stop,         \* collects whose cancellation has been asked for
  pending,      \* tasks of each collect that wait() has left pending
  lockq,        \* collects that wait for the lock, in their order
  waiting,      \* how many always_wait tasks each collect still waits for
  acc,          \* completions in the deque of each collect, by worker
  \* --- the workers ---
  order,        \* the collects that have given every worker a task, in that order
  tpc,          \* where each task is suspended
  tstop,        \* tasks whose future has been cancelled
  \* --- the statistics (IDB), written on the main loop ---
  batches, instances, stats

main == <<work_task, cpc, prev, stop, lockq, pending, waiting, order>>
idb == <<batches, instances, stats>>
vars == <<work_task, cpc, prev, stop, lockq, pending, waiting, order,
          acc, tpc, tstop, batches, instances, stats>>

Collects == 1 .. MaxCollect
Tasks == Collects \X Workers

\* "first" is wait(timeout), "second" as_completed; both hold the lock
Collecting == {"first", "second", "stopping"}
Over == {"done", "failed", "cancelled"}
CollectPoints == {"none", "start", "cancelling", "locking"} \union Collecting \union Over

\* "begin" and "ending" await the reviewer on the main loop
TaskOver == {"returned", "cancelled"}
TaskPoints == {"none", "scheduled", "preempting", "begin", "begun", "working",
               "ending", "interrupted"} \union TaskOver

TypeOK ==
  /\ work_task \in Collects \union {0}
  /\ cpc \in [Collects -> CollectPoints]
  /\ prev \in [Collects -> Collects \union {0}]
  /\ stop \subseteq Collects
  /\ pending \in [Collects -> SUBSET Workers]
  /\ waiting \in [Collects -> 0 .. Cardinality(AlwaysWait)]
  /\ acc \in [Tasks -> 0 .. MaxItems]
  /\ order \in Seq(Collects)
  /\ lockq \in Seq(Collects)
  /\ tpc \in [Tasks -> TaskPoints]
  /\ tstop \subseteq Tasks
  /\ batches \subseteq Collects
  /\ instances \subseteq Tasks
  /\ stats \subseteq Tasks

Init ==
  /\ work_task = 0
  /\ cpc = [r \in Collects |-> "none"]
  /\ prev = [r \in Collects |-> 0]
  /\ stop = {}
  /\ pending = [r \in Collects |-> {}]
  /\ waiting = [r \in Collects |-> 0]
  /\ acc = [t \in Tasks |-> 0]
  /\ order = <<>>
  /\ lockq = <<>>
  /\ tpc = [t \in Tasks |-> "none"]
  /\ tstop = {}
  /\ batches = {} /\ instances = {} /\ stats = {}

-----------------------------------------------------------------------------
(* Futures.                                                                 *)

\* what Task.cancel and Future.cancel do: nothing to what is over
StopCollect(r) == IF cpc[r] \in Over THEN stop ELSE stop \union {r}
StopTasks(T) == tstop \union {t \in T : tpc[t] \notin TaskOver \union {"none"}}

\* the future that the main loop has of a task is done
Resolved(t) == t \in tstop \/ tpc[t] \in TaskOver
AnyResult(r) == \E w \in Workers : acc[<<r, w>>] > 0

\* the order in which the workers were given the tasks of two collects
Before(q, r) == \E i, j \in 1 .. Len(order) : i < j /\ order[i] = q /\ order[j] = r

-----------------------------------------------------------------------------
(* Supervisor.collect.                                                      *)

\* collect: create_task(cont(self._work_task))
Collect(r) ==
  /\ cpc[r] = "none"
  /\ \A q \in Collects : q < r => cpc[q] # "none"
  /\ cpc' = [cpc EXCEPT ![r] = "start"]
  /\ prev' = [prev EXCEPT ![r] = work_task]
  /\ work_task' = r
  /\ UNCHANGED <<stop, lockq, pending, waiting, order, acc, tpc, tstop, idb>>

\* Mutant: every source is waited for
HandOutWaitingAll(r) ==
  /\ cpc' = [cpc EXCEPT ![r] = "first"]
  /\ waiting' = [waiting EXCEPT ![r] = Cardinality(Workers)]
  /\ order' = Append(order, r)
  /\ tpc' = [t \in Tasks |-> IF t[1] = r THEN "scheduled" ELSE tpc[t]]
  /\ batches' = batches \union {r}

\* under the lock: reviewer.begin, and supervised for every worker; an error of the
\* database ends the collect
HandOut(r) ==
  \/ /\ cpc' = [cpc EXCEPT ![r] = "first"]
     /\ waiting' = [waiting EXCEPT ![r] = Cardinality(AlwaysWait)]
     /\ order' = Append(order, r)
     /\ tpc' = [t \in Tasks |-> IF t[1] = r THEN "scheduled" ELSE tpc[t]]
     /\ batches' = batches \union {r}
  \/ /\ cpc' = [cpc EXCEPT ![r] = "failed"]
     /\ UNCHANGED <<waiting, order, tpc, batches>>

LockHeld == \E r \in Collects : cpc[r] \in Collecting

\* async with self._lock: a free lock is taken without a suspension
Acquire(r) ==
  IF lockq = <<>> /\ ~LockHeld
  THEN HandOut(r) /\ UNCHANGED lockq
  ELSE /\ cpc' = [cpc EXCEPT ![r] = "locking"]
       /\ lockq' = Append(lockq, r)
       /\ UNCHANGED <<waiting, order, tpc, batches>>

\* the first step of cont, in the order the tasks were created
Begin(r) ==
  /\ cpc[r] = "start" /\ r \notin stop
  /\ \A q \in Collects : q < r => cpc[q] # "start"
  /\ IF prev[r] = 0
     THEN Acquire(r) /\ UNCHANGED stop
     ELSE /\ cpc' = [cpc EXCEPT ![r] = "cancelling"]
          /\ stop' = StopCollect(prev[r])
          /\ UNCHANGED <<lockq, waiting, order, tpc, batches>>
  /\ UNCHANGED <<work_task, prev, pending, acc, tstop, instances, stats>>

\* Mutant: cancel(prev) returns once the tasks of prev are over, too
PrevOverWithTasks(r) ==
  /\ cpc[r] = "cancelling" /\ r \notin stop
  /\ cpc[prev[r]] \in Over
  /\ \A w \in Workers : tpc[<<prev[r], w>>] \in TaskOver \union {"none"}
  /\ Acquire(r)
  /\ UNCHANGED <<work_task, prev, stop, pending, acc, tstop, instances, stats>>

\* cancel(prev) returns once prev is over
PrevOver(r) ==
  /\ cpc[r] = "cancelling" /\ r \notin stop
  /\ cpc[prev[r]] \in Over
  /\ Acquire(r)
  /\ UNCHANGED <<work_task, prev, stop, pending, acc, tstop, instances, stats>>

\* the lock goes to the head of its queue
Locked(r) ==
  /\ ~LockHeld /\ lockq # <<>> /\ r = Head(lockq) /\ cpc[r] = "locking" /\ r \notin stop
  /\ lockq' = Tail(lockq)
  /\ HandOut(r)
  /\ UNCHANGED <<work_task, prev, stop, pending, acc, tstop, instances, stats>>

\* cancel(*pending), on the way out of cont
Leave(r, left) ==
  /\ cpc' = [cpc EXCEPT ![r] = "stopping"]
  /\ tstop' = StopTasks({r} \X left)

\* Mutant: always_wait is forgotten
FirstReturnsHasty(r) ==
  LET left == {w \in Workers : ~Resolved(<<r, w>>)}
  IN /\ cpc[r] = "first" /\ r \notin stop
     /\ pending' = [pending EXCEPT ![r] = left]
     /\ IF left # {} /\ ~AnyResult(r)
        THEN cpc' = [cpc EXCEPT ![r] = "second"] /\ UNCHANGED tstop
        ELSE Leave(r, left)
     /\ UNCHANGED <<work_task, prev, stop, waiting, lockq, order, acc, tpc, idb>>

\* wait() returns when every future is done, or at any time when it times out
FirstReturns(r) ==
  LET left == {w \in Workers : ~Resolved(<<r, w>>)}
  IN /\ cpc[r] = "first" /\ r \notin stop
     /\ pending' = [pending EXCEPT ![r] = left]
     /\ waiting' = [waiting EXCEPT ![r] = @ - Cardinality(AlwaysWait \ left)]
     /\ IF left # {} /\ (~AnyResult(r) \/ waiting'[r] # 0)
        THEN cpc' = [cpc EXCEPT ![r] = "second"] /\ UNCHANGED tstop
        ELSE Leave(r, left)
     /\ UNCHANGED <<work_task, prev, stop, lockq, order, acc, tpc, idb>>

\* as_completed yields wrappers that are no keys of tasks: waiting stays as it is
SecondYields(r, w) ==
  /\ cpc[r] = "second" /\ r \notin stop
  /\ w \in pending[r] /\ Resolved(<<r, w>>)
  /\ pending' = [pending EXCEPT ![r] = @ \ {w}]
  /\ IF pending'[r] = {} \/ (AnyResult(r) /\ waiting[r] = 0)
     THEN Leave(r, pending'[r])
     ELSE UNCHANGED <<cpc, tstop>>
  /\ UNCHANGED <<work_task, prev, stop, waiting, lockq, order, acc, tpc, idb>>

\* the lock is released and the deque returned
Return(r) ==
  /\ cpc[r] = "stopping" /\ r \notin stop
  /\ cpc' = [cpc EXCEPT ![r] = "done"]
  /\ UNCHANGED <<work_task, prev, stop, lockq, pending, waiting, order, acc, tpc, tstop, idb>>

\* CancelledError: the tasks handed out are left to themselves
Cancelled(r) ==
  /\ r \in stop /\ cpc[r] \notin Over
  /\ cpc' = [cpc EXCEPT ![r] = "cancelled"]
  /\ \/ r \notin ToSet(lockq) /\ UNCHANGED lockq
     \/ \E i \in DOMAIN lockq : lockq[i] = r /\ lockq' = RemoveAt(lockq, i)
  /\ UNCHANGED <<work_task, prev, stop, pending, waiting, order, acc, tpc, tstop, idb>>

\* interrupt, on every change of the buffer
Interrupt ==
  /\ work_task # 0
  /\ work_task' = 0
  /\ stop' = StopCollect(work_task)
  /\ UNCHANGED <<cpc, prev, lockq, pending, waiting, order, acc, tpc, tstop, idb>>

\* the coroutine that awaits the collect is cancelled (_die in _lines_event)
Abandon(r) ==
  /\ cpc[r] \notin Over \union {"none"}
  /\ stop' = stop \union {r}
  /\ UNCHANGED <<work_task, cpc, prev, lockq, pending, waiting, order, acc, tpc, tstop, idb>>

-----------------------------------------------------------------------------
(* Worker.supervised, for the task t of a collect and a worker.             *)

At(t, p) == tpc' = [tpc EXCEPT ![t] = p]

\* Mutant: the previous task is left alone
PreemptNone(t) ==
  /\ tpc[t] = "scheduled"
  /\ At(t, "begin")
  /\ UNCHANGED <<main, acc, tstop, idb>>

\* the first step, in the order run_coroutine_threadsafe was called; it precedes
\* the cancellation of t itself, and cancels the task given to the worker before
Preempt(t) ==
  /\ tpc[t] = "scheduled"
  /\ \A q \in Collects : Before(q, t[1]) => tpc[<<q, t[2]>>] # "scheduled"
  /\ IF t[1] = Head(order)
     THEN At(t, "begin") /\ UNCHANGED tstop
     ELSE /\ At(t, "preempting")
          /\ \E i \in 1 .. Len(order) - 1 :
               t[1] = order[i + 1] /\ tstop' = StopTasks({<<order[i], t[2]>>})
  /\ UNCHANGED <<main, acc, idb>>

\* cancel(wrap_future(prev)) does not wait for the task behind prev
Preempted(t) ==
  /\ tpc[t] = "preempting" /\ t \notin tstop
  /\ At(t, "begin")
  /\ UNCHANGED <<main, acc, tstop, idb>>

\* s_begin: new_instance, whose error ends the task before it has an s_end to run
NewInstance(t) ==
  /\ tpc[t] = "begin" /\ t \notin tstop
  /\ \/ At(t, "begun") /\ instances' = instances \union {t}
     \/ At(t, "returned") /\ UNCHANGED instances
  /\ UNCHANGED <<main, acc, tstop, batches, stats>>

\* async with self._work_lock, with which the _work of every client begins
Work(t) ==
  /\ tpc[t] = "begun" /\ t \notin tstop
  /\ \A q \in Collects : tpc[<<q, t[2]>>] # "working"
  /\ At(t, "working")
  /\ UNCHANGED <<main, acc, tstop, idb>>

\* acc.append, whether or not somebody has cancelled t
Yield(t) ==
  /\ tpc[t] = "working" /\ acc[t] < MaxItems
  /\ acc' = [acc EXCEPT ![t] = @ + 1]
  /\ UNCHANGED <<main, tpc, tstop, idb>>

\* _work is exhausted, or has raised
Finish(t) ==
  /\ tpc[t] = "working"
  /\ At(t, "ending")
  /\ UNCHANGED <<main, acc, tstop, idb>>

\* s_end: new_stat, whose error is logged, and takes the place of a CancelledError
NewStat(t) ==
  /\ \/ tpc[t] = "ending" /\ t \notin tstop /\ At(t, "returned") /\ stats' \in {stats, stats \union {t}}
     \/ tpc[t] = "interrupted" /\ At(t, "cancelled") /\ stats' = stats \union {t}
     \/ tpc[t] = "interrupted" /\ At(t, "returned") /\ UNCHANGED stats
  /\ UNCHANGED <<main, acc, tstop, batches, instances>>

\* Mutant: s_end is due from the first step on
RaiseEarly(t) ==
  /\ t \in tstop
  /\ tpc[t] \in {"preempting", "begin", "begun", "working"}
  /\ At(t, "interrupted")
  /\ UNCHANGED <<main, acc, tstop, idb>>

\* CancelledError: s_end is due from "begun" on; the main loop may or may not have
\* run what t was awaiting there
Raise(t) ==
  /\ t \in tstop
  /\ \/ /\ tpc[t] = "preempting"
        /\ At(t, "cancelled") /\ UNCHANGED <<instances, stats>>
     \/ /\ tpc[t] = "begin"
        /\ instances' \in {instances, instances \union {t}}
        /\ At(t, "cancelled") /\ UNCHANGED stats
     \/ /\ tpc[t] \in {"begun", "working"}
        /\ At(t, "interrupted") /\ UNCHANGED <<instances, stats>>
     \/ /\ tpc[t] = "ending"
        /\ stats' \in {stats, stats \union {t}}
        /\ At(t, "cancelled") /\ UNCHANGED instances
  /\ UNCHANGED <<main, acc, tstop, batches>>

-----------------------------------------------------------------------------
MainStep(r) ==
  \/ Begin(r) \/ PrevOver(r) \/ Locked(r) \/ FirstReturns(r) \/ Return(r) \/ Cancelled(r)
  \/ \E w \in Workers : SecondYields(r, w)

\* every step of a task that neither needs its source nor its cancellation
TaskStep(t) == Preempt(t) \/ Preempted(t) \/ NewInstance(t) \/ Work(t) \/ NewStat(t) \/ Raise(t)

Next ==
  \/ \E r \in Collects : Collect(r) \/ MainStep(r) \/ Abandon(r)
  \/ Interrupt
  \/ \E t \in Tasks : TaskStep(t) \/ Yield(t) \/ Finish(t)

Spec == Init /\ [][Next]_vars

\* Every loop runs what is ready.  A source may take forever to finish: a language
\* server need not answer.
Fairness ==
  /\ \A r \in Collects : WF_vars(MainStep(r))
  /\ \A t \in Tasks : WF_vars(TaskStep(t))

-----------------------------------------------------------------------------
(* docs/PERF.md: "before any new tasks can be scheduled, all previous tasks must
   be interrupted".  A task of a worker begins its work only when every earlier
   task of that worker is over or has had its future cancelled, although each one
   cancels only its predecessor and may be cancelled itself at any point.      *)
PreviousInterrupted ==
  \A t \in Tasks, q \in Collects :
    tpc[t] \in {"begun", "working"} /\ Before(q, t[1]) =>
      <<q, t[2]>> \in tstop \/ tpc[<<q, t[2]>>] \in TaskOver

(* docs/PERF.md, the deadline optimization: a collect that returns has results,
   or the task of every source has run to its end, by an error or without.     *)
SomethingOrAll ==
  \A r \in Collects : cpc[r] = "done" =>
    AnyResult(r) \/ \A w \in Workers : tpc[<<r, w>>] = "returned"

(* A collect that returns has heard out every source with always_wait.         *)
AlwaysWaited ==
  \A r \in Collects : cpc[r] = "done" =>
    \A w \in AlwaysWait : tpc[<<r, w>>] = "returned"

(* Both: a collect that returns has heard enough.                               *)
HeardEnough == SomethingOrAll /\ AlwaysWaited

(* The rows of the statistics refer to rows that are there (REFERENCES in
   insertions/sql): s_end never comes without s_begin, nor s_begin without begin. *)
RowsExist ==
  /\ stats \subseteq instances
  /\ \A t \in instances : t[1] \in batches

(* Everyone gets a turn, sources that never answer included.  Collects are bounded,
   so that they come to rest.  Then no collect is kept from the lock, unless one
   before it is left gathering: interrupt() forgets the newest collect
   (runtime.py:123), and the next has nobody to cancel, so that those further back
   must have been cancelled by then, wherever the forgotten one had got to.  And no
   task is kept from its source, by the lock of the worker or otherwise.       *)
LeftGathering(r) == \E q \in Collects : q < r /\ cpc[q] = "second" /\ q \notin stop

TurnsCome ==
  <>[](/\ \A r \in Collects : cpc[r] \in {"none"} \union Collecting \union Over \/ LeftGathering(r)
       /\ \A t \in Tasks : tpc[t] \in {"none", "working"} \union TaskOver)

-----------------------------------------------------------------------------
(* What docs/PERF.md says, and the code does not do.                          *)

(* "other completion sources will be shown after a timeout": past its timeout, a
   collect that has results does not wait for more when the sources that it must
   always wait for have all been heard.                                        *)
TimeoutIsKept ==
  \A r \in Collects : cpc[r] = "second" =>
    \/ \A w \in Workers \ pending[r] : acc[<<r, w>>] = 0
    \/ pending[r] \intersect AlwaysWait # {}
=============================================================================
