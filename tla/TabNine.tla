-------------------------------- MODULE TabNine --------------------------------
(***************************************************************************)
(* coq/clients/t9: the process of TabNine, its installation, and the         *)
(* requests of the keystrokes, one line each, which it answers in turn.      *)
(*                                                                         *)
(* What talks to the process is shielded from the cancellation of the work   *)
(* that has started it, and holds _lock until it has its reply; the next      *)
(* work does without.  A work for another directory kills the process, and    *)
(* does not take the lock for that.                                          *)
(***************************************************************************)
EXTENDS Integers, Sequences, FiniteSets

CONSTANTS
  T9Dirs,       \* working directories
  MaxT9Procs,   \* bound: processes
  MaxT9Reqs     \* bound: requests

ASSUME T9Assumption == IsFiniteSet(T9Dirs) /\ MaxT9Procs \in Nat /\ MaxT9Reqs \in Nat

VARIABLES
  t9Disk,     \* what is in vars_dir: a temporary directory, the binary, versions.lock
  t9Setup,    \* _install
  t9Bin,      \* _bin is set
  t9Proc,     \* _proc, 0 without one
  t9Cwd,      \* _cwd
  t9Procs,    \* the processes that there have been: directory, requests unread, replies unread
  t9Comm,     \* _comm.cont, which has _lock
  t9Work,     \* _work: the request it waits for, 0 without one
  t9Skip,     \* _t9_locked
  t9Reqs      \* _count

t9Vars == <<t9Disk, t9Setup, t9Bin, t9Proc, t9Cwd, t9Procs, t9Comm, t9Work, t9Skip, t9Reqs>>

NoComm == [at |-> "free", id |-> 0, dir |-> "none", proc |-> 0]

T9TypeOK ==
  /\ t9Disk \subseteq {"tmp", "bin", "lock"} /\ t9Setup \in {"begin", "fetch", "move", "lock", "done"}
  /\ t9Bin \in BOOLEAN /\ t9Skip \in BOOLEAN
  /\ t9Proc \in 0 .. Len(t9Procs) /\ Len(t9Procs) <= MaxT9Procs
  /\ t9Comm.at \in {"free", "spawn", "write", "read"}
  /\ t9Work \in 0 .. t9Reqs /\ t9Reqs <= MaxT9Reqs

T9Init ==
  /\ t9Disk = {} /\ t9Setup = "begin" /\ t9Bin = FALSE
  /\ t9Proc = 0 /\ t9Cwd = "none" /\ t9Procs = <<>> /\ t9Comm = NoComm
  /\ t9Work = 0 /\ t9Skip = FALSE /\ t9Reqs = 0

-----------------------------------------------------------------------------
(* The installation.                                                          *)

t9Talk == <<t9Proc, t9Cwd, t9Procs, t9Comm, t9Work, t9Skip, t9Reqs>>

\* x_ok: there is something, all of which can be executed, as can a directory
XOk == t9Disk # {}

T9Install ==
  /\ t9Setup = "begin"
  /\ IF XOk THEN t9Setup' = "done" /\ t9Bin' = TRUE ELSE t9Setup' = "fetch" /\ UNCHANGED t9Bin
  /\ UNCHANGED <<t9Disk, t9Talk>>

\* _update: the archive is extracted aside, its files are moved, and the lock is written last
T9Extract ==
  /\ t9Setup = "fetch"
  /\ t9Setup' = "move" /\ t9Disk' = t9Disk \union {"tmp"}
  /\ UNCHANGED <<t9Bin, t9Talk>>

T9Move ==
  /\ t9Setup = "move"
  /\ t9Setup' = "lock" /\ t9Disk' = t9Disk \union {"bin"}
  /\ UNCHANGED <<t9Bin, t9Talk>>

T9Lock ==
  /\ t9Setup = "lock"
  /\ t9Setup' = "done" /\ t9Bin' = TRUE /\ t9Disk' = (t9Disk \ {"tmp"}) \union {"lock"}
  /\ UNCHANGED <<t9Talk>>

\* all retries fail
T9Fails ==
  /\ t9Setup = "fetch"
  /\ t9Setup' = "done"
  /\ UNCHANGED <<t9Disk, t9Bin, t9Talk>>

\* nvim dies, and is started again
T9Die ==
  /\ t9Setup \in {"fetch", "move", "lock"}
  /\ t9Setup' = "begin"
  /\ UNCHANGED <<t9Disk, t9Bin, t9Talk>>

-----------------------------------------------------------------------------
(* A work.                                                                    *)

t9Installed == <<t9Disk, t9Setup, t9Bin>>

\* _clean
Killed(procs) == IF t9Proc = 0 THEN procs ELSE [procs EXCEPT ![t9Proc].alive = FALSE]

\* the work before it has been cancelled; it skips its turn, or asks if the lock is free
T9Ask(dir) ==
  /\ t9Reqs < MaxT9Reqs
  /\ t9Reqs' = t9Reqs + 1
  /\ IF t9Skip
     THEN t9Skip' = FALSE /\ t9Work' = 0 /\ UNCHANGED <<t9Proc, t9Procs, t9Comm>>
     ELSE /\ UNCHANGED t9Skip
          /\ IF t9Cwd # dir THEN t9Proc' = 0 /\ t9Procs' = Killed(t9Procs) ELSE UNCHANGED <<t9Proc, t9Procs>>
          /\ IF t9Bin /\ t9Comm.at = "free"
             THEN t9Work' = t9Reqs' /\ t9Comm' = [at |-> "spawn", id |-> t9Reqs', dir |-> dir, proc |-> 0]
             ELSE t9Work' = 0 /\ UNCHANGED t9Comm
  /\ UNCHANGED <<t9Installed, t9Cwd>>

\* Mutant: what talks to the process is cancelled with the work
T9CancelAll ==
  /\ t9Work # 0
  /\ t9Work' = 0 /\ t9Comm' = NoComm
  /\ UNCHANGED <<t9Installed, t9Proc, t9Cwd, t9Procs, t9Skip, t9Reqs>>

\* the deadline, or the next keystroke
T9Cancel ==
  /\ t9Work # 0
  /\ t9Work' = 0
  /\ UNCHANGED <<t9Installed, t9Proc, t9Cwd, t9Procs, t9Comm, t9Skip, t9Reqs>>

-----------------------------------------------------------------------------
(* _comm.cont.                                                                *)

\* the lock is let go, and the work, if it is there, goes on without a reply
Release == t9Comm' = NoComm /\ t9Work' = 0

\* a process is started if there is none, which can fail
T9Spawn ==
  /\ t9Comm.at = "spawn"
  /\ IF t9Proc # 0
     THEN /\ t9Comm' = [t9Comm EXCEPT !.at = "write", !.proc = t9Proc]
          /\ UNCHANGED <<t9Proc, t9Cwd, t9Procs, t9Work>>
     ELSE \/ /\ Len(t9Procs) < MaxT9Procs
             /\ t9Procs' = Append(t9Procs, [dir |-> t9Comm.dir, alive |-> TRUE, ins |-> <<>>, outs |-> <<>>])
             /\ t9Proc' = Len(t9Procs') /\ t9Cwd' = t9Comm.dir
             /\ t9Comm' = [t9Comm EXCEPT !.at = "write", !.proc = Len(t9Procs')]
             /\ UNCHANGED t9Work
          \/ Release /\ UNCHANGED <<t9Proc, t9Cwd, t9Procs>>
  /\ UNCHANGED <<t9Installed, t9Skip, t9Reqs>>

\* the end of a process that the work has killed, or that has died: an error is cleaned up after,
\* but for that of a process that is no longer _proc
T9Broken ==
  /\ t9Comm.at \in {"write", "read"} /\ ~t9Procs[t9Comm.proc].alive
  /\ Release /\ t9Proc' = 0 /\ t9Procs' = Killed(t9Procs)
  /\ UNCHANGED <<t9Installed, t9Cwd, t9Skip, t9Reqs>>

T9Write ==
  /\ t9Comm.at = "write" /\ t9Procs[t9Comm.proc].alive
  /\ t9Procs' = [t9Procs EXCEPT ![t9Comm.proc].ins = Append(@, t9Comm.id)]
  /\ t9Comm' = [t9Comm EXCEPT !.at = "read"]
  /\ UNCHANGED <<t9Installed, t9Proc, t9Cwd, t9Work, t9Skip, t9Reqs>>

\* the reply, which may be that there will be none for a while
T9Read ==
  /\ t9Comm.at = "read" /\ t9Procs[t9Comm.proc].outs # <<>>
  /\ t9Procs' = [t9Procs EXCEPT ![t9Comm.proc].outs = Tail(@)]
  /\ t9Skip' \in IF t9Work = t9Comm.id THEN BOOLEAN ELSE {t9Skip}
  /\ Release
  /\ UNCHANGED <<t9Installed, t9Proc, t9Cwd, t9Reqs>>

-----------------------------------------------------------------------------
(* TabNine.                                                                   *)

T9Answer(p) ==
  /\ t9Procs[p].alive /\ t9Procs[p].ins # <<>>
  /\ t9Procs' = [t9Procs EXCEPT ![p].ins = Tail(@), ![p].outs = Append(@, Head(t9Procs[p].ins))]
  /\ UNCHANGED <<t9Installed, t9Proc, t9Cwd, t9Comm, t9Work, t9Skip, t9Reqs>>

T9Exit(p) ==
  /\ t9Procs[p].alive
  /\ t9Procs' = [t9Procs EXCEPT ![p].alive = FALSE]
  /\ UNCHANGED <<t9Installed, t9Proc, t9Cwd, t9Comm, t9Work, t9Skip, t9Reqs>>

T9Process(p) == T9Answer(p) \/ T9Exit(p)

T9Next ==
  \/ T9Install \/ T9Extract \/ T9Move \/ T9Lock \/ T9Fails \/ T9Die
  \/ \E dir \in T9Dirs : T9Ask(dir)
  \/ T9Cancel \/ T9Spawn \/ T9Broken \/ T9Write \/ T9Read
  \/ \E p \in 1 .. Len(t9Procs) : T9Process(p)

T9Spec == T9Init /\ [][T9Next]_t9Vars

-----------------------------------------------------------------------------

\* What is read is the reply to the request that has been written, of a process in the directory
\* of its context, whatever has been cancelled, killed or started in between; and no process is
\* left behind (worker.py:248-274, :241-246).
RepliesAreOwn ==
  /\ t9Comm.at \in {"write", "read"} =>
       LET p == t9Procs[t9Comm.proc] IN
         p.dir = t9Comm.dir /\ (t9Comm.at = "read" /\ p.outs # <<>> => p.outs = <<t9Comm.id>>)
  /\ \A q \in 1 .. Len(t9Procs) : t9Procs[q].alive => q = t9Proc

=============================================================================
