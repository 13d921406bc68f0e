-------------------------- MODULE Supervisor_proofs --------------------------
(***************************************************************************)
(* Theorems about Supervisor, for every set of workers and every number of *)
(* collects.                                                               *)
(***************************************************************************)
EXTENDS Supervisor, SequenceTheorems, FiniteSetTheorems, TLAPS

-----------------------------------------------------------------------------
(* The invariant.                                                          *)

\* where a collect has given no tasks to the workers
Early == {"none", "start", "cancelling", "locking"}

IsGiven(r) == \E i \in DOMAIN order : order[i] = r

\* A collect gives its tasks once, after which it is out of Early; only tasks that
\* have been given are cancelled, and none ends as cancelled that has not been.
GivenInv ==
  /\ \A i, j \in DOMAIN order : order[i] = order[j] => i = j
  /\ \A r \in Collects : cpc[r] \in Early => ~IsGiven(r)
  /\ \A t \in Tasks : tpc[t] = "none" <=> ~IsGiven(t[1])
  /\ \A t \in tstop : tpc[t] # "none"
  /\ \A t \in Tasks : tpc[t] \in {"interrupted", "cancelled"} => t \in tstop

\* The tasks of a worker take their first steps in the order they were given, and
\* each cancels the one before.
ChainInv ==
  /\ \A i, j \in DOMAIN order : \A w \in Workers :
       i < j /\ tpc[<<order[j], w>>] # "scheduled" => tpc[<<order[i], w>>] # "scheduled"
  /\ \A i, j \in DOMAIN order : \A w \in Workers :
       j = i + 1 /\ tpc[<<order[j], w>>] # "scheduled" => Resolved(<<order[i], w>>)

\* The rows that the statistics refer to are written by the time.
IdbInv ==
  /\ RowsExist
  /\ \A r \in Collects : IsGiven(r) => r \in batches
  /\ \A t \in Tasks : tpc[t] \in {"begun", "working", "ending", "interrupted"} => t \in instances

\* The collect that has the lock was the last to give tasks, so that nobody cancels
\* them, and waiting is how many always_wait sources it has not heard by its timeout.
GatherInv ==
  /\ \A r, q \in Collects : cpc[r] \in Collecting /\ cpc[q] \in Collecting => r = q
  /\ \A r \in Collects : cpc[r] \in Collecting => order # <<>> /\ order[Len(order)] = r
  /\ \A r \in Collects, w \in Workers : cpc[r] \in {"first", "second"} => <<r, w>> \notin tstop
  /\ \A r \in Collects : cpc[r] = "first" => waiting[r] = Cardinality(AlwaysWait)

AllReturned(r, W) == \A w \in W : tpc[<<r, w>>] = "returned"

\* What a collect has heard.
HeardInv ==
  /\ \A r \in Collects : cpc[r] = "second" =>
       /\ AllReturned(r, Workers \ pending[r])
       /\ waiting[r] = 0 => AllReturned(r, AlwaysWait)
  /\ \A r \in Collects : cpc[r] \in {"stopping", "done"} =>
       /\ AnyResult(r) \/ AllReturned(r, Workers)
       /\ AllReturned(r, AlwaysWait)

IInv == TypeOK /\ GivenInv /\ ChainInv /\ IdbInv /\ GatherInv /\ HeardInv

-----------------------------------------------------------------------------
(* Helpers.                                                                *)

LEMMA RemoveAtType ==
  ASSUME NEW S, NEW s \in Seq(S), NEW i \in 1 .. Len(s)
  PROVE  RemoveAt(s, i) \in Seq(S)
<1>1. Len(s) \in Nat /\ \A j \in 1 .. Len(s) : s[j] \in S BY LenProperties, ElementOfSeq
<1>2. SubSeq(s, 1, i - 1) \in Seq(S)
  <2>1. \A j \in 1 .. i - 1 : s[j] \in S BY <1>1
  <2> QED BY <1>1, <2>1, SubSeqProperties
<1>3. SubSeq(s, i + 1, Len(s)) \in Seq(S)
  <2>1. \A j \in i + 1 .. Len(s) : s[j] \in S BY <1>1
  <2> QED BY <1>1, <2>1, SubSeqProperties
<1> QED BY <1>2, <1>3, ConcatProperties DEF RemoveAt

\* Order, when a collect is added to it.
LEMMA OrderAppend ==
  ASSUME order \in Seq(Collects), NEW r \in Collects, order' = Append(order, r)
  PROVE  /\ order' \in Seq(Collects) /\ Len(order) \in Nat /\ Len(order') = Len(order) + 1
         /\ DOMAIN order = 1 .. Len(order) /\ DOMAIN order' = 1 .. Len(order) + 1
         /\ order'[Len(order) + 1] = r
         /\ \A i \in DOMAIN order : order'[i] = order[i]
BY AppendProperties, LenProperties

LEMMA Counts ==
  /\ IsFiniteSet(AlwaysWait) /\ Cardinality(AlwaysWait) \in Nat
  /\ \A left : /\ Cardinality(AlwaysWait \ left) \in 0 .. Cardinality(AlwaysWait)
               /\ Cardinality(AlwaysWait) - Cardinality(AlwaysWait \ left) = 0 =>
                    AlwaysWait \intersect left = {}
<1>1. IsFiniteSet(AlwaysWait) /\ Cardinality(AlwaysWait) \in Nat
  BY SupervisorAssumption, FS_Subset, FS_CardinalityType
<1>2. ASSUME NEW left
      PROVE  /\ Cardinality(AlwaysWait \ left) \in 0 .. Cardinality(AlwaysWait)
             /\ Cardinality(AlwaysWait) - Cardinality(AlwaysWait \ left) = 0 =>
                  AlwaysWait \intersect left = {}
  <2>1. AlwaysWait \ left \in SUBSET AlwaysWait OBVIOUS
  <2>2. /\ IsFiniteSet(AlwaysWait \ left)
        /\ Cardinality(AlwaysWait \ left) <= Cardinality(AlwaysWait)
        /\ Cardinality(AlwaysWait) = Cardinality(AlwaysWait \ left) => AlwaysWait = AlwaysWait \ left
    BY <1>1, <2>1, FS_Subset
  <2>3. Cardinality(AlwaysWait \ left) \in Nat BY <2>2, FS_CardinalityType
  <2>4. Cardinality(AlwaysWait) - Cardinality(AlwaysWait \ left) = 0 =>
          Cardinality(AlwaysWait) = Cardinality(AlwaysWait \ left)
    BY <1>1, <2>3
  <2>5. AlwaysWait = AlwaysWait \ left => AlwaysWait \intersect left = {} OBVIOUS
  <2> QED BY <1>1, <2>2, <2>3, <2>4, <2>5
<1> QED BY <1>1, <1>2

-----------------------------------------------------------------------------
(* What a step can be, as far as the invariant is concerned.               *)

heard == <<pending, waiting, order, acc, tpc, tstop, batches, instances, stats>>

\* a collect goes on, and nothing else does
Moves(r, p) ==
  /\ \/ cpc[r] \in Early /\ p \in {"start", "cancelling", "locking", "failed"}
     \/ cpc[r] = "stopping" /\ p = "done"
     \/ p = "cancelled"
  /\ cpc' = [cpc EXCEPT ![r] = p]
  /\ UNCHANGED heard

\* a collect takes the lock and gives the workers their tasks
Gives(r) ==
  /\ cpc[r] \in Early /\ ~LockHeld
  /\ cpc' = [cpc EXCEPT ![r] = "first"]
  /\ waiting' = [waiting EXCEPT ![r] = Cardinality(AlwaysWait)]
  /\ order' = Append(order, r)
  /\ tpc' = [t \in Tasks |-> IF t[1] = r THEN "scheduled" ELSE tpc[t]]
  /\ batches' = batches \union {r}
  /\ UNCHANGED <<pending, acc, tstop, instances, stats>>

Kinds ==
  \/ \E r \in Collects : Gives(r) \/ FirstReturns(r) \/ \E w \in Workers : SecondYields(r, w)
  \/ \E r \in Collects : \E p \in {"start", "cancelling", "locking", "failed", "done", "cancelled"} : Moves(r, p)
  \/ UNCHANGED <<cpc, heard>>
  \/ \E t \in Tasks : TaskStep(t) \/ Yield(t) \/ Finish(t)

LEMMA AcquireKinds ==
  ASSUME NEW r \in Collects, Acquire(r), cpc[r] \in Early,
         UNCHANGED <<pending, acc, tstop, instances, stats>>
  PROVE  Gives(r) \/ Moves(r, "locking") \/ Moves(r, "failed")
BY DEF Acquire, HandOut, Gives, Moves, heard

LEMMA StepKinds == [Next]_vars => Kinds
<1> SUFFICES ASSUME [Next]_vars PROVE Kinds OBVIOUS
<1>1. CASE UNCHANGED vars BY <1>1 DEF Kinds, vars, heard
<1>2. ASSUME NEW r \in Collects, Collect(r) PROVE Kinds
  <2>1. Moves(r, "start") BY <1>2 DEF Collect, Moves, Early, heard, idb
  <2> QED BY <2>1 DEF Kinds
<1>3. ASSUME NEW r \in Collects, Begin(r) PROVE Kinds
  <2>1. CASE prev[r] = 0
    <3>1. Gives(r) \/ Moves(r, "locking") \/ Moves(r, "failed")
      BY <1>3, <2>1, AcquireKinds DEF Begin, Early
    <3> QED BY <3>1 DEF Kinds
  <2>2. CASE prev[r] # 0
    <3>1. Moves(r, "cancelling") BY <1>3, <2>2 DEF Begin, Moves, Early, heard
    <3> QED BY <3>1 DEF Kinds
  <2> QED BY <2>1, <2>2
<1>4. ASSUME NEW r \in Collects, PrevOver(r) PROVE Kinds
  <2>1. Gives(r) \/ Moves(r, "locking") \/ Moves(r, "failed")
    BY <1>4, AcquireKinds DEF PrevOver, Early
  <2> QED BY <2>1 DEF Kinds
<1>5. ASSUME NEW r \in Collects, Locked(r) PROVE Kinds
  <2>1. Gives(r) \/ Moves(r, "failed")
    BY <1>5 DEF Locked, HandOut, Gives, Moves, Early, heard
  <2> QED BY <2>1 DEF Kinds
<1>6. ASSUME NEW r \in Collects, Return(r) PROVE Kinds
  <2>1. Moves(r, "done") BY <1>6 DEF Return, Moves, heard, idb
  <2> QED BY <2>1 DEF Kinds
<1>7. ASSUME NEW r \in Collects, Cancelled(r) PROVE Kinds
  <2>1. Moves(r, "cancelled") BY <1>7 DEF Cancelled, Moves, heard, idb
  <2> QED BY <2>1 DEF Kinds
<1>8. CASE Interrupt BY <1>8 DEF Interrupt, Kinds, heard, idb
<1>9. ASSUME NEW r \in Collects, Abandon(r) PROVE Kinds
  BY <1>9 DEF Abandon, Kinds, heard, idb
<1>10. ASSUME NEW r \in Collects, FirstReturns(r) \/ \E w \in Workers : SecondYields(r, w) PROVE Kinds
  BY <1>10 DEF Kinds
<1>11. ASSUME NEW t \in Tasks, TaskStep(t) \/ Yield(t) \/ Finish(t) PROVE Kinds
  BY <1>11 DEF Kinds
<1> QED BY <1>1, <1>2, <1>3, <1>4, <1>5, <1>6, <1>7, <1>8, <1>9, <1>10, <1>11 DEF Next, MainStep

-----------------------------------------------------------------------------
(* Types.                                                                  *)

LEMMA TypeInit == Init => TypeOK
<1>1. <<>> \in Seq(Collects) BY EmptySeq
<1>2. 0 \in 0 .. Cardinality(AlwaysWait) /\ 0 \in 0 .. MaxItems BY Counts, SupervisorAssumption
<1> QED BY <1>1, <1>2 DEF Init, TypeOK, CollectPoints, TaskPoints

LEMMA StopTasksType ==
  ASSUME TypeOK, NEW T \in SUBSET Tasks
  PROVE  StopTasks(T) \subseteq Tasks
BY DEF StopTasks, TypeOK

LEMMA HandOutType ==
  ASSUME TypeOK, NEW r \in Collects, HandOut(r)
  PROVE  /\ cpc' \in [Collects -> CollectPoints]
         /\ waiting' \in [Collects -> 0 .. Cardinality(AlwaysWait)]
         /\ order' \in Seq(Collects) /\ tpc' \in [Tasks -> TaskPoints] /\ batches' \subseteq Collects
<1>1. CASE UNCHANGED <<waiting, order, tpc, batches>> /\ cpc' = [cpc EXCEPT ![r] = "failed"]
  BY <1>1 DEF TypeOK, CollectPoints, Over
<1>2. CASE ~(UNCHANGED <<waiting, order, tpc, batches>> /\ cpc' = [cpc EXCEPT ![r] = "failed"])
  <2>1. Cardinality(AlwaysWait) \in 0 .. Cardinality(AlwaysWait) BY Counts
  <2>2. order' = Append(order, r) BY <1>2 DEF HandOut
  <2>3. order' \in Seq(Collects) BY <2>2, AppendProperties DEF TypeOK
  <2>4. cpc' \in [Collects -> CollectPoints] BY <1>2 DEF HandOut, TypeOK, CollectPoints, Collecting
  <2>5. waiting' \in [Collects -> 0 .. Cardinality(AlwaysWait)] BY <1>2, <2>1 DEF HandOut, TypeOK
  <2>6. tpc' \in [Tasks -> TaskPoints]
    <3>1. tpc' = [t \in Tasks |-> IF t[1] = r THEN "scheduled" ELSE tpc[t]] BY <1>2 DEF HandOut
    <3> QED BY <3>1, Zenon DEF TypeOK, TaskPoints
  <2>7. batches' \subseteq Collects BY <1>2 DEF HandOut, TypeOK
  <2> QED BY <2>3, <2>4, <2>5, <2>6, <2>7
<1> QED BY <1>1, <1>2

LEMMA AcquireType ==
  ASSUME TypeOK, NEW r \in Collects, Acquire(r)
  PROVE  /\ cpc' \in [Collects -> CollectPoints] /\ lockq' \in Seq(Collects)
         /\ waiting' \in [Collects -> 0 .. Cardinality(AlwaysWait)]
         /\ order' \in Seq(Collects) /\ tpc' \in [Tasks -> TaskPoints] /\ batches' \subseteq Collects
<1>1. CASE lockq = <<>> /\ ~LockHeld BY <1>1, HandOutType DEF Acquire, TypeOK
<1>2. CASE ~(lockq = <<>> /\ ~LockHeld)
  <2>1. lockq' = Append(lockq, r) BY <1>2 DEF Acquire
  <2>2. lockq' \in Seq(Collects) BY <2>1, AppendProperties DEF TypeOK
  <2> QED BY <1>2, <2>2 DEF Acquire, TypeOK, CollectPoints
<1> QED BY <1>1, <1>2

LEMMA LeaveType ==
  ASSUME TypeOK, NEW r \in Collects, NEW left \in SUBSET Workers, Leave(r, left)
  PROVE  cpc' \in [Collects -> CollectPoints] /\ tstop' \subseteq Tasks
<1>1. {r} \X left \in SUBSET Tasks BY DEF Tasks
<1> QED BY <1>1, StopTasksType DEF Leave, TypeOK, CollectPoints, Collecting

LEMMA TypeStep ==
  ASSUME TypeOK, GatherInv, [Next]_vars
  PROVE  TypeOK'
<1> USE DEF Collects
<1>1. CASE UNCHANGED vars BY <1>1 DEF vars, TypeOK, Tasks
<1>2. ASSUME NEW r \in Collects, Collect(r) PROVE TypeOK'
  BY <1>2 DEF Collect, TypeOK, CollectPoints, idb
<1>3. ASSUME NEW r \in Collects, Begin(r) PROVE TypeOK'
  <2>1. CASE prev[r] = 0
    BY <1>3, <2>1, AcquireType DEF Begin, TypeOK
  <2>2. CASE prev[r] # 0
    BY <1>3, <2>2 DEF Begin, TypeOK, CollectPoints, StopCollect
  <2> QED BY <2>1, <2>2
<1>4. ASSUME NEW r \in Collects, PrevOver(r) PROVE TypeOK'
  BY <1>4, AcquireType DEF PrevOver, TypeOK
<1>5. ASSUME NEW r \in Collects, Locked(r) PROVE TypeOK'
  <2>1. lockq' \in Seq(Collects) BY <1>5, HeadTailProperties DEF Locked, TypeOK
  <2>2. HandOut(r) BY <1>5 DEF Locked
  <2> QED BY <1>5, <2>1, <2>2, HandOutType DEF Locked, TypeOK
<1>6. ASSUME NEW r \in Collects, FirstReturns(r) PROVE TypeOK'
  <2> DEFINE left == {w \in Workers : ~Resolved(<<r, w>>)}
  <2>1. left \in SUBSET Workers OBVIOUS
  <2>2. waiting' \in [Collects -> 0 .. Cardinality(AlwaysWait)]
    <3>1. waiting' = [waiting EXCEPT ![r] = @ - Cardinality(AlwaysWait \ left)]
          /\ waiting[r] = Cardinality(AlwaysWait)
      BY <1>6 DEF FirstReturns, GatherInv
    <3> HIDE DEF left
    <3>2. Cardinality(AlwaysWait) - Cardinality(AlwaysWait \ left) \in 0 .. Cardinality(AlwaysWait)
      BY Counts
    <3> QED BY <3>1, <3>2 DEF TypeOK
  <2>3. cpc' \in [Collects -> CollectPoints] /\ tstop' \subseteq Tasks
    <3>1. CASE Leave(r, left) BY <2>1, <3>1, LeaveType
    <3>2. CASE ~Leave(r, left)
      <4>1. cpc' = [cpc EXCEPT ![r] = "second"] /\ tstop' = tstop BY <1>6, <3>2 DEF FirstReturns
      <4> QED BY <4>1 DEF TypeOK, CollectPoints, Collecting
    <3> QED BY <3>1, <3>2
  <2>4. pending' \in [Collects -> SUBSET Workers] BY <1>6 DEF FirstReturns, TypeOK
  <2> QED BY <1>6, <2>2, <2>3, <2>4 DEF FirstReturns, TypeOK, idb
<1>7. ASSUME NEW r \in Collects, NEW w \in Workers, SecondYields(r, w) PROVE TypeOK'
  <2>1. pending' \in [Collects -> SUBSET Workers] BY <1>7 DEF SecondYields, TypeOK
  <2>2. cpc' \in [Collects -> CollectPoints] /\ tstop' \subseteq Tasks
    <3>1. CASE Leave(r, pending'[r]) BY <2>1, <3>1, LeaveType
    <3>2. CASE ~Leave(r, pending'[r]) BY <1>7, <3>2 DEF SecondYields, TypeOK
    <3> QED BY <3>1, <3>2
  <2> QED BY <1>7, <2>1, <2>2 DEF SecondYields, TypeOK, idb
<1>8. ASSUME NEW r \in Collects, Return(r) PROVE TypeOK'
  BY <1>8 DEF Return, TypeOK, CollectPoints, Over, idb
<1>9. ASSUME NEW r \in Collects, Cancelled(r) PROVE TypeOK'
  <2>1. lockq' \in Seq(Collects)
    <3>1. CASE UNCHANGED lockq BY <3>1 DEF TypeOK
    <3>2. ASSUME NEW i \in DOMAIN lockq, lockq' = RemoveAt(lockq, i) PROVE lockq' \in Seq(Collects)
      <4>1. i \in 1 .. Len(lockq) BY LenProperties DEF TypeOK
      <4> QED BY <3>2, <4>1, RemoveAtType DEF TypeOK
    <3> QED BY <1>9, <3>1, <3>2 DEF Cancelled
  <2> QED BY <1>9, <2>1 DEF Cancelled, TypeOK, CollectPoints, Over, idb
<1>10. CASE Interrupt BY <1>10 DEF Interrupt, StopCollect, TypeOK, idb
<1>11. ASSUME NEW r \in Collects, Abandon(r) PROVE TypeOK'
  BY <1>11 DEF Abandon, TypeOK, idb
<1>12. ASSUME NEW t \in Tasks, Preempt(t) PROVE TypeOK'
  <2>1. tpc' \in [Tasks -> TaskPoints] BY <1>12 DEF Preempt, At, TypeOK, TaskPoints
  <2>2. tstop' \subseteq Tasks
    <3>1. t \in Collects \X Workers BY DEF Tasks
    <3>2. ASSUME NEW i \in 1 .. Len(order) - 1 PROVE {<<order[i], t[2]>>} \in SUBSET Tasks
      <4>1. Len(order) \in Nat BY LenProperties DEF TypeOK
      <4>2. i \in 1 .. Len(order) BY <4>1
      <4>3. order[i] \in Collects BY <4>2, ElementOfSeq DEF TypeOK
      <4> QED BY <3>1, <4>3 DEF Tasks
    <3>3. CASE t[1] = Head(order) BY <1>12, <3>3 DEF Preempt, TypeOK
    <3>4. CASE t[1] # Head(order)
      <4>1. PICK i \in 1 .. Len(order) - 1 : tstop' = StopTasks({<<order[i], t[2]>>})
        BY <1>12, <3>4 DEF Preempt
      <4> QED BY <4>1, <3>2, StopTasksType
    <3> QED BY <3>3, <3>4
  <2> QED BY <1>12, <2>1, <2>2 DEF Preempt, TypeOK, main, idb
<1>13. ASSUME NEW t \in Tasks, Preempted(t) \/ NewInstance(t) \/ Work(t) \/ Finish(t) PROVE TypeOK'
  BY <1>13 DEF Preempted, NewInstance, Work, Finish, At, TypeOK, TaskPoints, TaskOver, main, idb
<1>14. ASSUME NEW t \in Tasks, Yield(t) PROVE TypeOK'
  BY <1>14, SupervisorAssumption DEF Yield, TypeOK, main, idb
<1>15. ASSUME NEW t \in Tasks, NewStat(t) PROVE TypeOK'
  BY <1>15 DEF NewStat, At, TypeOK, TaskPoints, TaskOver, main, idb
<1>16. ASSUME NEW t \in Tasks, Raise(t) PROVE TypeOK'
  BY <1>16 DEF Raise, At, TypeOK, TaskPoints, TaskOver, main, idb
<1> QED BY <1>1, <1>2, <1>3, <1>4, <1>5, <1>6, <1>7, <1>8, <1>9, <1>10, <1>11, <1>12, <1>13, <1>14,
           <1>15, <1>16 DEF Next, MainStep, TaskStep

-----------------------------------------------------------------------------
(* The steps again, by what they do to the tasks.                          *)

\* a collect that gives no tasks
Collected ==
  /\ UNCHANGED <<order, acc, tpc, batches, instances, stats>>
  /\ tstop \subseteq tstop'
  /\ \A s \in tstop' : s \in tstop \/ (s \in Tasks /\ tpc[s] # "none")
  /\ \A q \in Collects : cpc'[q] \in Early => cpc[q] \in Early

\* a task that goes on
TaskMoves(t) ==
  /\ UNCHANGED <<order, cpc, pending, waiting, batches>>
  /\ \A s \in Tasks \ {t} : tpc'[s] = tpc[s]
  /\ tpc[t] \notin {"none"} \union TaskOver /\ tpc'[t] \notin {"none", "scheduled"}
  /\ IF tpc[t] = "scheduled" THEN Preempt(t) ELSE UNCHANGED tstop
  /\ tstop \subseteq tstop'
  /\ \A s \in tstop' : s \in tstop \/ (s \in Tasks /\ tpc[s] # "none")
  /\ tpc'[t] \in {"interrupted", "cancelled"} => t \in tstop
  /\ \A s \in Tasks : acc'[s] >= acc[s]

LEMMA TasksMove ==
  ASSUME TypeOK, GivenInv, NEW t \in Tasks, TaskStep(t) \/ Yield(t) \/ Finish(t)
  PROVE  TaskMoves(t)
<1> USE DEF TaskMoves, At, TaskOver, main, idb
<1>1. \A s \in Tasks : acc[s] \in 0 .. MaxItems BY DEF TypeOK
<1>2. \A s \in Tasks : acc[s] >= acc[s] BY <1>1, SupervisorAssumption
<1>3. CASE Preempt(t)
  <2>1. tstop' = tstop \/ \E T : tstop' = StopTasks(T) /\ T \subseteq Tasks
    <3>1. CASE t[1] = Head(order) BY <1>3, <3>1 DEF Preempt
    <3>2. CASE t[1] # Head(order)
      <4>1. PICK i \in 1 .. Len(order) - 1 : tstop' = StopTasks({<<order[i], t[2]>>})
        BY <1>3, <3>2 DEF Preempt
      <4>2. Len(order) \in Nat BY LenProperties DEF TypeOK
      <4>3. i \in 1 .. Len(order) BY <4>2
      <4>4. order[i] \in Collects BY <4>3, ElementOfSeq DEF TypeOK
      <4>5. {<<order[i], t[2]>>} \subseteq Tasks BY <4>4 DEF Tasks
      <4> QED BY <4>1, <4>5
    <3> QED BY <3>1, <3>2
  <2>2. tstop \subseteq tstop' /\ \A s \in tstop' : s \in tstop \/ (s \in Tasks /\ tpc[s] # "none")
    BY <2>1 DEF StopTasks
  <2>3. /\ tpc[t] = "scheduled" /\ UNCHANGED <<main, acc, idb>>
        /\ tpc' = [tpc EXCEPT ![t] = "begin"] \/ tpc' = [tpc EXCEPT ![t] = "preempting"]
    BY <1>3 DEF Preempt
  <2> QED BY <1>2, <1>3, <2>2, <2>3 DEF TypeOK
<1>4. CASE Preempted(t) BY <1>2, <1>4 DEF Preempted, TypeOK
<1>5. CASE NewInstance(t) BY <1>2, <1>5 DEF NewInstance, TypeOK
<1>6. CASE Work(t) BY <1>2, <1>6 DEF Work, TypeOK
<1>7. CASE NewStat(t) BY <1>2, <1>7 DEF NewStat, TypeOK, GivenInv
<1>8. CASE Raise(t) BY <1>2, <1>8 DEF Raise, TypeOK
<1>9. CASE Finish(t) BY <1>2, <1>9 DEF Finish, TypeOK
<1>10. CASE Yield(t)
  <2>1. \A s \in Tasks : acc'[s] >= acc[s] BY <1>1, <1>10, SupervisorAssumption DEF Yield, TypeOK
  <2> QED BY <1>10, <2>1 DEF Yield, TypeOK
<1> QED BY <1>3, <1>4, <1>5, <1>6, <1>7, <1>8, <1>9, <1>10 DEF TaskStep

LEMMA CollectsMove ==
  ASSUME TypeOK, GivenInv, Kinds
  PROVE  \/ \E r \in Collects : Gives(r)
         \/ Collected
         \/ \E t \in Tasks : TaskMoves(t)
<1> USE DEF Collected, heard, idb
<1>1. ASSUME NEW r \in Collects, FirstReturns(r) PROVE Collected
  <2>1. \A q \in Collects : cpc'[q] \in Early => cpc[q] \in Early
    BY <1>1 DEF FirstReturns, Leave, Early, TypeOK
  <2>2. tstop \subseteq tstop' /\ \A s \in tstop' : s \in tstop \/ (s \in Tasks /\ tpc[s] # "none")
    <3>1. UNCHANGED tstop \/ tstop' = StopTasks({r} \X {w \in Workers : ~Resolved(<<r, w>>)})
      BY <1>1 DEF FirstReturns, Leave
    <3>2. {r} \X {w \in Workers : ~Resolved(<<r, w>>)} \subseteq Tasks BY DEF Tasks
    <3> QED BY <3>1, <3>2 DEF StopTasks
  <2> QED BY <1>1, <2>1, <2>2 DEF FirstReturns
<1>2. ASSUME NEW r \in Collects, NEW w \in Workers, SecondYields(r, w) PROVE Collected
  <2>1. \A q \in Collects : cpc'[q] \in Early => cpc[q] \in Early
    BY <1>2 DEF SecondYields, Leave, Early, TypeOK
  <2>2. tstop \subseteq tstop' /\ \A s \in tstop' : s \in tstop \/ (s \in Tasks /\ tpc[s] # "none")
    BY <1>2 DEF SecondYields, Leave, StopTasks, Tasks, TypeOK
  <2> QED BY <1>2, <2>1, <2>2 DEF SecondYields
<1>3. ASSUME NEW r \in Collects, NEW p, Moves(r, p) PROVE Collected
  BY <1>3 DEF Moves, Early, TypeOK
<1>4. CASE UNCHANGED <<cpc, heard>> BY <1>4
<1> QED BY <1>1, <1>2, <1>3, <1>4, TasksMove DEF Kinds

\* what changes when a collect gives the workers their tasks
LEMMA GivesOrder ==
  ASSUME TypeOK, GivenInv, NEW r \in Collects, Gives(r)
  PROVE  /\ ~IsGiven(r)
         /\ \A q : IsGiven(q)' <=> q = r \/ IsGiven(q)
         /\ \A t \in Tasks : tpc'[t] = IF t[1] = r THEN "scheduled" ELSE tpc[t]
         /\ \A q \in Collects : cpc'[q] = IF q = r THEN "first" ELSE cpc[q]
         /\ Len(order) \in Nat /\ Len(order') = Len(order) + 1
         /\ DOMAIN order = 1 .. Len(order) /\ DOMAIN order' = 1 .. Len(order) + 1
         /\ order'[Len(order) + 1] = r
         /\ \A i \in DOMAIN order : order'[i] = order[i]
<1>1. ~IsGiven(r) BY DEF GivenInv, Gives
<1>2. /\ Len(order) \in Nat /\ Len(order') = Len(order) + 1
      /\ DOMAIN order = 1 .. Len(order) /\ DOMAIN order' = 1 .. Len(order) + 1
      /\ order'[Len(order) + 1] = r
      /\ \A i \in DOMAIN order : order'[i] = order[i]
  BY OrderAppend DEF Gives, TypeOK
<1>3. \A q : IsGiven(q)' <=> q = r \/ IsGiven(q)
  <2>1. \A i : i \in DOMAIN order' <=> i \in DOMAIN order \/ i = Len(order) + 1 BY <1>2
  <2> QED BY <1>2, <2>1 DEF IsGiven
<1>4. \A t \in Tasks : tpc'[t] = IF t[1] = r THEN "scheduled" ELSE tpc[t] BY Zenon DEF Gives
<1>5. \A q \in Collects : cpc'[q] = IF q = r THEN "first" ELSE cpc[q] BY DEF Gives, TypeOK
<1> QED BY <1>1, <1>2, <1>3, <1>4, <1>5

-----------------------------------------------------------------------------
(* Each part of the invariant.                                             *)

LEMMA InvInit == Init => GivenInv /\ ChainInv /\ IdbInv /\ GatherInv /\ HeardInv
<1> SUFFICES ASSUME Init PROVE GivenInv /\ ChainInv /\ IdbInv /\ GatherInv /\ HeardInv
  OBVIOUS
<1>1. DOMAIN order = {} BY EmptySeq DEF Init
<1>2. \A r \in Collects : cpc[r] = "none" BY DEF Init
<1>3. \A t \in Tasks : tpc[t] = "none" BY DEF Init
<1>4. \A r : ~IsGiven(r) BY <1>1 DEF IsGiven
<1>5. GivenInv BY <1>1, <1>3, <1>4 DEF GivenInv, Init, Tasks
<1>6. ChainInv BY <1>1 DEF ChainInv
<1>7. IdbInv BY <1>3, <1>4 DEF IdbInv, RowsExist, Init
<1>8. GatherInv BY <1>2 DEF GatherInv, Collecting
<1>9. HeardInv BY <1>2 DEF HeardInv
<1> QED BY <1>5, <1>6, <1>7, <1>8, <1>9

LEMMA GivenStep == TypeOK /\ GivenInv /\ Kinds => GivenInv'
<1> SUFFICES ASSUME TypeOK, GivenInv, Kinds PROVE GivenInv'
  OBVIOUS
<1>1. ASSUME NEW r \in Collects, Gives(r) PROVE GivenInv'
  <2> USE <1>1, GivesOrder
  <2>1. ASSUME NEW i \in DOMAIN order', NEW j \in DOMAIN order', order'[i] = order'[j] PROVE i = j
    <3>1. CASE i \in DOMAIN order /\ j \in DOMAIN order BY <2>1, <3>1 DEF GivenInv
    <3>2. CASE i \notin DOMAIN order \/ j \notin DOMAIN order
      <4>1. \A k \in DOMAIN order : order[k] # r BY DEF IsGiven
      <4> QED BY <2>1, <3>2, <4>1
    <3> QED BY <3>1, <3>2
  <2>2. \A q \in Collects : cpc'[q] \in Early => ~IsGiven(q)' BY DEF GivenInv, Early
  <2>3. \A t \in Tasks : tpc'[t] = "none" <=> ~IsGiven(t[1])' BY DEF GivenInv
  <2>4. tstop' = tstop BY DEF Gives
  <2>5. \A t \in tstop' : tpc'[t] # "none" BY <2>4 DEF GivenInv, TypeOK
  <2>6. \A t \in Tasks : tpc'[t] \in {"interrupted", "cancelled"} => t \in tstop' BY <2>4 DEF GivenInv
  <2> QED BY <2>1, <2>2, <2>3, <2>5, <2>6 DEF GivenInv
<1>2. CASE Collected BY <1>2 DEF GivenInv, Collected, IsGiven
<1>3. ASSUME NEW t \in Tasks, TaskMoves(t) PROVE GivenInv'
  <2> USE <1>3
  <2>1. order' = order /\ cpc' = cpc BY DEF TaskMoves
  <2>2. \A s \in Tasks : tpc'[s] = "none" <=> tpc[s] = "none" BY DEF TaskMoves
  <2>3. \A s \in tstop' : s \in Tasks /\ tpc'[s] # "none"
    BY <2>2 DEF TaskMoves, GivenInv, TypeOK
  <2>4. \A s \in Tasks : tpc'[s] \in {"interrupted", "cancelled"} => s \in tstop'
    BY DEF TaskMoves, GivenInv
  <2> QED BY <2>1, <2>2, <2>3, <2>4 DEF GivenInv, IsGiven
<1> QED BY <1>1, <1>2, <1>3, CollectsMove

LEMMA ChainStep == TypeOK /\ GivenInv /\ ChainInv /\ Kinds => ChainInv'
<1> SUFFICES ASSUME TypeOK, GivenInv, ChainInv, Kinds PROVE ChainInv'
  OBVIOUS
<1>0. /\ \A i \in DOMAIN order : order[i] \in Collects
      /\ DOMAIN order = 1 .. Len(order) /\ Len(order) \in Nat
  BY ElementOfSeq, LenProperties DEF TypeOK
<1>1. ASSUME NEW r \in Collects, Gives(r) PROVE ChainInv'
  <2> USE <1>1, GivesOrder
  <2>1. \A i \in DOMAIN order, w \in Workers :
          order'[i] = order[i] /\ tpc'[<<order[i], w>>] = tpc[<<order[i], w>>]
    BY <1>0 DEF IsGiven, Tasks
  <2>2. tstop' = tstop BY DEF Gives
  <2>3. \A w \in Workers : tpc'[<<order'[Len(order) + 1], w>>] = "scheduled" BY DEF Tasks
  <2>4. ASSUME NEW i \in DOMAIN order', NEW j \in DOMAIN order', NEW w \in Workers,
               i < j, tpc'[<<order'[j], w>>] # "scheduled"
        PROVE  /\ tpc'[<<order'[i], w>>] # "scheduled"
               /\ j = i + 1 => Resolved(<<order[i], w>>)'
    <3>1. j # Len(order) + 1 BY <2>3, <2>4
    <3>2. i \in DOMAIN order /\ j \in DOMAIN order BY <2>4, <3>1
    <3>3. tpc[<<order[i], w>>] # "scheduled" /\ (j = i + 1 => Resolved(<<order[i], w>>))
      BY <2>1, <2>4, <3>2 DEF ChainInv
    <3> QED BY <2>1, <2>2, <3>2, <3>3 DEF Resolved
  <2>5. \A i, j \in DOMAIN order' : j = i + 1 => i < j OBVIOUS
  <2> QED BY <2>4, <2>5 DEF ChainInv
<1>2. CASE Collected BY <1>2 DEF ChainInv, Collected, Resolved
<1>3. ASSUME NEW t \in Tasks, TaskMoves(t) PROVE ChainInv'
  <2> USE <1>3
  <2>1. order' = order BY DEF TaskMoves
  <2>2. \A s \in Tasks : tpc[s] # "scheduled" => tpc'[s] # "scheduled" BY DEF TaskMoves
  <2>3. \A s \in Tasks : Resolved(s) => Resolved(s)' BY DEF TaskMoves, Resolved
  <2>4. ASSUME NEW i \in DOMAIN order, NEW j \in DOMAIN order, NEW w \in Workers,
               i < j, tpc'[<<order[j], w>>] # "scheduled"
        PROVE  /\ tpc'[<<order[i], w>>] # "scheduled"
               /\ j = i + 1 => Resolved(<<order[i], w>>)'
    <3>1. <<order[i], w>> \in Tasks /\ <<order[j], w>> \in Tasks BY <1>0 DEF Tasks
    <3>2. CASE tpc[<<order[j], w>>] # "scheduled"
      <4>1. tpc[<<order[i], w>>] # "scheduled" /\ (j = i + 1 => Resolved(<<order[i], w>>))
        BY <2>4, <3>2 DEF ChainInv
      <4> QED BY <2>1, <2>2, <2>3, <3>1, <4>1
    <3>3. CASE tpc[<<order[j], w>>] = "scheduled"
      <4>1. t = <<order[j], w>> /\ Preempt(t) BY <2>4, <3>1, <3>3 DEF TaskMoves
      <4>2. Before(order[i], order[j]) BY <1>0, <2>4 DEF Before
      <4>3. tpc[<<order[i], w>>] # "scheduled" BY <1>0, <4>1, <4>2 DEF Preempt
      <4>4. ASSUME j = i + 1 PROVE Resolved(<<order[i], w>>)'
        <5>1. order[j] # Head(order)
          <6>1. 1 \in DOMAIN order /\ j # 1 BY <1>0, <2>4
          <6>2. order[j] # order[1] BY <6>1 DEF GivenInv
          <6>3. Head(order) = order[1] BY HeadTailProperties, <6>1 DEF TypeOK
          <6> QED BY <6>2, <6>3
        <5>2. PICK k \in 1 .. Len(order) - 1 :
                order[j] = order[k + 1] /\ tstop' = StopTasks({<<order[k], w>>})
          BY <4>1, <5>1 DEF Preempt
        <5>3. k + 1 = j
          <6>1. k + 1 \in DOMAIN order BY <1>0
          <6> QED BY <5>2, <6>1 DEF GivenInv
        <5>4. k = i BY <1>0, <4>4, <5>3
        <5>5. <<order[i], w>> \in tstop' \/ tpc[<<order[i], w>>] \in TaskOver \union {"none"}
          BY <5>2, <5>4 DEF StopTasks
        <5>6. tpc[<<order[i], w>>] # "none" BY <3>1 DEF GivenInv, IsGiven
        <5>7. <<order[i], w>> # t
          <6>1. order[i] # order[j] BY <1>0, <2>4 DEF GivenInv
          <6> QED BY <4>1, <6>1
        <5>8. tpc'[<<order[i], w>>] = tpc[<<order[i], w>>] BY <3>1, <5>7 DEF TaskMoves
        <5> QED BY <2>1, <5>5, <5>6, <5>8 DEF Resolved
      <4> QED BY <2>2, <3>1, <4>3, <4>4
    <3> QED BY <3>2, <3>3
  <2>5. \A i, j \in DOMAIN order : j = i + 1 => i < j BY <1>0
  <2> QED BY <2>1, <2>4, <2>5 DEF ChainInv
<1> QED BY <1>1, <1>2, <1>3, CollectsMove

LEMMA IdbStep == TypeOK /\ GivenInv /\ IdbInv /\ Kinds => IdbInv'
<1> SUFFICES ASSUME TypeOK, GivenInv, IdbInv, Kinds PROVE IdbInv'
  OBVIOUS
<1>1. ASSUME NEW r \in Collects, Gives(r) PROVE IdbInv'
  <2>1. batches' = batches \union {r} /\ instances' = instances /\ stats' = stats
    BY <1>1 DEF Gives
  <2> QED BY <1>1, <2>1, GivesOrder DEF IdbInv, RowsExist
<1>2. ASSUME NEW r \in Collects, FirstReturns(r) PROVE IdbInv'
  BY <1>2 DEF FirstReturns, IdbInv, RowsExist, IsGiven, idb
<1>3. ASSUME NEW r \in Collects, NEW w \in Workers, SecondYields(r, w) PROVE IdbInv'
  BY <1>3 DEF SecondYields, IdbInv, RowsExist, IsGiven, idb
<1>4. ASSUME NEW r \in Collects, NEW p, Moves(r, p) PROVE IdbInv'
  BY <1>4 DEF Moves, IdbInv, RowsExist, IsGiven, heard
<1>5. CASE UNCHANGED <<cpc, heard>> BY <1>5 DEF IdbInv, RowsExist, IsGiven, heard
<1>6. ASSUME NEW t \in Tasks, TaskStep(t) \/ Yield(t) \/ Finish(t) PROVE IdbInv'
  <2>1. order' = order /\ batches' = batches BY <1>6, TasksMove DEF TaskMoves
  <2>2. t[1] \in batches
    <3>1. tpc[t] # "none" BY <1>6, TasksMove DEF TaskMoves
    <3> QED BY <3>1 DEF GivenInv, IdbInv, Tasks
  <2>3. \A s \in Tasks : s # t => tpc'[s] = tpc[s] BY <1>6, TasksMove DEF TaskMoves
  <2>4. /\ instances \subseteq instances' /\ instances' \subseteq instances \union {t}
        /\ stats' \subseteq stats \union {t}
    BY <1>6 DEF TaskStep, Preempt, Preempted, NewInstance, Work, NewStat, Raise, Yield, Finish, main, idb
  <2>5. /\ t \in stats' => t \in stats \/ t \in instances'
        /\ tpc'[t] \in {"begun", "working", "ending", "interrupted"} => t \in instances'
    <3> USE DEF At, TypeOK, IdbInv
    <3>1. CASE Preempt(t) BY <3>1 DEF Preempt, idb
    <3>2. CASE Preempted(t) BY <3>2 DEF Preempted, idb
    <3>3. CASE NewInstance(t) BY <3>3 DEF NewInstance
    <3>4. CASE Work(t) BY <3>4 DEF Work, idb
    <3>5. CASE NewStat(t) BY <3>5 DEF NewStat
    <3>6. CASE Raise(t) BY <3>6 DEF Raise
    <3>7. CASE Yield(t) BY <3>7 DEF Yield, idb
    <3>8. CASE Finish(t) BY <3>8 DEF Finish, idb
    <3> QED BY <1>6, <3>1, <3>2, <3>3, <3>4, <3>5, <3>6, <3>7, <3>8 DEF TaskStep
  <2>6. RowsExist' BY <2>1, <2>2, <2>4, <2>5 DEF IdbInv, RowsExist
  <2>7. \A r \in Collects : IsGiven(r)' => r \in batches' BY <2>1 DEF IdbInv, IsGiven
  <2>8. \A s \in Tasks :
          tpc'[s] \in {"begun", "working", "ending", "interrupted"} => s \in instances'
    BY <2>3, <2>4, <2>5 DEF IdbInv
  <2> QED BY <2>6, <2>7, <2>8 DEF IdbInv
<1> QED BY <1>1, <1>2, <1>3, <1>4, <1>5, <1>6 DEF Kinds

\* nobody but the collect that gathers sees its tasks cancelled
LEMMA TasksKept ==
  ASSUME TypeOK, GivenInv, GatherInv, NEW t \in Tasks, TaskMoves(t),
         NEW q \in Collects, cpc[q] \in {"first", "second"}, NEW w \in Workers
  PROVE  <<q, w>> \notin tstop'
<1>1. <<q, w>> \notin tstop BY DEF GatherInv
<1>2. ASSUME NEW i \in 1 .. Len(order) - 1, tstop' = StopTasks({<<order[i], t[2]>>})
      PROVE  <<q, w>> \notin tstop'
  <2>1. order[Len(order)] = q BY DEF GatherInv, Collecting
  <2>2. /\ Len(order) \in Nat /\ DOMAIN order = 1 .. Len(order)
    BY LenProperties DEF TypeOK
  <2>3. i \in 1 .. Len(order) /\ Len(order) \in 1 .. Len(order) /\ i # Len(order)
    <3>1. Len(order) \in Nat /\ i \in 1 .. Len(order) - 1 BY <2>2
    <3> QED BY <3>1
  <2>4. order[i] # q BY <2>1, <2>2, <2>3 DEF GivenInv
  <2> QED BY <1>1, <1>2, <2>4 DEF StopTasks
<1>3. CASE tpc[t] = "scheduled"
  BY <1>1, <1>2, <1>3 DEF TaskMoves, Preempt
<1>4. CASE tpc[t] # "scheduled"
  <2>1. UNCHANGED tstop BY <1>4 DEF TaskMoves
  <2> QED BY <1>1, <2>1
<1> QED BY <1>3, <1>4

LEMMA GatherStep == TypeOK /\ GivenInv /\ GatherInv /\ Kinds => GatherInv'
<1> SUFFICES ASSUME TypeOK, GivenInv, GatherInv, Kinds PROVE GatherInv'
  OBVIOUS
<1>1. ASSUME NEW r \in Collects, Gives(r) PROVE GatherInv'
  <2> USE <1>1, GivesOrder
  <2>1. \A q \in Collects : cpc'[q] \in Collecting <=> q = r
    <3>1. \A q \in Collects : cpc[q] \notin Collecting BY DEF Gives, LockHeld
    <3>2. "first" \in Collecting BY DEF Collecting
    <3> QED BY <3>1, <3>2
  <2>2. order' # <<>> /\ order'[Len(order')] = r BY EmptySeq
  <2>3. \A w \in Workers : <<r, w>> \notin tstop'
    <3>1. \A w \in Workers : tpc[<<r, w>>] = "none" BY DEF GivenInv, Tasks
    <3> QED BY <3>1 DEF Gives, GivenInv
  <2>4. waiting'[r] = Cardinality(AlwaysWait) BY DEF Gives, TypeOK
  <2> QED BY <2>1, <2>2, <2>3, <2>4 DEF GatherInv, Collecting
<1>2. ASSUME NEW r \in Collects, FirstReturns(r) PROVE GatherInv'
  <2>1. \A q \in Collects : cpc'[q] \in Collecting => cpc[q] \in Collecting
    BY <1>2 DEF FirstReturns, Leave, TypeOK, Collecting
  <2>2. \A q \in Collects : cpc'[q] \in Collecting => q = r
    BY <1>2, <2>1 DEF FirstReturns, GatherInv, Collecting
  <2>3. cpc'[r] # "first" BY <1>2 DEF FirstReturns, Leave, TypeOK
  <2>4. cpc'[r] = "second" => UNCHANGED tstop BY <1>2 DEF FirstReturns, Leave, TypeOK
  <2>5. order' = order /\ cpc[r] = "first" BY <1>2 DEF FirstReturns
  <2> QED BY <2>2, <2>3, <2>4, <2>5 DEF GatherInv, Collecting
<1>3. ASSUME NEW r \in Collects, NEW v \in Workers, SecondYields(r, v) PROVE GatherInv'
  <2>1. \A q \in Collects : cpc'[q] \in Collecting => cpc[q] \in Collecting
    BY <1>3 DEF SecondYields, Leave, TypeOK, Collecting
  <2>2. \A q \in Collects : cpc'[q] \in Collecting => q = r
    BY <1>3, <2>1 DEF SecondYields, GatherInv, Collecting
  <2>3. cpc'[r] # "first" BY <1>3 DEF SecondYields, Leave, TypeOK
  <2>4. cpc'[r] = "second" => UNCHANGED tstop BY <1>3 DEF SecondYields, Leave, TypeOK
  <2>5. order' = order /\ cpc[r] = "second" BY <1>3 DEF SecondYields
  <2> QED BY <2>2, <2>3, <2>4, <2>5 DEF GatherInv, Collecting
<1>4. ASSUME NEW r \in Collects, NEW p, Moves(r, p) PROVE GatherInv'
  <2>1. \A q \in Collects : cpc'[q] \in Collecting => cpc'[q] = cpc[q]
    BY <1>4 DEF Moves, TypeOK, Collecting
  <2>2. order' = order /\ tstop' = tstop /\ waiting' = waiting BY <1>4 DEF Moves, heard
  <2> QED BY <2>1, <2>2 DEF GatherInv, Collecting
<1>5. CASE UNCHANGED <<cpc, heard>> BY <1>5 DEF GatherInv, heard
<1>6. ASSUME NEW t \in Tasks, TaskMoves(t) PROVE GatherInv'
  <2>1. order' = order /\ cpc' = cpc /\ waiting' = waiting BY <1>6 DEF TaskMoves
  <2>2. \A q \in Collects, w \in Workers : cpc[q] \in {"first", "second"} => <<q, w>> \notin tstop'
    BY <1>6, TasksKept
  <2> QED BY <2>1, <2>2 DEF GatherInv
<1> QED BY <1>1, <1>2, <1>3, <1>4, <1>5, <1>6, TasksMove DEF Kinds

\* what a collect has heard stays so
LEMMA HeardStays ==
  ASSUME TypeOK, TypeOK', NEW q \in Collects,
         \A t \in Tasks : tpc[t] = "returned" => tpc'[t] = "returned",
         \A t \in Tasks : acc'[t] >= acc[t]
  PROVE  /\ \A W \in SUBSET Workers : AllReturned(q, W) => AllReturned(q, W)'
         /\ AnyResult(q) => AnyResult(q)'
<1>1. \A w \in Workers : <<q, w>> \in Tasks BY DEF Tasks
<1>2. \A W \in SUBSET Workers : AllReturned(q, W) => AllReturned(q, W)' BY <1>1 DEF AllReturned
<1>3. ASSUME AnyResult(q) PROVE AnyResult(q)'
  <2>1. PICK w \in Workers : acc[<<q, w>>] > 0 BY <1>3 DEF AnyResult
  <2>2. acc[<<q, w>>] \in Int /\ acc'[<<q, w>>] \in Int /\ acc'[<<q, w>>] >= acc[<<q, w>>]
      BY <1>1 DEF TypeOK
  <2>3. acc'[<<q, w>>] > 0 BY <2>1, <2>2
  <2> QED BY <2>3 DEF AnyResult
<1> QED BY <1>2, <1>3

LEMMA HeardStep ==
  ASSUME TypeOK, TypeOK', GivenInv, GatherInv, HeardInv, Kinds
  PROVE  HeardInv'
<1> DEFINE Told(q) ==
      /\ cpc[q] = "second" =>
           /\ AllReturned(q, Workers \ pending[q])
           /\ waiting[q] = 0 => AllReturned(q, AlwaysWait)
      /\ cpc[q] \in {"stopping", "done"} =>
           /\ AnyResult(q) \/ AllReturned(q, Workers)
           /\ AllReturned(q, AlwaysWait)
<1>0. \A q \in Collects : Told(q) BY DEF HeardInv
<1> SUFFICES ASSUME NEW q \in Collects PROVE Told(q)' BY DEF HeardInv
<1>a. /\ \A w \in Workers : <<q, w>> \in Tasks
      /\ AlwaysWait \subseteq Workers /\ Workers \ pending[q] \subseteq Workers
  BY SupervisorAssumption DEF Tasks
\* a task that a collect sees as done while it gathers has returned
<1>b. ASSUME cpc[q] \in {"first", "second"}, NEW w \in Workers, Resolved(<<q, w>>)
      PROVE  tpc[<<q, w>>] = "returned"
  <2>1. <<q, w>> \notin tstop BY <1>b DEF GatherInv
  <2>2. tpc[<<q, w>>] \in {"returned", "cancelled"} BY <1>b, <2>1 DEF Resolved, TaskOver
  <2> QED BY <1>a, <2>1, <2>2 DEF GivenInv
<1>1. ASSUME NEW r \in Collects, Gives(r) PROVE Told(q)'
  <2>1. /\ cpc'[q] = IF q = r THEN "first" ELSE cpc[q]
        /\ \A t \in Tasks : tpc'[t] = IF t[1] = r THEN "scheduled" ELSE tpc[t]
    BY <1>1, GivesOrder
  <2>2. /\ pending' = pending /\ acc' = acc
        /\ waiting' = [waiting EXCEPT ![r] = Cardinality(AlwaysWait)]
    BY <1>1 DEF Gives
  <2>3. CASE q = r BY <2>1, <2>3
  <2>4. CASE q # r
    <3>1. \A w \in Workers : tpc'[<<q, w>>] = tpc[<<q, w>>] BY <1>a, <2>1, <2>4
    <3>2. cpc'[q] = cpc[q] /\ waiting'[q] = waiting[q] BY <2>1, <2>2, <2>4 DEF TypeOK
    <3> QED BY <1>0, <1>a, <2>2, <3>1, <3>2 DEF AllReturned, AnyResult
  <2> QED BY <2>3, <2>4
<1>2. ASSUME NEW r \in Collects, FirstReturns(r) PROVE Told(q)'
  <2> DEFINE left == {w \in Workers : ~Resolved(<<r, w>>)}
  <2>1. /\ cpc[r] = "first" /\ UNCHANGED <<tpc, acc>>
        /\ pending' = [pending EXCEPT ![r] = left]
        /\ waiting' = [waiting EXCEPT ![r] = @ - Cardinality(AlwaysWait \ left)]
        /\ IF left # {} /\ (~AnyResult(r) \/ waiting'[r] # 0)
           THEN cpc' = [cpc EXCEPT ![r] = "second"]
           ELSE cpc' = [cpc EXCEPT ![r] = "stopping"]
    BY <1>2 DEF FirstReturns, Leave
  <2>2. CASE q # r
    <3>1. cpc'[q] = cpc[q] /\ waiting'[q] = waiting[q] /\ pending'[q] = pending[q]
      BY <2>1, <2>2 DEF TypeOK
    <3> QED BY <1>0, <2>1, <3>1 DEF AllReturned, AnyResult
  <2>3. CASE q = r
    <3>1. \A w \in Workers \ left : tpc[<<q, w>>] = "returned" BY <1>b, <2>1, <2>3
    <3>2. pending'[q] = left BY <2>1, <2>3 DEF TypeOK
    <3>3. left \subseteq Workers OBVIOUS
    <3>4. waiting'[q] = 0 => AlwaysWait \intersect left = {}
      <4>1. waiting'[q] = Cardinality(AlwaysWait) - Cardinality(AlwaysWait \ left)
        BY <2>1, <2>3 DEF GatherInv, TypeOK
      <4> HIDE DEF left
      <4> QED BY <4>1, Counts
    <3> HIDE DEF left
    <3>6. AlwaysWait \intersect left = {} => AllReturned(q, AlwaysWait)'
      BY <1>a, <2>1, <3>1 DEF AllReturned
    <3>7. left = {} => AllReturned(q, Workers)' /\ AllReturned(q, AlwaysWait)'
      BY <1>a, <2>1, <3>1 DEF AllReturned
    <3>8. CASE cpc' = [cpc EXCEPT ![r] = "second"]
      <4>1. cpc'[q] = "second" BY <2>3, <3>8 DEF TypeOK
      <4>2. AllReturned(q, Workers \ pending[q])'
        BY <2>1, <3>1, <3>2 DEF AllReturned
      <4> QED BY <3>4, <3>6, <4>1, <4>2
    <3>9. CASE cpc' # [cpc EXCEPT ![r] = "second"]
      <4>1. cpc'[q] = "stopping" BY <2>1, <2>3, <3>9 DEF TypeOK
      <4>2. left = {} \/ (AnyResult(q) /\ waiting'[q] = 0) BY <2>1, <2>3, <3>9
      <4>3. AnyResult(q) => AnyResult(q)' BY <2>1 DEF AnyResult
      <4> QED BY <3>4, <3>6, <3>7, <4>1, <4>2, <4>3
    <3> QED BY <3>8, <3>9
  <2> QED BY <2>2, <2>3
<1>3. ASSUME NEW r \in Collects, NEW v \in Workers, SecondYields(r, v) PROVE Told(q)'
  <2>1. /\ cpc[r] = "second" /\ UNCHANGED <<tpc, acc, waiting>>
        /\ Resolved(<<r, v>>)
        /\ pending' = [pending EXCEPT ![r] = @ \ {v}]
        /\ IF pending'[r] = {} \/ (AnyResult(r) /\ waiting[r] = 0)
           THEN cpc' = [cpc EXCEPT ![r] = "stopping"]
           ELSE UNCHANGED cpc
    BY <1>3 DEF SecondYields, Leave
  <2>2. CASE q # r
    <3>1. cpc'[q] = cpc[q] /\ pending'[q] = pending[q] BY <2>1, <2>2 DEF TypeOK
    <3> QED BY <1>0, <2>1, <3>1 DEF AllReturned, AnyResult
  <2>3. CASE q = r
    <3>1. tpc[<<q, v>>] = "returned" BY <1>b, <2>1, <2>3
    <3>2. pending'[q] = pending[q] \ {v} BY <2>1, <2>3 DEF TypeOK
    <3>3. /\ AllReturned(q, Workers \ pending[q])
          /\ waiting[q] = 0 => AllReturned(q, AlwaysWait)
      BY <1>0, <2>1, <2>3
    <3>4. AllReturned(q, Workers \ pending[q])'
      BY <2>1, <3>1, <3>2, <3>3 DEF AllReturned
    <3>5. pending'[q] = {} => AllReturned(q, Workers)' /\ AllReturned(q, AlwaysWait)'
      BY <1>a, <3>4 DEF AllReturned
    <3>6. waiting'[q] = 0 => AllReturned(q, AlwaysWait)' BY <2>1, <3>3 DEF AllReturned
    <3>7. CASE pending'[r] = {} \/ (AnyResult(r) /\ waiting[r] = 0)
      <4>1. cpc'[q] = "stopping" BY <2>1, <2>3, <3>7 DEF TypeOK
      <4>2. AnyResult(q) => AnyResult(q)' BY <2>1 DEF AnyResult
      <4> QED BY <2>1, <2>3, <3>5, <3>6, <3>7, <4>1, <4>2
    <3>8. CASE ~(pending'[r] = {} \/ (AnyResult(r) /\ waiting[r] = 0))
      <4>1. cpc'[q] = "second" BY <2>1, <2>3, <3>8
      <4> QED BY <3>4, <3>6, <4>1
    <3> QED BY <3>7, <3>8
  <2> QED BY <2>2, <2>3
<1>4. ASSUME NEW r \in Collects, NEW p, Moves(r, p) PROVE Told(q)'
  <2>1. UNCHANGED heard BY <1>4 DEF Moves
  <2>2. /\ cpc'[q] = "second" => cpc[q] = "second"
        /\ cpc'[q] \in {"stopping", "done"} => cpc[q] \in {"stopping", "done"}
    BY <1>4 DEF Moves, TypeOK
  <2> QED BY <1>0, <2>1, <2>2 DEF heard, AllReturned, AnyResult
<1>5. CASE UNCHANGED <<cpc, heard>> BY <1>0, <1>5 DEF heard, AllReturned, AnyResult
<1>6. ASSUME NEW t \in Tasks, TaskMoves(t) PROVE Told(q)'
  <2>1. UNCHANGED <<cpc, pending, waiting>> BY <1>6 DEF TaskMoves
  <2>2. \A s \in Tasks : tpc[s] = "returned" => tpc'[s] = "returned"
    BY <1>6 DEF TaskMoves, TaskOver
  <2>3. \A s \in Tasks : acc'[s] >= acc[s] BY <1>6 DEF TaskMoves
  <2>4. /\ \A W \in SUBSET Workers : AllReturned(q, W) => AllReturned(q, W)'
        /\ AnyResult(q) => AnyResult(q)'
    BY <2>2, <2>3, HeardStays
  <2>5. AllReturned(q, Workers \ pending[q]) => AllReturned(q, Workers \ pending[q])'
    BY <1>a, <2>1, <2>2 DEF AllReturned
  <2> QED BY <1>0, <1>a, <2>1, <2>4, <2>5
<1> QED BY <1>1, <1>2, <1>3, <1>4, <1>5, <1>6, TasksMove DEF Kinds

-----------------------------------------------------------------------------
(* The theorems.                                                           *)

LEMMA Inductive == Spec => []IInv
<1>1. Init => IInv BY TypeInit, InvInit DEF IInv
<1>2. IInv /\ [Next]_vars => IInv'
  <2> SUFFICES ASSUME IInv, [Next]_vars PROVE IInv' OBVIOUS
  <2>1. TypeOK' BY TypeStep DEF IInv
  <2>2. Kinds BY StepKinds
  <2>3. GivenInv' /\ ChainInv' /\ IdbInv' /\ GatherInv'
    BY <2>2, GivenStep, ChainStep, IdbStep, GatherStep DEF IInv
  <2>4. HeardInv' BY <2>1, <2>2, HeardStep DEF IInv
  <2> QED BY <2>1, <2>3, <2>4 DEF IInv
<1> QED BY <1>1, <1>2, PTL DEF Spec

(* The types: a collect never waits for fewer than no sources, and nothing is asked
   of a collect or a task that does not exist.                               *)
THEOREM TypeCorrect == Spec => []TypeOK
<1>1. IInv => TypeOK BY DEF IInv
<1> QED BY <1>1, Inductive, PTL

(* docs/PERF.md, for any number of collects and workers: the work of a task begins
   when every earlier one of its worker is over or cancelled, although each cancels
   the one before it only.                                                   *)
THEOREM PreviousAreInterrupted == Spec => []PreviousInterrupted
<1>1. IInv => PreviousInterrupted
  <2> SUFFICES ASSUME IInv, NEW t \in Tasks, NEW q \in Collects,
                      tpc[t] \in {"begun", "working"}, Before(q, t[1])
               PROVE  <<q, t[2]>> \in tstop \/ tpc[<<q, t[2]>>] \in TaskOver
    BY DEF PreviousInterrupted
  <2>1. /\ DOMAIN order = 1 .. Len(order) /\ Len(order) \in Nat
        /\ t[2] \in Workers /\ t = <<t[1], t[2]>>
    BY LenProperties DEF IInv, TypeOK, Tasks
  <2>2. PICK i, j \in 1 .. Len(order) : i < j /\ order[i] = q /\ order[j] = t[1]
    BY DEF Before
  <2>3. i + 1 \in 1 .. Len(order) /\ (i + 1 = j \/ i + 1 < j) BY <2>1, <2>2
  \* the one after q has taken its first step, and with it has cancelled q's task
  <2>4. tpc[<<order[i + 1], t[2]>>] # "scheduled"
    <3>1. tpc[<<order[j], t[2]>>] # "scheduled" BY <2>1, <2>2
    <3> QED BY <2>1, <2>2, <2>3, <3>1 DEF IInv, ChainInv
  <2>5. Resolved(<<q, t[2]>>) BY <2>1, <2>2, <2>3, <2>4 DEF IInv, ChainInv
  <2> QED BY <2>5 DEF Resolved
<1> QED BY <1>1, Inductive, PTL

(* docs/PERF.md: a collect that returns has results, or has heard everybody. *)
THEOREM SomethingOrAllCorrect == Spec => []SomethingOrAll
<1>1. IInv => SomethingOrAll BY DEF IInv, HeardInv, SomethingOrAll, AllReturned
<1> QED BY <1>1, Inductive, PTL

(* A collect that returns has heard every source that must always be waited for,
   though the count of them is never brought up to date past the timeout.    *)
THEOREM AlwaysWaitedCorrect == Spec => []AlwaysWaited
<1>1. IInv => AlwaysWaited BY DEF IInv, HeardInv, AlwaysWaited, AllReturned
<1> QED BY <1>1, Inductive, PTL

(* A collect that returns has heard enough, of both kinds of sources.        *)
THEOREM HeardEnoughCorrect == Spec => []HeardEnough
<1>1. SomethingOrAll /\ AlwaysWaited => HeardEnough BY DEF HeardEnough
<1> QED BY <1>1, SomethingOrAllCorrect, AlwaysWaitedCorrect, PTL

(* The rows of the statistics refer to rows that are there, wherever a task is
   cancelled.                                                                *)
THEOREM RowsRefer == Spec => []RowsExist
<1>1. IInv => RowsExist BY DEF IInv, IdbInv
<1> QED BY <1>1, Inductive, PTL
=============================================================================
