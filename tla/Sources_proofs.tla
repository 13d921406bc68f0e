---------------------------- MODULE Sources_proofs ----------------------------
(***************************************************************************)
(* Theorems about the sources, for every number of keystrokes, files,      *)
(* panes, buffers, requests, processes and instances.                      *)
(***************************************************************************)
EXTENDS TagsIndex, Registers, TmuxPanes, Treesitter, SnippetStore, TabNine, LspCache,
        SequenceTheorems, FiniteSetTheorems, TLAPS

-----------------------------------------------------------------------------
(* Registers.  A register that is being stored is not yet stored as it is now, unless
   it has been read as it is now; a statement has stored what it is there for.   *)

RegStored ==
  /\ \A r \in Regs : regText[r] \in 0 .. regYanks /\ regRows[r] \subseteq 0 .. regYanks
  /\ regYanks \in Nat
  /\ regPoll.regs \subseteq Regs
  /\ \A r \in regPoll.regs : regPoll.at \in RegStatements =>
       /\ regText[r] \in regRows[r] => regPoll.text[r] = regText[r]
       /\ regPoll.text[r] \in 0 .. regYanks
  /\ \A r \in regPoll.regs \ LineRegs : regPoll.at = "lines" /\ r \notin regLost => regRows[r] = {regPoll.text[r]}

RegShape ==
  /\ regText = [r \in Regs |-> regText[r]]
  /\ regPoll = [at |-> regPoll.at, regs |-> regPoll.regs, text |-> regPoll.text]
  /\ regPoll.at \in {"idle", "read"} \union RegStatements
  /\ regEvent = [reg |-> regEvent.reg, large |-> regEvent.large]
  /\ regMarked \subseteq Regs /\ (regEvent = NoEvent \/ regEvent.reg \in Regs)

RegIInv == RegShape /\ RegStored /\ YanksAreKept

LEMMA RegStart == RegInit => RegIInv
BY DEF RegInit, RegIInv, RegShape, RegStored, YanksAreKept, NoRegPoll, NoEvent, RegStatements

LEMMA RegStep == RegIInv /\ [RegNext]_regVars => RegIInv'
<1> SUFFICES ASSUME RegIInv, [RegNext]_regVars PROVE RegIInv' OBVIOUS
<1> USE DEF RegIInv, RegShape, RegStored, YanksAreKept
<1>1. CASE UNCHANGED regVars BY <1>1 DEF regVars
<1>2. ASSUME NEW r \in Regs, Yank(r) PROVE RegIInv'
  <2>1. /\ regYanks' = regYanks + 1 /\ regYanks' \in Nat
        /\ regText' = [regText EXCEPT ![r] = regYanks']
        /\ regEvent' = [reg |-> r, large |-> regEvent'.large]
        /\ regEvent = NoEvent
        /\ UNCHANGED <<regMarked, regPoll, regRows, regLost>>
    BY <1>2 DEF Yank
  <2>2. /\ regText'[r] = regYanks'
        /\ \A q \in Regs : q # r => regText'[q] = regText[q]
    BY <2>1
  <2>3. RegShape' BY <2>1
  <2>4. regYanks' \notin 0 .. regYanks /\ 0 .. regYanks \subseteq 0 .. regYanks' /\ regYanks' \in 0 .. regYanks'
    BY <2>1
  <2>5. RegStored'
    <3>1. \A q \in Regs : regText'[q] \in 0 .. regYanks' /\ regRows'[q] \subseteq 0 .. regYanks'
      BY <2>1, <2>2, <2>4
    <3>2. ASSUME NEW q \in regPoll.regs, regPoll.at \in RegStatements
          PROVE  /\ regText'[q] \in regRows[q] => regPoll.text[q] = regText'[q]
                 /\ regPoll.text[q] \in 0 .. regYanks'
      BY <2>2, <2>4, <3>2
    <3> QED BY <2>1, <3>1, <3>2
  <2>6. YanksAreKept'
    <3>1. ASSUME NEW q \in Regs \ regLost PROVE
              \/ regRows[q] = {regText'[q]} \/ q \in regMarked \/ regEvent'.reg = q
              \/ regPoll.at = "read" /\ q \in regPoll.regs
              \/ regPoll.at \in RegStatements /\ q \in regPoll.regs /\ regPoll.text[q] = regText'[q]
      <4>1. CASE q = r BY <2>1, <4>1
      <4>2. CASE q # r
        <5>1. q \in Regs /\ regEvent.reg = "none" BY <2>1 DEF NoEvent
        <5>2. regEvent.reg # q BY <5>1, RegistersAssumption
        <5>3. regText'[q] = regText[q] BY <2>2, <4>2, <5>1
        <5>4. \/ regRows[q] = {regText[q]} \/ q \in regMarked
              \/ regPoll.at = "read" /\ q \in regPoll.regs
              \/ regPoll.at \in RegStatements /\ q \in regPoll.regs /\ regPoll.text[q] = regText[q]
          BY <5>2
        <5> QED BY <5>3, <5>4
      <4> QED BY <4>1, <4>2
    <3> QED BY <2>1, <3>1
  <2> QED BY <2>3, <2>5, <2>6
<1>3. CASE PostYank
  <2>1. /\ UNCHANGED <<regText, regYanks, regPoll, regRows>> /\ regEvent' = NoEvent
        /\ \/ regMarked' = regMarked /\ regLost' = regLost \union {regEvent.reg}
           \/ regMarked' = regMarked \union {regEvent.reg} /\ regLost' = regLost /\ regEvent # NoEvent
    BY <1>3 DEF PostYank
  <2>2. RegShape'
    BY <2>1 DEF NoEvent
  <2>3. RegStored' BY <2>1
  <2>4. YanksAreKept' BY <2>1
  <2> QED BY <2>2, <2>3, <2>4
<1>4. CASE RegPoll BY <1>4 DEF RegPoll, NoRegPoll, RegStatements
<1>5. CASE RegRead BY <1>5 DEF RegRead, RegStatements
<1>6. CASE RegStatement
  <2> USE DEF RegStatements
  <2>0. regPoll.at \in RegStatements BY <1>6 DEF RegStatement
  <2>1. RegTodo \subseteq regPoll.regs BY <2>0 DEF RegTodo
  <2>a. PICK some \in SUBSET RegTodo :
          /\ regPoll.at = "delete" => some = RegTodo
          /\ regRows' = RegDone(some)
          /\ regLost' = {r \in regLost : regRows'[r] # {regText[r]}} \union (RegTodo \ some)
    BY <1>6 DEF RegStatement
  <2>2. \A r \in Regs : regRows'[r] = IF r \notin some THEN regRows[r]
                                      ELSE IF regPoll.at = "delete" THEN {} ELSE {regPoll.text[r]}
    BY <2>a DEF RegDone
  <2>3. UNCHANGED <<regText, regYanks, regEvent, regMarked>> BY <1>6 DEF RegStatement
  <2>b. \A r \in Regs \ regLost' : regRows'[r] # {regText[r]} => r \notin regLost /\ r \notin RegTodo \ some BY <2>a
  <2>c. \A r \in Regs : regRows'[r] \subseteq 0 .. regYanks
    <3> SUFFICES ASSUME NEW r \in Regs PROVE regRows'[r] \subseteq 0 .. regYanks OBVIOUS
    <3>1. CASE r \in some /\ regPoll.at # "delete"
      <4>1. regPoll.text[r] \in 0 .. regYanks BY <2>0, <2>1, <2>a, <3>1
      <4>2. regRows'[r] = {regPoll.text[r]} BY <2>2, <3>1
      <4> QED BY <4>1, <4>2
    <3>2. CASE r \in some /\ regPoll.at = "delete" BY <2>2, <3>2
    <3>3. CASE r \notin some BY <2>2, <3>3
    <3> QED BY <3>1, <3>2, <3>3
  <2>d. \A r \in regPoll.regs : /\ regText[r] \in regRows'[r] => regPoll.text[r] = regText[r]
                                /\ regPoll.text[r] \in 0 .. regYanks
    <3> SUFFICES ASSUME NEW r \in regPoll.regs
        PROVE /\ regText[r] \in regRows'[r] => regPoll.text[r] = regText[r]
              /\ regPoll.text[r] \in 0 .. regYanks
      OBVIOUS
    <3>1. r \in Regs /\ (regText[r] \in regRows[r] => regPoll.text[r] = regText[r])
          /\ regPoll.text[r] \in 0 .. regYanks
      BY <2>0
    <3>2. regRows'[r] = regRows[r] \/ regRows'[r] = {regPoll.text[r]} \/ regRows'[r] = {} BY <2>2, <3>1
    <3> QED BY <3>1, <3>2
  <2>4. CASE regPoll.at = "delete"
    <3>1. regPoll' = [regPoll EXCEPT !.at = "words"] BY <1>6, <2>4 DEF RegStatement
    <3>2. regPoll'.at = "words" /\ regPoll'.regs = regPoll.regs /\ regPoll'.text = regPoll.text BY <3>1
    <3>3. RegShape' BY <2>3, <3>1
    <3>4. RegStored' BY <2>3, <2>c, <2>d, <3>2
    <3>5. RegTodo = regPoll.regs BY <2>4 DEF RegTodo
    <3>6. YanksAreKept'
      <4> SUFFICES ASSUME NEW r \in Regs \ regLost', regRows'[r] # {regText[r]}
          PROVE \/ r \in regMarked \/ regEvent.reg = r
                \/ r \in regPoll.regs /\ regPoll.text[r] = regText[r]
        BY <2>3, <3>2
      <4>1. r \notin regLost BY <2>b
      <4>2. CASE r \in regPoll.regs BY <2>3, <2>4, <4>1, <4>2
      <4>3. CASE r \notin regPoll.regs
        <5>1. regRows'[r] = regRows[r] BY <2>1, <2>2, <2>a, <4>3
        <5> QED BY <2>4, <4>1, <4>3, <5>1
      <4> QED BY <4>2, <4>3
    <3> QED BY <3>3, <3>4, <3>6
  <2>5. CASE regPoll.at = "words"
    <3>1. RegTodo = regPoll.regs \ LineRegs BY <2>5 DEF RegTodo
    <3>2. regPoll' = [regPoll EXCEPT !.at = "lines"] BY <1>6, <2>5 DEF RegStatement
    <3>3. regPoll'.at = "lines" /\ regPoll'.regs = regPoll.regs /\ regPoll'.text = regPoll.text
      BY <3>2
    <3>4. RegShape' BY <2>3, <3>2
    <3>5. RegStored'
      <4>1. ASSUME NEW r \in regPoll.regs \ LineRegs, r \notin regLost' PROVE regRows'[r] = {regPoll.text[r]}
        <5>1. r \in some /\ r \in Regs BY <2>a, <3>1, <4>1
        <5> QED BY <2>2, <2>5, <5>1
      <4> QED BY <2>3, <2>c, <2>d, <3>3, <4>1
    <3>6. YanksAreKept'
      <4> SUFFICES ASSUME NEW r \in Regs \ regLost', regRows'[r] # {regText[r]}
          PROVE \/ r \in regMarked \/ regEvent.reg = r
                \/ r \in regPoll.regs /\ regPoll.text[r] = regText[r]
        BY <2>3, <3>3
      <4>1. r \notin regLost BY <2>b
      <4>2. CASE r \in some
        <5>1. r \in regPoll.regs /\ regRows'[r] = {regPoll.text[r]} BY <2>1, <2>2, <2>5, <2>a, <4>2
        <5> QED BY <2>5, <2>d, <4>1, <5>1
      <4>3. CASE r \notin some
        <5>1. regRows'[r] = regRows[r] BY <2>2, <4>3
        <5> QED BY <2>5, <4>1, <5>1
      <4> QED BY <4>2, <4>3
    <3> QED BY <3>4, <3>5, <3>6
  <2>6. CASE regPoll.at = "lines"
    <3>1. RegTodo = regPoll.regs \intersect LineRegs BY <2>6 DEF RegTodo
    <3>3. regPoll' = NoRegPoll BY <1>6, <2>6 DEF RegStatement
    <3>6. RegShape' BY <2>3, <3>3 DEF NoRegPoll
    <3>7. RegStored' BY <2>3, <2>c, <3>3 DEF NoRegPoll
    <3>8. YanksAreKept'
      <4> SUFFICES ASSUME NEW r \in Regs \ regLost', regRows'[r] # {regText[r]}
          PROVE r \in regMarked \/ regEvent.reg = r
        BY <2>3
      <4>1. r \notin regLost /\ r \notin RegTodo \ some BY <2>b
      <4>2. CASE r \in regPoll.regs
        <5>1. regRows'[r] = {regPoll.text[r]}
          <6>1. CASE r \in LineRegs
            <7>1. r \in some BY <3>1, <4>1, <4>2, <6>1
            <7> QED BY <2>2, <2>6, <7>1
          <6>2. CASE r \notin LineRegs
            <7>1. regRows[r] = {regPoll.text[r]} BY <2>6, <4>1, <4>2, <6>2
            <7>2. r \notin some BY <2>a, <3>1, <6>2
            <7> QED BY <2>2, <7>1, <7>2
          <6> QED BY <6>1, <6>2
        <5>2. regPoll.text[r] # regText[r] BY <5>1
        <5>3. regRows[r] # {regText[r]} BY <2>6, <4>2, <5>2
        <5> QED BY <2>6, <4>1, <5>2, <5>3
      <4>3. CASE r \notin regPoll.regs
        <5>1. regRows'[r] = regRows[r] BY <2>1, <2>2, <2>a, <4>3
        <5> QED BY <2>6, <4>1, <4>3, <5>1
      <4> QED BY <4>2, <4>3
    <3> QED BY <3>6, <3>7, <3>8
  <2> QED BY <2>0, <2>4, <2>5, <2>6
<1>7. CASE RegCancel BY <1>7 DEF RegCancel, NoRegPoll, RegStatements
<1>8. CASE RegAbort
  <2> USE DEF RegStatements
  <2>0. regPoll.at \in RegStatements BY <1>8 DEF RegAbort
  <2>1. RegTodo \subseteq regPoll.regs BY <2>0 DEF RegTodo
  <2>2. PICK some \in SUBSET RegTodo : regRows' = RegDone(some) BY <1>8 DEF RegAbort
  <2>3. \A r \in Regs : regRows'[r] = IF r \notin some THEN regRows[r]
                                      ELSE IF regPoll.at = "delete" THEN {} ELSE {regPoll.text[r]}
    BY <2>2 DEF RegDone
  <2>4. /\ UNCHANGED <<regText, regYanks, regEvent, regMarked>>
        /\ regPoll' = NoRegPoll /\ regLost' = regLost \union regPoll.regs
    BY <1>8 DEF RegAbort
  <2>5. \A r \in Regs \ regPoll.regs : regRows'[r] = regRows[r] BY <2>1, <2>2, <2>3
  <2>6. RegShape' BY <2>4 DEF NoRegPoll
  <2>7. RegStored'
    <3>1. \A r \in Regs : regRows'[r] \subseteq 0 .. regYanks
      <4>1. \A r \in some : r \in regPoll.regs BY <2>1, <2>2
      <4>2. \A r \in some : regPoll.text[r] \in 0 .. regYanks BY <2>0, <4>1
      <4> SUFFICES ASSUME NEW r \in Regs PROVE regRows'[r] \subseteq 0 .. regYanks OBVIOUS
      <4>3. CASE r \in some /\ regPoll.at # "delete"
        <5>1. regRows'[r] = {regPoll.text[r]} BY <2>3, <4>3
        <5> QED BY <4>2, <4>3, <5>1
      <4>4. CASE r \in some /\ regPoll.at = "delete" BY <2>3, <4>4
      <4>5. CASE r \notin some BY <2>3, <4>5
      <4> QED BY <4>3, <4>4, <4>5
    <3> QED BY <2>4, <3>1 DEF NoRegPoll
  <2>8. YanksAreKept' BY <2>0, <2>4, <2>5
  <2> QED BY <2>6, <2>7, <2>8
<1> QED BY <1>1, <1>2, <1>3, <1>4, <1>5, <1>6, <1>7, <1>8 DEF RegNext

(* No yank is lost between the marks being taken away and the text being read, for
   any number of registers and yanks.                                        *)
THEOREM YanksAreKeptCorrect == RegSpec => []YanksAreKept
<1>1. RegIInv => YanksAreKept BY DEF RegIInv
<1> QED BY <1>1, RegStart, RegStep, PTL DEF RegSpec

-----------------------------------------------------------------------------
(* TabNine.  At most one process runs, and it is _proc; between two requests there is
   nothing on its way to or from it, and in a request only that request or its reply. *)

Waits(p, id) ==
  \/ t9Procs[p].ins = <<id>> /\ t9Procs[p].outs = <<>>
  \/ t9Procs[p].ins = <<>> /\ t9Procs[p].outs = <<id>>
Silent(p) == t9Procs[p].ins = <<>> /\ t9Procs[p].outs = <<>>

T9P == [dir : T9Dirs, alive : BOOLEAN, ins : Seq(Nat), outs : Seq(Nat)]
T9C == [at : {"free", "spawn", "write", "read"}, id : Nat, dir : T9Dirs \union {"none"}, proc : Nat]

T9Shape ==
  /\ t9Procs \in Seq(T9P)
  /\ t9Proc \in 0 .. Len(t9Procs)
  /\ t9Comm \in T9C
  /\ t9Comm.at # "free" => t9Comm.dir \in T9Dirs
  /\ t9Reqs \in Nat

T9One ==
  /\ \A q \in 1 .. Len(t9Procs) : t9Procs[q].alive => q = t9Proc
  /\ t9Proc # 0 => t9Procs[t9Proc].dir = t9Cwd
  /\ t9Comm.at \in {"free", "spawn"} /\ t9Proc # 0 => Silent(t9Proc)
  /\ t9Comm.at = "spawn" /\ t9Proc # 0 => t9Cwd = t9Comm.dir
  /\ t9Comm.at \in {"write", "read"} =>
       /\ t9Comm.proc \in 1 .. Len(t9Procs) /\ t9Proc \in {0, t9Comm.proc}
       /\ t9Procs[t9Comm.proc].dir = t9Comm.dir
  /\ t9Comm.at = "write" => Silent(t9Comm.proc)
  /\ t9Comm.at = "read" => Waits(t9Comm.proc, t9Comm.id)

T9IInv == T9Shape /\ T9One

LEMMA T9Start == T9Init => T9IInv
<1> SUFFICES ASSUME T9Init PROVE T9IInv OBVIOUS
<1> USE DEF T9Init, NoComm
<1>1. t9Procs \in Seq(T9P) /\ Len(t9Procs) = 0 BY EmptySeq
<1>2. T9Shape BY <1>1 DEF T9Shape, T9C
<1>3. T9One BY <1>1 DEF T9One
<1> QED BY <1>2, <1>3 DEF T9IInv

LEMMA T9Update ==
  ASSUME T9Shape, NEW p \in 1 .. Len(t9Procs), NEW new \in T9P, t9Procs' = [t9Procs EXCEPT ![p] = new]
  PROVE  /\ t9Procs' \in Seq(T9P) /\ Len(t9Procs') = Len(t9Procs)
         /\ t9Procs'[p] = new /\ \A q \in 1 .. Len(t9Procs) : q # p => t9Procs'[q] = t9Procs[q]
<1>1. t9Procs \in Seq(T9P) BY DEF T9Shape
<1> QED BY <1>1, ExceptSeq

LEMMA KilledSays ==
  ASSUME T9Shape
  PROVE  /\ Killed(t9Procs) \in Seq(T9P) /\ Len(Killed(t9Procs)) = Len(t9Procs)
         /\ \A q \in 1 .. Len(t9Procs) :
              /\ Killed(t9Procs)[q].dir = t9Procs[q].dir
              /\ Killed(t9Procs)[q].ins = t9Procs[q].ins /\ Killed(t9Procs)[q].outs = t9Procs[q].outs
              /\ Killed(t9Procs)[q].alive => t9Procs[q].alive /\ q # t9Proc
<1>1. t9Procs \in Seq(T9P) /\ Len(t9Procs) \in Nat BY LenProperties DEF T9Shape
<1>2. CASE t9Proc = 0 BY <1>1, <1>2 DEF Killed
<1>3. CASE t9Proc # 0
  <2>1. t9Proc \in 1 .. Len(t9Procs) BY <1>1, <1>3 DEF T9Shape
  <2>2. t9Procs[t9Proc] \in T9P BY <1>1, <2>1, ElementOfSeq
  <2>3. Killed(t9Procs) = [t9Procs EXCEPT ![t9Proc] = [t9Procs[t9Proc] EXCEPT !.alive = FALSE]]
    BY <1>3 DEF Killed
  <2>4. [t9Procs[t9Proc] EXCEPT !.alive = FALSE] \in T9P BY <2>2 DEF T9P
  <2>5. /\ Killed(t9Procs) \in Seq(T9P) /\ Len(Killed(t9Procs)) = Len(t9Procs)
        /\ \A q \in 1 .. Len(t9Procs) :
             Killed(t9Procs)[q] = IF q = t9Proc THEN [t9Procs[t9Proc] EXCEPT !.alive = FALSE] ELSE t9Procs[q]
    BY <1>1, <2>1, <2>3, <2>4, ExceptSeq
  <2> QED BY <2>2, <2>5 DEF T9P
<1> QED BY <1>2, <1>3

LEMMA T9AskStep == ASSUME T9IInv, NEW dir \in T9Dirs, T9Ask(dir) PROVE T9IInv'
<1> USE DEF T9IInv
<1>0. /\ Len(t9Procs) \in Nat /\ t9Procs \in Seq(T9P) BY LenProperties DEF T9Shape
\* the processes, with the one there was killed if it is for another directory
<1>1. \/ t9Cwd # dir /\ t9Proc' = 0 /\ t9Procs' = Killed(t9Procs)
      \/ (t9Cwd = dir \/ t9Comm' = t9Comm) /\ UNCHANGED <<t9Proc, t9Procs>>
  BY DEF T9Ask
<1>2. /\ t9Procs' \in Seq(T9P) /\ Len(t9Procs') = Len(t9Procs) /\ t9Proc' \in {0, t9Proc}
      /\ \A q \in 1 .. Len(t9Procs) :
           /\ t9Procs'[q].dir = t9Procs[q].dir
           /\ t9Procs'[q].ins = t9Procs[q].ins /\ t9Procs'[q].outs = t9Procs[q].outs
           /\ t9Procs'[q].alive => t9Procs[q].alive /\ (t9Proc' = t9Proc \/ q # t9Proc)
  BY <1>0, <1>1, KilledSays
<1>3. /\ t9Cwd' = t9Cwd /\ t9Reqs' = t9Reqs + 1
      /\ \/ t9Comm' = t9Comm
         \/ /\ t9Comm.at = "free"
            /\ t9Comm' = [at |-> "spawn", id |-> t9Reqs', dir |-> dir, proc |-> 0]
            /\ t9Proc' # 0 => t9Cwd = dir
  BY <1>1 DEF T9Ask
<1>4. T9Shape'
  <2>1. t9Comm' \in T9C
        /\ (t9Comm'.at # "free" => t9Comm'.dir \in T9Dirs) /\ t9Reqs' \in Nat
    BY <1>3 DEF T9Shape, T9C
  <2>2. t9Proc' \in 0 .. Len(t9Procs') BY <1>0, <1>2 DEF T9Shape
  <2> QED BY <1>2, <2>1, <2>2 DEF T9Shape
<1>5. \A q \in 1 .. Len(t9Procs') : t9Procs'[q].alive => q = t9Proc'
  BY <1>2 DEF T9One
<1>6. t9Proc' # 0 => t9Procs'[t9Proc'].dir = t9Cwd' /\ t9Proc' = t9Proc
  BY <1>0, <1>2, <1>3 DEF T9One, T9Shape
<1>7. t9Proc' # 0 => t9Proc' \in 1 .. Len(t9Procs) BY <1>0, <1>2 DEF T9Shape
<1>8. CASE t9Comm' = t9Comm
  BY <1>2, <1>3, <1>5, <1>6, <1>7, <1>8, <1>4 DEF T9One, Silent, Waits
<1>9. CASE t9Comm' # t9Comm
  BY <1>2, <1>3, <1>5, <1>6, <1>7, <1>9, <1>4 DEF T9One, Silent, Waits
<1> QED BY <1>8, <1>9

LEMMA T9CommType ==
  /\ NoComm \in T9C
  /\ \A c \in T9C : /\ [c EXCEPT !.at = "read"] \in T9C
                   /\ \A p \in Nat : [c EXCEPT !.at = "write", !.proc = p] \in T9C
BY DEF T9C, NoComm

LEMMA T9SpawnStep == ASSUME T9IInv, T9Spawn PROVE T9IInv'
<1> USE DEF T9IInv
<1>0. /\ Len(t9Procs) \in Nat /\ t9Procs \in Seq(T9P) BY LenProperties DEF T9Shape
<1>1. CASE t9Proc # 0
  <2>1. /\ t9Comm.at = "spawn" /\ UNCHANGED <<t9Proc, t9Cwd, t9Procs, t9Reqs>>
        /\ t9Comm' = [t9Comm EXCEPT !.at = "write", !.proc = t9Proc]
    BY <1>1 DEF T9Spawn
  <2>2. /\ t9Comm'.at = "write" /\ t9Comm'.proc = t9Proc /\ t9Comm'.dir = t9Comm.dir
        /\ t9Proc \in 1 .. Len(t9Procs)
    BY <1>0, <1>1, <2>1 DEF T9Shape
  <2>3. T9Shape'
    <3>1. t9Comm \in T9C /\ t9Proc \in Nat BY <1>0, <2>2 DEF T9Shape
    <3>2. t9Comm' \in T9C BY <2>1, <3>1, T9CommType, Zenon
    <3> QED BY <2>1, <2>2, <3>2 DEF T9Shape
  <2>4. T9One' BY <1>1, <2>1, <2>2 DEF T9One, Silent
  <2> QED BY <2>3, <2>4
<1>2. CASE t9Proc = 0 /\ t9Comm' = NoComm
  <2>1. UNCHANGED <<t9Proc, t9Cwd, t9Procs, t9Reqs>> BY <1>2 DEF T9Spawn, Release, NoComm
  <2>2. t9Comm'.at = "free" BY <1>2 DEF NoComm
  <2>3. T9Shape' BY <1>2, <2>1, <2>2, T9CommType DEF T9Shape
  <2>4. T9One' BY <1>2, <2>1, <2>2 DEF T9One
  <2> QED BY <2>3, <2>4
<1>3. CASE t9Proc = 0 /\ t9Comm' # NoComm
  <2> DEFINE new == [dir |-> t9Comm.dir, alive |-> TRUE, ins |-> <<>>, outs |-> <<>>]
  <2>1. /\ t9Comm.at = "spawn" /\ t9Procs' = Append(t9Procs, new)
        /\ t9Proc' = Len(t9Procs') /\ t9Cwd' = t9Comm.dir /\ t9Reqs' = t9Reqs
        /\ t9Comm' = [t9Comm EXCEPT !.at = "write", !.proc = Len(t9Procs')]
    BY <1>3 DEF T9Spawn, Release
  <2>2. new \in T9P BY <2>1, EmptySeq DEF T9P, T9Shape
  <2>3. /\ t9Procs' \in Seq(T9P) /\ Len(t9Procs') = Len(t9Procs) + 1 /\ t9Procs'[Len(t9Procs) + 1] = new
        /\ \A q \in 1 .. Len(t9Procs) : t9Procs'[q] = t9Procs[q]
    BY <1>0, <2>1, <2>2, AppendProperties
  <2>4. /\ t9Comm'.at = "write" /\ t9Comm'.proc = t9Proc' /\ t9Comm'.dir = t9Comm.dir
        /\ t9Proc' = Len(t9Procs) + 1 /\ t9Proc' \in 1 .. Len(t9Procs')
    BY <1>0, <2>1, <2>3 DEF T9Shape
  <2>5. T9Shape'
    <3>1. t9Comm \in T9C /\ Len(t9Procs') \in Nat BY <1>0, <2>3 DEF T9Shape
    <3>3. t9Comm' \in T9C BY <2>1, <3>1, T9CommType, Zenon
    <3>2. t9Proc' \in 0 .. Len(t9Procs') BY <1>0, <2>3, <2>4
    <3> QED BY <2>1, <2>3, <2>4, <3>2, <3>3 DEF T9Shape
  <2>6. \A q \in 1 .. Len(t9Procs') : t9Procs'[q].alive => q = t9Proc'
    <3> SUFFICES ASSUME NEW q \in 1 .. Len(t9Procs'), q # t9Proc' PROVE ~t9Procs'[q].alive OBVIOUS
    <3>1. q \in 1 .. Len(t9Procs) BY <1>0, <2>3, <2>4
    <3>2. q # 0 BY <3>1
    <3> QED BY <1>3, <2>3, <3>1, <3>2 DEF T9One
  <2>7. t9Procs'[t9Proc'] = new BY <2>3, <2>4
  <2> QED BY <2>1, <2>4, <2>5, <2>6, <2>7 DEF T9One, Silent
<1> QED BY <1>1, <1>2, <1>3

\* what has been sent and not read changes for one process
LEMMA T9ProcStep ==
  ASSUME T9IInv, NEW p \in 1 .. Len(t9Procs), NEW new \in T9P,
         t9Procs' = [t9Procs EXCEPT ![p] = new], new.dir = t9Procs[p].dir,
         new.alive => t9Procs[p].alive,
         UNCHANGED <<t9Proc, t9Cwd, t9Reqs>>, t9Comm' \in T9C,
         t9Comm'.at # "free" => t9Comm'.dir \in T9Dirs,
         \/ t9Comm' = t9Comm \/ t9Comm' = NoComm
         \/ t9Comm.at = "write" /\ t9Comm' = [t9Comm EXCEPT !.at = "read"],
         t9Comm'.at \in {"free", "spawn"} /\ t9Proc = p => new.ins = <<>> /\ new.outs = <<>>,
         t9Comm'.at = "write" /\ t9Comm.proc = p => new.ins = <<>> /\ new.outs = <<>>,
         t9Comm'.at = "read" /\ t9Comm.proc = p =>
           \/ new.ins = <<t9Comm.id>> /\ new.outs = <<>>
           \/ new.ins = <<>> /\ new.outs = <<t9Comm.id>>,
         t9Comm'.at # t9Comm.at => t9Comm.proc = p
  PROVE  T9IInv'
<1> USE DEF T9IInv
<1>0. Len(t9Procs) \in Nat BY LenProperties DEF T9Shape
<1>1. /\ t9Procs' \in Seq(T9P) /\ Len(t9Procs') = Len(t9Procs)
      /\ t9Procs'[p] = new /\ \A q \in 1 .. Len(t9Procs) : q # p => t9Procs'[q] = t9Procs[q]
  BY T9Update
<1>2. T9Shape' BY <1>1 DEF T9Shape
<1>3. \A q \in 1 .. Len(t9Procs) : /\ t9Procs'[q].dir = t9Procs[q].dir
                                    /\ t9Procs'[q].alive => t9Procs[q].alive
  BY <1>1
<1>4. t9Proc # 0 => t9Proc \in 1 .. Len(t9Procs) BY <1>0 DEF T9Shape
<1>5. /\ \A q \in 1 .. Len(t9Procs') : t9Procs'[q].alive => q = t9Proc'
      /\ t9Proc' # 0 => t9Procs'[t9Proc'].dir = t9Cwd'
  BY <1>1, <1>3, <1>4 DEF T9One
<1>6. CASE t9Comm' = t9Comm
  <2>1. t9Comm.at \in {"free", "spawn"} /\ t9Proc # 0 => Silent(t9Proc)'
    BY <1>1, <1>4, <1>6 DEF T9One, Silent
  <2>2. t9Comm.at \in {"write", "read"} =>
          /\ t9Comm.proc \in 1 .. Len(t9Procs') /\ t9Proc \in {0, t9Comm.proc}
          /\ t9Procs'[t9Comm.proc].dir = t9Comm.dir
    BY <1>1, <1>3 DEF T9One
  <2>3. t9Comm.at = "write" => Silent(t9Comm.proc)' BY <1>1, <1>6 DEF T9One, Silent
  <2>4. t9Comm.at = "read" => Waits(t9Comm.proc, t9Comm.id)' BY <1>1, <1>6 DEF T9One, Waits
  <2>5. t9Comm.at = "spawn" /\ t9Proc # 0 => t9Cwd = t9Comm.dir BY DEF T9One
  <2> QED BY <1>2, <1>5, <1>6, <2>1, <2>2, <2>3, <2>4, <2>5 DEF T9One, Silent, Waits
<1>7. CASE t9Comm' = NoComm /\ t9Comm' # t9Comm
  <2>1. t9Comm'.at = "free" BY <1>7 DEF NoComm
  <2>2. t9Proc # 0 => Silent(t9Proc)'
    <3>1. CASE t9Proc = p BY <1>1, <2>1, <3>1 DEF Silent
    <3>2. CASE t9Proc # p /\ t9Proc # 0
      <4>1. t9Comm.at \in {"free", "spawn"}
        <5>1. t9Comm.at = "free" \/ t9Comm.proc = p BY <2>1
        <5> QED BY <3>2, <5>1 DEF T9One, T9Shape, T9C
      <4>2. Silent(t9Proc) BY <3>2, <4>1 DEF T9One
      <4> QED BY <1>1, <1>4, <3>2, <4>2 DEF Silent
    <3> QED BY <3>1, <3>2
  <2> QED BY <1>2, <1>5, <2>1, <2>2 DEF T9One, Silent
<1>8. CASE t9Comm.at = "write" /\ t9Comm' = [t9Comm EXCEPT !.at = "read"]
  <2>1. /\ t9Comm'.at = "read" /\ t9Comm'.proc = t9Comm.proc /\ t9Comm'.id = t9Comm.id
        /\ t9Comm'.dir = t9Comm.dir
    BY <1>8 DEF T9Shape, T9C
  <2>2. /\ t9Comm.proc \in 1 .. Len(t9Procs') /\ t9Proc \in {0, t9Comm.proc}
        /\ t9Procs'[t9Comm.proc].dir = t9Comm.dir
    BY <1>1, <1>3, <1>8 DEF T9One
  <2>3. t9Comm.proc = p BY <1>8, <2>1
  <2>4. Waits(t9Comm.proc, t9Comm.id)' BY <1>1, <2>1, <2>3 DEF Waits
  <2> QED BY <1>2, <1>5, <2>1, <2>2, <2>4 DEF T9One, Waits
<1> QED BY <1>6, <1>7, <1>8

LEMMA T9BrokenStep == ASSUME T9IInv, T9Broken PROVE T9IInv'
<1> USE DEF T9IInv
<1>0. Len(t9Procs) \in Nat BY LenProperties DEF T9Shape
<1>1. /\ t9Comm' = NoComm /\ t9Proc' = 0 /\ t9Procs' = Killed(t9Procs) /\ t9Reqs' = t9Reqs
  BY DEF T9Broken, Release
<1>2. t9Comm'.at = "free" BY <1>1 DEF NoComm
<1>3. /\ t9Procs' \in Seq(T9P) /\ Len(t9Procs') = Len(t9Procs)
      /\ \A q \in 1 .. Len(t9Procs) : t9Procs'[q].alive => t9Procs[q].alive /\ q # t9Proc
  BY <1>1, KilledSays
<1>4. T9Shape'
  <2>1. t9Proc' \in 0 .. Len(t9Procs') BY <1>0, <1>1, <1>3
  <2>2. t9Comm' \in T9C /\ t9Reqs' \in Nat BY <1>1, T9CommType DEF T9Shape
  <2> QED BY <1>2, <1>3, <2>1, <2>2 DEF T9Shape
<1>5. T9One' BY <1>1, <1>2, <1>3 DEF T9One
<1> QED BY <1>4, <1>5

LEMMA T9Step == T9IInv /\ [T9Next]_t9Vars => T9IInv'
<1> SUFFICES ASSUME T9IInv, [T9Next]_t9Vars PROVE T9IInv' OBVIOUS
<1> DEFINE same == UNCHANGED <<t9Proc, t9Cwd, t9Procs, t9Comm, t9Reqs>>
<1>0. /\ Len(t9Procs) \in Nat /\ t9Procs \in Seq(T9P) /\ t9Comm \in T9C
      /\ \A p \in 1 .. Len(t9Procs) : t9Procs[p] \in T9P
  BY LenProperties, ElementOfSeq DEF T9IInv, T9Shape
<1>1. ASSUME same PROVE T9IInv' BY <1>1 DEF T9IInv, T9Shape, T9One, Silent, Waits
<1>2. CASE UNCHANGED t9Vars BY <1>1, <1>2 DEF t9Vars
<1>3. CASE T9Install \/ T9Extract \/ T9Move \/ T9Lock \/ T9Fails \/ T9Die
  BY <1>1, <1>3 DEF T9Install, T9Extract, T9Move, T9Lock, T9Fails, T9Die, t9Talk
<1>4. CASE T9Cancel BY <1>1, <1>4 DEF T9Cancel
<1>5. CASE T9Write
  <2> DEFINE p == t9Comm.proc
             new == [t9Procs[p] EXCEPT !.ins = Append(@, t9Comm.id)]
  <2>1. /\ p \in 1 .. Len(t9Procs) /\ t9Procs[p].ins = <<>> /\ t9Procs[p].outs = <<>>
    BY <1>5 DEF T9Write, T9IInv, T9One, Silent
  <2>2. t9Comm.id \in Nat /\ t9Comm.dir \in T9Dirs BY <1>0, <1>5 DEF T9C, T9Write, T9IInv, T9Shape
  <2>3. new.ins = <<t9Comm.id>> /\ new.outs = <<>> /\ new.dir = t9Procs[p].dir /\ new.alive = t9Procs[p].alive
    BY <1>0, <2>1 DEF T9P
  <2>4. new \in T9P
    <3>1. <<t9Comm.id>> \in Seq(Nat) BY <2>2
    <3>2. new = [t9Procs[p] EXCEPT !.ins = <<t9Comm.id>>] BY <2>1
    <3> QED BY <1>0, <2>1, <3>1, <3>2 DEF T9P
  <2>5. /\ t9Procs' = [t9Procs EXCEPT ![p] = new] /\ t9Comm' = [t9Comm EXCEPT !.at = "read"]
        /\ t9Comm.at = "write" /\ UNCHANGED <<t9Proc, t9Cwd, t9Reqs>>
    BY <1>5 DEF T9Write
  <2>6. t9Comm' \in T9C /\ t9Comm'.at = "read" /\ t9Comm'.dir = t9Comm.dir BY <1>0, <2>5 DEF T9C
  <2> HIDE DEF p, new
  <2>7. t9Comm.proc = p BY DEF p
  <2> QED BY <2>1, <2>2, <2>3, <2>4, <2>5, <2>6, <2>7, T9ProcStep
<1>6. CASE T9Read
  <2> DEFINE p == t9Comm.proc
             new == [t9Procs[p] EXCEPT !.outs = Tail(@)]
  <2>1. p \in 1 .. Len(t9Procs) /\ t9Procs[p].ins = <<>> /\ t9Procs[p].outs = <<t9Comm.id>>
    BY <1>6 DEF T9Read, T9IInv, T9One, Waits
  <2>2. new.ins = <<>> /\ new.outs = <<>> /\ new.dir = t9Procs[p].dir /\ new.alive = t9Procs[p].alive
    BY <1>0, <2>1 DEF T9P
  <2>3. new \in T9P
    <3>1. new = [t9Procs[p] EXCEPT !.outs = <<>>] BY <2>1
    <3> QED BY <1>0, <2>1, <3>1, EmptySeq DEF T9P
  <2>4. /\ t9Procs' = [t9Procs EXCEPT ![p] = new] /\ t9Comm' = NoComm
        /\ UNCHANGED <<t9Proc, t9Cwd, t9Reqs>>
    BY <1>6 DEF T9Read, Release
  <2>5. t9Comm' \in T9C /\ t9Comm'.at = "free" BY <2>4, T9CommType DEF NoComm
  <2> HIDE DEF p, new
  <2>6. t9Comm.proc = p BY DEF p
  <2> QED BY <2>1, <2>2, <2>3, <2>4, <2>5, <2>6, T9ProcStep
<1>7. ASSUME NEW p \in 1 .. Len(t9Procs), T9Answer(p) PROVE T9IInv'
  <2> DEFINE new == [t9Procs[p] EXCEPT !.ins = Tail(@), !.outs = Append(@, Head(t9Procs[p].ins))]
  <2>1. /\ t9Procs[p].alive /\ t9Procs[p].ins # <<>> /\ UNCHANGED <<t9Proc, t9Cwd, t9Comm, t9Reqs>>
        /\ t9Procs' = [t9Procs EXCEPT ![p].ins = Tail(@), ![p].outs = Append(@, Head(t9Procs[p].ins))]
    BY <1>7 DEF T9Answer
  <2>2. t9Proc = p /\ p # 0 BY <2>1 DEF T9IInv, T9One
  \* only the request of the comm is on its way
  <2>3. /\ t9Comm.at = "read" /\ t9Comm.proc = p
        /\ t9Procs[p].ins = <<t9Comm.id>> /\ t9Procs[p].outs = <<>>
    BY <1>0, <2>1, <2>2 DEF T9IInv, T9One, Silent, Waits, T9C
  <2>4. t9Comm.id \in Nat BY <1>0 DEF T9C
  <2>5. new = [t9Procs[p] EXCEPT !.ins = <<>>, !.outs = <<t9Comm.id>>] BY <2>3
  <2>6. new \in T9P
    <3>1. <<t9Comm.id>> \in Seq(Nat) /\ <<>> \in Seq(Nat) BY <2>4
    <3> QED BY <1>0, <2>5, <3>1 DEF T9P
  <2>7. new.ins = <<>> /\ new.outs = <<t9Comm.id>> /\ new.dir = t9Procs[p].dir /\ new.alive = t9Procs[p].alive
    BY <1>0, <2>5 DEF T9P
  <2>8. t9Procs' = [t9Procs EXCEPT ![p] = new] BY <1>0, <2>1
  <2>9. t9Comm' \in T9C /\ (t9Comm'.at # "free" => t9Comm'.dir \in T9Dirs)
    BY <1>0, <2>1 DEF T9IInv, T9Shape
  <2> HIDE DEF new
  <2> QED BY <2>1, <2>3, <2>6, <2>7, <2>8, <2>9, T9ProcStep
<1>8. ASSUME NEW p \in 1 .. Len(t9Procs), T9Exit(p) PROVE T9IInv'
  <2> DEFINE new == [t9Procs[p] EXCEPT !.alive = FALSE]
  <2>1. /\ t9Procs' = [t9Procs EXCEPT ![p] = new] /\ t9Procs[p].alive
        /\ UNCHANGED <<t9Proc, t9Cwd, t9Comm, t9Reqs>>
    BY <1>8 DEF T9Exit
  <2>2. new \in T9P BY <1>0 DEF T9P
  <2>3. new.ins = t9Procs[p].ins /\ new.outs = t9Procs[p].outs /\ new.dir = t9Procs[p].dir /\ ~new.alive
    BY <1>0 DEF T9P
  <2>4. t9Comm' \in T9C /\ (t9Comm'.at # "free" => t9Comm'.dir \in T9Dirs)
    BY <1>0, <2>1 DEF T9IInv, T9Shape
  <2>5. /\ t9Comm.at \in {"free", "spawn"} /\ t9Proc = p => new.ins = <<>> /\ new.outs = <<>>
        /\ t9Comm.at = "write" /\ t9Comm.proc = p => new.ins = <<>> /\ new.outs = <<>>
        /\ t9Comm.at = "read" /\ t9Comm.proc = p =>
             \/ new.ins = <<t9Comm.id>> /\ new.outs = <<>>
             \/ new.ins = <<>> /\ new.outs = <<t9Comm.id>>
    BY <2>3 DEF T9IInv, T9One, Silent, Waits
  <2> HIDE DEF new
  <2> QED BY <2>1, <2>2, <2>3, <2>4, <2>5, T9ProcStep
<1> QED BY <1>2, <1>3, <1>4, <1>5, <1>6, <1>7, <1>8, T9AskStep, T9SpawnStep, T9BrokenStep DEF T9Next, T9Process

(* What is read is the reply to the request that has been written, and no process is
   left behind, for any number of directories, processes and requests.       *)
THEOREM RepliesAreOwnCorrect == T9Spec => []RepliesAreOwn
<1>1. T9IInv => RepliesAreOwn
  <2> SUFFICES ASSUME T9IInv PROVE RepliesAreOwn OBVIOUS
  <2>1. \A q \in 1 .. Len(t9Procs) : t9Procs[q].alive => q = t9Proc BY DEF T9IInv, T9One
  <2>2. ASSUME t9Comm.at \in {"write", "read"}
        PROVE  /\ t9Procs[t9Comm.proc].dir = t9Comm.dir
               /\ t9Comm.at = "read" /\ t9Procs[t9Comm.proc].outs # <<>> => t9Procs[t9Comm.proc].outs = <<t9Comm.id>>
    BY <2>2 DEF T9IInv, T9One, Waits
  <2> QED BY <2>1, <2>2 DEF RepliesAreOwn
<1> QED BY <1>1, T9Start, T9Step, PTL DEF T9Spec

-----------------------------------------------------------------------------
(* The cache of language servers.  Works begin in the order of their contexts, _cache_ctx
   is the last that has begun, and a poll that is under way asks for no older one; what is
   cached, or is to be, or is left in an iterator, was asked for in the row of _cache_ctx, or
   for a context whose work has not begun.                                                       *)

LcOfRow(items) ==
  \A item \in items : item.ctx \in lcBegan => lcRow[item.ctx] = lcRow[lcCtx]

LcShape ==
  /\ lcRow \in Seq(LcRows) /\ lcStarted \in 0 .. Current /\ lcCtx \in 0 .. lcStarted
  /\ lcBegan \subseteq 1 .. lcCtx
  /\ lcWork.at \in {"off", "lock", "ask", "stream", "over"}
  /\ lcPoll.at \in {"off", "woken", "left", "ask", "stream"}
  /\ lcWork = [at |-> lcWork.at, ctx |-> lcWork.ctx, req |-> lcWork.req]
  /\ lcPoll = [at |-> lcPoll.at, ctx |-> lcPoll.ctx, req |-> lcPoll.req]

LcOrder ==
  /\ lcWork.at # "off" => lcWork.ctx = lcStarted /\ lcStarted # 0
  /\ LcLocked => lcWork.ctx = lcCtx
  /\ lcPoll.at = "stream" => lcPoll.ctx \in lcStarted .. Current

LcRowInv ==
  /\ LcOfRow(lcCached) /\ LcOfRow(lcPost) /\ LcOfRow(lcPre)
  /\ LcLocked => LcOfRow(lcOffered)

LcIInv == LcShape /\ LcOrder /\ LcRowInv

LEMMA LcStart == LcInit => LcIInv
<1> SUFFICES ASSUME LcInit PROVE LcIInv OBVIOUS
<1>1. lcRow \in Seq(LcRows) /\ Len(lcRow) = 0 BY EmptySeq DEF LcInit
<1> QED BY <1>1 DEF LcInit, LcIInv, LcShape, LcOrder, LcRowInv, LcOfRow, NoTask, Current, LcLocked

LEMMA LcBeginStep == ASSUME LcIInv, LcBegin PROVE LcIInv'
<1> USE DEF LcIInv, LcShape, LcOrder
<1> DEFINE ctx == lcWork.ctx
<1>0. Current \in Nat BY LenProperties DEF Current
<1>1. /\ lcWork.at = "lock" /\ lcCtx' = ctx /\ lcOffered' = Stored(ctx)
      /\ lcWork' \in {[lcWork EXCEPT !.at = "ask"], [lcWork EXCEPT !.at = "over"]}
      /\ lcPre' \in {{}, Stored(ctx)}
      /\ lcBegan' = lcBegan \union {ctx}
      /\ UNCHANGED <<lcRow, lcStarted, lcPoll>>
  BY DEF LcBegin, ApplyCache
<1>2. /\ ctx = lcStarted /\ ctx \in 1 .. Current /\ ctx \in 1 .. ctx /\ lcCtx \in 0 .. ctx
      /\ 1 .. lcCtx \subseteq 1 .. ctx
  BY <1>0, <1>1
<1>3. /\ lcWork'.at \in {"ask", "over"} /\ lcWork'.ctx = ctx /\ Current' = Current
      /\ lcWork' = [at |-> lcWork'.at, ctx |-> lcWork'.ctx, req |-> lcWork'.req]
  BY <1>1 DEF Current
<1>4. LcShape' BY <1>1, <1>2, <1>3
<1>5. LcOrder' BY <1>1, <1>2, <1>3 DEF LcLocked
<1>6. CASE UseCache(ctx)
  <2>1. /\ lcRow[lcCtx] = lcRow[ctx] /\ lcCached' = lcCached /\ lcPost' = lcPost \union lcPre
        /\ lcOffered' = lcPre /\ lcPre' \subseteq lcPre
    BY <1>1, <1>6 DEF UseCache, LcBegin, ApplyCache, Stored
  <2>2. LcRowInv' BY <1>1, <1>3, <2>1 DEF LcRowInv, LcOfRow
  <2> QED BY <1>4, <1>5, <2>2
<1>7. CASE ~UseCache(ctx)
  <2>1. lcCached' = {} /\ lcPost' = {} /\ lcPre' = {} /\ lcOffered' = {}
    BY <1>1, <1>7 DEF LcBegin, ApplyCache, Stored
  <2> QED BY <1>3, <1>4, <1>5, <2>1 DEF LcRowInv, LcOfRow
<1> QED BY <1>6, <1>7

LEMMA LcStep == LcIInv /\ [LcNext]_lcVars => LcIInv'
<1> SUFFICES ASSUME LcIInv, [LcNext]_lcVars PROVE LcIInv' OBVIOUS
<1> USE DEF LcIInv, LcShape, LcOrder, LcRowInv, LcOfRow, LcLocked
<1>0. Current \in Nat BY LenProperties DEF Current
<1>1. CASE UNCHANGED lcVars BY <1>1 DEF lcVars, Current
<1>2. ASSUME NEW row \in LcRows, LcKeystroke(row) PROVE LcIInv'
  <2>1. /\ lcRow' = Append(lcRow, row)
        /\ UNCHANGED <<lcStarted, lcWork, lcPoll, lcCtx, lcCached, lcPost, lcPre, lcBegan, lcOffered>>
    BY <1>2 DEF LcKeystroke, lcCache
  <2>2. /\ lcRow' \in Seq(LcRows) /\ Current' = Current + 1
        /\ \A i \in 1 .. Current : lcRow'[i] = lcRow[i]
    BY <2>1, AppendProperties DEF Current
  <2>3. \A c \in lcBegan : lcRow'[c] = lcRow[c] /\ lcRow'[lcCtx] = lcRow[lcCtx]
    <3>1. \A c \in lcBegan : c \in 1 .. Current /\ lcCtx \in 1 .. Current BY <1>0
    <3> QED BY <2>2, <3>1
  <2>4. LcShape' BY <1>0, <2>1, <2>2
  <2>5. LcOrder' BY <1>0, <2>1, <2>2
  <2>6. LcRowInv' BY <2>1, <2>3
  <2> QED BY <2>4, <2>5, <2>6
<1>3. CASE LcSupervised
  <2>1. /\ lcStarted < Current /\ lcStarted' = Current
        /\ lcWork' = [at |-> "lock", ctx |-> Current, req |-> 0]
        /\ lcPoll' \in {lcPoll, NoTask, [NoTask EXCEPT !.at = "woken"]} /\ lcPoll'.at # "stream"
        /\ UNCHANGED <<lcRow, lcCtx, lcCached, lcPost, lcPre, lcBegan, lcOffered>>
    BY <1>3 DEF LcSupervised, Woken, NoTask, lcCache
  <2>2. Current' = Current BY <2>1 DEF Current
  <2>3. LcShape' BY <1>0, <2>1, <2>2 DEF NoTask
  <2>4. LcOrder' BY <1>0, <2>1, <2>2
  <2> QED BY <2>1, <2>3, <2>4
<1>4. CASE LcBegin BY <1>4, LcBeginStep
<1>5. CASE LcAsk
  <2>1. lcOffered' \subseteq lcOffered \union lcCached BY <1>5 DEF LcAsk, Selected
  <2>2. /\ lcWork' = [lcWork EXCEPT !.at = "stream", !.req = lcReqs'] /\ lcWork.at = "ask"
        /\ UNCHANGED <<lcRow, lcStarted, lcPoll, lcCtx, lcCached, lcPost, lcPre, lcBegan>>
    BY <1>5 DEF LcAsk
  <2> QED BY <2>1, <2>2 DEF Current
<1>6. CASE LcAnswer BY <1>6 DEF LcAnswer, Current
<1>12. CASE LcBreaks
  <2> DEFINE item == [ctx |-> lcWork.ctx, req |-> lcWork.req]
  <2>1. /\ lcWork.at = "stream" /\ lcWork' = [lcWork EXCEPT !.at = "over"]
        /\ lcPost' = lcPost \union {item} /\ lcPre' = {item}
        /\ UNCHANGED <<lcRow, lcStarted, lcPoll, lcCtx, lcCached, lcBegan, lcOffered>>
    BY <1>12 DEF LcBreaks
  <2>2. item.ctx = lcCtx BY <2>1
  <2>3. LcShape' BY <2>1 DEF Current
  <2>4. LcOrder' BY <2>1 DEF Current
  <2>5. LcRowInv' BY <2>1, <2>2
  <2> QED BY <2>3, <2>4, <2>5
<1>7. CASE LcEnd BY <1>7 DEF LcEnd, NoTask, Woken, lcCache, Current
<1>8. CASE LcPollBegins
  <2>1. /\ lcPoll'.at # "stream" /\ lcPoll'.at \in {"off", "ask", "left"}
        /\ lcPoll' = [at |-> lcPoll'.at, ctx |-> lcPoll'.ctx, req |-> lcPoll'.req]
        /\ UNCHANGED <<lcRow, lcStarted, lcWork, lcCtx, lcPost, lcPre, lcBegan, lcOffered>>
    BY <1>8 DEF LcPollBegins, NoTask
  <2>2. lcCached' \subseteq lcCached \union lcPost BY <1>8 DEF LcPollBegins, SetCache
  <2> QED BY <2>1, <2>2 DEF Current
<1>13. CASE LcPollContinues
  <2>1. /\ lcPoll' = [lcPoll EXCEPT !.at = "ask"]
        /\ UNCHANGED <<lcRow, lcStarted, lcWork, lcCtx, lcPost, lcBegan, lcOffered>>
    BY <1>13 DEF LcPollContinues
  <2>2. lcCached' \subseteq lcCached \union lcPre /\ lcPre' \subseteq lcPre
    BY <1>13 DEF LcPollContinues, SetCache
  <2> QED BY <2>1, <2>2 DEF Current
<1>9. CASE LcPollAsks
  <2>1. Current \in lcStarted .. Current BY <1>0
  <2> QED BY <1>9, <2>1 DEF LcPollAsks, lcCache, Current
<1>10. CASE LcPollStores
  <2>1. /\ lcPoll.at = "stream" /\ lcCached' = lcCached \union {[ctx |-> lcPoll.ctx, req |-> lcPoll.req]}
        /\ UNCHANGED <<lcRow, lcStarted, lcWork, lcPoll, lcCtx, lcPost, lcPre, lcBegan, lcOffered>>
    BY <1>10 DEF LcPollStores, SetCache
  \* a context whose work has begun is not newer than the newest that has
  <2>2. lcPoll.ctx \in lcBegan => lcPoll.ctx = lcCtx BY <1>0, <2>1
  <2> QED BY <2>1, <2>2 DEF Current
<1>11. CASE LcPollEnds BY <1>11 DEF LcPollEnds, NoTask, lcCache, Current
<1> QED BY <1>1, <1>2, <1>3, <1>4, <1>5, <1>6, <1>7, <1>8, <1>9, <1>10, <1>11, <1>12, <1>13 DEF LcNext

(* What is offered from the cache was asked for in the row it is offered in, for any
   number of keystrokes, works, polls and answers.                           *)
THEOREM OffersAreOfTheRowCorrect == LcSpec => []OffersAreOfTheRow
<1>1. LcIInv => OffersAreOfTheRow
  BY DEF LcIInv, LcOrder, LcRowInv, LcOfRow, OffersAreOfTheRow, LcLocked
<1> QED BY <1>1, LcStart, LcStep, PTL DEF LcSpec

-----------------------------------------------------------------------------
(* Tags.  A poll knows of a file what it was, and its tags, all of them, are not older. *)

TagShape ==
  /\ tagDb = [d \in TagDirs |-> [rows |-> tagDb[d].rows, tags |-> tagDb[d].tags]]
  /\ tagDisk = [f \in TagFiles |-> tagDisk[f]]
  /\ \A f \in TagFiles : tagDisk[f] = [v |-> tagDisk[f].v, there |-> tagDisk[f].there, some |-> tagDisk[f].some]
  /\ tagPoll = [at |-> tagPoll.at, left |-> tagPoll.left, existing |-> tagPoll.existing,
                mtimes |-> tagPoll.mtimes, found |-> tagPoll.found]
  /\ tagPoll.at \in TagsAt /\ tagCwd \in TagDirs
  /\ \A f \in TagFiles : tagDisk[f].v \in Int

TagStored ==
  \A d \in TagDirs :
    /\ \A f \in DOMAIN tagDb[d].rows : f \in TagFiles /\ tagDb[d].rows[f] \in Int
    /\ \A t \in tagDb[d].tags : t.file \in DOMAIN tagDb[d].rows

TagRead ==
  /\ \A f \in DOMAIN tagPoll.mtimes :
       f \in TagFiles /\ tagPoll.mtimes[f] \in Int /\ tagPoll.mtimes[f] <= tagDisk[f].v
  /\ tagPoll.at = "ls" => tagPoll.mtimes = <<>>
  /\ tagPoll.at = "ctags" => tagPoll.left \subseteq DOMAIN tagPoll.mtimes

TagFound ==
  /\ tagPoll.at \in {"idle", "ls", "stat"} => tagPoll.found = {}
  /\ \A t \in tagPoll.found :
       /\ t.file \in DOMAIN tagPoll.mtimes /\ t.of \in Int /\ t.of >= tagPoll.mtimes[t.file]
       /\ t.name \in TagNames
       /\ \A n \in TagNames : \E u \in tagPoll.found : u.file = t.file /\ u.name = n

TagWritten ==
  /\ tagPoll.at = "insert" => \A f \in TagsNew : f \notin DOMAIN tagDb[tagCwd].rows
  /\ tagPoll.at = "tags" => \A f \in TagsNew :
       /\ f \in DOMAIN tagDb[tagCwd].rows /\ tagDb[tagCwd].rows[f] = tagPoll.mtimes[f]
       /\ \A t \in tagDb[tagCwd].tags : t.file # f

TagIInv == TagShape /\ TagStored /\ TagRead /\ TagFound /\ TagWritten /\ TagsAreOfTheRow

LEMMA TagStart == TagsInit => TagIInv
<1> SUFFICES ASSUME TagsInit PROVE TagIInv OBVIOUS
<1> USE DEF TagsInit, NoTagsPoll
<1>0. /\ tagPoll = [at |-> "ls", left |-> {}, existing |-> <<>>, mtimes |-> <<>>, found |-> {}]
      /\ \A d \in TagDirs : tagDb[d] = [rows |-> <<>>, tags |-> {}]
      /\ \A f \in TagFiles : tagDisk[f] = [v |-> 1, there |-> TRUE, some |-> TRUE]
  OBVIOUS
<1>1. TagShape
  <2>1. tagDb = [d \in TagDirs |-> [rows |-> tagDb[d].rows, tags |-> tagDb[d].tags]] BY <1>0
  <2>2. /\ tagDisk = [f \in TagFiles |-> tagDisk[f]]
        /\ \A f \in TagFiles : tagDisk[f] = [v |-> tagDisk[f].v, there |-> tagDisk[f].there, some |-> tagDisk[f].some]
    BY <1>0
  <2>3. /\ tagPoll = [at |-> tagPoll.at, left |-> tagPoll.left, existing |-> tagPoll.existing,
                      mtimes |-> tagPoll.mtimes, found |-> tagPoll.found]
        /\ tagPoll.at \in TagsAt /\ tagCwd \in TagDirs
    BY <1>0 DEF TagsAt, TagDirs
  <2>4. \A f \in TagFiles : tagDisk[f].v \in Int BY <1>0
  <2> QED BY <2>1, <2>2, <2>3, <2>4 DEF TagShape
<1>2. \A d \in TagDirs : DOMAIN tagDb[d].rows = {} /\ tagDb[d].tags = {} OBVIOUS
<1>3. TagStored /\ TagsAreOfTheRow BY <1>2 DEF TagStored, TagsAreOfTheRow
<1>4. tagPoll.mtimes = <<>> /\ DOMAIN tagPoll.mtimes = {} /\ tagPoll.found = {} /\ tagPoll.at = "ls" OBVIOUS
<1>5. TagRead /\ TagFound /\ TagWritten BY <1>4 DEF TagRead, TagFound, TagWritten
<1> QED BY <1>1, <1>3, <1>5 DEF TagIInv

(* What the steps outside of a statement leave: they touch no database, and none is made
   while statements run.                                                               *)
LEMMA TagOutside ==
  ASSUME TagIInv, UNCHANGED <<tagDb, tagTorn>>,
         UNCHANGED <<tagPoll, tagCwd>> \/ (~TagsWriting /\ tagPoll'.at \notin {"insert", "tags"})
  PROVE  TagStored' /\ TagWritten' /\ TagsAreOfTheRow'
<1>1. TagStored' BY DEF TagIInv, TagStored
<1>2. CASE UNCHANGED <<tagPoll, tagCwd>>
  BY <1>1, <1>2 DEF TagIInv, TagWritten, TagsAreOfTheRow, TagsNew, Writing, TagsOf
<1>3. CASE ~TagsWriting /\ tagPoll'.at \notin {"insert", "tags"}
  <2>1. TagWritten' BY <1>3 DEF TagWritten
  <2>2. \A d, f : ~Writing(d, f) BY <1>3 DEF Writing, TagsWriting
  <2>3. TagsAreOfTheRow' BY <2>2 DEF TagIInv, TagsAreOfTheRow, TagsOf
  <2> QED BY <1>1, <2>1, <2>3
<1> QED BY <1>2, <1>3

(* A statement, whole or in part.                                                       *)
LEMMA TagWrites ==
  ASSUME TagIInv, TagsWriting, UNCHANGED <<tagDisk, tagCwd>>, NEW some \in SUBSET TagsTodo,
         tagDb' = [tagDb EXCEPT ![tagCwd] = TagsDone(@, some)]
  PROVE  /\ TagStored'
         /\ tagDb' = [d \in TagDirs |-> [rows |-> tagDb'[d].rows, tags |-> tagDb'[d].tags]]
         /\ \A d \in TagDirs \ {tagCwd} : tagDb'[d] = tagDb[d]
         /\ tagDb'[tagCwd] = TagsDone(tagDb[tagCwd], some)
<1> USE DEF TagIInv, TagShape
<1>1. /\ \A d \in TagDirs \ {tagCwd} : tagDb'[d] = tagDb[d]
      /\ tagDb'[tagCwd] = TagsDone(tagDb[tagCwd], some) /\ DOMAIN tagDb' = TagDirs
      /\ tagDb' = [d \in TagDirs |-> tagDb'[d]]
  OBVIOUS
<1> DEFINE db == tagDb[tagCwd] new == TagsDone(db, some)
<1>2. db = [rows |-> db.rows, tags |-> db.tags] OBVIOUS
<1>3. /\ \A f \in DOMAIN db.rows : f \in TagFiles /\ db.rows[f] \in Int
      /\ \A t \in db.tags : t.file \in DOMAIN db.rows
  BY DEF TagStored
<1>4. /\ new = [rows |-> new.rows, tags |-> new.tags]
      /\ \A f \in DOMAIN new.rows : f \in TagFiles /\ new.rows[f] \in Int
      /\ \A t \in new.tags : t.file \in DOMAIN new.rows
  <2>1. CASE tagPoll.at = "delete"
    <3>1. new = TagsDelete(db, some) BY <2>1 DEF TagsDone
    <3> QED BY <3>1, <1>3 DEF TagsDelete
  <2>2. CASE tagPoll.at = "insert"
    <3>1. new = TagsInsert(db, some) BY <2>2 DEF TagsDone
    <3>2. some \subseteq TagsNew BY <2>2 DEF TagsTodo
    <3>3. \A f \in some : f \in TagFiles /\ tagPoll.mtimes[f] \in Int
      <4> SUFFICES ASSUME NEW f \in some PROVE f \in TagFiles /\ tagPoll.mtimes[f] \in Int OBVIOUS
      <4>1. PICK t \in tagPoll.found : t.file = f BY <3>2 DEF TagsNew
      <4> QED BY <4>1 DEF TagFound, TagRead
    <3>4. new.tags = db.tags /\ new = [rows |-> new.rows, tags |-> new.tags]
          /\ new.rows = [g \in DOMAIN db.rows \union some |-> IF g \in some THEN tagPoll.mtimes[g] ELSE db.rows[g]]
      BY <3>1, <1>2 DEF TagsInsert
    <3> QED BY <3>3, <3>4, <1>3
  <2>3. CASE tagPoll.at = "tags"
    <3>1. new = TagsReplace(db, some) BY <2>3 DEF TagsDone
    <3>2. some \subseteq tagPoll.found BY <2>3 DEF TagsTodo
    <3>3. \A t \in some : t.file \in DOMAIN db.rows
      BY <3>2, <2>3 DEF TagsNew, TagWritten
    <3>4. new.rows = db.rows /\ new = [rows |-> new.rows, tags |-> new.tags]
          /\ new.tags = {u \in db.tags : \A t \in some : u.file # t.file \/ u.name # t.name} \union some
      BY <3>1, <1>2 DEF TagsReplace
    <3> QED BY <3>3, <3>4, <1>3
  <2> QED BY <2>1, <2>2, <2>3 DEF TagsWriting
<1>5. TagStored' 
  <2> SUFFICES ASSUME NEW d \in TagDirs
      PROVE /\ \A f \in DOMAIN tagDb'[d].rows : f \in TagFiles /\ tagDb'[d].rows[f] \in Int
            /\ \A t \in tagDb'[d].tags : t.file \in DOMAIN tagDb'[d].rows
    BY DEF TagStored
  <2>1. CASE d = tagCwd BY <2>1, <1>1, <1>4
  <2>2. CASE d # tagCwd BY <2>2, <1>1 DEF TagStored
  <2> QED BY <2>1, <2>2
<1>6. \A d \in TagDirs : tagDb'[d] = [rows |-> tagDb'[d].rows, tags |-> tagDb'[d].tags]
  BY <1>1, <1>4
<1> QED BY <1>1, <1>5, <1>6

(* Of a file that a statement does not touch, all stays.                                *)
LEMMA TagSame ==
  ASSUME TagsAreOfTheRow, NEW d \in TagDirs, NEW f \in DOMAIN tagDb'[d].rows,
         f \in DOMAIN tagDb[d].rows, tagDb'[d].rows[f] = tagDb[d].rows[f],
         TagsOf(d, f)' = TagsOf(d, f), ~Writing(d, f), <<d, f>> \notin tagTorn
  PROVE  {t.name : t \in TagsOf(d, f)'} = TagNames /\ \A t \in TagsOf(d, f)' : t.of >= tagDb'[d].rows[f]
<1>1. {t.name : t \in TagsOf(d, f)} = TagNames /\ \A t \in TagsOf(d, f) : t.of >= tagDb[d].rows[f]
  BY DEF TagsAreOfTheRow
<1> HIDE DEF TagsOf
<1> QED BY <1>1

LEMMA TagStep == TagIInv /\ [TagsNext]_tagsVars => TagIInv'
<1> SUFFICES ASSUME TagIInv, [TagsNext]_tagsVars PROVE TagIInv' OBVIOUS
<1> USE DEF TagIInv
<1>0. CASE UNCHANGED tagsVars
  <2>1. TagShape' /\ TagRead' /\ TagFound' BY <1>0 DEF tagsVars, TagShape, TagRead, TagFound
  <2> QED BY <2>1, <1>0, TagOutside DEF tagsVars
<1>1. ASSUME NEW f \in TagFiles, TagsSave(f) PROVE TagIInv'
  <2>1. /\ UNCHANGED <<tagDb, tagCwd, tagPoll, tagTorn>>
        /\ \A g \in TagFiles : tagDisk'[g].v \in Int /\ tagDisk'[g].v >= tagDisk[g].v
    BY <1>1 DEF TagsSave, TagShape
  <2>2. PICK b \in BOOLEAN : tagDisk' = [tagDisk EXCEPT ![f] = [v |-> @.v + 1, there |-> TRUE, some |-> b]]
    BY <1>1 DEF TagsSave
  <2>3. /\ tagDisk' = [g \in TagFiles |-> tagDisk'[g]]
        /\ \A g \in TagFiles : tagDisk'[g] = [v |-> tagDisk'[g].v, there |-> tagDisk'[g].there, some |-> tagDisk'[g].some]
    BY <2>2 DEF TagShape
  <2>4. TagShape' BY <2>1, <2>3 DEF TagShape
  <2>5. TagRead'
    <3>1. \A g \in DOMAIN tagPoll.mtimes :
            g \in TagFiles /\ tagPoll.mtimes[g] \in Int /\ tagPoll.mtimes[g] <= tagDisk'[g].v
      <4> SUFFICES ASSUME NEW g \in DOMAIN tagPoll.mtimes
          PROVE g \in TagFiles /\ tagPoll.mtimes[g] \in Int /\ tagPoll.mtimes[g] <= tagDisk'[g].v OBVIOUS
      <4>1. g \in TagFiles /\ tagPoll.mtimes[g] \in Int /\ tagPoll.mtimes[g] <= tagDisk[g].v BY DEF TagRead
      <4>2. tagDisk[g].v \in Int /\ tagDisk'[g].v \in Int /\ tagDisk'[g].v >= tagDisk[g].v BY <2>1, <4>1 DEF TagShape
      <4> QED BY <4>1, <4>2
    <3> QED BY <2>1, <3>1 DEF TagRead
  <2>6. TagFound' BY <2>1 DEF TagFound
  <2> QED BY <2>1, <2>4, <2>5, <2>6, TagOutside
<1>2. ASSUME NEW f \in TagFiles, TagsClose(f) PROVE TagIInv'
  <2>1. UNCHANGED <<tagDisk, tagDb, tagCwd, tagPoll, tagTorn>> BY <1>2 DEF TagsClose
  <2>2. TagShape' /\ TagRead' /\ TagFound' BY <2>1 DEF TagShape, TagRead, TagFound
  <2> QED BY <2>1, <2>2, TagOutside
<1>3. ASSUME NEW f \in TagFiles, TagsRemove(f) PROVE TagIInv'
  <2>1. /\ UNCHANGED <<tagDb, tagCwd, tagPoll, tagTorn>>
        /\ tagDisk' = [tagDisk EXCEPT ![f].there = FALSE]
    BY <1>3 DEF TagsRemove
  <2>2. /\ tagDisk' = [g \in TagFiles |-> tagDisk'[g]]
        /\ \A g \in TagFiles : tagDisk'[g] = [v |-> tagDisk'[g].v, there |-> tagDisk'[g].there, some |-> tagDisk'[g].some]
    BY <2>1 DEF TagShape
  <2>3. \A g \in TagFiles : tagDisk'[g].v = tagDisk[g].v BY <2>1 DEF TagShape
  <2>4. TagShape' BY <2>1, <2>2, <2>3 DEF TagShape
  <2>5. TagRead' BY <2>1, <2>3 DEF TagRead
  <2>6. TagFound' BY <2>1 DEF TagFound
  <2> QED BY <2>1, <2>4, <2>5, <2>6, TagOutside
<1>4. CASE TagsSwap
  <2>1. UNCHANGED <<tagDisk, tagDb, tagPoll, tagTorn>> /\ ~TagsWriting /\ tagCwd' = 3 - tagCwd BY <1>4 DEF TagsSwap
  <2>2. tagPoll'.at \notin {"insert", "tags"} BY <2>1 DEF TagsWriting
  <2>3. TagShape' BY <2>1 DEF TagShape, TagDirs
  <2>4. TagRead' /\ TagFound' BY <2>1 DEF TagRead, TagFound
  <2> QED BY <2>1, <2>2, <2>3, <2>4, TagOutside
\* the steps of a poll before it writes
<1>5. ASSUME UNCHANGED <<tagDisk, tagDb, tagCwd, tagTorn>>, ~TagsWriting, TagRead', TagFound',
             tagPoll' = [at |-> tagPoll'.at, left |-> tagPoll'.left, existing |-> tagPoll'.existing,
                         mtimes |-> tagPoll'.mtimes, found |-> tagPoll'.found],
             tagPoll'.at \in TagsAt \ {"insert", "tags"}
      PROVE  TagIInv'
  <2>1. TagShape' BY <1>5 DEF TagShape
  <2> QED BY <1>5, <2>1, TagOutside
<1>6. CASE TagsIdle \/ TagsCancel
  <2>1. /\ tagPoll'.at \in {"ls", "idle"} /\ tagPoll'.mtimes = <<>> /\ DOMAIN tagPoll'.mtimes = {} /\ tagPoll'.found = {}
        /\ tagPoll' = [at |-> tagPoll'.at, left |-> tagPoll'.left, existing |-> tagPoll'.existing,
                       mtimes |-> tagPoll'.mtimes, found |-> tagPoll'.found]
        /\ UNCHANGED <<tagDisk, tagDb, tagCwd, tagTorn>> /\ ~TagsWriting
    BY <1>6 DEF TagsIdle, TagsCancel, NoTagsPoll, tagsOutside, TagsWriting
  <2>2. TagRead' /\ TagFound' BY <2>1 DEF TagRead, TagFound
  <2> QED BY <1>5, <2>1, <2>2 DEF TagsAt
<1>7. CASE TagsLs
  <2>1. /\ tagPoll'.at = "stat" /\ tagPoll'.mtimes = tagPoll.mtimes /\ tagPoll'.found = tagPoll.found
        /\ tagPoll' = [at |-> tagPoll'.at, left |-> tagPoll'.left, existing |-> tagPoll'.existing,
                       mtimes |-> tagPoll'.mtimes, found |-> tagPoll'.found]
        /\ UNCHANGED <<tagDisk, tagDb, tagCwd, tagTorn>> /\ tagPoll.at = "ls"
    BY <1>7 DEF TagsLs, tagsOutside, TagShape
  <2>2. TagRead' /\ TagFound' BY <2>1 DEF TagRead, TagFound
  <2> QED BY <1>5, <2>1, <2>2 DEF TagsAt, TagsWriting
<1>8. ASSUME NEW f \in TagFiles, TagsStat(f) PROVE TagIInv'
  <2> DEFINE m == tagPoll.mtimes
             new == IF ~tagDisk[f].there THEN m
                    ELSE [g \in DOMAIN m \union {f} |-> IF g = f THEN tagDisk[f].v ELSE m[g]]
  <2>1. /\ tagPoll'.at = "stat" /\ tagPoll'.mtimes = new /\ tagPoll'.found = tagPoll.found
        /\ tagPoll' = [at |-> tagPoll'.at, left |-> tagPoll'.left, existing |-> tagPoll'.existing,
                       mtimes |-> tagPoll'.mtimes, found |-> tagPoll'.found]
        /\ UNCHANGED <<tagDisk, tagDb, tagCwd, tagTorn>> /\ tagPoll.at = "stat"
    BY <1>8 DEF TagsStat, tagsOutside, TagShape
  <2>2. \A g \in DOMAIN new : g \in TagFiles /\ new[g] \in Int /\ new[g] <= tagDisk[g].v
    <3>1. \A g \in DOMAIN m : g \in TagFiles /\ m[g] \in Int /\ m[g] <= tagDisk[g].v BY DEF TagRead
    <3>2. CASE ~tagDisk[f].there BY <3>1, <3>2
    <3>3. CASE tagDisk[f].there
      <4> HIDE DEF m
      <4>1. \A g \in DOMAIN new : g \in DOMAIN m \union {f} /\ new[g] = IF g = f THEN tagDisk[f].v ELSE m[g]
        BY <3>3
      <4>2. tagDisk[f].v \in Int /\ tagDisk[f].v <= tagDisk[f].v BY DEF TagShape
      <4> HIDE DEF new
      <4> QED BY <3>1, <4>1, <4>2
    <3> QED BY <3>2, <3>3
  <2> HIDE DEF new
  <2>3. TagRead' BY <2>1, <2>2 DEF TagRead
  <2>4. tagPoll'.found = {} BY <2>1 DEF TagFound
  <2>5. TagFound' BY <2>4 DEF TagFound
  <2> QED BY <1>5, <2>1, <2>3, <2>5 DEF TagsAt, TagsWriting
<1>9. CASE TagsQuery
  <2>1. /\ tagPoll'.at = "ctags" /\ tagPoll'.mtimes = tagPoll.mtimes /\ tagPoll'.found = tagPoll.found
        /\ tagPoll'.left \subseteq DOMAIN tagPoll.mtimes
        /\ tagPoll' = [at |-> tagPoll'.at, left |-> tagPoll'.left, existing |-> tagPoll'.existing,
                       mtimes |-> tagPoll'.mtimes, found |-> tagPoll'.found]
        /\ UNCHANGED <<tagDisk, tagDb, tagCwd, tagTorn>> /\ tagPoll.at = "stat"
    BY <1>9 DEF TagsQuery, tagsOutside, TagShape
  <2>2. TagRead' /\ TagFound' BY <2>1 DEF TagRead, TagFound
  <2> QED BY <1>5, <2>1, <2>2 DEF TagsAt, TagsWriting
<1>10. ASSUME NEW f \in TagFiles, TagsCtags(f) PROVE TagIInv'
  <2> DEFINE more == [file : {f}, name : TagNames, of : {tagDisk[f].v}]
  <2>1. /\ tagPoll'.at = "ctags" /\ tagPoll'.mtimes = tagPoll.mtimes
        /\ tagPoll'.found \in {tagPoll.found, tagPoll.found \union more}
        /\ f \in tagPoll.left /\ tagPoll'.left = tagPoll.left \ {f}
        /\ tagPoll' = [at |-> tagPoll'.at, left |-> tagPoll'.left, existing |-> tagPoll'.existing,
                       mtimes |-> tagPoll'.mtimes, found |-> tagPoll'.found]
        /\ UNCHANGED <<tagDisk, tagDb, tagCwd, tagTorn>> /\ tagPoll.at = "ctags"
    BY <1>10 DEF TagsCtags, tagsOutside, TagShape
  <2>2. TagRead' BY <2>1 DEF TagRead
  <2>3. f \in DOMAIN tagPoll.mtimes /\ tagDisk[f].v \in Int /\ tagDisk[f].v >= tagPoll.mtimes[f] /\ tagPoll.mtimes[f] \in Int
    BY <2>1 DEF TagRead, TagShape
  <2>4. /\ \A t \in more : t.file = f /\ t.name \in TagNames /\ t.of = tagDisk[f].v
        /\ \A n \in TagNames : [file |-> f, name |-> n, of |-> tagDisk[f].v] \in more
    OBVIOUS
  <2>5. \A n \in TagNames : \E u \in more : u.file = f /\ u.name = n BY <2>4
  <2> HIDE DEF more
  <2>6. TagFound' BY <2>1, <2>3, <2>4, <2>5 DEF TagFound
  <2> QED BY <1>5, <2>1, <2>2, <2>6 DEF TagsAt, TagsWriting
<1>11. CASE TagsParse
  <2>1. /\ tagPoll'.at = "delete" /\ tagPoll'.mtimes = tagPoll.mtimes /\ tagPoll'.found = tagPoll.found
        /\ tagPoll' = [at |-> tagPoll'.at, left |-> tagPoll'.left, existing |-> tagPoll'.existing,
                       mtimes |-> tagPoll'.mtimes, found |-> tagPoll'.found]
        /\ UNCHANGED <<tagDisk, tagDb, tagCwd, tagTorn>> /\ tagPoll.at = "ctags"
    BY <1>11 DEF TagsParse, tagsOutside, TagShape
  <2>2. TagRead' /\ TagFound' BY <2>1 DEF TagRead, TagFound
  <2> QED BY <1>5, <2>1, <2>2 DEF TagsAt, TagsWriting
\* a statement that stops after some rows, the last or not
<1>12. ASSUME TagsWriting, UNCHANGED tagsOutside, NEW some \in SUBSET TagsTodo,
              tagDb' = [tagDb EXCEPT ![tagCwd] = TagsDone(@, some)],
              \/ TagsStatement /\ some = TagsTodo
              \/ tagPoll' = NoTagsPoll /\ tagTorn' =
                   IF tagPoll.at = "delete" THEN tagTorn \ ({tagCwd} \X some)
                   ELSE tagTorn \union ({tagCwd} \X IF tagPoll.at = "insert" THEN some ELSE TagsNew)
       PROVE  TagIInv'
  <2> DEFINE db == tagDb[tagCwd] new == tagDb'[tagCwd]
  <2>1. UNCHANGED <<tagDisk, tagCwd>> BY <1>12 DEF tagsOutside
  <2>2. /\ TagStored'
        /\ tagDb' = [d \in TagDirs |-> [rows |-> tagDb'[d].rows, tags |-> tagDb'[d].tags]]
        /\ \A d \in TagDirs \ {tagCwd} : tagDb'[d] = tagDb[d]
        /\ new = TagsDone(db, some)
    BY <1>12, <2>1, TagWrites
  <2>3. \/ /\ tagPoll'.at = "idle" /\ tagPoll'.mtimes = <<>> /\ DOMAIN tagPoll'.mtimes = {} /\ tagPoll'.found = {}
           /\ tagPoll' = [at |-> tagPoll'.at, left |-> tagPoll'.left, existing |-> tagPoll'.existing,
                          mtimes |-> tagPoll'.mtimes, found |-> tagPoll'.found]
        \/ /\ some = TagsTodo /\ tagPoll.at \in {"delete", "insert"}
           /\ tagPoll' = [at |-> tagPoll'.at, left |-> tagPoll.left, existing |-> tagPoll.existing,
                          mtimes |-> tagPoll.mtimes, found |-> tagPoll.found]
           /\ tagPoll'.at = IF tagPoll.at = "delete" THEN "insert" ELSE "tags"
    BY <1>12 DEF TagsStatement, NoTagsPoll, TagShape, TagsWriting
  <2>4. TagShape'
    <3>1. tagPoll' = [at |-> tagPoll'.at, left |-> tagPoll'.left, existing |-> tagPoll'.existing,
                      mtimes |-> tagPoll'.mtimes, found |-> tagPoll'.found] /\ tagPoll'.at \in TagsAt
      BY <2>3 DEF TagsAt
    <3> QED BY <2>1, <2>2, <3>1 DEF TagShape
  <2>5. TagRead' /\ TagFound'
    BY <2>1, <2>3 DEF TagRead, TagFound
  <2>6. TagWritten'
    <3>1. CASE tagPoll.at = "delete" /\ tagPoll'.at = "insert"
      <4>1. TagsNew' = TagsNew /\ TagsNew \subseteq some BY <2>3, <3>1 DEF TagsNew, TagsTodo
      <4>2. DOMAIN new.rows = DOMAIN db.rows \ some BY <2>2, <3>1 DEF TagsDone, TagsDelete
      <4> QED BY <2>1, <3>1, <4>1, <4>2 DEF TagWritten
    <3>2. CASE tagPoll.at = "insert" /\ tagPoll'.at = "tags"
      <4>1. TagsNew' = TagsNew /\ TagsNew = some /\ tagPoll'.mtimes = tagPoll.mtimes
        BY <2>3, <3>2 DEF TagsNew, TagsTodo
      <4>2. new = TagsInsert(db, some) BY <2>2, <3>2 DEF TagsDone
      <4>3. db = [rows |-> db.rows, tags |-> db.tags] BY DEF TagShape
      <4>4. /\ new.tags = db.tags
            /\ new.rows = [g \in DOMAIN db.rows \union some |-> IF g \in some THEN tagPoll.mtimes[g] ELSE db.rows[g]]
        BY <4>2, <4>3 DEF TagsInsert
      <4>5. \A f \in TagsNew : \A t \in db.tags : t.file # f
        BY <3>2 DEF TagWritten, TagStored, TagShape
      <4>6. \A f \in some : f \in DOMAIN new.rows /\ new.rows[f] = tagPoll.mtimes[f] BY <4>4
      <4> QED BY <2>1, <3>2, <4>1, <4>4, <4>5, <4>6 DEF TagWritten
    <3>3. CASE tagPoll'.at = "idle" BY <3>3 DEF TagWritten
    <3> QED BY <2>3, <3>1, <3>2, <3>3
  <2>7. TagsAreOfTheRow'
    <3> SUFFICES ASSUME NEW d \in TagDirs, NEW f \in DOMAIN tagDb'[d].rows,
                        ~Writing(d, f)', <<d, f>> \notin tagTorn'
        PROVE {t.name : t \in TagsOf(d, f)'} = TagNames /\ \A t \in TagsOf(d, f)' : t.of >= tagDb'[d].rows[f]
      BY DEF TagsAreOfTheRow
    <3>0. <<d, f>> \in tagTorn => d = tagCwd /\ tagPoll.at = "delete" /\ f \in some
      BY <1>12 DEF TagsStatement
    <3>1. CASE d # tagCwd
      <4>1. tagDb'[d] = tagDb[d] /\ ~Writing(d, f) /\ <<d, f>> \notin tagTorn BY <2>2, <3>0, <3>1 DEF Writing
      <4> QED BY <4>1, TagSame DEF TagsOf
    <3>2. CASE d = tagCwd /\ tagPoll.at = "delete"
      <4>1. new = TagsDelete(db, some) BY <2>2, <3>2 DEF TagsDone
      <4>2. /\ new.rows = [g \in DOMAIN db.rows \ some |-> db.rows[g]]
            /\ new.tags = {t \in db.tags : t.file \notin some}
        BY <4>1 DEF TagsDelete
      <4>3. f \notin some /\ f \in DOMAIN db.rows /\ new.rows[f] = db.rows[f] BY <3>2, <4>2
      <4>4. TagsOf(d, f)' = TagsOf(d, f) BY <3>2, <4>2, <4>3 DEF TagsOf
      <4>5. ~Writing(d, f) /\ <<d, f>> \notin tagTorn BY <3>0, <3>2, <4>3 DEF Writing
      <4> QED BY <3>2, <4>3, <4>4, <4>5, TagSame
    <3>3. CASE d = tagCwd /\ tagPoll.at = "insert"
      <4>1. new = TagsInsert(db, some) BY <2>2, <3>3 DEF TagsDone
      <4>2. db = [rows |-> db.rows, tags |-> db.tags] BY DEF TagShape
      <4>3. /\ new.tags = db.tags
            /\ new.rows = [g \in DOMAIN db.rows \union some |-> IF g \in some THEN tagPoll.mtimes[g] ELSE db.rows[g]]
        BY <4>1, <4>2 DEF TagsInsert
      <4>4. some \subseteq TagsNew BY <3>3 DEF TagsTodo
      <4>5. f \notin some
        <5>1. CASE tagPoll'.at = "idle"
          <6>1. tagTorn' = tagTorn \union ({tagCwd} \X some) BY <1>12, <3>3, <5>1 DEF TagsStatement, TagShape
          <6> QED BY <3>3, <6>1
        <5>2. CASE tagPoll'.at = "tags" /\ tagPoll'.found = tagPoll.found
          BY <2>1, <3>3, <4>4, <5>2 DEF Writing, TagsNew
        <5> QED BY <2>3, <3>3, <5>1, <5>2
      <4>6. f \in DOMAIN db.rows /\ new.rows[f] = db.rows[f] BY <3>3, <4>3, <4>5
      <4>7. ~Writing(d, f) BY <3>3, <4>6 DEF Writing, TagWritten
      <4>8. TagsOf(d, f)' = TagsOf(d, f) BY <3>3, <4>3 DEF TagsOf
      <4> QED BY <3>0, <3>3, <4>6, <4>7, <4>8, TagSame
    <3>4. CASE d = tagCwd /\ tagPoll.at = "tags"
      <4>1. new = TagsReplace(db, some) BY <2>2, <3>4 DEF TagsDone
      <4>2. db = [rows |-> db.rows, tags |-> db.tags] BY DEF TagShape
      <4>3. /\ new.rows = db.rows
            /\ new.tags = {u \in db.tags : \A t \in some : u.file # t.file \/ u.name # t.name} \union some
        BY <4>1, <4>2 DEF TagsReplace
      <4>4. some \subseteq tagPoll.found BY <3>4 DEF TagsTodo
      <4>5. CASE f \notin TagsNew
        <5>1. \A t \in some : t.file # f BY <4>4, <4>5 DEF TagsNew
        <5>2. TagsOf(d, f)' = TagsOf(d, f) BY <3>4, <4>3, <5>1 DEF TagsOf
        <5> QED BY <3>0, <3>4, <4>3, <4>5, <5>2, TagSame DEF Writing
      <4>6. CASE f \in TagsNew
        <5>1. some = tagPoll.found
          <6>1. CASE tagPoll' = NoTagsPoll /\ tagTorn' = tagTorn \union ({tagCwd} \X TagsNew)
            BY <3>4, <4>6, <6>1
          <6> QED BY <1>12, <3>4, <6>1 DEF TagsTodo
        <5>2. /\ tagDb[tagCwd].rows[f] = tagPoll.mtimes[f]
              /\ \A t \in db.tags : t.file # f
          BY <3>4, <4>6 DEF TagWritten
        <5>3. TagsOf(d, f)' = {t \in tagPoll.found : t.file = f} BY <3>4, <4>3, <5>1, <5>2 DEF TagsOf
        <5>4. \A t \in tagPoll.found : t.file = f => t.of >= tagPoll.mtimes[f] /\ t.name \in TagNames BY DEF TagFound
        <5>5. \A n \in TagNames : \E u \in tagPoll.found : u.file = f /\ u.name = n
          <6>1. PICK t \in tagPoll.found : t.file = f BY <4>6 DEF TagsNew
          <6> QED BY <6>1 DEF TagFound
        <5>6. {t.name : t \in {u \in tagPoll.found : u.file = f}} = TagNames BY <5>4, <5>5
        <5> QED BY <3>4, <4>3, <5>2, <5>3, <5>4, <5>6
      <4> QED BY <4>5, <4>6
    <3> QED BY <1>12, <3>1, <3>2, <3>3, <3>4 DEF TagsWriting
  <2> QED BY <2>2, <2>4, <2>5, <2>6, <2>7
<1>13. CASE TagsStatement
  <2>1. /\ TagsWriting /\ UNCHANGED tagsOutside /\ TagsTodo \in SUBSET TagsTodo
        /\ tagDb' = [tagDb EXCEPT ![tagCwd] = TagsDone(@, TagsTodo)]
    BY <1>13 DEF TagsStatement
  <2> QED BY <1>12, <1>13, <2>1
<1>14. CASE TagsAbort BY <1>12, <1>14 DEF TagsAbort
<1> QED BY <1>0, <1>1, <1>2, <1>3, <1>4, <1>6, <1>7, <1>8, <1>9, <1>10, <1>11, <1>13, <1>14 DEF TagsNext, TagsFile

(* However saves, other directories and keystrokes cut in, a row has all the tags of its
   file, of a version that is not older than its mtime (database.py:78-83).              *)
THEOREM TagsAreOfTheRowCorrect == TagsSpec => []TagsAreOfTheRow
<1>1. TagIInv => TagsAreOfTheRow BY DEF TagIInv
<1> QED BY <1>1, TagStart, TagStep, PTL DEF TagsSpec

-----------------------------------------------------------------------------
(* Tmux.  While statements run, all that is remembered is of panes that are there, so that
   what they delete is not; what is left to write has no words.                         *)

TmuxOfPane(p) == {w \in tmWords : w[1] = p}

TmuxShape ==
  /\ tmCache = [p \in DOMAIN tmCache |-> tmCache[p]]
  /\ tmRun = [at |-> tmRun.at, by |-> tmRun.by, current |-> tmRun.current,
              left |-> tmRun.left, shots |-> tmRun.shots]

TmuxAtWork ==
  /\ tmRun.at \in TmuxStatements => DOMAIN tmCache \subseteq TmuxLive
  /\ tmRun.at \in {"panes", "words"} => tmRun.left \subseteq TmuxLive
  /\ tmRun.at = "words" => \A p \in tmRun.left : p \in tmTorn /\ TmuxOfPane(p) = {}

TmuxIInv == TmuxShape /\ TmuxAtWork /\ RememberedIsStored

LEMMA TmuxStart == TmuxInit => TmuxIInv
<1> SUFFICES ASSUME TmuxInit PROVE TmuxIInv OBVIOUS
<1>1. tmCache = <<>> /\ DOMAIN tmCache = {} /\ tmRun = NoTmuxRun BY DEF TmuxInit
<1>2. TmuxShape
  <2>1. tmCache = [p \in DOMAIN tmCache |-> tmCache[p]] BY <1>1
  <2> QED BY <1>1, <2>1 DEF TmuxShape, NoTmuxRun
<1>3. TmuxAtWork BY <1>1 DEF TmuxAtWork, NoTmuxRun, TmuxStatements
<1>4. RememberedIsStored BY <1>1 DEF RememberedIsStored
<1> QED BY <1>2, <1>3, <1>4 DEF TmuxIInv

(* What touches neither the database nor what is remembered.                            *)
LEMMA TmuxOutside ==
  ASSUME TmuxIInv, UNCHANGED tmuxDb,
         \/ UNCHANGED tmRun
         \/ /\ tmRun' = [at |-> tmRun'.at, by |-> tmRun'.by, current |-> tmRun'.current,
                         left |-> tmRun'.left, shots |-> tmRun'.shots]
            /\ tmRun'.at \notin TmuxStatements
  PROVE  TmuxIInv'
<1> USE DEF TmuxIInv, tmuxDb
<1>1. TmuxShape' BY DEF TmuxShape
<1>2. TmuxAtWork' BY DEF TmuxAtWork, TmuxStatements, TmuxLive, TmuxOfPane
<1>3. RememberedIsStored' BY DEF RememberedIsStored
<1> QED BY <1>1, <1>2, <1>3

(* A statement drops the words of some panes that are not remembered, or torn from now on. *)
LEMMA TmuxDrops ==
  ASSUME RememberedIsStored, NEW ps, tmWords' = DropWords(ps), UNCHANGED tmCache,
         \/ tmTorn' = tmTorn \ ps /\ ps \intersect DOMAIN tmCache = {}
         \/ tmTorn' = tmTorn \union ps
  PROVE  RememberedIsStored'
<1> SUFFICES ASSUME NEW p \in DOMAIN tmCache', p \notin tmTorn'
    PROVE {w \in tmWords' : w[1] = p} = IF tmCache'[p] = "" THEN {} ELSE Words(p, tmCache'[p])
  BY DEF RememberedIsStored
<1>1. p \in DOMAIN tmCache \ tmTorn /\ p \notin ps OBVIOUS
<1>2. {w \in tmWords' : w[1] = p} = {w \in tmWords : w[1] = p} BY <1>1 DEF DropWords
<1> QED BY <1>1, <1>2 DEF RememberedIsStored

LEMMA TmuxStep == TmuxIInv /\ [TmuxNext]_tmuxVars => TmuxIInv'
<1> SUFFICES ASSUME TmuxIInv, [TmuxNext]_tmuxVars PROVE TmuxIInv' OBVIOUS
<1> DEFINE Shaped == tmRun' = [at |-> tmRun'.at, by |-> tmRun'.by, current |-> tmRun'.current,
                               left |-> tmRun'.left, shots |-> tmRun'.shots]
<1>a. TmuxShape /\ TmuxAtWork /\ RememberedIsStored BY DEF TmuxIInv
<1>0. CASE UNCHANGED tmuxVars
  <2>1. UNCHANGED tmuxDb /\ UNCHANGED tmRun BY <1>0 DEF tmuxVars, tmuxDb
  <2> QED BY <2>1, TmuxOutside
<1>1. CASE \E p \in TmuxPanesOf : TmuxGone(p) \/ \E t \in TmuxTexts : TmuxShow(p, t)
  <2>1. UNCHANGED tmuxDb /\ UNCHANGED tmRun BY <1>1 DEF TmuxGone, TmuxShow, tmuxDb
  <2> QED BY <2>1, TmuxOutside
<1>2. CASE TmuxBegin \/ TmuxList \/ TmuxEnd \/ TmuxCancel \/ \E p \in TmuxPanesOf : TmuxShot(p)
  <2>1. UNCHANGED tmuxDb /\ Shaped /\ tmRun'.at \in {"none", "list", "shots"}
    <3>1. CASE TmuxBegin BY <3>1 DEF TmuxBegin, NoTmuxRun
    <3>2. CASE TmuxList BY <3>2, <1>a DEF TmuxList, TmuxShape
    <3>3. CASE TmuxEnd \/ TmuxCancel BY <3>3 DEF TmuxEnd, TmuxCancel, NoTmuxRun, tmuxDb
    <3>4. ASSUME NEW p \in TmuxPanesOf, TmuxShot(p) PROVE UNCHANGED tmuxDb /\ Shaped /\ tmRun'.at = "shots"
      BY <3>4, <1>a DEF TmuxShot, TmuxShape
    <3> QED BY <1>2, <3>1, <3>2, <3>3, <3>4
  <2> QED BY <2>1, TmuxOutside DEF TmuxStatements
<1> USE DEF TmuxIInv
<1>3. CASE TmuxForget
  <2>1. /\ UNCHANGED <<tmRows, tmWords, tmTorn>> /\ Shaped /\ tmRun'.at = "delete" /\ tmRun'.shots = tmRun.shots
        /\ tmCache' = [p \in DOMAIN tmCache \intersect TmuxLive |-> tmCache[p]]
    BY <1>3 DEF TmuxForget, TmuxShape
  <2>2. /\ DOMAIN tmCache' = DOMAIN tmCache \intersect TmuxLive
        /\ \A p \in DOMAIN tmCache' : tmCache'[p] = tmCache[p]
    BY <2>1
  <2>3. tmCache' = [p \in DOMAIN tmCache' |-> tmCache'[p]] BY <2>1
  <2>4. TmuxShape' BY <2>1, <2>3 DEF TmuxShape
  <2>5. TmuxAtWork' BY <2>1, <2>2 DEF TmuxAtWork, TmuxLive
  <2>6. RememberedIsStored' BY <2>1, <2>2 DEF RememberedIsStored
  <2> QED BY <2>4, <2>5, <2>6
<1>4. ASSUME NEW ps \in SUBSET TmuxDead, tmRun.at = "delete", TmuxDelete(ps)
      PROVE  RememberedIsStored' /\ UNCHANGED tmCache
  <2>1. ps \intersect DOMAIN tmCache = {} BY <1>4 DEF TmuxDead, TmuxAtWork, TmuxStatements
  <2> QED BY <1>4, <2>1, TmuxDrops DEF TmuxDelete
<1>5. ASSUME NEW ps \in SUBSET tmRun.left, TmuxReplace(ps)
      PROVE  /\ RememberedIsStored' /\ UNCHANGED tmCache
             /\ \A p \in ps : p \in tmTorn' /\ TmuxOfPane(p)' = {}
  BY <1>5, TmuxDrops DEF TmuxReplace, TmuxOfPane, DropWords
<1>6. CASE TmuxStatement
  <2>1. CASE tmRun.at = "delete"
    <3>1. /\ RememberedIsStored' /\ UNCHANGED tmCache /\ Shaped
          /\ tmRun'.at = "panes" /\ tmRun'.left = TmuxChanged /\ tmRun'.shots = tmRun.shots
      BY <1>4, <1>6, <2>1 DEF TmuxStatement, TmuxShape
    <3>2. TmuxChanged \subseteq TmuxLive BY DEF TmuxChanged
    <3> QED BY <2>1, <3>1, <3>2 DEF TmuxShape, TmuxAtWork, TmuxLive, TmuxStatements
  <2>2. CASE tmRun.at = "panes"
    <3>1. /\ RememberedIsStored' /\ UNCHANGED tmCache /\ Shaped
          /\ tmRun'.at = "words" /\ tmRun'.left = tmRun.left /\ tmRun'.shots = tmRun.shots
          /\ \A p \in tmRun.left : p \in tmTorn' /\ TmuxOfPane(p)' = {}
      BY <1>5, <1>6, <2>2 DEF TmuxStatement, TmuxShape
    <3> HIDE DEF TmuxOfPane
    <3>2. \A p \in tmRun'.left : p \in tmTorn' /\ TmuxOfPane(p)' = {} BY <3>1
    <3>3. TmuxAtWork' BY <2>2, <3>1, <3>2 DEF TmuxAtWork, TmuxLive, TmuxStatements
    <3> QED BY <3>1, <3>3 DEF TmuxShape
  <2> QED BY <1>6, <2>1, <2>2 DEF TmuxStatement
<1>7. CASE TmuxAbort
  <2>1. tmRun' = NoTmuxRun /\ RememberedIsStored' /\ UNCHANGED tmCache
    BY <1>4, <1>5, <1>7 DEF TmuxAbort
  <2> QED BY <2>1 DEF NoTmuxRun, TmuxShape, TmuxAtWork, TmuxStatements
<1>8. ASSUME NEW p \in TmuxPanesOf, TmuxWrite(p) PROVE TmuxIInv'
  <2>1. tmRun.at = "words" /\ p \in tmRun.left BY <1>8 DEF TmuxWrite
  <2>2. PICK some \in SUBSET AllWords({p}) :
          /\ tmWords' = tmWords \union some
          /\ IF some = AllWords({p})
             THEN /\ Remember({p}) /\ tmTorn' = tmTorn \ {p}
                  /\ tmRun' = [tmRun EXCEPT !.left = @ \ {p}]
             ELSE tmRun' = NoTmuxRun /\ UNCHANGED <<tmCache, tmTorn>>
    BY <1>8 DEF TmuxWrite
  <2> DEFINE t == tmRun.shots[p]
  <2>3. AllWords({p}) = IF t = "" THEN {} ELSE Words(p, t) BY DEF AllWords
  <2>4. \A w \in some : w[1] = p BY <2>3 DEF Words
  <2>5. p \in tmTorn /\ {w \in tmWords : w[1] = p} = {} /\ p \in TmuxLive
    BY <2>1 DEF TmuxAtWork, TmuxOfPane
  <2>6. \A q : q # p => {w \in tmWords' : w[1] = q} = {w \in tmWords : w[1] = q} BY <2>2, <2>4
  <2>7. CASE some # AllWords({p})
    <3>1. tmRun' = NoTmuxRun /\ UNCHANGED <<tmCache, tmTorn>> BY <2>2, <2>7
    <3>2. RememberedIsStored' BY <2>5, <2>6, <3>1 DEF RememberedIsStored
    <3> QED BY <3>1, <3>2 DEF NoTmuxRun, TmuxShape, TmuxAtWork, TmuxStatements
  <2>8. CASE some = AllWords({p})
    <3>1. /\ tmTorn' = tmTorn \ {p} /\ Shaped
          /\ tmRun'.at = "words" /\ tmRun'.left = tmRun.left \ {p} /\ tmRun'.shots = tmRun.shots
          /\ tmCache' = [q \in DOMAIN tmCache \union {p} |-> IF q \in {p} THEN tmRun.shots[q] ELSE tmCache[q]]
      BY <2>1, <2>2, <2>8 DEF Remember, TmuxShape
    <3>2. /\ DOMAIN tmCache' = DOMAIN tmCache \union {p} /\ tmCache'[p] = t
          /\ \A q \in DOMAIN tmCache' : q # p => tmCache'[q] = tmCache[q]
      BY <3>1
    <3>3. {w \in tmWords' : w[1] = p} = AllWords({p}) BY <2>2, <2>4, <2>5, <2>8
    <3>4. RememberedIsStored'
      <4> SUFFICES ASSUME NEW q \in DOMAIN tmCache', q \notin tmTorn'
          PROVE {w \in tmWords' : w[1] = q} = IF tmCache'[q] = "" THEN {} ELSE Words(q, tmCache'[q])
        BY DEF RememberedIsStored
      <4>1. CASE q = p BY <2>3, <3>2, <3>3, <4>1
      <4>2. CASE q # p
        <5>1. q \in DOMAIN tmCache \ tmTorn /\ tmCache'[q] = tmCache[q] BY <3>1, <3>2, <4>2
        <5> QED BY <2>6, <4>2, <5>1 DEF RememberedIsStored
      <4> QED BY <4>1, <4>2
    <3>5. TmuxShape'
      <4>1. tmCache' = [q \in DOMAIN tmCache' |-> tmCache'[q]] BY <3>1
      <4> QED BY <3>1, <4>1 DEF TmuxShape
    <3>6. \A q \in tmRun'.left : q \in tmTorn' /\ {w \in tmWords' : w[1] = q} = {}
      BY <2>1, <2>6, <3>1 DEF TmuxAtWork, TmuxOfPane
    <3>7. TmuxAtWork' BY <2>1, <2>5, <3>1, <3>2, <3>6 DEF TmuxAtWork, TmuxLive, TmuxOfPane, TmuxStatements
    <3> QED BY <3>4, <3>5, <3>7
  <2> QED BY <2>7, <2>8
<1> QED BY <1>0, <1>1, <1>2, <1>3, <1>6, <1>7, <1>8 DEF TmuxNext, TmuxOf

(* What is remembered of a pane is what is stored of it, but for one whose row has been replaced
   and whose words were interrupted (database.py:58, :89, :96).                            *)
THEOREM RememberedIsStoredCorrect == TmuxSpec => []RememberedIsStored
<1>1. TmuxIInv => RememberedIsStored BY DEF TmuxIInv
<1> QED BY <1>1, TmuxStart, TmuxStep, PTL DEF TmuxSpec

-----------------------------------------------------------------------------
(* Tree-sitter.  What a poll has counted is so as long as nvim stays as it is; by the time
   it looks at the words, it has dropped the buffers that are closed.                   *)

TsLoads == [buf : TsBufs, lo : Int, hi : Int, nodes : SUBSET (TsNames \X Int)]
TsLengths == [b \in DOMAIN tsText |-> Len(tsText[b])]

TsTyped ==
  /\ DOMAIN tsText \subseteq TsBufs /\ tsHere \in DOMAIN tsText
  /\ \A b \in DOMAIN tsText : tsText[b] \in TsTexts
  /\ tsReplies \in Seq([uid : Int, load : TsLoads])
  /\ \A w \in tsCell.load.nodes : w[2] \in Int
  /\ \A b \in DOMAIN tsRows : \A w \in tsRows[b] : w[2] \in Int
  /\ tsUid \in Int /\ tsAsked \in Seq(Int)

TsCounted ==
  /\ tsPoll.load = "swept" => tsPoll.at = "idle"
  /\ tsPoll.at = "idle" => tsPoll.counts = NoCounts
  /\ tsPoll.at \in {"buffers", "words"} => tsPoll.counts # NoCounts
  /\ tsStill => tsPoll.counts \in {NoCounts, TsLengths}
  /\ tsPoll.at = "words" => DOMAIN tsRows \subseteq DOMAIN tsPoll.counts

TsShape == tsPoll = [at |-> tsPoll.at, uid |-> tsPoll.uid, load |-> tsPoll.load,
                     counts |-> tsPoll.counts, counted |-> tsPoll.counted]

TsIInv == TsShape /\ TsTyped /\ TsCounted /\ NoGhosts

LEMMA TsStart == TsInit => TsIInv
<1> SUFFICES ASSUME TsInit PROVE TsIInv OBVIOUS
<1>1. TsShape BY DEF TsInit, TsShape, NoTsPoll
<1>2. TsTyped
  <2>1. PICK b \in TsBufs : tsHere = b /\ tsText \in [{b} -> TsTexts] BY DEF TsInit
  <2>2. tsCell.load.nodes = {} /\ DOMAIN tsRows = {} BY DEF TsInit, NoPayload
  <2>3. tsReplies \in Seq([uid : Int, load : TsLoads]) /\ tsUid \in Int /\ tsAsked \in Seq(Int) BY DEF TsInit
  <2> QED BY <2>1, <2>2, <2>3 DEF TsTyped
<1>3. TsCounted BY DEF TsInit, TsCounted, NoTsPoll
<1>4. NoGhosts BY DEF TsInit, NoGhosts, NoTsPoll
<1> QED BY <1>1, <1>2, <1>3, <1>4 DEF TsIInv

LEMMA TsNodesTyped ==
  ASSUME NEW t \in TsTexts, NEW lo \in Int, NEW hi \in Int
  PROVE  Nodes(t, lo, hi) \subseteq TsNames \X Int
<1> SUFFICES ASSUME NEW n \in {m \in 0 .. Len(t) - 1 : lo <= m /\ m < hi}
    PROVE <<t[n + 1], n>> \in TsNames \X Int
  BY DEF Nodes
<1>1. t \in Seq(TsNames) /\ Len(t) \in Nat BY TsAssumption
<1>2. n + 1 \in 1 .. Len(t) BY <1>1
<1> QED BY <1>1, <1>2

LEMMA TsStep == TsIInv /\ [TsNext]_tsVars => TsIInv'
<1> SUFFICES ASSUME TsIInv, [TsNext]_tsVars PROVE TsIInv' OBVIOUS
<1> USE DEF TsIInv
<1>0. CASE UNCHANGED tsVars
  BY <1>0 DEF tsVars, TsShape, TsTyped, TsCounted, NoGhosts, TsLengths
\* what changes nvim
<1>1. ASSUME NEW b \in TsBufs, TsBuf(b) PROVE TsIInv'
  <2>1. UNCHANGED tsServer /\ tsStill' = FALSE
        /\ DOMAIN tsText' \subseteq TsBufs /\ tsHere' \in DOMAIN tsText' /\ \A c \in DOMAIN tsText' : tsText'[c] \in TsTexts
    <3>1. CASE TsClose(b) BY <1>1, <3>1 DEF TsClose, TsTyped
    <3>2. ASSUME NEW t \in TsTexts, TsEdit(b, t)
          PROVE UNCHANGED tsServer /\ tsStill' = FALSE
                /\ DOMAIN tsText' \subseteq TsBufs /\ tsHere' \in DOMAIN tsText'
                /\ \A c \in DOMAIN tsText' : tsText'[c] \in TsTexts
      BY <3>2 DEF TsEdit, TsTyped
    <3> QED BY <1>1, <3>1, <3>2 DEF TsBuf
  <2>2. TsTyped' BY <2>1 DEF TsTyped, tsServer
  <2>3. TsShape' /\ TsCounted' /\ NoGhosts' BY <2>1 DEF TsShape, TsCounted, NoGhosts, tsServer
  <2> QED BY <2>2, <2>3
\* what changes neither nvim nor the poll nor the database
<1>2. CASE TsParse \/ TsRaise \/ TsNotify
  <2>1. UNCHANGED <<tsText, tsHere, tsPoll, tsUid, tsRows, tsStill>> BY <1>2 DEF TsParse, TsRaise, TsNotify, tsNvim
  <2>2. TsShape' /\ TsCounted' /\ NoGhosts' BY <2>1 DEF TsShape, TsCounted, NoGhosts, TsLengths
  <2>3. TsTyped'
    <3>1. CASE TsParse
      <4>1. PICK lo \in 0 .. Len(tsText[tsHere]) - 1, hi \in 1 .. Len(tsText[tsHere]) :
              tsReplies' = Append(tsReplies,
                 [uid |-> Head(tsAsked),
                  load |-> [buf |-> tsHere, lo |-> lo, hi |-> hi, nodes |-> Nodes(tsText[tsHere], lo, hi)]])
        BY <3>1 DEF TsParse
      <4>2. tsText[tsHere] \in TsTexts /\ tsHere \in TsBufs BY DEF TsTyped
      <4>3. Nodes(tsText[tsHere], lo, hi) \subseteq TsNames \X Int BY <4>2, TsNodesTyped
      <4>4. Head(tsAsked) \in Int /\ Tail(tsAsked) \in Seq(Int) /\ tsAsked' = Tail(tsAsked) /\ tsCell' = tsCell
        BY <3>1 DEF TsParse, TsTyped
      <4>5. [uid |-> Head(tsAsked),
             load |-> [buf |-> tsHere, lo |-> lo, hi |-> hi, nodes |-> Nodes(tsText[tsHere], lo, hi)]]
            \in [uid : Int, load : TsLoads]
        BY <4>2, <4>3, <4>4 DEF TsLoads
      <4>6. tsReplies' \in Seq([uid : Int, load : TsLoads]) BY <4>1, <4>5, AppendProperties DEF TsTyped
      <4> QED BY <2>1, <4>4, <4>6 DEF TsTyped
    <3>2. CASE TsRaise
      <4>1. tsAsked' \in Seq(Int) /\ UNCHANGED <<tsReplies, tsCell>> BY <3>2 DEF TsRaise, TsTyped
      <4> QED BY <2>1, <4>1 DEF TsTyped
    <3>3. CASE TsNotify
      <4>1. /\ tsReplies # <<>> /\ tsReplies' = Tail(tsReplies) /\ UNCHANGED tsAsked
            /\ tsCell'.load \in {tsCell.load, Head(tsReplies).load}
        BY <3>3 DEF TsNotify
      <4>2. /\ tsReplies' \in Seq([uid : Int, load : TsLoads]) /\ Head(tsReplies) \in [uid : Int, load : TsLoads]
        <5> DEFINE T == [uid : Int, load : TsLoads]
        <5>1. tsReplies \in Seq(T) BY DEF TsTyped
        <5> HIDE DEF T
        <5>2. tsReplies # <<>> => Head(tsReplies) \in T /\ Tail(tsReplies) \in Seq(T) BY <5>1
        <5> QED BY <4>1, <5>2 DEF T
      <4>3. \A w \in Head(tsReplies).load.nodes : w[2] \in Int BY <4>2 DEF TsLoads
      <4>4. \A w \in tsCell'.load.nodes : w[2] \in Int BY <4>1, <4>3 DEF TsTyped
      <4> QED BY <2>1, <4>1, <4>2, <4>4 DEF TsTyped
    <3> QED BY <1>2, <3>1, <3>2, <3>3
  <2> QED BY <2>2, <2>3
<1>3. CASE TsRequest
  <2>1. /\ UNCHANGED <<tsNvim, tsReplies, tsRows>> /\ tsUid' = tsUid + 1 /\ tsAsked' = Append(tsAsked, tsUid')
        /\ tsCell'.load = NoPayload /\ tsStill' = TRUE
        /\ tsPoll' = [at |-> "request", uid |-> tsUid', load |-> "none", counts |-> NoCounts, counted |-> FALSE]
    BY <1>3 DEF TsRequest, NoTsPoll
  <2>2. TsShape' BY <2>1 DEF TsShape
  <2>3. tsCell'.load.nodes = {} BY <2>1 DEF NoPayload
  <2>4. TsTyped' BY <2>1, <2>3, AppendProperties DEF TsTyped, tsNvim
  <2>5. TsCounted' /\ NoGhosts' BY <2>1 DEF TsCounted, NoGhosts
  <2> QED BY <2>2, <2>4, <2>5
\* the steps of the poll
<1>4. ASSUME UNCHANGED tsRequests, TsShape', TsCounted', NoGhosts',
             \A b \in DOMAIN tsRows' : \A w \in tsRows'[b] : w[2] \in Int
      PROVE  TsIInv'
  BY <1>4 DEF TsTyped, tsRequests, tsNvim
<1>5. CASE TsCount
  <2>1. PICK counts \in {TsLengths, NoCounts} : tsPoll' = [tsPoll EXCEPT !.counted = TRUE, !.counts = counts]
    BY <1>5 DEF TsCount, TsLengths
  <2>2. /\ tsPoll.at \in {"request", "vacuum"} /\ UNCHANGED <<tsRequests, tsRows>>
        /\ tsPoll'.at = tsPoll.at /\ tsPoll'.load = tsPoll.load /\ tsPoll'.counts = counts /\ TsShape'
    BY <1>5, <2>1 DEF TsCount, TsShape
  <2>3. TsLengths' = TsLengths BY <2>2 DEF TsLengths, tsRequests, tsNvim
  <2>4. TsCounted' /\ NoGhosts' BY <2>2, <2>3 DEF TsCounted, NoGhosts
  <2> QED BY <1>4, <2>2, <2>4 DEF TsTyped
<1>6. CASE TsPopulate \/ TsDelete \/ TsInsert
  <2> DEFINE b == tsCell.load.buf
  <2>1. /\ UNCHANGED tsRequests /\ tsPoll' = [tsPoll EXCEPT !.at = tsPoll'.at]
        /\ tsPoll'.at \in {"delete", "insert", "vacuum"} /\ tsPoll.at \in {"request", "delete", "insert"}
    BY <1>6 DEF TsPopulate, TsDelete, TsInsert, TsShape
  <2>2. /\ TsShape' /\ tsPoll'.load = tsPoll.load /\ tsPoll'.counts = tsPoll.counts BY <2>1 DEF TsShape
  <2>3. TsLengths' = TsLengths /\ tsStill' = tsStill BY <2>1 DEF TsLengths, tsRequests, tsNvim
  <2>4. TsCounted' /\ NoGhosts' BY <2>1, <2>2, <2>3 DEF TsCounted, NoGhosts
  <2>5. \A c \in DOMAIN tsRows' : \A w \in tsRows'[c] : w[2] \in Int
    <3>1. CASE TsPopulate
      <4>1. tsRows' = [c \in DOMAIN tsRows \union {b} |-> IF c \in DOMAIN tsRows THEN tsRows[c] ELSE {}]
        BY <3>1 DEF TsPopulate
      <4> QED BY <4>1 DEF TsTyped
    <3>2. CASE TsDelete
      <4>1. tsRows' = [tsRows EXCEPT ![b] = {w \in @ : ~Overlaps(w, tsCell.load.lo, tsCell.load.hi)}]
        BY <3>2 DEF TsDelete, Cut
      <4> QED BY <4>1 DEF TsTyped
    <3>3. CASE TsInsert
      <4>1. tsRows' = [tsRows EXCEPT ![b] = Inserted(@, tsCell.load.nodes)] BY <3>3 DEF TsInsert
      <4> QED BY <4>1 DEF TsTyped, Inserted
    <3> QED BY <1>6, <3>1, <3>2, <3>3
  <2> QED BY <1>4, <2>1, <2>2, <2>4, <2>5
<1>7. CASE TsVacuum
  <2>1. /\ UNCHANGED <<tsRequests, tsRows>> /\ tsPoll.at = "vacuum"
        /\ \/ tsPoll' = NoTsPoll
           \/ tsPoll.counts # NoCounts /\ tsPoll' = [tsPoll EXCEPT !.at = "buffers"]
    BY <1>7 DEF TsVacuum
  <2>2. /\ TsShape' /\ tsPoll'.load # "swept"
        /\ \/ tsPoll'.at = "idle" /\ tsPoll'.counts = NoCounts
           \/ tsPoll'.at = "buffers" /\ tsPoll'.counts = tsPoll.counts /\ tsPoll.counts # NoCounts
    <3>1. CASE tsPoll' = NoTsPoll BY <3>1 DEF NoTsPoll, TsShape
    <3>2. CASE tsPoll.counts # NoCounts /\ tsPoll' = [tsPoll EXCEPT !.at = "buffers"]
      BY <2>1, <3>2 DEF TsShape, TsCounted
    <3> QED BY <2>1, <3>1, <3>2
  <2>3. TsLengths' = TsLengths /\ tsStill' = tsStill BY <2>1 DEF TsLengths, tsRequests, tsNvim
  <2>4. TsCounted' /\ NoGhosts' BY <2>1, <2>2, <2>3 DEF TsCounted, NoGhosts
  <2> QED BY <1>4, <2>1, <2>2, <2>4 DEF TsTyped
<1>8. CASE TsVacuumBuffers
  <2>1. /\ UNCHANGED tsRequests /\ tsPoll.at = "buffers" /\ tsPoll' = [tsPoll EXCEPT !.at = "words"]
        /\ tsRows' = [c \in DOMAIN tsRows \ (DOMAIN tsRows \ DOMAIN tsPoll.counts) |-> tsRows[c]]
    BY <1>8 DEF TsVacuumBuffers, DropBuffers
  <2>2. /\ TsShape' /\ tsPoll'.at = "words" /\ tsPoll'.load = tsPoll.load /\ tsPoll'.counts = tsPoll.counts
    BY <2>1 DEF TsShape
  <2>3. TsLengths' = TsLengths /\ tsStill' = tsStill BY <2>1 DEF TsLengths, tsRequests, tsNvim
  <2>4. DOMAIN tsRows' \subseteq DOMAIN tsPoll'.counts BY <2>1, <2>2
  <2>5. TsCounted' /\ NoGhosts' BY <2>1, <2>2, <2>3, <2>4 DEF TsCounted, NoGhosts
  <2>6. \A c \in DOMAIN tsRows' : \A w \in tsRows'[c] : w[2] \in Int BY <2>1 DEF TsTyped
  <2> QED BY <1>4, <2>1, <2>2, <2>5, <2>6
<1>9. CASE TsVacuumWords
  <2>1. /\ UNCHANGED tsRequests /\ tsPoll.at = "words" /\ tsPoll' = [NoTsPoll EXCEPT !.load = "swept"]
        /\ tsRows' = [c \in DOMAIN tsRows |-> {w \in tsRows[c] : ~Overlaps(w, tsPoll.counts[c], -1)}]
    BY <1>9 DEF TsVacuumWords
  <2>2. TsShape' /\ tsPoll'.at = "idle" /\ tsPoll'.counts = NoCounts BY <2>1 DEF TsShape, NoTsPoll
  <2>3. tsText' = tsText /\ tsStill' = tsStill BY <2>1 DEF tsRequests, tsNvim
  <2>4. TsCounted' BY <2>2 DEF TsCounted
  <2>5. \A c \in DOMAIN tsRows' : \A w \in tsRows'[c] : w[2] \in Int BY <2>1 DEF TsTyped
  <2>6. NoGhosts'
    <3> SUFFICES ASSUME tsStill, NEW c \in DOMAIN tsRows'
        PROVE c \in DOMAIN tsText /\ \A w \in tsRows'[c] : w[2] < Len(tsText[c])
      BY <2>3 DEF NoGhosts
    <3>1. tsPoll.counts = TsLengths /\ DOMAIN tsRows \subseteq DOMAIN tsPoll.counts BY <2>1 DEF TsCounted
    <3>2. c \in DOMAIN tsText /\ tsPoll.counts[c] = Len(tsText[c]) BY <2>1, <3>1 DEF TsLengths
    <3>3. tsText[c] \in Seq(TsNames) /\ Len(tsText[c]) \in Int BY <3>2, TsAssumption DEF TsTyped
    <3>4. \A w \in tsRows'[c] : ~(w[2] >= Len(tsText[c])) BY <2>1, <3>2 DEF Overlaps
    <3> QED BY <2>5, <3>2, <3>3, <3>4
  <2> QED BY <1>4, <2>1, <2>2, <2>4, <2>5, <2>6
<1>10. CASE TsCancel
  <2>1. /\ UNCHANGED <<tsRequests, tsRows>> /\ tsPoll' = NoTsPoll BY <1>10 DEF TsCancel
  <2>2. /\ TsShape' /\ TsCounted' /\ NoGhosts' BY <2>1 DEF TsShape, TsCounted, NoGhosts, NoTsPoll
  <2> QED BY <1>4, <2>1, <2>2 DEF TsTyped
<1>11. CASE TsAbort
  <2>1. /\ UNCHANGED tsRequests /\ tsPoll.at \in TsStatements
        /\ tsPoll' = IF tsPoll.at \in {"delete", "insert"} THEN [tsPoll EXCEPT !.at = "vacuum"] ELSE NoTsPoll
    BY <1>11 DEF TsAbort
  <2>2. /\ TsShape' /\ tsPoll'.load # "swept"
        /\ \/ tsPoll'.at = "idle" /\ tsPoll'.counts = NoCounts
           \/ tsPoll'.at = "vacuum" /\ tsPoll'.counts = tsPoll.counts
    <3>1. CASE tsPoll.at \in {"delete", "insert"} BY <2>1, <3>1 DEF TsShape, TsCounted
    <3>2. CASE tsPoll.at \notin {"delete", "insert"} BY <2>1, <3>2 DEF TsShape, NoTsPoll
    <3> QED BY <3>1, <3>2
  <2>3. TsLengths' = TsLengths /\ tsStill' = tsStill BY <2>1 DEF TsLengths, tsRequests, tsNvim
  <2>4. TsCounted' /\ NoGhosts' BY <2>1, <2>2, <2>3 DEF TsCounted, NoGhosts
  <2>5. \A c \in DOMAIN tsRows' : \A w \in tsRows'[c] : w[2] \in Int
    <3>1. CASE UNCHANGED tsRows BY <3>1 DEF TsTyped
    <3>2. CASE tsPoll.at = "insert"
      <4>1. PICK some \in SUBSET tsCell.load.nodes : tsRows' = [tsRows EXCEPT ![tsCell.load.buf] = Inserted(@, some)]
        BY <1>11, <3>2 DEF TsAbort
      <4> QED BY <4>1 DEF TsTyped, Inserted
    <3>3. CASE tsPoll.at = "buffers"
      <4>1. PICK dead : tsRows' = [c \in DOMAIN tsRows \ dead |-> tsRows[c]]
        BY <1>11, <3>3 DEF TsAbort, DropBuffers
      <4> QED BY <4>1 DEF TsTyped
    <3> QED BY <1>11, <3>1, <3>2, <3>3 DEF TsAbort
  <2> QED BY <1>4, <2>1, <2>2, <2>4, <2>5
<1> QED BY <1>0, <1>1, <1>2, <1>3, <1>5, <1>6, <1>7, <1>8, <1>9, <1>10, <1>11 DEF TsNext

(* After a poll that has run to its end, and as long as nvim has not changed since it began, no
   word is stored of a closed buffer or behind the end of one (request.py:73, database.py:43-54). *)
THEOREM NoGhostsCorrect == TsSpec => []NoGhosts
<1>1. TsIInv => NoGhosts BY DEF TsIInv
<1> QED BY <1>1, TsStart, TsStep, PTL DEF TsSpec

-----------------------------------------------------------------------------
(* Snippets, what is loaded.  What an instance has seen is of a file as it is now, or was; what it
   has loaded of a file that is as it saw it is what the file says; and the row that it fills
   has the mtime that it saw.                                                            *)

JobShape(j) ==
  j = [at |-> j.at, first |-> j.first, seen |-> j.seen, disk |-> j.disk, rows |-> j.rows,
       todo |-> j.todo, loaded |-> j.loaded, left |-> j.left, mtimes |-> j.mtimes]

SnShape ==
  /\ snJob = [i \in SnInstances |-> snJob[i]] /\ \A i \in SnInstances : JobShape(snJob[i])
  /\ snDisk = [s \in Sources |-> snDisk[s]]
  /\ \A s \in Sources : snDisk[s] = [mtime |-> snDisk[s].mtime, of |-> snDisk[s].of] /\ snDisk[s].mtime \in Int
  /\ snStored = [s \in Sources |-> snStored[s]]

\* only the bundled snippets can be taken away
SnUpTo(s, m) == m \in Int /\ (m <= snDisk[s].mtime \/ (s = "bundled" /\ snDisk[s].mtime = 0))

SnLoads(j) ==
  /\ j.at \in {"slurp", "read", "load", "row", "snips"} =>
       \A s \in DOMAIN j.disk : s \in Sources /\ SnUpTo(s, j.disk[s])
  /\ j.at \in {"read", "load", "row", "snips"} => j.todo \subseteq DOMAIN j.disk
  /\ j.at \in {"load", "row", "snips"} => \A s \in j.todo :
       /\ s \in DOMAIN j.loaded
       /\ snDisk[s].mtime = 0 \/ snDisk[s].mtime > j.disk[s] \/ j.loaded[s] = snDisk[s].of
  /\ j.at \in {"row", "snips"} => \E s \in j.todo : j.seen = {s}

SnRowsInv ==
  /\ \A s \in DOMAIN snRows : s \in Sources /\ SnUpTo(s, snRows[s].mtime)
  /\ \A i \in SnInstances : snJob[i].at = "snips" =>
       \A s \in snJob[i].seen : Owns(i, s) => snRows[s].mtime = snJob[i].disk[s]

SnFills(i, s) == snJob[i].at = "snips" /\ snJob[i].seen = {s} /\ Owns(i, s)
SnAsIs(s) == snDisk[s].mtime = 0 \/ snDisk[s].mtime > snRows[s].mtime \/ snStored[s] \ Shared = snDisk[s].of \ Shared

SnRowsDone == \A s \in DOMAIN snRows \ snTorn : SnAsIs(s) \/ \E i \in SnInstances : SnFills(i, s)

LEMMA SnRowsDoneIs == SnRowsDone <=> NotNewerIsStored
BY DEF SnRowsDone, NotNewerIsStored, SnAsIs, SnFills

SnLIInv == SnShape /\ (\A i \in SnInstances : SnLoads(snJob[i])) /\ SnRowsInv /\ SnRowsDone

\* what a source can have
IsOf(s, p) == IF s = "bundled" THEN p \in SnBundled ELSE p[1] \in SnFiles

SnJobOwn(j) ==
  /\ j.at \in {"load", "row", "snips"} => \A s \in DOMAIN j.loaded : \A p \in j.loaded[s] : IsOf(s, p)
  /\ j.at = "parse" => \A p \in j.todo : IsOf("user", p)
SnOwn ==
  /\ \A s \in Sources : (\A p \in snStored[s] : IsOf(s, p)) /\ (\A p \in snDisk[s].of : IsOf(s, p))
  /\ \A i \in SnInstances : SnJobOwn(snJob[i])

\* nothing that only one source can have is ignored
LEMMA FreshIsAll ==
  ASSUME SnOwn, NEW s \in Sources, NEW snippets, \A p \in snippets : IsOf(s, p)
  PROVE  Fresh(s, snippets) \ Shared = snippets \ Shared
<1>1. ASSUME NEW p \in snippets, p \notin Shared, NEW r \in Sources \ {s} PROVE p \notin snStored[r]
  <2>1. p \in snStored[r] => IsOf(r, p) BY DEF SnOwn
  <2>2. IsOf(s, p) OBVIOUS
  <2> QED BY <1>1, <2>1, <2>2 DEF IsOf, Shared, Sources
<1> QED BY <1>1 DEF Fresh

LEMMA SnLoadStart == SnInit => SnLIInv
<1> SUFFICES ASSUME SnInit PROVE SnLIInv OBVIOUS
<1>1. /\ snJob = [i \in SnInstances |-> NoJob]
      /\ snDisk = [user |-> [mtime |-> 0, of |-> {}], bundled |-> [mtime |-> 1, of |-> SnBundled]]
      /\ snRows = [s \in {"bundled"} |-> [mtime |-> 1, by |-> "before"]]
      /\ snStored = [s \in Sources |-> snDisk[s].of]
  BY DEF SnInit
<1>2. snDisk["user"] = [mtime |-> 0, of |-> {}] /\ snDisk["bundled"] = [mtime |-> 1, of |-> SnBundled]
      /\ DOMAIN snDisk = Sources /\ snDisk = [s \in Sources |-> snDisk[s]]
  BY <1>1 DEF Sources
<1>3. SnShape
  <2>1. \A i \in SnInstances : snJob[i] = NoJob BY <1>1
  <2>2. JobShape(NoJob) BY DEF JobShape, NoJob
  <2>3. \A s \in Sources : snDisk[s] = [mtime |-> snDisk[s].mtime, of |-> snDisk[s].of] /\ snDisk[s].mtime \in Int
    BY <1>2 DEF Sources
  <2>4. snJob = [i \in SnInstances |-> snJob[i]] /\ snStored = [s \in Sources |-> snStored[s]] BY <1>1
  <2> QED BY <1>2, <2>1, <2>2, <2>3, <2>4 DEF SnShape
<1>4. \A i \in SnInstances : snJob[i].at = "idle" BY <1>1 DEF NoJob
<1>5. \A i \in SnInstances : SnLoads(snJob[i]) BY <1>4 DEF SnLoads
<1>6. DOMAIN snRows = {"bundled"} /\ snRows["bundled"].mtime = 1 /\ snStored["bundled"] = snDisk["bundled"].of
  BY <1>1 DEF Sources
<1>7. SnRowsInv BY <1>2, <1>4, <1>6 DEF SnRowsInv, SnUpTo, Sources
<1>8. SnRowsDone BY <1>6 DEF SnRowsDone, SnAsIs
<1> QED BY <1>3, <1>5, <1>7, <1>8 DEF SnLIInv

LEMMA SnJobSet ==
  ASSUME SnShape, NEW i \in SnInstances, NEW job, SetJob(i, job), JobShape(job)
  PROVE  /\ snJob'[i] = job /\ \A k \in SnInstances \ {i} : snJob'[k] = snJob[k]
         /\ snJob' = [k \in SnInstances |-> snJob'[k]] /\ \A k \in SnInstances : JobShape(snJob'[k])
<1>1. snJob'[i] = job /\ (\A k \in SnInstances \ {i} : snJob'[k] = snJob[k]) /\ snJob' = [k \in SnInstances |-> snJob'[k]]
  BY DEF SetJob, SnShape
<1> HIDE DEF JobShape
<1> QED BY <1>1 DEF SnShape

(* An instance that fills no row goes on, and touches neither file nor database.         *)
LEMMA SnGoesOn ==
  ASSUME SnLIInv, NEW i \in SnInstances, NEW job, SetJob(i, job), JobShape(job), SnLoads(job),
         UNCHANGED <<snDisk, snRows, snStored, snTorn>>, job.at # "snips", \A s : ~SnFills(i, s)
  PROVE  SnLIInv'
<1> HIDE DEF JobShape
<1>1. /\ snJob'[i] = job /\ \A k \in SnInstances \ {i} : snJob'[k] = snJob[k]
      /\ snJob' = [k \in SnInstances |-> snJob'[k]] /\ \A k \in SnInstances : JobShape(snJob'[k])
  BY SnJobSet DEF SnLIInv
<1>2. SnShape' BY <1>1 DEF SnLIInv, SnShape
<1>3. \A k \in SnInstances : SnLoads(snJob[k])' BY <1>1 DEF SnLIInv, SnLoads, SnUpTo
<1>4. SnRowsInv' BY <1>1 DEF SnLIInv, SnRowsInv, SnUpTo, Owns
<1>5. SnRowsDone'
  <2> SUFFICES ASSUME NEW s \in DOMAIN snRows \ snTorn
      PROVE SnAsIs(s)' \/ \E k \in SnInstances : SnFills(k, s)'
    BY DEF SnRowsDone
  <2>1. CASE SnAsIs(s) BY <2>1 DEF SnAsIs
  <2>2. ASSUME NEW k \in SnInstances, SnFills(k, s) PROVE SnFills(k, s)' BY <2>2, <1>1 DEF SnFills, Owns
  <2> QED BY <2>1, <2>2 DEF SnLIInv, SnRowsDone
<1> QED BY <1>2, <1>3, <1>4, <1>5 DEF SnLIInv

(* Rows go, with what is stored of them.                                                 *)
LEMMA SnDrops ==
  ASSUME SnLIInv, NEW i \in SnInstances, NEW job, SetJob(i, job), JobShape(job), SnLoads(job),
         NEW gone, Without(gone), UNCHANGED snDisk, job.at # "snips", snJob[i].at # "snips"
  PROVE  SnLIInv'
<1> HIDE DEF JobShape
<1>1. /\ snJob'[i] = job /\ \A k \in SnInstances \ {i} : snJob'[k] = snJob[k]
      /\ snJob' = [k \in SnInstances |-> snJob'[k]] /\ \A k \in SnInstances : JobShape(snJob'[k])
  BY SnJobSet DEF SnLIInv
<1>2. /\ snRows' = [s \in DOMAIN snRows \ gone |-> snRows[s]]
      /\ snStored' = [s \in Sources |-> IF s \in gone THEN {} ELSE snStored[s]]
      /\ snTorn' = snTorn \ gone
  BY DEF Without
<1>3. /\ DOMAIN snRows' = DOMAIN snRows \ gone /\ \A s \in DOMAIN snRows' : snRows'[s] = snRows[s]
      /\ \A s \in Sources \ gone : snStored'[s] = snStored[s]
      /\ snStored' = [s \in Sources |-> snStored'[s]]
  BY <1>2
<1>4. SnShape' BY <1>1, <1>3 DEF SnLIInv, SnShape
<1>5. \A k \in SnInstances : SnLoads(snJob[k])' BY <1>1 DEF SnLIInv, SnLoads, SnUpTo
<1>6. \A k, s : Owns(k, s)' => Owns(k, s) BY <1>3 DEF Owns
<1>7. SnRowsInv'
  <2>1. \A s \in DOMAIN snRows' : s \in Sources /\ SnUpTo(s, snRows[s].mtime)' BY <1>3 DEF SnLIInv, SnRowsInv, SnUpTo
  <2>2. \A k \in SnInstances : snJob'[k].at = "snips" =>
          \A s \in snJob'[k].seen : Owns(k, s)' => snRows'[s].mtime = snJob'[k].disk[s]
    <3> SUFFICES ASSUME NEW k \in SnInstances, snJob'[k].at = "snips", NEW s \in snJob'[k].seen, Owns(k, s)'
        PROVE snRows'[s].mtime = snJob'[k].disk[s] OBVIOUS
    <3>1. k # i /\ snJob'[k] = snJob[k] /\ Owns(k, s) BY <1>1, <1>6
    <3>2. snRows'[s] = snRows[s] BY <1>3 DEF Owns
    <3> QED BY <3>1, <3>2 DEF SnLIInv, SnRowsInv
  <2> QED BY <2>1, <2>2 DEF SnRowsInv
<1>8. SnRowsDone'
  <2> SUFFICES ASSUME NEW s \in DOMAIN snRows', s \notin snTorn'
      PROVE SnAsIs(s)' \/ \E k \in SnInstances : SnFills(k, s)'
    BY DEF SnRowsDone
  <2>1. s \in DOMAIN snRows \ snTorn /\ snRows'[s] = snRows[s] /\ snStored'[s] = snStored[s] /\ s \in DOMAIN snRows'
    BY <1>2, <1>3 DEF SnLIInv, SnRowsInv
  <2>2. CASE SnAsIs(s) BY <2>1, <2>2 DEF SnAsIs
  <2>3. ASSUME NEW k \in SnInstances, SnFills(k, s) PROVE SnFills(k, s)'
    BY <2>1, <2>3, <1>1 DEF SnFills, Owns
  <2> QED BY <2>1, <2>2, <2>3 DEF SnLIInv, SnRowsDone
<1> QED BY <1>4, <1>5, <1>7, <1>8 DEF SnLIInv

(* A file is saved, compiled or taken away.                                              *)
LEMMA SnFileChanges ==
  ASSUME SnLIInv, SnShape', UNCHANGED <<snRows, snStored, snTorn>>,
         \A i \in SnInstances : snJob'[i] = snJob[i] \/ snJob'[i].at \in {"idle", "see", "stat", "parse", "meta"},
         \A i \in SnInstances : snJob[i].at = "snips" => snJob'[i] = snJob[i],
         \/ snDisk'["bundled"] = snDisk["bundled"] /\ snDisk'["user"].mtime = snDisk["user"].mtime + 1
         \/ snDisk'["user"] = snDisk["user"] /\ snDisk'["bundled"].mtime = 0
  PROVE  SnLIInv'
<1>1. \A s \in Sources : \/ snDisk'[s] = snDisk[s]
                         \/ s = "user" /\ snDisk'[s].mtime = snDisk[s].mtime + 1
                         \/ s = "bundled" /\ snDisk'[s].mtime = 0
  BY DEF Sources
<1>2. \A s \in Sources : snDisk[s].mtime \in Int /\ snDisk'[s].mtime \in Int BY DEF SnLIInv, SnShape
<1>3. ASSUME NEW s \in Sources, NEW m, SnUpTo(s, m)
      PROVE  /\ m \in Int
             /\ m <= snDisk'[s].mtime \/ (s = "bundled" /\ snDisk'[s].mtime = 0)
             /\ snDisk'[s] = snDisk[s] \/ snDisk'[s].mtime = 0 \/ snDisk'[s].mtime > m
  BY <1>1, <1>2, <1>3 DEF SnUpTo
<1>4. ASSUME NEW i \in SnInstances PROVE SnLoads(snJob[i])'
  <2>1. CASE snJob'[i].at \in {"idle", "see", "stat", "parse", "meta"} BY <2>1 DEF SnLoads
  <2>2. CASE snJob'[i] = snJob[i]
    <3> DEFINE j == snJob[i]
    <3>1. SnLoads(j) BY DEF SnLIInv
    <3>2. j.at \in {"slurp", "read", "load", "row", "snips"} => \A s \in DOMAIN j.disk : s \in Sources /\ SnUpTo(s, j.disk[s])
      BY <3>1 DEF SnLoads
    <3>3. j.at \in {"slurp", "read", "load", "row", "snips"} => \A s \in DOMAIN j.disk : s \in Sources /\ SnUpTo(s, j.disk[s])'
      <4> SUFFICES ASSUME j.at \in {"slurp", "read", "load", "row", "snips"}, NEW s \in DOMAIN j.disk
          PROVE s \in Sources /\ SnUpTo(s, j.disk[s])' OBVIOUS
      <4>1. s \in Sources /\ SnUpTo(s, j.disk[s]) BY <3>2
      <4>2. j' = j BY <2>2
      <4> HIDE DEF j
      <4> QED BY <4>1, <4>2, <1>3 DEF SnUpTo
    <3>4. j.at \in {"load", "row", "snips"} => \A s \in j.todo :
            snDisk'[s].mtime = 0 \/ snDisk'[s].mtime > j.disk[s] \/ j.loaded[s] = snDisk'[s].of
      <4> SUFFICES ASSUME j.at \in {"load", "row", "snips"}, NEW s \in j.todo
          PROVE snDisk'[s].mtime = 0 \/ snDisk'[s].mtime > j.disk[s] \/ j.loaded[s] = snDisk'[s].of OBVIOUS
      <4>1. s \in Sources /\ SnUpTo(s, j.disk[s]) BY <3>1 DEF SnLoads
      <4>2. snDisk[s].mtime = 0 \/ snDisk[s].mtime > j.disk[s] \/ j.loaded[s] = snDisk[s].of BY <3>1 DEF SnLoads
      <4> HIDE DEF j
      <4> QED BY <4>1, <4>2, <1>3
    <3> QED BY <2>2, <3>1, <3>3, <3>4 DEF SnLoads
  <2> QED BY <2>1, <2>2
<1>5. SnRowsInv'
  <2>1. \A s \in DOMAIN snRows : s \in Sources /\ SnUpTo(s, snRows[s].mtime)'
    <3> SUFFICES ASSUME NEW s \in DOMAIN snRows PROVE s \in Sources /\ SnUpTo(s, snRows[s].mtime)' OBVIOUS
    <3>1. s \in Sources /\ SnUpTo(s, snRows[s].mtime) BY DEF SnLIInv, SnRowsInv
    <3>2. snRows' = snRows OBVIOUS
    <3> QED BY <1>3, <3>1, <3>2 DEF SnUpTo
  <2>2. \A i \in SnInstances : snJob'[i].at = "snips" => snJob'[i] = snJob[i] OBVIOUS
  <2> QED BY <2>1, <2>2 DEF SnLIInv, SnRowsInv, Owns
<1>6. SnRowsDone'
  <2> SUFFICES ASSUME NEW s \in DOMAIN snRows \ snTorn
      PROVE SnAsIs(s)' \/ \E k \in SnInstances : SnFills(k, s)'
    BY DEF SnRowsDone
  <2>1. CASE SnAsIs(s)
    <3>1. s \in Sources /\ SnUpTo(s, snRows[s].mtime) BY DEF SnLIInv, SnRowsInv
    <3> QED BY <1>3, <2>1, <3>1 DEF SnAsIs
  <2>2. ASSUME NEW k \in SnInstances, SnFills(k, s) PROVE SnFills(k, s)' BY <2>2 DEF SnFills, Owns
  <2> QED BY <2>1, <2>2 DEF SnLIInv, SnRowsDone
<1> QED BY <1>4, <1>5, <1>6 DEF SnLIInv

LEMMA SnSourceStep ==
  ASSUME SnLIInv, SnOwn, NEW i \in SnInstances, NEW s \in Sources, SnSource(i, s) PROVE SnLIInv'
<1> DEFINE j == snJob[i]
<1>0. JobShape(j) /\ SnLoads(j) BY DEF SnLIInv, SnShape
<1>1. CASE SnDelete(i, s)
  <2> DEFINE job == [j EXCEPT !.at = "row", !.seen = {s}]
  <2>1. j.at = "load" /\ s \in j.todo /\ Without({s}) /\ SetJob(i, job) /\ UNCHANGED snDisk
    BY <1>1 DEF SnDelete, snFiles
  <2>2. /\ JobShape(job) /\ job.at = "row" /\ job.seen = {s}
        /\ job.disk = j.disk /\ job.todo = j.todo /\ job.loaded = j.loaded
    <3> HIDE DEF j
    <3> DEFINE one == {s}
    <3>1. job = [j EXCEPT !.at = "row", !.seen = one] OBVIOUS
    <3> HIDE DEF one, job
    <3>2. /\ JobShape(job) /\ job.at = "row" /\ job.seen = one
          /\ job.disk = j.disk /\ job.todo = j.todo /\ job.loaded = j.loaded
      BY <1>0, <3>1 DEF JobShape
    <3> QED BY <3>2 DEF one
  <2> HIDE DEF job
  <2>3. SnLoads(job) BY <1>0, <2>1, <2>2 DEF SnLoads
  <2> QED BY <2>1, <2>2, <2>3, SnDrops
<1>2. CASE SnRow(i, s)
  <2>1. j.at = "row" /\ j.seen = {s} /\ UNCHANGED <<snDisk, snStored, snTorn>> BY <1>2 DEF SnRow, snFiles
  <2>2. CASE s \in DOMAIN snRows
    <3>1. SetJob(i, NoJob) /\ UNCHANGED snRows BY <1>2, <2>2 DEF SnRow
    <3>2. JobShape(NoJob) /\ SnLoads(NoJob) /\ NoJob.at = "idle" BY DEF JobShape, SnLoads, NoJob
    <3>3. \A r : ~SnFills(i, r) BY <2>1 DEF SnFills
    <3> QED BY <2>1, <3>1, <3>2, <3>3, SnGoesOn
  <2>3. CASE s \notin DOMAIN snRows
    <3> DEFINE job == [j EXCEPT !.at = "snips"]
    <3>1. SetJob(i, job) /\ AddRow(i, s, j.disk[s]) BY <1>2, <2>3 DEF SnRow
    <3>2. /\ JobShape(job) /\ job.at = "snips" /\ job.seen = {s}
          /\ job.disk = j.disk /\ job.todo = j.todo /\ job.loaded = j.loaded
      BY <1>0, <2>1 DEF JobShape
    <3> HIDE DEF job
    <3>3. /\ snJob'[i] = job /\ \A k \in SnInstances \ {i} : snJob'[k] = snJob[k]
          /\ snJob' = [k \in SnInstances |-> snJob'[k]] /\ \A k \in SnInstances : JobShape(snJob'[k])
      BY <3>1, <3>2, SnJobSet DEF SnLIInv
    <3>4. /\ DOMAIN snRows' = DOMAIN snRows \union {s} /\ snRows'[s] = [mtime |-> j.disk[s], by |-> i]
          /\ \A r \in DOMAIN snRows : snRows'[r] = snRows[r]
      BY <2>3, <3>1 DEF AddRow
    <3>5. s \in Sources /\ SnUpTo(s, j.disk[s])
      <4>1. s \in j.todo BY <1>0, <2>1 DEF SnLoads
      <4>2. s \in DOMAIN j.disk BY <1>0, <2>1, <4>1 DEF SnLoads
      <4> QED BY <1>0, <2>1, <4>2 DEF SnLoads
    <3>6. SnShape' BY <2>1, <3>3 DEF SnLIInv, SnShape
    <3>7. \A k \in SnInstances : SnLoads(snJob[k])'
      <4>1. SnLoads(job) BY <1>0, <2>1, <3>2 DEF SnLoads
      <4>2. \A k \in SnInstances : SnLoads(snJob'[k]) BY <3>3, <4>1 DEF SnLIInv
      <4> QED BY <2>1, <4>2 DEF SnLoads, SnUpTo
    <3>8. SnRowsInv'
      <4>1. \A r \in DOMAIN snRows' : r \in Sources /\ SnUpTo(r, snRows[r].mtime)'
        BY <2>1, <3>4, <3>5 DEF SnLIInv, SnRowsInv, SnUpTo
      <4>2. ASSUME NEW k \in SnInstances, snJob'[k].at = "snips", NEW r \in snJob'[k].seen, Owns(k, r)'
            PROVE snRows'[r].mtime = snJob'[k].disk[r]
        <5>1. CASE k = i BY <3>2, <3>3, <3>4, <4>2, <5>1
        <5>2. CASE k # i
          <6>1. r # s BY <3>4, <4>2, <5>2 DEF Owns
          <6>2. Owns(k, r) /\ snRows'[r] = snRows[r] BY <3>4, <4>2, <6>1 DEF Owns
          <6> QED BY <3>3, <4>2, <5>2, <6>2 DEF SnLIInv, SnRowsInv
        <5> QED BY <5>1, <5>2
      <4> QED BY <4>1, <4>2 DEF SnRowsInv
    <3>9. SnRowsDone'
      <4> SUFFICES ASSUME NEW r \in DOMAIN snRows', r \notin snTorn'
          PROVE SnAsIs(r)' \/ \E k \in SnInstances : SnFills(k, r)'
        BY DEF SnRowsDone
      <4>1. CASE r = s
        <5>1. SnFills(i, s)' BY <3>2, <3>3, <3>4 DEF SnFills, Owns
        <5> QED BY <4>1, <5>1
      <4>2. CASE r # s
        <5>1. r \in DOMAIN snRows \ snTorn /\ snRows'[r] = snRows[r] BY <2>1, <3>4, <4>2
        <5>2. CASE SnAsIs(r) BY <2>1, <5>1, <5>2 DEF SnAsIs
        <5>3. ASSUME NEW k \in SnInstances, SnFills(k, r) PROVE SnFills(k, r)'
          <6>1. k # i BY <2>1, <5>3 DEF SnFills
          <6> QED BY <3>3, <3>4, <5>1, <5>3, <6>1 DEF SnFills, Owns
        <5> QED BY <5>1, <5>2, <5>3 DEF SnLIInv, SnRowsDone
      <4> QED BY <4>1, <4>2
    <3> QED BY <3>6, <3>7, <3>8, <3>9 DEF SnLIInv
  <2> QED BY <2>2, <2>3
<1>3. CASE SnStore(i, s)
  <2>1. j.at = "snips" /\ j.seen = {s} /\ UNCHANGED <<snDisk, snRows, snTorn>> BY <1>3 DEF SnStore, snFiles
  <2>2. CASE ~Owns(i, s)
    <3>1. SetJob(i, NoJob) /\ UNCHANGED snStored BY <1>3, <2>2 DEF SnStore
    <3>2. JobShape(NoJob) /\ SnLoads(NoJob) /\ NoJob.at = "idle" BY DEF JobShape, SnLoads, NoJob
    <3>3. \A r : ~SnFills(i, r) BY <2>1, <2>2 DEF SnFills
    <3> QED BY <2>1, <3>1, <3>2, <3>3, SnGoesOn
  <2>3. CASE Owns(i, s)
    <3> DEFINE job == [j EXCEPT !.at = "load", !.seen = {}, !.todo = @ \ {s},
                         !.loaded = [r \in DOMAIN @ \ {s} |-> @[r]]]
    <3>1. SetJob(i, job) /\ snStored' = [snStored EXCEPT ![s] = Fresh(s, j.loaded[s])] BY <1>3, <2>3 DEF SnStore
    <3>2. /\ JobShape(job) /\ job.at = "load" /\ job.disk = j.disk /\ job.todo = j.todo \ {s}
          /\ job.loaded = [r \in DOMAIN j.loaded \ {s} |-> j.loaded[r]]
      <4> HIDE DEF j
      <4> DEFINE rest == [r \in DOMAIN j.loaded \ {s} |-> j.loaded[r]] todo == j.todo \ {s}
      <4>1. job = [j EXCEPT !.at = "load", !.seen = {}, !.todo = todo, !.loaded = rest]
        BY <1>0 DEF JobShape
      <4> HIDE DEF rest, todo, job
      <4>2. /\ JobShape(job) /\ job.at = "load" /\ job.disk = j.disk /\ job.todo = todo /\ job.loaded = rest
        BY <1>0, <4>1 DEF JobShape
      <4> QED BY <4>2 DEF rest, todo
    <3> HIDE DEF job
    <3>3. /\ snJob'[i] = job /\ \A k \in SnInstances \ {i} : snJob'[k] = snJob[k]
          /\ snJob' = [k \in SnInstances |-> snJob'[k]] /\ \A k \in SnInstances : JobShape(snJob'[k])
      BY <3>1, <3>2, SnJobSet DEF SnLIInv
    <3>4. /\ snStored'[s] = Fresh(s, j.loaded[s]) /\ \A r \in Sources \ {s} : snStored'[r] = snStored[r]
          /\ snStored' = [r \in Sources |-> snStored'[r]]
      BY <3>1 DEF SnLIInv, SnShape
    <3>5. SnShape' BY <2>1, <3>3, <3>4 DEF SnLIInv, SnShape
    <3>6. \A k \in SnInstances : SnLoads(snJob[k])'
      <4>1. \A r \in job.todo : r \in DOMAIN job.loaded /\ job.loaded[r] = j.loaded[r] /\ r \in j.todo
        BY <1>0, <2>1, <3>2 DEF SnLoads
      <4>2. SnLoads(job) BY <1>0, <2>1, <3>2, <4>1 DEF SnLoads
      <4>3. \A k \in SnInstances : SnLoads(snJob'[k]) BY <3>3, <4>2 DEF SnLIInv
      <4> QED BY <2>1, <4>3 DEF SnLoads, SnUpTo
    <3>7. SnRowsInv'
      <4>1. \A k \in SnInstances : snJob'[k].at = "snips" => snJob'[k] = snJob[k] BY <3>2, <3>3
      <4> QED BY <2>1, <4>1 DEF SnLIInv, SnRowsInv, SnUpTo, Owns
    <3>8. SnRowsDone'
      <4> SUFFICES ASSUME NEW r \in DOMAIN snRows \ snTorn
          PROVE SnAsIs(r)' \/ \E k \in SnInstances : SnFills(k, r)'
        BY <2>1 DEF SnRowsDone
      <4>1. CASE r = s
        <5>1. snRows[s].mtime = j.disk[s] BY <2>1, <2>3 DEF SnLIInv, SnRowsInv
        <5>2. s \in j.todo BY <1>0, <2>1 DEF SnLoads
        <5>3. snDisk[s].mtime = 0 \/ snDisk[s].mtime > j.disk[s] \/ j.loaded[s] = snDisk[s].of
          BY <1>0, <2>1, <5>2 DEF SnLoads
        <5>4. Fresh(s, j.loaded[s]) \ Shared = j.loaded[s] \ Shared
          <6>1. \A p \in j.loaded[s] : IsOf(s, p) BY <1>0, <2>1, <5>2 DEF SnOwn, SnJobOwn, SnLoads
          <6> QED BY <6>1, FreshIsAll
        <5>5. snStored'[s] \ Shared = j.loaded[s] \ Shared BY <3>4, <5>4
        <5> QED BY <2>1, <4>1, <5>1, <5>3, <5>5 DEF SnAsIs
      <4>2. CASE r # s
        <5>1. snStored'[r] = snStored[r] BY <3>4, <4>2 DEF SnLIInv, SnRowsInv
        <5>2. CASE SnAsIs(r) BY <2>1, <5>1, <5>2 DEF SnAsIs
        <5>3. ASSUME NEW k \in SnInstances, SnFills(k, r) PROVE SnFills(k, r)'
          <6>1. k # i BY <2>1, <4>2, <5>3 DEF SnFills
          <6> QED BY <2>1, <3>3, <5>3, <6>1 DEF SnFills, Owns
        <5> QED BY <5>2, <5>3 DEF SnLIInv, SnRowsDone
      <4> QED BY <4>1, <4>2
    <3> QED BY <3>5, <3>6, <3>7, <3>8 DEF SnLIInv
  <2> QED BY <2>2, <2>3
<1> QED BY <1>1, <1>2, <1>3 DEF SnSource

LEMMA SnPasses ==
  ASSUME SnLIInv, NEW i \in SnInstances, NEW job, SetJob(i, job), JobShape(job),
         job.at \in {"idle", "see", "stat", "parse", "meta"}, snJob[i].at # "snips",
         UNCHANGED <<snDisk, snRows, snStored, snTorn>>
  PROVE  SnLIInv'
<1> HIDE DEF JobShape
<1>1. SnLoads(job) /\ job.at # "snips" BY DEF SnLoads
<1>2. \A s : ~SnFills(i, s) BY DEF SnFills
<1> QED BY <1>1, <1>2, SnGoesOn

LEMMA SnInstanceStep ==
  ASSUME SnLIInv, SnOwn, NEW i \in SnInstances, SnInstance(i) PROVE SnLIInv'
<1> DEFINE j == snJob[i]
<1>0. JobShape(j) /\ SnLoads(j) BY DEF SnLIInv, SnShape
<1>a. JobShape(j) BY <1>0
<1>b. JobShape(NoJob) BY DEF JobShape, NoJob
<1>1. CASE SnLoadSnips(i) \/ SnCompile(i) \/ SnSlurped(i) \/ SnStat(i) \/ SnInvalid(i) \/ SnDumpMeta(i) \/ SnDumpFails(i)
  <2>1. j.at # "snips" /\ UNCHANGED <<snDisk, snRows, snStored, snTorn>>
    BY <1>1 DEF SnLoadSnips, SnCompile, SnSlurped, SnStat, SnInvalid, SnDumpMeta, SnDumpFails, snFiles, snDb
  <2>2. PICK job \in {NoJob, [NoJob EXCEPT !.at = "see"], [NoJob EXCEPT !.at = "see", !.first = TRUE],
                      [NoJob EXCEPT !.at = "stat"], [NoJob EXCEPT !.at = "parse", !.mtimes = snUser, !.left = SnFiles]} :
          SetJob(i, job)
    BY <1>1 DEF SnLoadSnips, SnCompile, SnSlurped, SnStat, SnInvalid, SnDumpMeta, SnDumpFails
  <2>3. JobShape(job) /\ job.at \in {"idle", "see", "stat", "parse"}
    <3>1. CASE job = NoJob BY <1>b, <3>1 DEF NoJob
    <3>2. CASE job = [NoJob EXCEPT !.at = "see"] BY <3>2 DEF JobShape, NoJob
    <3>3. CASE job = [NoJob EXCEPT !.at = "see", !.first = TRUE] BY <3>3 DEF JobShape, NoJob
    <3>4. CASE job = [NoJob EXCEPT !.at = "stat"] BY <3>4 DEF JobShape, NoJob
    <3>5. CASE job = [NoJob EXCEPT !.at = "parse", !.mtimes = snUser, !.left = SnFiles] BY <3>5 DEF JobShape, NoJob
    <3> QED BY <2>2, <3>1, <3>2, <3>3, <3>4, <3>5
  <2> QED BY <2>1, <2>2, <2>3, SnPasses
<1>2. ASSUME NEW f \in SnFiles, SnParse(i, f) PROVE SnLIInv'
  <2> DEFINE left == j.left \ {f} todo == j.todo \union {<<f, snUser[f]>>}
             job == [j EXCEPT !.left = left, !.todo = todo]
  <2>1. j.at = "parse" /\ SetJob(i, job) /\ UNCHANGED <<snDisk, snRows, snStored, snTorn>>
    BY <1>2 DEF SnParse, snFiles, snDb
  <2>2. JobShape(job) /\ job.at = "parse"
    <3>1. job = [j EXCEPT !.left = left, !.todo = todo] OBVIOUS
    <3> HIDE DEF job, j, left, todo
    <3> QED BY <1>a, <2>1, <3>1 DEF JobShape
  <2> HIDE DEF job
  <2> QED BY <2>1, <2>2, SnPasses
<1>3. CASE SnSee(i)
  <2>1. PICK left : SetJob(i, [j EXCEPT !.at = "slurp", !.disk = DiskTimes, !.rows = RowTimes, !.left = left])
    BY <1>3 DEF SnSee
  <2> DEFINE job == [j EXCEPT !.at = "slurp", !.disk = DiskTimes, !.rows = RowTimes, !.left = left]
  <2>2. j.at = "see" /\ UNCHANGED <<snDisk, snRows, snStored, snTorn>> BY <1>3 DEF SnSee, snFiles, snDb
  <2>3. JobShape(job) /\ job.at = "slurp" /\ job.disk = DiskTimes
    <3>1. job = [j EXCEPT !.at = "slurp", !.disk = DiskTimes, !.rows = RowTimes, !.left = left] OBVIOUS
    <3> HIDE DEF job, j
    <3> QED BY <1>a, <3>1 DEF JobShape
  <2>4. SetJob(i, job) BY <2>1
  <2> HIDE DEF job
  <2>5. DOMAIN DiskTimes \subseteq Sources /\ \A s \in DOMAIN DiskTimes : SnUpTo(s, DiskTimes[s])
    BY DEF DiskTimes, Present, SnUpTo, SnLIInv, SnShape
  <2>6. SnLoads(job) BY <2>3, <2>5 DEF SnLoads
  <2>7. \A s : ~SnFills(i, s) BY <2>2 DEF SnFills
  <2> QED BY <2>2, <2>3, <2>4, <2>6, <2>7, SnGoesOn
<1>4. CASE SnSlurp(i)
  <2> DEFINE new == {s \in DOMAIN j.disk : s \in DOMAIN j.rows => j.disk[s] > j.rows[s]}
             disk == [s \in new |-> j.disk[s]]
             job == [j EXCEPT !.at = "read", !.rows = <<>>, !.todo = new, !.disk = disk]
  <2>1. j.at = "slurp" /\ Without(DOMAIN j.rows \ DOMAIN j.disk) /\ SetJob(i, job) /\ UNCHANGED snDisk
    BY <1>4 DEF SnSlurp, snFiles
  <2>2. new \subseteq DOMAIN j.disk /\ DOMAIN disk = new /\ \A s \in new : disk[s] = j.disk[s] OBVIOUS
  <2> HIDE DEF new, disk
  <2>3. JobShape(job) /\ job.at = "read" /\ job.todo = new /\ job.disk = disk
    <3>1. job = [j EXCEPT !.at = "read", !.rows = <<>>, !.todo = new, !.disk = disk] OBVIOUS
    <3> HIDE DEF job, j
    <3> QED BY <1>a, <3>1 DEF JobShape
  <2> HIDE DEF job
  <2>4. SnLoads(job) BY <1>0, <2>1, <2>2, <2>3 DEF SnLoads
  <2> QED BY <2>1, <2>3, <2>4, SnDrops
<1>5. CASE SnLoad(i)
  <2> DEFINE there == j.todo \intersect Present
             loaded == [s \in there |-> snDisk[s].of]
             job == [j EXCEPT !.at = "load", !.todo = there, !.loaded = loaded]
  <2>1. j.at = "read" /\ SetJob(i, job) /\ UNCHANGED <<snDisk, snRows, snStored, snTorn>>
    BY <1>5 DEF SnLoad, snFiles, snDb
  <2>2. there \subseteq j.todo /\ DOMAIN loaded = there /\ \A s \in there : loaded[s] = snDisk[s].of OBVIOUS
  <2> HIDE DEF there, loaded
  <2>3. JobShape(job) /\ job.at = "load" /\ job.todo = there /\ job.loaded = loaded /\ job.disk = j.disk
    <3>1. job = [j EXCEPT !.at = "load", !.todo = there, !.loaded = loaded] OBVIOUS
    <3> HIDE DEF job, j
    <3> QED BY <1>a, <3>1 DEF JobShape
  <2> HIDE DEF job
  <2>4. SnLoads(job) BY <1>0, <2>1, <2>2, <2>3 DEF SnLoads
  <2>5. \A s : ~SnFills(i, s) BY <2>1 DEF SnFills
  <2> QED BY <2>1, <2>3, <2>4, <2>5, SnGoesOn
<1>6. CASE SnDumpSnippets(i)
  <2> DEFINE job == [j EXCEPT !.at = "meta", !.todo = {}]
             now == [mtime |-> snDisk["user"].mtime + 1, of |-> j.todo]
  <2>1. j.at = "parse" /\ SetJob(i, job) /\ UNCHANGED <<snRows, snStored, snTorn>> BY <1>6 DEF SnDumpSnippets, snDb
  <2>2. snDisk' = [snDisk EXCEPT !["user"] = now] BY <1>6 DEF SnDumpSnippets
  <2>3. JobShape(job) /\ job.at = "meta"
    <3>1. job = [j EXCEPT !.at = "meta", !.todo = {}] OBVIOUS
    <3> HIDE DEF job, j
    <3> QED BY <1>a, <3>1 DEF JobShape
  <2> HIDE DEF job
  <2>4. /\ snJob'[i] = job /\ \A k \in SnInstances \ {i} : snJob'[k] = snJob[k]
        /\ snJob' = [k \in SnInstances |-> snJob'[k]] /\ \A k \in SnInstances : JobShape(snJob'[k])
    BY <2>1, <2>3, SnJobSet DEF SnLIInv
  <2>5. snDisk["user"].mtime \in Int BY DEF SnLIInv, SnShape, Sources
  <2>6. now = [mtime |-> now.mtime, of |-> now.of] /\ now.mtime = snDisk["user"].mtime + 1 /\ now.mtime \in Int BY <2>5
  <2> HIDE DEF now
  <2>7. /\ snDisk'["user"] = now /\ snDisk'["bundled"] = snDisk["bundled"] /\ snDisk' = [s \in Sources |-> snDisk'[s]]
    BY <2>2 DEF SnLIInv, SnShape, Sources
  <2>8. SnShape'
    <3>1. \A s \in Sources : snDisk'[s] = [mtime |-> snDisk'[s].mtime, of |-> snDisk'[s].of] /\ snDisk'[s].mtime \in Int
      BY <2>6, <2>7 DEF SnLIInv, SnShape, Sources
    <3> QED BY <2>1, <2>4, <2>7, <3>1 DEF SnLIInv, SnShape
  <2>9. /\ \A k \in SnInstances : snJob'[k] = snJob[k] \/ snJob'[k].at \in {"idle", "see", "stat", "parse", "meta"}
        /\ \A k \in SnInstances : snJob[k].at = "snips" => snJob'[k] = snJob[k]
    BY <2>1, <2>3, <2>4
  <2> QED BY <2>1, <2>6, <2>7, <2>8, <2>9, SnFileChanges
<1>7. CASE SnCrash(i)
  <2>1. SetJob(i, NoJob) /\ UNCHANGED <<snDisk, snRows>> BY <1>7 DEF SnCrash, snFiles
  <2>2. SnLoads(NoJob) /\ NoJob.at = "idle" BY DEF NoJob, SnLoads
  <2>3. CASE ~(j.at = "snips" /\ \E s \in j.seen : Owns(i, s))
    <3>1. UNCHANGED <<snStored, snTorn>> BY <1>7, <2>3 DEF SnCrash
    <3>2. \A s : ~SnFills(i, s) BY <2>3 DEF SnFills
    <3> QED BY <1>b, <2>1, <2>2, <3>1, <3>2, SnGoesOn
  <2>4. CASE j.at = "snips" /\ \E s \in j.seen : Owns(i, s)
    <3>1. PICK s \in j.todo : j.seen = {s} BY <1>0, <2>4 DEF SnLoads
    <3>2. (CHOOSE r \in j.seen : TRUE) = s BY <3>1
    <3>3. PICK some : snStored' = [snStored EXCEPT ![s] = some] /\ snTorn' = snTorn \union {s}
      BY <1>7, <2>4, <3>2 DEF SnCrash
    <3>4. /\ \A r \in Sources \ {s} : snStored'[r] = snStored[r]
          /\ snStored' = [r \in Sources |-> snStored'[r]]
      BY <3>3 DEF SnLIInv, SnShape
    <3> HIDE DEF JobShape
    <3>5. /\ snJob'[i] = NoJob /\ \A k \in SnInstances \ {i} : snJob'[k] = snJob[k]
          /\ snJob' = [k \in SnInstances |-> snJob'[k]] /\ \A k \in SnInstances : JobShape(snJob'[k])
      BY <1>b, <2>1, SnJobSet DEF SnLIInv
    <3>6. SnShape' BY <2>1, <3>4, <3>5 DEF SnLIInv, SnShape
    <3>7. \A k \in SnInstances : SnLoads(snJob[k])'
      <4>1. \A k \in SnInstances : SnLoads(snJob'[k]) BY <2>2, <3>5 DEF SnLIInv
      <4> QED BY <2>1, <4>1 DEF SnLoads, SnUpTo
    <3>8. SnRowsInv'
      <4>1. \A k \in SnInstances : snJob'[k].at = "snips" => snJob'[k] = snJob[k] BY <2>2, <3>5
      <4> QED BY <2>1, <4>1 DEF SnLIInv, SnRowsInv, SnUpTo, Owns
    <3>9. SnRowsDone'
      <4> SUFFICES ASSUME NEW r \in DOMAIN snRows, r \notin snTorn, r # s
          PROVE SnAsIs(r)' \/ \E k \in SnInstances : SnFills(k, r)'
        BY <2>1, <3>3 DEF SnRowsDone
      <4>1. snStored'[r] = snStored[r] BY <3>4 DEF SnLIInv, SnRowsInv
      <4>2. CASE SnAsIs(r) BY <2>1, <4>1, <4>2 DEF SnAsIs
      <4>3. ASSUME NEW k \in SnInstances, SnFills(k, r) PROVE SnFills(k, r)'
        <5>1. k # i BY <3>1, <4>3 DEF SnFills
        <5> QED BY <2>1, <3>5, <4>3, <5>1 DEF SnFills, Owns
      <4> QED BY <4>2, <4>3 DEF SnLIInv, SnRowsDone
    <3> QED BY <3>6, <3>7, <3>8, <3>9 DEF SnLIInv
  <2> QED BY <2>3, <2>4
<1>8. ASSUME NEW s \in Sources, SnSource(i, s) PROVE SnLIInv' BY <1>8, SnSourceStep
<1> QED BY <1>1, <1>2, <1>3, <1>4, <1>5, <1>6, <1>7, <1>8 DEF SnInstance

(* Of what a source has, nothing is another's but what they share.                       *)

LEMMA SnOwnStart == SnInit => SnOwn
<1> SUFFICES ASSUME SnInit PROVE SnOwn OBVIOUS
<1>1. /\ snDisk["user"].of = {} /\ snDisk["bundled"].of = SnBundled
      /\ snStored["user"] = {} /\ snStored["bundled"] = SnBundled
      /\ snJob = [i \in SnInstances |-> NoJob]
  BY DEF SnInit, Sources
<1>2. SnJobOwn(NoJob) BY DEF SnJobOwn, NoJob
<1> QED BY <1>1, <1>2 DEF SnOwn, IsOf, Sources

LEMMA SnOwnStep == SnLIInv /\ SnOwn /\ [SnNext]_snVars => SnOwn'
<1> SUFFICES ASSUME SnLIInv, SnOwn, [SnNext]_snVars PROVE SnOwn' OBVIOUS
<1>a. SnShape BY DEF SnLIInv
<1>b. \A i \in SnInstances : JobShape(snJob[i]) BY <1>a DEF SnShape
<1>n. SnJobOwn(NoJob) BY DEF SnJobOwn, NoJob
<1> DEFINE DbOwn == \A s \in Sources : \A p \in snStored[s] : IsOf(s, p)
           DiskOwn == \A s \in Sources : \A p \in snDisk[s].of : IsOf(s, p)
           JobsOwn == \A i \in SnInstances : SnJobOwn(snJob[i])
<1>o. SnOwn <=> DbOwn /\ DiskOwn /\ JobsOwn BY DEF SnOwn
<1>c. SnOwn' <=> DbOwn' /\ DiskOwn' /\ JobsOwn' BY DEF SnOwn, IsOf, SnJobOwn
<1>d. UNCHANGED snStored => DbOwn' BY <1>o DEF IsOf
<1>e. UNCHANGED snDisk => DiskOwn' BY <1>o DEF IsOf
<1>f. UNCHANGED snJob => JobsOwn' BY <1>o DEF SnJobOwn, IsOf
\* one instance goes on
<1>j. ASSUME NEW i \in SnInstances, NEW job, SetJob(i, job), SnJobOwn(job) PROVE JobsOwn'
  <2>1. snJob'[i] = job /\ \A k \in SnInstances \ {i} : snJob'[k] = snJob[k] BY <1>a, <1>j DEF SetJob, SnShape
  <2>2. \A k \in SnInstances : SnJobOwn(snJob'[k]) BY <2>1, <1>j, <1>o
  <2> QED BY <2>2 DEF SnJobOwn, IsOf
\* rows go
<1>w. ASSUME NEW gone, Without(gone) PROVE DbOwn'
  <2>1. \A s \in Sources : snStored'[s] = {} \/ snStored'[s] = snStored[s] BY <1>w DEF Without
  <2> QED BY <2>1, <1>o DEF IsOf
\* a source is stored, or some of it
<1>s. ASSUME NEW s \in Sources, NEW all, \A p \in all : IsOf(s, p), NEW some \in SUBSET Fresh(s, all),
             snStored' = [snStored EXCEPT ![s] = some]
      PROVE  DbOwn'
  <2>1. \A r \in Sources : snStored'[r] = some \/ snStored'[r] = snStored[r] BY <1>s, <1>a DEF SnShape
  <2>2. snStored'[s] = some /\ \A r \in Sources \ {s} : snStored'[r] = snStored[r] BY <1>s, <1>a DEF SnShape
  <2>3. \A p \in some : IsOf(s, p) BY <1>s DEF Fresh
  <2> QED BY <2>2, <2>3, <1>o DEF IsOf
<1>1. ASSUME NEW i \in SnInstances, SnInstance(i) PROVE SnOwn'
  <2> DEFINE j == snJob[i]
  <2>a. JobShape(j) /\ SnJobOwn(j) /\ SnLoads(j) BY <1>b, <1>o DEF SnLIInv
  <2>1. CASE SnLoadSnips(i) \/ SnCompile(i) \/ SnSlurped(i) \/ SnInvalid(i) \/ SnDumpMeta(i) \/ SnDumpFails(i)
    <3>1. UNCHANGED <<snDisk, snStored>>
      BY <2>1 DEF SnLoadSnips, SnCompile, SnSlurped, SnInvalid, SnDumpMeta, SnDumpFails, snFiles, snDb
    <3>2. PICK job \in {NoJob, [NoJob EXCEPT !.at = "see"], [NoJob EXCEPT !.at = "see", !.first = TRUE],
                        [NoJob EXCEPT !.at = "stat"]} : SetJob(i, job)
      BY <2>1 DEF SnLoadSnips, SnCompile, SnSlurped, SnInvalid, SnDumpMeta, SnDumpFails
    <3>3. job.at \in {"idle", "see", "stat"}
      <4>1. CASE job = NoJob BY <4>1 DEF NoJob
      <4>2. CASE job = [NoJob EXCEPT !.at = "see"] BY <4>2 DEF NoJob
      <4>3. CASE job = [NoJob EXCEPT !.at = "see", !.first = TRUE] BY <4>3 DEF NoJob
      <4>4. CASE job = [NoJob EXCEPT !.at = "stat"] BY <4>4 DEF NoJob
      <4> QED BY <3>2, <4>1, <4>2, <4>3, <4>4
    <3>4. SnJobOwn(job) BY <3>3 DEF SnJobOwn
    <3> HIDE DEF DbOwn, DiskOwn, JobsOwn
    <3> QED BY <3>1, <3>2, <3>4, <1>c, <1>d, <1>e, <1>j
  <2>2. CASE SnStat(i)
    <3> DEFINE job == [NoJob EXCEPT !.at = "parse", !.mtimes = snUser, !.left = SnFiles]
    <3>1. SetJob(i, job) /\ UNCHANGED <<snDisk, snStored>> BY <2>2 DEF SnStat, snFiles, snDb
    <3>2. job.at = "parse" /\ job.todo = {} BY DEF NoJob
    <3> HIDE DEF job
    <3>3. SnJobOwn(job) BY <3>2 DEF SnJobOwn
    <3> HIDE DEF DbOwn, DiskOwn, JobsOwn
    <3> QED BY <3>1, <3>3, <1>c, <1>d, <1>e, <1>j
  <2>3. ASSUME NEW f \in SnFiles, SnParse(i, f) PROVE SnOwn'
    <3> DEFINE left == j.left \ {f} one == <<f, snUser[f]>> todo == j.todo \union {one}
               job == [j EXCEPT !.left = left, !.todo = todo]
    <3>1. j.at = "parse" /\ SetJob(i, job) /\ UNCHANGED <<snDisk, snStored>> BY <2>3 DEF SnParse, snFiles, snDb
    <3>2. one[1] = f OBVIOUS
    <3>3. job.at = j.at /\ job.todo = todo
      <4>1. job = [j EXCEPT !.left = left, !.todo = todo] OBVIOUS
      <4> HIDE DEF job, j, left, todo
      <4> QED BY <2>a, <4>1 DEF JobShape
    <3> HIDE DEF job, one
    <3>4. \A p \in todo : IsOf("user", p) BY <2>a, <3>1, <3>2 DEF SnJobOwn, IsOf
    <3>5. SnJobOwn(job) BY <3>1, <3>3, <3>4 DEF SnJobOwn
    <3> HIDE DEF DbOwn, DiskOwn, JobsOwn
    <3> QED BY <3>1, <3>5, <1>c, <1>d, <1>e, <1>j
  <2>4. CASE SnSee(i)
    <3>1. PICK job : SetJob(i, job) /\ job.at = "slurp"
      <4>1. PICK left : SetJob(i, [j EXCEPT !.at = "slurp", !.disk = DiskTimes, !.rows = RowTimes, !.left = left])
        BY <2>4 DEF SnSee
      <4> DEFINE job == [j EXCEPT !.at = "slurp", !.disk = DiskTimes, !.rows = RowTimes, !.left = left]
      <4>2. job.at = "slurp"
        <5>1. job = [j EXCEPT !.at = "slurp", !.disk = DiskTimes, !.rows = RowTimes, !.left = left] OBVIOUS
        <5> HIDE DEF job, j
        <5> QED BY <2>a, <5>1 DEF JobShape
      <4> HIDE DEF job
      <4> QED BY <4>1, <4>2 DEF job
    <3>2. UNCHANGED <<snDisk, snStored>> BY <2>4 DEF SnSee, snFiles, snDb
    <3>3. SnJobOwn(job) BY <3>1 DEF SnJobOwn
    <3> HIDE DEF DbOwn, DiskOwn, JobsOwn
    <3> QED BY <3>1, <3>2, <3>3, <1>c, <1>d, <1>e, <1>j
  <2>5. CASE SnSlurp(i)
    <3> DEFINE new == {s \in DOMAIN j.disk : s \in DOMAIN j.rows => j.disk[s] > j.rows[s]}
               disk == [s \in new |-> j.disk[s]]
               job == [j EXCEPT !.at = "read", !.rows = <<>>, !.todo = new, !.disk = disk]
    <3>1. Without(DOMAIN j.rows \ DOMAIN j.disk) /\ SetJob(i, job) /\ UNCHANGED snDisk BY <2>5 DEF SnSlurp, snFiles
    <3> HIDE DEF new, disk
    <3>2. job.at = "read"
      <4>1. job = [j EXCEPT !.at = "read", !.rows = <<>>, !.todo = new, !.disk = disk] OBVIOUS
      <4> HIDE DEF job, j
      <4> QED BY <2>a, <4>1 DEF JobShape
    <3> HIDE DEF job
    <3>3. SnJobOwn(job) BY <3>2 DEF SnJobOwn
    <3> HIDE DEF DbOwn, DiskOwn, JobsOwn
    <3> QED BY <3>1, <3>3, <1>c, <1>e, <1>j, <1>w
  <2>6. CASE SnLoad(i)
    <3> DEFINE there == j.todo \intersect Present
               loaded == [s \in there |-> snDisk[s].of]
               job == [j EXCEPT !.at = "load", !.todo = there, !.loaded = loaded]
    <3>1. SetJob(i, job) /\ UNCHANGED <<snDisk, snStored>> BY <2>6 DEF SnLoad, snFiles, snDb
    <3>2. \A s \in DOMAIN loaded : \A p \in loaded[s] : IsOf(s, p) BY <1>o DEF Present
    <3> HIDE DEF there, loaded
    <3>3. job.at = "load" /\ job.loaded = loaded
      <4>1. job = [j EXCEPT !.at = "load", !.todo = there, !.loaded = loaded] OBVIOUS
      <4> HIDE DEF job, j
      <4> QED BY <2>a, <4>1 DEF JobShape
    <3> HIDE DEF job
    <3>4. SnJobOwn(job) BY <3>2, <3>3 DEF SnJobOwn
    <3> HIDE DEF DbOwn, DiskOwn, JobsOwn
    <3> QED BY <3>1, <3>4, <1>c, <1>d, <1>e, <1>j
  <2>7. ASSUME NEW s \in Sources, SnDelete(i, s) PROVE SnOwn'
    <3> DEFINE one == {s}
               job == [j EXCEPT !.at = "row", !.seen = one]
    <3>1. Without({s}) /\ SetJob(i, job) /\ UNCHANGED snDisk /\ j.at = "load" BY <2>7 DEF SnDelete, snFiles
    <3>2. job.at = "row" /\ job.loaded = j.loaded
      <4>1. job = [j EXCEPT !.at = "row", !.seen = one] OBVIOUS
      <4> HIDE DEF job, j, one
      <4> QED BY <2>a, <4>1 DEF JobShape
    <3> HIDE DEF job
    <3>3. SnJobOwn(job) BY <2>a, <3>1, <3>2 DEF SnJobOwn
    <3> HIDE DEF DbOwn, DiskOwn, JobsOwn
    <3> QED BY <3>1, <3>3, <1>c, <1>e, <1>j, <1>w
  <2>8. ASSUME NEW s \in Sources, SnRow(i, s) PROVE SnOwn'
    <3>1. j.at = "row" /\ UNCHANGED <<snDisk, snStored>> BY <2>8 DEF SnRow, snFiles
    <3>2. PICK job \in {NoJob, [j EXCEPT !.at = "snips"]} : SetJob(i, job) BY <2>8 DEF SnRow
    <3>3. SnJobOwn(job)
      <4> DEFINE new == [j EXCEPT !.at = "snips"]
      <4>1. new.at = "snips" /\ new.loaded = j.loaded
        <5>1. new = [j EXCEPT !.at = "snips"] OBVIOUS
        <5> HIDE DEF new, j
        <5> QED BY <2>a, <5>1 DEF JobShape
      <4>2. job = NoJob \/ job = new BY <3>2
      <4> HIDE DEF new
      <4>3. SnJobOwn(new) BY <2>a, <3>1, <4>1 DEF SnJobOwn
      <4> QED BY <4>2, <4>3, <1>n
    <3> HIDE DEF DbOwn, DiskOwn, JobsOwn
    <3> QED BY <3>1, <3>2, <3>3, <1>c, <1>d, <1>e, <1>j
  <2>9. ASSUME NEW s \in Sources, SnStore(i, s) PROVE SnOwn'
    <3>1. j.at = "snips" /\ j.seen = {s} /\ UNCHANGED snDisk BY <2>9 DEF SnStore, snFiles
    <3>2. CASE ~Owns(i, s)
      <4>1. SetJob(i, NoJob) /\ UNCHANGED snStored BY <2>9, <3>2 DEF SnStore
      <4> HIDE DEF DbOwn, DiskOwn, JobsOwn
      <4> QED BY <3>1, <4>1, <1>c, <1>d, <1>e, <1>j, <1>n
    <3>3. CASE Owns(i, s)
      <4> DEFINE rest == [r \in DOMAIN j.loaded \ {s} |-> j.loaded[r]] todo == j.todo \ {s} none == {}
                 job == [j EXCEPT !.at = "load", !.seen = none, !.todo = todo, !.loaded = rest]
      <4>1. snStored' = [snStored EXCEPT ![s] = Fresh(s, j.loaded[s])] BY <2>9, <3>3 DEF SnStore
      <4>2. SetJob(i, job)
        <5>1. SetJob(i, [j EXCEPT !.at = "load", !.seen = {}, !.todo = @ \ {s}, !.loaded = [r \in DOMAIN @ \ {s} |-> @[r]]])
          BY <2>9, <3>3 DEF SnStore
        <5> HIDE DEF j
        <5>2. [j EXCEPT !.at = "load", !.seen = {}, !.todo = @ \ {s}, !.loaded = [r \in DOMAIN @ \ {s} |-> @[r]]] = job
          BY <2>a DEF JobShape
        <5> QED BY <5>1, <5>2
      <4>3. \A r \in DOMAIN rest : r \in DOMAIN j.loaded /\ rest[r] = j.loaded[r] OBVIOUS
      <4> HIDE DEF rest, todo, none
      <4>4. job.at = "load" /\ job.loaded = rest
        <5>1. job = [j EXCEPT !.at = "load", !.seen = none, !.todo = todo, !.loaded = rest] OBVIOUS
        <5> HIDE DEF job, j
        <5> QED BY <2>a, <5>1 DEF JobShape
      <4> HIDE DEF job
      <4>5. SnJobOwn(job) BY <2>a, <3>1, <4>3, <4>4 DEF SnJobOwn
      <4>6. \A p \in j.loaded[s] : IsOf(s, p)
        <5>1. s \in DOMAIN j.loaded BY <2>a, <3>1 DEF SnLoads
        <5> QED BY <2>a, <3>1, <5>1 DEF SnJobOwn
      <4>7. PICK all : all = j.loaded[s] OBVIOUS
      <4>8. Fresh(s, all) \in SUBSET Fresh(s, all) OBVIOUS
      <4> HIDE DEF DbOwn, DiskOwn, JobsOwn
      <4>9. DbOwn' BY <4>1, <4>6, <4>7, <4>8, <1>s
      <4> QED BY <3>1, <4>2, <4>5, <4>9, <1>c, <1>e, <1>j
    <3> QED BY <3>2, <3>3
  <2>10. CASE SnDumpSnippets(i)
    <3> DEFINE none == {}
               job == [j EXCEPT !.at = "meta", !.todo = none]
    <3>1. j.at = "parse" /\ SetJob(i, job) /\ UNCHANGED snStored BY <2>10 DEF SnDumpSnippets, snDb
    <3>2. snDisk'["user"].of = j.todo /\ snDisk'["bundled"] = snDisk["bundled"]
      BY <2>10, <1>a DEF SnDumpSnippets, SnShape, Sources
    <3>3. job.at = "meta"
      <4>1. job = [j EXCEPT !.at = "meta", !.todo = none] OBVIOUS
      <4> HIDE DEF job, j, none
      <4> QED BY <2>a, <4>1 DEF JobShape
    <3> HIDE DEF job
    <3>4. SnJobOwn(job) BY <3>3 DEF SnJobOwn
    <3>5. DiskOwn'
      <4>1. \A p \in j.todo : IsOf("user", p) BY <2>a, <3>1 DEF SnJobOwn
      <4>2. \A p \in snDisk["bundled"].of : IsOf("bundled", p) BY <1>o DEF Sources
      <4> HIDE DEF j
      <4> QED BY <3>2, <4>1, <4>2 DEF Sources, IsOf
    <3> HIDE DEF DbOwn, DiskOwn, JobsOwn
    <3> QED BY <3>1, <3>4, <3>5, <1>c, <1>d, <1>j
  <2>11. CASE SnCrash(i)
    <3>1. SetJob(i, NoJob) /\ UNCHANGED snDisk BY <2>11 DEF SnCrash, snFiles
    <3>2. DbOwn'
      <4>1. CASE ~(j.at = "snips" /\ \E s \in j.seen : Owns(i, s))
        <5>1. UNCHANGED snStored BY <2>11, <4>1 DEF SnCrash
        <5> HIDE DEF DbOwn
        <5> QED BY <5>1, <1>d
      <4>2. CASE j.at = "snips" /\ \E s \in j.seen : Owns(i, s)
        <5>1. PICK s \in j.todo : j.seen = {s} BY <2>a, <4>2 DEF SnLoads
        <5>2. (CHOOSE r \in j.seen : TRUE) = s BY <5>1
        <5>3. s \in DOMAIN j.loaded /\ s \in Sources BY <2>a, <4>2, <5>1 DEF SnLoads
        <5>4. PICK all : all = j.loaded[s] OBVIOUS
        <5>5. PICK some \in SUBSET Fresh(s, all) : snStored' = [snStored EXCEPT ![s] = some]
          BY <2>11, <4>2, <5>2, <5>4 DEF SnCrash
        <5>6. \A p \in all : IsOf(s, p) BY <2>a, <4>2, <5>3, <5>4 DEF SnJobOwn
        <5> HIDE DEF DbOwn, j
        <5> QED BY <5>3, <5>5, <5>6, <1>s
      <4> QED BY <4>1, <4>2
    <3> HIDE DEF DbOwn, DiskOwn, JobsOwn
    <3> QED BY <3>1, <3>2, <1>c, <1>e, <1>j, <1>n
  <2> QED BY <1>1, <2>1, <2>2, <2>3, <2>4, <2>5, <2>6, <2>7, <2>8, <2>9, <2>10, <2>11 DEF SnInstance, SnSource
<1>2. ASSUME NEW f \in SnFiles, SnSave(f) PROVE UNCHANGED <<snDisk, snStored, snJob>> BY <1>2 DEF SnSave
<1>3. CASE SnUninstall
  <2>1. snDisk'["bundled"].of = {} /\ snDisk'["user"] = snDisk["user"] /\ UNCHANGED <<snStored, snJob>>
    BY <1>3, <1>a DEF SnUninstall, SnShape, Sources
  <2>2. \A p \in snDisk["user"].of : IsOf("user", p) BY <1>o DEF Sources
  <2>3. DiskOwn' BY <2>1, <2>2 DEF Sources, IsOf
  <2> HIDE DEF DbOwn, DiskOwn, JobsOwn
  <2> QED BY <2>1, <2>3, <1>c, <1>d, <1>f
<1>4. ASSUME UNCHANGED snVars PROVE UNCHANGED <<snDisk, snStored, snJob>> BY <1>4 DEF snVars
<1>5. CASE UNCHANGED <<snDisk, snStored, snJob>>
  <2> HIDE DEF DbOwn, DiskOwn, JobsOwn
  <2> QED BY <1>5, <1>c, <1>d, <1>e, <1>f
<1> QED BY <1>1, <1>2, <1>3, <1>4, <1>5 DEF SnNext

LEMMA SnLoadStep == SnLIInv /\ SnOwn /\ [SnNext]_snVars => SnLIInv'
<1> SUFFICES ASSUME SnLIInv, SnOwn, [SnNext]_snVars PROVE SnLIInv' OBVIOUS
<1>1. CASE UNCHANGED <<snDisk, snRows, snStored, snJob, snTorn>>
  <2>1. SnShape' /\ SnRowsInv' BY <1>1 DEF SnLIInv, SnShape, SnRowsInv, SnUpTo, Owns
  <2>3. SnRowsDone' BY <1>1 DEF SnLIInv, SnRowsDone, SnAsIs, SnFills, Owns
  <2>2. ASSUME NEW i \in SnInstances PROVE SnLoads(snJob[i])'
    <3>1. SnLoads(snJob[i]) BY DEF SnLIInv
    <3>2. snJob'[i] = snJob[i] /\ snDisk' = snDisk BY <1>1
    <3> QED BY <3>1, <3>2 DEF SnLoads, SnUpTo
  <2> QED BY <2>1, <2>2, <2>3 DEF SnLIInv
<1>2. CASE SnUninstall
  <2> DEFINE none == [mtime |-> 0, of |-> {}]
  <2>1. snDisk' = [snDisk EXCEPT !["bundled"] = none] /\ UNCHANGED <<snRows, snStored, snJob, snTorn>>
    BY <1>2 DEF SnUninstall
  <2>2. none = [mtime |-> none.mtime, of |-> none.of] /\ none.mtime = 0 OBVIOUS
  <2> HIDE DEF none
  <2>3. snDisk'["bundled"] = none /\ snDisk'["user"] = snDisk["user"] /\ snDisk' = [s \in Sources |-> snDisk'[s]]
    BY <2>1 DEF SnLIInv, SnShape, Sources
  <2>4. \A s \in Sources : snDisk'[s] = [mtime |-> snDisk'[s].mtime, of |-> snDisk'[s].of] /\ snDisk'[s].mtime \in Int
    BY <2>2, <2>3 DEF SnLIInv, SnShape, Sources
  <2>5. SnShape' BY <2>1, <2>3, <2>4 DEF SnLIInv, SnShape
  <2> QED BY <2>1, <2>2, <2>3, <2>5, SnFileChanges
<1>3. ASSUME NEW f \in SnFiles, SnSave(f) PROVE UNCHANGED <<snDisk, snRows, snStored, snJob, snTorn>> BY <1>3 DEF SnSave
<1>4. ASSUME UNCHANGED snVars PROVE UNCHANGED <<snDisk, snRows, snStored, snJob, snTorn>> BY <1>4 DEF snVars
<1> QED BY <1>1, <1>2, <1>3, <1>4, SnInstanceStep DEF SnNext

(* Snippets, what is compiled.  The versions that have been compiled are there to be found, none
   is older than what meta.json says, nor, once an instance has written its snippets, than the
   mtimes that it is about to write there.                                               *)

SnPairs(P) ==
  \A p \in P : /\ p[1] \in SnFiles /\ p = <<p[1], p[2]>> /\ p[2] \in Int /\ p[2] <= snUser[p[1]]
               /\ \A q \in P : q[1] = p[1] => q = p

SnHas(f) == VersionIn(snDisk["user"].of, f)

SnParses(j) ==
  /\ j.at = "parse" =>
       /\ SnPairs(j.todo)
       /\ \A f \in SnFiles :
            /\ j.mtimes[f] \in Int /\ j.mtimes[f] <= snUser[f]
            /\ f \in j.left => \A p \in j.todo : p[1] # f
            /\ f \notin j.left => \E p \in j.todo : p[1] = f /\ p[2] >= j.mtimes[f]
  /\ j.at = "meta" => \A f \in SnFiles : j.mtimes[f] \in Int /\ (~snOlder => j.mtimes[f] <= SnHas(f))

SnCIInv ==
  /\ snUser = [f \in SnFiles |-> snUser[f]] /\ \A f \in SnFiles : snUser[f] \in Int /\ snUser[f] >= 1
  /\ SnPairs(snDisk["user"].of)
  /\ \A f \in SnFiles : snMeta[f] \in Int /\ (~snOlder => snMeta[f] <= SnHas(f))
  /\ \A i \in SnInstances : SnParses(snJob[i])

LEMMA SnVersion ==
  ASSUME NEW P, SnPairs(P), NEW f
  PROVE  /\ VersionIn(P, f) \in Int
         /\ \A p \in P : p[1] = f => VersionIn(P, f) = p[2]
         /\ (\A p \in P : p[1] # f) => VersionIn(P, f) = 0
<1>1. CASE \E p \in P : p[1] = f
  <2>1. PICK p \in P : p[1] = f BY <1>1
  <2> DEFINE c == CHOOSE q \in P : q[1] = f
  <2>2. c \in P /\ c[1] = f BY <2>1
  <2>3. VersionIn(P, f) = c[2] BY <1>1 DEF VersionIn
  <2> HIDE DEF c
  <2>4. \A q \in P : q[1] = f => q = c BY <2>2 DEF SnPairs
  <2>5. c[2] \in Int BY <2>2 DEF SnPairs
  <2> QED BY <2>1, <2>3, <2>4, <2>5
<1>2. CASE \A p \in P : p[1] # f BY <1>2 DEF VersionIn
<1> QED BY <1>1, <1>2

LEMMA SnCompiled == SnCIInv => NotNewerIsCompiled
<1> SUFFICES ASSUME SnCIInv, NEW f \in SnFiles, snUser[f] <= snMeta[f], ~snOlder
    PROVE <<f, snUser[f]>> \in snDisk["user"].of
  BY DEF NotNewerIsCompiled
<1> DEFINE of == snDisk["user"].of
<1>1. snUser[f] \in Int /\ snUser[f] >= 1 /\ snMeta[f] \in Int /\ snMeta[f] <= VersionIn(of, f) /\ SnPairs(of)
  BY DEF SnCIInv, SnHas
<1> HIDE DEF of
<1>2. PICK p \in of : p[1] = f BY <1>1, SnVersion
<1>3. VersionIn(of, f) = p[2] /\ p[2] \in Int BY <1>1, <1>2, SnVersion
<1>4. p[2] <= snUser[f] /\ p = <<p[1], p[2]>> BY <1>1, <1>2 DEF SnPairs
<1>5. p[2] = snUser[f] BY <1>1, <1>3, <1>4
<1> QED BY <1>2, <1>4, <1>5 DEF of

LEMMA SnCompileStart == SnInit => SnCIInv
<1> SUFFICES ASSUME SnInit PROVE SnCIInv OBVIOUS
<1>1. /\ snUser = [f \in SnFiles |-> 1] /\ snMeta = [f \in SnFiles |-> 0]
      /\ snDisk["user"].of = {} /\ \A i \in SnInstances : snJob[i].at = "idle"
  BY DEF SnInit, NoJob
<1>2. SnPairs(snDisk["user"].of) BY <1>1 DEF SnPairs
<1>3. \A f \in SnFiles : SnHas(f) = 0 BY <1>1 DEF SnHas, VersionIn
<1>4. \A f \in SnFiles : snMeta[f] \in Int /\ (~snOlder => snMeta[f] <= SnHas(f)) BY <1>1, <1>3
<1>5. \A i \in SnInstances : SnParses(snJob[i]) BY <1>1 DEF SnParses
<1> QED BY <1>1, <1>2, <1>4, <1>5 DEF SnCIInv

(* An instance goes on, and writes neither of the two files.                             *)
LEMMA SnCompileGoesOn ==
  ASSUME SnCIInv, NEW i \in SnInstances, UNCHANGED <<snUser, snMeta, snOlder>>, snDisk'["user"] = snDisk["user"],
         \A k \in SnInstances \ {i} : snJob'[k] = snJob[k], SnParses(snJob'[i])
  PROVE  SnCIInv'
<1>1. \A k \in SnInstances : SnParses(snJob'[k]) BY DEF SnCIInv
<1>2. \A k \in SnInstances : SnParses(snJob[k])' BY <1>1 DEF SnParses, SnPairs, SnHas
<1>3. SnPairs(snDisk["user"].of)' BY DEF SnCIInv, SnPairs
<1>4. \A f \in SnFiles : snMeta'[f] \in Int /\ (~snOlder' => snMeta'[f] <= SnHas(f)') BY DEF SnCIInv, SnHas
<1> QED BY <1>2, <1>3, <1>4 DEF SnCIInv

LEMMA SnCompileStep == SnCIInv /\ SnLIInv /\ [SnNext]_snVars => SnCIInv'
<1> SUFFICES ASSUME SnCIInv, SnLIInv, [SnNext]_snVars PROVE SnCIInv' OBVIOUS
<1>a. \A i \in SnInstances : JobShape(snJob[i]) BY DEF SnLIInv, SnShape
<1>1. ASSUME UNCHANGED <<snUser, snMeta, snOlder, snJob>>, snDisk'["user"] = snDisk["user"] PROVE SnCIInv'
  <2>1. \A k \in SnInstances : SnParses(snJob[k])' BY <1>1 DEF SnCIInv, SnParses, SnPairs, SnHas
  <2>2. SnPairs(snDisk["user"].of)' BY <1>1 DEF SnCIInv, SnPairs
  <2>3. \A f \in SnFiles : snMeta'[f] \in Int /\ (~snOlder' => snMeta'[f] <= SnHas(f)') BY <1>1 DEF SnCIInv, SnHas
  <2> QED BY <1>1, <2>1, <2>2, <2>3 DEF SnCIInv
<1>2. CASE UNCHANGED snVars BY <1>1, <1>2 DEF snVars
<1>3. CASE SnUninstall
  <2>1. snDisk'["user"] = snDisk["user"] BY <1>3 DEF SnUninstall
  <2> QED BY <1>1, <1>3, <2>1 DEF SnUninstall
<1>4. ASSUME NEW f \in SnFiles, SnSave(f) PROVE SnCIInv'
  <2>1. /\ snUser' = [snUser EXCEPT ![f] = @ + 1] /\ UNCHANGED <<snMeta, snDisk, snJob, snOlder>> BY <1>4 DEF SnSave
  <2>2. /\ snUser' = [g \in SnFiles |-> snUser'[g]]
        /\ \A g \in SnFiles : snUser[g] \in Int /\ snUser'[g] \in Int /\ snUser'[g] >= 1 /\ snUser'[g] >= snUser[g]
    BY <2>1 DEF SnCIInv
  <2>3. ASSUME NEW P, SnPairs(P) PROVE \A p \in P : p[2] <= snUser'[p[1]] BY <2>2, <2>3 DEF SnPairs
  <2>4. SnPairs(snDisk["user"].of)'
    <3>1. SnPairs(snDisk["user"].of) BY DEF SnCIInv
    <3> QED BY <2>1, <2>3, <3>1 DEF SnPairs
  <2>5. ASSUME NEW i \in SnInstances PROVE SnParses(snJob[i])'
    <3> DEFINE j == snJob[i]
    <3>1. SnParses(j) /\ snJob'[i] = j BY <2>1 DEF SnCIInv
    <3> HIDE DEF j
    <3>2. j.at = "parse" => \A p \in j.todo : p[2] <= snUser'[p[1]] BY <2>3, <3>1 DEF SnParses
    <3>3. j.at = "parse" => \A g \in SnFiles : j.mtimes[g] \in Int /\ j.mtimes[g] <= snUser'[g]
      <4> SUFFICES ASSUME j.at = "parse", NEW g \in SnFiles PROVE j.mtimes[g] \in Int /\ j.mtimes[g] <= snUser'[g] OBVIOUS
      <4>1. j.mtimes[g] \in Int /\ j.mtimes[g] <= snUser[g] BY <3>1 DEF SnParses
      <4> QED BY <2>2, <4>1
    <3>4. j.at = "parse" => SnPairs(j.todo) BY <3>1 DEF SnParses
    <3>5. j.at = "meta" => \A g \in SnFiles : j.mtimes[g] \in Int /\ (~snOlder' => j.mtimes[g] <= SnHas(g)')
      BY <2>1, <3>1 DEF SnParses, SnHas
    <3>6. j.at = "parse" => \A p \in j.todo :
             /\ p[1] \in SnFiles /\ p = <<p[1], p[2]>> /\ p[2] \in Int /\ p[2] <= snUser'[p[1]]
             /\ \A q \in j.todo : q[1] = p[1] => q = p
      BY <3>2, <3>4 DEF SnPairs
    <3>7. j.at = "parse" => \A g \in SnFiles :
            /\ g \in j.left => \A p \in j.todo : p[1] # g
            /\ g \notin j.left => \E p \in j.todo : p[1] = g /\ p[2] >= j.mtimes[g]
      BY <3>1 DEF SnParses
    <3> QED BY <3>1, <3>3, <3>5, <3>6, <3>7 DEF SnParses, SnPairs
  <2>6. \A g \in SnFiles : snMeta'[g] \in Int /\ (~snOlder' => snMeta'[g] <= SnHas(g)') BY <2>1 DEF SnCIInv, SnHas
  <2> QED BY <2>2, <2>4, <2>5, <2>6 DEF SnCIInv
<1>5. ASSUME NEW i \in SnInstances, SnInstance(i) PROVE SnCIInv'
  <2> DEFINE j == snJob[i]
  <2>0. JobShape(j) /\ DOMAIN snJob = SnInstances /\ SnParses(j) BY <1>a DEF SnLIInv, SnShape, SnCIInv
  <2>1. ASSUME NEW job, SetJob(i, job) PROVE snJob'[i] = job /\ \A k \in SnInstances \ {i} : snJob'[k] = snJob[k]
    BY <2>0, <2>1 DEF SetJob
  <2>2. ASSUME NEW job, SetJob(i, job), SnParses(job), UNCHANGED <<snUser, snMeta, snDisk, snOlder>> PROVE SnCIInv'
    <3>1. snJob'[i] = job /\ \A k \in SnInstances \ {i} : snJob'[k] = snJob[k] BY <2>1, <2>2
    <3> QED BY <2>2, <3>1, SnCompileGoesOn
  <2>3. ASSUME NEW job, job.at \notin {"parse", "meta"} PROVE SnParses(job) BY <2>3 DEF SnParses
  <2>4. CASE SnLoadSnips(i) \/ SnCompile(i) \/ SnSlurped(i) \/ SnInvalid(i) \/ SnDumpFails(i) \/ SnCrash(i)
    <3>1. /\ UNCHANGED <<snUser, snMeta, snDisk, snOlder>>
          /\ \E job \in {NoJob, [NoJob EXCEPT !.at = "see"], [NoJob EXCEPT !.at = "see", !.first = TRUE],
                         [NoJob EXCEPT !.at = "stat"]} : SetJob(i, job)
      BY <2>4 DEF SnLoadSnips, SnCompile, SnSlurped, SnInvalid, SnDumpFails, SnCrash, snFiles
    <3>2. PICK job \in {NoJob, [NoJob EXCEPT !.at = "see"], [NoJob EXCEPT !.at = "see", !.first = TRUE],
                        [NoJob EXCEPT !.at = "stat"]} : SetJob(i, job)
      BY <3>1
    <3>3. job.at \notin {"parse", "meta"}
      <4>1. CASE job = NoJob BY <4>1 DEF NoJob
      <4>2. CASE job = [NoJob EXCEPT !.at = "see"] BY <4>2 DEF NoJob
      <4>3. CASE job = [NoJob EXCEPT !.at = "see", !.first = TRUE] BY <4>3 DEF NoJob
      <4>4. CASE job = [NoJob EXCEPT !.at = "stat"] BY <4>4 DEF NoJob
      <4> QED BY <4>1, <4>2, <4>3, <4>4
    <3> QED BY <2>2, <2>3, <3>1, <3>2, <3>3
  <2>5. CASE SnSee(i) \/ SnSlurp(i) \/ SnLoad(i) \/ \E s \in Sources : SnSource(i, s)
    <3>1. ASSUME NEW job, SetJob(i, job), job.at \notin {"parse", "meta"}, UNCHANGED <<snUser, snMeta, snDisk, snOlder>>
          PROVE  SnCIInv'
      BY <2>2, <2>3, <3>1
    <3>2. CASE SnSee(i)
      <4> DEFINE left == IF j.first THEN NewerThanMeta ELSE {}
                 job == [j EXCEPT !.at = "slurp", !.disk = DiskTimes, !.rows = RowTimes, !.left = left]
      <4>1. SetJob(i, job) /\ UNCHANGED <<snUser, snMeta, snDisk, snOlder>> BY <3>2 DEF SnSee, snFiles, snDb
      <4>2. job.at = "slurp"
        <5> HIDE DEF j, left
        <5> QED BY <2>0 DEF JobShape
      <4> HIDE DEF job
      <4> QED BY <3>1, <4>1, <4>2
    <3>3. CASE SnSlurp(i)
      <4> DEFINE new == {s \in DOMAIN j.disk : s \in DOMAIN j.rows => j.disk[s] > j.rows[s]}
                 disk == [s \in new |-> j.disk[s]]
                 job == [j EXCEPT !.at = "read", !.rows = <<>>, !.todo = new, !.disk = disk]
      <4>1. SetJob(i, job) /\ UNCHANGED <<snUser, snMeta, snDisk, snOlder>> BY <3>3 DEF SnSlurp, snFiles, snDb
      <4>2. job.at = "read"
        <5> HIDE DEF j, new, disk
        <5> QED BY <2>0 DEF JobShape
      <4> HIDE DEF job
      <4> QED BY <3>1, <4>1, <4>2
    <3>4. CASE SnLoad(i)
      <4> DEFINE there == j.todo \intersect Present
                 loaded == [s \in there |-> snDisk[s].of]
                 job == [j EXCEPT !.at = "load", !.todo = there, !.loaded = loaded]
      <4>1. SetJob(i, job) /\ UNCHANGED <<snUser, snMeta, snDisk, snOlder>> BY <3>4 DEF SnLoad, snFiles, snDb
      <4>2. job.at = "load"
        <5> HIDE DEF j, there, loaded
        <5> QED BY <2>0 DEF JobShape
      <4> HIDE DEF job
      <4> QED BY <3>1, <4>1, <4>2
    <3>5. ASSUME NEW s \in Sources, SnSource(i, s) PROVE SnCIInv'
      <4>1. UNCHANGED <<snUser, snMeta, snDisk, snOlder>> BY <3>5 DEF SnSource, SnDelete, SnRow, SnStore, snFiles
      <4> DEFINE row == [j EXCEPT !.at = "row", !.seen = {s}]
                 snips == [j EXCEPT !.at = "snips"]
                 todo == j.todo \ {s}
                 loaded == [r \in DOMAIN j.loaded \ {s} |-> j.loaded[r]]
                 load == [j EXCEPT !.at = "load", !.seen = {}, !.todo = todo, !.loaded = loaded]
      <4>2. \E job \in {NoJob, row, snips, load} : SetJob(i, job)
        <5>1. CASE SnDelete(i, s) BY <5>1 DEF SnDelete
        <5>2. CASE SnRow(i, s) BY <5>2 DEF SnRow
        <5>3. CASE SnStore(i, s)
          <6>1. SetJob(i, load) \/ SetJob(i, NoJob) BY <5>3 DEF SnStore
          <6> HIDE DEF row, snips, load
          <6> QED BY <6>1
        <5> QED BY <3>5, <5>1, <5>2, <5>3 DEF SnSource
      <4>3. row.at = "row" /\ snips.at = "snips" /\ load.at = "load" /\ NoJob.at = "idle"
        <5>1. NoJob.at = "idle" BY DEF NoJob
        <5> HIDE DEF j, todo, loaded
        <5> QED BY <2>0, <5>1 DEF JobShape
      <4> HIDE DEF row, snips, load
      <4> QED BY <3>1, <4>1, <4>2, <4>3
    <3> QED BY <2>5, <3>2, <3>3, <3>4, <3>5
  <2>6. CASE SnStat(i)
    <3> DEFINE job == [NoJob EXCEPT !.at = "parse", !.mtimes = snUser, !.left = SnFiles]
    <3>1. UNCHANGED <<snUser, snMeta, snDisk, snOlder>> /\ SetJob(i, job) BY <2>6 DEF SnStat, snFiles
    <3>2. job.at = "parse" /\ job.mtimes = snUser /\ job.left = SnFiles /\ job.todo = {} BY DEF NoJob
    <3> HIDE DEF job
    <3>3. \A f \in SnFiles : snUser[f] \in Int /\ snUser[f] <= snUser[f] BY DEF SnCIInv
    <3>4. SnParses(job) BY <3>2, <3>3 DEF SnParses, SnPairs
    <3> QED BY <2>2, <3>1, <3>4
  <2>7. ASSUME NEW f \in SnFiles, SnParse(i, f) PROVE SnCIInv'
    <3> DEFINE left == j.left \ {f} todo == j.todo \union {<<f, snUser[f]>>}
               job == [j EXCEPT !.left = left, !.todo = todo]
    <3>1. /\ j.at = "parse" /\ f \in j.left /\ SetJob(i, job) /\ UNCHANGED <<snUser, snMeta, snDisk, snOlder>>
      BY <2>7 DEF SnParse, snFiles
    <3>2. job.at = "parse" /\ job.left = left /\ job.todo = todo /\ job.mtimes = j.mtimes
      <4>1. job = [j EXCEPT !.left = left, !.todo = todo] OBVIOUS
      <4> HIDE DEF job, left, todo, j
      <4> QED BY <2>0, <3>1, <4>1 DEF JobShape
    <3> HIDE DEF job
    <3>3. \A p \in todo : p \in j.todo \/ p = <<f, snUser[f]>> OBVIOUS
    <3>4. SnPairs(j.todo) /\ \A p \in j.todo : p[1] # f BY <2>0, <3>1 DEF SnParses
    <3>5. snUser[f] \in Int /\ snUser[f] <= snUser[f] BY DEF SnCIInv
    <3>6. SnPairs(todo) BY <3>3, <3>4, <3>5 DEF SnPairs
    <3>7. ASSUME NEW g \in SnFiles
          PROVE  /\ j.mtimes[g] \in Int /\ j.mtimes[g] <= snUser[g]
                 /\ g \in left => \A p \in todo : p[1] # g
                 /\ g \notin left => \E p \in todo : p[1] = g /\ p[2] >= j.mtimes[g]
      <4>1. /\ j.mtimes[g] \in Int /\ j.mtimes[g] <= snUser[g]
            /\ g \in j.left => \A p \in j.todo : p[1] # g
            /\ g \notin j.left => \E p \in j.todo : p[1] = g /\ p[2] >= j.mtimes[g]
        BY <2>0, <3>1 DEF SnParses
      <4>2. CASE g = f
        <5>1. <<f, snUser[f]>> \in todo /\ <<f, snUser[f]>>[1] = f /\ <<f, snUser[f]>>[2] = snUser[f] OBVIOUS
        <5>2. snUser[f] >= j.mtimes[f] BY <3>5, <4>1, <4>2
        <5> QED BY <4>1, <4>2, <5>1, <5>2
      <4>3. CASE g # f BY <3>3, <4>1, <4>3
      <4> QED BY <4>2, <4>3
    <3>8. SnParses(job) BY <3>2, <3>6, <3>7 DEF SnParses
    <3> QED BY <2>2, <3>1, <3>8
  <2>8. CASE SnDumpMeta(i)
    <3>1. /\ j.at = "meta" /\ snMeta' = j.mtimes /\ SetJob(i, [NoJob EXCEPT !.at = "see"])
          /\ UNCHANGED <<snUser, snDisk, snOlder>>
      BY <2>8 DEF SnDumpMeta
    <3>2. snJob'[i].at = "see" /\ \A k \in SnInstances \ {i} : snJob'[k] = snJob[k]
      <4>1. snJob'[i] = [NoJob EXCEPT !.at = "see"] BY <2>1, <3>1
      <4> QED BY <2>1, <3>1, <4>1 DEF NoJob
    <3>3. \A k \in SnInstances : SnParses(snJob'[k]) BY <2>3, <3>2 DEF SnCIInv
    <3>4. \A k \in SnInstances : SnParses(snJob[k])' BY <3>1, <3>3 DEF SnParses, SnPairs, SnHas
    <3>5. SnPairs(snDisk["user"].of)' BY <3>1 DEF SnCIInv, SnPairs
    <3>6. \A f \in SnFiles : j.mtimes[f] \in Int /\ (~snOlder => j.mtimes[f] <= SnHas(f)) BY <2>0, <3>1 DEF SnParses
    <3>7. \A f \in SnFiles : snMeta'[f] \in Int /\ (~snOlder' => snMeta'[f] <= SnHas(f)') BY <3>1, <3>6 DEF SnHas
    <3> QED BY <3>1, <3>4, <3>5, <3>7 DEF SnCIInv
  <2>9. CASE SnDumpSnippets(i)
    <3> DEFINE of == j.todo old == snDisk["user"].of
               now == [mtime |-> snDisk["user"].mtime + 1, of |-> of]
               job == [j EXCEPT !.at = "meta", !.todo = {}]
    <3>1. /\ j.at = "parse" /\ j.left = {} /\ SetJob(i, job) /\ UNCHANGED <<snUser, snMeta>>
          /\ snDisk' = [snDisk EXCEPT !["user"] = now]
      BY <2>9 DEF SnDumpSnippets
    <3>2. ~snOlder' => ~snOlder /\ \A f \in SnFiles : ~(VersionIn(of, f) < VersionIn(old, f))
      BY <2>9, Zenon DEF SnDumpSnippets
    <3>3. snDisk'["user"].of = of BY <3>1 DEF SnLIInv, SnShape, Sources
    <3>4. job.at = "meta" /\ job.mtimes = j.mtimes
      <4>1. job = [j EXCEPT !.at = "meta", !.todo = {}] OBVIOUS
      <4> HIDE DEF job, j
      <4> QED BY <2>0, <4>1 DEF JobShape
    <3> HIDE DEF job
    <3>5. snJob'[i] = job /\ \A k \in SnInstances \ {i} : snJob'[k] = snJob[k] BY <2>1, <3>1
    <3>6. SnPairs(of) /\ SnPairs(old) BY <2>0, <3>1 DEF SnParses, SnCIInv
    <3> HIDE DEF of, old
    <3>7. \A f \in SnFiles : VersionIn(of, f) \in Int /\ VersionIn(old, f) \in Int BY <3>6, SnVersion
    <3>8. \A f \in SnFiles : j.mtimes[f] \in Int /\ j.mtimes[f] <= VersionIn(of, f)
      <4> SUFFICES ASSUME NEW f \in SnFiles PROVE j.mtimes[f] \in Int /\ j.mtimes[f] <= VersionIn(of, f) OBVIOUS
      <4>1. PICK p \in of : p[1] = f /\ p[2] >= j.mtimes[f] BY <2>0, <3>1 DEF SnParses, of
      <4>2. VersionIn(of, f) = p[2] BY <3>6, <4>1, SnVersion
      <4>3. j.mtimes[f] \in Int BY <2>0, <3>1 DEF SnParses
      <4> QED BY <3>7, <4>1, <4>2, <4>3
    <3>9. \A f \in SnFiles : SnHas(f)' = VersionIn(of, f) /\ SnHas(f) = VersionIn(old, f)
      BY <3>3 DEF SnHas, VersionIn, old
    <3>10. \A f \in SnFiles : ~snOlder' => SnHas(f) <= SnHas(f)' BY <3>2, <3>7, <3>9
    <3>11. ASSUME NEW m, NEW f \in SnFiles, m \in Int, ~snOlder => m <= SnHas(f), ~snOlder' PROVE m <= SnHas(f)'
      <4>1. m <= SnHas(f) BY <3>2, <3>11
      <4> QED BY <3>7, <3>9, <3>10, <3>11, <4>1
    <3>12. ASSUME NEW k \in SnInstances PROVE SnParses(snJob[k])'
      <4>1. CASE k = i
        <5>1. \A f \in SnFiles : j.mtimes[f] \in Int /\ j.mtimes[f] <= SnHas(f)' BY <3>8, <3>9
        <5> QED BY <3>4, <3>5, <4>1, <5>1 DEF SnParses
      <4>2. CASE k # i
        <5>1. snJob'[k] = snJob[k] /\ SnParses(snJob[k]) BY <3>5, <4>2 DEF SnCIInv
        <5>2. snJob[k].at = "meta" => \A f \in SnFiles : snJob[k].mtimes[f] \in Int /\ (~snOlder' => snJob[k].mtimes[f] <= SnHas(f)')
          BY <3>11, <5>1 DEF SnParses
        <5> QED BY <3>1, <5>1, <5>2 DEF SnParses, SnPairs
      <4> QED BY <4>1, <4>2
    <3>13. \A f \in SnFiles : snMeta'[f] \in Int /\ (~snOlder' => snMeta'[f] <= SnHas(f)') BY <3>1, <3>11 DEF SnCIInv
    <3>14. SnPairs(snDisk["user"].of)' BY <3>1, <3>3, <3>6 DEF SnPairs
    <3> QED BY <3>1, <3>12, <3>13, <3>14 DEF SnCIInv
  <2> QED BY <1>5, <2>4, <2>5, <2>6, <2>7, <2>8, <2>9 DEF SnInstance
<1> QED BY <1>2, <1>3, <1>4, <1>5 DEF SnNext

(* Wherever an instance dies and however instances cross, a snippet file that is not newer than
   meta.json says has been compiled as it is, and a source that is not newer than its row is
   stored as it is (snippets.py:258-267).                                                *)
THEOREM NotNewerIsDoneCorrect == SnSpec => []NotNewerIsDone
<1>1. SnLIInv /\ SnCIInv => NotNewerIsDone BY SnCompiled, SnRowsDoneIs DEF SnLIInv, NotNewerIsDone
<1> QED BY <1>1, SnLoadStart, SnLoadStep, SnOwnStart, SnOwnStep, SnCompileStart, SnCompileStep, PTL DEF SnSpec

-----------------------------------------------------------------------------
(* Registers: its types.                                                    *)

RegTyped ==
  /\ regYanks <= MaxYanks /\ regLost \subseteq Regs
  /\ regRows = [r \in Regs |-> regRows[r]]
  /\ \A r \in Regs : \A t, u \in regRows[r] : t = u

LEMMA RegTypedStep == RegIInv /\ RegTyped /\ [RegNext]_regVars => RegTyped'
<1> SUFFICES ASSUME RegIInv, RegTyped, [RegNext]_regVars PROVE RegTyped' OBVIOUS
<1> USE DEF RegTyped
<1>1. ASSUME NEW some, regRows' = RegDone(some) PROVE regRows' = [r \in Regs |-> regRows'[r]] /\ \A r \in Regs : \A t, u \in regRows'[r] : t = u
  BY <1>1 DEF RegDone
<1>2. ASSUME NEW r \in Regs, Yank(r) PROVE RegTyped'
  BY <1>2, RegistersAssumption DEF Yank, RegIInv, RegStored
<1>3. CASE PostYank BY <1>3 DEF PostYank, RegIInv, RegShape
<1>4. CASE RegPoll BY <1>4 DEF RegPoll
<1>5. CASE RegRead BY <1>5 DEF RegRead
<1>6. CASE RegStatement
  <2>1. PICK some \in SUBSET RegTodo : regRows' = RegDone(some) /\ regLost' \subseteq regLost \union RegTodo
    BY <1>6 DEF RegStatement
  <2>2. regYanks' = regYanks /\ RegTodo \subseteq regPoll.regs BY <1>6 DEF RegStatement, RegStatements, RegTodo
  <2> QED BY <2>1, <2>2, <1>1 DEF RegIInv, RegStored
<1>7. CASE RegCancel BY <1>7 DEF RegCancel, RegIInv, RegStored
<1>8. CASE RegAbort
  <2>1. PICK some : regRows' = RegDone(some) BY <1>8 DEF RegAbort
  <2>2. regLost' = regLost \union regPoll.regs /\ regYanks' = regYanks BY <1>8 DEF RegAbort
  <2> QED BY <2>1, <2>2, <1>1 DEF RegIInv, RegStored
<1>9. CASE UNCHANGED regVars BY <1>9 DEF regVars
<1> QED BY <1>2, <1>3, <1>4, <1>5, <1>6, <1>7, <1>8, <1>9 DEF RegNext

LEMMA RegIsTyped == RegIInv /\ RegTyped => RegTypeOK
<1> SUFFICES ASSUME RegIInv, RegTyped PROVE RegTypeOK OBVIOUS
<1>1. regYanks \in Yanks /\ 0 .. regYanks \subseteq Yanks BY RegistersAssumption DEF RegIInv, RegStored, RegTyped, Yanks
<1>2. regText \in [Regs -> Yanks] BY <1>1 DEF RegIInv, RegShape, RegStored
<1>3. regRows \in [Regs -> SUBSET Yanks] BY <1>1 DEF RegIInv, RegStored, RegTyped
<1>4. ASSUME NEW r \in Regs PROVE Cardinality(regRows[r]) <= 1
  <2>1. CASE regRows[r] = {} BY <2>1, FS_EmptySet
  <2>2. CASE regRows[r] # {}
    <3>1. PICK t : t \in regRows[r] BY <2>2
    <3>2. regRows[r] = {t} BY <3>1 DEF RegTyped
    <3> QED BY <3>2, FS_Singleton
  <2> QED BY <2>1, <2>2
<1> QED BY <1>1, <1>2, <1>3, <1>4 DEF RegTypeOK, RegIInv, RegShape, RegTyped

LEMMA RegTypes == RegSpec => []RegTypeOK
<1>1. RegInit => RegTyped BY RegistersAssumption DEF RegInit, RegTyped
<1> QED BY <1>1, RegStart, RegStep, RegTypedStep, RegIsTyped, PTL DEF RegSpec

-----------------------------------------------------------------------------
(* TabNine: its types.                                                      *)

T9Typed ==
  /\ t9Disk \subseteq {"tmp", "bin", "lock"} /\ t9Setup \in {"begin", "fetch", "move", "lock", "done"}
  /\ t9Bin \in BOOLEAN /\ t9Skip \in BOOLEAN /\ Len(t9Procs) <= MaxT9Procs
  /\ t9Work \in 0 .. t9Reqs /\ t9Reqs <= MaxT9Reqs

LEMMA T9TypedStep == T9IInv /\ T9Typed /\ [T9Next]_t9Vars => T9Typed'
<1> SUFFICES ASSUME T9IInv, T9Typed, [T9Next]_t9Vars PROVE T9Typed' OBVIOUS
<1>a. t9Procs \in Seq(T9P) /\ Len(t9Procs) \in Nat /\ t9Reqs \in Nat BY LenProperties DEF T9IInv, T9Shape
<1>b. Len(Killed(t9Procs)) = Len(t9Procs) BY KilledSays DEF T9IInv
<1> USE DEF T9Typed
<1>c. ASSUME NEW p \in 1 .. Len(t9Procs), NEW new, t9Procs' = [t9Procs EXCEPT ![p] = new] PROVE Len(t9Procs') = Len(t9Procs)
  BY <1>a, <1>c
\* the installation
<1>1. CASE T9Install BY <1>1 DEF T9Install, t9Talk
<1>2. CASE T9Extract BY <1>2 DEF T9Extract, t9Talk
<1>3. CASE T9Move BY <1>3 DEF T9Move, t9Talk
<1>4. CASE T9Lock BY <1>4 DEF T9Lock, t9Talk
<1>5. CASE T9Fails BY <1>5 DEF T9Fails, t9Talk
<1>6. CASE T9Die BY <1>6 DEF T9Die, t9Talk
\* the requests
<1>7. ASSUME NEW dir \in T9Dirs, T9Ask(dir) PROVE T9Typed'
  <2>1. /\ t9Reqs' = t9Reqs + 1 /\ t9Reqs < MaxT9Reqs /\ t9Work' \in {0, t9Reqs'}
        /\ t9Skip' \in BOOLEAN /\ t9Procs' \in {t9Procs, Killed(t9Procs)} /\ UNCHANGED t9Installed
    BY <1>7 DEF T9Ask
  <2> QED BY <2>1, <1>a, <1>b, T9Assumption DEF t9Installed
<1>8. CASE T9Cancel BY <1>8, <1>a DEF T9Cancel, t9Installed
<1>9. CASE T9Spawn
  <2>1. /\ UNCHANGED <<t9Installed, t9Skip, t9Reqs>> /\ t9Work' \in {0, t9Work}
        /\ \/ t9Procs' = t9Procs
           \/ \E new : Len(t9Procs) < MaxT9Procs /\ t9Procs' = Append(t9Procs, new)
    BY <1>9 DEF T9Spawn, Release
  <2>2. Len(t9Procs') <= MaxT9Procs BY <2>1, <1>a, T9Assumption
  <2> QED BY <2>1, <2>2, <1>a DEF t9Installed
<1>10. CASE T9Broken BY <1>10, <1>a, <1>b DEF T9Broken, Release, t9Installed
<1>11. CASE T9Write
  <2>1. UNCHANGED <<t9Installed, t9Work, t9Skip, t9Reqs>> /\ t9Comm.at = "write" BY <1>11 DEF T9Write
  <2>2. \E new : t9Procs' = [t9Procs EXCEPT ![t9Comm.proc] = new] BY <1>11 DEF T9Write
  <2>3. Len(t9Procs') = Len(t9Procs) BY <2>1, <2>2, <1>c DEF T9IInv, T9One
  <2> QED BY <2>1, <2>3 DEF t9Installed
<1>12. CASE T9Read
  <2>1. UNCHANGED <<t9Installed, t9Reqs>> /\ t9Work' = 0 /\ t9Skip' \in BOOLEAN /\ t9Comm.at = "read"
    BY <1>12 DEF T9Read, Release
  <2>2. \E new : t9Procs' = [t9Procs EXCEPT ![t9Comm.proc] = new] BY <1>12 DEF T9Read
  <2>3. Len(t9Procs') = Len(t9Procs) BY <2>1, <2>2, <1>c DEF T9IInv, T9One
  <2> QED BY <2>1, <2>3, <1>a DEF t9Installed
<1>13. ASSUME NEW p \in 1 .. Len(t9Procs), T9Process(p) PROVE T9Typed'
  <2>1. UNCHANGED <<t9Installed, t9Work, t9Skip, t9Reqs>> BY <1>13 DEF T9Process, T9Answer, T9Exit
  <2>2. DOMAIN t9Procs' = DOMAIN t9Procs BY <1>13 DEF T9Process, T9Answer, T9Exit
  <2>3. Len(t9Procs') = Len(t9Procs)
    <3>1. CASE T9Exit(p)
      <4>1. \E new : t9Procs' = [t9Procs EXCEPT ![p] = new] BY <3>1 DEF T9Exit
      <4> QED BY <4>1, <1>c
    <3>2. CASE T9Answer(p)
      <4>1. t9Procs' \in Seq(T9P)' BY <1>13, T9Step DEF T9Next, T9IInv, T9Shape
      <4>2. Len(t9Procs') \in Nat /\ DOMAIN t9Procs' = 1 .. Len(t9Procs') BY <4>1, LenProperties
      <4> QED BY <4>2, <2>2, <1>a
    <3> QED BY <1>13, <3>1, <3>2 DEF T9Process
  <2> QED BY <2>1, <2>3 DEF t9Installed
<1>14. CASE UNCHANGED t9Vars BY <1>14 DEF t9Vars
<1> QED BY <1>1, <1>2, <1>3, <1>4, <1>5, <1>6, <1>7, <1>8, <1>9, <1>10, <1>11, <1>12, <1>13, <1>14 DEF T9Next

LEMMA T9Types == T9Spec => []T9TypeOK
<1>1. ASSUME T9Init PROVE T9Typed
  <2>1. Len(t9Procs) = 0 /\ t9Work = 0 /\ t9Reqs = 0 BY <1>1, EmptySeq DEF T9Init
  <2>2. Len(t9Procs) <= MaxT9Procs /\ t9Work \in 0 .. t9Reqs /\ t9Reqs <= MaxT9Reqs BY <2>1, T9Assumption
  <2>3. t9Disk = {} /\ t9Setup = "begin" /\ t9Bin = FALSE /\ t9Skip = FALSE BY <1>1 DEF T9Init
  <2> QED BY <2>2, <2>3 DEF T9Typed
<1>2. T9IInv /\ T9Typed => T9TypeOK BY DEF T9IInv, T9Shape, T9C, T9Typed, T9TypeOK
<1> QED BY <1>1, <1>2, T9Start, T9Step, T9TypedStep, PTL DEF T9Spec

-----------------------------------------------------------------------------
(* LSP cache: its types.                                                    *)

(* What a work and a poll have yet to ask for: two requests by each work at most, its own and
   that of the poll that its end wakes.                                                     *)
LcWorkOwes == IF lcWork.at \in {"lock", "ask"} THEN 2 ELSE IF lcWork.at \in {"stream", "over"} THEN 1 ELSE 0
LcPollOwes == IF lcPoll.at \in {"woken", "left", "ask"} THEN 1 ELSE 0

LcAsked ==
  /\ lcReqs \in Nat /\ lcReqs + LcWorkOwes + LcPollOwes <= 2 * lcStarted
  /\ lcWork.at = "stream" => lcWork.req \in 1 .. lcReqs
  /\ lcPoll.at = "stream" => lcPoll.req \in 1 .. lcReqs

LcTyped ==
  /\ lcInline \in BOOLEAN /\ Current <= MaxLcCtx
  /\ LcAsked
  /\ lcCached \subseteq LcItems /\ lcDb \subseteq LcItems /\ lcPost \subseteq LcItems
  /\ lcPre \subseteq LcItems /\ lcOffered \subseteq LcItems

LEMMA LcAskedStep == LcIInv /\ LcTyped /\ [LcNext]_lcVars => LcAsked'
<1> SUFFICES ASSUME LcIInv, LcTyped, [LcNext]_lcVars PROVE LcAsked' OBVIOUS
<1>a. Current \in Nat /\ lcStarted \in Nat /\ lcReqs \in Nat BY LenProperties DEF LcIInv, LcShape, LcTyped, LcAsked, Current
<1> USE DEF LcIInv, LcShape, LcTyped, LcAsked, LcWorkOwes, LcPollOwes, NoTask, LcLocked
<1>1. ASSUME NEW row \in LcRows, LcKeystroke(row) PROVE LcAsked' BY <1>1, <1>a DEF LcKeystroke
<1>2. CASE LcSupervised
  <2>1. /\ lcStarted' = Current /\ lcStarted < Current /\ lcReqs' = lcReqs
        /\ lcWork' = [at |-> "lock", ctx |-> Current, req |-> 0]
        /\ lcPoll'.at \in {lcPoll.at, "off", "woken"} /\ (lcPoll'.at = "stream" => lcPoll' = lcPoll)
        /\ lcPoll'.at = "woken" => lcPoll.at = "woken" \/ lcWork.at \in {"ask", "stream", "over"}
        /\ lcPoll'.at # "ask"
    BY <1>2 DEF LcSupervised, Woken
  <2>2. lcStarted + 1 <= lcStarted' /\ lcStarted' \in Nat BY <2>1, <1>a
  <2>3. LcWorkOwes' = 2 BY <2>1
  <2>4. LcPollOwes' \in {0, 1} /\ (LcPollOwes' = 1 => LcWorkOwes + LcPollOwes >= 1) BY <2>1
  <2>5. lcReqs' + LcWorkOwes' + LcPollOwes' <= 2 * lcStarted' BY <2>1, <2>2, <2>3, <2>4, <1>a
  <2>6. lcPoll'.at = "stream" => lcPoll'.req \in 1 .. lcReqs' BY <2>1
  <2>7. lcWork'.at = "lock" BY <2>1
  <2> QED BY <2>1, <2>5, <2>6, <2>7
<1>3. CASE LcBegin
  <2>1. /\ lcWork.at = "lock" /\ lcWork'.at \in {"ask", "over"} /\ UNCHANGED <<lcStarted, lcPoll, lcReqs>>
    BY <1>3 DEF LcBegin
  <2> QED BY <2>1, <1>a
<1>4. CASE LcAsk BY <1>4, <1>a DEF LcAsk
<1>5. CASE LcAnswer BY <1>5, <1>a DEF LcAnswer
<1>12. CASE LcBreaks
  <2>1. lcWork.at = "stream" /\ lcWork'.at = "over" /\ UNCHANGED <<lcStarted, lcPoll, lcReqs>>
    BY <1>12 DEF LcBreaks
  <2> QED BY <2>1, <1>a
<1>6. CASE LcEnd BY <1>6, <1>a DEF LcEnd, Woken
<1>7. CASE LcPollBegins
  <2>1. /\ lcPoll.at = "woken" /\ lcPoll'.at \in {"ask", "left", "off"} /\ UNCHANGED <<lcStarted, lcWork, lcReqs>>
    BY <1>7 DEF LcPollBegins
  <2> QED BY <2>1, <1>a
<1>13. CASE LcPollContinues
  <2>1. /\ lcPoll.at = "left" /\ lcPoll'.at = "ask" /\ UNCHANGED <<lcStarted, lcWork, lcReqs>>
    BY <1>13 DEF LcPollContinues
  <2> QED BY <2>1, <1>a
<1>8. CASE LcPollAsks BY <1>8, <1>a DEF LcPollAsks
<1>9. CASE LcPollStores BY <1>9, <1>a DEF LcPollStores
<1>10. CASE LcPollEnds BY <1>10, <1>a DEF LcPollEnds
<1>11. CASE UNCHANGED lcVars BY <1>11 DEF lcVars
<1> QED BY <1>1, <1>2, <1>3, <1>4, <1>5, <1>6, <1>7, <1>8, <1>9, <1>10, <1>11, <1>12, <1>13 DEF LcNext

LEMMA LcTypedStep == LcIInv /\ LcTyped /\ [LcNext]_lcVars => LcTyped'
<1> SUFFICES ASSUME LcIInv, LcTyped, [LcNext]_lcVars PROVE LcTyped' OBVIOUS
<1>0. LcAsked' BY LcAskedStep
<1>a. /\ Current \in Nat /\ Current <= MaxLcCtx /\ lcStarted \in 0 .. Current /\ lcReqs \in Nat /\ MaxLcCtx \in Nat
      /\ lcReqs <= 2 * lcStarted
  <2>1. LcWorkOwes >= 0 /\ LcPollOwes >= 0 /\ LcWorkOwes \in Nat /\ LcPollOwes \in Nat BY DEF LcWorkOwes, LcPollOwes
  <2> QED BY <2>1, LcAssumption, LenProperties DEF LcIInv, LcShape, LcTyped, LcAsked, Current
<1>b. ASSUME NEW task \in {lcWork, lcPoll}, task.at = "stream" PROVE [ctx |-> task.ctx, req |-> task.req] \in LcItems
  <2>1. task.req \in 1 .. lcReqs BY <1>b DEF LcTyped, LcAsked
  <2>2. task.ctx \in lcStarted .. Current /\ lcStarted >= 1 BY <1>b, <2>1, <1>a DEF LcIInv, LcOrder
  <2>3. task.ctx \in 1 .. MaxLcCtx /\ task.req \in 1 .. 4 * MaxLcCtx BY <2>1, <2>2, <1>a
  <2> QED BY <2>3 DEF LcItems
<1>c. ASSUME NEW items \in SUBSET LcItems, SetCache(items) PROVE lcCached' \subseteq LcItems /\ lcDb' \subseteq LcItems
  BY <1>c DEF SetCache, LcTyped
<1> USE DEF LcTyped
<1>1. ASSUME NEW row \in LcRows, LcKeystroke(row) PROVE LcTyped'
  <2>1. Len(lcRow') = Len(lcRow) + 1 BY <1>1, AppendProperties DEF LcKeystroke, LcIInv, LcShape
  <2>2. Current' <= MaxLcCtx BY <1>1, <2>1, <1>a DEF LcKeystroke, Current
  <2> QED BY <1>1, <1>0, <2>2 DEF LcKeystroke, lcCache
<1>2. CASE LcSupervised BY <1>2, <1>0 DEF LcSupervised, lcCache, Current
<1>3. CASE LcBegin
  <2>1. Stored(lcWork.ctx) \subseteq lcPre BY DEF Stored
  <2>2. UNCHANGED <<lcInline, lcRow, lcDb>> BY <1>3 DEF LcBegin
  <2>3. lcPre' \subseteq lcPre /\ lcOffered' \subseteq lcPre BY <1>3, <2>1 DEF LcBegin
  <2>4. lcCached' \subseteq lcCached /\ lcPost' \subseteq lcPost \union lcPre BY <1>3, <2>1 DEF LcBegin, ApplyCache
  <2> QED BY <2>2, <2>3, <2>4, <1>0 DEF Current
<1>4. CASE LcAsk BY <1>4, <1>0 DEF LcAsk, Selected, Current
<1>5. CASE LcAnswer BY <1>5, <1>0, <1>b DEF LcAnswer, Current
<1>12. CASE LcBreaks BY <1>12, <1>0, <1>b DEF LcBreaks, Current
<1>6. CASE LcEnd BY <1>6, <1>0 DEF LcEnd, lcCache, Current
<1>7. CASE LcPollBegins
  <2>1. UNCHANGED <<lcInline, lcRow, lcPost, lcPre, lcOffered>> BY <1>7 DEF LcPollBegins
  <2>2. SetCache(lcPost) \/ UNCHANGED <<lcCached, lcDb>> BY <1>7 DEF LcPollBegins
  <2> QED BY <2>1, <2>2, <1>0, <1>c DEF Current
<1>13. CASE LcPollContinues
  <2>1. UNCHANGED <<lcInline, lcRow, lcPost, lcOffered>> BY <1>13 DEF LcPollContinues
  <2>2. (SetCache(lcPre) /\ lcPre' = {}) \/ UNCHANGED <<lcCached, lcDb, lcPre>> BY <1>13 DEF LcPollContinues
  <2> QED BY <2>1, <2>2, <1>0, <1>c DEF Current
<1>8. CASE LcPollAsks BY <1>8, <1>0 DEF LcPollAsks, lcCache, Current
<1>9. CASE LcPollStores
  <2> DEFINE item == [ctx |-> lcPoll.ctx, req |-> lcPoll.req]
  <2>1. UNCHANGED <<lcInline, lcRow, lcPost, lcPre, lcOffered>> /\ SetCache({item}) /\ lcPoll.at = "stream" BY <1>9 DEF LcPollStores
  <2>2. item \in LcItems BY <2>1, <1>b
  <2> QED BY <2>1, <2>2, <1>0, <1>c DEF Current
<1>10. CASE LcPollEnds BY <1>10, <1>0 DEF LcPollEnds, lcCache, Current
<1>11. CASE UNCHANGED lcVars BY <1>11, <1>0 DEF lcVars, Current
<1> QED BY <1>1, <1>2, <1>3, <1>4, <1>5, <1>6, <1>7, <1>8, <1>9, <1>10, <1>11, <1>12, <1>13 DEF LcNext

LEMMA LcTypes == LcSpec => []LcTypeOK
<1>1. ASSUME LcInit PROVE LcTyped
  <2>1. Len(lcRow) = 0 BY <1>1, EmptySeq DEF LcInit
  <2>2. LcAsked BY <1>1 DEF LcInit, LcAsked, LcWorkOwes, LcPollOwes, NoTask
  <2> QED BY <1>1, <2>1, <2>2, LcAssumption DEF LcInit, LcTyped, Current
<1>2. ASSUME LcIInv, LcTyped PROVE LcTypeOK
  <2>1. Current \in Nat BY <1>2, LenProperties DEF LcIInv, LcShape, Current
  <2>2. lcCtx \in 0 .. Current BY <1>2, <2>1 DEF LcIInv, LcShape
  <2> QED BY <1>2, <2>2 DEF LcIInv, LcShape, LcTyped, LcTypeOK
<1> QED BY <1>1, <1>2, LcStart, LcStep, LcTypedStep, PTL DEF LcSpec

-----------------------------------------------------------------------------
(* Tags: their types.                                                       *)

(* A file has a tag of a name once, in what ctags has found and in what is stored.           *)
Once(tags) == tags \subseteq TagTuples /\ \A t, u \in tags : t.file = u.file /\ t.name = u.name => t = u

TagDisk == tagDisk \in [TagFiles -> [v : TagVersions, there : BOOLEAN, some : BOOLEAN]]

TagTyped ==
  /\ TagDisk
  /\ tagOpen \subseteq TagFiles
  /\ \A d \in TagDirs : Once(tagDb[d].tags)
  /\ Once(tagPoll.found)
  /\ tagPoll.at = "ctags" => \A t \in tagPoll.found : t.file \notin tagPoll.left

LEMMA TagDiskStep == ASSUME TagDisk, [TagsNext]_tagsVars PROVE TagDisk'
<1> DEFINE D == [v : TagVersions, there : BOOLEAN, some : BOOLEAN]
<1>1. CASE UNCHANGED tagDisk BY <1>1 DEF TagDisk
<1>2. ASSUME NEW f \in TagFiles, TagsSave(f) PROVE TagDisk'
  <2>1. PICK some \in BOOLEAN : tagDisk' = [tagDisk EXCEPT ![f] = [v |-> tagDisk[f].v + 1, there |-> TRUE, some |-> some]]
    BY <1>2 DEF TagsSave
  <2>2. tagDisk[f].v \in TagVersions /\ tagDisk[f].v < MaxVersion BY <1>2 DEF TagsSave, TagDisk
  <2>3. tagDisk[f].v + 1 \in TagVersions BY <2>2, TagsAssumption DEF TagVersions
  <2>4. [v |-> tagDisk[f].v + 1, there |-> TRUE, some |-> some] \in D BY <2>3
  <2> QED BY <2>1, <2>4 DEF TagDisk
<1>3. ASSUME NEW f \in TagFiles, TagsRemove(f) PROVE TagDisk'
  <2>1. tagDisk' = [tagDisk EXCEPT ![f] = [tagDisk[f] EXCEPT !.there = FALSE]] BY <1>3 DEF TagsRemove
  <2>2. tagDisk[f] \in D BY DEF TagDisk
  <2>3. [tagDisk[f] EXCEPT !.there = FALSE] \in D BY <2>2
  <2> QED BY <2>1, <2>3 DEF TagDisk
<1>4. TagsNext => UNCHANGED tagDisk \/ \E f \in TagFiles : TagsSave(f) \/ TagsRemove(f)
  BY DEF TagsNext, TagsFile, TagsClose, TagsStat, TagsCtags, TagsSwap, TagsIdle, TagsLs, TagsQuery, TagsParse,
         TagsStatement, TagsCancel, TagsAbort, tagsOutside
<1>5. UNCHANGED tagsVars => UNCHANGED tagDisk BY DEF tagsVars
<1> QED BY <1>1, <1>2, <1>3, <1>4, <1>5

LEMMA TagWritesOnce ==
  ASSUME TagIInv, TagTyped, TagsWriting, UNCHANGED <<tagDisk, tagCwd>>, NEW some \in SUBSET TagsTodo,
         tagDb' = [tagDb EXCEPT ![tagCwd] = TagsDone(@, some)]
  PROVE  \A d \in TagDirs : Once(tagDb'[d].tags)
<1> DEFINE db == tagDb[tagCwd] new == TagsDone(db, some)
<1>1. /\ \A d \in TagDirs \ {tagCwd} : tagDb'[d] = tagDb[d]
      /\ tagDb'[tagCwd] = new /\ tagCwd \in TagDirs
  BY TagWrites DEF TagIInv, TagShape
<1>2. db = [rows |-> db.rows, tags |-> db.tags] /\ Once(db.tags) BY <1>1 DEF TagIInv, TagShape, TagTyped
<1>3. CASE tagPoll.at = "delete"
  <2>1. new.tags \subseteq db.tags BY <1>3 DEF TagsDone, TagsDelete
  <2> QED BY <2>1, <1>1, <1>2 DEF Once, TagTyped
<1>4. CASE tagPoll.at = "insert"
  <2>1. new = TagsInsert(db, some) BY <1>4 DEF TagsDone
  <2>2. new.tags = db.tags BY <2>1, <1>2 DEF TagsInsert
  <2> QED BY <2>2, <1>1, <1>2 DEF TagTyped
<1>5. CASE tagPoll.at = "tags"
  <2>1. new = TagsReplace(db, some) BY <1>5 DEF TagsDone
  <2>2. new.tags = {u \in db.tags : \A t \in some : u.file # t.file \/ u.name # t.name} \union some
    BY <2>1, <1>2 DEF TagsReplace
  <2>3. some \subseteq tagPoll.found BY <1>5 DEF TagsTodo
  <2>4. Once(some) BY <2>3 DEF Once, TagTyped
  <2>5. Once(new.tags) BY <2>2, <2>4, <1>2 DEF Once
  <2> QED BY <2>5, <1>1 DEF TagTyped
<1> QED BY <1>3, <1>4, <1>5 DEF TagsWriting

LEMMA TagTypedStep == TagIInv /\ TagTyped /\ [TagsNext]_tagsVars => TagTyped'
<1> SUFFICES ASSUME TagIInv, TagTyped, [TagsNext]_tagsVars PROVE TagTyped' OBVIOUS
<1>0. TagDisk' BY TagDiskStep DEF TagTyped
<1>p. tagPoll = [at |-> tagPoll.at, left |-> tagPoll.left, existing |-> tagPoll.existing,
                mtimes |-> tagPoll.mtimes, found |-> tagPoll.found]
  BY DEF TagIInv, TagShape
<1>a. Once({}) BY DEF Once
<1>b. ASSUME UNCHANGED <<tagDb, tagPoll>>, tagOpen' \subseteq tagOpen PROVE TagTyped' BY <1>b, <1>0 DEF TagTyped, Once
<1>c. ASSUME UNCHANGED <<tagDb, tagOpen>>, tagPoll'.found \in {tagPoll.found, {}}, tagPoll'.at = "ctags" => tagPoll'.found = {}
      PROVE TagTyped'
  BY <1>0, <1>a, <1>c DEF TagTyped, Once
<1>d. ASSUME tagPoll'.found \in {tagPoll.found, {}}, tagPoll'.at # "ctags", UNCHANGED tagOpen,
             \A d \in TagDirs : Once(tagDb'[d].tags)
      PROVE TagTyped'
  BY <1>0, <1>a, <1>d DEF TagTyped, Once
<1>1. ASSUME NEW f \in TagFiles, TagsSave(f) \/ TagsClose(f) \/ TagsRemove(f) PROVE TagTyped'
  BY <1>1, <1>b DEF TagsSave, TagsClose, TagsRemove
<1>2. ASSUME NEW f \in TagFiles, TagsStat(f) PROVE TagTyped'
  <2>1. tagPoll'.at = "stat" /\ tagPoll'.found = tagPoll.found /\ UNCHANGED <<tagDb, tagOpen>>
    BY <1>2, <1>p DEF TagsStat, tagsOutside
  <2> QED BY <2>1, <1>c
<1>3. ASSUME NEW f \in TagFiles, TagsCtags(f) PROVE TagTyped'
  <2>1. tagPoll.at = "ctags" /\ f \in tagPoll.left /\ UNCHANGED <<tagDb, tagOpen>> BY <1>3 DEF TagsCtags, tagsOutside
  <2>2. /\ tagPoll'.left = tagPoll.left \ {f}
        /\ \/ tagPoll'.found = tagPoll.found
           \/ tagPoll'.found = tagPoll.found \union [file : {f}, name : TagNames, of : {tagDisk[f].v}]
    BY <1>3, <1>p DEF TagsCtags
  <2>3. \A t \in tagPoll.found : t.file \notin tagPoll.left BY <2>1 DEF TagTyped
  <2>4. tagDisk[f].v \in TagVersions BY DEF TagTyped, TagDisk
  <2>5. \A t \in [file : {f}, name : TagNames, of : {tagDisk[f].v}] :
          t \in TagTuples /\ t.file = f /\ t = [file |-> f, name |-> t.name, of |-> tagDisk[f].v]
    BY <2>4 DEF TagTuples
  <2>6. Once(tagPoll.found) BY DEF TagTyped
  <2>7. Once(tagPoll'.found) BY <2>1, <2>2, <2>3, <2>5, <2>6 DEF Once
  <2>8. \A t \in tagPoll'.found : t.file \notin tagPoll'.left BY <2>2, <2>3, <2>5
  <2> QED BY <2>1, <2>7, <2>8, <1>0 DEF TagTyped
<1>4. CASE TagsSwap BY <1>4, <1>b DEF TagsSwap
<1>5. CASE TagsIdle \/ TagsCancel
  <2>1. tagPoll'.found = {} /\ UNCHANGED <<tagDb, tagOpen>> BY <1>5 DEF TagsIdle, TagsCancel, NoTagsPoll, tagsOutside
  <2> QED BY <2>1, <1>c
<1>6. CASE TagsLs
  <2>1. tagPoll'.at = "stat" /\ tagPoll'.found = tagPoll.found /\ UNCHANGED <<tagDb, tagOpen>>
    BY <1>6, <1>p DEF TagsLs, tagsOutside
  <2> QED BY <2>1, <1>c
<1>7. CASE TagsQuery
  <2>1. tagPoll'.found = tagPoll.found /\ tagPoll.at = "stat" /\ UNCHANGED <<tagDb, tagOpen>>
    BY <1>7, <1>p DEF TagsQuery, tagsOutside
  <2>2. tagPoll.found = {} BY <2>1 DEF TagIInv, TagFound
  <2> QED BY <2>1, <2>2, <1>c
<1>8. CASE TagsParse
  <2>1. tagPoll'.at = "delete" /\ tagPoll'.found = tagPoll.found /\ UNCHANGED <<tagDb, tagOpen>>
    BY <1>8, <1>p DEF TagsParse, tagsOutside
  <2> QED BY <2>1, <1>c
<1>9. CASE TagsStatement
  <2>1. /\ TagsWriting /\ UNCHANGED <<tagDisk, tagCwd, tagOpen>>
        /\ tagDb' = [tagDb EXCEPT ![tagCwd] = TagsDone(@, TagsTodo)]
    BY <1>9 DEF TagsStatement, tagsOutside
  <2>2. \A d \in TagDirs : Once(tagDb'[d].tags) BY <2>1, TagWritesOnce
  <2>3. tagPoll'.found \in {tagPoll.found, {}} /\ tagPoll'.at # "ctags"
    BY <1>9, <1>p DEF TagsStatement, TagsWriting, NoTagsPoll
  <2> QED BY <2>1, <2>2, <2>3, <1>d
<1>10. CASE TagsAbort
  <2>1. TagsWriting /\ UNCHANGED <<tagDisk, tagCwd, tagOpen>> /\ tagPoll' = NoTagsPoll BY <1>10 DEF TagsAbort, tagsOutside
  <2>2. PICK some \in SUBSET TagsTodo : tagDb' = [tagDb EXCEPT ![tagCwd] = TagsDone(@, some)] BY <1>10 DEF TagsAbort
  <2>3. \A d \in TagDirs : Once(tagDb'[d].tags) BY <2>1, <2>2, TagWritesOnce
  <2>4. tagPoll'.found = {} /\ tagPoll'.at # "ctags" BY <2>1 DEF NoTagsPoll
  <2> QED BY <2>1, <2>3, <2>4, <1>d
<1>11. CASE UNCHANGED tagsVars BY <1>11, <1>b DEF tagsVars
<1> QED BY <1>1, <1>2, <1>3, <1>4, <1>5, <1>6, <1>7, <1>8, <1>9, <1>10, <1>11 DEF TagsNext, TagsFile

LEMMA TagTypes == TagsSpec => []TagsTypeOK
<1>1. ASSUME TagsInit PROVE TagTyped
  <2>1. 1 \in TagVersions BY TagsAssumption DEF TagVersions
  <2>2. TagDisk BY <1>1, <2>1 DEF TagsInit, TagDisk
  <2>3. \A d \in TagDirs : tagDb[d].tags = {} BY <1>1 DEF TagsInit
  <2>4. tagPoll.at = "ls" /\ tagPoll.found = {} /\ tagOpen = TagFiles BY <1>1 DEF TagsInit, NoTagsPoll
  <2> QED BY <2>2, <2>3, <2>4 DEF TagTyped, Once
<1>2. ASSUME TagIInv, TagTyped PROVE TagsTypeOK
  <2>1. \A d \in TagDirs : DOMAIN tagDb[d].rows \subseteq TagFiles /\ \A t \in tagDb[d].tags : t.file \in DOMAIN tagDb[d].rows
    BY <1>2 DEF TagIInv, TagStored
  <2> QED BY <1>2, <2>1 DEF TagIInv, TagShape, TagTyped, TagDisk, Once, TagsTypeOK
<1> QED BY <1>1, <1>2, TagStart, TagStep, TagTypedStep, PTL DEF TagsSpec

-----------------------------------------------------------------------------
(* Tmux: its types.                                                         *)

LEMMA KeyedIs ==
  ASSUME NEW S, NEW T, NEW f
  PROVE  f \in Keyed(S, T) <=> f = [x \in DOMAIN f |-> f[x]] /\ DOMAIN f \subseteq S /\ \A x \in DOMAIN f : f[x] \in T
<1>1. ASSUME f \in Keyed(S, T) PROVE f = [x \in DOMAIN f |-> f[x]] /\ DOMAIN f \subseteq S /\ \A x \in DOMAIN f : f[x] \in T
  <2>1. PICK X \in SUBSET S : f \in [X -> T] BY <1>1 DEF Keyed
  <2> QED BY <2>1
<1>2. ASSUME f = [x \in DOMAIN f |-> f[x]], DOMAIN f \subseteq S, \A x \in DOMAIN f : f[x] \in T PROVE f \in Keyed(S, T)
  <2>1. f \in [DOMAIN f -> T] BY <1>2
  <2> QED BY <1>2, <2>1 DEF Keyed
<1> QED BY <1>1, <1>2

LEMMA KeyedWith ==
  ASSUME NEW S, NEW T, NEW f \in Keyed(S, T), NEW X \in SUBSET S, NEW g,
         g = [x \in DOMAIN g |-> g[x]], DOMAIN g \subseteq DOMAIN f \union X,
         \A x \in DOMAIN g : g[x] \in T \/ (x \in DOMAIN f /\ g[x] = f[x])
  PROVE  g \in Keyed(S, T)
<1>1. DOMAIN f \subseteq S /\ \A x \in DOMAIN f : f[x] \in T BY KeyedIs
<1>2. DOMAIN g \subseteq S /\ \A x \in DOMAIN g : g[x] \in T BY <1>1
<1> QED BY <1>2, KeyedIs

TmuxShots == TmuxTexts \union {""}

TmuxTyped ==
  /\ tmShown \in Keyed(TmuxPanesOf, TmuxTexts)
  /\ tmRun.at \in {"none", "list", "shots"} \union TmuxStatements
  /\ tmRun.left \subseteq TmuxPanesOf /\ tmRun.shots \in Keyed(TmuxPanesOf, TmuxShots)
  /\ tmRun.at = "words" => tmRun.left \subseteq tmRows
  /\ tmRows \subseteq TmuxPanesOf /\ tmTorn \subseteq TmuxPanesOf
  /\ tmWords \subseteq tmRows \X TmuxTexts \X TmuxWords
  /\ tmCache \in Keyed(TmuxPanesOf, TmuxShots)

LEMMA TmuxTypedStep == TmuxIInv /\ TmuxTyped /\ [TmuxNext]_tmuxVars => TmuxTyped'
<1> SUFFICES ASSUME TmuxIInv, TmuxTyped, [TmuxNext]_tmuxVars PROVE TmuxTyped' OBVIOUS
<1>s. tmRun = [at |-> tmRun.at, by |-> tmRun.by, current |-> tmRun.current, left |-> tmRun.left, shots |-> tmRun.shots]
  BY DEF TmuxIInv, TmuxShape
<1>l. TmuxLive \subseteq TmuxPanesOf BY KeyedIs DEF TmuxTyped, TmuxLive
<1>n. <<>> \in Keyed(TmuxPanesOf, TmuxShots)
  <2>1. DOMAIN <<>> = {} /\ <<>> = [x \in DOMAIN <<>> |-> <<>>[x]] OBVIOUS
  <2> QED BY <2>1, KeyedIs
\* who goes on in which way
<1>a. ASSUME UNCHANGED tmuxDb, UNCHANGED tmShown, tmRun'.at \in {"none", "list", "shots"},
             tmRun'.left \subseteq TmuxPanesOf, tmRun'.shots \in Keyed(TmuxPanesOf, TmuxShots)
      PROVE TmuxTyped'
  BY <1>a DEF TmuxTyped, tmuxDb
<1>b. ASSUME UNCHANGED tmuxDb, UNCHANGED tmShown, tmRun' = NoTmuxRun PROVE TmuxTyped'
  BY <1>b, <1>n, <1>a DEF NoTmuxRun
<1>c. ASSUME UNCHANGED tmShown, NEW ps \in SUBSET TmuxPanesOf, TmuxDelete(ps) \/ TmuxReplace(ps)
      PROVE /\ tmRows' \subseteq TmuxPanesOf /\ tmTorn' \subseteq TmuxPanesOf
            /\ tmWords' \subseteq tmRows' \X TmuxTexts \X TmuxWords /\ tmCache' = tmCache
  <2>1. tmWords' = DropWords(ps) /\ tmCache' = tmCache /\ tmRows \ ps \subseteq tmRows'
        /\ tmRows' \subseteq TmuxPanesOf /\ tmTorn' \subseteq TmuxPanesOf
    BY <1>c DEF TmuxDelete, TmuxReplace, TmuxTyped
  <2>2. tmWords' \subseteq tmRows' \X TmuxTexts \X TmuxWords
    <3> SUFFICES ASSUME NEW w \in tmWords' PROVE w \in tmRows' \X TmuxTexts \X TmuxWords OBVIOUS
    <3>1. w \in tmWords /\ w[1] \notin ps BY <2>1 DEF DropWords
    <3>2. w \in tmRows \X TmuxTexts \X TmuxWords BY <3>1 DEF TmuxTyped
    <3>3. w[1] \in tmRows' BY <2>1, <3>1, <3>2
    <3> QED BY <3>2, <3>3
  <2> QED BY <2>1, <2>2
\* the panes
<1>1. ASSUME NEW p \in TmuxPanesOf, TmuxGone(p) PROVE TmuxTyped'
  <2>1. tmShown' = [q \in DOMAIN tmShown \ {p} |-> tmShown[q]] /\ UNCHANGED <<tmRun, tmRows, tmWords, tmCache, tmTorn>>
    BY <1>1 DEF TmuxGone
  <2>2. tmShown' \in Keyed(TmuxPanesOf, TmuxTexts) BY <2>1, KeyedWith DEF TmuxTyped
  <2> QED BY <2>1, <2>2 DEF TmuxTyped
<1>2. ASSUME NEW p \in TmuxPanesOf, NEW t \in TmuxTexts, TmuxShow(p, t) PROVE TmuxTyped'
  <2>1. /\ tmShown' = [q \in DOMAIN tmShown \union {p} |-> IF q = p THEN t ELSE tmShown[q]]
        /\ UNCHANGED <<tmRun, tmRows, tmWords, tmCache, tmTorn>>
    BY <1>2 DEF TmuxShow
  <2>2. tmShown' \in Keyed(TmuxPanesOf, TmuxTexts) BY <2>1, KeyedWith DEF TmuxTyped
  <2> QED BY <2>1, <2>2 DEF TmuxTyped
\* what is read
<1>3. CASE TmuxBegin
  <2>1. tmRun'.at = "list" /\ tmRun'.left = {} /\ tmRun'.shots = <<>> /\ UNCHANGED <<tmShown, tmuxDb>>
    BY <1>3 DEF TmuxBegin, NoTmuxRun
  <2> QED BY <2>1, <1>a, <1>n
<1>4. CASE TmuxList
  <2>1. /\ tmRun'.at = "shots" /\ tmRun'.left \in {DOMAIN tmShown, {}} /\ tmRun'.shots = tmRun.shots
        /\ UNCHANGED <<tmShown, tmuxDb>>
    BY <1>4, <1>s DEF TmuxList
  <2>2. DOMAIN tmShown \subseteq TmuxPanesOf BY KeyedIs DEF TmuxTyped
  <2> QED BY <2>1, <2>2, <1>a DEF TmuxTyped
<1>5. ASSUME NEW p \in TmuxPanesOf, TmuxShot(p) PROVE TmuxTyped'
  <2> DEFINE t == IF p \in DOMAIN tmShown THEN tmShown[p] ELSE ""
  <2>1. /\ tmRun'.at = "shots" /\ tmRun'.left = tmRun.left \ {p} /\ UNCHANGED <<tmShown, tmuxDb>>
        /\ tmRun'.shots = [q \in DOMAIN tmRun.shots \union {p} |-> IF q = p THEN t ELSE tmRun.shots[q]]
    BY <1>5, <1>s DEF TmuxShot
  <2>2. t \in TmuxShots BY KeyedIs DEF TmuxTyped, TmuxShots
  <2> HIDE DEF t
  <2>3. \A q \in DOMAIN tmRun'.shots : tmRun'.shots[q] \in TmuxShots \/ (q \in DOMAIN tmRun.shots /\ tmRun'.shots[q] = tmRun.shots[q])
    BY <2>1, <2>2
  <2>4. /\ tmRun'.shots = [q \in DOMAIN tmRun'.shots |-> tmRun'.shots[q]]
        /\ DOMAIN tmRun'.shots \subseteq DOMAIN tmRun.shots \union {p}
    BY <2>1
  <2>5. tmRun.shots \in Keyed(TmuxPanesOf, TmuxShots) /\ {p} \in SUBSET TmuxPanesOf BY DEF TmuxTyped
  <2>6. \A f, g, X : f \in Keyed(TmuxPanesOf, TmuxShots) /\ X \in SUBSET TmuxPanesOf
                    /\ g = [x \in DOMAIN g |-> g[x]] /\ DOMAIN g \subseteq DOMAIN f \union X
                    /\ (\A x \in DOMAIN g : g[x] \in TmuxShots \/ (x \in DOMAIN f /\ g[x] = f[x]))
                    => g \in Keyed(TmuxPanesOf, TmuxShots)
    BY KeyedWith
  <2>7. tmRun'.shots \in Keyed(TmuxPanesOf, TmuxShots)
    <3>1. PICK f : f = tmRun.shots OBVIOUS
    <3>2. PICK g : g = tmRun'.shots OBVIOUS
    <3>3. f \in Keyed(TmuxPanesOf, TmuxShots) /\ g = [x \in DOMAIN g |-> g[x]] /\ DOMAIN g \subseteq DOMAIN f \union {p}
          /\ \A x \in DOMAIN g : g[x] \in TmuxShots \/ (x \in DOMAIN f /\ g[x] = f[x])
      BY <2>3, <2>4, <2>5, <3>1, <3>2
    <3>4. g \in Keyed(TmuxPanesOf, TmuxShots) BY <2>5, <2>6, <3>3
    <3> QED BY <3>2, <3>4
  <2> QED BY <2>1, <2>7, <1>a DEF TmuxTyped
\* what is written
<1>6. CASE TmuxForget
  <2>1. /\ tmCache' = [p \in DOMAIN tmCache \intersect TmuxLive |-> tmCache[p]]
        /\ tmRun'.at = "delete" /\ tmRun'.left = tmRun.left /\ tmRun'.shots = tmRun.shots
        /\ UNCHANGED <<tmShown, tmRows, tmWords, tmTorn>>
    BY <1>6, <1>s DEF TmuxForget
  <2>2. tmCache' \in Keyed(TmuxPanesOf, TmuxShots) BY <2>1, KeyedWith DEF TmuxTyped
  <2> QED BY <2>1, <2>2 DEF TmuxTyped, TmuxStatements
<1>7. CASE TmuxStatement
  <2>1. CASE tmRun.at = "delete"
    <3>1. /\ TmuxDelete(TmuxDead) /\ tmRun'.at = "panes" /\ tmRun'.left = TmuxChanged /\ tmRun'.shots = tmRun.shots
          /\ UNCHANGED tmShown
      BY <1>7, <2>1, <1>s DEF TmuxStatement
    <3>2. TmuxDead \subseteq TmuxPanesOf /\ TmuxChanged \subseteq TmuxPanesOf BY <1>l DEF TmuxDead, TmuxChanged, TmuxTyped
    <3>3. /\ tmRows' \subseteq TmuxPanesOf /\ tmTorn' \subseteq TmuxPanesOf
          /\ tmWords' \subseteq tmRows' \X TmuxTexts \X TmuxWords /\ tmCache' = tmCache
      BY <3>1, <3>2, <1>c
    <3> QED BY <3>1, <3>2, <3>3 DEF TmuxTyped, TmuxStatements
  <2>2. CASE tmRun.at = "panes"
    <3>1. /\ TmuxReplace(tmRun.left) /\ tmRun'.at = "words" /\ tmRun'.left = tmRun.left /\ tmRun'.shots = tmRun.shots
          /\ UNCHANGED tmShown
      BY <1>7, <2>2, <1>s DEF TmuxStatement
    <3>2. tmRun.left \subseteq TmuxPanesOf BY DEF TmuxTyped
    <3>3. /\ tmRows' \subseteq TmuxPanesOf /\ tmTorn' \subseteq TmuxPanesOf
          /\ tmWords' \subseteq tmRows' \X TmuxTexts \X TmuxWords /\ tmCache' = tmCache
      BY <3>1, <3>2, <1>c
    <3>4. tmRun.left \subseteq tmRows' BY <3>1 DEF TmuxReplace
    <3> QED BY <3>1, <3>2, <3>3, <3>4 DEF TmuxTyped, TmuxStatements
  <2> QED BY <1>7, <2>1, <2>2 DEF TmuxStatement
<1>8. ASSUME NEW p \in TmuxPanesOf, TmuxWrite(p) PROVE TmuxTyped'
  <2>1. PICK some \in SUBSET AllWords({p}) :
          /\ tmWords' = tmWords \union some
          /\ \/ Remember({p}) /\ tmTorn' = tmTorn \ {p} /\ tmRun' = [tmRun EXCEPT !.left = @ \ {p}]
             \/ tmRun' = NoTmuxRun /\ UNCHANGED <<tmCache, tmTorn>>
    BY <1>8 DEF TmuxWrite
  <2>2. p \in tmRows /\ p \in TmuxLive /\ UNCHANGED <<tmShown, tmRows>> /\ tmRun.at = "words"
    BY <1>8 DEF TmuxWrite, TmuxTyped, TmuxIInv, TmuxAtWork, TmuxStatements
  <2>3. tmRun.shots[p] \in TmuxShots BY <2>2, KeyedIs DEF TmuxTyped, TmuxLive
  <2>4. AllWords({p}) \subseteq tmRows \X TmuxTexts \X TmuxWords
    <3>1. AllWords({p}) = IF tmRun.shots[p] = "" THEN {} ELSE Words(p, tmRun.shots[p]) BY DEF AllWords
    <3>2. CASE tmRun.shots[p] = "" BY <3>1, <3>2
    <3>3. CASE tmRun.shots[p] # ""
      <4>1. tmRun.shots[p] \in TmuxTexts BY <2>3, <3>3 DEF TmuxShots
      <4>2. Words(p, tmRun.shots[p]) \subseteq tmRows \X TmuxTexts \X TmuxWords BY <4>1, <2>2 DEF Words
      <4> QED BY <4>2, <3>1, <3>3
    <3> QED BY <3>2, <3>3
  <2>5. tmWords' \subseteq tmRows' \X TmuxTexts \X TmuxWords BY <2>1, <2>2, <2>4 DEF TmuxTyped
  <2>6. CASE Remember({p}) /\ tmTorn' = tmTorn \ {p} /\ tmRun' = [tmRun EXCEPT !.left = @ \ {p}]
    <3>1. tmCache' = [q \in DOMAIN tmCache \union {p} |-> IF q \in {p} THEN tmRun.shots[q] ELSE tmCache[q]]
      BY <2>6 DEF Remember
    <3>2. \A q \in DOMAIN tmCache' : tmCache'[q] \in TmuxShots \/ (q \in DOMAIN tmCache /\ tmCache'[q] = tmCache[q])
      BY <3>1, <2>3
    <3>3. tmCache' = [q \in DOMAIN tmCache' |-> tmCache'[q]] /\ DOMAIN tmCache' \subseteq DOMAIN tmCache \union {p} BY <3>1
    <3>4. tmCache' \in Keyed(TmuxPanesOf, TmuxShots) BY <3>2, <3>3, KeyedWith DEF TmuxTyped
    <3>5. tmRun'.at = tmRun.at /\ tmRun'.left = tmRun.left \ {p} /\ tmRun'.shots = tmRun.shots BY <2>6, <1>s
    <3> QED BY <2>2, <2>5, <2>6, <3>4, <3>5 DEF TmuxTyped
  <2>7. CASE tmRun' = NoTmuxRun /\ UNCHANGED <<tmCache, tmTorn>>
    BY <2>2, <2>5, <2>7, <1>n DEF TmuxTyped, NoTmuxRun
  <2> QED BY <2>1, <2>6, <2>7
<1>9. CASE TmuxEnd \/ TmuxCancel BY <1>9, <1>b DEF TmuxEnd, TmuxCancel
<1>10. CASE TmuxAbort
  <2>1. tmRun' = NoTmuxRun /\ UNCHANGED tmShown BY <1>10 DEF TmuxAbort
  <2>2. PICK ps \in SUBSET TmuxPanesOf : TmuxDelete(ps) \/ TmuxReplace(ps)
    <3>1. TmuxDead \subseteq TmuxPanesOf /\ tmRun.left \subseteq TmuxPanesOf BY DEF TmuxDead, TmuxTyped
    <3>2. \/ \E ps \in SUBSET TmuxDead : TmuxDelete(ps)
          \/ \E ps \in SUBSET tmRun.left : TmuxReplace(ps)
      BY <1>10 DEF TmuxAbort
    <3> QED BY <3>1, <3>2
  <2>4. /\ tmRows' \subseteq TmuxPanesOf /\ tmTorn' \subseteq TmuxPanesOf
        /\ tmWords' \subseteq tmRows' \X TmuxTexts \X TmuxWords /\ tmCache' = tmCache
    BY <2>1, <2>2, <1>c
  <2> QED BY <2>1, <2>4, <1>n DEF TmuxTyped, NoTmuxRun
<1>11. CASE UNCHANGED tmuxVars BY <1>11 DEF tmuxVars, TmuxTyped
<1> QED BY <1>1, <1>2, <1>3, <1>4, <1>5, <1>6, <1>7, <1>8, <1>9, <1>10, <1>11 DEF TmuxNext, TmuxOf

LEMMA TmuxTypes == TmuxSpec => []TmuxTypeOK
<1>1. ASSUME TmuxInit PROVE TmuxTyped
  <2>1. <<>> \in Keyed(TmuxPanesOf, TmuxShots)
    <3>1. DOMAIN <<>> = {} /\ <<>> = [x \in DOMAIN <<>> |-> <<>>[x]] OBVIOUS
    <3> QED BY <3>1, KeyedIs
  <2>2. tmShown \in Keyed(TmuxPanesOf, TmuxTexts) BY <1>1 DEF TmuxInit, Keyed
  <2>3. tmRun.at = "none" /\ tmRun.left = {} /\ tmRun.shots = <<>> /\ tmRows = {} /\ tmWords = {} /\ tmCache = <<>> /\ tmTorn = {}
    BY <1>1 DEF TmuxInit, NoTmuxRun
  <2> QED BY <2>1, <2>2, <2>3 DEF TmuxTyped
<1>2. TmuxTyped => TmuxTypeOK BY DEF TmuxTyped, TmuxTypeOK, TmuxShots
<1> QED BY <1>1, <1>2, TmuxStart, TmuxStep, TmuxTypedStep, PTL DEF TmuxSpec

-----------------------------------------------------------------------------
(* Tree-sitter: its types.                                                  *)

(* A buffer has a word once; what the cell has is of a request that there has been.          *)
TsWords(rows) == rows \subseteq TsNodes /\ \A v, w \in rows : v[1] = w[1] => v = w
TsReply == [uid : 1 .. tsUid, load : [buf : TsBufs, lo : Int, hi : Int, nodes : SUBSET TsNodes]]

TsTalk ==
  /\ tsAsked \in Seq(1 .. tsUid) /\ tsReplies \in Seq(TsReply)
  /\ tsUid \in 0 .. MaxTsUid /\ tsCell.uid \in 0 .. tsUid
  /\ tsCell.load.nodes \subseteq TsNodes
  /\ tsCell.done => tsCell.uid = 0 \/ tsCell.load.buf \in TsBufs
  /\ tsPoll.at = "request" => tsPoll.uid # 0
  /\ tsStill \in BOOLEAN

TsStored == DOMAIN tsRows \subseteq TsBufs /\ \A b \in DOMAIN tsRows : TsWords(tsRows[b])

LEMMA TsNodesAre ==
  ASSUME NEW t \in TsTexts, NEW lo, NEW hi
  PROVE  Nodes(t, lo, hi) \subseteq TsNodes
<1> SUFFICES ASSUME NEW n \in {m \in 0 .. Len(t) - 1 : lo <= m /\ m < hi} PROVE <<t[n + 1], n>> \in TsNodes
  BY DEF Nodes
<1>1. t \in Seq(TsNames) /\ Len(t) \in Nat BY TsAssumption
<1>2. n + 1 \in 1 .. Len(t) BY <1>1
<1> QED BY <1>1, <1>2 DEF TsNodes

LEMMA TsTalkStep == TsIInv /\ TsTalk /\ [TsNext]_tsVars => TsTalk'
<1> SUFFICES ASSUME TsIInv, TsTalk, [TsNext]_tsVars PROVE TsTalk' OBVIOUS
<1>p. tsPoll = [at |-> tsPoll.at, uid |-> tsPoll.uid, load |-> tsPoll.load,
               counts |-> tsPoll.counts, counted |-> tsPoll.counted]
  BY DEF TsIInv, TsShape
<1>1. CASE TsParse
  <2>1. PICK lo \in 0 .. Len(tsText[tsHere]) - 1, hi \in 1 .. Len(tsText[tsHere]) :
          tsReplies' = Append(tsReplies,
             [uid |-> Head(tsAsked),
              load |-> [buf |-> tsHere, lo |-> lo, hi |-> hi, nodes |-> Nodes(tsText[tsHere], lo, hi)]])
    BY <1>1 DEF TsParse
  <2>2. tsText[tsHere] \in TsTexts /\ tsHere \in TsBufs BY DEF TsIInv, TsTyped
  <2>3. Nodes(tsText[tsHere], lo, hi) \subseteq TsNodes BY <2>2, TsNodesAre
  <2>4. Head(tsAsked) \in 1 .. tsUid /\ Tail(tsAsked) \in Seq(1 .. tsUid) /\ tsAsked' = Tail(tsAsked)
        /\ UNCHANGED <<tsCell, tsPoll, tsUid, tsStill>>
    BY <1>1, HeadTailProperties DEF TsParse, TsTalk
  <2>5. [uid |-> Head(tsAsked),
         load |-> [buf |-> tsHere, lo |-> lo, hi |-> hi, nodes |-> Nodes(tsText[tsHere], lo, hi)]] \in TsReply
    BY <2>2, <2>3, <2>4 DEF TsReply
  <2>6. tsReplies' \in Seq(TsReply) BY <2>1, <2>5, AppendProperties DEF TsTalk
  <2>7. TsReply' = TsReply BY <2>4 DEF TsReply
  <2> QED BY <2>4, <2>6, <2>7 DEF TsTalk
<1>2. CASE TsRaise
  <2>1. tsAsked' \in Seq(1 .. tsUid) /\ UNCHANGED <<tsReplies, tsCell, tsPoll, tsUid, tsStill>>
    BY <1>2, HeadTailProperties DEF TsRaise, TsTalk
  <2> QED BY <2>1 DEF TsTalk, TsReply
<1>3. CASE TsNotify
  <2>1. /\ tsReplies # <<>> /\ tsReplies' = Tail(tsReplies) /\ UNCHANGED <<tsAsked, tsPoll, tsUid, tsStill>>
        /\ \/ tsCell' = tsCell
           \/ tsCell' = [uid |-> Head(tsReplies).uid, done |-> TRUE, load |-> Head(tsReplies).load]
    BY <1>3 DEF TsNotify
  <2>2. tsReplies' \in Seq(TsReply) /\ Head(tsReplies) \in TsReply
    BY <2>1, HeadTailProperties DEF TsTalk
  <2>3. Head(tsReplies).uid \in 1 .. tsUid /\ Head(tsReplies).load.buf \in TsBufs /\ Head(tsReplies).load.nodes \subseteq TsNodes
    BY <2>2 DEF TsReply
  <2>4. tsCell'.uid \in 0 .. tsUid /\ tsCell'.load.nodes \subseteq TsNodes
        /\ (tsCell'.done => tsCell'.uid = 0 \/ tsCell'.load.buf \in TsBufs)
    BY <2>1, <2>3 DEF TsTalk
  <2>5. TsReply' = TsReply BY <2>1 DEF TsReply
  <2> QED BY <2>1, <2>2, <2>4, <2>5 DEF TsTalk
<1>4. CASE TsRequest
  <2>1. /\ tsUid < MaxTsUid /\ tsUid' = tsUid + 1 /\ tsAsked' = Append(tsAsked, tsUid') /\ UNCHANGED tsReplies
        /\ tsCell' = [uid |-> tsUid', done |-> FALSE, load |-> NoPayload] /\ tsStill' = TRUE
        /\ tsPoll'.uid = tsUid'
    BY <1>4 DEF TsRequest, NoTsPoll
  <2>2. tsUid' \in 1 .. MaxTsUid /\ tsUid' \in 0 .. tsUid' /\ 1 .. tsUid \subseteq 1 .. tsUid' /\ tsUid' \in 1 .. tsUid'
    BY <2>1, TsAssumption DEF TsTalk
  <2>3. tsAsked \in Seq(1 .. tsUid') BY <2>2, SeqMonotonic DEF TsTalk
  <2>4. tsAsked' \in Seq(1 .. tsUid') BY <2>1, <2>2, <2>3, AppendProperties
  <2>5. TsReply \subseteq TsReply' BY <2>2 DEF TsReply
  <2>6. tsReplies' \in Seq(TsReply') BY <2>1, <2>5, SeqMonotonic DEF TsTalk
  <2>7. tsCell'.uid = tsUid' /\ tsCell'.load.nodes = {} /\ tsCell'.done = FALSE BY <2>1 DEF NoPayload
  <2> QED BY <2>1, <2>2, <2>4, <2>6, <2>7 DEF TsTalk
<1>5. ASSUME UNCHANGED <<tsAsked, tsReplies, tsCell, tsUid>>, tsStill' \in {tsStill, FALSE},
             tsPoll'.at = "request" => tsPoll.at = "request" /\ tsPoll'.uid = tsPoll.uid
      PROVE TsTalk'
  BY <1>5 DEF TsTalk, TsReply
<1>6. ASSUME NEW b \in TsBufs, TsBuf(b) PROVE TsTalk'
  BY <1>6, <1>5 DEF TsBuf, TsClose, TsEdit, tsServer
<1>7. CASE TsCount BY <1>7, <1>5, <1>p DEF TsCount, tsRequests
<1>8. CASE TsPopulate \/ TsDelete \/ TsInsert \/ TsVacuum \/ TsVacuumBuffers \/ TsVacuumWords \/ TsCancel \/ TsAbort
  <2>1. UNCHANGED tsRequests /\ tsPoll'.at # "request"
    BY <1>8, <1>p DEF TsPopulate, TsDelete, TsInsert, TsVacuum, TsVacuumBuffers, TsVacuumWords, TsCancel, TsAbort, NoTsPoll
  <2> QED BY <2>1, <1>5 DEF tsRequests
<1>9. CASE UNCHANGED tsVars BY <1>9, <1>5 DEF tsVars
<1> QED BY <1>1, <1>2, <1>3, <1>4, <1>6, <1>7, <1>8, <1>9 DEF TsNext

LEMMA TsInsertedOnce ==
  ASSUME NEW rows, TsWords(rows), NEW nodes \in SUBSET TsNodes
  PROVE  TsWords(Inserted(rows, nodes))
<1> DEFINE new == {w \in nodes : (\A v \in rows : v[1] # w[1]) /\ (\A v \in nodes : v[1] = w[1] => v[2] >= w[2])}
<1>1. Inserted(rows, nodes) = rows \union new BY DEF Inserted
<1>2. \A w \in TsNodes : w = <<w[1], w[2]>> /\ w[2] \in Nat BY DEF TsNodes
<1>3. ASSUME NEW v \in new, NEW w \in new, v[1] = w[1] PROVE v = w
  <2>1. v[2] >= w[2] /\ w[2] >= v[2] /\ v \in TsNodes /\ w \in TsNodes BY <1>3
  <2>2. v[2] = w[2] BY <2>1, <1>2
  <2> QED BY <2>1, <2>2, <1>2, <1>3
<1>4. \A v \in rows, w \in new : v[1] # w[1] OBVIOUS
<1>5. new \subseteq TsNodes OBVIOUS
<1> HIDE DEF new
<1> QED BY <1>1, <1>3, <1>4, <1>5 DEF TsWords

LEMMA TsStoredStep == TsIInv /\ TsTalk /\ TsStored /\ [TsNext]_tsVars => TsStored'
<1> SUFFICES ASSUME TsIInv, TsTalk, TsStored, [TsNext]_tsVars PROVE TsStored' OBVIOUS
\* rows of no other buffers, each of which is a part of what was
<1>1. ASSUME DOMAIN tsRows' \subseteq DOMAIN tsRows, \A b \in DOMAIN tsRows' : tsRows'[b] \subseteq tsRows[b]
      PROVE TsStored'
  BY <1>1 DEF TsStored, TsWords
<1>2. CASE UNCHANGED tsRows BY <1>2 DEF TsStored
<1>3. CASE TsPopulate
  <2> DEFINE b == tsCell.load.buf
  <2>1. tsRows' = [c \in DOMAIN tsRows \union {b} |-> IF c \in DOMAIN tsRows THEN tsRows[c] ELSE {}] BY <1>3 DEF TsPopulate
  <2>2. b \in TsBufs BY <1>3 DEF TsPopulate, TsTalk
  <2>3. TsWords({}) BY DEF TsWords
  <2> HIDE DEF b
  <2> QED BY <2>1, <2>2, <2>3 DEF TsStored
<1>4. CASE TsDelete
  <2>1. tsRows' = Cut(tsRows, tsCell.load.buf, tsCell.load.lo, tsCell.load.hi) BY <1>4 DEF TsDelete
  <2> QED BY <2>1, <1>1 DEF Cut
<1>5. ASSUME NEW nodes \in SUBSET TsNodes, NEW b, tsRows' = [tsRows EXCEPT ![b] = Inserted(@, nodes)] PROVE TsStored'
  <2>1. DOMAIN tsRows' = DOMAIN tsRows /\ \A c \in DOMAIN tsRows : tsRows'[c] \in {tsRows[c], Inserted(tsRows[c], nodes)}
    BY <1>5
  <2> QED BY <2>1, TsInsertedOnce DEF TsStored
<1>6. CASE TsInsert BY <1>5, <1>6 DEF TsInsert, TsTalk
<1>7. CASE TsVacuumBuffers BY <1>7, <1>1 DEF TsVacuumBuffers, DropBuffers
<1>8. CASE TsVacuumWords BY <1>8, <1>1 DEF TsVacuumWords
<1>9. CASE TsAbort
  <2>1. CASE tsPoll.at = "insert"
    <3>1. PICK some \in SUBSET tsCell.load.nodes : tsRows' = [tsRows EXCEPT ![tsCell.load.buf] = Inserted(@, some)]
      BY <1>9, <2>1 DEF TsAbort
    <3>2. some \in SUBSET TsNodes BY DEF TsTalk
    <3> QED BY <3>1, <3>2, <1>5
  <2>2. CASE tsPoll.at = "buffers"
    <3>1. PICK dead : tsRows' = DropBuffers(dead) BY <1>9, <2>2 DEF TsAbort
    <3> QED BY <3>1, <1>1 DEF DropBuffers
  <2>3. CASE tsPoll.at \notin {"insert", "buffers"} BY <1>9, <2>3, <1>2 DEF TsAbort
  <2> QED BY <2>1, <2>2, <2>3
<1>10. ASSUME NEW b \in TsBufs, TsBuf(b) PROVE UNCHANGED tsRows BY <1>10 DEF TsBuf, TsClose, TsEdit, tsServer
<1>11. CASE TsParse \/ TsRaise \/ TsNotify \/ TsRequest \/ TsCount \/ TsVacuum \/ TsCancel
  BY <1>11, <1>2 DEF TsParse, TsRaise, TsNotify, TsRequest, TsCount, TsVacuum, TsCancel
<1>12. UNCHANGED tsVars => UNCHANGED tsRows BY DEF tsVars
<1> QED BY <1>2, <1>3, <1>4, <1>6, <1>7, <1>8, <1>9, <1>10, <1>11, <1>12 DEF TsNext

TsAt == tsPoll.at \in {"idle", "request", "vacuum"} \union TsStatements

LEMMA TsAtStep == TsIInv /\ TsAt /\ [TsNext]_tsVars => TsAt'
<1> SUFFICES ASSUME TsIInv, TsAt, [TsNext]_tsVars PROVE TsAt' OBVIOUS
<1>p. tsPoll = [at |-> tsPoll.at, uid |-> tsPoll.uid, load |-> tsPoll.load,
               counts |-> tsPoll.counts, counted |-> tsPoll.counted]
  BY DEF TsIInv, TsShape
<1>1. ASSUME NEW b \in TsBufs, TsBuf(b) PROVE UNCHANGED tsPoll BY <1>1 DEF TsBuf, TsClose, TsEdit, tsServer
<1>2. TsParse \/ TsRaise \/ TsNotify => UNCHANGED tsPoll BY DEF TsParse, TsRaise, TsNotify
<1>a. ASSUME NEW at \in {"idle", "request", "vacuum", "delete", "insert", "buffers", "words"}, tsPoll'.at = at PROVE TsAt'
  BY <1>a DEF TsAt, TsStatements
<1>3. CASE TsRequest \/ TsCancel \/ TsVacuumWords
  <2>2. TsRequest => tsPoll' = [NoTsPoll EXCEPT !.at = "request", !.uid = tsUid'] BY DEF TsRequest
  <2>3. TsVacuumWords => tsPoll' = [NoTsPoll EXCEPT !.load = "swept"] BY DEF TsVacuumWords
  <2>4. TsCancel => tsPoll' = NoTsPoll BY DEF TsCancel
  <2>5. PICK none, uid : none = NoTsPoll /\ uid = tsUid' OBVIOUS
  <2>6. none.at = "idle" BY <2>5 DEF NoTsPoll
  <2>7. DOMAIN none = {"at", "uid", "load", "counts", "counted"} BY <2>5 DEF NoTsPoll
  <2>8. [none EXCEPT !.at = "request", !.uid = uid].at = "request" BY <2>7
  <2>9. [none EXCEPT !.load = "swept"].at = none.at BY <2>7
  <2>1. tsPoll'.at \in {"request", "idle"} BY <1>3, <2>2, <2>3, <2>4, <2>5, <2>6, <2>8, <2>9
  <2> QED BY <2>1, <1>a
<1>6. CASE TsCount
  <2>0. PICK counts : tsPoll' = [tsPoll EXCEPT !.counted = TRUE, !.counts = counts] /\ tsPoll.at \in {"request", "vacuum"}
    BY <1>6 DEF TsCount
  <2>1. tsPoll'.at \in {"request", "vacuum"} BY <2>0, <1>p
  <2> QED BY <2>1, <1>a
<1>7. CASE TsPopulate \/ TsDelete \/ TsInsert \/ TsVacuumBuffers
  <2>1. tsPoll'.at \in {"delete", "insert", "vacuum", "words"} BY <1>7, <1>p DEF TsPopulate, TsDelete, TsInsert, TsVacuumBuffers
  <2> QED BY <2>1, <1>a
<1>8. CASE TsVacuum \/ TsAbort
  <2>1. tsPoll'.at \in {"idle", "buffers", "vacuum"} BY <1>8, <1>p DEF TsVacuum, TsAbort, NoTsPoll
  <2> QED BY <2>1, <1>a
<1>4. UNCHANGED tsVars => UNCHANGED tsPoll BY DEF tsVars
<1>5. CASE UNCHANGED tsPoll BY <1>5 DEF TsAt
<1> QED BY <1>1, <1>2, <1>3, <1>4, <1>5, <1>6, <1>7, <1>8 DEF TsNext

LEMMA TsTypes == TsSpec => []TsTypeOK
<1>0. ASSUME TsInit PROVE TsTalk /\ TsStored /\ TsAt
  <2>1. /\ tsAsked = <<>> /\ tsReplies = <<>> /\ tsUid = 0 /\ tsCell.uid = 0 /\ tsCell.load.nodes = {}
        /\ tsPoll.at = "idle" /\ tsStill = FALSE /\ DOMAIN tsRows = {}
    BY <1>0 DEF TsInit, NoPayload, NoTsPoll
  <2>2. tsUid \in 0 .. MaxTsUid /\ tsCell.uid \in 0 .. tsUid BY <2>1, TsAssumption
  <2>3. tsAsked \in Seq(1 .. tsUid) /\ tsReplies \in Seq(TsReply) BY <2>1, EmptySeq
  <2>4. TsTalk BY <2>1, <2>2, <2>3 DEF TsTalk
  <2>5. TsStored /\ TsAt BY <2>1 DEF TsStored, TsAt
  <2> QED BY <2>4, <2>5
<1>1. ASSUME TsIInv, TsTalk, TsStored, TsAt PROVE TsTypeOK
  <2>1. tsPoll.at \in {"idle", "request", "vacuum"} \union TsStatements BY <1>1 DEF TsAt
  <2>2. tsCell.uid <= tsUid BY <1>1 DEF TsTalk
  <2>3. \A b \in DOMAIN tsRows : tsRows[b] \subseteq TsNodes /\ \A v, w \in tsRows[b] : v[1] = w[1] => v = w
    BY <1>1 DEF TsStored, TsWords
  <2>4. tsUid \in 0 .. MaxTsUid /\ tsStill \in BOOLEAN /\ DOMAIN tsRows \subseteq TsBufs BY <1>1 DEF TsTalk, TsStored
  <2>5. DOMAIN tsText \subseteq TsBufs /\ tsHere \in DOMAIN tsText /\ \A b \in DOMAIN tsText : tsText[b] \in TsTexts
    BY <1>1 DEF TsIInv, TsTyped
  <2> QED BY <2>1, <2>2, <2>3, <2>4, <2>5 DEF TsTypeOK
<1> QED BY <1>0, <1>1, TsStart, TsStep, TsTalkStep, TsStoredStep, TsAtStep, PTL DEF TsSpec

-----------------------------------------------------------------------------
(* Snippets: their types.                                                   *)

SnJobKnown(j) ==
  /\ j.at \in SnAt
  /\ j.at = "parse" => IsFiniteSet(j.todo)
  /\ j.at \in {"parse", "meta"} => j.mtimes \in [SnFiles -> SnVersions]

SnFilesKnown ==
  /\ snUser \in [SnFiles -> SnVersions] /\ snMeta \in [SnFiles -> SnVersions]
  /\ \A s \in Sources : snDisk[s].mtime \in 0 .. MaxSnDumps /\ IsFiniteSet(snDisk[s].of)

SnKnown == SnFilesKnown /\ \A i \in SnInstances : SnJobKnown(snJob[i])

LEMMA SnKnownStep == SnLIInv /\ SnKnown /\ [SnNext]_snVars => SnKnown'
<1> SUFFICES ASSUME SnLIInv, SnKnown, [SnNext]_snVars PROVE SnKnown' OBVIOUS
<1>a. SnShape BY DEF SnLIInv
<1>b. \A i \in SnInstances : JobShape(snJob[i]) BY <1>a DEF SnShape
<1>n. SnJobKnown(NoJob) BY DEF SnJobKnown, NoJob, SnAt
<1>f. ASSUME UNCHANGED snFiles PROVE SnFilesKnown' BY <1>f DEF snFiles, SnKnown, SnFilesKnown
\* one instance goes on
<1>j. ASSUME NEW i \in SnInstances, NEW job, SetJob(i, job), SnJobKnown(job), SnFilesKnown' PROVE SnKnown'
  <2>1. snJob'[i] = job /\ \A k \in SnInstances \ {i} : snJob'[k] = snJob[k] BY <1>a, <1>j DEF SetJob, SnShape
  <2>2. \A k \in SnInstances : SnJobKnown(snJob'[k]) BY <2>1, <1>j DEF SnKnown
  <2> QED BY <2>2, <1>j DEF SnKnown, SnJobKnown
<1>1. ASSUME NEW i \in SnInstances, SnInstance(i) PROVE SnKnown'
  <2> DEFINE j == snJob[i]
  <2>a. j = [at |-> j.at, first |-> j.first, seen |-> j.seen, disk |-> j.disk, rows |-> j.rows,
             todo |-> j.todo, loaded |-> j.loaded, left |-> j.left, mtimes |-> j.mtimes]
    BY <1>b DEF JobShape
  <2>b. SnJobKnown(j) BY DEF SnKnown
  \* what neither compiles nor changes a file
  <2>c. ASSUME NEW job, SetJob(i, job), job = NoJob \/ job.at \in SnAt \ {"parse", "meta"}, UNCHANGED snFiles PROVE SnKnown'
    <3>1. SnJobKnown(job) BY <2>c, <1>n DEF SnJobKnown
    <3> QED BY <2>c, <3>1, <1>f, <1>j
  <2>1. CASE SnLoadSnips(i)
    <3>1. SetJob(i, [NoJob EXCEPT !.at = "see", !.first = TRUE]) /\ UNCHANGED snFiles BY <2>1 DEF SnLoadSnips
    <3>2. [NoJob EXCEPT !.at = "see", !.first = TRUE].at \in SnAt \ {"parse", "meta"} BY DEF NoJob, SnAt
    <3> QED BY <3>1, <3>2, <2>c
  <2>2. CASE SnCompile(i)
    <3>1. SetJob(i, [NoJob EXCEPT !.at = "stat"]) /\ UNCHANGED snFiles BY <2>2 DEF SnCompile
    <3>2. [NoJob EXCEPT !.at = "stat"].at \in SnAt \ {"parse", "meta"} BY DEF NoJob, SnAt
    <3> QED BY <3>1, <3>2, <2>c
  <2>3. CASE SnSee(i)
    <3>1. PICK job : SetJob(i, job) /\ job.at = "slurp" /\ UNCHANGED snFiles
      <4>1. SetJob(i, [j EXCEPT !.at = "slurp", !.disk = DiskTimes, !.rows = RowTimes,
                          !.left = IF j.first THEN NewerThanMeta ELSE {}]) /\ UNCHANGED snFiles
        BY <2>3 DEF SnSee
      <4>2. [j EXCEPT !.at = "slurp", !.disk = DiskTimes, !.rows = RowTimes,
                      !.left = IF j.first THEN NewerThanMeta ELSE {}].at = "slurp"
        BY <2>a
      <4> QED BY <4>1, <4>2
    <3> QED BY <3>1, <2>c DEF SnAt
  <2>4. CASE SnSlurp(i)
    <3> DEFINE new == {s \in DOMAIN j.disk : s \in DOMAIN j.rows => j.disk[s] > j.rows[s]}
               job == [j EXCEPT !.at = "read", !.rows = <<>>, !.todo = new, !.disk = [s \in new |-> j.disk[s]]]
    <3>1. SetJob(i, job) /\ UNCHANGED snFiles BY <2>4 DEF SnSlurp
    <3>2. job.at = "read" BY <2>a
    <3> HIDE DEF job
    <3> QED BY <3>1, <3>2, <2>c DEF SnAt
  <2>5. CASE SnLoad(i)
    <3> DEFINE there == j.todo \intersect Present
               job == [j EXCEPT !.at = "load", !.todo = there, !.loaded = [s \in there |-> snDisk[s].of]]
    <3>1. SetJob(i, job) /\ UNCHANGED snFiles BY <2>5 DEF SnLoad
    <3>2. job.at = "load" BY <2>a
    <3> HIDE DEF job
    <3> QED BY <3>1, <3>2, <2>c DEF SnAt
  <2>6. ASSUME NEW s \in Sources, SnSource(i, s) PROVE SnKnown'
    <3>1. UNCHANGED snFiles BY <2>6 DEF SnSource, SnDelete, SnRow, SnStore
    <3>2. CASE SnDelete(i, s)
      <4> DEFINE job == [j EXCEPT !.at = "row", !.seen = {s}]
      <4>1. SetJob(i, job) BY <3>2 DEF SnDelete
      <4>2. job.at = "row" BY <2>a
      <4> HIDE DEF job
      <4> QED BY <3>1, <4>1, <4>2, <2>c DEF SnAt
    <3>3. CASE SnRow(i, s)
      <4> DEFINE job == [j EXCEPT !.at = "snips"]
      <4>1. SetJob(i, NoJob) \/ SetJob(i, job) BY <3>3 DEF SnRow
      <4>2. job.at = "snips" BY <2>a
      <4> HIDE DEF job
      <4> QED BY <3>1, <4>1, <4>2, <2>c DEF SnAt
    <3>4. CASE SnStore(i, s)
      <4> DEFINE job == [j EXCEPT !.at = "load", !.seen = {}, !.todo = @ \ {s}, !.loaded = [r \in DOMAIN @ \ {s} |-> @[r]]]
      <4>1. SetJob(i, NoJob) \/ SetJob(i, job) BY <3>4 DEF SnStore
      <4>2. job.at = "load" BY <2>a
      <4> HIDE DEF job
      <4> QED BY <3>1, <4>1, <4>2, <2>c DEF SnAt
    <3> QED BY <2>6, <3>2, <3>3, <3>4 DEF SnSource
  <2>7. CASE SnSlurped(i)
    <3> DEFINE job == [NoJob EXCEPT !.at = "stat"]
    <3>1. (SetJob(i, NoJob) \/ SetJob(i, job)) /\ UNCHANGED snFiles BY <2>7 DEF SnSlurped
    <3>2. job.at = "stat" BY DEF NoJob
    <3> HIDE DEF job
    <3> QED BY <3>1, <3>2, <2>c DEF SnAt
  <2>8. CASE SnInvalid(i) \/ SnCrash(i)
    <3>1. SetJob(i, NoJob) /\ UNCHANGED snFiles BY <2>8 DEF SnInvalid, SnCrash
    <3> QED BY <3>1, <2>c
  \* what compiles
  <2>9. CASE SnStat(i)
    <3> DEFINE job == [NoJob EXCEPT !.at = "parse", !.mtimes = snUser, !.left = SnFiles]
    <3>1. SetJob(i, job) /\ UNCHANGED snFiles BY <2>9 DEF SnStat
    <3>2. job.at = "parse" /\ job.todo = {} /\ job.mtimes = snUser BY DEF NoJob
    <3> HIDE DEF job
    <3>3. SnJobKnown(job) BY <3>2, FS_EmptySet DEF SnJobKnown, SnAt, SnKnown, SnFilesKnown
    <3> QED BY <3>1, <3>3, <1>f, <1>j
  <2>10. ASSUME NEW f \in SnFiles, SnParse(i, f) PROVE SnKnown'
    <3> DEFINE job == [j EXCEPT !.left = @ \ {f}, !.todo = @ \union {<<f, snUser[f]>>}]
    <3>1. SetJob(i, job) /\ UNCHANGED snFiles /\ j.at = "parse" BY <2>10 DEF SnParse
    <3>2. job.at = j.at /\ job.todo = j.todo \union {<<f, snUser[f]>>} /\ job.mtimes = j.mtimes BY <2>a
    <3>3. IsFiniteSet(j.todo) /\ j.mtimes \in [SnFiles -> SnVersions] /\ j.at \in SnAt BY <3>1, <2>b DEF SnJobKnown
    <3> HIDE DEF job, j
    <3>4. IsFiniteSet(job.todo)
      <4>1. PICK todo, more : todo = j.todo /\ more = <<f, snUser[f]>> OBVIOUS
      <4>2. IsFiniteSet(todo \union {more}) BY <3>3, <4>1, FS_AddElement
      <4> QED BY <3>2, <4>1, <4>2
    <3>5. SnJobKnown(job) BY <3>2, <3>3, <3>4 DEF SnJobKnown
    <3> QED BY <3>1, <3>5, <1>f, <1>j
  <2>11. CASE SnDumpSnippets(i)
    <3> DEFINE job == [j EXCEPT !.at = "meta", !.todo = {}]
    <3>1. /\ SetJob(i, job) /\ j.at = "parse" /\ UNCHANGED <<snUser, snMeta>> /\ snDisk["user"].mtime < MaxSnDumps
          /\ snDisk' = [snDisk EXCEPT !["user"] = [mtime |-> snDisk["user"].mtime + 1, of |-> j.todo]]
      BY <2>11 DEF SnDumpSnippets
    <3>2. job.at = "meta" /\ job.mtimes = j.mtimes BY <2>a
    <3>3. IsFiniteSet(j.todo) /\ j.mtimes \in [SnFiles -> SnVersions] BY <3>1, <2>b DEF SnJobKnown
    <3> HIDE DEF job, j
    <3>4. SnJobKnown(job) BY <3>2, <3>3 DEF SnJobKnown, SnAt
    <3>5. snDisk["user"].mtime \in 0 .. MaxSnDumps BY DEF SnKnown, SnFilesKnown, Sources
    <3>6. snDisk["user"].mtime + 1 \in 0 .. MaxSnDumps BY <3>1, <3>5, SnAssumption
    <3>7. snDisk'["user"].mtime = snDisk["user"].mtime + 1 /\ snDisk'["user"].of = j.todo /\ snDisk'["bundled"] = snDisk["bundled"]
      BY <3>1, <1>a DEF SnShape, Sources
    <3>8. SnFilesKnown' BY <3>1, <3>3, <3>6, <3>7 DEF SnKnown, SnFilesKnown, Sources
    <3> QED BY <3>1, <3>4, <3>8, <1>j
  <2>12. CASE SnDumpMeta(i)
    <3> DEFINE job == [NoJob EXCEPT !.at = "see"]
    <3>1. SetJob(i, job) /\ UNCHANGED <<snUser, snDisk>> /\ snMeta' = j.mtimes /\ j.at = "meta" BY <2>12 DEF SnDumpMeta
    <3>2. job.at = "see" BY DEF NoJob
    <3>3. j.mtimes \in [SnFiles -> SnVersions] BY <3>1, <2>b DEF SnJobKnown
    <3> HIDE DEF job, j
    <3>4. SnJobKnown(job) BY <3>2 DEF SnJobKnown, SnAt
    <3>5. SnFilesKnown' BY <3>1, <3>3 DEF SnKnown, SnFilesKnown
    <3> QED BY <3>1, <3>4, <3>5, <1>j
  <2>13. CASE SnDumpFails(i)
    <3> DEFINE job == [NoJob EXCEPT !.at = "see"]
    <3>1. SetJob(i, job) /\ UNCHANGED snFiles BY <2>13 DEF SnDumpFails
    <3>2. job.at = "see" BY DEF NoJob
    <3> HIDE DEF job
    <3> QED BY <3>1, <3>2, <2>c DEF SnAt
  <2> QED BY <1>1, <2>1, <2>2, <2>3, <2>4, <2>5, <2>6, <2>7, <2>8, <2>9, <2>10, <2>11, <2>12, <2>13 DEF SnInstance
<1>2. ASSUME UNCHANGED snJob, SnFilesKnown' PROVE SnKnown' BY <1>2 DEF SnKnown, SnJobKnown
<1>3. ASSUME NEW f \in SnFiles, SnSave(f) PROVE SnKnown'
  <2>1. snUser' = [snUser EXCEPT ![f] = snUser[f] + 1] /\ snUser[f] < MaxSnVersion /\ UNCHANGED <<snMeta, snDisk, snJob>>
    BY <1>3 DEF SnSave
  <2>2. snUser[f] + 1 \in SnVersions BY <2>1, SnAssumption DEF SnKnown, SnFilesKnown, SnVersions
  <2>3. snUser' \in [SnFiles -> SnVersions] BY <2>1, <2>2 DEF SnKnown, SnFilesKnown
  <2>4. SnFilesKnown' BY <2>1, <2>3 DEF SnKnown, SnFilesKnown
  <2> QED BY <2>1, <2>4, <1>2
<1>4. CASE SnUninstall
  <2>1. snDisk' = [snDisk EXCEPT !["bundled"] = [mtime |-> 0, of |-> {}]] /\ UNCHANGED <<snUser, snMeta, snJob>>
    BY <1>4 DEF SnUninstall
  <2>2. snDisk'["bundled"].mtime = 0 /\ snDisk'["bundled"].of = {} /\ snDisk'["user"] = snDisk["user"]
    BY <2>1, <1>a DEF SnShape, Sources
  <2>3. 0 \in 0 .. MaxSnDumps /\ IsFiniteSet({}) BY SnAssumption, FS_EmptySet
  <2>4. SnFilesKnown' BY <2>1, <2>2, <2>3 DEF SnKnown, SnFilesKnown, Sources
  <2> QED BY <2>1, <2>4, <1>2
<1>5. CASE UNCHANGED snVars BY <1>5, <1>f, <1>2 DEF snVars, snFiles
<1> QED BY <1>1, <1>3, <1>4, <1>5 DEF SnNext

SnKept == snTorn \subseteq Sources /\ \A s \in Sources \ DOMAIN snRows : snStored[s] = {}

LEMMA SnKeptStep == SnLIInv /\ SnKept /\ [SnNext]_snVars => SnKept'
<1> SUFFICES ASSUME SnLIInv, SnKept, [SnNext]_snVars PROVE SnKept' OBVIOUS
<1> USE DEF SnKept
<1>a. snStored = [s \in Sources |-> snStored[s]] /\ DOMAIN snRows \subseteq Sources BY DEF SnLIInv, SnShape, SnRowsInv
<1>b. CASE UNCHANGED <<snDb, snTorn>> BY <1>b DEF snDb
<1>w. ASSUME NEW s, Without(s) PROVE SnKept' BY <1>w, <1>a DEF Without
\* what is stored of a source that has its row
<1>s. ASSUME NEW s \in DOMAIN snRows, NEW of, snStored' = [snStored EXCEPT ![s] = of], UNCHANGED snRows,
             snTorn' \in {snTorn, snTorn \union {s}}
      PROVE SnKept'
  BY <1>s, <1>a
<1>1. ASSUME NEW i \in SnInstances, SnInstance(i) PROVE SnKept'
  <2>1. CASE SnSlurp(i)
    <3>1. PICK s : Without(s) BY <2>1 DEF SnSlurp
    <3> QED BY <3>1, <1>w
  <2>2. ASSUME NEW s \in Sources, SnSource(i, s) PROVE SnKept'
    <3>1. CASE SnDelete(i, s) BY <3>1, <1>w DEF SnDelete
    <3>2. CASE SnRow(i, s)
      <4>1. UNCHANGED <<snStored, snTorn>> /\ (snRows' = snRows \/ AddRow(i, s, snJob[i].disk[s])) BY <3>2 DEF SnRow
      <4>2. DOMAIN snRows \subseteq DOMAIN snRows' BY <4>1 DEF AddRow
      <4> QED BY <4>1, <4>2
    <3>3. CASE SnStore(i, s)
      <4>1. UNCHANGED <<snRows, snTorn>> /\ (snStored' = snStored \/ (s \in DOMAIN snRows /\ snStored' = [snStored EXCEPT ![s] = Fresh(s, snJob[i].loaded[s])]))
        BY <3>3 DEF SnStore, Owns
      <4> QED BY <4>1, <1>s
    <3> QED BY <2>2, <3>1, <3>2, <3>3 DEF SnSource
  <2>3. CASE SnCrash(i)
    <3>1. UNCHANGED snRows BY <2>3 DEF SnCrash
    <3>2. CASE snJob[i].at = "snips" /\ \E s \in snJob[i].seen : Owns(i, s)
      <4> DEFINE s == CHOOSE r \in snJob[i].seen : TRUE
      <4>1. PICK r : snJob[i].seen = {r} BY <3>2 DEF SnLIInv, SnLoads
      <4>2. r \in DOMAIN snRows BY <3>2, <4>1 DEF Owns
      <4>3. s = r BY <4>1
      <4>4. PICK some : snStored' = [snStored EXCEPT ![s] = some] /\ snTorn' = snTorn \union {s}
        BY <2>3, <3>2 DEF SnCrash
      <4> HIDE DEF s
      <4> QED BY <3>1, <4>2, <4>3, <4>4, <1>s
    <3>3. CASE ~(snJob[i].at = "snips" /\ \E s \in snJob[i].seen : Owns(i, s))
      BY <2>3, <3>1, <3>3, <1>b DEF SnCrash, snDb
    <3> QED BY <3>2, <3>3
  <2>4. ASSUME SnLoadSnips(i) \/ SnCompile(i) \/ SnSee(i) \/ SnLoad(i) \/ SnSlurped(i) \/ SnStat(i) \/ SnInvalid(i)
               \/ SnDumpSnippets(i) \/ SnDumpMeta(i) \/ SnDumpFails(i) \/ \E f \in SnFiles : SnParse(i, f)
        PROVE  UNCHANGED <<snDb, snTorn>>
    BY <2>4 DEF SnLoadSnips, SnCompile, SnSee, SnLoad, SnSlurped, SnStat, SnInvalid, SnDumpSnippets, SnDumpMeta, SnDumpFails, SnParse
  <2> QED BY <1>1, <1>b, <2>1, <2>2, <2>3, <2>4 DEF SnInstance
<1>2. ASSUME NEW f \in SnFiles, SnSave(f) PROVE SnKept' BY <1>2 DEF SnSave
<1>3. CASE SnUninstall BY <1>3 DEF SnUninstall
<1>4. CASE UNCHANGED snVars BY <1>4 DEF snVars
<1> QED BY <1>1, <1>2, <1>3, <1>4 DEF SnNext

LEMMA SnTypes == SnSpec => []SnTypeOK
<1>1. ASSUME SnInit PROVE SnKnown /\ SnKept
  <2>1. /\ snUser = [f \in SnFiles |-> 1] /\ snMeta = [f \in SnFiles |-> 0] /\ snJob = [i \in SnInstances |-> NoJob]
        /\ snDisk["user"].mtime = 0 /\ snDisk["user"].of = {} /\ snDisk["bundled"].mtime = 1
        /\ snDisk["bundled"].of = SnBundled
        /\ DOMAIN snRows = {"bundled"} /\ snStored["user"] = {} /\ snTorn = {}
    BY <1>1 DEF SnInit, Sources
  <2>2. {0, 1} \subseteq SnVersions /\ {0, 1} \subseteq 0 .. MaxSnDumps BY SnAssumption DEF SnVersions
  <2>3. snUser \in [SnFiles -> SnVersions] /\ snMeta \in [SnFiles -> SnVersions] BY <2>1, <2>2
  <2>7. IsFiniteSet({}) /\ IsFiniteSet(SnBundled) BY FS_EmptySet, SnAssumption
  <2>8. IsFiniteSet(snDisk["user"].of) /\ IsFiniteSet(snDisk["bundled"].of) BY <2>1, <2>7
  <2>9. snDisk["user"].mtime \in 0 .. MaxSnDumps /\ snDisk["bundled"].mtime \in 0 .. MaxSnDumps BY <2>1, <2>2
  <2>4. SnFilesKnown BY <2>3, <2>8, <2>9 DEF SnFilesKnown, Sources
  <2>5. SnJobKnown(NoJob) BY DEF SnJobKnown, NoJob, SnAt
  <2>6. \A i \in SnInstances : SnJobKnown(snJob[i]) BY <2>1, <2>5
  <2> QED BY <2>1, <2>4, <2>6 DEF SnKnown, SnKept, Sources
<1>2. ASSUME SnLIInv, SnKnown, SnKept PROVE SnTypeOK
  <2>1. DOMAIN snStored = Sources /\ DOMAIN snRows \subseteq Sources BY <1>2 DEF SnLIInv, SnShape, SnRowsInv
  <2>2. \A i \in SnInstances : snJob[i].at \in SnAt BY <1>2 DEF SnKnown, SnJobKnown
  <2>3. SnFilesKnown BY <1>2 DEF SnKnown
  <2> QED BY <1>2, <2>1, <2>2, <2>3 DEF SnFilesKnown, SnKept, SnTypeOK
<1> QED BY <1>1, <1>2, SnLoadStart, SnLoadStep, SnOwnStart, SnOwnStep, SnKnownStep, SnKeptStep, PTL DEF SnSpec
=============================================================================
