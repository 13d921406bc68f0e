------------------------------ MODULE Registers ------------------------------
(***************************************************************************)
(* coq/clients/registers: the words and lines of the registers that have    *)
(* been yanked into.  TextYankPost marks a register; the poll takes the     *)
(* marks away, asks nvim for the text and stores it.                        *)
(***************************************************************************)
EXTENDS Integers, FiniteSets

CONSTANTS
  Regs,       \* the registers of clients.registers.words and .lines
  LineRegs,   \* those of .lines
  MaxYanks    \* bound: yanks

ASSUME RegistersAssumption ==
  IsFiniteSet(Regs) /\ LineRegs \subseteq Regs /\ "none" \notin Regs /\ MaxYanks \in Nat

VARIABLES
  regText,    \* the text of each register: the yank it is of
  regYanks,   \* yanks so far
  regEvent,   \* what TextYankPost tells the worker; nvim waits for it
  regMarked,  \* _yanked
  regPoll,    \* the poll, the registers it has taken and the texts it has read
  regRows,    \* the texts that the database has of each register
  regLost     \* history: registers whose text was not stored, or has been too large

regVars == <<regText, regYanks, regEvent, regMarked, regPoll, regRows, regLost>>

Yanks == 0 .. MaxYanks
NoEvent == [reg |-> "none", large |-> FALSE]
NoRegPoll == [at |-> "idle", regs |-> {}, text |-> <<>>]
RegStatements == {"delete", "words", "lines"}

RegTypeOK ==
  /\ regText \in [Regs -> Yanks] /\ regYanks \in Yanks
  /\ regMarked \subseteq Regs
  /\ regPoll.at \in {"idle", "read"} \union RegStatements
  /\ regRows \in [Regs -> SUBSET Yanks] /\ \A r \in Regs : Cardinality(regRows[r]) <= 1
  /\ regLost \subseteq Regs

RegInit ==
  /\ regText = [r \in Regs |-> 0] /\ regYanks = 0 /\ regEvent = NoEvent
  /\ regMarked = Regs /\ regPoll = NoRegPoll
  /\ regRows = [r \in Regs |-> {}] /\ regLost = {}

-----------------------------------------------------------------------------

\* a large text is only kept out of the register without a name
Yank(r) ==
  /\ regEvent = NoEvent /\ regYanks < MaxYanks
  /\ regYanks' = regYanks + 1
  /\ regText' = [regText EXCEPT ![r] = regYanks']
  /\ \E large \in BOOLEAN : regEvent' = [reg |-> r, large |-> large]
  /\ UNCHANGED <<regMarked, regPoll, regRows, regLost>>

PostYank ==
  /\ regEvent # NoEvent
  /\ regEvent' = NoEvent
  /\ IF regEvent.large
     THEN regMarked' = regMarked /\ regLost' = regLost \union {regEvent.reg}
     ELSE regMarked' = regMarked \union {regEvent.reg} /\ regLost' = regLost
  /\ UNCHANGED <<regText, regYanks, regPoll, regRows>>

RegPoll ==
  /\ regPoll.at = "idle"
  /\ regPoll' = [NoRegPoll EXCEPT !.at = "read", !.regs = regMarked]
  /\ regMarked' = {}
  /\ UNCHANGED <<regText, regYanks, regEvent, regRows, regLost>>

\* Mutant: the marks are taken away once more, with those that have come since
RegReadClears ==
  /\ regPoll.at = "read"
  /\ regPoll' = [regPoll EXCEPT !.at = "delete", !.text = [r \in regPoll.regs |-> regText[r]]]
  /\ regMarked' = {}
  /\ UNCHANGED <<regText, regYanks, regEvent, regRows, regLost>>

\* _registers: one call, which nvim serves even while it waits
RegRead ==
  /\ regPoll.at = "read"
  /\ regPoll' = [regPoll EXCEPT !.at = "delete", !.text = [r \in regPoll.regs |-> regText[r]]]
  /\ UNCHANGED <<regText, regYanks, regEvent, regMarked, regRows, regLost>>

\* periodical: a register goes with its words and lines; what is in both is stored as both
RegDone(some) ==
  [r \in Regs |->
     IF r \notin some THEN regRows[r]
     ELSE IF regPoll.at = "delete" THEN {} ELSE {regPoll.text[r]}]

RegTodo == CASE regPoll.at = "delete" -> regPoll.regs
             [] regPoll.at = "words"  -> regPoll.regs \ LineRegs
             [] regPoll.at = "lines"  -> regPoll.regs \intersect LineRegs

\* a word or a line that cannot be encoded ends its statement, but not the poll
RegStatement ==
  /\ regPoll.at \in RegStatements
  /\ \E some \in SUBSET RegTodo :
       /\ regPoll.at = "delete" => some = RegTodo
       /\ regRows' = RegDone(some)
       /\ regLost' = {r \in regLost : regRows'[r] # {regText[r]}} \union (RegTodo \ some)
  /\ regPoll' = CASE regPoll.at = "delete" -> [regPoll EXCEPT !.at = "words"]
                  [] regPoll.at = "words"  -> [regPoll EXCEPT !.at = "lines"]
                  [] regPoll.at = "lines"  -> NoRegPoll
  /\ UNCHANGED <<regText, regYanks, regEvent, regMarked>>

\* a keystroke, or an error of nvim
RegCancel ==
  /\ regPoll.at = "read"
  /\ regPoll' = NoRegPoll /\ regLost' = regLost \union regPoll.regs
  /\ UNCHANGED <<regText, regYanks, regEvent, regMarked, regRows>>

RegAbort ==
  /\ regPoll.at \in RegStatements
  /\ \E some \in SUBSET RegTodo : regRows' = RegDone(some)
  /\ regPoll' = NoRegPoll /\ regLost' = regLost \union regPoll.regs
  /\ UNCHANGED <<regText, regYanks, regEvent, regMarked>>

RegNext ==
  \/ \E r \in Regs : Yank(r)
  \/ PostYank \/ RegPoll \/ RegRead \/ RegStatement \/ RegCancel \/ RegAbort

RegSpec == RegInit /\ [][RegNext]_regVars

-----------------------------------------------------------------------------

\* The text of a register is stored, or it is still to be: no yank is lost between the marks
\* being taken and the text being read, however the two cross.  What a keystroke interrupts, or cannot
\* be encoded, is lost until the register is yanked into again (worker.py:58-61, :85, database.py:76).
YanksAreKept ==
  \A r \in Regs \ regLost :
    \/ regRows[r] = {regText[r]} \/ r \in regMarked \/ regEvent.reg = r
    \/ regPoll.at = "read" /\ r \in regPoll.regs
    \/ regPoll.at \in RegStatements /\ r \in regPoll.regs /\ regPoll.text[r] = regText[r]

=============================================================================
