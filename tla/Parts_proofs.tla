----------------------------- MODULE Parts_proofs -----------------------------
(***************************************************************************)
(* Theorems about the preview, the ranked list that becomes the menu, the   *)
(* plan that an edit is made by, the marks of a snippet and what a snippet  *)
(* is read as: for every number of items, of lines, of marks, of characters  *)
(* and of steps.                                                            *)
(***************************************************************************)
EXTENDS Preview, Ranking, Marks, SnippetText, Fuzzy_proofs

-----------------------------------------------------------------------------
(* Preview: the cache, whose assignments keep it within its size, with one entry of each key. *)

Entries == [key : PvSome, imports : BOOLEAN, doc : BOOLEAN]

IsCache(lru) ==
  /\ lru \in Seq(Entries) /\ Len(lru) <= PvSize
  /\ \A i, j \in 1 .. Len(lru) : lru[i].key = lru[j].key => i = j

\* LRU.__setitem__: it makes room for a key that is there as well, which drops an entry that need not go
LEMMA RoomIsMade ==
  ASSUME NEW lru, IsCache(lru)
  PROVE  LET room == IF Len(lru) >= PvSize THEN Tail(lru) ELSE lru IN IsCache(room) /\ Len(room) < PvSize
<1> USE PvAssumption DEF IsCache
<1>1. CASE Len(lru) < PvSize BY <1>1
<1>2. CASE Len(lru) >= PvSize
  <2>1. lru # <<>> BY <1>2
  <2>2. /\ Tail(lru) \in Seq(Entries) /\ Len(Tail(lru)) = Len(lru) - 1
        /\ \A i \in 1 .. Len(Tail(lru)) : Tail(lru)[i] = lru[i + 1]
    BY <2>1, HeadTailProperties
  <2>3. ASSUME NEW i \in 1 .. Len(Tail(lru)), NEW j \in 1 .. Len(Tail(lru)), Tail(lru)[i].key = Tail(lru)[j].key
        PROVE  i = j
    BY <2>2, <2>3
  <2> QED BY <1>2, <2>2, <2>3
<1> QED BY <1>1, <1>2

LEMMA PutKeepsCache ==
  ASSUME NEW lru, IsCache(lru), NEW e \in Entries
  PROVE  IsCache(LruPut(lru, e))
<1> DEFINE room == IF Len(lru) >= PvSize THEN Tail(lru) ELSE lru
<1>1. IsCache(room) /\ Len(room) < PvSize BY RoomIsMade
<1>2. LruPut(lru, e) = IF \E i \in 1 .. Len(room) : room[i].key = e.key
                       THEN [i \in 1 .. Len(room) |-> IF room[i].key = e.key THEN e ELSE room[i]]
                       ELSE Append(room, e)
  BY DEF LruPut
<1> HIDE DEF room
<1> USE PvAssumption
<1>3. room \in Seq(Entries) BY <1>1 DEF IsCache
<1>4. \A i \in 1 .. Len(room) : room[i] \in Entries BY <1>3, ElementOfSeq
<1>5. CASE \E i \in 1 .. Len(room) : room[i].key = e.key
  <2> DEFINE new == [i \in 1 .. Len(room) |-> IF room[i].key = e.key THEN e ELSE room[i]]
  <2>1. Len(room) \in Nat BY <1>3
  <2>2. \A i \in 1 .. Len(room) : new[i] \in Entries /\ new[i].key = room[i].key BY <1>4
  <2>3. new \in [1 .. Len(room) -> Entries] BY <2>2
  <2> HIDE DEF new
  <2>4. new \in Seq(Entries) /\ Len(new) = Len(room) BY <2>1, <2>3
  <2>5. IsCache(new) BY <1>1, <2>2, <2>4 DEF IsCache
  <2> QED BY <1>2, <1>5, <2>5 DEF new
<1>6. CASE ~\E i \in 1 .. Len(room) : room[i].key = e.key
  <2>1. /\ Append(room, e) \in Seq(Entries) /\ Len(Append(room, e)) = Len(room) + 1
        /\ Append(room, e)[Len(room) + 1] = e
        /\ \A i \in 1 .. Len(room) : Append(room, e)[i] = room[i]
    BY <1>3, AppendProperties
  <2>2. IsCache(Append(room, e)) BY <1>1, <1>3, <1>6, <2>1 DEF IsCache
  <2> QED BY <1>2, <1>6, <2>2
<1> QED BY <1>5, <1>6

-----------------------------------------------------------------------------
(* Preview: what is shown is for the item that is selected.                   *)

\* events that may have something on the screen in the end
Showable == PvCurrent \union pvLate

\* a handler is of the newest event, or of one that has been overtaken
TaskOK(t) ==
  /\ t = [n |-> t.n, at |-> t.at, item |-> t.item, seen |-> t.seen]
  /\ t.n \in 1 .. pvEvents /\ t.at \in PvKilling \union PvShowing
  /\ t.item \in PvSome /\ t.seen \subseteq 1 .. pvEvents
  /\ t.at \in PvShowing => t.item # "none"
  /\ t.n = pvEvents => t.item = pvSel
  /\ t.n = pvEvents \/ t.n \in pvLate

PvTasksOK == \A t \in pvTasks : TaskOK(t)

PvContOK ==
  /\ pvCont = [at |-> pvCont.at, n |-> pvCont.n, item |-> pvCont.item]
  /\ pvCont.at \in {"idle", "start", "resolve", "secondary", "open", "mark"}
  /\ pvCont.n \in 0 .. pvEvents /\ pvCont.item \in PvSome
  /\ pvCont.at # "idle" => pvCont.n \in Showable /\ pvCont.n \in 1 .. pvEvents

PvRestOK ==
  /\ pvEvents \in Nat /\ pvEvents <= MaxPvEvents /\ IsCache(pvLru)
  /\ pvSel \in PvSome /\ pvId \in PvSome /\ pvAccepted \in PvSome
  /\ pvWins \subseteq 1 .. pvEvents /\ pvMarked \subseteq 1 .. pvEvents /\ pvGhost \in 0 .. pvEvents
  /\ pvApplied.item \in PvSome /\ pvDocs \subseteq PvLsp /\ pvLate \subseteq 1 .. pvEvents

\* a window without the UUID is about to get it, or its showing was overtaken or cancelled
BareOK ==
  \A w \in pvWins \ pvMarked :
    \/ w \in pvLate \/ (pvCont.at = "mark" /\ pvCont.n = w)
    \/ \E t \in pvTasks : t.at = "mark" /\ t.n = w

Stale == pvWins \ Showable

\* the windows that are to go can be found, and the newest handler is to close them
StaleOK ==
  /\ Stale \subseteq pvMarked
  /\ Stale = {} \/ \E t \in pvTasks : t.n = pvEvents /\ (t.at \in {"kill", "clear", "list"} \/ (t.at = "close" /\ Stale \subseteq t.seen))

GhostOK == pvGhost \in {0} \union Showable \/ \E t \in pvTasks : t.n = pvEvents /\ t.at \in {"kill", "clear"}

PvShownInv == PvTasksOK /\ PvContOK /\ PvRestOK /\ BareOK /\ StaleOK /\ GhostOK

LEMMA PvShownFirst == PvInit => PvShownInv
<1> SUFFICES ASSUME PvInit PROVE PvShownInv OBVIOUS
<1>1. IsCache(pvLru) BY PvAssumption DEF PvInit, IsCache
<1>2. PvRestOK BY <1>1, PvAssumption DEF PvInit, PvRestOK, PvSome, NotApplied
<1> QED BY <1>2 DEF PvInit, PvShownInv, PvTasksOK, PvContOK, BareOK, StaleOK, GhostOK, Stale, Showable, NoCont, PvSome

LEMMA PvEventStep ==
  ASSUME PvShownInv, NEW x \in PvSome, Event(x), pvAccepted' \in PvSome
  PROVE  PvShownInv'
<1> USE DEF PvShownInv
<1>1. /\ pvEvents' = pvEvents + 1 /\ pvSel' = x /\ pvTasks' = pvTasks \union {Task(x)}
      /\ pvEvents \in Nat /\ pvEvents' <= MaxPvEvents
      /\ pvLate' = (pvLate \union {t.n : t \in pvTasks} \union {pvCont.n}) \ {0}
      /\ UNCHANGED <<pvCont, pvId, pvLru, pvWins, pvMarked, pvGhost, pvApplied, pvDocs>>
  BY PvAssumption DEF Event, PvRestOK
<1>2. Task(x) = [n |-> pvEvents', at |-> "kill", item |-> x, seen |-> {}] /\ Task(x) \in pvTasks' BY <1>1 DEF Task
<1>3. 1 .. pvEvents \subseteq 1 .. pvEvents' /\ 0 .. pvEvents \subseteq 0 .. pvEvents' /\ pvEvents' \in 1 .. pvEvents'
      /\ pvEvents' \notin 0 .. pvEvents
  BY <1>1
<1>4. \A t \in pvTasks : t.n \in 1 .. pvEvents /\ t.n # 0 /\ t.n \in pvLate' BY <1>1 DEF PvTasksOK, TaskOK
<1>5. pvLate \subseteq pvLate' /\ pvLate' \subseteq 1 .. pvEvents'
  <2>1. 0 \notin pvLate /\ pvLate \subseteq 1 .. pvEvents /\ pvCont.n \in 0 .. pvEvents BY <1>1 DEF PvRestOK, PvContOK
  <2>2. (0 .. pvEvents) \ {0} \subseteq 1 .. pvEvents BY <1>1
  <2> QED BY <1>1, <1>3, <1>4, <2>1, <2>2
<1>6. PvTasksOK'
  <2>1. ASSUME NEW t \in pvTasks PROVE TaskOK(t)'
    <3>1. TaskOK(t) BY DEF PvTasksOK
    <3> QED BY <1>3, <1>4, <3>1 DEF TaskOK
  <2>2. ASSUME NEW t, t = [n |-> pvEvents', at |-> "kill", item |-> x, seen |-> {}] PROVE TaskOK(t)'
    <3>1. t.n = pvEvents' /\ t.at = "kill" /\ t.item = x /\ t.seen = {} BY <2>2
    <3> QED BY <1>1, <1>3, <2>2, <3>1 DEF TaskOK, PvKilling, PvShowing
  <2>3. \A t \in pvTasks' : t \in pvTasks \/ t = [n |-> pvEvents', at |-> "kill", item |-> x, seen |-> {}] BY <1>1, <1>2
  <2>4. \A t \in pvTasks' : TaskOK(t)' BY <2>1, <2>2, <2>3
  <2> QED BY <2>4 DEF PvTasksOK
<1>7. pvCont.at # "idle" => pvCont.n \in pvLate'
  <2>1. pvCont.at # "idle" => pvCont.n \in 1 .. pvEvents BY DEF PvContOK
  <2>2. 0 \notin 1 .. pvEvents BY <1>1
  <2> QED BY <1>1, <2>1, <2>2
<1>8. PvContOK' BY <1>1, <1>3, <1>7 DEF PvContOK, Showable
<1>9. PvRestOK'
  <2>1. pvWins \subseteq 1 .. pvEvents' /\ pvMarked \subseteq 1 .. pvEvents' /\ pvGhost \in 0 .. pvEvents' BY <1>3 DEF PvRestOK
  <2>2. IsCache(pvLru) /\ pvId \in PvSome /\ pvApplied.item \in PvSome /\ pvDocs \subseteq PvLsp BY DEF PvRestOK
  <2>3. IsCache(pvLru)' BY <1>1, <2>2 DEF IsCache
  <2> QED BY <1>1, <1>5, <2>1, <2>2, <2>3 DEF PvRestOK
\* a window without the UUID is late by now
<1>10. \A w \in pvWins \ pvMarked : w \in pvLate'
  <2>1. ASSUME NEW w \in pvWins \ pvMarked PROVE w \in pvLate'
    <3>1. w \in pvLate \/ (pvCont.at = "mark" /\ pvCont.n = w) \/ \E t \in pvTasks : t.n = w BY DEF BareOK
    <3> QED BY <1>4, <1>5, <1>7, <3>1
  <2> QED BY <2>1
<1>11. BareOK' BY <1>1, <1>10 DEF BareOK
<1>12. StaleOK'
  <2>1. Stale' \subseteq pvMarked' BY <1>1, <1>10 DEF Stale, Showable
  <2>2. \E t \in pvTasks' : t.n = pvEvents' /\ t.at = "kill" BY <1>2
  <2> QED BY <2>1, <2>2 DEF StaleOK
<1>13. GhostOK' BY <1>2 DEF GhostOK
<1> QED BY <1>6, <1>8, <1>9, <1>11, <1>12, <1>13

\* a handler goes on as u, or is done
LEMMA TasksStay ==
  ASSUME PvTasksOK, UNCHANGED <<pvEvents, pvSel>>, pvLate \subseteq pvLate',
         NEW t \in pvTasks, NEW new,
         pvTasks' = (pvTasks \ {t}) \union new,
         \A u \in new : TaskOK(u)
  PROVE  PvTasksOK'
<1>1. ASSUME NEW u, TaskOK(u) PROVE TaskOK(u)' BY <1>1 DEF TaskOK
<1> QED BY <1>1 DEF PvTasksOK

LEMMA TasksEnd ==
  ASSUME PvTasksOK, UNCHANGED <<pvEvents, pvSel>>, pvLate \subseteq pvLate',
         NEW t \in pvTasks, pvTasks' = (pvTasks \ {t}) \union {}
  PROVE  PvTasksOK'
<1>1. ASSUME NEW u, TaskOK(u) PROVE TaskOK(u)' BY <1>1 DEF TaskOK
<1> QED BY <1>1 DEF PvTasksOK

LEMMA Shows ==
  ASSUME PvTasksOK, NEW t \in pvTasks, t.at \in PvShowing
  PROVE  t.n \in Showable /\ t.item # "none" /\ t.n \in 1 .. pvEvents
BY DEF PvTasksOK, TaskOK, Showable, PvCurrent

LEMMA CacheUnchanged == IsCache(pvLru) /\ pvLru' = pvLru => IsCache(pvLru)'
BY DEF IsCache

\* the windows are as they were, and the handler is not one that is to close them, or goes on to
LEMMA WindowsStay ==
  ASSUME PvShownInv, UNCHANGED <<pvEvents, pvSel, pvWins, pvMarked, pvLate, pvCont>>,
         NEW t \in pvTasks, t.at # "mark", NEW new,
         pvTasks' = (pvTasks \ {t}) \union new,
         t.at \in {"kill", "clear", "list"} =>
           \E u \in new : u.n = t.n /\ (u.at \in {"kill", "clear", "list"} \/ (u.at = "close" /\ pvWins \subseteq u.seen)),
         t.at = "close" => t.seen = {}
  PROVE  BareOK' /\ StaleOK'
<1>1. Stale' = Stale BY DEF Stale, Showable, PvCurrent
<1>2. BareOK' BY DEF PvShownInv, BareOK
<1>3. Stale \subseteq pvWins BY DEF Stale
<1>4. StaleOK' BY <1>1, <1>3 DEF PvShownInv, StaleOK
<1> QED BY <1>2, <1>4

\* t goes on to its next await
Next1(t, at) == [n |-> t.n, at |-> at, item |-> t.item, seen |-> t.seen]

LEMMA GoesOn ==
  ASSUME PvTasksOK, NEW t \in pvTasks, NEW at, Goes(t, at),
         at \in PvKilling \/ (at \in PvShowing /\ t.item # "none")
  PROVE  pvTasks' = (pvTasks \ {t}) \union {Next1(t, at)} /\ TaskOK(Next1(t, at))
<1>1. TaskOK(t) BY DEF PvTasksOK
<1>2. [t EXCEPT !.at = at] = Next1(t, at) BY <1>1 DEF TaskOK, Next1
<1>3. TaskOK(Next1(t, at)) BY <1>1 DEF TaskOK, Next1, PvKilling, PvShowing
<1> QED BY <1>2, <1>3 DEF Goes

\* the windows and the ghost text, when a handler goes on
LEMMA PvHandlerStep ==
  ASSUME PvShownInv, NEW t \in pvTasks, PvHandler(t)
  PROVE  PvShownInv'
<1> USE DEF PvShownInv
<1>0. TaskOK(t) /\ pvEvents' = pvEvents /\ UNCHANGED pvMenu
  BY DEF PvTasksOK, PvHandler, PvKill, PvClear, PvList, PvClose, PvClosed, PvGhost, PvChoose, PvOpen, PvMark, pvMenu
<1>1. UNCHANGED <<pvSel, pvEvents, pvLru, pvAccepted, pvApplied, pvDocs>> /\ IsCache(pvLru)' /\ PvCurrent' = PvCurrent
  BY <1>0, CacheUnchanged DEF pvMenu, PvRestOK, PvCurrent
<1>2. CASE PvKill(t)
  <2>1. t.at = "kill" /\ Goes(t, "clear") /\ UNCHANGED <<pvCont, pvWins, pvMarked, pvGhost, pvLate>> /\ pvId' \in PvSome
    BY <1>2 DEF PvKill, PvRestOK, PvSome
  <2>2. pvTasks' = (pvTasks \ {t}) \union {Next1(t, "clear")} /\ TaskOK(Next1(t, "clear")) BY <2>1, GoesOn DEF PvKilling
  <2>3. PvTasksOK' BY <1>1, <2>1, <2>2, TasksStay
  <2>4. BareOK' /\ StaleOK' BY <1>1, <2>1, <2>2, WindowsStay DEF Next1
  <2>5. GhostOK' BY <1>1, <2>1, <2>2 DEF GhostOK, Showable, Next1
  <2>6. PvContOK' /\ PvRestOK' BY <1>1, <2>1 DEF PvContOK, PvRestOK, Showable
  <2> QED BY <2>3, <2>4, <2>5, <2>6
<1>3. CASE PvClear(t)
  <2>1. t.at = "clear" /\ Goes(t, "list") /\ UNCHANGED <<pvCont, pvId, pvWins, pvMarked, pvLate>> /\ pvGhost' = 0
    BY <1>3 DEF PvClear
  <2>2. pvTasks' = (pvTasks \ {t}) \union {Next1(t, "list")} /\ TaskOK(Next1(t, "list")) BY <2>1, GoesOn DEF PvKilling
  <2>3. PvTasksOK' BY <1>1, <2>1, <2>2, TasksStay
  <2>4. BareOK' /\ StaleOK' BY <1>1, <2>1, <2>2, WindowsStay DEF Next1
  <2>5. GhostOK' BY <2>1 DEF GhostOK
  <2>6. PvContOK' /\ PvRestOK' BY <1>1, <2>1 DEF PvContOK, PvRestOK, Showable
  <2> QED BY <2>3, <2>4, <2>5, <2>6
<1>4. CASE PvList(t)
  <2> DEFINE u == [n |-> t.n, at |-> "close", item |-> t.item, seen |-> pvWins]
  <2>1. t.at = "list" /\ UNCHANGED <<pvCont, pvId, pvWins, pvMarked, pvGhost, pvLate>> BY <1>4 DEF PvList
  <2>2. pvTasks' = (pvTasks \ {t}) \union {u} BY <1>4 DEF PvList, Listing
  <2>3. TaskOK(u) BY <1>0 DEF TaskOK, PvKilling, PvShowing, PvRestOK
  <2>4. u.n = t.n /\ u.at = "close" /\ pvWins \subseteq u.seen OBVIOUS
  <2> HIDE DEF u
  <2>5. PvTasksOK' BY <1>1, <2>1, <2>2, <2>3, TasksStay
  <2>6. BareOK' /\ StaleOK' BY <1>1, <2>1, <2>2, <2>4, WindowsStay
  <2>7. GhostOK' BY <1>1, <2>1, <2>2 DEF GhostOK, Showable
  <2>8. PvContOK' /\ PvRestOK' BY <1>1, <2>1 DEF PvContOK, PvRestOK, Showable
  <2> QED BY <2>5, <2>6, <2>7, <2>8
<1>5. ASSUME NEW w \in t.seen, PvClose(t, w) PROVE PvShownInv'
  <2> DEFINE u == [n |-> t.n, at |-> "close", item |-> t.item, seen |-> t.seen \ {w}]
  <2>1. t.at = "close" /\ UNCHANGED <<pvCont, pvId, pvGhost, pvLate>>
        /\ IF w \in pvMarked THEN pvWins' = pvWins \ {w} /\ pvMarked' = pvMarked \ {w} ELSE UNCHANGED <<pvWins, pvMarked>>
    BY <1>5 DEF PvClose
  <2>2. pvTasks' = (pvTasks \ {t}) \union {u}
    <3>1. [t EXCEPT !.seen = @ \ {w}] = u BY <1>0, <2>1 DEF TaskOK
    <3> QED BY <1>5, <3>1 DEF PvClose
  <2>3. TaskOK(u) BY <1>0, <2>1 DEF TaskOK, PvKilling, PvShowing
  <2>4. u.n = t.n /\ u.at = "close" /\ u.seen = t.seen \ {w} OBVIOUS
  <2> HIDE DEF u
  <2>5. PvTasksOK' BY <1>1, <2>1, <2>2, <2>3, TasksStay
  <2>6. pvWins' \subseteq pvWins /\ pvMarked' \subseteq pvMarked /\ pvWins' \ pvMarked' \subseteq pvWins \ pvMarked BY <2>1
  <2>7. BareOK' BY <2>1, <2>2, <2>6 DEF BareOK
  <2>8. Stale' \subseteq Stale \ {w} /\ Stale' \subseteq pvMarked'
    <3>1. Showable' = Showable BY <1>1, <2>1 DEF Showable
    <3>2. Stale \subseteq pvMarked BY DEF StaleOK
    <3> QED BY <2>1, <3>1, <3>2 DEF Stale
  <2>9. StaleOK'
    <3>1. CASE Stale = {} BY <2>8, <3>1 DEF StaleOK
    <3>2. ASSUME NEW v \in pvTasks, v.n = pvEvents, v.at \in {"kill", "clear", "list"} \/ (v.at = "close" /\ Stale \subseteq v.seen)
          PROVE  StaleOK'
      <4>1. CASE v = t
        <5>1. u \in pvTasks' /\ u.n = pvEvents' /\ Stale' \subseteq u.seen BY <1>1, <2>1, <2>2, <2>4, <2>8, <3>2, <4>1
        <5> QED BY <2>4, <2>8, <5>1 DEF StaleOK
      <4>2. CASE v # t
        <5>1. v \in pvTasks' /\ v.n = pvEvents' BY <1>1, <2>2, <3>2, <4>2
        <5> QED BY <2>8, <3>2, <5>1 DEF StaleOK
      <4> QED BY <4>1, <4>2
    <3> QED BY <3>1, <3>2 DEF StaleOK
  <2>10. GhostOK' BY <1>1, <2>1, <2>2 DEF GhostOK, Showable
  <2>11. PvContOK' /\ PvRestOK' BY <1>1, <2>1, <2>6 DEF PvContOK, PvRestOK, Showable
  <2> QED BY <2>5, <2>7, <2>9, <2>10, <2>11
<1>6. CASE PvClosed(t)
  <2>1. t.at = "close" /\ t.seen = {} /\ UNCHANGED <<pvCont, pvId, pvWins, pvMarked, pvGhost, pvLate>>
        /\ (End(t) \/ (t.item # "none" /\ Goes(t, "ghost")))
    BY <1>6 DEF PvClosed
  <2>2. PvContOK' /\ PvRestOK' BY <1>1, <2>1 DEF PvContOK, PvRestOK, Showable
  <2>3. CASE End(t)
    <3>1. pvTasks' = (pvTasks \ {t}) \union {} BY <2>3 DEF End
    <3>2. PvTasksOK' BY <1>1, <2>1, <3>1, TasksEnd
    <3>3. BareOK' /\ StaleOK' BY <1>1, <2>1, <3>1, WindowsStay
    <3>4. GhostOK' BY <1>1, <2>1, <3>1 DEF GhostOK, Showable
    <3> QED BY <2>2, <3>2, <3>3, <3>4
  <2>4. CASE t.item # "none" /\ Goes(t, "ghost")
    <3>1. pvTasks' = (pvTasks \ {t}) \union {Next1(t, "ghost")} /\ TaskOK(Next1(t, "ghost")) BY <2>4, GoesOn DEF PvShowing
    <3>2. PvTasksOK' BY <1>1, <2>1, <3>1, TasksStay
    <3>3. BareOK' /\ StaleOK' BY <1>1, <2>1, <3>1, WindowsStay
    <3>4. GhostOK' BY <1>1, <2>1, <3>1 DEF GhostOK, Showable
    <3> QED BY <2>2, <3>2, <3>3, <3>4
  <2> QED BY <2>1, <2>3, <2>4
<1>7. CASE PvGhost(t)
  <2>1. t.at = "ghost" /\ Goes(t, "choose") /\ UNCHANGED <<pvCont, pvId, pvWins, pvMarked, pvLate>> /\ pvGhost' \in {t.n, pvGhost}
    BY <1>7 DEF PvGhost
  <2>2. t.n \in Showable /\ t.item # "none" /\ t.n \in 1 .. pvEvents BY <2>1, Shows DEF PvShowing
  <2>3. pvTasks' = (pvTasks \ {t}) \union {Next1(t, "choose")} /\ TaskOK(Next1(t, "choose")) BY <2>1, <2>2, GoesOn DEF PvShowing
  <2>4. PvTasksOK' BY <1>1, <2>1, <2>3, TasksStay
  <2>5. BareOK' /\ StaleOK' BY <1>1, <2>1, <2>3, WindowsStay
  <2>6. GhostOK' BY <1>1, <2>1, <2>2, <2>3 DEF GhostOK, Showable
  <2>7. pvGhost' \in 0 .. pvEvents BY <2>1, <2>2 DEF PvRestOK
  <2>8. PvContOK' /\ PvRestOK' BY <1>1, <2>1, <2>7 DEF PvContOK, PvRestOK, Showable
  <2> QED BY <2>4, <2>5, <2>6, <2>8
<1>8. CASE PvChoose(t)
  <2>1. t.at = "choose" /\ pvId' = t.item /\ UNCHANGED <<pvWins, pvMarked, pvGhost>>
    BY <1>8 DEF PvChoose
  <2>2. t.n \in Showable /\ t.item # "none" /\ t.n \in 1 .. pvEvents /\ t.item \in PvSome BY <1>0, <2>1, Shows DEF PvShowing, TaskOK
  <2>3. CASE t.item \in PvLsp \union PvPaths
    <3>1. End(t) /\ pvCont' = [at |-> "start", n |-> t.n, item |-> t.item] /\ pvLate' = pvLate \union ({pvCont.n} \ {0})
      BY <1>8, <2>3 DEF PvChoose
    <3>2. pvTasks' = (pvTasks \ {t}) \union {} BY <3>1 DEF End
    <3>3. pvLate \subseteq pvLate' /\ pvLate' \subseteq 1 .. pvEvents
      <4>1. pvEvents \in Nat /\ pvCont.n \in 0 .. pvEvents /\ pvLate \subseteq 1 .. pvEvents BY DEF PvContOK, PvRestOK
      <4>2. (0 .. pvEvents) \ {0} \subseteq 1 .. pvEvents BY <4>1
      <4> QED BY <3>1, <4>1, <4>2
    <3>4. Showable \subseteq Showable' BY <1>1, <3>3 DEF Showable
    <3>5. PvTasksOK' BY <1>1, <3>2, <3>3, TasksEnd
    <3>6. PvContOK' BY <1>1, <2>2, <3>1, <3>4 DEF PvContOK, PvRestOK
    <3>7. PvRestOK' BY <1>1, <2>1, <2>2, <3>3 DEF PvRestOK
    <3>8. BareOK'
      <4>1. ASSUME NEW w \in pvWins \ pvMarked
            PROVE  w \in pvLate' \/ \E v \in pvTasks' : v.at = "mark" /\ v.n = w
        <5>1. w # 0 BY DEF PvRestOK
        <5>2. w \in pvLate \/ (pvCont.at = "mark" /\ pvCont.n = w) \/ \E v \in pvTasks : v.at = "mark" /\ v.n = w BY DEF BareOK
        <5> QED BY <2>1, <3>1, <3>2, <5>1, <5>2
      <4> QED BY <2>1, <4>1 DEF BareOK
    <3>9. Stale' \subseteq Stale BY <2>1, <3>4 DEF Stale
    <3>10. StaleOK' BY <1>1, <2>1, <3>2, <3>9 DEF StaleOK
    <3>11. GhostOK' BY <1>1, <2>1, <3>2, <3>4 DEF GhostOK
    <3> QED BY <3>5, <3>6, <3>7, <3>8, <3>10, <3>11
  <2>4. CASE t.item \notin PvLsp \union PvPaths
    <3>1. Goes(t, "open") /\ UNCHANGED <<pvCont, pvLate>> BY <1>8, <2>4 DEF PvChoose
    <3>2. pvTasks' = (pvTasks \ {t}) \union {Next1(t, "open")} /\ TaskOK(Next1(t, "open")) BY <2>2, <3>1, GoesOn DEF PvShowing
    <3>3. PvTasksOK' BY <1>1, <3>1, <3>2, TasksStay
    <3>4. BareOK' /\ StaleOK' BY <1>1, <2>1, <3>1, <3>2, WindowsStay
    <3>5. GhostOK' BY <1>1, <2>1, <3>1, <3>2 DEF GhostOK, Showable
    <3>6. PvContOK' /\ PvRestOK' BY <1>1, <2>1, <2>2, <3>1 DEF PvContOK, PvRestOK, Showable
    <3> QED BY <3>3, <3>4, <3>5, <3>6
  <2> QED BY <2>3, <2>4
<1>9. CASE PvOpen(t)
  <2>1. t.at = "open" /\ UNCHANGED <<pvCont, pvId, pvMarked, pvGhost, pvLate>>
        /\ ((Goes(t, "mark") /\ pvWins' = pvWins \union {t.n}) \/ (End(t) /\ UNCHANGED pvWins))
    BY <1>9 DEF PvOpen
  <2>2. t.n \in Showable /\ t.item # "none" /\ t.n \in 1 .. pvEvents BY <2>1, Shows DEF PvShowing
  <2>3. CASE End(t) /\ UNCHANGED pvWins
    <3>1. pvTasks' = (pvTasks \ {t}) \union {} BY <2>3 DEF End
    <3>2. PvTasksOK' BY <1>1, <2>1, <3>1, TasksEnd
    <3>3. BareOK' /\ StaleOK' BY <1>1, <2>1, <2>3, <3>1, WindowsStay
    <3>4. GhostOK' BY <1>1, <2>1, <3>1 DEF GhostOK, Showable
    <3>5. PvContOK' /\ PvRestOK' BY <1>1, <2>1, <2>3 DEF PvContOK, PvRestOK, Showable
    <3> QED BY <3>2, <3>3, <3>4, <3>5
  <2>4. CASE Goes(t, "mark") /\ pvWins' = pvWins \union {t.n}
    <3>1. pvTasks' = (pvTasks \ {t}) \union {Next1(t, "mark")} /\ TaskOK(Next1(t, "mark")) BY <2>2, <2>4, GoesOn DEF PvShowing
    <3>2. PvTasksOK' BY <1>1, <2>1, <3>1, TasksStay
    <3>3. Next1(t, "mark").at = "mark" /\ Next1(t, "mark").n = t.n /\ Next1(t, "mark") \in pvTasks' BY <3>1 DEF Next1
    <3>4. \A v \in pvTasks : v.at # "open" => v \in pvTasks' BY <2>1, <3>1
    <3>5. BareOK' BY <2>1, <2>4, <3>3, <3>4 DEF BareOK
    <3>6. Stale' = Stale BY <1>1, <2>1, <2>2, <2>4 DEF Stale, Showable
    <3>7. StaleOK' BY <1>1, <2>1, <3>4, <3>6 DEF StaleOK
    <3>8. GhostOK' BY <1>1, <2>1, <3>4 DEF GhostOK, Showable
    <3>9. PvContOK' /\ PvRestOK' BY <1>1, <2>1, <2>2, <2>4 DEF PvContOK, PvRestOK, Showable
    <3> QED BY <3>2, <3>5, <3>7, <3>8, <3>9
  <2> QED BY <2>1, <2>3, <2>4
<1>10. CASE PvMark(t)
  <2>1. t.at = "mark" /\ UNCHANGED <<pvCont, pvId, pvWins, pvGhost, pvLate>> /\ End(t) /\ pvMarked' = pvMarked \union {t.n}
    BY <1>10 DEF PvMark
  <2>2. t.n \in 1 .. pvEvents BY <2>1, Shows DEF PvShowing
  <2>3. pvTasks' = (pvTasks \ {t}) \union {} BY <2>1 DEF End
  <2>4. PvTasksOK' BY <1>1, <2>1, <2>3, TasksEnd
  <2>5. \A v \in pvTasks : v.at # "mark" \/ v.n # t.n => v \in pvTasks' BY <2>1, <2>3
  <2>6. BareOK' BY <2>1, <2>5 DEF BareOK
  <2>7. Stale' = Stale BY <1>1, <2>1 DEF Stale, Showable
  <2>8. StaleOK' BY <1>1, <2>1, <2>5, <2>7 DEF StaleOK
  <2>9. GhostOK' BY <1>1, <2>1, <2>5 DEF GhostOK, Showable
  <2>10. PvContOK' /\ PvRestOK' BY <1>1, <2>1, <2>2 DEF PvContOK, PvRestOK, Showable
  <2> QED BY <2>4, <2>6, <2>8, <2>9, <2>10
<1> QED BY <1>2, <1>3, <1>4, <1>5, <1>6, <1>7, <1>8, <1>9, <1>10 DEF PvHandler

\* storing the item that is resolved
LEMMA StoredFits ==
  ASSUME PvShownInv, NEW imports \in BOOLEAN, NEW doc \in BOOLEAN, Store(pvCont.item, imports, doc)
  PROVE  IsCache(pvLru)'
<1>1. [key |-> pvCont.item, imports |-> imports, doc |-> doc] \in Entries BY DEF PvShownInv, PvContOK, Entries
<1>2. IsCache(pvLru') BY <1>1, PutKeepsCache DEF Store, PvShownInv, PvRestOK
<1> QED BY <1>2 DEF IsCache

\* the task that resolves goes on, and may open its window or mark it
LEMMA ContStep ==
  ASSUME PvShownInv, pvCont.at # "idle", IsCache(pvLru)',
         NEW at \in {"idle", "resolve", "secondary", "open", "mark"}, Cont(at), UNCHANGED pvOther,
         \/ UNCHANGED <<pvWins, pvMarked>> /\ pvCont.at # "mark"
         \/ at = "mark" /\ pvWins' = pvWins \union {pvCont.n} /\ pvMarked' = pvMarked /\ pvCont.at # "mark"
         \/ pvCont.at = "mark" /\ pvWins' = pvWins /\ pvMarked' = pvMarked \union {pvCont.n}
  PROVE  PvShownInv'
<1> USE DEF PvShownInv
<1>1. UNCHANGED <<pvSel, pvEvents, pvTasks, pvId, pvGhost, pvAccepted, pvApplied, pvDocs, pvLate>> BY DEF pvOther
<1>2. Showable' = Showable BY <1>1 DEF Showable, PvCurrent
<1>3. pvCont.n \in Showable /\ pvCont.n \in 1 .. pvEvents BY DEF PvContOK
<1>4. pvCont' = [at |-> at, n |-> pvCont.n, item |-> pvCont.item] \/ (pvCont' = NoCont /\ at = "idle")
  BY DEF Cont, PvContOK
<1>5. PvContOK' BY <1>1, <1>2, <1>3, <1>4 DEF PvContOK, NoCont, PvSome, PvRestOK
<1>6. PvTasksOK' BY <1>1 DEF PvTasksOK, TaskOK
<1>7. PvRestOK' BY <1>1, <1>3 DEF PvRestOK
<1>8. BareOK' BY <1>1, <1>4 DEF BareOK
<1>9. Stale' = Stale /\ pvMarked \subseteq pvMarked' BY <1>2, <1>3 DEF Stale
<1>10. StaleOK' BY <1>1, <1>9 DEF StaleOK
<1>11. GhostOK' BY <1>1, <1>2 DEF GhostOK
<1> QED BY <1>5, <1>6, <1>7, <1>8, <1>10, <1>11

LEMMA PvResolveStep ==
  ASSUME PvShownInv, PvResolve
  PROVE  PvShownInv'
<1>0. pvLru' = pvLru => IsCache(pvLru)' BY CacheUnchanged DEF PvShownInv, PvRestOK
<1>1. CASE PvStart
  <2>1. PICK at \in {"idle", "resolve", "secondary", "open"} : Cont(at) BY <1>1 DEF PvStart
  <2> QED BY <1>0, <1>1, <2>1, ContStep DEF PvStart
<1>2. CASE PvAnswer
  <2>1. PICK at \in {"secondary", "open"} : Cont(at) BY <1>2 DEF PvAnswer
  <2>2. IsCache(pvLru)'
    <3>1. CASE Store(pvCont.item, pvCont.item \in PvLsp, TRUE)
      <4>1. (pvCont.item \in PvLsp) \in BOOLEAN OBVIOUS
      <4> QED BY <3>1, <4>1, StoredFits
    <3>2. CASE Store(pvCont.item, TRUE, FALSE) BY <3>2, StoredFits
    <3> QED BY <1>2, <3>1, <3>2 DEF PvAnswer
  <2> QED BY <1>2, <2>1, <2>2, ContStep DEF PvAnswer
<1>3. CASE PvTimeout BY <1>0, <1>3, ContStep DEF PvTimeout
<1>4. CASE PvSecondary
  <2>1. IsCache(pvLru)' BY <1>4, StoredFits DEF PvSecondary
  <2> QED BY <1>4, <2>1, ContStep DEF PvSecondary
<1>5. CASE PvOpenResolved
  <2>1. pvCont.at = "open" /\ UNCHANGED <<pvOther, pvLru, pvMarked>> BY <1>5 DEF PvOpenResolved
  <2>2. CASE Cont("mark") /\ pvWins' = pvWins \union {pvCont.n} BY <1>0, <2>1, <2>2, ContStep
  <2>3. CASE Cont("idle") /\ UNCHANGED pvWins BY <1>0, <2>1, <2>3, ContStep
  <2> QED BY <1>5, <2>2, <2>3 DEF PvOpenResolved
<1>6. CASE PvMarkResolved
  <2>1. pvCont.at = "mark" /\ UNCHANGED <<pvOther, pvLru, pvWins>> /\ Cont("idle") /\ pvMarked' = pvMarked \union {pvCont.n}
    BY <1>6 DEF PvMarkResolved
  <2> QED BY <1>0, <2>1, ContStep
<1> QED BY <1>1, <1>2, <1>3, <1>4, <1>5, <1>6 DEF PvResolve

LEMMA PvShownStep == PvShownInv /\ [PvNext]_pvVars => PvShownInv'
<1> SUFFICES ASSUME PvShownInv, [PvNext]_pvVars PROVE PvShownInv' OBVIOUS
<1>1. CASE UNCHANGED pvVars
  BY <1>1 DEF pvVars, PvShownInv, PvTasksOK, TaskOK, PvContOK, PvRestOK, IsCache, BareOK, StaleOK, Stale, GhostOK, Showable, PvCurrent
<1>2. ASSUME NEW x \in PvItems, PvSelect(x) PROVE PvShownInv'
  <2>1. pvAccepted' \in PvSome /\ x \in PvSome BY <1>2 DEF PvSelect, PvShownInv, PvRestOK, PvSome
  <2> QED BY <1>2, <2>1, PvEventStep DEF PvSelect
<1>3. CASE PvDone
  <2>1. pvAccepted' \in PvSome /\ "none" \in PvSome BY <1>3 DEF PvDone, PvShownInv, PvRestOK, PvSome
  <2> QED BY <1>3, <2>1, PvEventStep DEF PvDone
<1>4. ASSUME NEW t \in pvTasks, PvHandler(t) PROVE PvShownInv' BY <1>4, PvHandlerStep
<1>5. CASE PvResolve BY <1>5, PvResolveStep
<1>6. CASE PvAccept
  <2>1. pvApplied' = pvApplied \/ pvApplied'.item = pvAccepted
    <3>1. CASE UNCHANGED pvApplied BY <3>1
    <3>2. CASE pvAccepted \in Keys BY <1>6, <3>2 DEF PvAccept
    <3>3. CASE ~UNCHANGED pvApplied /\ pvAccepted \notin Keys
      <4>1. pvApplied' \in [item : {pvAccepted}, imports : {(pvAccepted \in PvLsp), FALSE}, waited : {TRUE}]
        BY <1>6, <3>3 DEF PvAccept
      <4> QED BY <4>1
    <3> QED BY <3>1, <3>2, <3>3
  <2>2. UNCHANGED <<pvSel, pvEvents, pvTasks, pvCont, pvId, pvLru, pvWins, pvMarked, pvGhost, pvDocs, pvLate>> /\ pvAccepted' = "none"
    BY <1>6 DEF PvAccept
  <2>3. PvRestOK' BY <2>1, <2>2 DEF PvShownInv, PvRestOK, PvSome, IsCache
  <2> QED BY <2>2, <2>3 DEF PvShownInv, PvTasksOK, TaskOK, PvContOK, BareOK, StaleOK, Stale, GhostOK, Showable, PvCurrent
<1> QED BY <1>1, <1>2, <1>3, <1>4, <1>5, <1>6 DEF PvNext

\* Once the handlers are done, the windows and the ghost text are for the item that is selected, or for an event
\* that another overtook, for any items and any number of events that cross (preview.py:74, :187-189).
THEOREM PreviewIsOfSelectionCorrect == PvSpec => []PreviewIsOfSelection
<1>1. PvShownInv => PreviewIsOfSelection
  BY DEF PvShownInv, PreviewIsOfSelection, PvQuiet, StaleOK, GhostOK, Stale, Showable
<1> QED BY <1>1, PvShownFirst, PvShownStep, PTL DEF PvSpec

\* The handlers, the task that resolves, the cache and what is on the screen are what they are declared to be.
THEOREM PreviewTypes == PvSpec => []PvTypeOK
<1>1. PvShownInv => PvTypeOK
  BY DEF PvShownInv, PvTasksOK, TaskOK, PvContOK, PvRestOK, IsCache, PvTypeOK
<1> QED BY <1>1, PvShownFirst, PvShownStep, PTL DEF PvSpec

-----------------------------------------------------------------------------
(* Ranking: the list is cut where there is no room, and of equal words one is shown. *)

\* the texts of the words among the first k
PlainTexts(k) == {rkRanked[j].text : j \in {j \in 1 .. k : ~rkRanked[j].snippet}}

RkShape ==
  /\ rkManual \in BOOLEAN
  /\ \E m \in Nat : rkRanked \in [1 .. m -> RkItems]
  /\ rkSeen = [at |-> rkSeen.at, texts |-> PlainTexts(rkSeen.at)]
  /\ rkSeen.at \in 0 .. Len(rkRanked)
  /\ rkMenu \in Seq(Nat) /\ \A i \in 1 .. Len(rkMenu) : rkMenu[i] <= rkSeen.at

\* of what has been looked at, that is shown which has no word of its text before it; and there was room
RkPruned ==
  \A k \in 1 .. rkSeen.at :
    /\ Shown(k) <=> rkRanked[k].text \notin PlainTexts(k - 1)
    /\ rkManual \/ Cardinality(PlainTexts(k - 1)) <= RkMax

\* of the words of a text one is shown
WordIsShown ==
  \A k \in 1 .. rkSeen.at : ~rkRanked[k].snippet =>
    \E j \in 1 .. k : Shown(j) /\ ~rkRanked[j].snippet /\ rkRanked[j].text = rkRanked[k].text

RkInv == RkShape /\ RkPruned /\ WordIsShown

LEMMA RankedIsSeq ==
  ASSUME RkShape PROVE /\ Len(rkRanked) \in Nat /\ DOMAIN rkRanked = 1 .. Len(rkRanked)
                       /\ \A k \in 1 .. Len(rkRanked) : rkRanked[k] \in RkItems
BY DEF RkShape

LEMMA ShownIsPlace ==
  ASSUME RkShape, NEW k PROVE Shown(k) <=> \E i \in 1 .. Len(rkMenu) : rkMenu[i] = k
<1>1. DOMAIN rkMenu = 1 .. Len(rkMenu) BY DEF RkShape
<1> QED BY <1>1 DEF Shown, ToSet

LEMMA WordsAre == \A k, x : x \in PlainTexts(k) <=> \E j \in 1 .. k : ~rkRanked[j].snippet /\ rkRanked[j].text = x
BY DEF PlainTexts

LEMMA NextWord ==
  ASSUME NEW n \in Nat
  PROVE  PlainTexts(n + 1) = IF rkRanked[n + 1].snippet THEN PlainTexts(n) ELSE PlainTexts(n) \union {rkRanked[n + 1].text}
<1>1. 1 .. n + 1 = (1 .. n) \union {n + 1} OBVIOUS
<1>2. CASE rkRanked[n + 1].snippet
  <2>1. \A x : x \in PlainTexts(n + 1) <=> x \in PlainTexts(n) BY <1>1, <1>2, WordsAre
  <2> QED BY <1>2, <2>1
<1>3. CASE ~rkRanked[n + 1].snippet
  <2>1. \A x : x \in PlainTexts(n + 1) <=> x \in PlainTexts(n) \/ x = rkRanked[n + 1].text BY <1>1, <1>3, WordsAre
  <2> QED BY <1>3, <2>1
<1> QED BY <1>2, <1>3

LEMMA WordsAreFinite ==
  ASSUME RkShape, NEW k \in Nat
  PROVE  IsFiniteSet(PlainTexts(k)) /\ Cardinality(PlainTexts(k)) \in Nat
<1> DEFINE S == {j \in 1 .. k : ~rkRanked[j].snippet}
           f == [j \in S |-> rkRanked[j].text]
<1>1. IsFiniteSet(1 .. k) BY FS_Interval
<1>2. IsFiniteSet(S) BY <1>1, FS_Subset
<1>3. f \in Surjection(S, PlainTexts(k)) BY WordsAre DEF Surjection
<1>4. IsFiniteSet(PlainTexts(k)) BY <1>2, <1>3, FS_Surjection
<1> QED BY <1>4, FS_CardinalityType

LEMMA RkFirst == RkInit => RkInv
<1> SUFFICES ASSUME RkInit PROVE RkInv OBVIOUS
<1> USE DEF RkInit
<1>1. \E m \in Nat : rkRanked \in [1 .. m -> RkItems] BY RkAssumption DEF BoundedSeq, SeqOf
<1>2. PlainTexts(0) = {} BY DEF PlainTexts
<1>3. rkSeen.at = 0 /\ rkMenu \in Seq(Nat) /\ Len(rkMenu) = 0 /\ 1 .. 0 = {} OBVIOUS
<1>4. Len(rkRanked) \in Nat BY <1>1
<1>5. rkSeen = [at |-> rkSeen.at, texts |-> PlainTexts(rkSeen.at)]
  <2>1. rkSeen = [at |-> 0, texts |-> {}] OBVIOUS
  <2> QED BY <1>2, <1>3, <2>1
<1>6. rkManual \in BOOLEAN /\ rkSeen.at \in 0 .. Len(rkRanked) BY <1>3, <1>4
<1>7. \A i \in 1 .. Len(rkMenu) : rkMenu[i] <= rkSeen.at BY <1>3
<1>8. RkShape BY <1>1, <1>3, <1>5, <1>6, <1>7, Zenon DEF RkShape
<1> QED BY <1>3, <1>8 DEF RkInv, RkPruned, WordIsShown

LEMMA RkStep == RkInv /\ [RkNext]_rkVars => RkInv'
<1> SUFFICES ASSUME RkInv, [RkNext]_rkVars PROVE RkInv' OBVIOUS
<1>1. CASE UNCHANGED rkVars
  <2>1. \A k : PlainTexts(k)' = PlainTexts(k) /\ Shown(k)' = Shown(k) BY <1>1 DEF rkVars, PlainTexts, Shown
  <2>2. UNCHANGED <<rkManual, rkRanked, rkSeen, rkMenu>> BY <1>1 DEF rkVars
  <2>3. RkShape' BY <2>1, <2>2 DEF RkInv, RkShape
  <2>4. RkPruned' BY <2>1, <2>2 DEF RkInv, RkPruned
  <2>5. WordIsShown' BY <2>1, <2>2 DEF RkInv, WordIsShown
  <2> QED BY <2>3, <2>4, <2>5 DEF RkInv
<1>2. CASE RkTake
  <2> DEFINE n == rkSeen.at
             item == rkRanked[n + 1]
             new == item.text \notin PlainTexts(n)
  <2>1. RkShape /\ RkPruned /\ WordIsShown BY DEF RkInv
  <2>2. n \in Nat /\ n < Len(rkRanked) /\ rkSeen.texts = PlainTexts(n) /\ UNCHANGED <<rkManual, rkRanked>>
        /\ (rkManual \/ ~(Cardinality(PlainTexts(n)) > RkMax))
    BY <1>2, <2>1 DEF RkShape, RkTake, IsFull
  <2>3. item \in RkItems /\ \A k : PlainTexts(k)' = PlainTexts(k) BY <2>1, <2>2, RankedIsSeq DEF PlainTexts
  <2>4. PlainTexts(n + 1) = IF new /\ ~item.snippet THEN PlainTexts(n) \union {item.text} ELSE PlainTexts(n)
    <3>1. PlainTexts(n + 1) = IF item.snippet THEN PlainTexts(n) ELSE PlainTexts(n) \union {item.text} BY <2>2, NextWord
    <3>2. item.text \in PlainTexts(n) => PlainTexts(n) \union {item.text} = PlainTexts(n) OBVIOUS
    <3> QED BY <3>1, <3>2
  <2>5. rkSeen' = [at |-> n + 1, texts |-> PlainTexts(n + 1)] BY <1>2, <2>2, <2>4 DEF RkTake
  <2>6. rkMenu' = IF new THEN Append(rkMenu, n + 1) ELSE rkMenu BY <1>2, <2>2 DEF RkTake
  <2> HIDE DEF n, item, new
  <2>7. rkMenu \in Seq(Nat) /\ \A i \in 1 .. Len(rkMenu) : rkMenu[i] <= n BY <2>1 DEF RkShape, n
  <2>8. /\ rkMenu' \in Seq(Nat)
        /\ \A i \in 1 .. Len(rkMenu') : rkMenu'[i] <= n + 1
        /\ \A k : (\E i \in 1 .. Len(rkMenu') : rkMenu'[i] = k)
                    <=> (\E i \in 1 .. Len(rkMenu) : rkMenu[i] = k) \/ (new /\ k = n + 1)
    <3>1. CASE ~new BY <2>2, <2>6, <2>7, <3>1
    <3>2. CASE new
      <4>1. /\ rkMenu' \in Seq(Nat) /\ Len(rkMenu') = Len(rkMenu) + 1 /\ rkMenu'[Len(rkMenu) + 1] = n + 1
            /\ \A i \in 1 .. Len(rkMenu) : rkMenu'[i] = rkMenu[i]
        BY <2>2, <2>6, <2>7, <3>2, AppendProperties
      <4>2. Len(rkMenu) \in Nat /\ 1 .. Len(rkMenu) + 1 = (1 .. Len(rkMenu)) \union {Len(rkMenu) + 1} BY <2>7
      <4>3. \A i \in 1 .. Len(rkMenu) : rkMenu[i] \in Nat BY <2>7
      <4>4. ASSUME NEW i \in 1 .. Len(rkMenu') PROVE rkMenu'[i] <= n + 1
        <5>1. n \in Nat BY <2>2
        <5>2. CASE i = Len(rkMenu) + 1
          <6>1. rkMenu'[i] = n + 1 BY <4>1, <5>2
          <6> QED BY <5>1, <6>1
        <5>3. CASE i \in 1 .. Len(rkMenu)
          <6>1. rkMenu'[i] = rkMenu[i] /\ rkMenu[i] <= n /\ rkMenu[i] \in Nat BY <2>7, <4>1, <4>3, <5>3
          <6> QED BY <5>1, <6>1
        <5> QED BY <4>1, <4>2, <5>2, <5>3
      <4>5. \A k : (\E i \in 1 .. Len(rkMenu') : rkMenu'[i] = k)
                     <=> (\E i \in 1 .. Len(rkMenu) : rkMenu[i] = k) \/ k = n + 1
        BY <4>1, <4>2
      <4> QED BY <3>2, <4>1, <4>4, <4>5
    <3> QED BY <3>1, <3>2
  <2>9. RkShape' BY <2>1, <2>2, <2>3, <2>5, <2>8 DEF RkShape
  <2>10. rkSeen'.at = n + 1 BY <2>5
  <2>11. \A k : Shown(k)' <=> Shown(k) \/ (new /\ k = n + 1)
    <3> TAKE k
    <3>1. Shown(k) <=> \E i \in 1 .. Len(rkMenu) : rkMenu[i] = k BY <2>1, ShownIsPlace
    <3>2. DOMAIN rkMenu' = 1 .. Len(rkMenu') BY <2>8
    <3>3. Shown(k)' <=> \E i \in 1 .. Len(rkMenu') : rkMenu'[i] = k BY <3>2 DEF Shown, ToSet
    <3> QED BY <2>8, <3>1, <3>3
  <2>12. ~Shown(n + 1)
    <3>1. Shown(n + 1) <=> \E i \in 1 .. Len(rkMenu) : rkMenu[i] = n + 1 BY <2>1, ShownIsPlace
    <3>2. \A i \in 1 .. Len(rkMenu) : rkMenu[i] \in Nat BY <2>7
    <3> QED BY <2>2, <2>7, <3>1, <3>2
  <2>13. new <=> item.text \notin PlainTexts(n) BY DEF new
  <2>14. RkPruned'
    <3> SUFFICES ASSUME NEW k \in 1 .. n + 1
                 PROVE  /\ Shown(k)' <=> rkRanked[k].text \notin PlainTexts(k - 1)
                        /\ rkManual \/ Cardinality(PlainTexts(k - 1)) <= RkMax
      <4>1. \A k \in 1 .. rkSeen'.at :
              /\ Shown(k)' <=> rkRanked'[k].text \notin PlainTexts(k - 1)'
              /\ rkManual' \/ Cardinality(PlainTexts(k - 1)') <= RkMax
        BY <2>2, <2>3, <2>10
      <4> QED BY <4>1 DEF RkPruned
    <3>1. CASE k \in 1 .. n BY <2>1, <2>2, <2>11, <3>1 DEF RkPruned, n
    <3>2. CASE k = n + 1
      <4>1. k - 1 = n /\ rkRanked[k] = item BY <2>2, <3>2 DEF item
      <4>2. rkManual \/ Cardinality(PlainTexts(n)) <= RkMax BY <2>1, <2>2, WordsAreFinite, RkAssumption
      <4>3. Shown(k)' <=> new BY <2>11, <2>12, <3>2
      <4> QED BY <2>13, <4>1, <4>2, <4>3
    <3> QED BY <2>2, <3>1, <3>2
  <2>15. WordIsShown'
    <3> SUFFICES ASSUME NEW k \in 1 .. n + 1, ~rkRanked[k].snippet
                 PROVE  \E j \in 1 .. k : Shown(j)' /\ ~rkRanked[j].snippet /\ rkRanked[j].text = rkRanked[k].text
      <4>1. \A k \in 1 .. rkSeen'.at : ~rkRanked'[k].snippet =>
              \E j \in 1 .. k : Shown(j)' /\ ~rkRanked'[j].snippet /\ rkRanked'[j].text = rkRanked'[k].text
        BY <2>2, <2>10
      <4> QED BY <4>1 DEF WordIsShown
    <3>1. CASE k \in 1 .. n
      <4>1. PICK j \in 1 .. k : Shown(j) /\ ~rkRanked[j].snippet /\ rkRanked[j].text = rkRanked[k].text
        BY <2>1, <3>1 DEF WordIsShown, n
      <4> QED BY <2>11, <4>1
    <3>2. CASE k = n + 1
      <4>1. CASE new BY <2>2, <2>11, <3>2, <4>1
      <4>2. CASE ~new
        <5>1. rkRanked[k] = item /\ item.text \in PlainTexts(n) BY <2>13, <3>2, <4>2 DEF item
        <5>2. PICK i \in 1 .. n : ~rkRanked[i].snippet /\ rkRanked[i].text = item.text BY <5>1, WordsAre
        <5>3. PICK j \in 1 .. i : Shown(j) /\ ~rkRanked[j].snippet /\ rkRanked[j].text = rkRanked[i].text
          BY <2>1, <5>2 DEF WordIsShown, n
        <5> QED BY <2>2, <2>11, <3>2, <5>1, <5>2, <5>3
      <4> QED BY <4>1, <4>2
    <3> QED BY <2>2, <3>1, <3>2
  <2> QED BY <2>9, <2>14, <2>15 DEF RkInv
<1> QED BY <1>1, <1>2 DEF RkNext

\* Of the words that have been looked at every text is shown.
LEMMA WordsBeforeAreShown ==
  ASSUME RkInv, NEW k \in Nat, rkSeen.at < k
  PROVE  PlainTexts(rkSeen.at) \subseteq ShownBefore(k)
<1>1. RkShape /\ WordIsShown BY DEF RkInv
<1>2. rkSeen.at \in Nat BY <1>1, RankedIsSeq DEF RkShape
<1> SUFFICES ASSUME NEW x \in PlainTexts(rkSeen.at) PROVE x \in ShownBefore(k) OBVIOUS
<1>3. PICK i \in 1 .. rkSeen.at : ~rkRanked[i].snippet /\ rkRanked[i].text = x BY WordsAre
<1>4. PICK j \in 1 .. i : Shown(j) /\ rkRanked[j].text = x BY <1>1, <1>3 DEF WordIsShown
<1>5. j \in 1 .. k - 1 BY <1>2
<1> QED BY <1>4, <1>5 DEF ShownBefore

LEMMA ShownAreFinite ==
  ASSUME NEW k \in Nat
  PROVE  IsFiniteSet(ShownBefore(k)) /\ Cardinality(ShownBefore(k)) \in Nat
<1> DEFINE S == {j \in 1 .. k - 1 : Shown(j)}
           f == [j \in S |-> rkRanked[j].text]
<1>1. IsFiniteSet(S)
  <2>1. IsFiniteSet(1 .. k - 1) BY FS_Interval
  <2> QED BY <2>1, FS_Subset
<1>2. f \in Surjection(S, ShownBefore(k)) BY DEF Surjection, ShownBefore
<1>3. IsFiniteSet(ShownBefore(k)) BY <1>1, <1>2, FS_Surjection
<1> QED BY <1>3, FS_CardinalityType

\* What is left out is hidden by a better word of its text, or comes after at least as many texts as are
\* wanted, whatever has been collected (trans.py:68).
THEOREM LeftOutForCauseCorrect == RkSpec => []LeftOutForCause
<1>1. RkInv => LeftOutForCause
  <2> SUFFICES ASSUME RkInv, IsPruned, NEW k \in DOMAIN rkRanked
               PROVE  IF Shown(k) THEN \A j \in DOMAIN rkRanked : ~Hides(j, k)
                      ELSE \/ \E j \in DOMAIN rkRanked : Hides(j, k)
                           \/ ~rkManual /\ Cardinality(ShownBefore(k)) >= RkMax
    BY DEF LeftOutForCause
  <2>1. RkShape /\ RkPruned /\ WordIsShown BY DEF RkInv
  <2>2. k \in 1 .. Len(rkRanked) /\ DOMAIN rkRanked = 1 .. Len(rkRanked) /\ Len(rkRanked) \in Nat BY <2>1, RankedIsSeq
  <2>3. k \in Nat /\ k - 1 \in Nat /\ rkSeen.at \in 0 .. Len(rkRanked) /\ rkSeen.texts = PlainTexts(rkSeen.at)
    BY <2>1, <2>2 DEF RkShape
  <2>4. CASE k <= rkSeen.at
    <3>1. k \in 1 .. rkSeen.at BY <2>2, <2>3, <2>4
    <3>2. Shown(k) <=> rkRanked[k].text \notin PlainTexts(k - 1) BY <2>1, <3>1 DEF RkPruned
    <3>3. ASSUME rkRanked[k].text \in PlainTexts(k - 1) PROVE \E j \in DOMAIN rkRanked : Hides(j, k)
      <4>1. PICK i \in 1 .. k - 1 : ~rkRanked[i].snippet /\ rkRanked[i].text = rkRanked[k].text BY <3>3, WordsAre
      <4>2. i \in 1 .. rkSeen.at BY <2>2, <2>3, <2>4
      <4>3. PICK j \in 1 .. i : Shown(j) /\ ~rkRanked[j].snippet /\ rkRanked[j].text = rkRanked[i].text
        BY <2>1, <4>1, <4>2 DEF WordIsShown
      <4>4. j < k /\ j \in 1 .. Len(rkRanked) BY <2>2, <2>3
      <4> QED BY <2>2, <4>1, <4>3, <4>4 DEF Hides
    <3>4. ASSUME NEW j \in DOMAIN rkRanked, Hides(j, k) PROVE rkRanked[k].text \in PlainTexts(k - 1)
      <4>1. j \in 1 .. k - 1 BY <2>2, <3>4 DEF Hides
      <4> QED BY <3>4, <4>1, WordsAre DEF Hides
    <3> QED BY <3>2, <3>3, <3>4
  <2>5. CASE k > rkSeen.at
    <3>1. ~Shown(k)
      <4>1. Shown(k) <=> \E i \in 1 .. Len(rkMenu) : rkMenu[i] = k BY <2>1, ShownIsPlace
      <4> QED BY <2>1, <2>2, <2>3, <2>5, <4>1 DEF RkShape
    <3>2. IsFull BY <2>2, <2>3, <2>5 DEF IsPruned
    <3>3. ~rkManual /\ Cardinality(PlainTexts(rkSeen.at)) > RkMax BY <2>3, <3>2 DEF IsFull
    <3>4. PlainTexts(rkSeen.at) \subseteq ShownBefore(k) BY <2>3, <2>5, WordsBeforeAreShown
    <3>5. IsFiniteSet(ShownBefore(k)) /\ Cardinality(ShownBefore(k)) \in Nat BY <2>3, ShownAreFinite
    <3>6. Cardinality(PlainTexts(rkSeen.at)) <= Cardinality(ShownBefore(k)) BY <3>4, <3>5, FS_Subset
    <3>7. Cardinality(PlainTexts(rkSeen.at)) \in Nat
      <4>1. rkSeen.at \in Nat BY <2>2, <2>3
      <4> QED BY <2>1, <4>1, WordsAreFinite
    <3>8. Cardinality(ShownBefore(k)) >= RkMax BY <3>3, <3>5, <3>6, <3>7, RkAssumption
    <3> QED BY <3>1, <3>3, <3>8
  <2> QED BY <2>2, <2>3, <2>4, <2>5
<1> QED BY <1>1, RkFirst, RkStep, PTL DEF RkSpec

-----------------------------------------------------------------------------
(* A fold over a finite set that picks one of what is left, step by step, is a function of its
   subsets: there is one for the subsets of up to every size, by induction over that, so there is
   one for all.  Every list that edit.py and marks.py go through with a for is one of these.      *)

\* What MapThenFoldSet is for the sets of up to every size.
FoldStep(F, base, step, pick, s) == IF s = {} THEN base ELSE step[<<F[s \ {pick[s]}], pick[s]>>]

SmallFold(F, S, A, base, step, pick, n) ==
  /\ F \in [SUBSET S -> A]
  /\ \A s \in SUBSET S : Cardinality(s) < n => F[s] = FoldStep(F, base, step, pick, s)

LEMMA FoldOneMore ==
  ASSUME NEW S, IsFiniteSet(S), NEW A, NEW base \in A, NEW step \in [A \X S -> A], NEW pick,
         \A s \in SUBSET S : s # {} => pick[s] \in s,
         NEW n \in Nat, NEW F, SmallFold(F, S, A, base, step, pick, n)
  PROVE  \E G : SmallFold(G, S, A, base, step, pick, n + 1)
<1> DEFINE P == SUBSET S
           G0 == [s \in P |-> FoldStep(F, base, step, pick, s)]
<1>1. F \in [P -> A] /\ \A s \in P : Cardinality(s) < n => F[s] = FoldStep(F, base, step, pick, s) BY DEF SmallFold
<1>2. \A s \in P : /\ Cardinality(s) \in Nat
                   /\ \A c \in s : s \ {c} \in P /\ Cardinality(s \ {c}) + 1 = Cardinality(s) /\ Cardinality(s \ {c}) \in Nat
  BY SubsetsAreFinite
<1>3. \A s \in P : FoldStep(F, base, step, pick, s) \in A
  <2> SUFFICES ASSUME NEW s \in P PROVE FoldStep(F, base, step, pick, s) \in A OBVIOUS
  <2>1. CASE s = {} BY <2>1 DEF FoldStep
  <2>2. CASE s # {}
    <3>1. pick[s] \in s /\ pick[s] \in S BY <2>2
    <3>2. s \ {pick[s]} \in P BY <1>2, <3>1
    <3>3. F[s \ {pick[s]}] \in A BY <1>1, <3>2
    <3>4. <<F[s \ {pick[s]}], pick[s]>> \in A \X S BY <3>1, <3>3
    <3>5. step[<<F[s \ {pick[s]}], pick[s]>>] \in A BY <3>4
    <3> QED BY <2>2, <3>5, Zenon DEF FoldStep
  <2> QED BY <2>1, <2>2
<1>4. PICK G : G \in [P -> A] /\ \A s \in P : G[s] = FoldStep(F, base, step, pick, s)
  <2>1. G0 \in [P -> A] /\ \A s \in P : G0[s] = FoldStep(F, base, step, pick, s) BY <1>3
  <2> HIDE DEF G0
  <2> QED BY <2>1
<1>5. ASSUME NEW s \in P, Cardinality(s) < n + 1 PROVE G[s] = FoldStep(G, base, step, pick, s)
  <2>1. CASE s = {} BY <1>4, <2>1 DEF FoldStep
  <2>2. CASE s # {}
    <3>1. pick[s] \in s BY <2>2
    <3>2. s \ {pick[s]} \in P /\ Cardinality(s \ {pick[s]}) < n BY <1>2, <1>5, <3>1
    <3>3. F[s \ {pick[s]}] = G[s \ {pick[s]}] BY <1>1, <1>4, <3>2
    <3>4. FoldStep(F, base, step, pick, s) = FoldStep(G, base, step, pick, s) BY <3>3, Zenon DEF FoldStep
    <3> QED BY <1>4, <3>4
  <2> QED BY <2>1, <2>2
<1> QED BY <1>4, <1>5 DEF SmallFold

IsFold(S, A, base, step, pick) ==
  /\ IsFiniteSet(S) /\ base \in A /\ step \in [A \X S -> A]
  /\ \A s \in SUBSET S : s # {} => pick[s] \in s

HasFold(S, A, base, step, pick) ==
  \E F \in [SUBSET S -> A] : \A s \in SUBSET S : F[s] = FoldStep(F, base, step, pick, s)

LEMMA FoldsExist ==
  ASSUME NEW S, NEW A, NEW base, NEW step, NEW pick, IsFold(S, A, base, step, pick)
  PROVE  HasFold(S, A, base, step, pick)
<1> USE DEF IsFold, HasFold
<1> DEFINE P == SUBSET S
           H == {n \in Nat : \E F : SmallFold(F, S, A, base, step, pick, n)}
<1>1. \A s \in P : Cardinality(s) \in Nat /\ ~(Cardinality(s) < 0) BY SubsetsAreFinite
<1>2. 0 \in H
  <2> DEFINE F0 == [s \in P |-> base]
  <2>1. F0 \in [P -> A] OBVIOUS
  <2> HIDE DEF F0
  <2>2. SmallFold(F0, S, A, base, step, pick, 0) BY <1>1, <2>1 DEF SmallFold
  <2> QED BY <2>2
<1>3. ASSUME NEW n \in H PROVE n + 1 \in H
  <2>1. n \in Nat /\ n + 1 \in Nat /\ \E F : SmallFold(F, S, A, base, step, pick, n) OBVIOUS
  <2>2. \E F : SmallFold(F, S, A, base, step, pick, n + 1) BY <2>1, FoldOneMore
  <2> QED BY <2>1, <2>2
<1>4. H = Nat
  <2>1. H \in SUBSET Nat OBVIOUS
  <2> HIDE DEF H
  <2> QED BY <1>2, <1>3, <2>1, SetInduction
<1>5. Cardinality(S) \in Nat BY FS_CardinalityType
<1>6. Cardinality(S) + 1 \in H BY <1>4, <1>5
<1>7. PICK F : SmallFold(F, S, A, base, step, pick, Cardinality(S) + 1) BY <1>6
<1>8. F \in [P -> A] BY <1>7 DEF SmallFold
<1>9. ASSUME NEW s \in P PROVE F[s] = FoldStep(F, base, step, pick, s)
  <2>1. Cardinality(s) <= Cardinality(S) BY FS_Subset
  <2>2. Cardinality(s) < Cardinality(S) + 1 BY <1>1, <1>5, <2>1
  <2> QED BY <1>7, <2>2 DEF SmallFold
<1> QED BY <1>8, <1>9

-----------------------------------------------------------------------------
(* The instructions of one edit of an item (edit.py _instructions, _consolidate): in order, each of
   them is compared with those that are taken already.                                            *)

Positions == Int \X Int

LEMMA PositionsAreOrdered ==
  /\ \A p \in Positions : ~Before(p, p)
  /\ \A p, q \in Positions : Before(p, q) => ~Before(q, p)
  /\ \A p, q \in Positions : ~Before(p, q) /\ ~Before(q, p) => p = q
  /\ \A p, q, r \in Positions : ~Before(p, q) /\ ~Before(q, r) => ~Before(p, r)
BY DEF Positions, Before

\* an instruction ends where it begins or after that; and there is nothing before the buffer
IsInst(a) ==
  /\ a.begin \in Positions /\ a.end \in Positions /\ ~Before(a.end, a.begin)
  /\ a.primary \in BOOLEAN
  /\ a.primary \/ ~Before(a.begin, <<1, 0>>)

AreInsts(insts) == insts \in Seq(ToSet(insts)) /\ \A i \in DOMAIN insts : IsInst(insts[i])

LEMMA InstsAreOrdered ==
  ASSUME NEW a, NEW b, NEW c, IsInst(a), IsInst(b), IsInst(c)
  PROVE  /\ ~Earlier(a, a)
         /\ Earlier(a, b) => ~Earlier(b, a)
         /\ ~Earlier(a, b) /\ ~Earlier(b, c) => ~Earlier(a, c)
<1>1. \A x \in {a, b, c} : x.begin \in Positions /\ x.end \in Positions BY DEF IsInst
<1> QED BY <1>1, PositionsAreOrdered DEF Earlier

\* which are ahead of which is a total order
LEMMA AheadIsOrder ==
  ASSUME NEW insts, AreInsts(insts), NEW i \in DOMAIN insts, NEW j \in DOMAIN insts, NEW k \in DOMAIN insts
  PROVE  /\ i \notin Ahead(insts, i)
         /\ i \in Ahead(insts, j) /\ j \in Ahead(insts, k) => i \in Ahead(insts, k)
         /\ i # j => i \in Ahead(insts, j) \/ j \in Ahead(insts, i)
<1>1. IsInst(insts[i]) /\ IsInst(insts[j]) /\ IsInst(insts[k]) BY DEF AreInsts
<1>2. i \in Int /\ j \in Int /\ k \in Int
  <2>1. insts \in Seq(ToSet(insts)) BY DEF AreInsts
  <2> QED BY <2>1
<1>3. ~Earlier(insts[i], insts[i]) BY <1>1, InstsAreOrdered
<1>4. Earlier(insts[i], insts[j]) => ~Earlier(insts[j], insts[i]) BY <1>1, InstsAreOrdered
<1>4a. Earlier(insts[j], insts[k]) => ~Earlier(insts[k], insts[j]) BY <1>1, InstsAreOrdered
<1>5. ~Earlier(insts[i], insts[k]) /\ ~Earlier(insts[k], insts[j]) => ~Earlier(insts[i], insts[j]) BY <1>1, InstsAreOrdered
<1>6. ~Earlier(insts[j], insts[i]) /\ ~Earlier(insts[i], insts[k]) => ~Earlier(insts[j], insts[k]) BY <1>1, InstsAreOrdered
<1>7. ~Earlier(insts[k], insts[j]) /\ ~Earlier(insts[j], insts[i]) => ~Earlier(insts[k], insts[i]) BY <1>1, InstsAreOrdered
<1>8. i \notin Ahead(insts, i) BY <1>2, <1>3 DEF Ahead
<1>9. i # j => i \in Ahead(insts, j) \/ j \in Ahead(insts, i) BY <1>2, <1>4 DEF Ahead
<1>10. ASSUME i \in Ahead(insts, j), j \in Ahead(insts, k) PROVE i \in Ahead(insts, k)
  BY <1>2, <1>4, <1>4a, <1>5, <1>6, <1>7, <1>10 DEF Ahead
<1> QED BY <1>8, <1>9, <1>10

LEMMA UptoIsFinite ==
  ASSUME NEW n \in Nat
  PROVE  /\ IsFiniteSet(1 .. n) /\ Cardinality(1 .. n) = n
         /\ IsFiniteSet(0 .. n - 1) /\ Cardinality(0 .. n - 1) = n
<1>1. n \in Int /\ n - 1 \in Int OBVIOUS
<1>2. IsFiniteSet(1 .. n) /\ Cardinality(1 .. n) = IF 1 > n THEN 0 ELSE n - 1 + 1 BY <1>1, FS_Interval
<1>3. IsFiniteSet(0 .. n - 1) /\ Cardinality(0 .. n - 1) = IF 0 > n - 1 THEN 0 ELSE n - 1 - 0 + 1 BY <1>1, FS_Interval
<1> QED BY <1>2, <1>3

\* so that as many are ahead of one as its place says
LEMMA PlacesAreTaken ==
  ASSUME NEW insts, AreInsts(insts)
  PROVE  /\ \A k \in DOMAIN insts : Cardinality(Ahead(insts, k)) \in Nat
         /\ \A j, k \in DOMAIN insts : j \in Ahead(insts, k) => Cardinality(Ahead(insts, j)) < Cardinality(Ahead(insts, k))
         /\ \A m \in DOMAIN insts : \E k \in DOMAIN insts : Cardinality(Ahead(insts, k)) = m - 1
<1> DEFINE D == DOMAIN insts
           n == Len(insts)
           A(k) == Ahead(insts, k)
<1>1. D = 1 .. n /\ n \in Nat
  <2>1. insts \in Seq(ToSet(insts)) BY DEF AreInsts
  <2> QED BY <2>1
<1>2. IsFiniteSet(D) /\ Cardinality(D) = n
  <2>1. IsFiniteSet(1 .. n) /\ Cardinality(1 .. n) = n BY <1>1, UptoIsFinite
  <2> QED BY <1>1, <2>1, Zenon
<1>3. \A k \in D : A(k) \in SUBSET D BY DEF Ahead
<1>4. \A k \in D : IsFiniteSet(A(k)) /\ Cardinality(A(k)) \in Nat
  BY <1>2, <1>3, FS_Subset, FS_CardinalityType
<1>5. ASSUME NEW j \in D, NEW k \in D, j \in A(k) PROVE Cardinality(A(j)) < Cardinality(A(k))
  <2>1. A(j) \in SUBSET A(k) BY <1>3, <1>5, AheadIsOrder
  <2>2. j \notin A(j) BY AheadIsOrder
  <2>3. Cardinality(A(j)) <= Cardinality(A(k)) /\ Cardinality(A(j)) # Cardinality(A(k)) BY <1>4, <1>5, <2>1, <2>2, FS_Subset
  <2> QED BY <1>4, <2>3
<1>6. ASSUME NEW k \in D PROVE Cardinality(A(k)) \in 0 .. n - 1
  <2>1. k \notin A(k) BY AheadIsOrder
  <2>2. Cardinality(A(k)) <= n /\ Cardinality(A(k)) # n BY <1>2, <1>3, <2>1, FS_Subset
  <2> QED BY <1>1, <1>4, <2>2
<1> DEFINE R == [k \in D |-> Cardinality(A(k))]
<1>7. R \in [D -> 0 .. n - 1] BY <1>6
<1>8. R \in Injection(D, 0 .. n - 1)
  <2>1. ASSUME NEW j \in D, NEW k \in D, j # k PROVE R[j] # R[k]
    <3>1. j \in A(k) \/ k \in A(j) BY <2>1, AheadIsOrder
    <3>2. Cardinality(A(j)) # Cardinality(A(k)) BY <1>4, <1>5, <3>1
    <3> QED BY <3>2
  <2> HIDE DEF R
  <2> QED BY <1>7, <2>1 DEF Injection, IsInjective
<1>9. IsFiniteSet(0 .. n - 1) /\ Cardinality(0 .. n - 1) = n BY <1>1, UptoIsFinite
<1>10. \A m \in D : \E k \in D : Cardinality(A(k)) = m - 1
  <2> HIDE DEF R
  <2>1. R \in Surjection(D, 0 .. n - 1) BY <1>2, <1>8, <1>9, FS_Injection
  <2>2. \A t \in 0 .. n - 1 : \E k \in D : R[k] = t BY <2>1 DEF Surjection
  <2> USE DEF R
  <2>3. \A t \in 0 .. n - 1 : \E k \in D : Cardinality(A(k)) = t BY <2>2
  <2>4. \A m \in D : m - 1 \in 0 .. n - 1 BY <1>1
  <2> QED BY <2>3, <2>4
<1> QED BY <1>4, <1>5, <1>10

\* where the one comes from that is put at a place
From1(insts, m) == CHOOSE k \in DOMAIN insts : Cardinality(Ahead(insts, k)) = m - 1

LEMMA InOrderSorts ==
  ASSUME NEW insts, AreInsts(insts)
  PROVE  /\ DOMAIN InOrder(insts) = DOMAIN insts
         /\ \A m \in DOMAIN insts : From1(insts, m) \in DOMAIN insts /\ InOrder(insts)[m] = insts[From1(insts, m)]
         /\ \A k \in DOMAIN insts : \E m \in DOMAIN insts : From1(insts, m) = k
         /\ \A l, m \in DOMAIN insts : l # m => From1(insts, l) # From1(insts, m)
         /\ \A l, m \in DOMAIN insts : l < m => ~Earlier(InOrder(insts)[m], InOrder(insts)[l])
<1> DEFINE D == DOMAIN insts
           A(k) == Ahead(insts, k)
           f(m) == From1(insts, m)
<1>1. D = 1 .. Len(insts) /\ Len(insts) \in Nat
  <2>1. insts \in Seq(ToSet(insts)) BY DEF AreInsts
  <2> QED BY <2>1
<1>2. \A m \in D : f(m) \in D /\ Cardinality(A(f(m))) = m - 1 BY PlacesAreTaken DEF From1
<1>3. InOrder(insts) = [m \in D |-> insts[f(m)]] BY DEF InOrder, From1
<1>4. \A l, m \in D : l # m => f(l) # f(m) BY <1>1, <1>2
<1>5. ASSUME NEW k \in D PROVE \E m \in D : f(m) = k
  <2> DEFINE F == [m \in D |-> f(m)]
  <2>1. F \in [D -> D] BY <1>2
  <2>2. \A l, m \in D : l # m => F[l] # F[m] BY <1>4
  <2>3. \A m \in D : F[m] = f(m) OBVIOUS
  <2> HIDE DEF F
  <2>4. F \in Injection(D, D) BY <2>1, <2>2 DEF Injection, IsInjective
  <2>5. IsFiniteSet(D) BY <1>1, FS_Interval
  <2>6. F \in Surjection(D, D) BY <2>4, <2>5, FS_Injection
  <2> QED BY <2>3, <2>6 DEF Surjection
<1>6. ASSUME NEW l \in D, NEW m \in D, l < m PROVE ~Earlier(InOrder(insts)[m], InOrder(insts)[l])
  <2>1. ~(Cardinality(A(f(m))) < Cardinality(A(f(l)))) BY <1>1, <1>2, <1>6
  <2>2. f(m) \notin A(f(l)) BY <1>2, <2>1, PlacesAreTaken
  <2>3. ~Earlier(insts[f(m)], insts[f(l)]) BY <1>2, <2>2 DEF Ahead
  <2>4. InOrder(insts)[m] = insts[f(m)] /\ InOrder(insts)[l] = insts[f(l)] BY <1>3
  <2> QED BY <2>3, <2>4
<1> QED BY <1>2, <1>3, <1>4, <1>5, <1>6

\* one step of _consolidate, and all of them
TakeOf(acc, inst) ==
  IF ~Before(inst.begin, acc.pivot) THEN [stack |-> Append(acc.stack, inst), pivot |-> inst.end]
  ELSE IF inst.primary
  THEN [stack |-> Append(SubSeq(acc.stack, 1, LastBefore(acc.stack, inst)), inst), pivot |-> inst.end]
  ELSE acc

NoneTaken == [stack |-> <<>>, pivot |-> <<1, 0>>]

TakeStep(T, seq, s) == IF s = {} THEN NoneTaken ELSE LET n == Max(s) IN TakeOf(T[s \ {n}], seq[n])
Taken(seq) == LET iter[s \in SUBSET DOMAIN seq] == TakeStep(iter, seq, s) IN iter

LEMMA ConsolidateIsTaken ==
  ASSUME NEW insts
  PROVE  Consolidate(insts) = Taken(InOrder(insts))[DOMAIN InOrder(insts)].stack
BY Zenon DEF Consolidate, FoldLeft, MapThenFoldSet, Taken, TakeStep, TakeOf, NoneTaken

Accs(I) == [stack : Seq(I), pivot : {i.end : i \in I} \union {<<1, 0>>}]

LEMMA LastBeforeIs ==
  ASSUME NEW I, NEW stack \in Seq(I), NEW inst
  PROVE  /\ LastBefore(stack, inst) \in 0 .. Len(stack)
         /\ LastBefore(stack, inst) # 0 => ~Before(inst.begin, stack[LastBefore(stack, inst)].end)
         /\ \A i \in DOMAIN stack : i > LastBefore(stack, inst) => Before(inst.begin, stack[i].end)
<1> DEFINE X == {0} \union {i \in DOMAIN stack : ~Before(inst.begin, stack[i].end)}
           Y == {Len(stack) - i : i \in X}
<1>1. DOMAIN stack = 1 .. Len(stack) /\ Len(stack) \in Nat OBVIOUS
<1>2. X \in SUBSET (0 .. Len(stack)) /\ 0 \in X BY <1>1
<1>3. Y \in SUBSET Nat /\ Y # {}
  <2> HIDE DEF X
  <2>1. \A i \in X : Len(stack) - i \in Nat BY <1>1, <1>2
  <2> QED BY <1>2, <2>1
<1>4. PICK y \in Y : \A z \in Y : y <= z
  <2> HIDE DEF Y
  <2> QED BY <1>3, LeastNatural
<1>5. PICK x \in X : y = Len(stack) - x OBVIOUS
<1>6. \A z \in X : x >= z
  <2> SUFFICES ASSUME NEW z \in X PROVE x >= z OBVIOUS
  <2>1. Len(stack) - z \in Y OBVIOUS
  <2>2. Len(stack) - x <= Len(stack) - z BY <1>4, <1>5, <2>1
  <2> HIDE DEF X
  <2>3. x \in Nat /\ z \in Nat BY <1>2
  <2> QED BY <1>1, <2>2, <2>3
<1>7. Max(X) \in X /\ \A z \in X : Max(X) >= z
  <2> HIDE DEF X
  <2> QED BY <1>6 DEF Max
<1>8. LastBefore(stack, inst) = Max(X) BY DEF LastBefore
<1> DEFINE m == Max(X)
<1> HIDE DEF m
<1>9. m \in X /\ \A z \in X : m >= z BY <1>7 DEF m
<1>10. LastBefore(stack, inst) = m BY <1>8 DEF m
<1>11. m \in 0 .. Len(stack) BY <1>2, <1>9
<1>12. m # 0 => ~Before(inst.begin, stack[m].end) BY <1>9
<1>13. \A i \in DOMAIN stack : i > m => Before(inst.begin, stack[i].end)
  <2> SUFFICES ASSUME NEW i \in DOMAIN stack, i > m, ~Before(inst.begin, stack[i].end) PROVE FALSE OBVIOUS
  <2>1. i \in X OBVIOUS
  <2>2. m >= i BY <1>9, <2>1
  <2> QED BY <1>1, <1>11, <2>2
<1> QED BY <1>10, <1>11, <1>12, <1>13

LEMMA TakeIsAcc ==
  ASSUME NEW I, NEW acc \in Accs(I), NEW inst \in I
  PROVE  TakeOf(acc, inst) \in Accs(I)
<1>1. acc.stack \in Seq(I) /\ acc.pivot \in {i.end : i \in I} \union {<<1, 0>>} /\ acc \in Accs(I) BY DEF Accs
<1>2. PICK m \in 0 .. Len(acc.stack) : m = LastBefore(acc.stack, inst) BY <1>1, LastBeforeIs
<1>3. SubSeq(acc.stack, 1, m) \in Seq(I) BY <1>1
<1>4. Append(acc.stack, inst) \in Seq(I) /\ Append(SubSeq(acc.stack, 1, m), inst) \in Seq(I) BY <1>1, <1>3
<1>5. inst.end \in {i.end : i \in I} \union {<<1, 0>>} OBVIOUS
<1>6. [stack |-> Append(acc.stack, inst), pivot |-> inst.end] \in Accs(I) BY <1>4, <1>5 DEF Accs
<1>7. [stack |-> Append(SubSeq(acc.stack, 1, m), inst), pivot |-> inst.end] \in Accs(I) BY <1>4, <1>5 DEF Accs
<1> QED BY <1>1, <1>2, <1>6, <1>7, Zenon DEF TakeOf

LEMMA GreatestIs ==
  ASSUME NEW n \in Nat, NEW s \in SUBSET (1 .. n), s # {}
  PROVE  Max(s) \in s /\ \A x \in s : Max(s) >= x
<1> DEFINE Y == {n - i : i \in s}
<1>1. Y \in SUBSET Nat /\ Y # {}
  <2>1. \A i \in s : n - i \in Nat OBVIOUS
  <2> QED BY <2>1
<1>2. PICK y \in Y : \A z \in Y : y <= z
  <2> HIDE DEF Y
  <2> QED BY <1>1, LeastNatural
<1>3. PICK x \in s : y = n - x OBVIOUS
<1>4. \A z \in s : n - z \in Y OBVIOUS
<1>5. \A z \in s : x >= z BY <1>2, <1>3, <1>4
<1> QED BY <1>5 DEF Max

\* the steps are those of the instructions one after the other
LEMMA TakenAre ==
  ASSUME NEW I, NEW seq \in Seq(I)
  PROVE  /\ Taken(seq)[{}] = NoneTaken
         /\ \A n \in 1 .. Len(seq) : Taken(seq)[1 .. n] = TakeOf(Taken(seq)[1 .. n - 1], seq[n])
<1> DEFINE S == DOMAIN seq
           A == Accs(I)
           step == [q \in A \X S |-> TakeOf(q[1], seq[q[2]])]
           pick == [s \in SUBSET S |-> Max(s)]
<1>1. S = 1 .. Len(seq) /\ Len(seq) \in Nat OBVIOUS
<1>2. IsFiniteSet(S) BY <1>1, UptoIsFinite
<1>3. NoneTaken \in A BY DEF NoneTaken, Accs
<1>4. step \in [A \X S -> A]
  <2>1. \A q \in A \X S : q[1] \in A /\ seq[q[2]] \in I BY <1>1, ElementOfSeq
  <2>2. \A q \in A \X S : TakeOf(q[1], seq[q[2]]) \in A BY <2>1, TakeIsAcc
  <2> QED BY <2>2
<1>5. \A s \in SUBSET S : s # {} => pick[s] \in s /\ pick[s] = Max(s) BY <1>1, GreatestIs
<1>6. \A a \in A, x \in S : step[<<a, x>>] = TakeOf(a, seq[x]) OBVIOUS
<1> HIDE DEF step, pick
<1>6a. \A s \in SUBSET S : s # {} => pick[s] \in s BY <1>5
<1>7. PICK F \in [SUBSET S -> A] : \A s \in SUBSET S : F[s] = FoldStep(F, NoneTaken, step, pick, s)
  <2>1. IsFold(S, A, NoneTaken, step, pick) BY <1>2, <1>3, <1>4, <1>6a DEF IsFold
  <2>2. HasFold(S, A, NoneTaken, step, pick) BY <2>1, FoldsExist, Zenon
  <2> HIDE DEF A, S
  <2> QED BY <2>2, Zenon DEF HasFold
<1>8. ASSUME NEW s \in SUBSET S PROVE F[s] = TakeStep(F, seq, s)
  <2>1. CASE s = {} BY <1>7, <2>1 DEF FoldStep, TakeStep
  <2>2. CASE s # {}
    <3>1. Max(s) \in S /\ s \ {Max(s)} \in SUBSET S /\ pick[s] = Max(s) BY <1>5, <2>2
    <3>2. F[s \ {Max(s)}] \in A BY <3>1
    <3>3. step[<<F[s \ {Max(s)}], Max(s)>>] = TakeOf(F[s \ {Max(s)}], seq[Max(s)]) BY <1>6, <3>1, <3>2
    <3>4. F[s] = step[<<F[s \ {Max(s)}], Max(s)>>] BY <1>7, <2>2, <3>1, Zenon DEF FoldStep
    <3> QED BY <2>2, <3>3, <3>4, Zenon DEF TakeStep
  <2> QED BY <2>1, <2>2
<1>9. F = [s \in SUBSET S |-> TakeStep(F, seq, s)]
  <2>1. F = [s \in SUBSET S |-> F[s]] OBVIOUS
  <2>2. [s \in SUBSET S |-> F[s]] = [s \in SUBSET S |-> TakeStep(F, seq, s)] BY <1>8
  <2> QED BY <2>1, <2>2
<1> DEFINE T == Taken(seq)
<1>10. T = [s \in SUBSET S |-> TakeStep(T, seq, s)] BY <1>9, Zenon DEF Taken
<1> HIDE DEF T
<1>11. \A s \in SUBSET S : T[s] = TakeStep(T, seq, s) BY <1>10
<1>12. T[{}] = NoneTaken BY <1>11 DEF TakeStep
<1>13. ASSUME NEW n \in 1 .. Len(seq) PROVE T[1 .. n] = TakeOf(T[1 .. n - 1], seq[n])
  <2> DEFINE s == 1 .. n
  <2>1. s \in SUBSET S /\ s # {} /\ n \in Nat
    <3>1. 1 .. n \in SUBSET (1 .. Len(seq)) /\ n \in 1 .. n /\ n \in Nat BY <1>1
    <3> QED BY <1>1, <3>1, Zenon
  <2>2. Max(s) \in s /\ \A x \in s : Max(s) >= x BY <2>1, GreatestIs
  <2>3. Max(s) = n BY <2>1, <2>2
  <2>4. s \ {n} = 1 .. n - 1 BY <2>1
  <2>5. T[s] = TakeOf(T[s \ {Max(s)}], seq[Max(s)]) BY <1>11, <2>1, Zenon DEF TakeStep
  <2> QED BY <2>3, <2>4, <2>5
<1> QED BY <1>12, <1>13 DEF T

\* the instructions as _consolidate goes through them
AreSorted(seq) ==
  /\ AreInsts(seq)
  /\ \A l, m \in DOMAIN seq : l < m => ~Earlier(seq[m], seq[l])
  /\ \A l, m \in DOMAIN seq : seq[l].primary /\ seq[m].primary => l = m

IsDisjoint(stack) == \A i, j \in DOMAIN stack : i < j => ~Before(stack[j].begin, stack[i].end)

\* one that is left out, of those up to the n-th, overlaps one that is not, or one that the primary one puts out
IsAccounted(seq, n, i, kept) ==
  \E m \in 1 .. n :
    /\ Overlap(seq[i], seq[m])
    /\ seq[m] \in kept \/ \E l \in 1 .. n : seq[l].primary /\ seq[l] \in kept /\ Overlap(seq[m], seq[l])

TakenOK(seq, n, acc) ==
  /\ acc.stack \in Seq({seq[i] : i \in 1 .. n})
  /\ IsDisjoint(acc.stack)
  /\ \A i \in DOMAIN acc.stack : ~Before(acc.pivot, acc.stack[i].end)
  /\ acc.pivot = <<1, 0>> \/ \E i \in DOMAIN acc.stack : acc.stack[i].end = acc.pivot
  /\ \A i \in 1 .. n : seq[i].primary => seq[i] \in ToSet(acc.stack)
  /\ \A i \in 1 .. n : seq[i] \in ToSet(acc.stack) \/ IsAccounted(seq, n, i, ToSet(acc.stack))

\* one that begins before an earlier one ends overlaps it
LEMMA LateOverlaps ==
  ASSUME NEW a, NEW b, IsInst(a), IsInst(b), ~Earlier(b, a), Before(b.begin, a.end)
  PROVE  Overlap(a, b) /\ Overlap(b, a)
<1>1. a.begin \in Positions /\ a.end \in Positions /\ b.begin \in Positions /\ b.end \in Positions
      /\ ~Before(a.end, a.begin) /\ ~Before(b.end, b.begin) BY DEF IsInst
<1>2. ~Before(b.begin, a.begin) /\ (b.begin = a.begin => ~Before(b.end, a.end)) BY DEF Earlier
<1>3. Before(a.begin, b.end) BY <1>1, <1>2 DEF Positions, Before
<1> QED BY <1>3 DEF Overlap

\* what is left of a stack, and one more on it that begins after all of that
IsPush(I, stack, p, m) ==
  /\ \A i \in I : IsInst(i)
  /\ stack \in Seq(I) /\ IsDisjoint(stack) /\ IsInst(p) /\ m \in 0 .. Len(stack)
  /\ \A i \in 1 .. m : ~Before(p.begin, stack[i].end)

IsPushed(new, stack, p, m) ==
  /\ DOMAIN new = 1 .. m + 1 /\ new[m + 1] = p /\ \A i \in 1 .. m : new[i] = stack[i]
  /\ ToSet(new) = {stack[i] : i \in 1 .. m} \union {p}
  /\ IsDisjoint(new)
  /\ \A i \in DOMAIN new : ~Before(p.end, new[i].end)

LEMMA PushedIs ==
  ASSUME NEW I, NEW stack, NEW p, NEW m, IsPush(I, stack, p, m), NEW new, new = Append(SubSeq(stack, 1, m), p)
  PROVE  IsPushed(new, stack, p, m)
<1> USE DEF IsPush
<1>1. DOMAIN new = 1 .. m + 1 /\ new[m + 1] = p /\ \A i \in 1 .. m : new[i] = stack[i] /\ i \in DOMAIN stack
  <2>1. SubSeq(stack, 1, m) \in Seq(I) /\ Len(SubSeq(stack, 1, m)) = m /\ \A i \in 1 .. m : SubSeq(stack, 1, m)[i] = stack[i] OBVIOUS
  <2> QED BY <2>1
<1>2. \A i \in 1 .. m : IsInst(stack[i]) BY <1>1, ElementOfSeq
<1>3. \A i \in 1 .. m : stack[i].end \in Positions /\ ~Before(p.end, stack[i].end)
  <2> SUFFICES ASSUME NEW i \in 1 .. m PROVE stack[i].end \in Positions /\ ~Before(p.end, stack[i].end) OBVIOUS
  <2>1. stack[i].end \in Positions /\ p.begin \in Positions /\ p.end \in Positions /\ ~Before(p.end, p.begin) BY <1>2 DEF IsInst
  <2> QED BY <2>1, PositionsAreOrdered
<1>4. ~Before(p.end, p.end) BY PositionsAreOrdered DEF IsInst
<1>5. \A i \in DOMAIN new : ~Before(p.end, new[i].end) BY <1>1, <1>3, <1>4
<1>6. ASSUME NEW i \in DOMAIN new, NEW j \in DOMAIN new, i < j PROVE ~Before(new[j].begin, new[i].end)
  <2>1. i \in 1 .. m /\ (j \in 1 .. m \/ j = m + 1) BY <1>1, <1>6
  <2>2. CASE j \in 1 .. m BY <1>1, <1>6, <2>1, <2>2 DEF IsDisjoint
  <2>3. CASE j = m + 1 BY <1>1, <2>1, <2>3
  <2> QED BY <2>1, <2>2, <2>3
<1>7. ToSet(new) = {new[i] : i \in DOMAIN new} BY DEF ToSet
<1>8. \A i \in DOMAIN new : i \in 1 .. m \/ i = m + 1 BY <1>1
<1>9. m + 1 \in DOMAIN new /\ \A i \in 1 .. m : i \in DOMAIN new BY <1>1
<1>10. ToSet(new) = {stack[i] : i \in 1 .. m} \union {p} BY <1>1, <1>7, <1>8, <1>9
<1> QED BY <1>1, <1>5, <1>6, <1>10 DEF IsDisjoint, IsPushed

\* no other instruction of those is the primary one
LEMMA NoneIsPrimary ==
  ASSUME NEW seq, AreSorted(seq), NEW n \in Nat, n + 1 \in DOMAIN seq, seq[n + 1].primary, NEW i \in 1 .. n
  PROVE  ~seq[i].primary
<1>1. DOMAIN seq = 1 .. Len(seq) /\ Len(seq) \in Nat
  <2>1. seq \in Seq(ToSet(seq)) BY DEF AreSorted, AreInsts
  <2> QED BY <2>1
<1>2. i \in DOMAIN seq /\ i # n + 1 BY <1>1
<1> QED BY <1>2 DEF AreSorted

LEMMA TakeKeepsOK ==
  ASSUME NEW seq, AreSorted(seq), NEW n \in Nat, n + 1 \in DOMAIN seq, NEW acc, TakenOK(seq, n, acc),
         NEW new, new = TakeOf(acc, seq[n + 1])
  PROVE  TakenOK(seq, n + 1, new)
<1> DEFINE p == seq[n + 1]
           Seen == {seq[i] : i \in 1 .. n}
           Met == {seq[i] : i \in 1 .. n + 1}
           stack == acc.stack
           kept == ToSet(acc.stack)
           now == ToSet(new.stack)
<1>1. DOMAIN seq = 1 .. Len(seq) /\ Len(seq) \in Nat
  <2>1. seq \in Seq(ToSet(seq)) BY DEF AreSorted, AreInsts
  <2> QED BY <2>1
<1>2. \A i \in 1 .. n + 1 : i \in DOMAIN seq /\ IsInst(seq[i])
  <2>1. \A i \in 1 .. n + 1 : i \in DOMAIN seq BY <1>1
  <2> QED BY <2>1 DEF AreSorted, AreInsts
<1>3. \A i \in 1 .. n : i \in 1 .. n + 1 /\ i < n + 1 /\ ~Earlier(p, seq[i]) BY <1>2 DEF AreSorted
<1>4. n + 1 \in 1 .. n + 1 /\ IsInst(p) BY <1>2
<1>5. \A i \in 1 .. n + 1 : i \in 1 .. n \/ i = n + 1 OBVIOUS
<1>6. Seen \in SUBSET Met /\ p \in Met /\ \A a \in Seen : IsInst(a) BY <1>2, <1>3, <1>4
<1>7. stack \in Seq(Seen) BY DEF TakenOK
<1>8. DOMAIN stack = 1 .. Len(stack) /\ Len(stack) \in Nat /\ \A i \in DOMAIN stack : stack[i] \in Seen /\ IsInst(stack[i])
  <2> HIDE DEF Seen, stack
  <2> QED BY <1>6, <1>7, ElementOfSeq
<1>9. kept = {stack[i] : i \in DOMAIN stack} /\ kept \in SUBSET Seen
  <2>1. kept = {stack[i] : i \in DOMAIN stack} BY DEF ToSet
  <2> QED BY <1>8, <2>1
<1>10. IsDisjoint(stack) BY DEF TakenOK
<1>11. acc.pivot \in Positions
  <2>1. acc.pivot = <<1, 0>> \/ \E i \in DOMAIN stack : stack[i].end = acc.pivot BY DEF TakenOK
  <2> QED BY <1>8, <2>1 DEF Positions, IsInst
\* what is pushed
<1>13. ASSUME NEW m \in 0 .. Len(stack), \A i \in 1 .. m : ~Before(p.begin, stack[i].end),
              new = [stack |-> Append(SubSeq(stack, 1, m), p), pivot |-> p.end]
       PROVE  /\ new.stack \in Seq(Met)
              /\ IsDisjoint(new.stack)
              /\ \A i \in DOMAIN new.stack : ~Before(new.pivot, new.stack[i].end)
              /\ \E i \in DOMAIN new.stack : new.stack[i].end = new.pivot
              /\ p \in now
              /\ \A i \in 1 .. m : stack[i] \in now
  <2>1. new.stack = Append(SubSeq(stack, 1, m), p) /\ new.pivot = p.end BY <1>13
  <2>2. /\ DOMAIN new.stack = 1 .. m + 1 /\ new.stack[m + 1] = p
        /\ now = {stack[i] : i \in 1 .. m} \union {p}
        /\ IsDisjoint(new.stack)
        /\ \A i \in DOMAIN new.stack : ~Before(p.end, new.stack[i].end)
    <3>1. PICK top : top = new.stack OBVIOUS
    <3>2. \A a \in Seen : IsInst(a) BY <1>6
    <3>3. top = Append(SubSeq(stack, 1, m), p) BY <2>1, <3>1
    <3>4. IsPush(Seen, stack, p, m) BY <1>4, <1>7, <1>10, <1>13, <3>2, Zenon DEF IsPush
    <3>5. IsPushed(top, stack, p, m) BY <3>3, <3>4, PushedIs
    <3> QED BY <3>1, <3>5 DEF IsPushed
  <2>3. new.stack \in Seq(Met)
    <3>1. stack \in Seq(Met) BY <1>6, <1>7
    <3>2. SubSeq(stack, 1, m) \in Seq(Met)
      <4> HIDE DEF Met, stack
      <4> QED BY <3>1
    <3> HIDE DEF Met, stack, p
    <3> QED BY <1>6, <2>1, <3>2
  <2>4. m + 1 \in DOMAIN new.stack BY <2>2
  <2> QED BY <2>1, <2>2, <2>3, <2>4
<1>14. ASSUME NEW a \in kept PROVE \E r \in DOMAIN stack : a = stack[r] BY <1>9
<1>20. CASE ~Before(p.begin, acc.pivot)
  <2>1. new = [stack |-> Append(stack, p), pivot |-> p.end] BY <1>20 DEF TakeOf
  <2>2. SubSeq(stack, 1, Len(stack)) = stack
    <3> HIDE DEF stack, Seen
    <3> QED BY <1>7
  <2>3. \A i \in 1 .. Len(stack) : ~Before(p.begin, stack[i].end)
    <3> SUFFICES ASSUME NEW i \in 1 .. Len(stack) PROVE ~Before(p.begin, stack[i].end) OBVIOUS
    <3>1. ~Before(acc.pivot, stack[i].end) BY <1>8 DEF TakenOK
    <3>2. stack[i].end \in Positions /\ p.begin \in Positions BY <1>4, <1>8 DEF IsInst
    <3> QED BY <1>11, <1>20, <3>1, <3>2, PositionsAreOrdered
  <2>4. Len(stack) \in 0 .. Len(stack) BY <1>8
  <2>5. /\ new.stack \in Seq(Met)
        /\ IsDisjoint(new.stack)
        /\ \A i \in DOMAIN new.stack : ~Before(new.pivot, new.stack[i].end)
        /\ \E i \in DOMAIN new.stack : new.stack[i].end = new.pivot
        /\ p \in now
        /\ \A i \in 1 .. Len(stack) : stack[i] \in now
    <3> HIDE DEF stack, p, now, Met
    <3> QED BY <1>13, <2>1, <2>2, <2>3, <2>4
  <2>6. kept \in SUBSET now BY <1>8, <1>14, <2>5
  <2>7. ASSUME NEW i \in 1 .. n + 1 PROVE (seq[i].primary => seq[i] \in now) /\ (seq[i] \in now \/ IsAccounted(seq, n + 1, i, now))
    <3>1. CASE i = n + 1 BY <2>5, <3>1
    <3>2. CASE i \in 1 .. n
      <4>1. (seq[i].primary => seq[i] \in kept) /\ (seq[i] \in kept \/ IsAccounted(seq, n, i, kept)) BY <3>2 DEF TakenOK
      <4>2. IsAccounted(seq, n, i, kept) => IsAccounted(seq, n + 1, i, now)
        <5> HIDE DEF kept, now
        <5> QED BY <1>3, <2>6 DEF IsAccounted
      <4> QED BY <2>6, <4>1, <4>2
    <3> QED BY <1>5, <3>1, <3>2
  <2> QED BY <2>5, <2>7 DEF TakenOK
<1>21. CASE Before(p.begin, acc.pivot) /\ p.primary
  <2> DEFINE m == LastBefore(stack, p)
  <2>1. new = [stack |-> Append(SubSeq(stack, 1, m), p), pivot |-> p.end] BY <1>21 DEF TakeOf
  <2>2. /\ m \in 0 .. Len(stack)
        /\ m # 0 => ~Before(p.begin, stack[m].end)
        /\ \A i \in DOMAIN stack : i > m => Before(p.begin, stack[i].end)
    <3> HIDE DEF stack, p, Seen
    <3> QED BY <1>7, LastBeforeIs
  <2>3. \A i \in 1 .. m : ~Before(p.begin, stack[i].end)
    <3> HIDE DEF m, stack, p
    <3> SUFFICES ASSUME NEW i \in 1 .. m PROVE ~Before(p.begin, stack[i].end) OBVIOUS
    <3>1. i \in DOMAIN stack /\ m \in DOMAIN stack /\ m # 0 BY <1>8, <2>2
    <3>2. CASE i = m BY <2>2, <3>1, <3>2
    <3>3. CASE i < m
      <4>1. ~Before(stack[m].begin, stack[i].end) BY <1>10, <3>1, <3>3 DEF IsDisjoint
      <4>2. IsInst(stack[m]) /\ IsInst(stack[i]) BY <1>8, <3>1
      <4>3. ~Before(p.begin, stack[m].end) BY <2>2, <3>1
      <4> QED BY <1>4, <4>1, <4>2, <4>3, PositionsAreOrdered DEF IsInst
    <3> QED BY <2>2, <3>2, <3>3
  <2>4. /\ new.stack \in Seq(Met)
        /\ IsDisjoint(new.stack)
        /\ \A i \in DOMAIN new.stack : ~Before(new.pivot, new.stack[i].end)
        /\ \E i \in DOMAIN new.stack : new.stack[i].end = new.pivot
        /\ p \in now
        /\ \A i \in 1 .. m : stack[i] \in now
    <3> HIDE DEF stack, p, now, Met, m
    <3> QED BY <1>13, <2>1, <2>2, <2>3
  \* what is put out overlaps the primary one
  <2>5. ASSUME NEW a \in kept PROVE a \in now \/ (Overlap(a, p) /\ Overlap(p, a))
    <3>1. PICK r \in DOMAIN stack : a = stack[r] BY <1>14
    <3>2. CASE r \in 1 .. m BY <2>4, <3>1, <3>2
    <3>3. CASE r > m
      <4>1. Before(p.begin, a.end) BY <2>2, <3>1, <3>3
      <4>2. IsInst(a) /\ ~Earlier(p, a) BY <1>3, <1>8, <3>1
      <4> QED BY <1>4, <4>1, <4>2, LateOverlaps
    <3>4. r \in 1 .. m \/ r > m
      <4> HIDE DEF m, stack
      <4> QED BY <1>8, <2>2
    <3> QED BY <3>2, <3>3, <3>4
  <2>6. ASSUME NEW i \in 1 .. n + 1 PROVE (seq[i].primary => seq[i] \in now) /\ (seq[i] \in now \/ IsAccounted(seq, n + 1, i, now))
    <3>1. CASE i = n + 1 BY <2>4, <3>1
    <3>2. CASE i \in 1 .. n
      <4>1. ~seq[i].primary BY <1>21, <1>4, <1>2, <3>2, NoneIsPrimary
      <4>2. CASE seq[i] \in kept
        <5>1. CASE seq[i] \in now BY <4>1, <5>1
        <5>2. CASE Overlap(seq[i], p)
          <6>1. IsAccounted(seq, n + 1, i, now) BY <1>4, <2>4, <5>2 DEF IsAccounted
          <6> QED BY <4>1, <6>1
        <5> QED BY <2>5, <4>2, <5>1, <5>2
      <4>3. CASE IsAccounted(seq, n, i, kept)
        <5>1. PICK q \in 1 .. n : /\ Overlap(seq[i], seq[q])
                                  /\ seq[q] \in kept \/ \E l \in 1 .. n : seq[l].primary /\ seq[l] \in kept /\ Overlap(seq[q], seq[l])
          BY <4>3 DEF IsAccounted
        <5>2. \A l \in 1 .. n : ~seq[l].primary BY <1>21, <1>4, <1>2, NoneIsPrimary
        <5>3. seq[q] \in kept BY <5>1, <5>2
        <5>4. seq[q] \in now \/ (p.primary /\ p \in now /\ Overlap(seq[q], p)) BY <1>21, <2>4, <2>5, <5>3
        <5>5. IsAccounted(seq, n + 1, i, now)
          <6> HIDE DEF now
          <6> QED BY <1>3, <1>4, <5>1, <5>4 DEF IsAccounted
        <5> QED BY <4>1, <5>5
      <4> QED BY <3>2, <4>2, <4>3 DEF TakenOK
    <3> QED BY <1>5, <3>1, <3>2
  <2> QED BY <2>4, <2>6 DEF TakenOK
<1>22. CASE Before(p.begin, acc.pivot) /\ ~p.primary
  <2>1. new = acc BY <1>22 DEF TakeOf
  <2>2. acc.pivot # <<1, 0>> BY <1>4, <1>22 DEF IsInst
  <2>3. PICK r \in DOMAIN stack : stack[r].end = acc.pivot BY <2>2 DEF TakenOK
  <2>4. PICK q \in 1 .. n : stack[r] = seq[q] BY <1>8, <2>3
  <2>5. seq[q] \in kept BY <1>9, <2>3, <2>4
  <2>6. Overlap(p, seq[q])
    <3>1. IsInst(seq[q]) /\ ~Earlier(p, seq[q]) /\ Before(p.begin, seq[q].end) BY <1>2, <1>3, <1>22, <2>3, <2>4
    <3> QED BY <1>4, <3>1, LateOverlaps
  <2>7. IsAccounted(seq, n + 1, n + 1, kept) BY <1>3, <2>5, <2>6 DEF IsAccounted
  <2>8. ASSUME NEW i \in 1 .. n + 1 PROVE (seq[i].primary => seq[i] \in kept) /\ (seq[i] \in kept \/ IsAccounted(seq, n + 1, i, kept))
    <3>1. CASE i = n + 1 BY <1>22, <2>7, <3>1
    <3>2. CASE i \in 1 .. n
      <4>1. (seq[i].primary => seq[i] \in kept) /\ (seq[i] \in kept \/ IsAccounted(seq, n, i, kept)) BY <3>2 DEF TakenOK
      <4>2. IsAccounted(seq, n, i, kept) => IsAccounted(seq, n + 1, i, kept)
        <5> HIDE DEF kept
        <5> QED BY <1>3 DEF IsAccounted
      <4> QED BY <4>1, <4>2
    <3> QED BY <1>5, <3>1, <3>2
  <2>9. stack \in Seq(Met) BY <1>6, <1>7
  <2>10. /\ IsDisjoint(stack)
         /\ \A i \in DOMAIN stack : ~Before(acc.pivot, stack[i].end)
         /\ acc.pivot = <<1, 0>> \/ \E i \in DOMAIN stack : stack[i].end = acc.pivot BY DEF TakenOK
  <2> QED BY <2>1, <2>8, <2>9, <2>10 DEF TakenOK
<1>30. p.primary \in BOOLEAN BY <1>4 DEF IsInst
<1> QED BY <1>20, <1>21, <1>22, <1>30

LEMMA SeqOfItsOwn ==
  ASSUME NEW X, NEW s \in Seq(X)
  PROVE  s \in Seq(ToSet(s)) /\ ToSet(s) \in SUBSET X
<1>1. \A i \in DOMAIN s : s[i] \in X /\ s[i] \in ToSet(s) BY DEF ToSet
<1>2. ToSet(s) \in SUBSET X BY <1>1 DEF ToSet
<1>3. s = [i \in 1 .. Len(s) |-> s[i]] /\ Len(s) \in Nat /\ DOMAIN s = 1 .. Len(s) OBVIOUS
<1> QED BY <1>1, <1>2, <1>3

OneIsPrimary(insts) ==
  \E k \in DOMAIN insts : insts[k].primary /\ \A i \in DOMAIN insts : insts[i].primary => i = k

LEMMA InOrderIsSorted ==
  ASSUME NEW insts, AreInsts(insts), OneIsPrimary(insts)
  PROVE  AreSorted(InOrder(insts)) /\ ToSet(InOrder(insts)) = ToSet(insts) /\ InOrder(insts) \in Seq(ToSet(insts))
<1> DEFINE D == DOMAIN insts
           seq == InOrder(insts)
           f(m) == From1(insts, m)
<1>1. insts \in Seq(ToSet(insts)) /\ D = 1 .. Len(insts) /\ Len(insts) \in Nat
  <2>1. insts \in Seq(ToSet(insts)) BY DEF AreInsts
  <2> QED BY <2>1
<1>2. /\ DOMAIN seq = D
      /\ \A m \in D : f(m) \in D /\ seq[m] = insts[f(m)]
      /\ \A k \in D : \E m \in D : f(m) = k
      /\ \A l, m \in D : l # m => f(l) # f(m)
      /\ \A l, m \in D : l < m => ~Earlier(seq[m], seq[l])
  BY InOrderSorts
<1>3. seq = [m \in D |-> insts[From1(insts, m)]] BY DEF InOrder, From1
<1> HIDE DEF seq
<1>4. \A m \in D : seq[m] \in ToSet(insts) BY <1>2 DEF ToSet
<1>5. seq \in Seq(ToSet(insts)) BY <1>1, <1>3, <1>4
<1>6. ToSet(insts) \in SUBSET ToSet(seq)
  <2> SUFFICES ASSUME NEW a \in ToSet(insts) PROVE a \in ToSet(seq) OBVIOUS
  <2>1. PICK k \in D : a = insts[k] BY DEF ToSet
  <2>2. PICK m \in D : f(m) = k BY <1>2
  <2>3. seq[m] = a /\ m \in DOMAIN seq BY <1>2, <2>1, <2>2
  <2> QED BY <2>3 DEF ToSet
<1>7. seq \in Seq(ToSet(seq)) /\ ToSet(seq) \in SUBSET ToSet(insts) BY <1>5, SeqOfItsOwn
<1>8. AreInsts(seq) BY <1>2, <1>7 DEF AreInsts
<1>9. \A l, m \in D : seq[l].primary /\ seq[m].primary => l = m BY <1>2 DEF OneIsPrimary
<1> QED BY <1>2, <1>5, <1>6, <1>7, <1>8, <1>9 DEF seq, AreSorted

LEMMA TakenIsOK ==
  ASSUME NEW seq, AreSorted(seq)
  PROVE  TakenOK(seq, Len(seq), Taken(seq)[DOMAIN seq])
<1>1. seq \in Seq(ToSet(seq)) BY DEF AreSorted, AreInsts
<1>2. Len(seq) \in Nat /\ DOMAIN seq = 1 .. Len(seq) BY <1>1
<1>3. /\ Taken(seq)[{}] = NoneTaken
      /\ \A n \in 1 .. Len(seq) : Taken(seq)[1 .. n] = TakeOf(Taken(seq)[1 .. n - 1], seq[n])
  BY <1>1, TakenAre
<1> DEFINE T(n) == Taken(seq)[1 .. n]
           G == {n \in Nat : n <= Len(seq) => TakenOK(seq, n, T(n))}
<1>4. 0 \in G
  <2>1. 1 .. 0 = {} OBVIOUS
  <2>2. T(0) = NoneTaken BY <1>3, <2>1
  <2>3. TakenOK(seq, 0, NoneTaken) BY <2>1 DEF TakenOK, NoneTaken, IsDisjoint
  <2> QED BY <2>2, <2>3
<1>5. ASSUME NEW n \in G PROVE n + 1 \in G
  <2>1. n \in Nat /\ (n <= Len(seq) => TakenOK(seq, n, T(n))) OBVIOUS
  <2>2. ASSUME n + 1 <= Len(seq) PROVE TakenOK(seq, n + 1, T(n + 1))
    <3>1. TakenOK(seq, n, T(n)) /\ n + 1 \in 1 .. Len(seq) /\ n + 1 - 1 = n BY <1>2, <2>1, <2>2
    <3>2. T(n + 1) = TakeOf(T(n), seq[n + 1])
      <4>1. T(n + 1) = TakeOf(T(n + 1 - 1), seq[n + 1]) BY <1>3, <3>1
      <4> QED BY <3>1, <4>1
    <3> HIDE DEF T
    <3> QED BY <1>2, <2>1, <3>1, <3>2, TakeKeepsOK
  <2> QED BY <2>1, <2>2
<1>6. G = Nat
  <2>1. G \in SUBSET Nat OBVIOUS
  <2> HIDE DEF G
  <2> QED BY <1>4, <1>5, <2>1, SetInduction
<1>7. Len(seq) \in G BY <1>2, <1>6
<1> QED BY <1>2, <1>7

\* what becomes of any list of instructions of which one is the primary one
LEMMA ConsolidateIsDisjoint ==
  ASSUME NEW insts, AreInsts(insts), OneIsPrimary(insts), NEW plan, plan = Consolidate(insts)
  PROVE  /\ plan \in Seq(ToSet(insts)) /\ IsDisjoint(plan)
         /\ \E k \in DOMAIN plan : plan[k].primary
         /\ \A inst \in ToSet(insts) \ ToSet(plan) : \E other \in ToSet(insts) :
              /\ Overlap(inst, other)
              /\ other \in ToSet(plan) \/ \E kept \in ToSet(plan) : kept.primary /\ Overlap(other, kept)
<1> DEFINE seq == InOrder(insts)
           n == Len(seq)
           acc == Taken(seq)[DOMAIN seq]
<1>1. AreSorted(seq) /\ ToSet(seq) = ToSet(insts) /\ seq \in Seq(ToSet(insts)) BY InOrderIsSorted
<1>2. plan = acc.stack BY ConsolidateIsTaken
<1>3. TakenOK(seq, n, acc) BY <1>1, TakenIsOK
<1> HIDE DEF seq, acc
<1>4. DOMAIN seq = 1 .. n /\ n \in Nat BY <1>1
<1>5. ToSet(seq) = {seq[i] : i \in 1 .. n} BY <1>4 DEF ToSet
<1>6. plan \in Seq(ToSet(insts)) BY <1>1, <1>2, <1>3, <1>5 DEF TakenOK
<1>7. IsDisjoint(plan) BY <1>2, <1>3 DEF TakenOK
<1>8. \E k \in DOMAIN plan : plan[k].primary
  <2>1. PICK k \in DOMAIN insts : insts[k].primary BY DEF OneIsPrimary
  <2>2. insts[k] \in ToSet(seq) BY <1>1 DEF ToSet
  <2>3. insts[k] \in ToSet(plan) BY <1>2, <1>3, <1>5, <2>1, <2>2 DEF TakenOK
  <2> QED BY <2>1, <2>3 DEF ToSet
<1>9. ASSUME NEW inst \in ToSet(insts) \ ToSet(plan)
      PROVE  \E other \in ToSet(insts) :
               /\ Overlap(inst, other)
               /\ other \in ToSet(plan) \/ \E kept \in ToSet(plan) : kept.primary /\ Overlap(other, kept)
  <2>1. PICK i \in 1 .. n : inst = seq[i] BY <1>1, <1>5
  <2>2. IsAccounted(seq, n, i, ToSet(plan)) BY <1>2, <1>3, <2>1 DEF TakenOK
  <2>3. PICK m \in 1 .. n :
          /\ Overlap(inst, seq[m])
          /\ seq[m] \in ToSet(plan) \/ \E l \in 1 .. n : seq[l].primary /\ seq[l] \in ToSet(plan) /\ Overlap(seq[m], seq[l])
    BY <2>1, <2>2 DEF IsAccounted
  <2>4. seq[m] \in ToSet(insts) BY <1>1, <1>5
  <2> QED BY <2>3, <2>4
<1> QED BY <1>6, <1>7, <1>8, <1>9

LEMMA LinesHaveBytes ==
  ASSUME NEW line, IsLine(line)
  PROVE  /\ Len(line) \in Nat /\ DOMAIN line = 1 .. Len(line)
         /\ Bytes(line) \in Nat
<1>1. line \in Seq(ToSet(line)) BY DEF IsLine
<1>2. Len(line) \in Nat /\ DOMAIN line = 1 .. Len(line) BY <1>1
<1> DEFINE W == {i \in DOMAIN line : line[i] \in EpWide}
<1>3. IsFiniteSet(1 .. Len(line)) BY <1>2, UptoIsFinite
<1>4. W \in SUBSET (1 .. Len(line)) BY <1>2
<1>5. Cardinality(W) \in Nat
  <2> HIDE DEF W
  <2> QED BY <1>3, <1>4, FS_Subset, FS_CardinalityType
<1> QED BY <1>2, <1>5 DEF Bytes

LEMMA PartsAreLines ==
  ASSUME NEW line, IsLine(line), NEW b \in Int, NEW e \in Int, b >= 1, e <= Len(line)
  PROVE  IsLine(SubSeq(line, b, e))
<1>1. line \in Seq(ToSet(line)) BY DEF IsLine
<1>2. SubSeq(line, b, e) \in Seq(ToSet(line)) BY <1>1
<1> QED BY <1>2, SeqOfItsOwn DEF IsLine

LEMMA JoinsAreLines ==
  ASSUME NEW a, IsLine(a), NEW b, IsLine(b)
  PROVE  IsLine(a \o b)
<1> DEFINE X == ToSet(a) \union ToSet(b)
<1>1. a \in Seq(ToSet(a)) /\ b \in Seq(ToSet(b)) BY DEF IsLine
<1>2. a \in Seq(X) /\ b \in Seq(X) BY <1>1
<1>3. a \o b \in Seq(X)
  <2> HIDE DEF X
  <2> QED BY <1>2
<1> QED BY <1>3, SeqOfItsOwn DEF IsLine

\* more of a line has no less bytes
LEMMA BytesGrow ==
  ASSUME NEW line, IsLine(line), NEW j \in 0 .. Len(line), NEW k \in 0 .. Len(line), j <= k
  PROVE  /\ Bytes(SubSeq(line, 1, j)) \in Nat /\ Bytes(SubSeq(line, 1, k)) \in Nat
         /\ Bytes(SubSeq(line, 1, j)) <= Bytes(SubSeq(line, 1, k))
<1> DEFINE s(i) == SubSeq(line, 1, i)
           W(i) == {c \in DOMAIN s(i) : s(i)[c] \in EpWide}
<1>1. line \in Seq(ToSet(line)) BY DEF IsLine
<1>2. \A i \in 0 .. Len(line) : IsLine(s(i)) /\ Len(s(i)) = i /\ DOMAIN s(i) = 1 .. i /\ \A c \in 1 .. i : s(i)[c] = line[c]
  <2> SUFFICES ASSUME NEW i \in 0 .. Len(line)
               PROVE  IsLine(s(i)) /\ Len(s(i)) = i /\ DOMAIN s(i) = 1 .. i /\ \A c \in 1 .. i : s(i)[c] = line[c] OBVIOUS
  <2>1. IsLine(s(i)) BY LinesHaveBytes, PartsAreLines
  <2> QED BY <1>1, <2>1
<1>3. Bytes(s(j)) \in Nat /\ Bytes(s(k)) \in Nat BY <1>2, LinesHaveBytes
<1>4. W(j) \in SUBSET W(k) BY <1>2
<1>5. W(k) \in SUBSET (1 .. k) /\ IsFiniteSet(1 .. k) BY <1>2, UptoIsFinite
<1>6. Bytes(s(j)) = j + Cardinality(W(j)) /\ Bytes(s(k)) = k + Cardinality(W(k)) BY <1>2 DEF Bytes
<1>7. Cardinality(W(j)) <= Cardinality(W(k)) /\ Cardinality(W(j)) \in Nat /\ Cardinality(W(k)) \in Nat
  <2> HIDE DEF W
  <2>1. IsFiniteSet(W(k)) BY <1>5, FS_Subset
  <2> QED BY <1>4, <2>1, FS_Subset, FS_CardinalityType
<1> HIDE DEF s, W
<1>8. Bytes(s(j)) <= Bytes(s(k)) BY <1>6, <1>7
<1> QED BY <1>3, <1>8 DEF s

\* one character is a byte or two
LEMMA NothingHasNoBytes == Bytes(<<>>) = 0 /\ IsLine(<<>>)
<1>1. {i \in DOMAIN <<>> : <<>>[i] \in EpWide} = {} OBVIOUS
<1>2. Bytes(<<>>) = 0 BY <1>1, FS_EmptySet DEF Bytes
<1>3. IsLine(<<>>) BY DEF IsLine
<1> QED BY <1>2, <1>3

\* how much of a line fits
UptoOf(line, bytes) ==
  CHOOSE k \in 0 .. Len(line) :
    Bytes(SubSeq(line, 1, k)) <= bytes /\ (k < Len(line) => ~(Bytes(SubSeq(line, 1, k + 1)) <= bytes))

LEMMA UptoFits ==
  ASSUME NEW line, IsLine(line), NEW bytes \in Nat
  PROVE  /\ UptoOf(line, bytes) \in 0 .. Len(line)
         /\ Upto(line, bytes) = SubSeq(line, 1, UptoOf(line, bytes))
         /\ Bytes(SubSeq(line, 1, UptoOf(line, bytes))) <= bytes
         /\ UptoOf(line, bytes) < Len(line) => ~(Bytes(SubSeq(line, 1, UptoOf(line, bytes) + 1)) <= bytes)
<1> DEFINE n == Len(line)
           Fits(k) == Bytes(SubSeq(line, 1, k)) <= bytes
           Y == {i \in 0 .. n : Fits(n - i)}
<1>1. n \in Nat BY LinesHaveBytes
<1>2. line \in Seq(ToSet(line)) BY DEF IsLine
<1>3. Fits(0)
  <2>1. SubSeq(line, 1, 0) = <<>> BY <1>2
  <2>2. Bytes(SubSeq(line, 1, 0)) = 0 BY <2>1, NothingHasNoBytes, Zenon
  <2> QED BY <2>2
<1> HIDE DEF Fits, n
<1>4. Y \in SUBSET Nat /\ n \in Y BY <1>1, <1>3
<1>5. PICK y \in Y : \A z \in Y : y <= z
  <2> HIDE DEF Y
  <2> QED BY <1>4, LeastNatural
<1>6. n - y \in 0 .. n /\ Fits(n - y) BY <1>1
<1>7. n - y < n => ~Fits(n - y + 1)
  <2> SUFFICES ASSUME n - y < n, Fits(n - y + 1) PROVE FALSE OBVIOUS
  <2>1. y \in 0 .. n /\ y # 0 BY <1>1
  <2>2. y - 1 \in 0 .. n /\ n - (y - 1) = n - y + 1 BY <1>1, <2>1
  <2>3. y - 1 \in Y BY <2>2
  <2>4. y <= y - 1 BY <1>5, <2>3
  <2> QED BY <2>1, <2>4
<1>8. \E k \in 0 .. n : Fits(k) /\ (k < n => ~Fits(k + 1)) BY <1>6, <1>7
<1> USE DEF Fits, n
<1>9. UptoOf(line, bytes) \in 0 .. n /\ Fits(UptoOf(line, bytes)) /\ (UptoOf(line, bytes) < n => ~Fits(UptoOf(line, bytes) + 1))
  BY <1>8 DEF UptoOf
<1>10. Upto(line, bytes) = SubSeq(line, 1, UptoOf(line, bytes)) BY DEF Upto, UptoOf
<1> QED BY <1>9, <1>10

LEMMA UptoAndFromAreLines ==
  ASSUME NEW line, IsLine(line), NEW bytes \in Nat
  PROVE  IsLine(Upto(line, bytes)) /\ IsLine(From(line, bytes))
<1> DEFINE k == UptoOf(line, bytes)
<1>1. k \in 0 .. Len(line) /\ Upto(line, bytes) = SubSeq(line, 1, k) /\ Len(line) \in Nat BY UptoFits, LinesHaveBytes
<1>2. line \in Seq(ToSet(line)) BY DEF IsLine
<1> HIDE DEF k
<1>3. Len(SubSeq(line, 1, k)) = k BY <1>1, <1>2
<1>4. From(line, bytes) = SubSeq(line, k + 1, Len(line)) BY <1>1, <1>3 DEF From
<1>5. IsLine(SubSeq(line, 1, k)) BY <1>1, PartsAreLines
<1>6. IsLine(SubSeq(line, k + 1, Len(line)))
  <2>1. k + 1 \in Int /\ k + 1 >= 1 /\ Len(line) \in Int BY <1>1
  <2> QED BY <1>1, <2>1, PartsAreLines
<1> QED BY <1>1, <1>4, <1>5, <1>6

-----------------------------------------------------------------------------
(* Texts.  A text is a sequence of at least one line.                         *)


LEMMA TextIs ==
  ASSUME NEW text, IsText(text)
  PROVE  /\ text \in Seq(ToSet(text)) /\ Len(text) \in Nat \ {0} /\ DOMAIN text = 1 .. Len(text)
         /\ \A i \in DOMAIN text : IsLine(text[i])
         /\ \A l \in ToSet(text) : IsLine(l)
<1>1. text \in Seq(ToSet(text)) /\ text # <<>> /\ \A i \in DOMAIN text : IsLine(text[i]) BY DEF IsText
<1>2. Len(text) \in Nat \ {0} /\ DOMAIN text = 1 .. Len(text) BY <1>1
<1>3. \A l \in ToSet(text) : IsLine(l) BY <1>1 DEF ToSet
<1> QED BY <1>1, <1>2, <1>3

LEMMA IsTextBy ==
  ASSUME NEW L, \A l \in L : IsLine(l), NEW text \in Seq(L), text # <<>>
  PROVE  IsText(text)
<1>1. text \in Seq(ToSet(text)) /\ ToSet(text) \in SUBSET L BY SeqOfItsOwn
<1>2. \A i \in DOMAIN text : text[i] \in L OBVIOUS
<1> QED BY <1>1, <1>2 DEF IsText

LEMMA JoinedIsText ==
  ASSUME NEW head, IsLine(head), NEW tail, IsLine(tail), NEW text, IsText(text)
  PROVE  IsText(Joined(head, text, tail))
<1> DEFINE first == head \o text[1]
           last == text[Len(text)] \o tail
           L == ToSet(text) \union {first \o tail, first, last}
<1>1. /\ text \in Seq(ToSet(text)) /\ Len(text) \in Nat \ {0} /\ DOMAIN text = 1 .. Len(text)
      /\ \A i \in DOMAIN text : IsLine(text[i])
      /\ \A l \in ToSet(text) : IsLine(l) BY TextIs
<1>2. IsLine(first) /\ IsLine(last) BY <1>1, JoinsAreLines
<1>3. IsLine(first \o tail) BY <1>2, JoinsAreLines
<1> HIDE DEF first, last
<1>4. \A l \in L : IsLine(l) BY <1>1, <1>2, <1>3
<1>5. CASE Len(text) = 1
  <2>1. Joined(head, text, tail) = <<first \o tail>>
    <3>1. Joined(head, text, tail) = <<head \o text[1] \o tail>> BY <1>5 DEF Joined
    <3> QED BY <3>1 DEF first
  <2>2. first \o tail \in L OBVIOUS
  <2>3. <<first \o tail>> \in Seq(L) /\ <<first \o tail>> # <<>>
    <3> HIDE DEF L
    <3> QED BY <2>2
  <2> QED BY <1>4, <2>1, <2>3, IsTextBy
<1>6. CASE Len(text) # 1
  <2>1. Joined(head, text, tail) = <<first>> \o SubSeq(text, 2, Len(text) - 1) \o <<last>>
    <3>1. Head(text) = text[1] BY <1>1
    <3> QED BY <1>6, <3>1 DEF Joined, Last, first, last
  <2>2. text \in Seq(L) /\ first \in L /\ last \in L BY <1>1
  <2> HIDE DEF L
  <2>3. SubSeq(text, 2, Len(text) - 1) \in Seq(L) BY <1>1, <2>2
  <2>4. PICK mid \in Seq(L) : mid = SubSeq(text, 2, Len(text) - 1) BY <2>3
  <2>5. <<first>> \o mid \o <<last>> \in Seq(L) /\ <<first>> \o mid \o <<last>> # <<>> BY <2>2
  <2> QED BY <1>4, <2>1, <2>4, <2>5, IsTextBy
<1> QED BY <1>5, <1>6

LEMMA SetTextIsText ==
  ASSUME NEW text, IsText(text), NEW begin, NEW end, NEW new, IsText(new)
  PROVE  IsText(SetText(text, begin, end, new))
<1> DEFINE ok == /\ begin[1] \in DOMAIN text /\ end[1] \in DOMAIN text /\ ~Before(end, begin)
                 /\ begin[2] \in 0 .. Bytes(text[begin[1]]) /\ end[2] \in 0 .. Bytes(text[end[1]])
           mid == Joined(Upto(text[begin[1]], begin[2]), new, From(text[end[1]], end[2]))
           pre == SubSeq(text, 1, begin[1] - 1)
           post == SubSeq(text, end[1] + 1, Len(text))
           L == ToSet(text) \union ToSet(mid)
<1>1. CASE ~ok
  <2>1. SetText(text, begin, end, new) = text BY <1>1 DEF SetText
  <2> QED BY <2>1
<1>2. CASE ok
  <2>1. SetText(text, begin, end, new) = pre \o mid \o post BY <1>2 DEF SetText
  <2>2. begin[2] \in Nat /\ end[2] \in Nat BY <1>2
  <2>3. IsLine(text[begin[1]]) /\ IsLine(text[end[1]]) BY <1>2, TextIs
  <2>4. IsText(mid) BY <2>2, <2>3, UptoAndFromAreLines, JoinedIsText
  <2> HIDE DEF mid
  <2>5. mid \in Seq(ToSet(mid)) /\ mid # <<>> /\ \A l \in ToSet(mid) : IsLine(l) BY <2>4, TextIs DEF IsText
  <2>6. text \in Seq(ToSet(text)) /\ Len(text) \in Nat \ {0} /\ DOMAIN text = 1 .. Len(text) /\ \A l \in ToSet(text) : IsLine(l) BY TextIs
  <2>7. text \in Seq(L) /\ mid \in Seq(L) /\ \A l \in L : IsLine(l) BY <2>5, <2>6
  <2> HIDE DEF L
  <2>8. pre \in Seq(L) /\ post \in Seq(L) BY <1>2, <2>6, <2>7
  <2> HIDE DEF pre, post
  <2>9. pre \o mid \o post \in Seq(L) /\ pre \o mid \o post # <<>> BY <2>5, <2>7, <2>8
  <2> QED BY <2>1, <2>7, <2>9, IsTextBy
<1> QED BY <1>1, <1>2

-----------------------------------------------------------------------------
(* Where an instruction begins and ends.                                      *)

LEMMA LeastOfTwo ==
  ASSUME NEW a \in Nat, NEW b \in Nat
  PROVE  Min({a, b}) \in Nat /\ Min({a, b}) <= a /\ Min({a, b}) <= b /\ (Min({a, b}) = a \/ Min({a, b}) = b)
<1>1. {a, b} \in SUBSET Nat /\ {a, b} # {} OBVIOUS
<1>2. Min({a, b}) \in {a, b} /\ \A x \in {a, b} : Min({a, b}) <= x BY <1>1, LeastOfNaturals
<1> QED BY <1>2

LEMMA ByteColsGrow ==
  ASSUME NEW line, IsLine(line), NEW edit, NEW c \in Nat, NEW d \in Nat, c <= d
  PROVE  ByteCol(line, edit, c) \in Nat /\ ByteCol(line, edit, d) \in Nat /\ ByteCol(line, edit, c) <= ByteCol(line, edit, d)
<1> DEFINE n == Len(line)
           B == Bytes(line)
           PlaceOf(x) == IF edit.encoding = "utf16" THEN Bytes(SubSeq(line, 1, Min({x, n}))) ELSE x
<1>1. n \in Nat /\ B \in Nat BY LinesHaveBytes
<1>2. Min({c, n}) \in 0 .. n /\ Min({d, n}) \in 0 .. n /\ Min({c, n}) <= Min({d, n})
  <2>1. Min({c, n}) \in Nat /\ Min({c, n}) <= c /\ Min({c, n}) <= n /\ (Min({c, n}) = c \/ Min({c, n}) = n) BY <1>1, LeastOfTwo
  <2>2. Min({d, n}) \in Nat /\ Min({d, n}) <= d /\ Min({d, n}) <= n /\ (Min({d, n}) = d \/ Min({d, n}) = n) BY <1>1, LeastOfTwo
  <2> HIDE DEF n
  <2> QED BY <1>1, <2>1, <2>2
<1>3. PlaceOf(c) \in Nat /\ PlaceOf(d) \in Nat /\ PlaceOf(c) <= PlaceOf(d)
  <2>1. PICK j, k \in 0 .. n : j <= k /\ j = Min({c, n}) /\ k = Min({d, n}) BY <1>2
  <2>2. Bytes(SubSeq(line, 1, j)) \in Nat /\ Bytes(SubSeq(line, 1, k)) \in Nat /\ Bytes(SubSeq(line, 1, j)) <= Bytes(SubSeq(line, 1, k))
    BY <2>1, BytesGrow
  <2> QED BY <2>1, <2>2
<1>4. ByteCol(line, edit, c) = Min({B, PlaceOf(c)}) /\ ByteCol(line, edit, d) = Min({B, PlaceOf(d)}) BY DEF ByteCol
<1> HIDE DEF PlaceOf, B
<1>5. Min({B, PlaceOf(c)}) \in Nat /\ Min({B, PlaceOf(c)}) <= B /\ Min({B, PlaceOf(c)}) <= PlaceOf(c) /\ (Min({B, PlaceOf(c)}) = B \/ Min({B, PlaceOf(c)}) = PlaceOf(c)) BY <1>1, <1>3, LeastOfTwo
<1>6. Min({B, PlaceOf(d)}) \in Nat /\ Min({B, PlaceOf(d)}) <= B /\ Min({B, PlaceOf(d)}) <= PlaceOf(d) /\ (Min({B, PlaceOf(d)}) = B \/ Min({B, PlaceOf(d)}) = PlaceOf(d)) BY <1>1, <1>3, LeastOfTwo
<1> QED BY <1>1, <1>3, <1>4, <1>5, <1>6

IsRange(edit) == edit.begin \in (Nat \ {0}) \X Nat /\ edit.end \in (Nat \ {0}) \X Nat

LEMMA RangesAreInsts ==
  ASSUME NEW view, \A row \in DOMAIN view : IsLine(view[row]), NEW edit, IsRange(edit), NEW primary \in BOOLEAN
  PROVE  IsInst(RangeInst(view, edit, primary)) /\ RangeInst(view, edit, primary).primary = primary
<1> DEFINE turned == Before(edit.end, edit.begin)
           lo == IF turned THEN edit.end ELSE edit.begin
           hi == IF turned THEN edit.begin ELSE edit.end
           c1 == ByteCol(LineIn(view, lo[1]), edit, lo[2])
           c2 == ByteCol(LineIn(view, hi[1]), edit, hi[2])
           inst == RangeInst(view, edit, primary)
<1>1. lo \in (Nat \ {0}) \X Nat /\ hi \in (Nat \ {0}) \X Nat /\ ~Before(hi, lo) BY DEF Before, IsRange
<1>2. inst.primary = primary /\ inst.begin = <<lo[1], c1>> /\ inst.end = <<hi[1], c2>> BY DEF RangeInst
<1> HIDE DEF inst, lo, hi
<1>3. \A row : IsLine(LineIn(view, row)) BY NothingHasNoBytes DEF LineIn
<1>4. PICK l1, h1 \in Nat \ {0}, l2, h2 \in Nat : lo[1] = l1 /\ lo[2] = l2 /\ hi[1] = h1 /\ hi[2] = h2 BY <1>1
<1>5. c1 \in Nat /\ c2 \in Nat
  <2>1. l2 <= l2 /\ h2 <= h2 OBVIOUS
  <2>2. c1 = ByteCol(LineIn(view, l1), edit, l2) /\ c2 = ByteCol(LineIn(view, h1), edit, h2) BY <1>4
  <2>3. ByteCol(LineIn(view, l1), edit, l2) \in Nat BY <1>3, <2>1, ByteColsGrow
  <2>4. ByteCol(LineIn(view, h1), edit, h2) \in Nat BY <1>3, <2>1, ByteColsGrow
  <2> HIDE DEF c1, c2
  <2> QED BY <2>2, <2>3, <2>4
<1>6. l1 < h1 \/ (l1 = h1 /\ l2 <= h2) BY <1>1, <1>4 DEF Before
<1>7. l1 = h1 => c1 <= c2
  <2> SUFFICES ASSUME l1 = h1 PROVE c1 <= c2 OBVIOUS
  <2>1. c1 = ByteCol(LineIn(view, l1), edit, l2) /\ c2 = ByteCol(LineIn(view, l1), edit, h2) BY <1>4
  <2>2. ByteCol(LineIn(view, l1), edit, l2) <= ByteCol(LineIn(view, l1), edit, h2) BY <1>3, <1>6, ByteColsGrow
  <2> QED BY <2>1, <2>2
<1> HIDE DEF c1, c2
<1>8. inst.begin = <<l1, c1>> /\ inst.end = <<h1, c2>> BY <1>2, <1>4
<1>9. inst.begin \in Positions /\ inst.end \in Positions BY <1>5, <1>8 DEF Positions
<1>10. ~Before(inst.end, inst.begin) BY <1>5, <1>6, <1>7, <1>8 DEF Before
<1>11. ~Before(inst.begin, <<1, 0>>) BY <1>5, <1>8 DEF Before
<1> QED BY <1>2, <1>9, <1>10, <1>11 DEF IsInst, inst

IsContext(edit) == IsText(edit.prefix) /\ IsText(edit.suffix)

LEMMA ContextsAreInsts ==
  ASSUME NEW view, \A row \in DOMAIN view : IsLine(view[row]), NEW edit, IsContext(edit)
  PROVE  IsInst(ContextInst(view, edit)) /\ ContextInst(view, edit).primary
<1> DEFINE inst == ContextInst(view, edit)
           p == Len(edit.prefix)
           s == Len(edit.suffix)
           above == Bytes(LineIn(view, EpRow - p + 1))
           first == Bytes(edit.prefix[1])
           after == Bytes(edit.suffix[1])
           last == Bytes(edit.suffix[s])
           c1 == IF p > 1 THEN above - first ELSE EpCursor[2] - first
           c2 == IF s > 1 THEN last ELSE EpCursor[2] + after
<1>1. p \in Nat \ {0} /\ s \in Nat \ {0} /\ first \in Nat /\ after \in Nat /\ last \in Nat
  <2>1. p \in Nat \ {0} /\ DOMAIN edit.prefix = 1 .. p /\ \A i \in DOMAIN edit.prefix : IsLine(edit.prefix[i]) BY TextIs DEF IsContext
  <2>2. s \in Nat \ {0} /\ DOMAIN edit.suffix = 1 .. s /\ \A i \in DOMAIN edit.suffix : IsLine(edit.suffix[i]) BY TextIs DEF IsContext
  <2>3. IsLine(edit.prefix[1]) /\ IsLine(edit.suffix[1]) /\ IsLine(edit.suffix[s]) BY <2>1, <2>2
  <2> QED BY <2>1, <2>2, <2>3, LinesHaveBytes
<1>2. above \in Nat
  <2>1. \A row : IsLine(LineIn(view, row)) BY NothingHasNoBytes DEF LineIn
  <2> QED BY <2>1, LinesHaveBytes
<1>3. EpRow \in Nat \ {0} /\ EpCursor[2] \in Nat
  <2>1. EpCursor \in (DOMAIN EpText) \X Nat /\ IsText(EpText) BY EpAssumption
  <2>2. DOMAIN EpText = 1 .. Len(EpText) /\ Len(EpText) \in Nat BY <2>1, TextIs
  <2> QED BY <2>1, <2>2 DEF EpRow
<1>4. inst.primary /\ inst.begin = <<EpRow - p + 1, c1>> /\ inst.end = <<EpRow + s - 1, c2>> BY DEF ContextInst, Last
<1> HIDE DEF inst, p, s, above, first, after, last
<1>5. c1 \in Int /\ c2 \in Int /\ (p = 1 /\ s = 1 => c1 <= c2) BY <1>1, <1>2, <1>3
<1>6. EpRow - p + 1 \in Int /\ EpRow + s - 1 \in Int /\ (EpRow - p + 1 < EpRow + s - 1 \/ (p = 1 /\ s = 1)) BY <1>1, <1>3
<1> HIDE DEF c1, c2
<1>7. inst.begin \in Positions /\ inst.end \in Positions BY <1>4, <1>5, <1>6 DEF Positions
<1>8. ~Before(inst.end, inst.begin) BY <1>1, <1>3, <1>4, <1>5, <1>6 DEF Before
<1>9. inst.primary = TRUE
  <2>1. ContextInst(view, edit).primary = TRUE BY DEF ContextInst
  <2> QED BY <2>1 DEF inst
<1> QED BY <1>7, <1>8, <1>9 DEF IsInst, inst

LEMMA ItemIs ==
  ASSUME NEW item \in EpItems
  PROVE  /\ (item.primary.kind = "context" /\ IsContext(item.primary)) \/ (item.primary.kind = "range" /\ IsRange(item.primary))
         /\ item.secondary \in Seq(ToSet(item.secondary)) /\ Len(item.secondary) \in Nat
         /\ DOMAIN item.secondary = 1 .. Len(item.secondary)
         /\ \A i \in DOMAIN item.secondary : item.secondary[i].kind = "range" /\ IsRange(item.secondary[i])
<1>1. /\ IsEdit(item.primary)
      /\ item.secondary \in Seq(ToSet(item.secondary))
      /\ \A i \in DOMAIN item.secondary : IsEdit(item.secondary[i]) /\ item.secondary[i].kind = "range"
  BY EpAssumption
<1>2. Len(item.secondary) \in Nat /\ DOMAIN item.secondary = 1 .. Len(item.secondary) BY <1>1
<1>3. (item.primary.kind = "context" /\ IsContext(item.primary)) \/ (item.primary.kind = "range" /\ IsRange(item.primary))
  BY <1>1 DEF IsEdit, IsContext, IsRange
<1>4. \A i \in DOMAIN item.secondary : item.secondary[i].kind = "range" /\ IsRange(item.secondary[i])
  BY <1>1 DEF IsEdit, IsRange
<1> QED BY <1>1, <1>2, <1>3, <1>4

\* what is done for the primary edit is one of the two as well
LEMMA PrimaryIs ==
  ASSUME NEW item \in EpItems
  PROVE  /\ \/ Primary(item).kind = "context" /\ IsContext(Primary(item))
            \/ Primary(item).kind = "range" /\ IsRange(Primary(item))
         /\ IsText(Primary(item).new) /\ IsText(Primary(item).stop)
<1>1. /\ IsText(item.primary.new) /\ IsText(item.primary.stop) /\ IsText(item.primary.prefix) /\ IsText(item.primary.suffix)
  BY EpAssumption DEF IsEdit
<1>2. CASE Primary(item) = item.primary BY <1>1, <1>2, ItemIs
<1>3. CASE Primary(item) = Adjusted(item.primary)
  <2>1. /\ Primary(item).kind = "context" /\ Primary(item).prefix = item.primary.prefix /\ Primary(item).suffix = item.primary.suffix
        /\ Primary(item).new = item.primary.new /\ Primary(item).stop = item.primary.new
    BY <1>3 DEF Adjusted
  <2>2. IsContext(Primary(item)) BY <1>1, <2>1 DEF IsContext
  <2> QED BY <1>1, <2>1, <2>2
<1> QED BY <1>2, <1>3 DEF Primary

LEMMA CursorIs == EpRow \in Nat \ {0} /\ EpCursor[2] \in Nat /\ IsText(EpText)
<1>1. EpCursor \in (DOMAIN EpText) \X Nat /\ IsText(EpText) BY EpAssumption
<1>2. DOMAIN EpText = 1 .. Len(EpText) /\ Len(EpText) \in Nat BY <1>1, TextIs
<1> QED BY <1>1, <1>2 DEF EpRow

\* what is fetched has a last row
LEMMA RowsEnd ==
  ASSUME NEW item \in EpItems, NEW rows \in RowsToFetch(item)
  PROVE  rows.hi \in Int
<1> DEFINE k == Len(item.secondary)
           Clipped(lo, hi) == [lo |-> lo, hi |-> Min({Len(EpText), hi + k})]
           RowsOf(edit) == IF edit.kind = "context" THEN Clipped(EpRow - Len(edit.prefix) + 1, EpRow + Len(edit.suffix) - 1)
                       ELSE Clipped(edit.begin[1], edit.end[1])
<1>1. k \in Nat /\ Len(EpText) \in Nat BY ItemIs, CursorIs, TextIs
<1>2. \A lo : \A hi \in Nat : Clipped(lo, hi).hi \in Int
  <2> SUFFICES ASSUME NEW lo, NEW hi \in Nat PROVE Clipped(lo, hi).hi \in Int OBVIOUS
  <2>1. hi + k \in Nat BY <1>1
  <2> HIDE DEF k
  <2>2. Min({Len(EpText), hi + k}) \in Nat BY <1>1, <2>1, LeastOfTwo
  <2> QED BY <2>2
<1>3. ASSUME NEW edit, IsContext(edit) \/ IsRange(edit), edit.kind = "context" => IsContext(edit), edit.kind # "context" => IsRange(edit)
      PROVE  RowsOf(edit).hi \in Int
  <2>1. CASE edit.kind = "context"
    <3>1. Len(edit.suffix) \in Nat \ {0} BY <1>3, <2>1, TextIs DEF IsContext
    <3>2. EpRow + Len(edit.suffix) - 1 \in Nat BY <3>1, CursorIs
    <3>3. RowsOf(edit) = Clipped(EpRow - Len(edit.prefix) + 1, EpRow + Len(edit.suffix) - 1) BY <2>1
    <3> HIDE DEF Clipped, RowsOf
    <3> QED BY <1>2, <3>2, <3>3
  <2>2. CASE edit.kind # "context"
    <3>1. edit.end[1] \in Nat BY <1>3, <2>2 DEF IsRange
    <3>2. RowsOf(edit) = Clipped(edit.begin[1], edit.end[1]) BY <2>2
    <3> HIDE DEF Clipped, RowsOf
    <3> QED BY <1>2, <3>1, <3>2
  <2> QED BY <2>1, <2>2
<1>4. RowsToFetch(item) = {RowsOf(edit) : edit \in {item.primary} \union ToSet(item.secondary)} BY DEF RowsToFetch
<1>5. PICK edit \in {item.primary} \union ToSet(item.secondary) : rows = RowsOf(edit) BY <1>4
<1> HIDE DEF RowsOf
<1>6. CASE edit = item.primary
  <2>1. IsContext(edit) \/ IsRange(edit) BY <1>6, ItemIs
  <2>2. (edit.kind = "context" => IsContext(edit)) /\ (edit.kind # "context" => IsRange(edit)) BY <1>6, ItemIs
  <2> QED BY <1>3, <1>5, <2>1, <2>2
<1>7. CASE edit \in ToSet(item.secondary)
  <2>1. PICK i \in DOMAIN item.secondary : edit = item.secondary[i] BY <1>7 DEF ToSet
  <2>2. edit.kind = "range" /\ IsRange(edit) BY <2>1, ItemIs
  <2> QED BY <1>3, <1>5, <2>2
<1> QED BY <1>5, <1>6, <1>7

LEMMA ViewHasLines ==
  ASSUME NEW item \in EpItems, NEW text, IsText(text), HasView(item, text)
  PROVE  \A row \in DOMAIN View(item, text) : IsLine(View(item, text)[row])
<1> SUFFICES ASSUME NEW row \in DOMAIN View(item, text) PROVE IsLine(View(item, text)[row]) OBVIOUS
<1>1. row \in UNION {rows.lo .. rows.hi : rows \in RowsToFetch(item)} /\ View(item, text)[row] = text[row] BY DEF View
<1>2. PICK rows \in RowsToFetch(item) : row \in rows.lo .. rows.hi BY <1>1
<1>3. rows.lo \in 1 .. Len(text) + 1 /\ rows.hi <= Len(text) /\ rows.hi \in Int BY RowsEnd DEF HasView
<1>4. Len(text) \in Nat /\ DOMAIN text = 1 .. Len(text) BY TextIs
<1>5. row \in 1 .. Len(text) BY <1>2, <1>3, <1>4
<1> QED BY <1>1, <1>4, <1>5, TextIs

LEMMA InstructionsAreInsts ==
  ASSUME NEW item \in EpItems, NEW text, IsText(text), HasView(item, text), NEW insts, insts = Instructions(View(item, text), item)
  PROVE  AreInsts(insts) /\ OneIsPrimary(insts)
<1> DEFINE view == View(item, text)
           k == Len(item.secondary)
           edit == Primary(item)
           first == IF edit.kind = "range" THEN RangeInst(view, edit, TRUE) ELSE ContextInst(view, edit)
           rest == [i \in DOMAIN item.secondary |-> RangeInst(view, item.secondary[i], FALSE)]
<1>1. \A row \in DOMAIN view : IsLine(view[row]) BY ViewHasLines
<1> HIDE DEF view
<1>2. k \in Nat /\ DOMAIN item.secondary = 1 .. k BY ItemIs
<1>3. IsInst(first) /\ first.primary
  <2> HIDE DEF edit
  <2>1. CASE edit.kind = "range"
    <3>1. IsRange(edit) BY <2>1, PrimaryIs DEF edit
    <3> QED BY <1>1, <2>1, <3>1, RangesAreInsts
  <2>2. CASE edit.kind # "range"
    <3>1. IsContext(edit) BY <2>2, PrimaryIs DEF edit
    <3> QED BY <1>1, <2>2, <3>1, ContextsAreInsts
  <2> QED BY <2>1, <2>2
<1>4. \A i \in 1 .. k : IsInst(rest[i]) /\ ~rest[i].primary
  <2> SUFFICES ASSUME NEW i \in 1 .. k PROVE IsInst(rest[i]) /\ ~rest[i].primary OBVIOUS
  <2>1. rest[i] = RangeInst(view, item.secondary[i], FALSE) BY <1>2
  <2>2. IsRange(item.secondary[i]) BY <1>2, ItemIs
  <2> HIDE DEF rest
  <2> QED BY <1>1, <2>1, <2>2, RangesAreInsts
<1>5. insts = <<first>> \o rest BY DEF Instructions, view
<1> DEFINE X == {first} \union {rest[i] : i \in 1 .. k}
<1>6. rest \in Seq(X) /\ Len(rest) = k /\ first \in X
  <2>1. rest = [i \in 1 .. k |-> RangeInst(view, item.secondary[i], FALSE)] BY <1>2
  <2>2. DOMAIN rest = 1 .. k BY <1>2
  <2>3. \A i \in 1 .. k : rest[i] \in X OBVIOUS
  <2>4. rest \in [1 .. k -> X] BY <2>1, <2>3
  <2> HIDE DEF rest, X
  <2>5. rest \in Seq(X) BY <1>2, <2>4
  <2>6. Len(rest) = k BY <1>2, <2>2, <2>5
  <2> QED BY <2>5, <2>6 DEF X
<1> HIDE DEF first, rest
<1>7. insts \in Seq(X) /\ DOMAIN insts = 1 .. k + 1 /\ insts[1] = first /\ \A i \in 2 .. k + 1 : insts[i] = rest[i - 1]
  <2> HIDE DEF X
  <2>1. Len(<<first>>) = 1 /\ <<first>> \in Seq(X) BY <1>6
  <2>2. insts \in Seq(X) /\ Len(insts) = k + 1 BY <1>2, <1>5, <1>6, <2>1
  <2>3. \A i \in 1 .. k + 1 : insts[i] = IF i <= 1 THEN <<first>>[i] ELSE rest[i - 1] BY <1>2, <1>5, <1>6, <2>1
  <2> QED BY <1>2, <2>2, <2>3
<1>8. \A i \in DOMAIN insts : IsInst(insts[i]) /\ (insts[i].primary => i = 1)
  <2> SUFFICES ASSUME NEW i \in 1 .. k + 1 PROVE IsInst(insts[i]) /\ (insts[i].primary => i = 1) BY <1>7
  <2>1. CASE i = 1 BY <1>3, <1>7, <2>1
  <2>2. CASE i # 1
    <3>1. i \in 2 .. k + 1 /\ i - 1 \in 1 .. k BY <1>2, <2>2
    <3> QED BY <1>4, <1>7, <3>1
  <2> QED BY <2>1, <2>2
<1>9. insts \in Seq(ToSet(insts)) BY <1>7, SeqOfItsOwn
<1>10. 1 \in DOMAIN insts /\ insts[1].primary BY <1>2, <1>3, <1>7
<1> QED BY <1>8, <1>9, <1>10 DEF AreInsts, OneIsPrimary

-----------------------------------------------------------------------------
\* The plan is made once, of the text that is there when what was typed is taken out.
EpIInv ==
  /\ epItem \in EpItems /\ epTyped \in EpTyped
  /\ epAt \in {"typed", "parse", "failed", "apply", "done"}
  /\ epAt = "typed" => epText = TextTyped(epTyped)
  /\ epAt = "parse" => epText = TextSeen
  /\ PlanIsDisjoint

LEMMA TextSeenIsText == ASSUME epTyped \in EpTyped PROVE IsText(TextSeen)
<1>1. IsText(epTyped) BY EpAssumption
<1>2. IsText(TextTyped(epTyped)) BY <1>1, CursorIs, SetTextIsText DEF TextTyped
<1>3. IsText(<<<<>>>>)
  <2>1. <<<<>>>> \in Seq({<<>>}) /\ <<<<>>>> # <<>> OBVIOUS
  <2>2. \A l \in {<<>>} : IsLine(l) BY NothingHasNoBytes
  <2> QED BY <2>1, <2>2, IsTextBy
<1>4. IsText(SetText(TextTyped(epTyped), EpCursor, MarkAfter, <<<<>>>>)) BY <1>2, <1>3, SetTextIsText
<1> QED BY <1>2, <1>4 DEF TextSeen

LEMMA EpStart == EpInit => EpIInv
BY DEF EpInit, EpIInv, PlanIsDisjoint

LEMMA ParseIsDisjoint ==
  ASSUME EpIInv, EpParse
  PROVE  EpIInv'
<1>1. epText = TextSeen /\ epItem \in EpItems /\ epTyped \in EpTyped BY DEF EpIInv, EpParse
<1>2. epItem' = epItem /\ epTyped' = epTyped /\ epKept' = epKept BY DEF EpParse
<1>3. TextSeen' = TextSeen BY <1>2 DEF TextSeen, MarkAfter
<1>4. CASE HasView(epItem, epText)
  <2>1. epPlan' = Consolidate(Instructions(View(epItem, TextSeen), epItem)) /\ epAt' = "apply" BY <1>1, <1>4 DEF EpParse
  <2>2. IsText(TextSeen) BY <1>1, TextSeenIsText
  <2> DEFINE insts == Instructions(View(epItem, TextSeen), epItem)
  <2>3. AreInsts(insts) /\ OneIsPrimary(insts) BY <1>1, <1>4, <2>2, InstructionsAreInsts
  <2> HIDE DEF insts
  <2>4. epPlan' = Consolidate(insts) BY <2>1 DEF insts
  <2>5. PICK plan : plan = epPlan' OBVIOUS
  <2>6. /\ plan \in Seq(ToSet(insts)) /\ IsDisjoint(plan)
        /\ \E k \in DOMAIN plan : plan[k].primary
        /\ \A inst \in ToSet(insts) \ ToSet(plan) : \E other \in ToSet(insts) :
             /\ Overlap(inst, other)
             /\ other \in ToSet(plan) \/ \E kept \in ToSet(plan) : kept.primary /\ Overlap(other, kept)
    BY <2>3, <2>4, <2>5, ConsolidateIsDisjoint
  <2>7. ToSet(plan) \in SUBSET ToSet(insts) BY <2>6, SeqOfItsOwn
  <2>8. insts = Instructions(View(epItem', TextSeen'), epItem') BY <1>2, <1>3 DEF insts
  <2>9. PlanIsDisjoint' BY <2>5, <2>6, <2>7, <2>8 DEF PlanIsDisjoint, IsDisjoint
  <2> QED BY <1>1, <1>2, <2>1, <2>9 DEF EpIInv
<1>5. CASE ~HasView(epItem, epText) BY <1>1, <1>2, <1>5 DEF EpParse, EpIInv, PlanIsDisjoint
<1> QED BY <1>4, <1>5

LEMMA RestoreIsSeen ==
  ASSUME EpIInv, EpRestore
  PROVE  EpIInv'
<1>1. epText = TextTyped(epTyped) /\ epItem' = epItem /\ epTyped' = epTyped /\ epAt' = "parse" BY DEF EpIInv, EpRestore
<1>2. epText' = IF epKept' = <<>> THEN epText ELSE SetText(epText, EpCursor, MarkAfter, <<<<>>>>) BY DEF EpRestore
<1>3. MarkAfter' = MarkAfter BY <1>1 DEF MarkAfter
<1>4. epText' = TextSeen' BY <1>1, <1>2, <1>3 DEF TextSeen
<1> QED BY <1>1, <1>4 DEF EpIInv, PlanIsDisjoint

\* after that the plan stays
LEMMA PlanStays ==
  ASSUME EpIInv, UNCHANGED <<epItem, epTyped, epPlan, epKept>>, epAt' = epAt \/ (epAt = "apply" /\ epAt' = "done"),
         epText' = epText \/ epAt = "apply"
  PROVE  EpIInv'
<1>1. TextSeen' = TextSeen BY DEF TextSeen, MarkAfter
<1> DEFINE All == ToSet(Instructions(View(epItem, TextSeen), epItem))
<1>2. All' = All BY <1>1
<1> QED BY <1>1, <1>2 DEF EpIInv, PlanIsDisjoint

LEMMA EpStep == EpIInv /\ [EpNext]_epVars => EpIInv'
<1> SUFFICES ASSUME EpIInv, [EpNext]_epVars PROVE EpIInv' OBVIOUS
<1>1. CASE EpRestore BY <1>1, RestoreIsSeen
<1>2. CASE EpParse BY <1>2, ParseIsDisjoint
<1>3. CASE EpApply
  <2>1. epAt = "apply" /\ epAt' = epAt /\ UNCHANGED <<epItem, epTyped, epPlan, epKept>> BY <1>3 DEF EpApply
  <2> QED BY <2>1, PlanStays
<1>4. CASE EpPutBack
  <2>1. epAt = "apply" /\ epAt' = "done" /\ UNCHANGED <<epItem, epTyped, epPlan, epKept>> BY <1>4 DEF EpPutBack
  <2> QED BY <2>1, PlanStays
<1>5. CASE UNCHANGED epVars BY <1>5, PlanStays DEF epVars
<1> QED BY <1>1, <1>2, <1>3, <1>4, <1>5 DEF EpNext

\* No two instructions of a plan overlap, the primary one is in it, and one that is left out
\* overlaps one that is not, or else one that the primary one puts out (edit.py:361); for every text, every
\* item with any number of edits, and whatever is typed.
THEOREM PlanIsDisjointCorrect == EpSpec => []PlanIsDisjoint
<1>1. EpIInv => PlanIsDisjoint BY DEF EpIInv
<1> QED BY <1>1, EpStart, EpStep, PTL DEF EpSpec

-----------------------------------------------------------------------------
(* Marks.  In what turn they are visited, and which instructions replace what is under them.      *)

\* In a total order as many are ahead of one as its place says.
IsTotal(S, A) ==
  /\ IsFiniteSet(S) /\ A \in [S -> SUBSET S]
  /\ \A i \in S : i \notin A[i]
  /\ \A i, j, k \in S : i \in A[j] /\ j \in A[k] => i \in A[k]
  /\ \A i, j \in S : i # j => i \in A[j] \/ j \in A[i]

LEMMA RanksAreTaken ==
  ASSUME NEW S, NEW A, IsTotal(S, A)
  PROVE  /\ Cardinality(S) \in Nat
         /\ \A k \in S : Cardinality(A[k]) \in Nat
         /\ \A j, k \in S : j \in A[k] => Cardinality(A[j]) < Cardinality(A[k])
         /\ \A m \in 1 .. Cardinality(S) : \E k \in S : Cardinality(A[k]) = m - 1
<1> USE DEF IsTotal
<1> DEFINE n == Cardinality(S)
<1>1. n \in Nat BY FS_CardinalityType
<1>2. \A k \in S : IsFiniteSet(A[k]) /\ Cardinality(A[k]) \in Nat BY FS_Subset, FS_CardinalityType
<1>3. ASSUME NEW j \in S, NEW k \in S, j \in A[k] PROVE Cardinality(A[j]) < Cardinality(A[k])
  <2>1. A[j] \in SUBSET A[k] BY <1>3
  <2>2. j \notin A[j] OBVIOUS
  <2>3. Cardinality(A[j]) <= Cardinality(A[k]) /\ Cardinality(A[j]) # Cardinality(A[k]) BY <1>2, <1>3, <2>1, <2>2, FS_Subset
  <2> QED BY <1>2, <2>3
<1>4. ASSUME NEW k \in S PROVE Cardinality(A[k]) \in 0 .. n - 1
  <2>1. k \notin A[k] OBVIOUS
  <2>2. Cardinality(A[k]) <= n /\ Cardinality(A[k]) # n BY <2>1, FS_Subset
  <2> QED BY <1>1, <1>2, <2>2
<1> DEFINE R == [k \in S |-> Cardinality(A[k])]
<1>5. R \in [S -> 0 .. n - 1] BY <1>4
<1>6. \A k \in S : R[k] = Cardinality(A[k]) OBVIOUS
<1> HIDE DEF R
<1>7. R \in Injection(S, 0 .. n - 1)
  <2>1. ASSUME NEW j \in S, NEW k \in S, j # k PROVE R[j] # R[k]
    <3>1. j \in A[k] \/ k \in A[j] BY <2>1
    <3>2. Cardinality(A[j]) # Cardinality(A[k]) BY <1>2, <1>3, <3>1
    <3> QED BY <1>6, <3>2
  <2> QED BY <1>5, <2>1 DEF Injection, IsInjective
<1>8. IsFiniteSet(0 .. n - 1) /\ Cardinality(0 .. n - 1) = n BY <1>1, UptoIsFinite
<1>9. R \in Surjection(S, 0 .. n - 1) BY <1>7, <1>8, FS_Injection
<1>10. \A t \in 0 .. n - 1 : \E k \in S : R[k] = t BY <1>9 DEF Surjection
<1>11. \A m \in 1 .. n : \E k \in S : Cardinality(A[k]) = m - 1
  <2>1. \A m \in 1 .. n : m - 1 \in 0 .. n - 1 BY <1>1
  <2> QED BY <1>6, <1>10, <2>1
<1> QED BY <1>1, <1>2, <1>3, <1>11

\* The marks of a set one after the other.
AreMarks(marks) ==
  /\ IsFiniteSet(marks)
  /\ \A m \in marks : IsMark(m) /\ m.begin \in Nat /\ m.end \in Nat
  /\ \A k, m \in marks : k # m => k.id # m.id

LEMMA PrecedesIsOrder ==
  ASSUME NEW marks, AreMarks(marks)
  PROVE  /\ \A m \in marks : ~Precedes(m, m)
         /\ \A k, l, m \in marks : Precedes(k, l) /\ Precedes(l, m) => Precedes(k, m)
         /\ \A k, m \in marks : k # m => Precedes(k, m) \/ Precedes(m, k)
<1>1. \A m \in marks : m.id \in Nat /\ m.idx \in Nat /\ m.begin \in Nat /\ m.end \in Nat BY DEF AreMarks, IsMark
<1>2. \A m \in marks : ~Precedes(m, m) BY <1>1 DEF Precedes
<1>3. \A k, m \in marks : k # m => Precedes(k, m) \/ Precedes(m, k) BY <1>1 DEF Precedes, AreMarks
<1>4. ASSUME NEW k \in marks, NEW l \in marks, NEW m \in marks, Precedes(k, l), Precedes(l, m) PROVE Precedes(k, m)
  BY <1>1, <1>4 DEF Precedes
<1> QED BY <1>2, <1>3, <1>4

LEMMA InTurnIsOrder ==
  ASSUME NEW marks, AreMarks(marks)
  PROVE  /\ Len(InTurn(marks)) = Cardinality(marks) /\ Cardinality(marks) \in Nat
         /\ DOMAIN InTurn(marks) = 1 .. Cardinality(marks)
         /\ InTurn(marks) \in Seq(marks)
         /\ \A i, j \in DOMAIN InTurn(marks) : i < j => Precedes(InTurn(marks)[i], InTurn(marks)[j])
<1> DEFINE A == [m \in marks |-> {k \in marks : Precedes(k, m)}]
           n == Cardinality(marks)
           seq == InTurn(marks)
<1>1. IsTotal(marks, A)
  <2>1. A \in [marks -> SUBSET marks] /\ IsFiniteSet(marks) BY DEF AreMarks
  <2>2. \A j, k \in marks : j \in A[k] <=> Precedes(j, k) OBVIOUS
  <2> HIDE DEF A
  <2> QED BY <2>1, <2>2, PrecedesIsOrder DEF IsTotal
<1>2. /\ n \in Nat
      /\ \A k \in marks : Cardinality(A[k]) \in Nat
      /\ \A j, k \in marks : j \in A[k] => Cardinality(A[j]) < Cardinality(A[k])
      /\ \A m \in 1 .. n : \E k \in marks : Cardinality(A[k]) = m - 1
  <2> HIDE DEF A
  <2> QED BY <1>1, RanksAreTaken
<1> DEFINE f(t) == CHOOSE m \in marks : Cardinality(A[m]) = t - 1
<1>3. \A t \in 1 .. n : f(t) \in marks /\ Cardinality(A[f(t)]) = t - 1
  <2> HIDE DEF A
  <2> QED BY <1>2
<1>4. seq = [t \in 1 .. n |-> f(t)]
  <2>1. \A m \in marks : A[m] = {k \in marks : Precedes(k, m)} OBVIOUS
  <2> HIDE DEF A
  <2>2. \A t \in 1 .. n : f(t) = CHOOSE m \in marks : Cardinality({k \in marks : Precedes(k, m)}) = t - 1
    <3> SUFFICES ASSUME NEW t \in 1 .. n PROVE f(t) = CHOOSE m \in marks : Cardinality({k \in marks : Precedes(k, m)}) = t - 1 OBVIOUS
    <3>1. \A m \in marks : (Cardinality(A[m]) = t - 1) <=> (Cardinality({k \in marks : Precedes(k, m)}) = t - 1) BY <2>1
    <3> QED BY <3>1
  <2> HIDE DEF f
  <2> QED BY <2>2 DEF InTurn
<1> HIDE DEF f, A, seq
<1>5. DOMAIN seq = 1 .. n /\ seq \in Seq(marks) /\ Len(seq) = n
  <2>1. seq \in [1 .. n -> marks] BY <1>3, <1>4
  <2> HIDE DEF n
  <2>2. seq \in Seq(marks) BY <1>2, <2>1
  <2>3. DOMAIN seq = 1 .. n BY <2>1
  <2> QED BY <1>2, <2>2, <2>3
<1>6. ASSUME NEW i \in 1 .. n, NEW j \in 1 .. n, i < j PROVE Precedes(seq[i], seq[j])
  <2>1. seq[i] = f(i) /\ seq[j] = f(j) BY <1>4
  <2>2. f(i) \in marks /\ f(j) \in marks /\ Cardinality(A[f(i)]) = i - 1 /\ Cardinality(A[f(j)]) = j - 1 BY <1>3
  <2>3. f(j) \notin A[f(i)] BY <1>2, <1>6, <2>2
  <2>4. f(i) # f(j) BY <1>2, <1>6, <2>2
  <2>5. f(i) \in A[f(j)] BY <1>1, <2>2, <2>3, <2>4 DEF IsTotal
  <2>6. \A k, m \in marks : k \in A[m] => Precedes(k, m) BY DEF A
  <2> QED BY <2>1, <2>2, <2>5, <2>6
<1> QED BY <1>2, <1>5, <1>6 DEF seq

-----------------------------------------------------------------------------
(* The bytes of a part of a line.                                            *)

LEMMA BytesAdd ==
  ASSUME NEW a, IsLine(a), NEW b, IsLine(b)
  PROVE  Bytes(a \o b) = Bytes(a) + Bytes(b)
<1> DEFINE n == Len(a)
           c == a \o b
           W(l) == {i \in DOMAIN l : l[i] \in EpWide}
           V == {i + n : i \in W(b)}
<1>1. a \in Seq(ToSet(a)) /\ b \in Seq(ToSet(b)) BY DEF IsLine
<1>2. n \in Nat /\ Len(b) \in Nat /\ DOMAIN a = 1 .. n /\ DOMAIN b = 1 .. Len(b) /\ Bytes(a) \in Nat /\ Bytes(b) \in Nat BY LinesHaveBytes
<1>3. Len(c) = n + Len(b) /\ DOMAIN c = 1 .. n + Len(b) /\ \A i \in 1 .. n + Len(b) : c[i] = IF i <= n THEN a[i] ELSE b[i - n]
  <2>1. Len(c) = n + Len(b) /\ \A i \in 1 .. n + Len(b) : c[i] = IF i <= n THEN a[i] ELSE b[i - n] BY <1>1
  <2>2. c \in Seq(ToSet(c)) BY JoinsAreLines DEF IsLine
  <2> HIDE DEF c
  <2> QED BY <2>1, <2>2
<1> HIDE DEF c, n
<1>4. W(c) = W(a) \union V /\ W(a) \cap V = {}
  <2>1. \A i \in W(a) : i \in W(c) /\ i \notin V BY <1>2, <1>3
  <2>2. \A i \in V : i \in W(c) BY <1>2, <1>3
  <2>3. ASSUME NEW i \in W(c) PROVE i \in W(a) \union V
    <3>1. CASE i <= n BY <1>2, <1>3, <3>1
    <3>2. CASE ~(i <= n)
      <4>1. i - n \in W(b) /\ i = i - n + n BY <1>2, <1>3, <3>2
      <4> QED BY <4>1
    <3> QED BY <3>1, <3>2
  <2> QED BY <2>1, <2>2, <2>3
<1>5. IsFiniteSet(W(a)) /\ IsFiniteSet(W(b))
  <2>1. W(a) \in SUBSET (1 .. n) /\ W(b) \in SUBSET (1 .. Len(b)) BY <1>2
  <2>2. IsFiniteSet(1 .. n) /\ IsFiniteSet(1 .. Len(b)) BY <1>2, UptoIsFinite
  <2> HIDE DEF W
  <2> QED BY <2>1, <2>2, FS_Subset
<1>6. IsFiniteSet(V) /\ Cardinality(V) = Cardinality(W(b))
  <2> DEFINE F == [i \in W(b) |-> i + n]
  <2>1. W(b) \in SUBSET Nat BY <1>2
  <2>2. F \in [W(b) -> V] /\ \A i \in W(b) : F[i] = i + n OBVIOUS
  <2>3. \A v \in V : \E i \in W(b) : v = i + n OBVIOUS
  <2> HIDE DEF F, V, W
  <2>4. \A i, j \in W(b) : F[i] = F[j] => i = j BY <1>2, <2>1, <2>2
  <2>5. F \in Bijection(W(b), V) BY <2>2, <2>3, <2>4 DEF Bijection, Injection, Surjection, IsInjective
  <2> QED BY <1>5, <2>5, FS_Bijection DEF ExistsBijection
<1>7. Cardinality(W(a)) \in Nat /\ Cardinality(W(b)) \in Nat
  <2> HIDE DEF W
  <2> QED BY <1>5, FS_CardinalityType
<1>8. Cardinality(W(c)) = Cardinality(W(a)) + Cardinality(W(b))
  <2> HIDE DEF W, V
  <2>1. Cardinality(W(a) \union V) = Cardinality(W(a)) + Cardinality(V) - Cardinality(W(a) \cap V) BY <1>5, <1>6, FS_Union
  <2>2. Cardinality(W(a) \cap V) = 0 BY <1>4, FS_EmptySet
  <2> QED BY <1>4, <1>6, <1>7, <2>1, <2>2
<1>9. Bytes(a) = n + Cardinality(W(a)) /\ Bytes(b) = Len(b) + Cardinality(W(b)) /\ Bytes(c) = Len(c) + Cardinality(W(c)) BY DEF Bytes, n
<1> HIDE DEF W
<1>10. Bytes(c) = Bytes(a) + Bytes(b) BY <1>2, <1>3, <1>7, <1>8, <1>9
<1> QED BY <1>10 DEF c

LEMMA BytesAreEnough ==
  ASSUME NEW line, IsLine(line)
  PROVE  Bytes(line) >= Len(line)
<1> DEFINE W == {i \in DOMAIN line : line[i] \in EpWide}
<1>1. Len(line) \in Nat /\ DOMAIN line = 1 .. Len(line) BY LinesHaveBytes
<1>2. IsFiniteSet(W)
  <2>1. W \in SUBSET (1 .. Len(line)) /\ IsFiniteSet(1 .. Len(line)) BY <1>1, UptoIsFinite
  <2> HIDE DEF W
  <2> QED BY <2>1, FS_Subset
<1>3. Cardinality(W) \in Nat
  <2> HIDE DEF W
  <2> QED BY <1>2, FS_CardinalityType
<1> HIDE DEF W
<1>4. Bytes(line) = Len(line) + Cardinality(W) BY DEF Bytes, W
<1> QED BY <1>1, <1>3, <1>4

\* the first characters of a line, and their bytes
Pre(line, k) == SubSeq(line, 1, k)
PreBytes(line, k) == Bytes(Pre(line, k))
Stretch(line, j, k) == SubSeq(line, j + 1, k)

LEMMA CutsAre ==
  ASSUME NEW line, IsLine(line), NEW j \in 0 .. Len(line), NEW k \in 0 .. Len(line), j <= k
  PROVE  /\ IsLine(Stretch(line, j, k)) /\ IsLine(Pre(line, k))
         /\ Len(Stretch(line, j, k)) = k - j /\ Len(Pre(line, k)) = k
         /\ DOMAIN Stretch(line, j, k) = 1 .. k - j /\ DOMAIN Pre(line, k) = 1 .. k
         /\ \A i \in 1 .. k - j : Stretch(line, j, k)[i] = line[i + j]
         /\ \A i \in 1 .. k : Pre(line, k)[i] = line[i]
         /\ Pre(line, k) = Pre(line, j) \o Stretch(line, j, k)
<1>1. line \in Seq(ToSet(line)) BY DEF IsLine
<1>2. Len(line) \in Nat BY <1>1
<1>3. IsLine(Stretch(line, j, k)) /\ IsLine(Pre(line, k)) /\ IsLine(Pre(line, j))
  <2>1. j + 1 \in Int /\ j + 1 >= 1 /\ k \in Int /\ j \in Int /\ k <= Len(line) /\ j <= Len(line) /\ 1 \in Int /\ 1 >= 1 BY <1>2
  <2>2. IsLine(SubSeq(line, j + 1, k)) BY <2>1, PartsAreLines
  <2>3. IsLine(SubSeq(line, 1, k)) BY <2>1, PartsAreLines
  <2>4. IsLine(SubSeq(line, 1, j)) BY <2>1, PartsAreLines
  <2> QED BY <2>2, <2>3, <2>4 DEF Stretch, Pre
<1>4. Len(Stretch(line, j, k)) = k - j /\ \A i \in 1 .. k - j : Stretch(line, j, k)[i] = line[i + j]
  <2>1. \A i \in 1 .. k - j : i + j = i + (j + 1) - 1 BY <1>2
  <2> QED BY <1>1, <1>2, <2>1 DEF Stretch
<1>5. Len(Pre(line, k)) = k /\ \A i \in 1 .. k : Pre(line, k)[i] = line[i] BY <1>1, <1>2 DEF Pre
<1>6. Len(Pre(line, j)) = j /\ \A i \in 1 .. j : Pre(line, j)[i] = line[i] BY <1>1, <1>2 DEF Pre
<1>7. DOMAIN Stretch(line, j, k) = 1 .. k - j /\ DOMAIN Pre(line, k) = 1 .. k BY <1>3, <1>4, <1>5, LinesHaveBytes
<1>8. Pre(line, k) = Pre(line, j) \o Stretch(line, j, k)
  <2> DEFINE p == Pre(line, j)
             c == Stretch(line, j, k)
             q == Pre(line, k)
  <2>1. p \in Seq(ToSet(p)) /\ c \in Seq(ToSet(c)) /\ q \in Seq(ToSet(q)) BY <1>3 DEF IsLine
  <2> DEFINE X == ToSet(p) \union ToSet(c) \union ToSet(q)
  <2>2. p \in Seq(X) /\ c \in Seq(X) /\ q \in Seq(X) BY <2>1
  <2> HIDE DEF p, c, q, X
  <2>3. Len(p) = j /\ Len(c) = k - j /\ Len(q) = k BY <1>4, <1>5, <1>6 DEF p, c, q
  <2>4. p \o c \in Seq(X) /\ Len(p \o c) = k BY <1>2, <2>2, <2>3
  <2>5. \A i \in 1 .. k : (p \o c)[i] = q[i]
    <3> SUFFICES ASSUME NEW i \in 1 .. k PROVE (p \o c)[i] = q[i] OBVIOUS
    <3>1. (p \o c)[i] = IF i <= j THEN p[i] ELSE c[i - j] BY <1>2, <2>2, <2>3
    <3>2. q[i] = line[i] BY <1>5 DEF q
    <3>3. CASE i <= j BY <1>2, <1>6, <3>1, <3>2, <3>3 DEF p
    <3>4. CASE ~(i <= j)
      <4>1. i - j \in 1 .. k - j /\ i - j + j = i BY <1>2, <3>4
      <4>2. c[i - j] = line[i] BY <1>4, <4>1 DEF c
      <4> QED BY <3>1, <3>2, <3>4, <4>2
    <3> QED BY <3>3, <3>4
  <2>6. p \o c = q BY <1>2, <2>2, <2>3, <2>4, <2>5
  <2> QED BY <2>6 DEF p, c, q
<1> QED BY <1>3, <1>4, <1>5, <1>7, <1>8

LEMMA PreBytesGrow ==
  ASSUME NEW line, IsLine(line), NEW j \in 0 .. Len(line), NEW k \in 0 .. Len(line), j <= k
  PROVE  /\ PreBytes(line, j) \in Nat /\ PreBytes(line, k) \in Nat
         /\ PreBytes(line, k) = PreBytes(line, j) + Bytes(Stretch(line, j, k))
         /\ PreBytes(line, j) <= PreBytes(line, k)
         /\ j < k => PreBytes(line, j) < PreBytes(line, k)
<1>1. Len(line) \in Nat BY LinesHaveBytes
<1>2. j \in 0 .. Len(line) /\ 0 \in 0 .. Len(line) /\ 0 <= j BY <1>1
<1>3. IsLine(Pre(line, j)) BY <1>2, CutsAre
<1>4. /\ IsLine(Stretch(line, j, k)) /\ IsLine(Pre(line, k)) /\ Len(Stretch(line, j, k)) = k - j
      /\ Pre(line, k) = Pre(line, j) \o Stretch(line, j, k) BY CutsAre
<1>5. PreBytes(line, k) = PreBytes(line, j) + Bytes(Stretch(line, j, k)) BY <1>3, <1>4, BytesAdd DEF PreBytes
<1>6. Bytes(Stretch(line, j, k)) \in Nat /\ Bytes(Stretch(line, j, k)) >= k - j BY <1>4, LinesHaveBytes, BytesAreEnough
<1>7. PreBytes(line, j) \in Nat /\ PreBytes(line, k) \in Nat BY <1>3, <1>4, LinesHaveBytes DEF PreBytes
<1> QED BY <1>1, <1>5, <1>6, <1>7

LEMMA WholeIsPre ==
  ASSUME NEW line, IsLine(line)
  PROVE  Pre(line, Len(line)) = line /\ PreBytes(line, Len(line)) = Bytes(line) /\ PreBytes(line, 0) = 0
<1>1. line \in Seq(ToSet(line)) BY DEF IsLine
<1>2. Pre(line, Len(line)) = line BY <1>1 DEF Pre
<1>3. Pre(line, 0) = <<>> BY <1>1 DEF Pre
<1>4. PreBytes(line, 0) = 0 BY <1>3, NothingHasNoBytes, Zenon DEF PreBytes
<1> QED BY <1>2, <1>4 DEF PreBytes

\* what is up to the column between two characters, and what is from there
LEMMA UptoOfIs ==
  ASSUME NEW line, IsLine(line), NEW k \in 0 .. Len(line)
  PROVE  /\ UptoOf(line, PreBytes(line, k)) = k
         /\ Upto(line, PreBytes(line, k)) = Pre(line, k)
         /\ From(line, PreBytes(line, k)) = Stretch(line, k, Len(line))
<1> DEFINE b == PreBytes(line, k)
           u == UptoOf(line, b)
<1>1. Len(line) \in Nat BY LinesHaveBytes
<1>2. k <= k /\ k \in 0 .. Len(line) BY <1>1
<1>3. b \in Nat BY <1>2, PreBytesGrow
<1>4. /\ u \in 0 .. Len(line) /\ Upto(line, b) = Pre(line, u) /\ PreBytes(line, u) <= b
      /\ u < Len(line) => ~(PreBytes(line, u + 1) <= b)
  <2> HIDE DEF b
  <2> QED BY <1>3, UptoFits DEF PreBytes, Pre
<1> HIDE DEF u
<1>5. ~(k < u)
  <2> SUFFICES ASSUME k < u PROVE FALSE OBVIOUS
  <2>1. k <= u BY <1>1, <1>4
  <2>2. PreBytes(line, u) \in Nat /\ b < PreBytes(line, u) BY <1>4, <2>1, PreBytesGrow
  <2> QED BY <1>3, <1>4, <2>2
<1>6. ~(u < k)
  <2> SUFFICES ASSUME u < k PROVE FALSE OBVIOUS
  <2>1. u + 1 \in 0 .. Len(line) /\ u + 1 <= k /\ u < Len(line) BY <1>1, <1>4
  <2>2. PreBytes(line, u + 1) <= b BY <2>1, PreBytesGrow
  <2> QED BY <1>4, <2>1, <2>2
<1>7. u = k BY <1>1, <1>4, <1>5, <1>6
<1>8. Upto(line, b) = Pre(line, k) BY <1>4, <1>7
<1>9. Len(Pre(line, k)) = k BY <1>2, CutsAre
<1>10. From(line, b) = Stretch(line, k, Len(line)) BY <1>8, <1>9 DEF From, Stretch
<1> QED BY <1>7, <1>8, <1>10 DEF u

\* what is from one place between two characters to another
LEMMA TextAtIs ==
  ASSUME NEW line, IsLine(line), NEW j \in 0 .. Len(line), NEW k \in 0 .. Len(line), j <= k
  PROVE  TextAt(line, PreBytes(line, j), PreBytes(line, k)) = Stretch(line, j, k)
<1> DEFINE p == Pre(line, k)
<1>1. Len(line) \in Nat BY LinesHaveBytes
<1>2. IsLine(p) /\ Len(p) = k /\ \A i \in 1 .. k : p[i] = line[i] BY CutsAre
<1>3. Upto(line, PreBytes(line, k)) = p BY UptoOfIs
<1>4. line \in Seq(ToSet(line)) BY DEF IsLine
<1>5. Pre(p, j) = Pre(line, j) BY <1>1, <1>4 DEF Pre
<1>6. Stretch(p, j, Len(p)) = Stretch(line, j, k)
  <2>1. Len(p) = k BY <1>2
  <2>2. SubSeq(SubSeq(line, 1, k), j + 1, k) = SubSeq(line, j + 1, k) BY <1>1, <1>4
  <2> QED BY <2>1, <2>2 DEF Stretch, Pre
<1> HIDE DEF p
<1>7. j \in 0 .. Len(p) BY <1>1, <1>2
<1>8. From(p, PreBytes(p, j)) = Stretch(p, j, Len(p)) BY <1>2, <1>7, UptoOfIs
<1>9. PreBytes(p, j) = PreBytes(line, j) BY <1>5 DEF PreBytes
<1> QED BY <1>3, <1>6, <1>8, <1>9 DEF TextAt

\* there is nothing from a column to one before it
LEMMA NothingIsBehind ==
  ASSUME NEW line, IsLine(line), NEW b \in Nat, NEW e \in Nat, e <= b
  PROVE  TextAt(line, b, e) = <<>>
<1> DEFINE p == Upto(line, e)
           u == UptoOf(p, b)
<1>1. IsLine(p) BY UptoAndFromAreLines
<1>2. Bytes(p) <= e BY UptoFits
<1> HIDE DEF p
<1>3. Len(p) \in Nat /\ Bytes(p) \in Nat BY <1>1, LinesHaveBytes
<1>4. u \in 0 .. Len(p) /\ Upto(p, b) = Pre(p, u) /\ (u < Len(p) => ~(PreBytes(p, u + 1) <= b))
  BY <1>1, UptoFits DEF PreBytes, Pre
<1> HIDE DEF u
<1>5. u = Len(p)
  <2> SUFFICES ASSUME u < Len(p) PROVE FALSE BY <1>3, <1>4
  <2>1. u + 1 \in 0 .. Len(p) /\ Len(p) \in 0 .. Len(p) /\ u + 1 <= Len(p) BY <1>3, <1>4
  <2>2. PreBytes(p, u + 1) \in Nat /\ PreBytes(p, u + 1) <= PreBytes(p, Len(p)) BY <1>1, <2>1, PreBytesGrow
  <2>3. PreBytes(p, Len(p)) = Bytes(p) BY <1>1, WholeIsPre
  <2> QED BY <1>2, <1>3, <1>4, <2>2, <2>3
<1>6. Len(Upto(p, b)) = Len(p)
  <2>1. Len(p) \in 0 .. Len(p) /\ Len(p) <= Len(p) BY <1>3
  <2>2. Len(Pre(p, Len(p))) = Len(p) BY <1>1, <2>1, CutsAre
  <2> QED BY <1>4, <1>5, <2>2
<1>7. From(p, b) = <<>>
  <2>1. From(p, b) = SubSeq(p, Len(p) + 1, Len(p)) BY <1>6 DEF From
  <2>2. p \in Seq(ToSet(p)) BY <1>1 DEF IsLine
  <2> QED BY <1>3, <2>1, <2>2
<1> QED BY <1>7 DEF TextAt, p

-----------------------------------------------------------------------------
(* What an edit makes of a line: new in place of what is between i and j.     *)

Edited(line, i, j, new) == Pre(line, i) \o new \o Stretch(line, j, Len(line))
MovedTo(x, i, j, new) == x - j + i + Len(new)

LEMMA EditedIs ==
  ASSUME NEW line, IsLine(line), NEW new, IsLine(new), NEW i \in 0 .. Len(line), NEW j \in 0 .. Len(line), i <= j
  PROVE  LET N == Edited(line, i, j, new)
         IN  /\ IsLine(N) /\ Len(N) = MovedTo(Len(line), i, j, new) /\ Len(N) \in Nat /\ Len(new) \in Nat
             /\ Bytes(N) = PreBytes(line, i) + Bytes(new) + Bytes(line) - PreBytes(line, j)
             /\ \A c \in 1 .. i : N[c] = line[c]
             /\ \A c \in 1 .. Len(N) : c > i + Len(new) => N[c] = line[c - Len(new) - i + j]
<1> DEFINE n == Len(line)
           a == Pre(line, i)
           z == Stretch(line, j, n)
           m == Len(new)
           X == ToSet(a) \union ToSet(new) \union ToSet(z)
           N == a \o new \o z
<1>1. n \in Nat /\ m \in Nat /\ Bytes(line) \in Nat /\ Bytes(new) \in Nat BY LinesHaveBytes
<1>2. IsLine(a) /\ Len(a) = i /\ \A c \in 1 .. i : a[c] = line[c]
  <2>1. i <= i BY <1>1
  <2> QED BY <2>1, CutsAre
<1>3. IsLine(z) /\ Len(z) = n - j /\ \A c \in 1 .. n - j : z[c] = line[c + j]
  <2>1. n \in 0 .. n /\ j <= n BY <1>1
  <2> QED BY <2>1, CutsAre
<1>4. a \in Seq(X) /\ new \in Seq(X) /\ z \in Seq(X)
  <2>1. a \in Seq(ToSet(a)) /\ new \in Seq(ToSet(new)) /\ z \in Seq(ToSet(z)) BY <1>2, <1>3 DEF IsLine
  <2> HIDE DEF a, z
  <2> QED BY <2>1
<1> HIDE DEF a, z, X
<1>5. Len(a \o new) = i + m /\ a \o new \in Seq(X) /\ IsLine(a \o new) BY <1>2, <1>4, JoinsAreLines
<1>a. PICK an \in Seq(X) : an = a \o new BY <1>5
<1>b. N = an \o z /\ Len(an) = i + m /\ IsLine(an) BY <1>5, <1>a
<1>6. Len(N) = i + m + (n - j) /\ IsLine(N)
  <2>1. Len(an \o z) = i + m + (n - j) BY <1>1, <1>3, <1>4, <1>b
  <2>2. IsLine(an \o z) BY <1>3, <1>b, JoinsAreLines
  <2> QED BY <1>b, <2>1, <2>2
<1>7. ASSUME NEW c \in 1 .. i PROVE N[c] = line[c]
  <2>1. N[c] = an[c] /\ an[c] = (a \o new)[c] BY <1>1, <1>3, <1>4, <1>a, <1>b, <1>7
  <2>2. (a \o new)[c] = a[c] BY <1>1, <1>2, <1>4, <1>7
  <2> QED BY <1>2, <2>1, <2>2
<1>8. ASSUME NEW c \in 1 .. Len(N), c > i + m PROVE N[c] = line[c - m - i + j]
  <2>1. N[c] = z[c - (i + m)]
    <3>1. c \in 1 .. Len(an) + Len(z) /\ c > Len(an) BY <1>1, <1>3, <1>b, <1>6, <1>8
    <3>2. (an \o z)[c] = z[c - Len(an)] BY <1>4, <3>1
    <3> QED BY <1>b, <3>2
  <2>2. c - (i + m) \in 1 .. n - j /\ c - (i + m) + j = c - m - i + j BY <1>1, <1>6, <1>8
  <2> QED BY <1>3, <2>1, <2>2
<1>9. Bytes(N) = PreBytes(line, i) + Bytes(new) + Bytes(line) - PreBytes(line, j)
  <2>1. Bytes(N) = Bytes(a) + Bytes(new) + Bytes(z)
    <3>1. Bytes(a \o new) = Bytes(a) + Bytes(new) BY <1>2, BytesAdd
    <3>2. Bytes(N) = Bytes(a \o new) + Bytes(z) BY <1>3, <1>5, BytesAdd
    <3> QED BY <3>1, <3>2
  <2>2. n \in 0 .. n /\ j <= n BY <1>1
  <2>3. PreBytes(line, n) = PreBytes(line, j) + Bytes(z) /\ PreBytes(line, n) = Bytes(line) BY <2>2, PreBytesGrow, WholeIsPre DEF z
  <2>4. Bytes(a) = PreBytes(line, i) BY DEF a, PreBytes
  <2>5. PreBytes(line, j) \in Nat /\ PreBytes(line, i) \in Nat /\ Bytes(z) \in Nat BY <1>3, PreBytesGrow, LinesHaveBytes
  <2> QED BY <1>1, <2>1, <2>3, <2>4, <2>5
<1>10. Edited(line, i, j, new) = N BY DEF Edited, a, z
<1> HIDE DEF N
<1>11. Len(N) = MovedTo(Len(line), i, j, new) /\ Len(N) \in Nat BY <1>1, <1>6 DEF MovedTo
<1> QED BY <1>1, <1>6, <1>7, <1>8, <1>9, <1>10, <1>11

IsPart(line, j, k) == IsLine(line) /\ j \in 0 .. Len(line) /\ k \in 0 .. Len(line) /\ j <= k

\* two parts have the same characters
AreAlike(a, j, k, b, x, y) ==
  /\ IsPart(a, j, k) /\ IsPart(b, x, y) /\ k - j = y - x
  /\ \A c \in 1 .. k - j : a[c + j] = b[c + x]

LEMMA CutsAreSame ==
  ASSUME NEW a, NEW j, NEW k, NEW b, NEW x, NEW y, AreAlike(a, j, k, b, x, y)
  PROVE  Stretch(a, j, k) = Stretch(b, x, y)
<1> USE DEF AreAlike, IsPart
<1> DEFINE p == Stretch(a, j, k)
           q == Stretch(b, x, y)
           X == ToSet(p) \union ToSet(q)
<1>1. IsLine(p) /\ Len(p) = k - j /\ \A c \in 1 .. k - j : p[c] = a[c + j] BY CutsAre
<1>2. IsLine(q) /\ Len(q) = y - x /\ \A c \in 1 .. y - x : q[c] = b[c + x] BY CutsAre
<1> HIDE DEF p, q
<1>3. p \in Seq(X) /\ q \in Seq(X)
  <2>1. p \in Seq(ToSet(p)) /\ q \in Seq(ToSet(q)) BY <1>1, <1>2 DEF IsLine
  <2> QED BY <2>1
<1> HIDE DEF X
<1>4. Len(q) = Len(p) /\ \A c \in 1 .. Len(p) : p[c] = q[c]
  <2>1. \A c \in 1 .. k - j : p[c] = q[c] BY <1>1, <1>2
  <2> QED BY <1>1, <1>2, <2>1
<1> HIDE DEF AreAlike, IsPart
<1>5. p = q BY <1>3, <1>4
<1> QED BY <1>5 DEF p, q

LEMMA EditedBefore ==
  ASSUME NEW line, IsLine(line), NEW new, IsLine(new), NEW i \in 0 .. Len(line), NEW j \in 0 .. Len(line), i <= j,
         NEW x \in 0 .. i, NEW y \in 0 .. i, x <= y
  PROVE  LET N == Edited(line, i, j, new)
         IN  /\ x \in 0 .. Len(N) /\ y \in 0 .. Len(N)
             /\ Stretch(N, x, y) = Stretch(line, x, y)
             /\ PreBytes(N, y) = PreBytes(line, y)
<1> DEFINE N == Edited(line, i, j, new)
<1>1. IsLine(N) /\ Len(N) = Len(line) - j + i + Len(new) /\ Len(N) \in Nat /\ Len(new) \in Nat /\ \A c \in 1 .. i : N[c] = line[c]
  BY EditedIs DEF MovedTo
<1>2. Len(line) \in Nat BY LinesHaveBytes
<1> HIDE DEF N
<1>3. x \in 0 .. Len(N) /\ y \in 0 .. Len(N) /\ x \in 0 .. Len(line) /\ y \in 0 .. Len(line) BY <1>1, <1>2
<1>4. Stretch(N, x, y) = Stretch(line, x, y)
  <2>1. \A c \in 1 .. y - x : c + x \in 1 .. i BY <1>2
  <2>2. \A c \in 1 .. y - x : N[c + x] = line[c + x] BY <1>1, <2>1
  <2>3. IsPart(N, x, y) /\ IsPart(line, x, y) BY <1>1, <1>3 DEF IsPart
  <2>4. AreAlike(N, x, y, line, x, y) BY <2>2, <2>3 DEF AreAlike
  <2> QED BY <2>4, CutsAreSame
<1>5. Stretch(N, 0, y) = Stretch(line, 0, y)
  <2>1. \A c \in 1 .. y - 0 : c + 0 \in 1 .. i BY <1>2
  <2>2. \A c \in 1 .. y - 0 : N[c + 0] = line[c + 0] BY <1>1, <2>1
  <2>3. 0 \in 0 .. Len(N) /\ 0 \in 0 .. Len(line) /\ 0 <= y BY <1>1, <1>2
  <2>4. IsPart(N, 0, y) /\ IsPart(line, 0, y) BY <1>1, <1>3, <2>3 DEF IsPart
  <2>5. AreAlike(N, 0, y, line, 0, y) BY <2>2, <2>4 DEF AreAlike
  <2> QED BY <2>5, CutsAreSame
<1>6. \A l : PreBytes(l, y) = Bytes(Stretch(l, 0, y)) BY DEF PreBytes, Pre, Stretch
<1>7. PreBytes(N, y) = PreBytes(line, y) BY <1>5, <1>6
<1> QED BY <1>3, <1>4, <1>7 DEF N

LEMMA SumsAre ==
  \A p, q, r, s, t, k, bn, bl \in Nat : bn = p + r /\ bl = q + r /\ bn = s + k + bl - t => p = q - t + s + k
OBVIOUS

LEMMA EditedBehind ==
  ASSUME NEW line, IsLine(line), NEW new, IsLine(new), NEW i \in 0 .. Len(line), NEW j \in 0 .. Len(line), i <= j,
         NEW x \in j .. Len(line), NEW y \in j .. Len(line), x <= y
  PROVE  LET N == Edited(line, i, j, new)
         IN  /\ MovedTo(x, i, j, new) \in 0 .. Len(N) /\ MovedTo(y, i, j, new) \in 0 .. Len(N)
             /\ MovedTo(x, i, j, new) <= MovedTo(y, i, j, new)
             /\ Stretch(N, MovedTo(x, i, j, new), MovedTo(y, i, j, new)) = Stretch(line, x, y)
             /\ PreBytes(N, MovedTo(y, i, j, new)) = PreBytes(line, y) - PreBytes(line, j) + PreBytes(line, i) + Bytes(new)
<1> DEFINE N == Edited(line, i, j, new)
           n == Len(line)
           u == MovedTo(x, i, j, new)
           v == MovedTo(y, i, j, new)
<1>1. /\ IsLine(N) /\ Len(N) = n - j + i + Len(new) /\ Len(N) \in Nat /\ Len(new) \in Nat
      /\ Bytes(N) = PreBytes(line, i) + Bytes(new) + Bytes(line) - PreBytes(line, j)
      /\ \A c \in 1 .. Len(N) : c > i + Len(new) => N[c] = line[c - Len(new) - i + j]
  BY EditedIs DEF MovedTo
<1>2. n \in Nat BY LinesHaveBytes
<1>3. u = x - j + i + Len(new) /\ v = y - j + i + Len(new) BY DEF MovedTo
<1> HIDE DEF N, u, v
<1>4. u \in 0 .. Len(N) /\ v \in 0 .. Len(N) /\ u <= v /\ v <= Len(N) /\ Len(N) \in 0 .. Len(N) /\ v - u = y - x /\ Len(N) - v = n - y
  BY <1>1, <1>2, <1>3
<1>5. x \in 0 .. n /\ y \in 0 .. n /\ n \in 0 .. n /\ y <= n BY <1>2
<1>6. Stretch(N, u, v) = Stretch(line, x, y)
  <2>1. ASSUME NEW c \in 1 .. v - u PROVE N[c + u] = line[c + x]
    <3>a. c \in Int /\ u \in Int /\ c + u \in Int /\ c + u >= 1 /\ c + u <= Len(N) BY <1>1, <1>4
    <3>1. PICK d \in 1 .. Len(N) : d = c + u BY <1>1, <3>a
    <3>2. d > i + Len(new) /\ d - Len(new) - i + j = c + x BY <1>1, <1>2, <1>3, <1>4, <3>1
    <3>3. N[d] = line[d - Len(new) - i + j] BY <1>1, <3>2, Zenon
    <3> QED BY <3>1, <3>2, <3>3, Zenon
  <2>2. IsPart(N, u, v) /\ IsPart(line, x, y) BY <1>1, <1>4, <1>5 DEF IsPart
  <2>3. AreAlike(N, u, v, line, x, y) BY <1>4, <2>1, <2>2 DEF AreAlike
  <2> QED BY <2>3, CutsAreSame
<1>7. Stretch(N, v, Len(N)) = Stretch(line, y, n)
  <2>1. ASSUME NEW c \in 1 .. Len(N) - v PROVE N[c + v] = line[c + y]
    <3>a. c \in Int /\ v \in Int /\ c + v \in Int /\ c + v >= 1 /\ c + v <= Len(N) BY <1>1, <1>4
    <3>1. PICK d \in 1 .. Len(N) : d = c + v BY <1>1, <3>a
    <3>2. d > i + Len(new) /\ d - Len(new) - i + j = c + y BY <1>1, <1>2, <1>3, <1>4, <3>1
    <3>3. N[d] = line[d - Len(new) - i + j] BY <1>1, <3>2, Zenon
    <3> QED BY <3>1, <3>2, <3>3, Zenon
  <2>2. IsPart(N, v, Len(N)) /\ IsPart(line, y, n) BY <1>1, <1>4, <1>5 DEF IsPart
  <2>3. AreAlike(N, v, Len(N), line, y, n) BY <1>4, <2>1, <2>2 DEF AreAlike
  <2> QED BY <2>3, CutsAreSame
<1>8. PreBytes(N, Len(N)) = PreBytes(N, v) + Bytes(Stretch(N, v, Len(N))) /\ PreBytes(N, Len(N)) = Bytes(N) /\ PreBytes(N, v) \in Nat
  BY <1>1, <1>4, PreBytesGrow, WholeIsPre
<1>9. PreBytes(line, n) = PreBytes(line, y) + Bytes(Stretch(line, y, n)) /\ PreBytes(line, n) = Bytes(line) /\ PreBytes(line, y) \in Nat
  BY <1>5, PreBytesGrow, WholeIsPre
<1>10. PreBytes(line, i) \in Nat /\ PreBytes(line, j) \in Nat BY PreBytesGrow
<1>11. Bytes(new) \in Nat /\ Bytes(line) \in Nat BY LinesHaveBytes
<1>12. IsLine(Stretch(line, y, n)) BY <1>5, CutsAre
<1>13. Bytes(Stretch(line, y, n)) \in Nat BY <1>12, LinesHaveBytes
<1>14. PreBytes(N, v) = PreBytes(line, y) - PreBytes(line, j) + PreBytes(line, i) + Bytes(new)
  <2>1. PICK r \in Nat : r = Bytes(Stretch(line, y, n)) BY <1>13
  <2>2. Bytes(N) = PreBytes(N, v) + r BY <1>7, <1>8, <2>1
  <2>3. Bytes(line) = PreBytes(line, y) + r BY <1>9, <2>1
  <2>5. Bytes(N) = PreBytes(line, i) + Bytes(new) + Bytes(line) - PreBytes(line, j) BY <1>1
  <2>4. /\ PreBytes(N, v) \in Nat /\ PreBytes(line, y) \in Nat /\ PreBytes(line, i) \in Nat /\ PreBytes(line, j) \in Nat
        /\ Bytes(new) \in Nat /\ Bytes(line) \in Nat /\ Bytes(N) \in Nat
    <3>1. Bytes(N) \in Nat BY <1>1, LinesHaveBytes
    <3> QED BY <1>8, <1>9, <1>10, <1>11, <3>1
  <2> DEFINE p == PreBytes(N, v)
             q == PreBytes(line, y)
             s == PreBytes(line, i)
             t == PreBytes(line, j)
             k == Bytes(new)
             bn == Bytes(N)
             bl == Bytes(line)
  <2>6. p \in Nat /\ q \in Nat /\ s \in Nat /\ t \in Nat /\ k \in Nat /\ bn \in Nat /\ bl \in Nat BY <2>4
  <2>7. bn = p + r /\ bl = q + r /\ bn = s + k + bl - t BY <2>2, <2>3, <2>5
  <2> HIDE DEF p, q, s, t, k, bn, bl
  <2>8. p = q - t + s + k BY <2>6, <2>7, SumsAre
  <2> QED BY <2>8 DEF p, q, s, t, k
<1> QED BY <1>4, <1>6, <1>14 DEF N, u, v

\* nvim_buf_set_text on a text of one line
LEMMA SetTextIsEdited ==
  ASSUME NEW line, IsLine(line), NEW new, IsLine(new), NEW i \in 0 .. Len(line), NEW j \in 0 .. Len(line), i <= j
  PROVE  SetText(<<line>>, <<1, PreBytes(line, i)>>, <<1, PreBytes(line, j)>>, <<new>>) = <<Edited(line, i, j, new)>>
<1> DEFINE text == <<line>>
           b == PreBytes(line, i)
           e == PreBytes(line, j)
           begin == <<1, b>>
           end == <<1, e>>
           N == Edited(line, i, j, new)
<1>1. Len(line) \in Nat /\ Bytes(line) \in Nat BY LinesHaveBytes
<1>2. b \in Nat /\ e \in Nat /\ b <= e BY PreBytesGrow
<1>3. e <= Bytes(line)
  <2>1. Len(line) \in 0 .. Len(line) /\ j <= Len(line) BY <1>1
  <2>2. PreBytes(line, j) <= PreBytes(line, Len(line)) BY <2>1, PreBytesGrow
  <2> QED BY <2>2, WholeIsPre
<1>4. Upto(line, b) = Pre(line, i) BY UptoOfIs
<1>5. From(line, e) = Stretch(line, j, Len(line)) BY UptoOfIs
<1> HIDE DEF b, e
<1>6. DOMAIN text = {1} /\ text[1] = line /\ Len(text) = 1 OBVIOUS
<1>7. begin[1] = 1 /\ begin[2] = b /\ end[1] = 1 /\ end[2] = e OBVIOUS
<1>8. ~Before(end, begin) BY <1>2, <1>7 DEF Before
<1>9. Joined(Pre(line, i), <<new>>, Stretch(line, j, Len(line))) = <<N>> BY DEF Joined, Edited
<1>10. SubSeq(text, 1, 0) = <<>> /\ SubSeq(text, 2, 1) = <<>> BY <1>6
<1> HIDE DEF text, begin, end, N
<1>11. SetText(text, begin, end, <<new>>)
        = SubSeq(text, 1, begin[1] - 1) \o Joined(Upto(text[begin[1]], begin[2]), <<new>>, From(text[end[1]], end[2]))
            \o SubSeq(text, end[1] + 1, Len(text))
  <2>1. begin[1] \in DOMAIN text /\ end[1] \in DOMAIN text BY <1>6, <1>7
  <2>2. begin[2] \in 0 .. Bytes(text[begin[1]]) /\ end[2] \in 0 .. Bytes(text[end[1]]) BY <1>1, <1>2, <1>3, <1>6, <1>7
  <2> QED BY <1>8, <2>1, <2>2 DEF SetText
<1>12. SetText(text, begin, end, <<new>>) = <<>> \o <<N>> \o <<>>
  <2>1. Joined(Upto(text[begin[1]], begin[2]), <<new>>, From(text[end[1]], end[2])) = <<N>> BY <1>4, <1>5, <1>6, <1>7, <1>9
  <2>2. begin[1] - 1 = 0 /\ end[1] + 1 = 2 BY <1>7
  <2> QED BY <1>6, <1>10, <1>11, <2>1, <2>2
<1>13. <<>> \o <<N>> \o <<>> = <<N>> OBVIOUS
<1> QED BY <1>12, <1>13 DEF text, begin, end, N, b, e

-----------------------------------------------------------------------------
(* What an edit makes of the marks: of one that is apart from it, a mark on the same text.  *)

IsRegion(line, i, j, b, e) ==
  /\ IsLine(line) /\ i \in 0 .. Len(line) /\ j \in 0 .. Len(line) /\ i <= j
  /\ b = PreBytes(line, i) /\ e = PreBytes(line, j)

ApartFrom(mark, b, e) == mark.begin < mark.end => mark.end <= b \/ e <= mark.begin

IsOnText(line, mark) ==
  /\ IsMark(mark) /\ IsBetween(line, mark.begin) /\ IsBetween(line, mark.end)
  /\ TextAt(line, mark.begin, mark.end) = mark.text

LEMMA BetweenIs ==
  ASSUME NEW line, IsLine(line), NEW col
  PROVE  /\ IsBetween(line, col) <=> \E k \in 0 .. Len(line) : PreBytes(line, k) = col
         /\ IsBetween(line, col) => col \in Nat
<1>1. IsBetween(line, col) <=> \E k \in 0 .. Len(line) : PreBytes(line, k) = col BY DEF IsBetween, PreBytes, Pre
<1>2. ASSUME NEW k \in 0 .. Len(line) PROVE PreBytes(line, k) \in Nat
  <2>1. k <= k BY LinesHaveBytes
  <2> QED BY <2>1, PreBytesGrow
<1> QED BY <1>1, <1>2

\* of two places the one that is further has more bytes before it
LEMMA PlacesFollow ==
  ASSUME NEW line, IsLine(line), NEW x \in 0 .. Len(line), NEW y \in 0 .. Len(line)
  PROVE  /\ PreBytes(line, x) \in Nat /\ PreBytes(line, y) \in Nat
         /\ PreBytes(line, x) <= PreBytes(line, y) <=> x <= y
         /\ PreBytes(line, x) < PreBytes(line, y) <=> x < y
<1>1. Len(line) \in Nat BY LinesHaveBytes
<1>2. CASE x <= y
  <2>1. /\ PreBytes(line, x) \in Nat /\ PreBytes(line, y) \in Nat /\ PreBytes(line, x) <= PreBytes(line, y)
        /\ x < y => PreBytes(line, x) < PreBytes(line, y) BY <1>2, PreBytesGrow
  <2>2. x = y => PreBytes(line, x) = PreBytes(line, y) OBVIOUS
  <2> QED BY <1>1, <1>2, <2>1, <2>2
<1>3. CASE ~(x <= y)
  <2>1. y <= x /\ y < x BY <1>1, <1>3
  <2>2. PreBytes(line, x) \in Nat /\ PreBytes(line, y) \in Nat /\ PreBytes(line, y) < PreBytes(line, x) BY <2>1, PreBytesGrow
  <2> QED BY <1>1, <1>3, <2>1, <2>2
<1> QED BY <1>2, <1>3

LEMMA BetweenMoves ==
  ASSUME NEW line, NEW i, NEW j, NEW b, NEW e, IsRegion(line, i, j, b, e),
         NEW new, IsLine(new), NEW col, IsBetween(line, col)
  PROVE  LET N == Edited(line, i, j, new)
         IN  /\ col \in Nat /\ b \in Nat /\ e \in Nat /\ b <= e /\ Bytes(new) \in Nat
             /\ IsBetween(N, Pushed(col, b, e, Bytes(new))) /\ IsBetween(N, Stayed(col, b, e, Bytes(new)))
             /\ col >= e => IsBetween(N, col - (e - b) + Bytes(new))
<1> DEFINE N == Edited(line, i, j, new)
           bytes == Bytes(new)
<1>1. IsLine(line) /\ i \in 0 .. Len(line) /\ j \in 0 .. Len(line) /\ i <= j /\ b = PreBytes(line, i) /\ e = PreBytes(line, j) BY DEF IsRegion
<1>2. b \in Nat /\ e \in Nat /\ b <= e BY <1>1, PlacesFollow
<1>3. PICK x \in 0 .. Len(line) : PreBytes(line, x) = col BY <1>1, BetweenIs
<1>4. col \in Nat BY <1>1, BetweenIs
<1>5. bytes \in Nat /\ Len(line) \in Nat BY <1>1, LinesHaveBytes
<1>6. IsLine(N) BY <1>1, EditedIs
<1>7. ASSUME NEW y \in 0 .. i PROVE IsBetween(N, PreBytes(line, y))
  <2>1. y <= y BY <1>1, <1>5
  <2>2. y \in 0 .. Len(N) /\ PreBytes(N, y) = PreBytes(line, y) BY <1>1, <2>1, EditedBefore
  <2> HIDE DEF N
  <2> QED BY <1>6, <2>2, BetweenIs
<1>8. ASSUME NEW y \in j .. Len(line) PROVE IsBetween(N, PreBytes(line, y) - e + b + bytes)
  <2>1. y <= y BY <1>1, <1>5
  <2>2. MovedTo(y, i, j, new) \in 0 .. Len(N) /\ PreBytes(N, MovedTo(y, i, j, new)) = PreBytes(line, y) - e + b + bytes
    BY <1>1, <2>1, EditedBehind
  <2> HIDE DEF N
  <2> QED BY <1>6, <2>2, BetweenIs
<1> HIDE DEF N, bytes
<1>9. col >= e => IsBetween(N, col - (e - b) + bytes)
  <2> SUFFICES ASSUME col >= e PROVE IsBetween(N, col - (e - b) + bytes) OBVIOUS
  <2>1. j <= x BY <1>1, <1>2, <1>3, <1>4, PlacesFollow
  <2>2. x \in j .. Len(line) BY <1>1, <1>5, <2>1
  <2>3. IsBetween(N, PreBytes(line, x) - e + b + bytes) BY <1>8, <2>2
  <2>4. col - e + b + bytes = col - (e - b) + bytes BY <1>2, <1>4, <1>5
  <2> QED BY <1>3, <2>3, <2>4
<1>10. IsBetween(N, b) /\ IsBetween(N, b + bytes)
  <2>1. i \in 0 .. i /\ j \in j .. Len(line) BY <1>1, <1>5
  <2>2. IsBetween(N, b) BY <1>1, <1>7, <2>1
  <2>3. IsBetween(N, PreBytes(line, j) - e + b + bytes) BY <1>8, <2>1
  <2>4. PreBytes(line, j) - e + b + bytes = b + bytes BY <1>1, <1>2, <1>5
  <2> QED BY <2>2, <2>3, <2>4
<1>11. col <= b => IsBetween(N, col)
  <2> SUFFICES ASSUME col <= b PROVE IsBetween(N, col) OBVIOUS
  <2>1. x <= i BY <1>1, <1>2, <1>3, <1>4, PlacesFollow
  <2>2. x \in 0 .. i BY <1>1, <1>5, <2>1
  <2> QED BY <1>3, <1>7, <2>2
<1>12. IsBetween(N, Pushed(col, b, e, bytes))
  <2>1. Pushed(col, b, e, bytes) = IF col < b THEN col ELSE IF col < e THEN b + bytes ELSE col - (e - b) + bytes BY DEF Pushed
  <2>2. CASE col < b BY <1>2, <1>4, <1>11, <2>1, <2>2
  <2>3. CASE ~(col < b) /\ col < e BY <1>10, <2>1, <2>3
  <2>4. CASE ~(col < b) /\ ~(col < e) BY <1>2, <1>4, <1>9, <2>1, <2>4
  <2> QED BY <2>2, <2>3, <2>4
<1>13. IsBetween(N, Stayed(col, b, e, bytes))
  <2>1. Stayed(col, b, e, bytes) = IF col <= b THEN col ELSE IF col <= e THEN b ELSE col - (e - b) + bytes BY DEF Stayed
  <2>2. CASE col <= b BY <1>11, <2>1, <2>2
  <2>3. CASE ~(col <= b) /\ col <= e BY <1>10, <2>1, <2>3
  <2>4. CASE ~(col <= b) /\ ~(col <= e) BY <1>2, <1>4, <1>9, <2>1, <2>4
  <2> QED BY <2>2, <2>3, <2>4
<1> QED BY <1>2, <1>4, <1>5, <1>9, <1>12, <1>13 DEF N, bytes

\* the columns of a mark before and after an edit
AreMoved(mark, m, b, e, bytes) ==
  /\ b \in Nat /\ e \in Nat /\ b <= e /\ bytes \in Nat
  /\ mark.begin \in Nat /\ mark.end \in Nat /\ m.begin \in Nat /\ m.end \in Nat
  /\ m.begin = Pushed(mark.begin, b, e, bytes) /\ m.end = Stayed(mark.end, b, e, bytes)

LEMMA MovedIs ==
  ASSUME NEW mark, IsMark(mark), mark.begin \in Nat, mark.end \in Nat,
         NEW b \in Nat, NEW e \in Nat, b <= e, NEW bytes \in Nat, NEW m, m = Moved(mark, b, e, bytes)
  PROVE  /\ IsMark(m) /\ m.id = mark.id /\ m.idx = mark.idx /\ m.text = mark.text
         /\ AreMoved(mark, m, b, e, bytes)
<1>1. mark = [id |-> mark.id, idx |-> mark.idx, begin |-> mark.begin, end |-> mark.end, text |-> mark.text]
      /\ mark.id \in Nat /\ mark.idx \in Nat BY DEF IsMark
<1> DEFINE c == Pushed(mark.begin, b, e, bytes)
           d == Stayed(mark.end, b, e, bytes)
<1>2. m = [mark EXCEPT !.begin = c, !.end = d] BY DEF Moved
<1>3. c \in Nat /\ d \in Nat BY DEF Pushed, Stayed
<1> HIDE DEF c, d
<1>4. m = [id |-> mark.id, idx |-> mark.idx, begin |-> c, end |-> d, text |-> mark.text] BY <1>1, <1>2
<1>5. m.id = mark.id /\ m.idx = mark.idx /\ m.text = mark.text /\ m.begin = c /\ m.end = d BY <1>4
<1>6. IsMark(m) BY <1>1, <1>4, <1>5 DEF IsMark
<1> QED BY <1>3, <1>5, <1>6 DEF AreMoved, c, d

\* k is not inside of m
OutsideOf(k, m) ==
  m.begin < m.end => (m.end <= k.begin /\ m.end <= k.end) \/ (k.begin <= m.begin /\ k.end <= m.begin)

LEMMA MovesKeepOrder ==
  ASSUME NEW mark, NEW m, NEW b, NEW e, NEW bytes, AreMoved(mark, m, b, e, bytes)
  PROVE  /\ mark.end <= mark.begin => m.end <= m.begin
         /\ mark.begin < mark.end /\ mark.end <= b => m.begin = mark.begin /\ m.end = mark.end
         /\ mark.begin < mark.end /\ e <= mark.begin =>
              /\ m.begin = mark.begin - (e - b) + bytes /\ m.end = mark.end - (e - b) + bytes
BY DEF AreMoved, Pushed, Stayed

LEMMA MovesKeepOutside ==
  ASSUME NEW b, NEW e, NEW bytes, NEW k, NEW k2, AreMoved(k, k2, b, e, bytes), NEW m, NEW m2, AreMoved(m, m2, b, e, bytes),
         ApartFrom(m, b, e), OutsideOf(k, m)
  PROVE  OutsideOf(k2, m2)
<1> SUFFICES ASSUME m2.begin < m2.end
             PROVE  (m2.end <= k2.begin /\ m2.end <= k2.end) \/ (k2.begin <= m2.begin /\ k2.end <= m2.begin)
  BY DEF OutsideOf
<1>1. m.begin < m.end
  <2>1. m.end <= m.begin => m2.end <= m2.begin BY MovesKeepOrder
  <2>2. m.begin \in Nat /\ m.end \in Nat /\ m2.begin \in Nat /\ m2.end \in Nat BY DEF AreMoved
  <2> QED BY <2>1, <2>2
<1>2. CASE m.end <= b
  <2>1. m2.begin = m.begin /\ m2.end = m.end BY <1>1, <1>2, MovesKeepOrder
  <2>2. CASE m.end <= k.begin /\ m.end <= k.end
    <3>1. m.end <= k2.begin /\ m.end <= k2.end BY <1>2, <2>2 DEF AreMoved, Pushed, Stayed
    <3> QED BY <2>1, <3>1
  <2>3. CASE k.begin <= m.begin /\ k.end <= m.begin
    <3>1. k2.begin = k.begin /\ k2.end = k.end BY <1>1, <1>2, <2>3 DEF AreMoved, Pushed, Stayed
    <3> QED BY <2>1, <2>3, <3>1
  <2> QED BY <1>1, <2>2, <2>3 DEF OutsideOf
<1>3. CASE e <= m.begin
  <2>1. m2.begin = m.begin - (e - b) + bytes /\ m2.end = m.end - (e - b) + bytes BY <1>1, <1>3, MovesKeepOrder
  <2>2. CASE m.end <= k.begin /\ m.end <= k.end
    <3>1. k2.begin = k.begin - (e - b) + bytes /\ k2.end = k.end - (e - b) + bytes BY <1>1, <1>3, <2>2 DEF AreMoved, Pushed, Stayed
    <3> QED BY <2>1, <2>2, <3>1 DEF AreMoved
  <2>3. CASE k.begin <= m.begin /\ k.end <= m.begin
    <3>1. k2.begin <= m.begin - (e - b) + bytes /\ k2.end <= m.begin - (e - b) + bytes BY <1>3, <2>3 DEF AreMoved, Pushed, Stayed
    <3> QED BY <2>1, <3>1
  <2> QED BY <1>1, <2>2, <2>3 DEF OutsideOf
<1> QED BY <1>1, <1>2, <1>3 DEF ApartFrom

LEMMA MarkMoves ==
  ASSUME NEW line, NEW i, NEW j, NEW b, NEW e, IsRegion(line, i, j, b, e), NEW new, IsLine(new),
         NEW mark, IsOnText(line, mark), NEW m, m = Moved(mark, b, e, Bytes(new))
  PROVE  /\ AreMoved(mark, m, b, e, Bytes(new)) /\ m.id = mark.id /\ m.idx = mark.idx
         /\ ApartFrom(mark, b, e) => IsOnText(Edited(line, i, j, new), m)
<1> DEFINE N == Edited(line, i, j, new)
           bytes == Bytes(new)
<1>1. IsLine(line) /\ i \in 0 .. Len(line) /\ j \in 0 .. Len(line) /\ i <= j /\ b = PreBytes(line, i) /\ e = PreBytes(line, j) BY DEF IsRegion
<1>2. IsMark(mark) /\ IsBetween(line, mark.begin) /\ IsBetween(line, mark.end) /\ TextAt(line, mark.begin, mark.end) = mark.text
  BY DEF IsOnText
<1>3. mark.begin \in Nat /\ mark.end \in Nat /\ b \in Nat /\ e \in Nat /\ b <= e /\ bytes \in Nat BY <1>2, BetweenMoves
<1>4. IsBetween(N, Pushed(mark.begin, b, e, bytes)) /\ IsBetween(N, Stayed(mark.end, b, e, bytes)) BY <1>2, BetweenMoves
<1>5. IsLine(N) BY <1>1, EditedIs
<1>6. Len(line) \in Nat BY <1>1, LinesHaveBytes
<1> HIDE DEF N
<1> HIDE DEF bytes
<1>8. IsMark(m) /\ m.id = mark.id /\ m.idx = mark.idx /\ m.text = mark.text /\ AreMoved(mark, m, b, e, bytes)
  <2>1. m = Moved(mark, b, e, bytes) BY DEF bytes
  <2> QED BY <1>2, <1>3, <2>1, MovedIs
<1>7. /\ IsMark(m) /\ m.id = mark.id /\ m.idx = mark.idx /\ m.text = mark.text
      /\ m.begin \in Nat /\ m.end \in Nat
      /\ m.begin = Pushed(mark.begin, b, e, bytes) /\ m.end = Stayed(mark.end, b, e, bytes)
  BY <1>8 DEF AreMoved
<1>9. IsBetween(N, m.begin) /\ IsBetween(N, m.end) BY <1>4, <1>7
<1>10. ASSUME ApartFrom(mark, b, e) PROVE TextAt(N, m.begin, m.end) = m.text
  <2>1. CASE mark.end <= mark.begin
    <3>1. mark.text = <<>> BY <1>1, <1>2, <1>3, <2>1, NothingIsBehind
    <3>2. m.end <= m.begin BY <1>8, <2>1, MovesKeepOrder
    <3>3. TextAt(N, m.begin, m.end) = <<>> BY <1>5, <1>7, <3>2, NothingIsBehind
    <3> QED BY <1>7, <3>1, <3>3
  <2>2. CASE ~(mark.end <= mark.begin)
    <3>1. mark.begin < mark.end BY <1>3, <2>2
    <3>2. PICK x \in 0 .. Len(line) : PreBytes(line, x) = mark.begin BY <1>1, <1>2, BetweenIs
    <3>3. PICK y \in 0 .. Len(line) : PreBytes(line, y) = mark.end BY <1>1, <1>2, BetweenIs
    <3>4. x <= y
      <4>1. x < y BY <1>1, <3>1, <3>2, <3>3, PlacesFollow
      <4> QED BY <1>6, <4>1
    <3>5. Stretch(line, x, y) = mark.text BY <1>1, <1>2, <3>2, <3>3, <3>4, TextAtIs
    <3>6. CASE mark.end <= b
      <4>1. m.begin = mark.begin /\ m.end = mark.end BY <1>8, <3>1, <3>6, MovesKeepOrder
      <4>2. y <= i BY <1>1, <3>3, <3>6, PlacesFollow
      <4>3. x \in 0 .. i /\ y \in 0 .. i BY <1>1, <1>6, <3>4, <4>2
      <4>4. x <= x BY <1>6
      <4>5. x \in 0 .. Len(N) /\ y \in 0 .. Len(N) /\ Stretch(N, x, y) = Stretch(line, x, y) /\ PreBytes(N, y) = PreBytes(line, y)
        BY <1>1, <3>4, <4>3, EditedBefore DEF N
      <4>6. PreBytes(N, x) = PreBytes(line, x) BY <1>1, <4>3, <4>4, EditedBefore DEF N
      <4>7. TextAt(N, PreBytes(N, x), PreBytes(N, y)) = Stretch(N, x, y) BY <1>5, <3>4, <4>5, TextAtIs
      <4> QED BY <1>7, <3>2, <3>3, <3>5, <4>1, <4>5, <4>6, <4>7
    <3>7. CASE e <= mark.begin
      <4> DEFINE u == MovedTo(x, i, j, new)
                 v == MovedTo(y, i, j, new)
      <4>1. m.begin = mark.begin - (e - b) + bytes /\ m.end = mark.end - (e - b) + bytes BY <1>8, <3>1, <3>7, MovesKeepOrder
      <4>2. j <= x BY <1>1, <3>2, <3>7, PlacesFollow
      <4>3. x \in j .. Len(line) /\ y \in j .. Len(line) BY <1>1, <1>6, <3>4, <4>2
      <4>4. x <= x BY <1>6
      <4>5. u \in 0 .. Len(N) /\ v \in 0 .. Len(N) /\ u <= v /\ Stretch(N, u, v) = Stretch(line, x, y) /\ PreBytes(N, v) = PreBytes(line, y) - e + b + bytes
        BY <1>1, <3>4, <4>3, EditedBehind DEF N, bytes
      <4>6. PreBytes(N, u) = PreBytes(line, x) - e + b + bytes BY <1>1, <4>3, <4>4, EditedBehind DEF N, bytes
      <4> HIDE DEF u, v
      <4>7. TextAt(N, PreBytes(N, u), PreBytes(N, v)) = Stretch(N, u, v) BY <1>5, <4>5, TextAtIs
      <4>8. m.begin = PreBytes(N, u) /\ m.end = PreBytes(N, v)
        <5>1. m.begin = mark.begin - e + b + bytes /\ m.end = mark.end - e + b + bytes BY <1>3, <4>1
        <5> QED BY <3>2, <3>3, <4>5, <4>6, <5>1
      <4> QED BY <1>7, <3>5, <4>5, <4>7, <4>8
    <3> QED BY <1>10, <3>1, <3>6, <3>7 DEF ApartFrom
  <2> QED BY <2>1, <2>2
<1> QED BY <1>7, <1>8, <1>9, <1>10 DEF IsOnText, N, bytes

\* The marks there are: each on its text, and none inside of one that is not empty.
AreOnText(line, marks) ==
  /\ IsLine(line) /\ IsFiniteSet(marks)
  /\ \A m \in marks : IsOnText(line, m)
  /\ \A k, m \in marks : k # m => k.id # m.id /\ OutsideOf(k, m)

MovedMarks(marks, b, e, bytes) == {Moved(m, b, e, bytes) : m \in marks}

LEMMA FewerAreOnText ==
  ASSUME NEW line, NEW marks, AreOnText(line, marks), NEW some \in SUBSET marks
  PROVE  AreOnText(line, some)
<1>1. IsFiniteSet(some) BY FS_Subset DEF AreOnText
<1> QED BY <1>1 DEF AreOnText

LEMMA MarkedAreOnText ==
  ASSUME NEW line, NEW marks, IsMarked(line, marks)
  PROVE  AreOnText(line, marks)
<1>1. IsLine(line) /\ IsFiniteSet(marks) BY DEF IsMarked
<1>2. \A m \in marks : /\ IsMark(m) /\ m.begin <= m.end /\ m.text = TextAt(line, m.begin, m.end)
                       /\ IsBetween(line, m.begin) /\ IsBetween(line, m.end)
                       /\ m.begin \in Nat /\ m.end \in Nat
  BY <1>1, BetweenIs DEF IsMarked
<1>3. \A m \in marks : IsOnText(line, m) BY <1>2 DEF IsOnText
<1>4. ASSUME NEW k \in marks, NEW m \in marks, k # m PROVE k.id # m.id /\ OutsideOf(k, m)
  <2>1. k.id # m.id /\ (k.end <= m.begin \/ m.end <= k.begin) BY <1>4 DEF IsMarked
  <2>2. k.begin <= k.end /\ m.begin <= m.end /\ k.begin \in Nat /\ k.end \in Nat /\ m.begin \in Nat /\ m.end \in Nat BY <1>2
  <2>3. OutsideOf(k, m) BY <2>1, <2>2 DEF OutsideOf
  <2> QED BY <2>1, <2>3
<1> QED BY <1>1, <1>3, <1>4 DEF AreOnText

\* an edit that all of them are apart from
LEMMA MarksMove ==
  ASSUME NEW line, NEW marks, AreOnText(line, marks),
         NEW i, NEW j, NEW b, NEW e, IsRegion(line, i, j, b, e), NEW new, IsLine(new),
         \A m \in marks : ApartFrom(m, b, e)
  PROVE  AreOnText(Edited(line, i, j, new), MovedMarks(marks, b, e, Bytes(new)))
<1> DEFINE N == Edited(line, i, j, new)
           bytes == Bytes(new)
           M == MovedMarks(marks, b, e, bytes)
<1>1. IsLine(line) /\ i \in 0 .. Len(line) /\ j \in 0 .. Len(line) /\ i <= j BY DEF IsRegion
<1>2. IsLine(N) BY <1>1, EditedIs
<1>3. \A m \in marks : IsOnText(line, m) BY DEF AreOnText
<1> HIDE DEF N
<1>4. ASSUME NEW m \in marks
      PROVE  AreMoved(m, Moved(m, b, e, bytes), b, e, bytes) /\ Moved(m, b, e, bytes).id = m.id /\ IsOnText(N, Moved(m, b, e, bytes))
  <2>1. PICK m2 : m2 = Moved(m, b, e, bytes) OBVIOUS
  <2>2. IsOnText(line, m) /\ ApartFrom(m, b, e) BY <1>3
  <2>3. AreMoved(m, m2, b, e, bytes) /\ m2.id = m.id /\ IsOnText(N, m2) BY <2>1, <2>2, MarkMoves DEF N
  <2> QED BY <2>1, <2>3
<1> HIDE DEF bytes
<1>5. \A m2 \in M : \E m \in marks : m2 = Moved(m, b, e, bytes) BY DEF MovedMarks
<1>6. IsFiniteSet(M)
  <2>1. IsFiniteSet(marks) BY DEF AreOnText
  <2> DEFINE f == [m \in marks |-> Moved(m, b, e, bytes)]
  <2>2. f \in [marks -> M] /\ \A m2 \in M : \E m \in marks : f[m] = m2 BY <1>5 DEF MovedMarks
  <2> HIDE DEF f, M
  <2>3. f \in Surjection(marks, M) BY <2>2 DEF Surjection
  <2> QED BY <2>1, <2>3, FS_Surjection
<1>7. \A m2 \in M : IsOnText(N, m2) BY <1>4, <1>5
<1>8. ASSUME NEW k2 \in M, NEW m2 \in M, k2 # m2 PROVE k2.id # m2.id /\ OutsideOf(k2, m2)
  <2>1. PICK k \in marks : k2 = Moved(k, b, e, bytes) BY <1>5
  <2>2. PICK m \in marks : m2 = Moved(m, b, e, bytes) BY <1>5
  <2>3. k # m BY <1>8, <2>1, <2>2
  <2>4. k.id # m.id /\ OutsideOf(k, m) BY <2>3 DEF AreOnText
  <2>5. k2.id = k.id /\ m2.id = m.id /\ AreMoved(k, k2, b, e, bytes) /\ AreMoved(m, m2, b, e, bytes) BY <1>4, <2>1, <2>2
  <2>6. OutsideOf(k2, m2) BY <2>4, <2>5, MovesKeepOutside
  <2> QED BY <2>4, <2>5, <2>6
<1>9. AreOnText(N, M) BY <1>2, <1>6, <1>7, <1>8 DEF AreOnText, N
<1> QED BY <1>9 DEF N, bytes

\* the mark that is replaced
LEMMA MarkIsRegion ==
  ASSUME NEW line, IsLine(line), NEW mark, IsOnText(line, mark), mark.begin <= mark.end
  PROVE  \E i, j : IsRegion(line, i, j, mark.begin, mark.end)
<1>1. PICK i \in 0 .. Len(line) : PreBytes(line, i) = mark.begin BY BetweenIs DEF IsOnText
<1>2. PICK j \in 0 .. Len(line) : PreBytes(line, j) = mark.end BY BetweenIs DEF IsOnText
<1>3. i <= j BY <1>1, <1>2, PlacesFollow
<1>4. IsRegion(line, i, j, mark.begin, mark.end) BY <1>1, <1>2, <1>3 DEF IsRegion
<1> QED BY <1>4

LEMMA OthersAreApart ==
  ASSUME NEW line, NEW marks, AreOnText(line, marks), NEW mark \in marks, mark.begin <= mark.end,
         NEW m \in marks, m # mark
  PROVE  ApartFrom(m, mark.begin, mark.end)
<1>1. IsOnText(line, m) /\ IsOnText(line, mark) /\ OutsideOf(mark, m) /\ IsLine(line) BY DEF AreOnText
<1>2. m.begin \in Nat /\ m.end \in Nat /\ mark.begin \in Nat /\ mark.end \in Nat BY <1>1, BetweenIs DEF IsOnText
<1> QED BY <1>1, <1>2 DEF ApartFrom, OutsideOf

\* Of two marks the second one is behind the first one.
LEMMA SecondIsBehind ==
  ASSUME NEW line, NEW marks, AreOnText(line, marks), NEW p \in marks, NEW q \in marks, p # q,
         p.begin <= p.end, q.begin <= q.end, p.begin < q.begin \/ (p.begin = q.begin /\ p.end <= q.end)
  PROVE  /\ p.begin \in Nat /\ p.end \in Nat /\ q.begin \in Nat /\ q.end \in Nat
         /\ p.end <= q.begin
<1>1. IsOnText(line, p) /\ IsOnText(line, q) /\ OutsideOf(p, q) /\ OutsideOf(q, p) /\ IsLine(line) BY DEF AreOnText
<1>2. p.begin \in Nat /\ p.end \in Nat /\ q.begin \in Nat /\ q.end \in Nat BY <1>1, BetweenIs DEF IsOnText
<1> QED BY <1>1, <1>2 DEF OutsideOf

\* where the columns of an edit are after the one before it
AreBehind(b3, e3, b2, e2, b, e, new) ==
  b3 = b2 + (b - e + Bytes(new)) /\ e3 = e2 + (b - e + Bytes(new))

\* it is as far behind it on the edited line as the edit says
LEMMA SecondIsRegion ==
  ASSUME NEW line, NEW i, NEW j, NEW b, NEW e, IsRegion(line, i, j, b, e), NEW new, IsLine(new),
         NEW q, IsOnText(line, q), q.begin <= q.end, e <= q.begin
  PROVE  \E u, v : IsRegion(Edited(line, i, j, new), u, v, q.begin + (b - e + Bytes(new)), q.end + (b - e + Bytes(new)))
<1> DEFINE N == Edited(line, i, j, new)
           d == b - e + Bytes(new)
<1>1. IsLine(line) /\ i \in 0 .. Len(line) /\ j \in 0 .. Len(line) /\ i <= j /\ b = PreBytes(line, i) /\ e = PreBytes(line, j) BY DEF IsRegion
<1>2. IsLine(N) BY <1>1, EditedIs
<1>3. IsBetween(line, q.begin) /\ IsBetween(line, q.end) BY DEF IsOnText
<1>4. /\ q.begin \in Nat /\ q.end \in Nat /\ b \in Nat /\ e \in Nat /\ b <= e /\ Bytes(new) \in Nat
      /\ q.begin >= e => IsBetween(N, q.begin - (e - b) + Bytes(new))
      /\ q.end >= e => IsBetween(N, q.end - (e - b) + Bytes(new)) BY <1>3, BetweenMoves
<1> HIDE DEF N
<1>5. q.begin - (e - b) + Bytes(new) = q.begin + d /\ q.end - (e - b) + Bytes(new) = q.end + d /\ q.begin >= e /\ q.end >= e BY <1>4
<1> HIDE DEF d
<1>6. IsBetween(N, q.begin + d) /\ IsBetween(N, q.end + d) BY <1>4, <1>5
<1>7. q.begin + d <= q.end + d BY <1>4 DEF d
<1>8. PICK u \in 0 .. Len(N) : PreBytes(N, u) = q.begin + d BY <1>2, <1>6, BetweenIs
<1>9. PICK v \in 0 .. Len(N) : PreBytes(N, v) = q.end + d BY <1>2, <1>6, BetweenIs
<1>10. u <= v BY <1>2, <1>7, <1>8, <1>9, PlacesFollow
<1>11. IsRegion(N, u, v, q.begin + d, q.end + d) BY <1>2, <1>8, <1>9, <1>10 DEF IsRegion
<1> QED BY <1>11 DEF N, d

LEMMA MovedAreApart ==
  ASSUME NEW b, NEW e, NEW bytes, NEW m, NEW m2, AreMoved(m, m2, b, e, bytes), ApartFrom(m, b, e),
         NEW q, q.begin \in Nat, q.end \in Nat, q.begin <= q.end, e <= q.begin, ApartFrom(m, q.begin, q.end)
  PROVE  ApartFrom(m2, q.begin + (b - e + bytes), q.end + (b - e + bytes))
<1> SUFFICES ASSUME m2.begin < m2.end
             PROVE  m2.end <= q.begin + (b - e + bytes) \/ q.end + (b - e + bytes) <= m2.begin
  BY DEF ApartFrom
<1>1. /\ m.begin \in Nat /\ m.end \in Nat /\ m2.begin \in Nat /\ m2.end \in Nat
      /\ b \in Nat /\ e \in Nat /\ b <= e /\ bytes \in Nat BY DEF AreMoved
<1>2. m.begin < m.end
  <2>1. m.end <= m.begin => m2.end <= m2.begin BY MovesKeepOrder
  <2> QED BY <1>1, <2>1
<1>3. m.end <= b \/ e <= m.begin BY <1>2 DEF ApartFrom
<1>4. m.end <= q.begin \/ q.end <= m.begin BY <1>2 DEF ApartFrom
<1>5. m.end <= b => m2.begin = m.begin /\ m2.end = m.end BY <1>2, MovesKeepOrder
<1>6. e <= m.begin => m2.begin = m.begin - (e - b) + bytes /\ m2.end = m.end - (e - b) + bytes BY <1>2, MovesKeepOrder
<1>7. CASE m.end <= b
  <2>1. m2.end <= b BY <1>5, <1>7
  <2> QED BY <1>1, <2>1
<1>8. CASE e <= m.begin
  <2>1. m2.begin = m.begin + (b - e + bytes) /\ m2.end = m.end + (b - e + bytes) BY <1>1, <1>6, <1>8
  <2> QED BY <1>1, <1>4, <2>1
<1> QED BY <1>3, <1>7, <1>8

-----------------------------------------------------------------------------
(* One and two instructions, shifted and applied.                            *)

ReplaceInst(b, e, new) ==
  [primary |-> FALSE, begin |-> <<1, b>>, end |-> <<1, e>>, yoffset |-> 0, xpos |-> -1, new |-> <<new>>]

ShiftOf(acc, inst) ==
  LET b == inst.begin
      e == inst.end
      ColOf(a, row) == IF row \in DOMAIN a.col THEN a.col[row] ELSE 0
      added == IF inst.new = <<>> THEN 0 ELSE Bytes(Last(inst.new))
      shift == (IF b[1] = e[1] THEN b[2] - e[2] ELSE -e[2]) + added
  IN  [row |-> acc.row + inst.yoffset,
       col |-> [row \in DOMAIN acc.col \union {e[1]} |-> IF row = e[1] THEN shift ELSE acc.col[row]],
       out |-> Append(acc.out, [inst EXCEPT !.begin = <<b[1] + acc.row, b[2] + ColOf(acc, b[1])>>,
                                            !.end = <<e[1] + acc.row, e[2] + ColOf(acc, e[1])>>])]
NoneShifted == [row |-> 0, col |-> <<>>, out |-> <<>>]
ShiftStep(T, seq, s) == IF s = {} THEN NoneShifted ELSE LET n == Max(s) IN ShiftOf(T[s \ {n}], seq[n])
Shifted(seq) == LET iter[s \in SUBSET DOMAIN seq] == ShiftStep(iter, seq, s) IN iter

LEMMA ShiftIsShifted ==
  ASSUME NEW insts
  PROVE  Shift(insts) = Shifted(insts)[DOMAIN insts].out
BY Zenon DEF Shift, FoldLeft, MapThenFoldSet, Shifted, ShiftStep, ShiftOf, NoneShifted

ApplyOf(acc, inst) ==
  LET text == SetText(<<acc.line>>, inst.begin, inst.end, inst.new)
  IN  [line |-> text[1],
       marks |-> {Moved(m, inst.begin[2], inst.end[2], Bytes(inst.new[1])) : m \in acc.marks}]
NoneApplied == [line |-> mkLine, marks |-> mkMarks]
ApplyStep(T, seq, s) == IF s = {} THEN NoneApplied ELSE LET n == Max(s) IN ApplyOf(T[s \ {n}], seq[n])
AppliedTo(seq) == LET iter[s \in SUBSET DOMAIN seq] == ApplyStep(iter, seq, s) IN iter

LEMMA AppliedIsAppliedTo ==
  ASSUME NEW insts
  PROVE  Applied(insts) = AppliedTo(Shift(insts))[DOMAIN Shift(insts)]
BY Zenon DEF Applied, FoldLeft, MapThenFoldSet, AppliedTo, ApplyStep, ApplyOf, NoneApplied

LEMMA GreatestOfTwo == Max({1}) = 1 /\ Max({2}) = 2 /\ Max({1, 2}) = 2
<1>1. Max({1}) = 1
  <2>1. {1} \in SUBSET (1 .. 2) /\ {1} # {} /\ 2 \in Nat OBVIOUS
  <2>2. Max({1}) \in {1} BY <2>1, GreatestIs
  <2> QED BY <2>2
<1>2. Max({2}) = 2
  <2>1. {2} \in SUBSET (1 .. 2) /\ {2} # {} /\ 2 \in Nat OBVIOUS
  <2>2. Max({2}) \in {2} BY <2>1, GreatestIs
  <2> QED BY <2>2
<1>3. Max({1, 2}) = 2
  <2>1. {1, 2} \in SUBSET (1 .. 2) /\ {1, 2} # {} /\ 2 \in Nat OBVIOUS
  <2>2. Max({1, 2}) \in {1, 2} /\ \A x \in {1, 2} : Max({1, 2}) >= x BY <2>1, GreatestIs
  <2> QED BY <2>2
<1> QED BY <1>1, <1>2, <1>3

\* the parts of a set of no more than two
LEMMA PartsOfTwo ==
  ASSUME NEW D, D = {1} \/ D = {1, 2}, NEW s \in SUBSET D
  PROVE  s = {} \/ s = {1} \/ s = {2} \/ s = {1, 2}
OBVIOUS

LEMMA ShiftedAre ==
  ASSUME NEW seq, DOMAIN seq = {1} \/ DOMAIN seq = {1, 2}
  PROVE  /\ Shifted(seq)[{1}] = ShiftOf(NoneShifted, seq[1])
         /\ DOMAIN seq = {1, 2} => Shifted(seq)[{1, 2}] = ShiftOf(ShiftOf(NoneShifted, seq[1]), seq[2])
<1> DEFINE D == DOMAIN seq
           v1 == ShiftOf(NoneShifted, seq[1])
           v2 == ShiftOf(v1, seq[2])
           w == ShiftOf(NoneShifted, seq[2])
           G == [s \in SUBSET D |-> IF s = {} THEN NoneShifted ELSE IF s = {1} THEN v1 ELSE IF s = {2} THEN w ELSE v2]
<1>1. {1} # {} /\ {2} # {} /\ {1, 2} # {} /\ {1} # {2} /\ {1, 2} # {1} /\ {1, 2} # {2} /\ {1} \ {1} = {} /\ {2} \ {2} = {} /\ {1, 2} \ {2} = {1}
  OBVIOUS
<1>2. {} \in SUBSET D /\ {1} \in SUBSET D OBVIOUS
<1> HIDE DEF v1, v2, w
<1>3. /\ G[{}] = NoneShifted /\ G[{1}] = v1
      /\ {2} \in SUBSET D => G[{2}] = w
      /\ {1, 2} \in SUBSET D => G[{1, 2}] = v2 BY <1>1, <1>2
<1>4. G = [s \in SUBSET D |-> G[s]] OBVIOUS
<1> HIDE DEF G, D
<1>5. ASSUME NEW s \in SUBSET D PROVE G[s] = ShiftStep(G, seq, s)
  <2>1. s = {} \/ s = {1} \/ s = {2} \/ s = {1, 2} BY PartsOfTwo DEF D
  <2>2. CASE s = {} BY <1>3, <2>2, Zenon DEF ShiftStep
  <2>3. CASE s = {1} BY <1>1, <1>3, <2>3, GreatestOfTwo, Zenon DEF ShiftStep, v1
  <2>4. CASE s = {2} BY <1>1, <1>3, <2>4, GreatestOfTwo, Zenon DEF ShiftStep, w
  <2>5. CASE s = {1, 2} BY <1>1, <1>3, <2>5, GreatestOfTwo, Zenon DEF ShiftStep, v2
  <2> QED BY <2>1, <2>2, <2>3, <2>4, <2>5
<1>6. G = [s \in SUBSET D |-> ShiftStep(G, seq, s)] BY <1>4, <1>5
<1> DEFINE T == Shifted(seq)
<1>7. T = [s \in SUBSET D |-> ShiftStep(T, seq, s)] BY <1>6, Zenon DEF Shifted, D
<1> HIDE DEF T
<1>8. \A s \in SUBSET D : T[s] = ShiftStep(T, seq, s) BY <1>7
<1>9. T[{}] = NoneShifted BY <1>2, <1>8, Zenon DEF ShiftStep
<1>10. T[{1}] = v1 BY <1>1, <1>2, <1>8, <1>9, GreatestOfTwo, Zenon DEF ShiftStep, v1
<1>11. D = {1, 2} => T[{1, 2}] = v2
  <2> SUFFICES ASSUME D = {1, 2} PROVE T[{1, 2}] = v2 OBVIOUS
  <2>1. {1, 2} \in SUBSET D OBVIOUS
  <2> QED BY <1>1, <1>8, <1>10, <2>1, GreatestOfTwo, Zenon DEF ShiftStep, v2
<1> QED BY <1>10, <1>11 DEF T, D, v1, v2

LEMMA AppliedAre ==
  ASSUME NEW seq, DOMAIN seq = {1} \/ DOMAIN seq = {1, 2}
  PROVE  /\ AppliedTo(seq)[{1}] = ApplyOf(NoneApplied, seq[1])
         /\ DOMAIN seq = {1, 2} => AppliedTo(seq)[{1, 2}] = ApplyOf(ApplyOf(NoneApplied, seq[1]), seq[2])
<1> DEFINE D == DOMAIN seq
           v1 == ApplyOf(NoneApplied, seq[1])
           v2 == ApplyOf(v1, seq[2])
           w == ApplyOf(NoneApplied, seq[2])
           G == [s \in SUBSET D |-> IF s = {} THEN NoneApplied ELSE IF s = {1} THEN v1 ELSE IF s = {2} THEN w ELSE v2]
<1>1. {1} # {} /\ {2} # {} /\ {1, 2} # {} /\ {1} # {2} /\ {1, 2} # {1} /\ {1, 2} # {2} /\ {1} \ {1} = {} /\ {2} \ {2} = {} /\ {1, 2} \ {2} = {1}
  OBVIOUS
<1>2. {} \in SUBSET D /\ {1} \in SUBSET D OBVIOUS
<1> HIDE DEF v1, v2, w
<1>3. /\ G[{}] = NoneApplied /\ G[{1}] = v1
      /\ {2} \in SUBSET D => G[{2}] = w
      /\ {1, 2} \in SUBSET D => G[{1, 2}] = v2 BY <1>1, <1>2
<1>4. G = [s \in SUBSET D |-> G[s]] OBVIOUS
<1> HIDE DEF G, D
<1>5. ASSUME NEW s \in SUBSET D PROVE G[s] = ApplyStep(G, seq, s)
  <2>1. s = {} \/ s = {1} \/ s = {2} \/ s = {1, 2} BY PartsOfTwo DEF D
  <2>2. CASE s = {} BY <1>3, <2>2, Zenon DEF ApplyStep
  <2>3. CASE s = {1} BY <1>1, <1>3, <2>3, GreatestOfTwo, Zenon DEF ApplyStep, v1
  <2>4. CASE s = {2} BY <1>1, <1>3, <2>4, GreatestOfTwo, Zenon DEF ApplyStep, w
  <2>5. CASE s = {1, 2} BY <1>1, <1>3, <2>5, GreatestOfTwo, Zenon DEF ApplyStep, v2
  <2> QED BY <2>1, <2>2, <2>3, <2>4, <2>5
<1>6. G = [s \in SUBSET D |-> ApplyStep(G, seq, s)] BY <1>4, <1>5
<1> DEFINE T == AppliedTo(seq)
<1>7. T = [s \in SUBSET D |-> ApplyStep(T, seq, s)] BY <1>6, Zenon DEF AppliedTo, D
<1> HIDE DEF T
<1>8. \A s \in SUBSET D : T[s] = ApplyStep(T, seq, s) BY <1>7
<1>9. T[{}] = NoneApplied BY <1>2, <1>8, Zenon DEF ApplyStep
<1>10. T[{1}] = v1 BY <1>1, <1>2, <1>8, <1>9, GreatestOfTwo, Zenon DEF ApplyStep, v1
<1>11. D = {1, 2} => T[{1, 2}] = v2
  <2> SUFFICES ASSUME D = {1, 2} PROVE T[{1, 2}] = v2 OBVIOUS
  <2>1. {1, 2} \in SUBSET D OBVIOUS
  <2> QED BY <1>1, <1>8, <1>10, <2>1, GreatestOfTwo, Zenon DEF ApplyStep, v2
<1> QED BY <1>10, <1>11 DEF T, D, v1, v2

ShiftedOnce(b, e, new) == [row |-> 0, col |-> [r \in {1} |-> b - e + Bytes(new)], out |-> <<ReplaceInst(b, e, new)>>]

LEMMA ReplaceInstIs ==
  ASSUME NEW b, NEW e, NEW new, NEW inst, inst = ReplaceInst(b, e, new)
  PROVE  /\ inst.begin = <<1, b>> /\ inst.begin[1] = 1 /\ inst.begin[2] = b
         /\ inst.end = <<1, e>> /\ inst.end[1] = 1 /\ inst.end[2] = e
         /\ inst.yoffset = 0 /\ inst.new = <<new>> /\ inst.new # <<>> /\ Last(inst.new) = new /\ inst.new[1] = new
<1>1. inst.begin = <<1, b>> /\ inst.end = <<1, e>> /\ inst.yoffset = 0 /\ inst.new = <<new>> BY DEF ReplaceInst
<1>2. <<new>> # <<>> /\ Last(<<new>>) = new /\ <<new>>[1] = new BY DEF Last
<1>3. inst.begin[1] = 1 /\ inst.begin[2] = b /\ inst.end[1] = 1 /\ inst.end[2] = e BY <1>1
<1>4. inst.new # <<>> /\ Last(inst.new) = new /\ inst.new[1] = new
  <2>1. inst.new = <<new>> BY <1>1
  <2> QED BY <1>2, <2>1, Zenon
<1> QED BY <1>1, <1>3, <1>4

Replaces(inst, new) == \E b, e : inst = ReplaceInst(b, e, new)

PutAt(inst, c, d) == [inst EXCEPT !.begin = <<1, c>>, !.end = <<1, d>>]

LEMMA ReplaceInstElsewhere ==
  ASSUME NEW new, NEW inst, Replaces(inst, new), NEW c, NEW d
  PROVE  PutAt(inst, c, d) = ReplaceInst(c, d, new)
<1>8. PICK b, e : inst = ReplaceInst(b, e, new) BY DEF Replaces
<1>1. PICK w, x, y, z, f, p, q : w = <<new>> /\ x = <<1, c>> /\ y = <<1, d>> /\ z = -1 /\ f = FALSE /\ p = <<1, b>> /\ q = <<1, e>>
  OBVIOUS
<1>2. inst = [primary |-> f, begin |-> p, end |-> q, yoffset |-> 0, xpos |-> z, new |-> w] BY <1>1, <1>8 DEF ReplaceInst
<1>3. PICK i : i = [inst EXCEPT !.begin = x] OBVIOUS
<1>4. i = [primary |-> f, begin |-> x, end |-> q, yoffset |-> 0, xpos |-> z, new |-> w] BY <1>2, <1>3
<1>5. [i EXCEPT !.end = y] = [primary |-> f, begin |-> x, end |-> y, yoffset |-> 0, xpos |-> z, new |-> w] BY <1>4
<1>6. [inst EXCEPT !.begin = x, !.end = y] = [i EXCEPT !.end = y] BY <1>3
<1>7. ReplaceInst(c, d, new) = [primary |-> f, begin |-> x, end |-> y, yoffset |-> 0, xpos |-> z, new |-> w] BY <1>1 DEF ReplaceInst
<1>9. PutAt(inst, c, d) = [inst EXCEPT !.begin = x, !.end = y] BY <1>1 DEF PutAt
<1> QED BY <1>5, <1>6, <1>7, <1>9

LEMMA ReplaceInstStays ==
  ASSUME NEW b, NEW e, NEW new
  PROVE  [ReplaceInst(b, e, new) EXCEPT !.begin = <<1, b>>, !.end = <<1, e>>] = ReplaceInst(b, e, new)
<1>1. PICK inst : inst = ReplaceInst(b, e, new) OBVIOUS
<1>2. Replaces(inst, new) BY <1>1 DEF Replaces
<1>3. PutAt(inst, b, e) = ReplaceInst(b, e, new) BY <1>2, ReplaceInstElsewhere, Zenon
<1> QED BY <1>1, <1>3, Zenon DEF PutAt

LEMMA OneMoreInTurn ==
  ASSUME NEW a, NEW c
  PROVE  Append(<<a>>, c) = <<a, c>>
<1> DEFINE X == {a, c}
<1>1. PICK s : s = <<a>> OBVIOUS
<1>2. s \in Seq(X) /\ Len(s) = 1 /\ s[1] = a BY <1>1
<1>3. c \in X OBVIOUS
<1> HIDE DEF X
<1>4. PICK r : r = Append(s, c) OBVIOUS
<1>5. r \in Seq(X) /\ Len(r) = 2 /\ r[1] = a /\ r[2] = c
  <2>1. s \in Seq(X) BY <1>2
  <2>2. r \in Seq(X) /\ Len(r) = Len(s) + 1 /\ (\A n \in 1 .. Len(s) : r[n] = s[n]) /\ r[Len(s) + 1] = c
    BY <1>3, <1>4, <2>1, AppendProperties
  <2> QED BY <1>2, <2>2
<1>6. PICK t : t = <<a, c>> OBVIOUS
<1>7. t \in Seq(X) /\ Len(t) = 2 /\ t[1] = a /\ t[2] = c BY <1>6 DEF X
<1>8. r = t BY <1>5, <1>7
<1> QED BY <1>1, <1>4, <1>6, <1>8

LEMMA TwoInTurn ==
  ASSUME NEW a, NEW c
  PROVE  /\ Append(<<a>>, c) = <<a, c>> /\ Append(<<>>, a) = <<a>> /\ DOMAIN <<a>> = {1} /\ <<a>>[1] = a
         /\ DOMAIN <<a, c>> = {1, 2} /\ <<a, c>>[1] = a /\ <<a, c>>[2] = c
<1>1. Append(<<a>>, c) = <<a, c>> BY OneMoreInTurn
<1>2. Append(<<>>, a) = <<a>> /\ DOMAIN <<a>> = {1} /\ <<a>>[1] = a OBVIOUS
<1>3. DOMAIN <<a, c>> = {1, 2} /\ <<a, c>>[1] = a /\ <<a, c>>[2] = c OBVIOUS
<1> QED BY <1>1, <1>2, <1>3

LEMMA ShiftsOne ==
  ASSUME NEW b \in Nat, NEW e \in Nat, NEW new, IsLine(new)
  PROVE  ShiftOf(NoneShifted, ReplaceInst(b, e, new)) = ShiftedOnce(b, e, new)
<1> DEFINE inst == ReplaceInst(b, e, new)
           bytes == Bytes(new)
<1>1. /\ inst.begin[1] = 1 /\ inst.begin[2] = b /\ inst.end[1] = 1 /\ inst.end[2] = e
      /\ inst.yoffset = 0 /\ inst.new # <<>> /\ Last(inst.new) = new BY ReplaceInstIs
<1>9. [inst EXCEPT !.begin = <<1, b>>, !.end = <<1, e>>] = ReplaceInst(b, e, new) BY ReplaceInstStays, Zenon
<1>2. NoneShifted.row = 0 /\ NoneShifted.out = <<>> /\ DOMAIN NoneShifted.col = {} BY DEF NoneShifted
<1>3. bytes \in Nat BY LinesHaveBytes
<1> HIDE DEF inst, bytes
<1>5. ShiftOf(NoneShifted, inst)
        = [row |-> 0 + 0,
           col |-> [r \in {} \union {1} |-> IF r = 1 THEN b - e + bytes ELSE NoneShifted.col[r]],
           out |-> Append(<<>>, [inst EXCEPT !.begin = <<1 + 0, b + 0>>, !.end = <<1 + 0, e + 0>>])]
  BY <1>1, <1>2 DEF ShiftOf, bytes
<1>6. [r \in {} \union {1} |-> IF r = 1 THEN b - e + bytes ELSE NoneShifted.col[r]] = [r \in {1} |-> b - e + bytes] OBVIOUS
<1>7. [inst EXCEPT !.begin = <<1 + 0, b + 0>>, !.end = <<1 + 0, e + 0>>] = inst
  <2>2. 1 + 0 = 1 /\ b + 0 = b /\ e + 0 = e OBVIOUS
  <2> QED BY <1>9, <2>2 DEF inst
<1>8. Append(<<>>, inst) = <<inst>> BY TwoInTurn
<1> QED BY <1>5, <1>6, <1>7, <1>8 DEF ShiftedOnce, inst, bytes

LEMMA ShiftsTwo ==
  ASSUME NEW b \in Nat, NEW e \in Nat, NEW new, IsLine(new), NEW b2 \in Nat, NEW e2 \in Nat,
         NEW b3, NEW e3, AreBehind(b3, e3, b2, e2, b, e, new)
  PROVE  ShiftOf(ShiftedOnce(b, e, new), ReplaceInst(b2, e2, new)).out = <<ReplaceInst(b, e, new), ReplaceInst(b3, e3, new)>>
<1>9. PICK d : d = b - e + Bytes(new) OBVIOUS
<1>10. b3 = b2 + d /\ e3 = e2 + d BY <1>9 DEF AreBehind
<1> DEFINE acc == ShiftedOnce(b, e, new)
           one == ReplaceInst(b, e, new)
           inst == ReplaceInst(b2, e2, new)
<1>1. inst.begin[1] = 1 /\ inst.begin[2] = b2 /\ inst.end[1] = 1 /\ inst.end[2] = e2 BY ReplaceInstIs
<1>8. [inst EXCEPT !.begin = <<1, b3>>, !.end = <<1, e3>>] = ReplaceInst(b3, e3, new)
  <2>1. Replaces(inst, new) BY DEF Replaces
  <2> HIDE DEF inst
  <2>2. PutAt(inst, b3, e3) = ReplaceInst(b3, e3, new) BY <2>1, ReplaceInstElsewhere, Zenon
  <2> QED BY <2>2, Zenon DEF PutAt
<1>2. acc.row = 0 /\ acc.out = <<one>> /\ DOMAIN acc.col = {1} /\ acc.col[1] = d BY <1>9 DEF ShiftedOnce
<1> HIDE DEF inst, acc, one
<1>3. 1 \in DOMAIN acc.col BY <1>2
<1>4. ShiftOf(acc, inst).out = Append(acc.out, [inst EXCEPT !.begin = <<1 + 0, b2 + d>>, !.end = <<1 + 0, e2 + d>>])
  BY <1>1, <1>2, <1>3 DEF ShiftOf
<1>5. [inst EXCEPT !.begin = <<1 + 0, b2 + d>>, !.end = <<1 + 0, e2 + d>>] = ReplaceInst(b3, e3, new)
  <2>1. 1 + 0 = 1 OBVIOUS
  <2> QED BY <1>8, <1>10, <2>1
<1>6. PICK two : two = ReplaceInst(b3, e3, new) OBVIOUS
<1>7. Append(<<one>>, two) = <<one, two>> BY TwoInTurn
<1> QED BY <1>2, <1>4, <1>5, <1>6, <1>7 DEF acc, inst, one

LEMMA AppliesOne ==
  ASSUME NEW line, NEW marks, NEW i, NEW j, NEW b, NEW e, IsRegion(line, i, j, b, e), NEW new, IsLine(new)
  PROVE  ApplyOf([line |-> line, marks |-> marks], ReplaceInst(b, e, new))
           = [line |-> Edited(line, i, j, new), marks |-> MovedMarks(marks, b, e, Bytes(new))]
<1> DEFINE acc == [line |-> line, marks |-> marks]
           inst == ReplaceInst(b, e, new)
           N == Edited(line, i, j, new)
<1>1. /\ inst.begin = <<1, b>> /\ inst.end = <<1, e>> /\ inst.new = <<new>> /\ inst.new[1] = new
      /\ inst.begin[2] = b /\ inst.end[2] = e BY ReplaceInstIs
<1>2. acc.line = line /\ acc.marks = marks OBVIOUS
<1>3. SetText(<<line>>, <<1, b>>, <<1, e>>, <<new>>) = <<N>> BY SetTextIsEdited DEF IsRegion
<1> HIDE DEF inst, acc, N
<1>5. SetText(<<acc.line>>, inst.begin, inst.end, inst.new) = <<N>> BY <1>1, <1>2, <1>3
<1>6. ApplyOf(acc, inst) = [line |-> <<N>>[1], marks |-> {Moved(m, b, e, Bytes(new)) : m \in marks}]
  BY <1>1, <1>2, <1>5 DEF ApplyOf
<1>7. <<N>>[1] = N OBVIOUS
<1> QED BY <1>6, <1>7 DEF MovedMarks, acc, inst, N

LEMMA AppliedOnce ==
  ASSUME NEW b \in Nat, NEW e \in Nat, NEW i, NEW j, IsRegion(mkLine, i, j, b, e), NEW new, IsLine(new)
  PROVE  Applied(<<ReplaceInst(b, e, new)>>)
           = [line |-> Edited(mkLine, i, j, new), marks |-> MovedMarks(mkMarks, b, e, Bytes(new))]
<1> DEFINE inst == ReplaceInst(b, e, new)
           insts == <<inst>>
<1>1. ShiftOf(NoneShifted, inst).out = <<inst>>
  <2>1. ShiftOf(NoneShifted, inst) = ShiftedOnce(b, e, new) BY ShiftsOne
  <2>2. ShiftedOnce(b, e, new).out = <<inst>> BY DEF ShiftedOnce
  <2> QED BY <2>1, <2>2
<1>2. ApplyOf(NoneApplied, inst) = [line |-> Edited(mkLine, i, j, new), marks |-> MovedMarks(mkMarks, b, e, Bytes(new))]
  BY AppliesOne DEF NoneApplied
<1> HIDE DEF inst
<1>3. DOMAIN insts = {1} /\ insts[1] = inst BY TwoInTurn
<1>4. Shift(insts) = insts
  <2>1. Shift(insts) = Shifted(insts)[{1}].out BY <1>3, ShiftIsShifted
  <2>2. Shifted(insts)[{1}] = ShiftOf(NoneShifted, inst) BY <1>3, ShiftedAre
  <2> QED BY <1>1, <2>1, <2>2
<1> HIDE DEF insts
<1>5. Applied(insts) = AppliedTo(insts)[{1}] BY <1>3, <1>4, AppliedIsAppliedTo
<1>6. AppliedTo(insts)[{1}] = ApplyOf(NoneApplied, inst) BY <1>3, AppliedAre
<1> QED BY <1>2, <1>5, <1>6 DEF insts, inst

LEMMA AppliedTwice ==
  ASSUME NEW b \in Nat, NEW e \in Nat, NEW i, NEW j, IsRegion(mkLine, i, j, b, e), NEW new, IsLine(new),
         NEW b2 \in Nat, NEW e2 \in Nat, NEW b3, NEW e3, AreBehind(b3, e3, b2, e2, b, e, new),
         NEW N, N = Edited(mkLine, i, j, new), NEW u, NEW v, IsRegion(N, u, v, b3, e3)
  PROVE  Applied(<<ReplaceInst(b, e, new), ReplaceInst(b2, e2, new)>>)
           = [line |-> Edited(N, u, v, new),
              marks |-> MovedMarks(MovedMarks(mkMarks, b, e, Bytes(new)), b3, e3, Bytes(new))]
<1> DEFINE one == ReplaceInst(b, e, new)
           two == ReplaceInst(b2, e2, new)
           behind == ReplaceInst(b3, e3, new)
           M == MovedMarks(mkMarks, b, e, Bytes(new))
           insts == <<one, two>>
           shifted == <<one, behind>>
<1>1. ShiftOf(ShiftOf(NoneShifted, one), two).out = shifted
  <2>1. ShiftOf(NoneShifted, one) = ShiftedOnce(b, e, new) BY ShiftsOne
  <2>2. ShiftOf(ShiftedOnce(b, e, new), two).out = shifted BY ShiftsTwo
  <2> QED BY <2>1, <2>2, Zenon
<1>2. ApplyOf(NoneApplied, one) = [line |-> N, marks |-> M] BY AppliesOne DEF NoneApplied
<1> HIDE DEF M, one
<1>3. ApplyOf([line |-> N, marks |-> M], behind)
        = [line |-> Edited(N, u, v, new), marks |-> MovedMarks(M, b3, e3, Bytes(new))]
  BY AppliesOne
<1> HIDE DEF two, behind
<1>4. DOMAIN insts = {1, 2} /\ insts[1] = one /\ insts[2] = two BY TwoInTurn
<1>5. DOMAIN shifted = {1, 2} /\ shifted[1] = one /\ shifted[2] = behind BY TwoInTurn
<1> HIDE DEF insts, shifted
<1>6. Shift(insts) = shifted
  <2>1. Shift(insts) = Shifted(insts)[{1, 2}].out BY <1>4, ShiftIsShifted
  <2>2. Shifted(insts)[{1, 2}] = ShiftOf(ShiftOf(NoneShifted, one), two) BY <1>4, ShiftedAre
  <2> QED BY <1>1, <2>1, <2>2
<1>7. Applied(insts) = AppliedTo(shifted)[{1, 2}] BY <1>5, <1>6, AppliedIsAppliedTo
<1>8. AppliedTo(shifted)[{1, 2}] = ApplyOf(ApplyOf(NoneApplied, one), behind) BY <1>5, AppliedAre
<1> QED BY <1>2, <1>3, <1>7, <1>8 DEF M, insts, one, two

\* What is left to visit, in turn.
AtMostTwo(marks) == \A k, l, m \in marks : k.idx = l.idx /\ l.idx = m.idx => k = l \/ l = m \/ k = m

CursorIsOnLine == mkCursor \in 0 .. Bytes(mkLine)

MkIInv == AreOnText(mkLine, mkMarks) /\ AtMostTwo(mkMarks) /\ CursorIsOnLine

LEMMA TextsAreAreMarks ==
  ASSUME NEW line, NEW marks, AreOnText(line, marks)
  PROVE  AreMarks(marks)
<1>1. \A m \in marks : IsMark(m) /\ m.begin \in Nat /\ m.end \in Nat BY BetweenIs DEF AreOnText, IsOnText
<1> QED BY <1>1 DEF AreOnText, AreMarks

LEMMA MovedAreAtMostTwo ==
  ASSUME NEW line, NEW marks, AreOnText(line, marks), AtMostTwo(marks),
         NEW i, NEW j, NEW b, NEW e, IsRegion(line, i, j, b, e), NEW new, IsLine(new)
  PROVE  AtMostTwo(MovedMarks(marks, b, e, Bytes(new)))
<1> DEFINE M == MovedMarks(marks, b, e, Bytes(new))
<1>1. \A m2 \in M : \E m \in marks : m2 = Moved(m, b, e, Bytes(new)) BY DEF MovedMarks
<1>2. ASSUME NEW m \in marks PROVE Moved(m, b, e, Bytes(new)).idx = m.idx
  <2>1. PICK m2 : m2 = Moved(m, b, e, Bytes(new)) OBVIOUS
  <2>2. IsOnText(line, m) BY DEF AreOnText
  <2>3. m2.idx = m.idx BY <2>1, <2>2, MarkMoves
  <2> QED BY <2>1, <2>3
<1> HIDE DEF M
<1>3. ASSUME NEW k2 \in M, NEW l2 \in M, NEW m2 \in M, k2.idx = l2.idx, l2.idx = m2.idx PROVE k2 = l2 \/ l2 = m2 \/ k2 = m2
  <2>1. PICK k \in marks : k2 = Moved(k, b, e, Bytes(new)) BY <1>1
  <2>2. PICK l \in marks : l2 = Moved(l, b, e, Bytes(new)) BY <1>1
  <2>3. PICK m \in marks : m2 = Moved(m, b, e, Bytes(new)) BY <1>1
  <2>4. k.idx = l.idx /\ l.idx = m.idx BY <1>2, <1>3, <2>1, <2>2, <2>3
  <2>5. k = l \/ l = m \/ k = m BY <2>4 DEF AtMostTwo
  <2> QED BY <2>1, <2>2, <2>3, <2>5
<1> QED BY <1>3 DEF AtMostTwo, M

\* the marks that an edit is in the way of are those that are replaced
LEMMA OneIsReplaced ==
  ASSUME NEW line, NEW marks, AreOnText(line, marks), NEW p \in marks, p.begin <= p.end, NEW new, IsLine(new)
  PROVE  \E i, j : /\ IsRegion(line, i, j, p.begin, p.end)
                   /\ AreOnText(Edited(line, i, j, new), MovedMarks(marks \ {p}, p.begin, p.end, Bytes(new)))
<1>1. IsLine(line) /\ IsOnText(line, p) BY DEF AreOnText
<1>2. PICK i, j : IsRegion(line, i, j, p.begin, p.end) BY <1>1, MarkIsRegion
<1>3. PICK b, e : b = p.begin /\ e = p.end OBVIOUS
<1>4. AreOnText(line, marks \ {p}) BY FewerAreOnText
<1>5. \A m \in marks \ {p} : ApartFrom(m, b, e) BY <1>3, OthersAreApart
<1>6. AreOnText(Edited(line, i, j, new), MovedMarks(marks \ {p}, b, e, Bytes(new))) BY <1>2, <1>3, <1>4, <1>5, MarksMove
<1> QED BY <1>2, <1>3, <1>6

IsBeforeMark(p, q) ==
  /\ p # q /\ p.begin <= p.end /\ q.begin <= q.end
  /\ p.begin < q.begin \/ (p.begin = q.begin /\ p.end <= q.end)

LEMMA TwoAreReplaced ==
  ASSUME NEW line, NEW marks, AreOnText(line, marks), NEW p \in marks, NEW q \in marks, IsBeforeMark(p, q), NEW new, IsLine(new),
         NEW b3, NEW e3, AreBehind(b3, e3, q.begin, q.end, p.begin, p.end, new)
  PROVE  /\ p.begin \in Nat /\ p.end \in Nat /\ q.begin \in Nat /\ q.end \in Nat
         /\ \E i, j, N, u, v :
              /\ IsRegion(line, i, j, p.begin, p.end) /\ N = Edited(line, i, j, new)
              /\ IsRegion(N, u, v, b3, e3)
              /\ AreOnText(N, MovedMarks(marks \ {p, q}, p.begin, p.end, Bytes(new)))
              /\ AreOnText(Edited(N, u, v, new),
                           MovedMarks(MovedMarks(marks \ {p, q}, p.begin, p.end, Bytes(new)), b3, e3, Bytes(new)))
<1> DEFINE bytes == Bytes(new)
           rest == marks \ {p, q}
           M == MovedMarks(rest, p.begin, p.end, bytes)
<1>1. p.begin \in Nat /\ p.end \in Nat /\ q.begin \in Nat /\ q.end \in Nat /\ p.end <= q.begin BY SecondIsBehind DEF IsBeforeMark
<1>2. p.begin <= p.end /\ q.begin <= q.end /\ p # q BY DEF IsBeforeMark
<1>3. PICK i, j : /\ IsRegion(line, i, j, p.begin, p.end)
                  /\ AreOnText(Edited(line, i, j, new), MovedMarks(marks \ {p}, p.begin, p.end, bytes))
  BY <1>2, OneIsReplaced
<1>4. PICK N : N = Edited(line, i, j, new) OBVIOUS
<1>5. IsOnText(line, q) BY DEF AreOnText
<1>6. PICK u, v : IsRegion(N, u, v, b3, e3)
  <2>1. \E u, v : IsRegion(N, u, v, q.begin + (p.begin - p.end + bytes), q.end + (p.begin - p.end + bytes))
    BY <1>1, <1>2, <1>3, <1>4, <1>5, SecondIsRegion
  <2> QED BY <2>1 DEF AreBehind
<1>7. AreOnText(N, M)
  <2>1. M \in SUBSET MovedMarks(marks \ {p}, p.begin, p.end, bytes) BY DEF MovedMarks
  <2> HIDE DEF M
  <2> QED BY <1>3, <1>4, <2>1, FewerAreOnText
<1>8. ASSUME NEW m2 \in M PROVE ApartFrom(m2, b3, e3)
  <2>1. PICK m \in rest : m2 = Moved(m, p.begin, p.end, bytes) BY DEF MovedMarks
  <2>2. IsOnText(line, m) BY DEF AreOnText
  <2>3. AreMoved(m, m2, p.begin, p.end, bytes) BY <1>3, <2>1, <2>2, MarkMoves
  <2>4. ApartFrom(m, p.begin, p.end) BY <1>2, OthersAreApart
  <2>5. ApartFrom(m, q.begin, q.end) BY <1>2, OthersAreApart
  <2>6. ApartFrom(m2, q.begin + (p.begin - p.end + bytes), q.end + (p.begin - p.end + bytes))
    BY <1>1, <1>2, <2>3, <2>4, <2>5, MovedAreApart
  <2> QED BY <2>6 DEF AreBehind
<1> HIDE DEF M
<1>9. AreOnText(Edited(N, u, v, new), MovedMarks(M, b3, e3, bytes)) BY <1>6, <1>7, <1>8, MarksMove
<1> QED BY <1>1, <1>3, <1>4, <1>6, <1>7, <1>9 DEF M

LEMMA FewerAreAtMostTwo ==
  ASSUME NEW marks, AtMostTwo(marks), NEW some \in SUBSET marks
  PROVE  AtMostTwo(some)
BY DEF AtMostTwo

LEMMA MovedKeepTheirIds ==
  ASSUME NEW line, NEW marks, AreOnText(line, marks), NEW i, NEW j, NEW b, NEW e, IsRegion(line, i, j, b, e),
         NEW new, IsLine(new), NEW m \in marks
  PROVE  Moved(m, b, e, Bytes(new)).id = m.id
<1>1. PICK m2 : m2 = Moved(m, b, e, Bytes(new)) OBVIOUS
<1>2. IsOnText(line, m) BY DEF AreOnText
<1>3. m2.id = m.id BY <1>1, <1>2, MarkMoves
<1> QED BY <1>1, <1>3

\* what is left of the marks there are: what is moved of those that are not replaced
LEMMA OneIsGone ==
  ASSUME MkIInv, NEW p \in mkMarks, NEW i, NEW j, NEW b, NEW e, IsRegion(mkLine, i, j, b, e), NEW new, IsLine(new),
         NEW some \in SUBSET MovedMarks(mkMarks, b, e, Bytes(new)), \A m \in some : m.id # p.id
  PROVE  some \in SUBSET MovedMarks(mkMarks \ {p}, b, e, Bytes(new))
<1> SUFFICES ASSUME NEW m2 \in some PROVE m2 \in MovedMarks(mkMarks \ {p}, b, e, Bytes(new)) OBVIOUS
<1>1. PICK m \in mkMarks : m2 = Moved(m, b, e, Bytes(new)) BY DEF MovedMarks
<1>2. m2.id = m.id BY <1>1, MovedKeepTheirIds DEF MkIInv
<1>3. m # p BY <1>2
<1> QED BY <1>1, <1>3 DEF MovedMarks

\* what is put there ends on the line
LEMMA NewIsOnLine ==
  ASSUME NEW line, NEW i, NEW j, NEW b, NEW e, IsRegion(line, i, j, b, e), NEW new, IsLine(new)
  PROVE  /\ b \in Nat /\ Bytes(new) \in Nat /\ Bytes(Edited(line, i, j, new)) \in Nat
         /\ b + Bytes(new) <= Bytes(Edited(line, i, j, new))
<1>1. IsLine(line) /\ i \in 0 .. Len(line) /\ j \in 0 .. Len(line) /\ i <= j /\ b = PreBytes(line, i) /\ e = PreBytes(line, j) BY DEF IsRegion
<1>2. PICK N : N = Edited(line, i, j, new) OBVIOUS
<1>3. IsLine(N) /\ Bytes(N) = b + Bytes(new) + Bytes(line) - e BY <1>1, <1>2, EditedIs
<1>4. Bytes(N) \in Nat /\ Bytes(new) \in Nat /\ Bytes(line) \in Nat /\ Len(line) \in 0 .. Len(line)
  BY <1>1, <1>3, LinesHaveBytes
<1>5. b \in Nat /\ e \in Nat /\ e <= Bytes(line)
  <2>1. j <= Len(line) BY <1>1
  <2>2. PreBytes(line, i) \in Nat /\ PreBytes(line, j) \in Nat /\ PreBytes(line, j) <= PreBytes(line, Len(line))
    BY <1>1, <1>4, <2>1, PlacesFollow
  <2> QED BY <1>1, <2>2, WholeIsPre
<1>6. b + Bytes(new) <= Bytes(N)
  <2>1. PICK x, y, z : x = Bytes(N) /\ y = Bytes(new) /\ z = Bytes(line) OBVIOUS
  <2>2. x \in Nat /\ y \in Nat /\ z \in Nat /\ x = b + y + z - e /\ e <= z BY <1>3, <1>4, <1>5, <2>1
  <2>3. b + y <= x BY <1>5, <2>2
  <2> QED BY <2>1, <2>3
<1> QED BY <1>2, <1>4, <1>5, <1>6

LEMMA VisitsOne ==
  ASSUME MkIInv, NEW p \in mkMarks, p.begin <= p.end, NEW new, IsLine(new), NEW shift, shift \in {0, Bytes(new)}, Visit(<<p>>, new, shift)
  PROVE  MkIInv'
<1> DEFINE seq == <<p>>
           insts == [i \in DOMAIN seq |-> MarkInst(seq[i], new)]
           skipped == {m \in mkMarks : Listed # LsMarks /\ m = Head(LsMarks)}
           bytes == Bytes(new)
<1>1. DOMAIN seq = {1} /\ seq[1] = p BY TwoInTurn
<1>2. PICK b, e \in Nat : b = p.begin /\ e = p.end
  <2>1. AreMarks(mkMarks) BY TextsAreAreMarks DEF MkIInv
  <2> QED BY <2>1 DEF AreMarks
<1>3. PICK i, j : IsRegion(mkLine, i, j, b, e) /\ AreOnText(Edited(mkLine, i, j, new), MovedMarks(mkMarks \ {p}, b, e, bytes))
  BY <1>2, OneIsReplaced DEF MkIInv
<1>4. insts = <<ReplaceInst(b, e, new)>>
  <2>1. MarkInst(p, new) = ReplaceInst(b, e, new) BY <1>2 DEF MarkInst, ReplaceInst
  <2> HIDE DEF seq
  <2>2. insts = [n \in {1} |-> ReplaceInst(b, e, new)] BY <1>1, <2>1
  <2>3. PICK inst : inst = ReplaceInst(b, e, new) OBVIOUS
  <2>4. [n \in {1} |-> inst] = <<inst>> OBVIOUS
  <2> QED BY <2>2, <2>3, <2>4
<1>5. Applied(insts) = [line |-> Edited(mkLine, i, j, new), marks |-> MovedMarks(mkMarks, b, e, bytes)] BY <1>3, <1>4, AppliedOnce
<1>6. /\ mkLine' = Applied(insts).line
      /\ mkMarks' = {m \in Applied(insts).marks : \A gone \in ToSet(seq) \union skipped : m.id # gone.id}
      /\ mkCursor' = seq[1].begin + shift
  BY DEF Visit
<1>7. p \in ToSet(seq) /\ mkCursor' = b + shift BY <1>1, <1>2, <1>6 DEF ToSet
<1> HIDE DEF seq, insts, skipped
<1>8. mkLine' = Edited(mkLine, i, j, new) BY <1>5, <1>6
<1>9. mkMarks' \in SUBSET MovedMarks(mkMarks, b, e, bytes) /\ \A m \in mkMarks' : m.id # p.id BY <1>5, <1>6, <1>7
<1>10. PICK some : some = mkMarks' OBVIOUS
<1>11. some \in SUBSET MovedMarks(mkMarks \ {p}, b, e, bytes) BY <1>3, <1>9, <1>10, OneIsGone
<1>12. AreOnText(Edited(mkLine, i, j, new), some) BY <1>3, <1>11, FewerAreOnText
<1>13. AtMostTwo(some)
  <2>1. AtMostTwo(MovedMarks(mkMarks, b, e, bytes)) BY <1>3, MovedAreAtMostTwo DEF MkIInv
  <2> QED BY <1>9, <1>10, <2>1, FewerAreAtMostTwo
<1>14. CursorIsOnLine'
  <2>1. PICK N : N = Edited(mkLine, i, j, new) OBVIOUS
  <2>2. b \in Nat /\ bytes \in Nat /\ Bytes(N) \in Nat /\ b + bytes <= Bytes(N) BY <1>3, <2>1, NewIsOnLine
  <2>3. mkLine' = N BY <1>8, <2>1
  <2>4. b + shift \in 0 .. Bytes(N) BY <2>2
  <2> QED BY <1>7, <2>3, <2>4 DEF CursorIsOnLine
<1> QED BY <1>8, <1>10, <1>12, <1>13, <1>14 DEF MkIInv

LEMMA VisitsTwo ==
  ASSUME MkIInv, NEW p \in mkMarks, NEW q \in mkMarks, IsBeforeMark(p, q), NEW new, IsLine(new),
         NEW shift, shift \in {0, Bytes(new)}, Visit(<<p, q>>, new, shift)
  PROVE  MkIInv'
<1> DEFINE seq == <<p, q>>
           insts == [i \in DOMAIN seq |-> MarkInst(seq[i], new)]
           skipped == {m \in mkMarks : Listed # LsMarks /\ m = Head(LsMarks)}
           bytes == Bytes(new)
           rest == mkMarks \ {p, q}
<1>1. DOMAIN seq = {1, 2} /\ seq[1] = p /\ seq[2] = q BY TwoInTurn
<1>2. PICK b, e, b2, e2 \in Nat : b = p.begin /\ e = p.end /\ b2 = q.begin /\ e2 = q.end
  <2>1. AreMarks(mkMarks) BY TextsAreAreMarks DEF MkIInv
  <2> QED BY <2>1 DEF AreMarks
<1>3. PICK b3, e3 : AreBehind(b3, e3, b2, e2, b, e, new) BY DEF AreBehind
<1>4. PICK i, j, N, u, v :
        /\ IsRegion(mkLine, i, j, b, e) /\ N = Edited(mkLine, i, j, new)
        /\ IsRegion(N, u, v, b3, e3)
        /\ AreOnText(N, MovedMarks(rest, b, e, bytes))
        /\ AreOnText(Edited(N, u, v, new), MovedMarks(MovedMarks(rest, b, e, bytes), b3, e3, bytes))
  BY <1>2, <1>3, TwoAreReplaced DEF MkIInv
<1>5. insts = <<ReplaceInst(b, e, new), ReplaceInst(b2, e2, new)>>
  <2>1. PICK one, two : one = ReplaceInst(b, e, new) /\ two = ReplaceInst(b2, e2, new) OBVIOUS
  <2>2. MarkInst(p, new) = one /\ MarkInst(q, new) = two BY <1>2, <2>1 DEF MarkInst, ReplaceInst
  <2> HIDE DEF seq
  <2>3. insts = [n \in {1, 2} |-> IF n = 1 THEN one ELSE two] BY <1>1, <2>2
  <2>4. [n \in {1, 2} |-> IF n = 1 THEN one ELSE two] = <<one, two>> OBVIOUS
  <2> QED BY <2>1, <2>3, <2>4
<1> DEFINE M == MovedMarks(mkMarks, b, e, bytes)
           M2 == MovedMarks(M, b3, e3, bytes)
<1>6. Applied(insts) = [line |-> Edited(N, u, v, new), marks |-> M2] BY <1>3, <1>4, <1>5, AppliedTwice
<1>7. /\ mkLine' = Applied(insts).line
      /\ mkMarks' = {m \in Applied(insts).marks : \A gone \in ToSet(seq) \union skipped : m.id # gone.id}
      /\ mkCursor' = seq[1].begin + shift
  BY DEF Visit
<1>8. p \in ToSet(seq) /\ q \in ToSet(seq) /\ mkCursor' = b + shift BY <1>1, <1>2, <1>7 DEF ToSet
<1> HIDE DEF seq, insts, skipped
<1>9. mkLine' = Edited(N, u, v, new) BY <1>6, <1>7
<1>10. mkMarks' \in SUBSET M2 /\ \A m \in mkMarks' : m.id # p.id /\ m.id # q.id BY <1>6, <1>7, <1>8
<1>11. PICK some : some = mkMarks' OBVIOUS
<1>12. some \in SUBSET MovedMarks(MovedMarks(rest, b, e, bytes), b3, e3, bytes)
  <2> SUFFICES ASSUME NEW m3 \in some PROVE m3 \in MovedMarks(MovedMarks(rest, b, e, bytes), b3, e3, bytes) OBVIOUS
  <2>1. PICK m2 \in M : m3 = Moved(m2, b3, e3, bytes) BY <1>10, <1>11 DEF MovedMarks
  <2>2. PICK m \in mkMarks : m2 = Moved(m, b, e, bytes) BY DEF MovedMarks
  <2>3. m2.id = m.id BY <1>4, <2>2, MovedKeepTheirIds DEF MkIInv
  <2>4. m3.id = m2.id BY <2>1, <2>2 DEF Moved
  <2>5. m \in rest BY <1>10, <1>11, <2>3, <2>4
  <2> QED BY <2>1, <2>2, <2>5 DEF MovedMarks
<1>13. AreOnText(Edited(N, u, v, new), some) BY <1>4, <1>12, FewerAreOnText
<1>14. AtMostTwo(some)
  <2>1. AreOnText(mkLine, rest) /\ AtMostTwo(rest) BY FewerAreOnText, FewerAreAtMostTwo DEF MkIInv
  <2>2. AtMostTwo(MovedMarks(rest, b, e, bytes)) BY <1>4, <2>1, MovedAreAtMostTwo
  <2>3. AtMostTwo(MovedMarks(MovedMarks(rest, b, e, bytes), b3, e3, bytes)) BY <1>4, <2>2, MovedAreAtMostTwo
  <2> QED BY <1>12, <2>3, FewerAreAtMostTwo
<1>15. CursorIsOnLine'
  <2>1. PICK N2 : N2 = Edited(N, u, v, new) OBVIOUS
  <2>2. b3 \in Nat /\ bytes \in Nat /\ Bytes(N2) \in Nat /\ b3 + bytes <= Bytes(N2) BY <1>4, <2>1, NewIsOnLine
  <2>3. p.begin \in Nat /\ p.end \in Nat /\ q.begin \in Nat /\ q.end \in Nat /\ p.end <= q.begin
    BY SecondIsBehind DEF IsBeforeMark, MkIInv
  <2>4. b + bytes <= b3 BY <1>2, <1>3, <2>2, <2>3 DEF AreBehind
  <2>5. mkLine' = N2 BY <1>9, <2>1
  <2>6. b + shift \in 0 .. Bytes(N2) BY <1>2, <2>2, <2>4
  <2> QED BY <1>8, <2>5, <2>6 DEF CursorIsOnLine
<1> QED BY <1>9, <1>11, <1>13, <1>14, <1>15 DEF MkIInv

\* what is listed are marks there are, in turn
LEMMA ListedAre ==
  ASSUME MkIInv
  PROVE  /\ AreMarks(mkMarks)
         /\ Listed # <<>> => Listed[1] \in ToSet(Listed)
         /\ \A m \in ToSet(Listed) : m \in mkMarks /\ m.begin <= m.end
<1> DEFINE X == {m \in mkMarks : m.begin <= m.end}
<1>1. AreMarks(mkMarks) BY TextsAreAreMarks DEF MkIInv
<1>2. AreMarks(X)
  <2>1. IsFiniteSet(X)
    <3>1. IsFiniteSet(mkMarks) /\ X \in SUBSET mkMarks BY <1>1 DEF AreMarks
    <3> HIDE DEF X
    <3> QED BY <3>1, FS_Subset
  <2> QED BY <1>1, <2>1 DEF AreMarks
<1>3. LsMarks = InTurn(X) BY DEF LsMarks
<1> HIDE DEF X
<1>4. LsMarks \in Seq(X) BY <1>2, <1>3, InTurnIsOrder
<1>5. Listed \in Seq(X)
  <2>1. CASE LsMarks # <<>> /\ IsVisited(Head(LsMarks))
    <3>1. Listed = Tail(LsMarks) BY <2>1 DEF Listed
    <3> QED BY <1>4, <2>1, <3>1
  <2>2. CASE ~(LsMarks # <<>> /\ IsVisited(Head(LsMarks)))
    <3>1. Listed = LsMarks BY <2>2 DEF Listed
    <3> QED BY <1>4, <3>1
  <2> QED BY <2>1, <2>2
<1>6. PICK seq \in Seq(X) : seq = Listed BY <1>5
<1>7. seq # <<>> => seq[1] \in ToSet(seq)
  <2>1. seq # <<>> => 1 \in DOMAIN seq BY <1>6
  <2> QED BY <2>1 DEF ToSet
<1>8. \A m \in ToSet(seq) : m \in X BY <1>6 DEF ToSet
<1> QED BY <1>1, <1>6, <1>7, <1>8 DEF X

\* those of one number are no more than two, the second one behind the first one
LEMMA LinkedAre ==
  ASSUME MkIInv, Listed # <<>>, Len(Linked) > 1
  PROVE  \E p, q \in mkMarks : IsBeforeMark(p, q) /\ Linked = <<p, q>>
<1> DEFINE X == {m \in ToSet(Listed) : m.idx = Listed[1].idx}
<1>1. X \in SUBSET mkMarks /\ \A m \in X : m.begin <= m.end /\ m.begin \in Nat /\ m.end \in Nat /\ m.id \in Nat
  BY ListedAre DEF AreMarks, IsMark
<1>2. \A k, m \in X : k.idx = m.idx OBVIOUS
<1>3. Linked = InTurn(X) BY DEF Linked
<1> HIDE DEF X
<1>4. AreMarks(X)
  <2>1. AreMarks(mkMarks) BY ListedAre
  <2>2. IsFiniteSet(X) BY <1>1, <2>1, FS_Subset DEF AreMarks
  <2> QED BY <1>1, <2>1, <2>2 DEF AreMarks
<1>5. PICK n \in Nat : n = Cardinality(X) BY <1>4, InTurnIsOrder
<1>6. /\ Len(Linked) = n /\ DOMAIN Linked = 1 .. n /\ Linked \in Seq(X)
      /\ \A i, j \in 1 .. n : i < j => Precedes(Linked[i], Linked[j])
  BY <1>3, <1>4, <1>5, InTurnIsOrder
<1>7. \A i \in 1 .. n : Linked[i] \in X BY <1>6
<1>8. \A i, j \in 1 .. n : i < j => Linked[i] # Linked[j]
  <2> SUFFICES ASSUME NEW i \in 1 .. n, NEW j \in 1 .. n, i < j PROVE Linked[i] # Linked[j] OBVIOUS
  <2>1. Precedes(Linked[i], Linked[j]) /\ Linked[j] \in X BY <1>6, <1>7
  <2>2. ~Precedes(Linked[j], Linked[j]) BY <1>4, <2>1, PrecedesIsOrder
  <2> QED BY <2>1, <2>2
<1>9. n = 2
  <2> SUFFICES ASSUME n > 2 PROVE FALSE BY <1>6
  <2>1. 1 \in 1 .. n /\ 2 \in 1 .. n /\ 3 \in 1 .. n OBVIOUS
  <2>2. Linked[1] \in X /\ Linked[2] \in X /\ Linked[3] \in X BY <1>7, <2>1
  <2>3. Linked[1] # Linked[2] /\ Linked[2] # Linked[3] /\ Linked[1] # Linked[3]
    <3>1. 1 < 2 /\ 2 < 3 /\ 1 < 3 OBVIOUS
    <3> QED BY <1>8, <2>1, <3>1
  <2>4. Linked[1].idx = Linked[2].idx /\ Linked[2].idx = Linked[3].idx BY <1>2, <2>2
  <2> QED BY <1>1, <2>2, <2>3, <2>4 DEF MkIInv, AtMostTwo
<1>10. PICK p, q : p = Linked[1] /\ q = Linked[2] OBVIOUS
<1>11. 1 \in 1 .. n /\ 2 \in 1 .. n /\ 1 < 2 BY <1>9
<1>12. p \in X /\ q \in X /\ p # q /\ Precedes(p, q) BY <1>6, <1>7, <1>8, <1>10, <1>11
<1>13. Linked = <<p, q>>
  <2>1. PICK seq \in Seq(X) : seq = Linked BY <1>6
  <2>2. Len(seq) = 2 /\ seq[1] = p /\ seq[2] = q BY <1>6, <1>9, <1>10, <2>1
  <2>3. PICK two : two = <<p, q>> OBVIOUS
  <2>4. two \in Seq(X) /\ Len(two) = 2 /\ two[1] = p /\ two[2] = q BY <1>12, <2>3
  <2>5. seq = two BY <2>1, <2>2, <2>4
  <2> QED BY <2>1, <2>3, <2>5
<1>14. p.begin < q.begin \/ (p.begin = q.begin /\ p.end <= q.end)
  <2>1. p.idx = q.idx BY <1>2, <1>12
  <2> QED BY <1>1, <1>12, <2>1 DEF Precedes
<1>15. IsBeforeMark(p, q) BY <1>1, <1>12, <1>14 DEF IsBeforeMark
<1> QED BY <1>1, <1>12, <1>13, <1>15

LEMMA MkStart == MkInit /\ (\A s \in MkSnippets : AtMostTwo(s.marks)) => MkIInv
<1> SUFFICES ASSUME MkInit, \A s \in MkSnippets : AtMostTwo(s.marks) PROVE MkIInv OBVIOUS
<1>1. PICK s \in MkSnippets : mkLine = s.line /\ mkMarks = s.marks BY DEF MkInit
<1>2. IsMarked(s.line, s.marks) BY MkAssumption
<1>3. CursorIsOnLine
  <2>1. mkCursor = 0 BY DEF MkInit
  <2>2. Bytes(mkLine) \in Nat BY <1>1, <1>2, LinesHaveBytes DEF IsMarked
  <2> QED BY <2>1, <2>2 DEF CursorIsOnLine
<1> QED BY <1>1, <1>2, <1>3, MarkedAreOnText DEF MkIInv

\* the text under a mark is one of a line
LEMMA TextsAreLines ==
  ASSUME MkIInv, NEW p \in mkMarks
  PROVE  IsLine(TextAt(mkLine, p.begin, p.end))
<1>1. IsLine(mkLine) /\ p.begin \in Nat /\ p.end \in Nat
  <2>1. IsLine(mkLine) BY DEF MkIInv, AreOnText
  <2>2. AreMarks(mkMarks) BY TextsAreAreMarks DEF MkIInv
  <2> QED BY <2>1, <2>2 DEF AreMarks
<1>2. IsLine(Upto(mkLine, p.end)) BY <1>1, UptoAndFromAreLines
<1>3. IsLine(From(Upto(mkLine, p.end), p.begin)) BY <1>1, <1>2, UptoAndFromAreLines
<1> QED BY <1>3 DEF TextAt

\* the first of those that are listed, visited with any text
LEMMA VisitsFirst ==
  ASSUME MkIInv, Listed # <<>>, NEW new, IsLine(new), NEW shift, shift \in {0, Bytes(new)}, Visit(<<Listed[1]>>, new, shift)
  PROVE  MkIInv'
<1>1. PICK p : p = Listed[1] OBVIOUS
<1>2. p \in mkMarks /\ p.begin <= p.end BY <1>1, ListedAre
<1>3. Visit(<<p>>, new, shift) BY <1>1
<1> QED BY <1>2, <1>3, VisitsOne

LEMMA MkStep == MkIInv /\ [MkNext]_mkVars => MkIInv'
<1> SUFFICES ASSUME MkIInv, [MkNext]_mkVars PROVE MkIInv' OBVIOUS
<1>1. CASE MkSingle
  <2>1. PICK new : new = <<>> OBVIOUS
  <2>2. Listed # <<>> /\ Visit(<<Listed[1]>>, new, 0) BY <1>1, <2>1 DEF MkSingle
  <2>3. IsLine(new) BY <2>1, NothingHasNoBytes
  <2> QED BY <2>2, <2>3, VisitsFirst
<1>2. ASSUME NEW new \in MkAnswers, MkAnswer(new) PROVE MkIInv'
  <2>1. PICK shift : shift = Bytes(new) OBVIOUS
  <2>2. Listed # <<>> /\ Len(Linked) > 1 /\ Visit(Linked, new, shift) BY <1>2, <2>1 DEF MkAnswer
  <2>3. IsLine(new) BY MkAssumption
  <2>4. PICK p, q \in mkMarks : IsBeforeMark(p, q) /\ Linked = <<p, q>> BY <2>2, LinkedAre
  <2>5. Visit(<<p, q>>, new, shift) BY <2>2, <2>4
  <2> QED BY <2>1, <2>3, <2>4, <2>5, VisitsTwo
<1>4. CASE MkTransformed
  <2>1. Listed # <<>> BY <1>4 DEF MkTransformed
  <2>2. PICK p : p = Listed[1] OBVIOUS
  <2>3. PICK new \in (MkAnswers \ {<<>>}) \union {TextAt(mkLine, p.begin, p.end)} : Visit(<<Listed[1]>>, new, 0)
    BY <1>4, <2>2 DEF MkTransformed
  <2>4. p \in mkMarks BY <2>1, <2>2, ListedAre
  <2>5. IsLine(new) BY <2>3, <2>4, TextsAreLines, MkAssumption
  <2> QED BY <2>1, <2>3, <2>5, VisitsFirst
<1>5. CASE MkChosen
  <2>1. PICK new \in MkAnswers \union {<<>>} : Listed # <<>> /\ Visit(<<Listed[1]>>, new, Bytes(new)) BY <1>5 DEF MkChosen
  <2>2. PICK shift : shift = Bytes(new) OBVIOUS
  <2>3. IsLine(new) BY <2>1, MkAssumption, NothingHasNoBytes
  <2>4. Visit(<<Listed[1]>>, new, shift) BY <2>1, <2>2
  <2> QED BY <2>1, <2>2, <2>3, <2>4, VisitsFirst
<1>6. CASE MkNoMore
  <2>1. mkLine' = mkLine /\ mkMarks' \subseteq mkMarks /\ mkCursor' = mkCursor BY <1>6 DEF MkNoMore
  <2>2. AreOnText(mkLine', mkMarks')
    <3>1. IsFiniteSet(mkMarks') BY <2>1, FS_Subset DEF MkIInv, AreOnText
    <3> QED BY <2>1, <3>1 DEF MkIInv, AreOnText
  <2>3. AtMostTwo(mkMarks') BY <2>1 DEF MkIInv, AtMostTwo
  <2> QED BY <2>1, <2>2, <2>3 DEF MkIInv, CursorIsOnLine
<1>3. CASE UNCHANGED mkVars
  <2>1. mkLine' = mkLine /\ mkMarks' = mkMarks /\ mkCursor' = mkCursor BY <1>3 DEF mkVars
  <2> QED BY <2>1 DEF MkIInv, CursorIsOnLine
<1> QED BY <1>1, <1>2, <1>3, <1>4, <1>5, <1>6 DEF MkNext

\* A mark that has not been visited is still on its text (marks.py:151): for every line and every set of
\* marks on it that are not inside of each other, whatever is answered and in whatever order.  It is asked that
\* no more than two marks have one number: _shift does not add up what it shifts a column by (edit.py:415), so
\* a third one on the line is replaced beside its place, in the text of others, as the run linked_marks shows.
THEOREM MarksKeepTheirTextCorrect ==
  MkSpec /\ (\A s \in MkSnippets : AtMostTwo(s.marks)) => []MarksKeepTheirText
<1>1. MkIInv => MarksKeepTheirText BY DEF MkIInv, AreOnText, IsOnText, MarksKeepTheirText
<1> QED BY <1>1, MkStart, MkStep, PTL DEF MkSpec

LEMMA MkTypes == MkSpec /\ (\A s \in MkSnippets : AtMostTwo(s.marks)) => []MkTypeOK
<1>1. MkIInv => MkTypeOK
  <2> SUFFICES ASSUME MkIInv PROVE MkTypeOK OBVIOUS
  <2>1. IsLine(mkLine) /\ \A m \in mkMarks : IsOnText(mkLine, m) BY DEF MkIInv, AreOnText
  <2>2. \A m \in mkMarks : m.begin \in Nat BY <2>1, BetweenIs DEF IsOnText
  <2> QED BY <2>2 DEF MkIInv, CursorIsOnLine, MkTypeOK
<1> QED BY <1>1, MkStart, MkStep, PTL DEF MkSpec


-----------------------------------------------------------------------------
(* Snippets.  What has been read of a sentence, of whatever length: the characters are its own, or those the *)
(* parser has; the tokens are well formed.                                          *)

Cases == {"U", "V", "X", "u", "v", "x"}
Signs == ToSet(lxGoal.src) \union {"[", "]", "|", "\\", "eof"} \union Cases

TokensOf(C) == [kind : {"text"}, char : C] \union [kind : {"int"}, idx : Nat] \union [kind : {"var", "end", "unparsed"}]
RegionsIn == [idx : Nat, begin : Nat, end : Nat]
IsParsed(parsed, C) ==
  /\ parsed \in [out : Seq(C), regs : Seq(RegionsIn)]
  /\ \A k \in DOMAIN parsed.regs : parsed.regs[k].begin <= Len(parsed.out) /\ parsed.regs[k].end <= Len(parsed.out)

LxIInv ==
  /\ lxIndent \in Nat
  /\ lxRest \in Seq(Signs)
  /\ lxTokens \in Seq(TokensOf(Signs))
  /\ lxAt = "parsed" => IsParsed(lxParsed, Signs)

LEMMA UponIs ==
  ASSUME NEW C, lxRest \in Seq(C), NEW i \in Nat \ {0}, NEW chars
  PROVE  /\ Upon(i, chars) \in Nat \ {0} /\ Upon(i, chars) <= Len(lxRest) + 1
         /\ i <= Len(lxRest) + 1 => i <= Upon(i, chars)
<1> DEFINE X == {j \in i .. Len(lxRest) : lxRest[j] \in chars} \union {Len(lxRest) + 1}
<1>1. Len(lxRest) \in Nat OBVIOUS
<1>2. X \in SUBSET Nat /\ X # {} /\ Len(lxRest) + 1 \in X BY <1>1
<1>3. \A x \in X : x > 0 /\ (i <= Len(lxRest) + 1 => i <= x) BY <1>1
<1> HIDE DEF X
<1>4. Min(X) \in X /\ \A x \in X : Min(X) <= x BY <1>2, LeastOfNaturals
<1>5. Upon(i, chars) = Min(X) BY DEF Upon, X
<1>6. Min(X) \in Nat /\ Min(X) > 0 BY <1>2, <1>3, <1>4
<1>7. Min(X) <= Len(lxRest) + 1 BY <1>2, <1>4
<1>8. i <= Len(lxRest) + 1 => i <= Min(X) BY <1>3, <1>4
<1> QED BY <1>5, <1>6, <1>7, <1>8

LEMMA PastIs ==
  ASSUME NEW C, lxRest \in Seq(C), NEW i \in Nat \ {0}, NEW chars
  PROVE  /\ Past(i, chars) \in Nat \ {0} /\ Past(i, chars) <= Len(lxRest) + 1
         /\ i <= Len(lxRest) + 1 => i <= Past(i, chars)
         /\ \A j \in i .. Past(i, chars) - 1 : lxRest[j] \in chars
<1> DEFINE X == {j \in i .. Len(lxRest) : lxRest[j] \notin chars} \union {Len(lxRest) + 1}
<1>1. Len(lxRest) \in Nat OBVIOUS
<1>2. X \in SUBSET Nat /\ X # {} /\ Len(lxRest) + 1 \in X BY <1>1
<1>3. \A x \in X : x > 0 /\ (i <= Len(lxRest) + 1 => i <= x) BY <1>1
<1>3a. \A j \in i .. Len(lxRest) : lxRest[j] \in chars \/ j \in X OBVIOUS
<1> HIDE DEF X
<1>4. Min(X) \in X /\ \A x \in X : Min(X) <= x BY <1>2, LeastOfNaturals
<1>5. Past(i, chars) = Min(X) BY DEF Past, X
<1>6. Min(X) \in Nat /\ Min(X) > 0 BY <1>2, <1>3, <1>4
<1>7. Min(X) <= Len(lxRest) + 1 BY <1>2, <1>4
<1>8. i <= Len(lxRest) + 1 => i <= Min(X) BY <1>3, <1>4
<1>9. \A j \in i .. Min(X) - 1 : lxRest[j] \in chars
  <2> SUFFICES ASSUME NEW j \in i .. Min(X) - 1 PROVE lxRest[j] \in chars OBVIOUS
  <2>1. j \in Nat /\ j < Min(X) /\ j \in i .. Len(lxRest) BY <1>1, <1>6, <1>7
  <2>2. j \notin X BY <1>2, <1>4, <1>6, <2>1
  <2> QED BY <1>3a, <2>1, <2>2
<1> QED BY <1>5, <1>6, <1>7, <1>8, <1>9

LEMMA BetweenIsPart ==
  ASSUME NEW C, lxRest \in Seq(C), NEW i \in Nat \ {0}, NEW j \in Nat, j <= Len(lxRest) + 1
  PROVE  /\ Between(i, j) \in Seq(C)
         /\ \A k \in DOMAIN Between(i, j) : i + k - 1 \in i .. j - 1 /\ Between(i, j)[k] = lxRest[i + k - 1]
<1>1. Len(lxRest) \in Nat OBVIOUS
<1>2. CASE i <= j - 1
  <2>1. i \in 1 .. Len(lxRest) + 1 /\ j - 1 \in i - 1 .. Len(lxRest) BY <1>1, <1>2
  <2>2. /\ SubSeq(lxRest, i, j - 1) \in Seq(C)
        /\ Len(SubSeq(lxRest, i, j - 1)) = (j - 1) - i + 1
        /\ \A k \in 1 .. (j - 1) - i + 1 : SubSeq(lxRest, i, j - 1)[k] = lxRest[i + k - 1]
    BY <2>1, SubSeqProperties
  <2>3. DOMAIN SubSeq(lxRest, i, j - 1) = 1 .. (j - 1) - i + 1 BY <2>2
  <2>4. \A k \in 1 .. (j - 1) - i + 1 : i + k - 1 \in i .. j - 1 OBVIOUS
  <2> QED BY <2>2, <2>3, <2>4 DEF Between
<1>3. CASE ~(i <= j - 1)
  <2>1. SubSeq(lxRest, i, j - 1) = <<>> BY <1>3
  <2> QED BY <2>1 DEF Between
<1> QED BY <1>2, <1>3

\* the number that digits make
DigitOf(n, d) == 10 * n + Digit[d]
NumberStep(T, digits, s) == IF s = {} THEN 0 ELSE LET n == Max(s) IN DigitOf(T[s \ {n}], digits[n])
Numbered(digits) == LET iter[s \in SUBSET DOMAIN digits] == NumberStep(iter, digits, s) IN iter

LEMMA NumberIsNumbered ==
  ASSUME NEW digits
  PROVE  Number(digits) = Numbered(digits)[DOMAIN digits]
BY Zenon DEF Number, FoldLeft, MapThenFoldSet, Numbered, NumberStep, DigitOf

LEMMA DigitsAre == \A d \in Digits : Digit[d] \in Nat
BY DEF Digits, Digit

LEMMA NumbersAreNatural ==
  ASSUME NEW digits \in Seq(Digits)
  PROVE  Numbered(digits)[DOMAIN digits] \in Nat
<1> DEFINE S == DOMAIN digits
           step == [q \in Nat \X S |-> DigitOf(q[1], digits[q[2]])]
           pick == [s \in SUBSET S |-> Max(s)]
<1>1. S = 1 .. Len(digits) /\ Len(digits) \in Nat OBVIOUS
<1>2. IsFiniteSet(S) BY <1>1, UptoIsFinite
<1>4. step \in [Nat \X S -> Nat]
  <2>1. \A q \in Nat \X S : q[1] \in Nat /\ digits[q[2]] \in Digits BY <1>1, ElementOfSeq
  <2>2. \A q \in Nat \X S : Digit[digits[q[2]]] \in Nat BY <2>1, DigitsAre
  <2>3. \A q \in Nat \X S : DigitOf(q[1], digits[q[2]]) \in Nat BY <2>1, <2>2 DEF DigitOf
  <2> QED BY <2>3
<1>5. \A s \in SUBSET S : s # {} => pick[s] \in s /\ pick[s] = Max(s) BY <1>1, GreatestIs
<1>6. \A a \in Nat, x \in S : step[<<a, x>>] = DigitOf(a, digits[x]) OBVIOUS
<1> HIDE DEF step, pick
<1>6a. \A s \in SUBSET S : s # {} => pick[s] \in s BY <1>5
<1>7. PICK F \in [SUBSET S -> Nat] : \A s \in SUBSET S : F[s] = FoldStep(F, 0, step, pick, s)
  <2>1. IsFold(S, Nat, 0, step, pick) BY <1>2, <1>4, <1>6a DEF IsFold
  <2>2. HasFold(S, Nat, 0, step, pick) BY <2>1, FoldsExist, Zenon
  <2> HIDE DEF S
  <2> QED BY <2>2, Zenon DEF HasFold
<1>8. ASSUME NEW s \in SUBSET S PROVE F[s] = NumberStep(F, digits, s)
  <2>1. CASE s = {} BY <1>7, <2>1 DEF FoldStep, NumberStep
  <2>2. CASE s # {}
    <3>1. Max(s) \in S /\ s \ {Max(s)} \in SUBSET S /\ pick[s] = Max(s) BY <1>5, <2>2
    <3>2. F[s \ {Max(s)}] \in Nat BY <3>1
    <3>3. step[<<F[s \ {Max(s)}], Max(s)>>] = DigitOf(F[s \ {Max(s)}], digits[Max(s)]) BY <1>6, <3>1, <3>2
    <3>4. F[s] = step[<<F[s \ {Max(s)}], Max(s)>>] BY <1>7, <2>2, <3>1, Zenon DEF FoldStep
    <3> QED BY <2>2, <3>3, <3>4, Zenon DEF NumberStep
  <2> QED BY <2>1, <2>2
<1>9. F = [s \in SUBSET S |-> NumberStep(F, digits, s)]
  <2>1. F = [s \in SUBSET S |-> F[s]] OBVIOUS
  <2>2. [s \in SUBSET S |-> F[s]] = [s \in SUBSET S |-> NumberStep(F, digits, s)] BY <1>8
  <2> QED BY <2>1, <2>2
<1> DEFINE T == Numbered(digits)
<1>10. T = [s \in SUBSET S |-> NumberStep(T, digits, s)] BY <1>9, Zenon DEF Numbered
<1> HIDE DEF T
<1>11. \A s \in SUBSET S : T[s] = NumberStep(T, digits, s) BY <1>10
<1> DEFINE U(n) == 1 .. n
           G == {n \in Nat : n <= Len(digits) => T[U(n)] \in Nat}
<1>12. 0 \in G
  <2>1. U(0) = {} OBVIOUS
  <2>2. T[{}] = 0 BY <1>11 DEF NumberStep
  <2> QED BY <2>1, <2>2
<1>13. ASSUME NEW n \in G PROVE n + 1 \in G
  <2>0. n \in Nat /\ (n <= Len(digits) => T[U(n)] \in Nat) OBVIOUS
  <2>1. ASSUME n + 1 <= Len(digits) PROVE T[U(n + 1)] \in Nat
    <3>1. U(n + 1) \in SUBSET (1 .. Len(digits)) /\ n + 1 \in U(n + 1) BY <1>1, <2>0, <2>1
    <3>2. U(n + 1) \in SUBSET S /\ U(n + 1) # {} BY <1>1, <3>1, Zenon
    <3>3. Max(U(n + 1)) \in U(n + 1) /\ \A x \in U(n + 1) : Max(U(n + 1)) >= x BY <1>1, <3>1, <3>2, GreatestIs
    <3>4. Max(U(n + 1)) = n + 1 BY <2>0, <3>1, <3>3
    <3>5. U(n + 1) \ {n + 1} = U(n) BY <2>0
    <3>6. T[U(n + 1)] = DigitOf(T[U(n + 1) \ {Max(U(n + 1))}], digits[Max(U(n + 1))])
      BY <1>11, <3>2, Zenon DEF NumberStep
    <3>7. T[U(n + 1)] = DigitOf(T[U(n)], digits[n + 1]) BY <3>4, <3>5, <3>6
    <3>8. digits[n + 1] \in Digits BY <1>1, <2>0, <2>1
    <3>9. Digit[digits[n + 1]] \in Nat BY <3>8, DigitsAre
    <3>10. T[U(n)] \in Nat BY <1>1, <2>0, <2>1
    <3> HIDE DEF U
    <3> QED BY <3>7, <3>9, <3>10 DEF DigitOf
  <2> HIDE DEF U
  <2> QED BY <2>0, <2>1
<1>14. G = Nat
  <2>1. G \in SUBSET Nat OBVIOUS
  <2> HIDE DEF G
  <2> QED BY <1>12, <1>13, <2>1, SetInduction
<1>15. T[U(Len(digits))] \in Nat
  <2>1. Len(digits) \in G BY <1>1, <1>14
  <2> HIDE DEF U
  <2> QED BY <1>1, <2>1
<1> QED BY <1>1, <1>15 DEF T

\* what is yielded are tokens
LEMMA IntsAreTokens ==
  ASSUME NEW C, lxRest \in Seq(C), NEW i \in Nat \ {0}
  PROVE  IntBegin(Between(i, Past(i, Digits))) \in Seq(TokensOf(C))
<1> DEFINE j == Past(i, Digits)
           digits == Between(i, j)
<1>1. j \in Nat \ {0} /\ j <= Len(lxRest) + 1 /\ \A k \in i .. j - 1 : lxRest[k] \in Digits BY PastIs
<1> HIDE DEF j
<1>2. digits \in Seq(C) /\ \A k \in DOMAIN digits : i + k - 1 \in i .. j - 1 /\ digits[k] = lxRest[i + k - 1]
  BY <1>1, BetweenIsPart
<1>3. digits \in Seq(Digits)
  <2>1. \A k \in DOMAIN digits : digits[k] \in Digits BY <1>1, <1>2
  <2> HIDE DEF digits
  <2>2. digits = [k \in 1 .. Len(digits) |-> digits[k]] /\ Len(digits) \in Nat /\ DOMAIN digits = 1 .. Len(digits) BY <1>2
  <2> QED BY <2>1, <2>2
<1>4. Numbered(digits)[DOMAIN digits] \in Nat BY <1>3, NumbersAreNatural
<1>5. IntBegin(digits) = <<[kind |-> "int", idx |-> Numbered(digits)[DOMAIN digits]]>> BY NumberIsNumbered DEF IntBegin
<1> DEFINE n == Numbered(digits)[DOMAIN digits]
<1> HIDE DEF n, digits
<1>6. n \in Nat BY <1>4 DEF n
<1>7. <<[kind |-> "int", idx |-> n]>> \in Seq(TokensOf(C)) BY <1>6 DEF TokensOf
<1> QED BY <1>5, <1>7 DEF n, digits, j

LEMMA TextsAreTokens ==
  ASSUME NEW C, NEW chars \in Seq(C)
  PROVE  Text(chars) \in Seq(TokensOf(C))
<1>1. \A i \in DOMAIN chars : chars[i] \in C /\ [kind |-> "text", char |-> chars[i]] \in TokensOf(C)
  <2> SUFFICES ASSUME NEW i \in DOMAIN chars
               PROVE chars[i] \in C /\ [kind |-> "text", char |-> chars[i]] \in TokensOf(C) OBVIOUS
  <2>1. chars[i] \in C OBVIOUS
  <2> QED BY <2>1 DEF TokensOf
<1>2. DOMAIN chars = 1 .. Len(chars) /\ Len(chars) \in Nat OBVIOUS
<1> QED BY <1>1, <1>2 DEF Text

LEMMA EndsAreTokens ==
  ASSUME NEW C
  PROVE  /\ End1 \in Seq(TokensOf(C)) /\ VarBegin \in Seq(TokensOf(C)) /\ <<>> \in Seq(TokensOf(C))
         /\ Unparsed1 \in Seq(TokensOf(C))
BY DEF End1, VarBegin, Unparsed1, TokensOf

LEMMA JoinsAreTokens ==
  ASSUME NEW X, NEW a \in Seq(X), NEW b \in Seq(X)
  PROVE  a \o b \in Seq(X)
OBVIOUS

LEMMA ValueIs ==
  ASSUME NEW C, Cases \subseteq C, NEW name \in Seq(C)
  PROVE  ValueOf(name) \in Seq(C)
<1>1. "v" \in C BY DEF Cases
<1>2. <<"v">> \in Seq(C) /\ <<>> \in Seq(C) BY <1>1
<1> QED BY <1>2 DEF ValueOf

LEMMA SubstitutedAreTokens ==
  ASSUME NEW C, Cases \subseteq C, NEW name \in Seq(C)
  PROVE  Substituted(name) \in Seq(TokensOf(C))
BY ValueIs, TextsAreTokens DEF Substituted

LEMMA ChoiceIs ==
  ASSUME NEW C, {"[", "]", "|"} \subseteq C, lxRest \in Seq(C), NEW i \in Nat \ {0}, i <= Len(lxRest)
  PROVE  Choice(i).tokens \in Seq(TokensOf(C)) /\ Choice(i).end \in Nat \ {0}
<1> DEFINE j == Upon(i + 1, {"|"})
           F == [k \in 1 .. j - i - 1 |-> IF lxRest[i + k] = "," THEN "|" ELSE lxRest[i + k]]
           text == <<"[">> \o F
<1>1. Len(lxRest) \in Nat /\ i + 1 \in Nat \ {0} /\ i + 1 <= Len(lxRest) + 1 OBVIOUS
<1>2. j \in Nat \ {0} /\ j <= Len(lxRest) + 1 /\ i + 1 <= j BY <1>1, UponIs
<1>3. /\ Choice(i).end = j + 2
      /\ Choice(i).tokens = IF At(j) = "eof" THEN Text(text) ELSE Text(text \o <<"]">>) \o End1
  BY DEF Choice
<1> HIDE DEF j
<1>4. F \in Seq(C)
  <2>1. j - i - 1 \in Nat BY <1>2
  <2>2. \A k \in 1 .. j - i - 1 : i + k \in 1 .. Len(lxRest) BY <1>1, <1>2
  <2>3. \A k \in 1 .. j - i - 1 : lxRest[i + k] \in C BY <2>2
  <2>3a. "|" \in C OBVIOUS
  <2>4. F \in [1 .. j - i - 1 -> C] BY <2>3, <2>3a
  <2> DEFINE n == j - i - 1
  <2> HIDE DEF F, n
  <2>5. n \in Nat /\ F \in [1 .. n -> C] BY <2>1, <2>4 DEF n
  <2> QED BY <2>5
<1> HIDE DEF F
<1>5. text \in Seq(C) /\ text \o <<"]">> \in Seq(C)
  <2>1. <<"[">> \in Seq(C) /\ <<"]">> \in Seq(C) OBVIOUS
  <2> QED BY <1>4, <2>1
<1> HIDE DEF text
<1>6. Text(text) \in Seq(TokensOf(C)) /\ Text(text \o <<"]">>) \in Seq(TokensOf(C)) BY <1>5, TextsAreTokens
<1>7. Text(text \o <<"]">>) \o End1 \in Seq(TokensOf(C)) BY <1>6, EndsAreTokens, JoinsAreTokens
<1> QED BY <1>2, <1>3, <1>6, <1>7

LEMMA DecorationIs ==
  ASSUME NEW C, lxRest \in Seq(C), NEW i \in Nat \ {0}
  PROVE  Decoration(i).tokens \in Seq(TokensOf(C)) /\ Decoration(i).end \in Nat \ {0}
<1> DEFINE second == Upon(i + 1, {"/"})
           third == Upon(second + 1, {"/"})
           last == Past(third + 1, Flags)
<1>1. i + 1 \in Nat \ {0} OBVIOUS
<1>2. second \in Nat BY <1>1, UponIs
<1>3. /\ Decoration(i).end = last + 1
      /\ Decoration(i).tokens = IF At(last) = "}" THEN Unparsed1 \o End1 ELSE End1
  BY DEF Decoration
<1> HIDE DEF second
<1>4. second + 1 \in Nat \ {0} BY <1>2
<1>5. third \in Nat BY <1>4, UponIs
<1> HIDE DEF third
<1>6. third + 1 \in Nat \ {0} BY <1>5
<1>7. last \in Nat BY <1>6, PastIs
<1> HIDE DEF last
<1> DEFINE both == Unparsed1 \o End1
<1>8. both \in Seq(TokensOf(C)) /\ End1 \in Seq(TokensOf(C)) BY EndsAreTokens, JoinsAreTokens
<1>9. Decoration(i).tokens \in {both, End1} BY <1>3
<1> HIDE DEF both
<1>10. last + 1 \in Nat \ {0} BY <1>7
<1> QED BY <1>3, <1>8, <1>9, <1>10

\* the formats, and what they make
IsFormat(format, C) == format.end \in Nat /\ format.text \in Seq(C) /\ format.other \in Seq(C)

LEMMA FormatBackIs ==
  ASSUME NEW C, lxRest \in Seq(C), NEW i \in Nat \ {0}, NEW group
  PROVE  IsFormat(FormatBack(i, group), C)
<1> DEFINE colon == Upon(i + 1, {":"})
           brace == Upon(i + 1, {"}"})
           second == Upon(colon + 1, {"}"})
           stop == CASE At(i) \in {"/", "+"} -> brace
                     [] At(i) = "?" -> second
                     [] OTHER -> colon
           text == Between(i + 1, IF At(i) = "?" THEN colon ELSE stop)
           other == Between(colon + 1, stop)
<1>0. Len(lxRest) \in Nat OBVIOUS
<1>1. i + 1 \in Nat \ {0} OBVIOUS
<1>2. /\ colon \in Nat /\ colon <= Len(lxRest) + 1
      /\ brace \in Nat /\ brace <= Len(lxRest) + 1
  BY <1>1, UponIs
<1>3. FormatBack(i, group) = [end |-> stop + 1, group |-> group, sign |-> At(i), text |-> text, other |-> other]
  BY Zenon DEF FormatBack
<1> HIDE DEF colon, brace
<1>4. colon + 1 \in Nat \ {0} BY <1>2
<1>5. second \in Nat /\ second <= Len(lxRest) + 1 BY <1>4, UponIs
<1> HIDE DEF second
<1>6. stop \in Nat /\ stop <= Len(lxRest) + 1 BY <1>2, <1>5
<1> HIDE DEF stop
<1>7. text \in Seq(C)
  <2> DEFINE last == IF At(i) = "?" THEN colon ELSE stop
  <2>1. last \in Nat /\ last <= Len(lxRest) + 1 BY <1>2, <1>6
  <2>2. text = Between(i + 1, last) OBVIOUS
  <2> HIDE DEF last, text
  <2> QED BY <1>1, <2>1, <2>2, BetweenIsPart
<1>8. other \in Seq(C) BY <1>4, <1>6, BetweenIsPart
<1> HIDE DEF text, other
<1>9. stop + 1 \in Nat BY <1>6
<1> QED BY <1>3, <1>7, <1>8, <1>9 DEF IsFormat

LEMMA FormatIs ==
  ASSUME NEW C, lxRest \in Seq(C), NEW i \in Nat \ {0}
  PROVE  IsFormat(Format(i), C)
<1> DEFINE bare == Past(i + 1, Digits)
           j == Past(i + 2, Digits)
           g == Number(Between(i + 1, bare))
           h == Number(Between(i + 2, j))
<1>1. i + 1 \in Nat \ {0} /\ i + 2 \in Nat \ {0} OBVIOUS
<1>2. bare \in Nat /\ j \in Nat BY <1>1, PastIs
<1>3. Format(i) = CASE At(i) = "$" /\ At(i + 1) \in Digits -> Identity(bare, g)
                    [] At(i) = "$" /\ At(i + 1) = "{" /\ At(j) = "}" -> Identity(j + 1, h)
                    [] At(i) = "$" /\ At(i + 1) = "{" /\ At(j) = ":" -> FormatBack(j + 1, h)
                    [] OTHER -> Identity(0, 0)
  BY Zenon DEF Format
<1> HIDE DEF bare, j, g, h
<1>4. ASSUME NEW end \in Nat, NEW group PROVE IsFormat(Identity(end, group), C)
  <2>1. Identity(end, group) = [end |-> end, group |-> group, sign |-> "id", text |-> <<>>, other |-> <<>>] BY DEF Identity
  <2>2. <<>> \in Seq(C) OBVIOUS
  <2> QED BY <2>1, <2>2 DEF IsFormat
<1>5. j + 1 \in Nat \ {0} /\ j + 1 \in Nat /\ 0 \in Nat BY <1>2
<1>6. IsFormat(FormatBack(j + 1, h), C) BY <1>5, FormatBackIs
<1>7. IsFormat(Identity(bare, g), C) /\ IsFormat(Identity(j + 1, h), C) /\ IsFormat(Identity(0, 0), C) BY <1>2, <1>4, <1>5
<1>8. Format(i) \in {Identity(bare, g), Identity(j + 1, h), FormatBack(j + 1, h), Identity(0, 0)} BY <1>3
<1> QED BY <1>6, <1>7, <1>8

LEMMA CasedIs ==
  ASSUME NEW C, Cases \subseteq C, NEW c \in C
  PROVE  Cased(Small, c) \in C /\ Cased(Large, c) \in C
<1>1. /\ DOMAIN Small = {"U", "V", "X"} /\ Small["U"] = "u" /\ Small["V"] = "v" /\ Small["X"] = "x"
      /\ DOMAIN Large = {"u", "v", "x"} /\ Large["u"] = "U" /\ Large["v"] = "V" /\ Large["x"] = "X"
  BY DEF Small, Large
<1> QED BY <1>1 DEF Cased, Cases

LEMMA FormattedIs ==
  ASSUME NEW C, Cases \subseteq C, NEW format, IsFormat(format, C), NEW value \in Seq(C)
  PROVE  Formatted(format, value) \in Seq(C)
<1> DEFINE of(k) == CASE format.text = <<"upcase">> -> Cased(Large, value[k])
                      [] format.text = <<"downcase">> -> Cased(Small, value[k])
                      [] format.text = <<"capitalize">> -> Cased(IF k = 1 THEN Large ELSE Small, value[k])
                      [] OTHER -> value[k]
           cased == [k \in DOMAIN value |-> of(k)]
<1>1. cased \in Seq(C)
  <2>1. ASSUME NEW k \in DOMAIN value PROVE of(k) \in C
    <3>1. value[k] \in C OBVIOUS
    <3>2. Cased(Large, value[k]) \in C /\ Cased(Small, value[k]) \in C BY <3>1, CasedIs
    <3>3. Cased(IF k = 1 THEN Large ELSE Small, value[k]) \in C
      <4>1. CASE k = 1 BY <3>2, <4>1
      <4>2. CASE k # 1 BY <3>2, <4>2
      <4> QED BY <4>1, <4>2
    <3> QED BY <3>1, <3>2, <3>3
  <2>2. DOMAIN value = 1 .. Len(value) /\ Len(value) \in Nat OBVIOUS
  <2> HIDE DEF of
  <2> QED BY <2>1, <2>2
<1>2. Formatted(format, value) =
        CASE format.sign = "/" -> cased
          [] format.sign = "?" -> IF value # <<>> THEN format.text ELSE format.other
          [] format.sign = "id" -> value
          [] OTHER -> IF value # <<>> THEN value ELSE format.text
  BY Zenon DEF Formatted
<1> HIDE DEF cased
<1>3. format.text \in Seq(C) /\ format.other \in Seq(C) BY DEF IsFormat
<1>4. Formatted(format, value) \in {cased, format.text, format.other, value} BY <1>2
<1> QED BY <1>1, <1>3, <1>4

LEMMA MatchedIs ==
  ASSUME NEW C, NEW regex \in Seq(C), NEW flags, NEW group, NEW value \in Seq(C)
  PROVE  Matched(regex, flags, group, value) \in Seq(C)
<1> DEFINE head == SubSeq(value, 1, Len(regex))
<1>1. Len(regex) <= Len(value) => head \in Seq(C) OBVIOUS
<1>2. \/ Matched(regex, flags, group, value) = value
      \/ Len(regex) <= Len(value) /\ Matched(regex, flags, group, value) = head
  <2> DEFINE Folded(text) == IF "i" \in flags THEN [k \in DOMAIN text |-> Cased(Small, text[k])] ELSE text
  <2>1. Matched(regex, flags, group, value) =
          IF group = 0 /\ Len(regex) <= Len(value) /\ Folded(head) = Folded(regex) THEN head ELSE value
    BY Zenon DEF Matched
  <2> HIDE DEF head, Folded
  <2> QED BY <2>1
<1> QED BY <1>1, <1>2

-----------------------------------------------------------------------------
(* The tokens become a text, and regions that lie in it.                        *)

\* one step of token_parser, and all of them
ReadOf(acc, token) ==
  CASE token.kind = "text" -> [acc EXCEPT !.out = Append(@, token.char)]
    [] token.kind = "unparsed" -> [acc EXCEPT !.bad = TRUE]
    [] token.kind = "end" ->
         IF acc.open = <<>> THEN [acc EXCEPT !.bad = TRUE]
         ELSE LET begin == Last(acc.open) IN
              [acc EXCEPT !.open = Front(@),
                          !.regs = IF begin.kind = "int"
                                   THEN Append(@, [idx |-> begin.idx, begin |-> begin.pos, end |-> Len(acc.out)])
                                   ELSE @]
    [] OTHER -> [acc EXCEPT !.open = Append(@, [kind |-> token.kind, pos |-> Len(acc.out),
                                               idx |-> IF token.kind = "int" THEN token.idx ELSE 0])]

NoneRead == [out |-> <<>>, open |-> <<>>, regs |-> <<>>, bad |-> FALSE]
ReadStep(T, s) == IF s = {} THEN NoneRead ELSE LET n == Max(s) IN ReadOf(T[s \ {n}], lxTokens[n])
Read == LET iter[s \in SUBSET DOMAIN lxTokens] == ReadStep(iter, s) IN iter

LEMMA TokensAreRead == Tokens = Read[DOMAIN lxTokens]
BY Zenon DEF Tokens, FoldLeft, MapThenFoldSet, Read, ReadStep, ReadOf, NoneRead

Opened == [kind : {"int", "var"}, pos : Nat, idx : Nat]
Readings(C) ==
  {acc \in [out : Seq(C), open : Seq(Opened), regs : Seq(RegionsIn), bad : BOOLEAN] :
     /\ \A k \in DOMAIN acc.open : acc.open[k].pos <= Len(acc.out)
     /\ \A k \in DOMAIN acc.regs : acc.regs[k].begin <= Len(acc.out) /\ acc.regs[k].end <= Len(acc.out)}

IsReading(out, open, regs, C) ==
  /\ out \in Seq(C) /\ open \in Seq(Opened) /\ regs \in Seq(RegionsIn)
  /\ \A k \in DOMAIN open : open[k].pos <= Len(out)
  /\ \A k \in DOMAIN regs : regs[k].begin <= Len(out) /\ regs[k].end <= Len(out)

LEMMA ReadingBy ==
  ASSUME NEW C, NEW out, NEW open, NEW regs, NEW bad \in BOOLEAN, IsReading(out, open, regs, C)
  PROVE  [out |-> out, open |-> open, regs |-> regs, bad |-> bad] \in Readings(C)
BY DEF Readings, IsReading

LEMMA ReadingIs ==
  ASSUME NEW C, NEW acc \in Readings(C)
  PROVE  /\ IsReading(acc.out, acc.open, acc.regs, C) /\ acc.bad \in BOOLEAN
         /\ acc = [out |-> acc.out, open |-> acc.open, regs |-> acc.regs, bad |-> acc.bad]
<1>1. /\ acc \in [out : Seq(C), open : Seq(Opened), regs : Seq(RegionsIn), bad : BOOLEAN]
      /\ \A k \in DOMAIN acc.open : acc.open[k].pos <= Len(acc.out)
      /\ \A k \in DOMAIN acc.regs : acc.regs[k].begin <= Len(acc.out) /\ acc.regs[k].end <= Len(acc.out)
  BY DEF Readings
<1>2. acc.out \in Seq(C) /\ acc.open \in Seq(Opened) /\ acc.regs \in Seq(RegionsIn) /\ acc.bad \in BOOLEAN BY <1>1
<1>3. acc = [out |-> acc.out, open |-> acc.open, regs |-> acc.regs, bad |-> acc.bad] BY <1>1
<1> QED BY <1>1, <1>2, <1>3 DEF IsReading

LEMMA AppendIs ==
  ASSUME NEW X, NEW s \in Seq(X), NEW x \in X
  PROVE  /\ Append(s, x) \in Seq(X) /\ Len(Append(s, x)) = Len(s) + 1 /\ DOMAIN Append(s, x) = 1 .. Len(s) + 1
         /\ Append(s, x)[Len(s) + 1] = x
         /\ \A k \in DOMAIN s : k \in 1 .. Len(s) /\ Append(s, x)[k] = s[k]
         /\ \A k \in 1 .. Len(s) + 1 : k \in DOMAIN s \/ k = Len(s) + 1
OBVIOUS

LEMMA CharIsRead ==
  ASSUME NEW C, NEW out, NEW open, NEW regs, IsReading(out, open, regs, C), NEW c \in C
  PROVE  IsReading(Append(out, c), open, regs, C)
<1>1. Append(out, c) \in Seq(C) /\ Len(Append(out, c)) = Len(out) + 1 /\ Len(out) \in Nat BY DEF IsReading
<1>2. open \in Seq(Opened) /\ regs \in Seq(RegionsIn) BY DEF IsReading
<1>3. \A k \in DOMAIN open : open[k] \in Opened BY <1>2
<1>4. \A k \in DOMAIN regs : regs[k] \in RegionsIn BY <1>2
<1>5. \A k \in DOMAIN open : open[k].pos \in Nat BY <1>3 DEF Opened
<1>6. \A k \in DOMAIN regs : regs[k].begin \in Nat /\ regs[k].end \in Nat BY <1>4 DEF RegionsIn
<1>7. /\ \A k \in DOMAIN open : open[k].pos <= Len(out)
      /\ \A k \in DOMAIN regs : regs[k].begin <= Len(out) /\ regs[k].end <= Len(out)
  BY DEF IsReading
<1>8. /\ \A k \in DOMAIN open : open[k].pos <= Len(out) + 1
      /\ \A k \in DOMAIN regs : regs[k].begin <= Len(out) + 1 /\ regs[k].end <= Len(out) + 1
  BY <1>1, <1>5, <1>6, <1>7
<1> QED BY <1>1, <1>2, <1>8 DEF IsReading

LEMMA BeginIsRead ==
  ASSUME NEW C, NEW out, NEW open, NEW regs, IsReading(out, open, regs, C), NEW kind \in {"int", "var"}, NEW idx \in Nat
  PROVE  IsReading(out, Append(open, [kind |-> kind, pos |-> Len(out), idx |-> idx]), regs, C)
<1> DEFINE x == [kind |-> kind, pos |-> Len(out), idx |-> idx]
<1>1. Len(out) \in Nat /\ open \in Seq(Opened) BY DEF IsReading
<1>2. x \in Opened /\ x.pos = Len(out) BY <1>1 DEF Opened
<1> HIDE DEF x
<1>3. /\ Append(open, x) \in Seq(Opened) /\ DOMAIN Append(open, x) = 1 .. Len(open) + 1
      /\ Append(open, x)[Len(open) + 1] = x
      /\ \A k \in DOMAIN open : k \in 1 .. Len(open) /\ Append(open, x)[k] = open[k]
      /\ \A k \in 1 .. Len(open) + 1 : k \in DOMAIN open \/ k = Len(open) + 1
  BY <1>1, <1>2, AppendIs
<1>4. \A k \in DOMAIN Append(open, x) : Append(open, x)[k].pos <= Len(out)
  <2> SUFFICES ASSUME NEW k \in DOMAIN Append(open, x) PROVE Append(open, x)[k].pos <= Len(out) OBVIOUS
  <2>1. CASE k \in DOMAIN open BY <1>3, <2>1 DEF IsReading
  <2>2. CASE k = Len(open) + 1 BY <1>1, <1>2, <1>3, <2>2
  <2> QED BY <1>3, <2>1, <2>2
<1> QED BY <1>3, <1>4 DEF IsReading, x

LEMMA RegionIsRead ==
  ASSUME NEW C, NEW out, NEW open, NEW regs, IsReading(out, open, regs, C), open # <<>>
  PROVE  /\ IsReading(out, Front(open), regs, C)
         /\ IsReading(out, Front(open), Append(regs, [idx |-> Last(open).idx, begin |-> Last(open).pos, end |-> Len(out)]), C)
<1> DEFINE x == [idx |-> Last(open).idx, begin |-> Last(open).pos, end |-> Len(out)]
<1>1. Len(out) \in Nat /\ open \in Seq(Opened) /\ regs \in Seq(RegionsIn) /\ Len(open) \in Nat BY DEF IsReading
<1>2. Len(open) \in DOMAIN open /\ open[Len(open)] \in Opened BY <1>1
<1>3. x \in RegionsIn /\ x.begin = Last(open).pos /\ x.end = Len(out) BY <1>1, <1>2 DEF Last, Opened, RegionsIn
<1>4. x.begin <= Len(out) /\ x.end <= Len(out) BY <1>1, <1>2, <1>3 DEF IsReading, Last
<1>5. /\ Front(open) \in Seq(Opened)
      /\ \A k \in DOMAIN Front(open) : k \in DOMAIN open /\ Front(open)[k] = open[k]
  <2>1. SubSeq(open, 1, Len(open) - 1) \in Seq(Opened) BY <1>1
  <2>0. DOMAIN open = 1 .. Len(open) /\ Len(open) >= 1 BY <1>1, <1>2
  <2>2. Len(open) - 1 \in Nat /\ Len(SubSeq(open, 1, Len(open) - 1)) = Len(open) - 1
    <3>0. Len(open) - 1 \in Nat BY <1>1, <2>0
    <3>1. PICK n \in Nat : n = Len(open) - 1 BY <3>0, Zenon
    <3>2. \A k \in 1 .. n : open[k] \in Opened BY <1>1, <3>1
    <3>3. Len(SubSeq(open, 1, n)) = IF 1 <= n THEN n - 1 + 1 ELSE 0 BY <3>2, SubSeqProperties
    <3> QED BY <3>1, <3>3
  <2>3. \A k \in 1 .. Len(open) - 1 : k \in DOMAIN open /\ SubSeq(open, 1, Len(open) - 1)[k] = open[k] BY <1>1
  <2>4. DOMAIN SubSeq(open, 1, Len(open) - 1) = 1 .. Len(open) - 1 BY <2>1, <2>2
  <2> QED BY <2>1, <2>3, <2>4 DEF Front
<1> HIDE DEF x
<1>6. IsReading(out, Front(open), regs, C)
  <2>1. \A k \in DOMAIN Front(open) : Front(open)[k].pos <= Len(out)
    <3>1. \A k \in DOMAIN open : open[k].pos <= Len(out) BY DEF IsReading
    <3> SUFFICES ASSUME NEW k \in DOMAIN Front(open) PROVE Front(open)[k].pos <= Len(out) OBVIOUS
    <3>2. k \in DOMAIN open /\ Front(open)[k] = open[k] BY <1>5
    <3> QED BY <3>1, <3>2, Zenon
  <2> QED BY <1>5, <2>1, Zenon DEF IsReading
<1>7. /\ Append(regs, x) \in Seq(RegionsIn) /\ DOMAIN Append(regs, x) = 1 .. Len(regs) + 1
      /\ Append(regs, x)[Len(regs) + 1] = x
      /\ \A k \in DOMAIN regs : k \in 1 .. Len(regs) /\ Append(regs, x)[k] = regs[k]
      /\ \A k \in 1 .. Len(regs) + 1 : k \in DOMAIN regs \/ k = Len(regs) + 1
  BY <1>1, <1>3, AppendIs
<1>8. \A k \in DOMAIN Append(regs, x) : Append(regs, x)[k].begin <= Len(out) /\ Append(regs, x)[k].end <= Len(out)
  <2> SUFFICES ASSUME NEW k \in DOMAIN Append(regs, x)
               PROVE  Append(regs, x)[k].begin <= Len(out) /\ Append(regs, x)[k].end <= Len(out) OBVIOUS
  <2>1. CASE k \in DOMAIN regs BY <1>7, <2>1 DEF IsReading
  <2>2. CASE k = Len(regs) + 1 BY <1>4, <1>7, <2>2
  <2> QED BY <1>7, <2>1, <2>2
<1> QED BY <1>6, <1>7, <1>8 DEF IsReading, x

LEMMA ReadIsReading ==
  ASSUME NEW C, NEW acc \in Readings(C), NEW token \in TokensOf(C)
  PROVE  ReadOf(acc, token) \in Readings(C)
<1>0. PICK out, open, regs, bad : acc = [out |-> out, open |-> open, regs |-> regs, bad |-> bad]
                                  /\ IsReading(out, open, regs, C) /\ bad \in BOOLEAN
  BY ReadingIs
<1>1. CASE token.kind = "text"
  <2>1. token.char \in C BY <1>1 DEF TokensOf
  <2>2. ReadOf(acc, token) = [out |-> Append(out, token.char), open |-> open, regs |-> regs, bad |-> bad]
    BY <1>0, <1>1 DEF ReadOf
  <2> QED BY <1>0, <2>1, <2>2, CharIsRead, ReadingBy
<1>2. CASE token.kind = "end" /\ open = <<>>
  <2>1. ReadOf(acc, token) = [out |-> out, open |-> open, regs |-> regs, bad |-> TRUE] BY <1>0, <1>2 DEF ReadOf
  <2> QED BY <1>0, <2>1, ReadingBy
<1>3. CASE token.kind = "end" /\ open # <<>>
  <2> DEFINE x == [idx |-> Last(open).idx, begin |-> Last(open).pos, end |-> Len(out)]
             more == IF Last(open).kind = "int" THEN Append(regs, x) ELSE regs
  <2>1. ReadOf(acc, token) = [out |-> out, open |-> Front(open), regs |-> more, bad |-> bad] BY <1>0, <1>3 DEF ReadOf
  <2>2. IsReading(out, Front(open), more, C) BY <1>0, <1>3, RegionIsRead
  <2> HIDE DEF more
  <2> QED BY <1>0, <2>1, <2>2, ReadingBy
<1>3a. CASE token.kind = "unparsed"
  <2>1. ReadOf(acc, token) = [out |-> out, open |-> open, regs |-> regs, bad |-> TRUE] BY <1>0, <1>3a DEF ReadOf
  <2> QED BY <1>0, <2>1, ReadingBy
<1>4. CASE token.kind \notin {"text", "end", "unparsed"}
  <2> DEFINE idx == IF token.kind = "int" THEN token.idx ELSE 0
             x == [kind |-> token.kind, pos |-> Len(out), idx |-> idx]
  <2>1. token.kind \in {"int", "var"} /\ idx \in Nat BY <1>4 DEF TokensOf
  <2>2. ReadOf(acc, token) = [out |-> out, open |-> Append(open, x), regs |-> regs, bad |-> bad] BY <1>0, <1>4 DEF ReadOf
  <2> HIDE DEF idx
  <2>3. IsReading(out, Append(open, x), regs, C) BY <1>0, <2>1, BeginIsRead
  <2> HIDE DEF x
  <2> QED BY <1>0, <2>2, <2>3, ReadingBy
<1> QED BY <1>1, <1>2, <1>3, <1>3a, <1>4

LEMMA TokensAreReading ==
  ASSUME NEW C, lxTokens \in Seq(TokensOf(C))
  PROVE  Tokens \in Readings(C)
<1> DEFINE S == DOMAIN lxTokens
           A == Readings(C)
           step == [q \in A \X S |-> ReadOf(q[1], lxTokens[q[2]])]
           pick == [s \in SUBSET S |-> Max(s)]
<1>1. S = 1 .. Len(lxTokens) /\ Len(lxTokens) \in Nat OBVIOUS
<1>2. IsFiniteSet(S) BY <1>1, UptoIsFinite
<1>3. NoneRead \in A
  <2>1. IsReading(<<>>, <<>>, <<>>, C) BY DEF IsReading
  <2> QED BY <2>1, ReadingBy DEF NoneRead
<1>4. step \in [A \X S -> A]
  <2>1. \A q \in A \X S : q[1] \in A /\ lxTokens[q[2]] \in TokensOf(C) BY <1>1, ElementOfSeq
  <2>2. \A q \in A \X S : ReadOf(q[1], lxTokens[q[2]]) \in A BY <2>1, ReadIsReading
  <2> QED BY <2>2
<1>5. \A s \in SUBSET S : s # {} => pick[s] \in s /\ pick[s] = Max(s) BY <1>1, GreatestIs
<1>6. \A a \in A, x \in S : step[<<a, x>>] = ReadOf(a, lxTokens[x]) OBVIOUS
<1> HIDE DEF step, pick
<1>6a. \A s \in SUBSET S : s # {} => pick[s] \in s BY <1>5
<1>7. PICK F \in [SUBSET S -> A] : \A s \in SUBSET S : F[s] = FoldStep(F, NoneRead, step, pick, s)
  <2>1. IsFold(S, A, NoneRead, step, pick) BY <1>2, <1>3, <1>4, <1>6a DEF IsFold
  <2>2. HasFold(S, A, NoneRead, step, pick) BY <2>1, FoldsExist, Zenon
  <2> HIDE DEF A, S
  <2> QED BY <2>2, Zenon DEF HasFold
<1>8. ASSUME NEW s \in SUBSET S PROVE F[s] = ReadStep(F, s)
  <2>1. CASE s = {} BY <1>7, <2>1 DEF FoldStep, ReadStep
  <2>2. CASE s # {}
    <3>1. Max(s) \in S /\ s \ {Max(s)} \in SUBSET S /\ pick[s] = Max(s) BY <1>5, <2>2
    <3>2. F[s \ {Max(s)}] \in A BY <3>1
    <3>3. step[<<F[s \ {Max(s)}], Max(s)>>] = ReadOf(F[s \ {Max(s)}], lxTokens[Max(s)]) BY <1>6, <3>1, <3>2
    <3>4. F[s] = step[<<F[s \ {Max(s)}], Max(s)>>] BY <1>7, <2>2, <3>1, Zenon DEF FoldStep
    <3> QED BY <2>2, <3>3, <3>4, Zenon DEF ReadStep
  <2> QED BY <2>1, <2>2
<1>9. F = [s \in SUBSET S |-> ReadStep(F, s)]
  <2>1. F = [s \in SUBSET S |-> F[s]] OBVIOUS
  <2>2. [s \in SUBSET S |-> F[s]] = [s \in SUBSET S |-> ReadStep(F, s)] BY <1>8
  <2> QED BY <2>1, <2>2
<1> DEFINE T == Read
<1>10. T = [s \in SUBSET S |-> ReadStep(T, s)] BY <1>9, Zenon DEF Read
<1> HIDE DEF T
<1>11. \A s \in SUBSET S : T[s] = ReadStep(T, s) BY <1>10
<1> DEFINE U(n) == 1 .. n
           G == {n \in Nat : n <= Len(lxTokens) => T[U(n)] \in A}
<1> HIDE DEF A
<1>12. 0 \in G
  <2>1. U(0) = {} OBVIOUS
  <2>2. T[{}] = NoneRead BY <1>11 DEF ReadStep
  <2> QED BY <1>3, <2>1, <2>2
<1>13. ASSUME NEW n \in G PROVE n + 1 \in G
  <2>0. n \in Nat /\ (n <= Len(lxTokens) => T[U(n)] \in A) OBVIOUS
  <2>1. ASSUME n + 1 <= Len(lxTokens) PROVE T[U(n + 1)] \in A
    <3>1. U(n + 1) \in SUBSET (1 .. Len(lxTokens)) /\ n + 1 \in U(n + 1) BY <1>1, <2>0, <2>1
    <3>2. U(n + 1) \in SUBSET S /\ U(n + 1) # {} BY <1>1, <3>1, Zenon
    <3>3. Max(U(n + 1)) \in U(n + 1) /\ \A x \in U(n + 1) : Max(U(n + 1)) >= x BY <1>1, <3>1, <3>2, GreatestIs
    <3>4. Max(U(n + 1)) = n + 1 BY <2>0, <3>1, <3>3
    <3>5. U(n + 1) \ {n + 1} = U(n) BY <2>0
    <3>6. T[U(n + 1)] = ReadOf(T[U(n + 1) \ {Max(U(n + 1))}], lxTokens[Max(U(n + 1))])
      BY <1>11, <3>2, Zenon DEF ReadStep
    <3>7. T[U(n + 1)] = ReadOf(T[U(n)], lxTokens[n + 1]) BY <3>4, <3>5, <3>6
    <3>8. lxTokens[n + 1] \in TokensOf(C) BY <1>1, <2>0, <2>1
    <3>9. T[U(n)] \in A BY <1>1, <2>0, <2>1
    <3> HIDE DEF U
    <3> QED BY <3>7, <3>8, <3>9, ReadIsReading DEF A
  <2> HIDE DEF U
  <2> QED BY <2>0, <2>1
<1>14. G = Nat
  <2>1. G \in SUBSET Nat OBVIOUS
  <2> HIDE DEF G
  <2> QED BY <1>12, <1>13, <2>1, SetInduction
<1>15. T[S] \in A
  <2>1. Len(lxTokens) \in G BY <1>1, <1>14
  <2>2. T[U(Len(lxTokens))] \in A BY <1>1, <2>1
  <2> QED BY <1>1, <2>2
<1> QED BY <1>15, TokensAreRead DEF T, A

-----------------------------------------------------------------------------
\* every step keeps it
Sets(C, tokens, i) == tokens \in Seq(TokensOf(C)) /\ i \in Nat \ {0} /\ Yield(tokens, i)

LEMMA YieldKeeps ==
  ASSUME LxIInv, lxAt = "lex", NEW tokens, NEW i, Sets(Signs, tokens, i)
  PROVE  LxIInv'
<1>1. /\ lxTokens' = lxTokens \o tokens /\ lxRest' = Between(i, Len(lxRest) + 1)
      /\ UNCHANGED <<lxGoal, lxIndent, lxAt, lxParsed>> /\ tokens \in Seq(TokensOf(Signs)) /\ i \in Nat \ {0}
  BY DEF Sets, Yield
<1>2. PICK C : C = Signs OBVIOUS
<1>3. Signs' = C BY <1>1, <1>2 DEF Signs
<1>4. lxRest \in Seq(C) /\ lxTokens \in Seq(TokensOf(C)) /\ lxIndent \in Nat BY <1>2 DEF LxIInv
<1>5. lxTokens' \in Seq(TokensOf(C)) BY <1>1, <1>2, <1>4, JoinsAreTokens
<1>6. lxRest' \in Seq(C)
  <2>1. Len(lxRest) + 1 \in Nat BY <1>4
  <2> QED BY <1>1, <1>4, <2>1, BetweenIsPart
<1> QED BY <1>1, <1>3, <1>4, <1>5, <1>6 DEF LxIInv

LEMMA FailsKeeps == LxIInv /\ lxAt = "lex" /\ Fails => LxIInv'
<1> SUFFICES ASSUME LxIInv, Fails PROVE LxIInv' OBVIOUS
<1>1. lxAt' = "error" /\ UNCHANGED <<lxGoal, lxIndent, lxRest, lxStack, lxTokens, lxParsed>> BY DEF Fails
<1>2. Signs' = Signs BY <1>1 DEF Signs
<1> QED BY <1>1, <1>2 DEF LxIInv

\* what becomes of a step of the parser: tokens are yielded, or it fails
LxGoesOn == Fails \/ \E tokens, i : Sets(Signs, tokens, i)

LEMMA GoesOnBy == /\ \A tokens, i : Sets(Signs, tokens, i) => LxGoesOn
                  /\ Fails => LxGoesOn
BY DEF LxGoesOn

LEMMA GoesOnKeeps == LxIInv /\ lxAt = "lex" /\ LxGoesOn => LxIInv'
BY YieldKeeps, FailsKeeps DEF LxGoesOn

LEMMA SignsHave ==
  ASSUME lxRest \in Seq(Signs)
  PROVE  /\ {"[", "]", "|", "\\"} \subseteq Signs /\ Cases \subseteq Signs
         /\ \A i \in Nat : At(i) \in Signs
BY DEF Signs, At

LEMMA OneCharIsRead ==
  ASSUME NEW C, NEW c \in C
  PROVE  Text(<<c>>) \in Seq(TokensOf(C))
<1>1. <<c>> \in Seq(C) OBVIOUS
<1> QED BY <1>1, TextsAreTokens

LEMMA TextGoesOn == LxIInv /\ LxText => LxGoesOn
<1> SUFFICES ASSUME LxIInv, LxText PROVE LxGoesOn OBVIOUS
<1>1. lxAt = "lex" /\ Yield(Text(<<At(1)>>), 2) BY DEF LxText, Reads, Yields
<1>2. At(1) \in Signs BY SignsHave DEF LxIInv
<1>3. Sets(Signs, Text(<<At(1)>>), 2) BY <1>1, <1>2, OneCharIsRead DEF Sets
<1> QED BY <1>1, <1>3, GoesOnBy

LEMMA EscapeGoesOn == LxIInv /\ LxEscape => LxGoesOn
<1> SUFFICES ASSUME LxIInv, LxEscape PROVE LxGoesOn OBVIOUS
<1>1. At(2) \in Signs /\ "\\" \in Signs BY SignsHave DEF LxIInv
<1>2. /\ lxAt = "lex"
      /\ Yield(Text(<<At(2)>>), 3) \/ Yield(Text(<<"\\">>), 2) \/ Fails
  BY DEF LxEscape, Reads, Yields
<1>3. CASE Yield(Text(<<At(2)>>), 3)
  <2>1. Sets(Signs, Text(<<At(2)>>), 3) BY <1>1, <1>3, OneCharIsRead DEF Sets
  <2> QED BY <1>2, <2>1, GoesOnBy
<1>4. CASE Yield(Text(<<"\\">>), 2)
  <2>1. Sets(Signs, Text(<<"\\">>), 2) BY <1>1, <1>4, OneCharIsRead DEF Sets
  <2> QED BY <1>2, <2>1, GoesOnBy
<1> QED BY <1>2, <1>3, <1>4, GoesOnBy

LEMMA CloseGoesOn == LxIInv /\ LxClose => LxGoesOn
<1> SUFFICES ASSUME LxIInv, LxClose PROVE LxGoesOn OBVIOUS
<1>1. lxAt = "lex" /\ Yield(End1, 2) BY DEF LxClose, Reads
<1>2. Sets(Signs, End1, 2) BY <1>1, EndsAreTokens DEF Sets
<1> QED BY <1>1, <1>2, GoesOnBy

LEMMA TabstopGoesOn == LxIInv /\ LxTabstop => LxGoesOn
<1> SUFFICES ASSUME LxIInv, LxTabstop PROVE LxGoesOn OBVIOUS
<1> DEFINE i == Past(2, Digits)
           int == IntBegin(Between(2, i))
           tokens == IF Snu /\ At(i) = "eof" THEN <<>> ELSE int \o End1
<1>1. lxAt = "lex" /\ Yield(tokens, i) BY Zenon DEF LxTabstop, Reads, Yields
<1>2. lxRest \in Seq(Signs) BY DEF LxIInv
<1>3. i \in Nat \ {0} BY <1>2, PastIs
<1>4. int \in Seq(TokensOf(Signs)) BY <1>2, IntsAreTokens
<1> HIDE DEF i, int
<1>5. int \o End1 \in Seq(TokensOf(Signs)) /\ <<>> \in Seq(TokensOf(Signs)) BY <1>4, EndsAreTokens, JoinsAreTokens
<1>6. tokens \in Seq(TokensOf(Signs)) BY <1>5
<1> HIDE DEF tokens
<1>7. Sets(Signs, tokens, i) BY <1>1, <1>3, <1>6 DEF Sets
<1> QED BY <1>1, <1>7, GoesOnBy

\* the names of variables
LEMMA NameIs ==
  ASSUME LxIInv, NEW i \in Nat \ {0}, NEW j \in Nat, j <= Len(lxRest) + 1
  PROVE  Between(i, j) \in Seq(Signs) /\ Substituted(Between(i, j)) \in Seq(TokensOf(Signs))
<1>1. lxRest \in Seq(Signs) BY DEF LxIInv
<1>2. Between(i, j) \in Seq(Signs) BY <1>1, BetweenIsPart
<1>3. Cases \subseteq Signs BY <1>1, SignsHave
<1> QED BY <1>2, <1>3, SubstitutedAreTokens

LEMMA NakedGoesOn == LxIInv /\ LxNaked => LxGoesOn
<1> SUFFICES ASSUME LxIInv, LxNaked PROVE LxGoesOn OBVIOUS
<1> DEFINE i == Past(2, Letters \union Digits)
           tokens == IF At(i) = "eof" THEN <<>> ELSE Substituted(Between(2, i))
<1>1. lxAt = "lex" /\ Yield(tokens, i) BY Zenon DEF LxNaked, Reads, Yields
<1>2. lxRest \in Seq(Signs) BY DEF LxIInv
<1>3. i \in Nat \ {0} /\ i <= Len(lxRest) + 1 BY <1>2, PastIs
<1> HIDE DEF i
<1>4. Substituted(Between(2, i)) \in Seq(TokensOf(Signs)) BY <1>3, NameIs
<1>5. tokens \in Seq(TokensOf(Signs)) BY <1>4, EndsAreTokens
<1> HIDE DEF tokens
<1>6. Sets(Signs, tokens, i) BY <1>1, <1>3, <1>5 DEF Sets
<1> QED BY <1>1, <1>6, GoesOnBy

LEMMA DollarGoesOn == LxIInv /\ LxDollar => LxGoesOn
<1> SUFFICES ASSUME LxIInv, LxDollar PROVE LxGoesOn OBVIOUS
<1>1. lxAt = "lex" /\ (Yield(<<>>, 2) \/ Fails) BY DEF LxDollar, Reads, Yields
<1>2. CASE Yield(<<>>, 2)
  <2>1. Sets(Signs, <<>>, 2) BY <1>2, EndsAreTokens DEF Sets
  <2> QED BY <1>1, <2>1, GoesOnBy
<1> QED BY <1>1, <1>2, GoesOnBy

LEMMA BraceGoesOn == LxIInv /\ LxBrace => LxGoesOn
BY GoesOnBy DEF LxBrace, Reads

LEMMA IntGoesOn == LxIInv /\ LxInt => LxGoesOn
<1> SUFFICES ASSUME LxIInv, LxInt PROVE LxGoesOn OBVIOUS
<1> DEFINE i == Past(3, Digits)
           begin == IntBegin(Between(3, i))
           behind == AfterInt(i)
           sign == IF Snu THEN "/" ELSE "|"
<1>0. lxRest \in Seq(Signs) BY DEF LxIInv
<1>1. i \in Nat \ {0} /\ i <= Len(lxRest) + 1 BY <1>0, PastIs
<1>2. begin \in Seq(TokensOf(Signs)) BY <1>0, IntsAreTokens
<1>3. /\ lxAt = "lex"
      /\ \/ Yield(<<>>, i) \/ Yield(begin \o End1, i + 1) \/ Yield(begin, AfterColon(i)) \/ Fails
         \/ At(i) \in {"|", "/"} /\ Yield(begin \o behind.tokens, behind.end)
  <2>1. /\ lxAt = "lex"
        /\ CASE At(i) = "eof" -> Yields(<<>>, i)
             [] At(i) = "}" -> Yields(begin \o End1, i + 1)
             [] At(i) = ":" -> Opens(begin, AfterColon(i))
             [] At(i) = sign -> IF behind.ok THEN Yields(begin \o behind.tokens, behind.end) ELSE Fails
             [] OTHER -> Fails
    BY Zenon DEF LxInt, Reads
  <2>1a. sign \in {"|", "/"} OBVIOUS
  <2> HIDE DEF i, begin, behind, sign
  <2>2. CASE At(i) = "eof" BY <2>1, <2>1a, <2>2 DEF Yields
  <2>3. CASE At(i) = "}" BY <2>1, <2>1a, <2>3 DEF Yields
  <2>4. CASE At(i) = ":" BY <2>1, <2>1a, <2>4 DEF Opens
  <2>5. CASE At(i) = sign BY <2>1, <2>1a, <2>5 DEF Yields
  <2>6. CASE At(i) \notin {"eof", "}", ":", sign} BY <2>1, <2>6
  <2> QED BY <2>1, <2>2, <2>3, <2>4, <2>5, <2>6
<1> HIDE DEF i, begin, behind, sign
<1>4. CASE Yield(<<>>, i)
  <2>1. Sets(Signs, <<>>, i) BY <1>1, <1>4, EndsAreTokens DEF Sets
  <2> QED BY <1>3, <2>1, GoesOnBy
<1>5. CASE Yield(begin \o End1, i + 1)
  <2>1. i + 1 \in Nat \ {0} BY <1>1
  <2>2. begin \o End1 \in Seq(TokensOf(Signs)) BY <1>2, EndsAreTokens, JoinsAreTokens
  <2>3. Sets(Signs, begin \o End1, i + 1) BY <1>5, <2>1, <2>2 DEF Sets
  <2> QED BY <1>3, <2>3, GoesOnBy
<1>6. CASE Yield(begin, AfterColon(i))
  <2>1. AfterColon(i) \in Nat \ {0} BY <1>1 DEF AfterColon
  <2>2. Sets(Signs, begin, AfterColon(i)) BY <1>2, <1>6, <2>1 DEF Sets
  <2> QED BY <1>3, <2>2, GoesOnBy
<1>7. CASE At(i) \in {"|", "/"} /\ Yield(begin \o behind.tokens, behind.end)
  <2>1. i <= Len(lxRest)
    <3>1. i \in DOMAIN lxRest BY <1>7 DEF At
    <3> QED BY <1>0, <3>1
  <2>2. {"[", "]", "|"} \subseteq Signs BY <1>0, SignsHave
  <2>3. behind.tokens \in Seq(TokensOf(Signs)) /\ behind.end \in Nat \ {0}
    <3>1. Choice(i).tokens \in Seq(TokensOf(Signs)) /\ Choice(i).end \in Nat \ {0} BY <1>0, <1>1, <2>1, <2>2, ChoiceIs
    <3>2. Decoration(i).tokens \in Seq(TokensOf(Signs)) /\ Decoration(i).end \in Nat \ {0} BY <1>0, <1>1, DecorationIs
    <3>3. behind = Choice(i) \/ behind = Decoration(i) BY DEF behind, AfterInt
    <3> QED BY <3>1, <3>2, <3>3
  <2> DEFINE tokens == begin \o behind.tokens
             end == behind.end
  <2>4. tokens \in Seq(TokensOf(Signs)) BY <1>2, <2>3, JoinsAreTokens
  <2>5. Yield(tokens, end) /\ end \in Nat \ {0} BY <1>7, <2>3
  <2> HIDE DEF tokens, end
  <2>6. Sets(Signs, tokens, end) BY <2>4, <2>5 DEF Sets
  <2> QED BY <1>3, <2>6, GoesOnBy
<1> QED BY <1>3, <1>4, <1>5, <1>6, <1>7, GoesOnBy

LEMMA NameEnds ==
  ASSUME LxIInv
  PROVE  NameEnd(3) \in Nat \ {0} /\ NameEnd(3) <= Len(lxRest) + 1
<1>1. lxRest \in Seq(Signs) /\ 3 \in Nat \ {0} BY DEF LxIInv
<1>2. Upon(3, {"}", ":"}) \in Nat \ {0} /\ Upon(3, {"}", ":"}) <= Len(lxRest) + 1 BY <1>1, UponIs
<1>3. Past(3, Letters \union Digits) \in Nat \ {0} /\ Past(3, Letters \union Digits) <= Len(lxRest) + 1 BY <1>1, PastIs
<1> QED BY <1>2, <1>3 DEF NameEnd

LEMMA DecoratedGoesOn ==
  ASSUME LxIInv, lxAt = "lex", NEW name \in Seq(Signs), NEW i \in Nat \ {0}, Decorated(name, i)
  PROVE  LxGoesOn
<1> DEFINE slash == Upon(i + 1, {"/"})
           format == Format(slash + 1)
           last == Past(format.end + 1, Flags)
           regex == Between(i + 1, slash)
           flags == ToSet(Between(format.end + 1, last))
           matched == Matched(regex, flags, format.group, ValueOf(name))
           tokens == Text(Formatted(format, matched))
           end == last + 1
<1>1. Fails \/ Yield(tokens, end)
  <2>1. IF format.end # 0 /\ At(format.end) = "/" /\ At(last) \in {"}", "eof"} THEN Yields(tokens, end) ELSE Fails
    BY Zenon DEF Decorated
  <2> HIDE DEF slash, format, last, tokens, end
  <2> QED BY <2>1 DEF Yields
<1>2. lxRest \in Seq(Signs) BY DEF LxIInv
<1>3. Cases \subseteq Signs BY <1>2, SignsHave
<1>4. i + 1 \in Nat \ {0} OBVIOUS
<1>5. slash \in Nat /\ slash <= Len(lxRest) + 1 BY <1>2, <1>4, UponIs
<1>6. regex \in Seq(Signs)
  <2> HIDE DEF slash
  <2> QED BY <1>2, <1>4, <1>5, BetweenIsPart
<1> HIDE DEF slash, regex
<1>7. slash + 1 \in Nat \ {0} BY <1>5
<1>8. IsFormat(format, Signs) BY <1>2, <1>7, FormatIs
<1> HIDE DEF format, flags
<1>9. ValueOf(name) \in Seq(Signs) BY <1>3, ValueIs
<1>10. matched \in Seq(Signs) BY <1>6, <1>9, MatchedIs
<1> HIDE DEF matched
<1>11. Formatted(format, matched) \in Seq(Signs) BY <1>3, <1>8, <1>10, FormattedIs
<1>12. tokens \in Seq(TokensOf(Signs)) BY <1>11, TextsAreTokens
<1> HIDE DEF tokens
<1>13. end \in Nat \ {0}
  <2>1. format.end + 1 \in Nat \ {0} BY <1>8 DEF IsFormat
  <2>2. last \in Nat BY <1>2, <2>1, PastIs
  <2> HIDE DEF last
  <2> QED BY <2>2
<1> HIDE DEF end
<1>14. CASE Yield(tokens, end)
  <2>1. Sets(Signs, tokens, end) BY <1>12, <1>13, <1>14 DEF Sets
  <2> QED BY <2>1, GoesOnBy
<1> QED BY <1>1, <1>14, GoesOnBy

LEMMA NameGoesOn == LxIInv /\ LxName => LxGoesOn
<1> SUFFICES ASSUME LxIInv, LxName PROVE LxGoesOn OBVIOUS
<1> DEFINE i == NameEnd(3)
           name == Between(3, i)
           default == IF Known(name) THEN Substituted(name) ELSE VarBegin
<1>1. i \in Nat \ {0} /\ i <= Len(lxRest) + 1 BY NameEnds
<1>2. name \in Seq(Signs) /\ Substituted(name) \in Seq(TokensOf(Signs))
  <2> HIDE DEF i
  <2> QED BY <1>1, NameIs
<1>3. /\ lxAt = "lex"
      /\ CASE At(i) = "eof" -> Yields(<<>>, i)
           [] At(i) = "}" -> Yields(Substituted(name), i + 1)
           [] At(i) = ":" -> Opens(default, i + 1)
           [] At(i) = "/" -> Decorated(name, i)
           [] OTHER -> Fails
  BY Zenon DEF LxName, Reads
<1> HIDE DEF i, name
<1>4. default \in Seq(TokensOf(Signs)) BY <1>2, EndsAreTokens
<1> HIDE DEF default
<1>5. i + 1 \in Nat \ {0} BY <1>1
<1>6. CASE At(i) = "eof"
  <2>1. Sets(Signs, <<>>, i) BY <1>1, <1>3, <1>6, EndsAreTokens DEF Sets, Yields
  <2> QED BY <1>3, <2>1, GoesOnBy
<1>7. CASE At(i) = "}"
  <2>1. Sets(Signs, Substituted(name), i + 1) BY <1>2, <1>3, <1>5, <1>7 DEF Sets, Yields
  <2> QED BY <1>3, <2>1, GoesOnBy
<1>8. CASE At(i) = ":"
  <2>1. Sets(Signs, default, i + 1) BY <1>3, <1>4, <1>5, <1>8 DEF Sets, Opens
  <2> QED BY <1>3, <2>1, GoesOnBy
<1>9. CASE At(i) = "/"
  <2>1. Decorated(name, i) BY <1>3, <1>9
  <2> QED BY <1>1, <1>2, <1>3, <2>1, DecoratedGoesOn
<1>10. CASE At(i) \notin {"eof", "}", ":", "/"} BY <1>3, <1>10, GoesOnBy
<1> QED BY <1>6, <1>7, <1>8, <1>9, <1>10

LEMMA ParseKeeps == LxIInv /\ LxParse => LxIInv'
<1> SUFFICES ASSUME LxIInv, LxParse PROVE LxIInv' OBVIOUS
<1>1. /\ lxAt = "lex"
      /\ \/ Fails
         \/ /\ lxParsed' = [out |-> Tokens.out, regs |-> Tokens.regs]
            /\ UNCHANGED <<lxGoal, lxIndent, lxRest, lxStack, lxTokens>>
  BY DEF LxParse
<1>2. CASE /\ lxParsed' = [out |-> Tokens.out, regs |-> Tokens.regs]
           /\ UNCHANGED <<lxGoal, lxIndent, lxRest, lxStack, lxTokens>>
  <2>1. Signs' = Signs BY <1>2 DEF Signs
  <2>2. Tokens \in Readings(Signs) BY TokensAreReading DEF LxIInv
  <2>3. IsReading(Tokens.out, Tokens.open, Tokens.regs, Signs) BY <2>2, ReadingIs
  <2>4. IsParsed([out |-> Tokens.out, regs |-> Tokens.regs], Signs) BY <2>3 DEF IsReading, IsParsed
  <2>5. IsParsed(lxParsed', Signs) BY <1>2, <2>4
  <2> QED BY <1>2, <2>1, <2>5 DEF LxIInv
<1> QED BY <1>1, <1>2, FailsKeeps

LEMMA LxStart == LxInit => LxIInv
<1> SUFFICES ASSUME LxInit PROVE LxIInv OBVIOUS
<1>1. lxGoal \in LxSentences /\ lxIndent \in LxIndents /\ lxAt = "lex" /\ lxRest = lxGoal.src /\ lxTokens = <<>> BY DEF LxInit
<1>2. lxIndent \in Nat /\ lxGoal.src \in Seq(ToSet(lxGoal.src)) BY <1>1, LxAssumption
<1>3. lxGoal.src \in Seq(Signs)
  <2> DEFINE X == ToSet(lxGoal.src)
             s == lxGoal.src
  <2>1. s \in Seq(X) /\ X \in SUBSET Signs BY <1>2 DEF Signs
  <2> HIDE DEF X, s
  <2>2. s \in Seq(Signs) BY <2>1
  <2> QED BY <2>2 DEF s
<1> QED BY <1>1, <1>2, <1>3 DEF LxIInv

LEMMA LexIsAt == LxNext => lxAt = "lex"
BY DEF LxNext, LxText, LxEscape, LxClose, LxTabstop, LxNaked, LxDollar, LxBrace, LxInt, LxName, LxParse, Reads

LEMMA NextGoesOn == LxIInv /\ LxNext => LxParse \/ LxGoesOn
BY TextGoesOn, EscapeGoesOn, CloseGoesOn, TabstopGoesOn, NakedGoesOn, DollarGoesOn, BraceGoesOn, IntGoesOn, NameGoesOn DEF LxNext

LEMMA LxStep == LxIInv /\ [LxNext]_lxVars => LxIInv'
<1> SUFFICES ASSUME LxIInv, [LxNext]_lxVars PROVE LxIInv' OBVIOUS
<1>1. CASE LxNext BY <1>1, LexIsAt, NextGoesOn, GoesOnKeeps, ParseKeeps
<1>2. CASE UNCHANGED lxVars BY <1>2 DEF lxVars, LxIInv, Signs
<1> QED BY <1>1, <1>2

-----------------------------------------------------------------------------
(* The regions that become marks.  Which are ahead of which is a total order.     *)

AreRegions(regs) == regs \in Seq(RegionsIn)

LEMMA SizesAre == \A r \in RegionsIn : Size(r) \in Int /\ r.idx \in Nat
BY DEF RegionsIn, Size

LEMMA SoonerIsOrder ==
  ASSUME NEW a \in RegionsIn, NEW b \in RegionsIn, NEW c \in RegionsIn
  PROVE  /\ ~Sooner(a, a)
         /\ Sooner(a, b) => ~Sooner(b, a)
         /\ ~Sooner(a, b) /\ ~Sooner(b, c) => ~Sooner(a, c)
         /\ ~Sooner(b, a) => Size(a) <= Size(b)
<1>1. Size(a) \in Int /\ Size(b) \in Int /\ Size(c) \in Int /\ a.idx \in Nat /\ b.idx \in Nat /\ c.idx \in Nat BY SizesAre
<1> QED BY <1>1 DEF Sooner

LEMMA PreferredIsOrder ==
  ASSUME NEW regs, AreRegions(regs), NEW i \in DOMAIN regs, NEW j \in DOMAIN regs, NEW k \in DOMAIN regs
  PROVE  /\ i \notin Preferred(regs, i)
         /\ i \in Preferred(regs, j) /\ j \in Preferred(regs, k) => i \in Preferred(regs, k)
         /\ i # j => i \in Preferred(regs, j) \/ j \in Preferred(regs, i)
<1>1. regs[i] \in RegionsIn /\ regs[j] \in RegionsIn /\ regs[k] \in RegionsIn BY DEF AreRegions
<1>2. i \in Int /\ j \in Int /\ k \in Int BY DEF AreRegions
<1>3. ~Sooner(regs[i], regs[i]) BY <1>1, SoonerIsOrder
<1>4. Sooner(regs[i], regs[j]) => ~Sooner(regs[j], regs[i]) BY <1>1, SoonerIsOrder
<1>4a. Sooner(regs[j], regs[k]) => ~Sooner(regs[k], regs[j]) BY <1>1, SoonerIsOrder
<1>5. ~Sooner(regs[i], regs[k]) /\ ~Sooner(regs[k], regs[j]) => ~Sooner(regs[i], regs[j]) BY <1>1, SoonerIsOrder
<1>6. ~Sooner(regs[j], regs[i]) /\ ~Sooner(regs[i], regs[k]) => ~Sooner(regs[j], regs[k]) BY <1>1, SoonerIsOrder
<1>7. ~Sooner(regs[k], regs[j]) /\ ~Sooner(regs[j], regs[i]) => ~Sooner(regs[k], regs[i]) BY <1>1, SoonerIsOrder
<1>8. i \notin Preferred(regs, i) BY <1>2, <1>3 DEF Preferred
<1>9. i # j => i \in Preferred(regs, j) \/ j \in Preferred(regs, i) BY <1>2, <1>4 DEF Preferred
<1>10. ASSUME i \in Preferred(regs, j), j \in Preferred(regs, k) PROVE i \in Preferred(regs, k)
  BY <1>2, <1>4, <1>4a, <1>5, <1>6, <1>7, <1>10 DEF Preferred
<1> QED BY <1>8, <1>9, <1>10

\* where the one comes from that is put at a place
RegionAt(regs, n) == CHOOSE k \in DOMAIN regs : Cardinality(Preferred(regs, k)) = n - 1

LEMMA ByLengthSorts ==
  ASSUME NEW regs, AreRegions(regs)
  PROVE  /\ ByLength(regs) \in Seq(RegionsIn) /\ DOMAIN ByLength(regs) = DOMAIN regs
         /\ \A m \in DOMAIN regs : RegionAt(regs, m) \in DOMAIN regs /\ ByLength(regs)[m] = regs[RegionAt(regs, m)]
         /\ \A k \in DOMAIN regs : \E m \in DOMAIN regs : RegionAt(regs, m) = k
         /\ \A l, m \in DOMAIN regs : l # m => RegionAt(regs, l) # RegionAt(regs, m)
         /\ \A l, m \in DOMAIN regs : l < m => Size(ByLength(regs)[l]) <= Size(ByLength(regs)[m])
<1> DEFINE D == DOMAIN regs
           n == Len(regs)
           A == [k \in D |-> Preferred(regs, k)]
           f(m) == RegionAt(regs, m)
<1>1. D = 1 .. n /\ n \in Nat /\ \A k \in D : regs[k] \in RegionsIn BY DEF AreRegions
<1>2. IsFiniteSet(D) /\ Cardinality(D) = n
  <2>1. IsFiniteSet(1 .. n) /\ Cardinality(1 .. n) = n BY <1>1, UptoIsFinite
  <2> QED BY <1>1, <2>1, Zenon
<1>3. \A k \in D : A[k] = Preferred(regs, k) OBVIOUS
<1>4. IsTotal(D, A)
  <2>1. A \in [D -> SUBSET D] BY DEF Preferred
  <2> HIDE DEF A
  <2>2. \A i \in D : i \notin A[i] BY <1>3, PreferredIsOrder
  <2>3. \A i, j, k \in D : i \in A[j] /\ j \in A[k] => i \in A[k]
    <3> SUFFICES ASSUME NEW i \in D, NEW j \in D, NEW k \in D PROVE i \in A[j] /\ j \in A[k] => i \in A[k] OBVIOUS
    <3> QED BY <1>3, PreferredIsOrder
  <2>4. \A i, j \in D : i # j => i \in A[j] \/ j \in A[i]
    <3> SUFFICES ASSUME NEW i \in D, NEW j \in D PROVE i # j => i \in A[j] \/ j \in A[i] OBVIOUS
    <3> QED BY <1>3, PreferredIsOrder
  <2> HIDE DEF D
  <2> QED BY <1>2, <2>1, <2>2, <2>3, <2>4 DEF IsTotal
<1> HIDE DEF A
<1>5. /\ \A k \in D : Cardinality(A[k]) \in Nat
      /\ \A j, k \in D : j \in A[k] => Cardinality(A[j]) < Cardinality(A[k])
      /\ \A m \in D : \E k \in D : Cardinality(A[k]) = m - 1
  <2>1. /\ \A k \in D : Cardinality(A[k]) \in Nat
        /\ \A j, k \in D : j \in A[k] => Cardinality(A[j]) < Cardinality(A[k])
        /\ \A m \in 1 .. Cardinality(D) : \E k \in D : Cardinality(A[k]) = m - 1
    BY <1>4, RanksAreTaken
  <2> QED BY <1>1, <1>2, <2>1
<1>6. \A m \in D : f(m) \in D /\ Cardinality(A[f(m)]) = m - 1
  <2>1. \A m \in D : \E k \in D : Cardinality(Preferred(regs, k)) = m - 1 BY <1>3, <1>5
  <2>2. \A m \in D : f(m) \in D /\ Cardinality(Preferred(regs, f(m))) = m - 1 BY <2>1 DEF RegionAt
  <2> QED BY <1>3, <2>2
<1>7. ByLength(regs) = [m \in D |-> regs[f(m)]] BY DEF ByLength, RegionAt
<1>8. ByLength(regs) \in Seq(RegionsIn)
  <2>1. ByLength(regs) \in [1 .. n -> RegionsIn] BY <1>1, <1>6, <1>7
  <2> QED BY <1>1, <2>1
<1>9. \A l, m \in D : l # m => f(l) # f(m) BY <1>1, <1>6
<1>10. ASSUME NEW k \in D PROVE \E m \in D : f(m) = k
  <2> DEFINE F == [m \in D |-> f(m)]
  <2>1. F \in [D -> D] BY <1>6
  <2>2. \A l, m \in D : l # m => F[l] # F[m] BY <1>9
  <2>3. \A m \in D : F[m] = f(m) OBVIOUS
  <2> HIDE DEF F
  <2>4. F \in Injection(D, D) BY <2>1, <2>2 DEF Injection, IsInjective
  <2>5. F \in Surjection(D, D) BY <1>2, <2>4, FS_Injection
  <2> QED BY <2>3, <2>5 DEF Surjection
<1>11. ASSUME NEW l \in D, NEW m \in D, l < m PROVE Size(ByLength(regs)[l]) <= Size(ByLength(regs)[m])
  <2>1. f(l) \in D /\ f(m) \in D BY <1>6
  <2>2. ~(Cardinality(A[f(m)]) < Cardinality(A[f(l)])) BY <1>1, <1>6, <1>11
  <2>3. f(m) \notin A[f(l)] BY <1>5, <2>1, <2>2
  <2>4. ~Sooner(regs[f(m)], regs[f(l)]) BY <1>3, <2>1, <2>3 DEF Preferred
  <2>5. Size(regs[f(l)]) <= Size(regs[f(m)]) BY <1>1, <2>1, <2>4, SoonerIsOrder
  <2>6. ByLength(regs)[l] = regs[f(l)] /\ ByLength(regs)[m] = regs[f(m)] BY <1>7
  <2> QED BY <2>5, <2>6
<1> QED BY <1>6, <1>7, <1>8, <1>9, <1>10, <1>11

\* one step of _consolidate, and all of them
KeepOf(acc, region) == IF \E k \in DOMAIN acc : Nested(region, acc[k]) THEN acc ELSE Append(acc, region)
KeepStep(T, seq, s) == IF s = {} THEN <<>> ELSE LET n == Max(s) IN KeepOf(T[s \ {n}], seq[n])
Keeping(seq) == LET iter[s \in SUBSET DOMAIN seq] == KeepStep(iter, seq, s) IN iter

LEMMA ConsolidatedIsKeeping ==
  ASSUME NEW regs
  PROVE  Consolidated(regs) = Keeping(ByLength(regs))[DOMAIN ByLength(regs)]
BY Zenon DEF Consolidated, FoldLeft, MapThenFoldSet, Keeping, KeepStep, KeepOf

\* what is kept is apart, and what is not is nested with what was kept before it
KeptOK(seq, n, acc) ==
  /\ acc \in Seq(RegionsIn)
  /\ \A i, j \in DOMAIN acc : i # j => ~Nested(acc[i], acc[j])
  /\ \A k \in DOMAIN acc : \E i \in 1 .. n : acc[k] = seq[i]
  /\ \A i \in 1 .. n : \/ \E k \in DOMAIN acc : acc[k] = seq[i]
                       \/ \E j \in 1 .. i - 1 : Nested(seq[i], seq[j])

LEMMA KeepIsOK ==
  ASSUME NEW seq \in Seq(RegionsIn), NEW n \in Nat, n + 1 <= Len(seq), NEW acc, KeptOK(seq, n, acc)
  PROVE  KeptOK(seq, n + 1, KeepOf(acc, seq[n + 1]))
<1> DEFINE x == seq[n + 1]
<1>1. x \in RegionsIn OBVIOUS
<1>2. /\ acc \in Seq(RegionsIn)
      /\ \A i, j \in DOMAIN acc : i # j => ~Nested(acc[i], acc[j])
      /\ \A k \in DOMAIN acc : \E i \in 1 .. n : acc[k] = seq[i]
      /\ \A i \in 1 .. n : (\E k \in DOMAIN acc : acc[k] = seq[i]) \/ (\E j \in 1 .. i - 1 : Nested(seq[i], seq[j]))
  BY DEF KeptOK
<1>3. \A i \in 1 .. n : i \in 1 .. n + 1 OBVIOUS
<1>3a. \A i \in 1 .. n + 1 : i \in 1 .. n \/ i = n + 1 OBVIOUS
<1>4. CASE \E k \in DOMAIN acc : Nested(x, acc[k])
  <2>1. PICK k \in DOMAIN acc : Nested(x, acc[k]) BY <1>4
  <2>2. PICK j \in 1 .. n : acc[k] = seq[j] BY <1>2
  <2>3. j \in 1 .. (n + 1) - 1 /\ Nested(seq[n + 1], seq[j]) BY <2>1, <2>2
  <2>4. KeepOf(acc, x) = acc BY <1>4 DEF KeepOf
  <2>5. \A m \in DOMAIN acc : \E i \in 1 .. n + 1 : acc[m] = seq[i] BY <1>2, <1>3
  <2>6. \A i \in 1 .. n + 1 : (\E m \in DOMAIN acc : acc[m] = seq[i]) \/ (\E l \in 1 .. i - 1 : Nested(seq[i], seq[l]))
    <3> SUFFICES ASSUME NEW i \in 1 .. n + 1
                 PROVE (\E m \in DOMAIN acc : acc[m] = seq[i]) \/ (\E l \in 1 .. i - 1 : Nested(seq[i], seq[l])) OBVIOUS
    <3>1. CASE i \in 1 .. n BY <1>2, <3>1
    <3>2. CASE i = n + 1 BY <2>3, <3>2
    <3> QED BY <1>3a, <3>1, <3>2
  <2>7. KeptOK(seq, n + 1, acc) BY <1>2, <2>5, <2>6 DEF KeptOK
  <2> QED BY <2>4, <2>7
<1>5. CASE ~\E k \in DOMAIN acc : Nested(x, acc[k])
  <2> DEFINE new == Append(acc, x)
             N == Len(acc) + 1
  <2> HIDE DEF x
  <2>1. /\ new \in Seq(RegionsIn) /\ DOMAIN new = 1 .. N /\ new[N] = x /\ N \in 1 .. N
        /\ \A k \in DOMAIN acc : k \in 1 .. Len(acc) /\ new[k] = acc[k]
        /\ \A k \in 1 .. N : k \in DOMAIN acc \/ k = N
    <3>1. Len(acc) \in Nat BY <1>2
    <3> QED BY <1>1, <1>2, <3>1, AppendIs
  <2>2. KeepOf(acc, x) = new BY <1>5 DEF KeepOf
  <2> HIDE DEF new, N
  <2>3. \A i, j \in DOMAIN new : i # j => ~Nested(new[i], new[j])
    <3> SUFFICES ASSUME NEW i \in DOMAIN new, NEW j \in DOMAIN new, i # j PROVE ~Nested(new[i], new[j]) OBVIOUS
    <3>1. CASE i \in DOMAIN acc /\ j \in DOMAIN acc BY <1>2, <2>1, <3>1
    <3>2. CASE i = N /\ j \in DOMAIN acc BY <1>5, <2>1, <3>2
    <3>3. CASE i \in DOMAIN acc /\ j = N
      <4>1. ~Nested(x, acc[i]) BY <1>5, <3>3
      <4>2. ~Nested(acc[i], x) BY <4>1 DEF Nested
      <4> QED BY <2>1, <3>3, <4>2
    <3> QED BY <2>1, <3>1, <3>2, <3>3
  <2>4. \A k \in DOMAIN new : \E i \in 1 .. n + 1 : new[k] = seq[i]
    <3> SUFFICES ASSUME NEW k \in DOMAIN new PROVE \E i \in 1 .. n + 1 : new[k] = seq[i] OBVIOUS
    <3>1. CASE k \in DOMAIN acc BY <1>2, <1>3, <2>1, <3>1
    <3>2. CASE k = N
      <4>1. n + 1 \in 1 .. n + 1 OBVIOUS
      <4> QED BY <2>1, <3>2, <4>1 DEF x
    <3> QED BY <2>1, <3>1, <3>2
  <2>5. \A i \in 1 .. n + 1 : (\E m \in DOMAIN new : new[m] = seq[i]) \/ (\E l \in 1 .. i - 1 : Nested(seq[i], seq[l]))
    <3> SUFFICES ASSUME NEW i \in 1 .. n + 1
                 PROVE (\E m \in DOMAIN new : new[m] = seq[i]) \/ (\E l \in 1 .. i - 1 : Nested(seq[i], seq[l])) OBVIOUS
    <3>0. \A k \in DOMAIN acc : k \in DOMAIN new /\ new[k] = acc[k]
      <4>1. \A k \in DOMAIN acc : k \in 1 .. N
        <5>1. Len(acc) \in Nat BY <1>2
        <5> QED BY <2>1, <5>1 DEF N
      <4> QED BY <2>1, <4>1
    <3>1. CASE i \in 1 .. n BY <1>2, <3>0, <3>1
    <3>2. CASE i = n + 1
      <4>1. N \in DOMAIN new /\ new[N] = seq[n + 1] BY <2>1 DEF x
      <4> QED BY <3>2, <4>1
    <3> QED BY <1>3a, <3>1, <3>2
  <2>6. KeptOK(seq, n + 1, new) BY <2>1, <2>3, <2>4, <2>5 DEF KeptOK
  <2> QED BY <2>2, <2>6 DEF x
<1> QED BY <1>4, <1>5

LEMMA AllAreKept ==
  ASSUME NEW seq \in Seq(RegionsIn)
  PROVE  KeptOK(seq, Len(seq), Keeping(seq)[DOMAIN seq])
<1> DEFINE S == DOMAIN seq
           A == Seq(RegionsIn)
           step == [q \in A \X S |-> KeepOf(q[1], seq[q[2]])]
           pick == [s \in SUBSET S |-> Max(s)]
<1>1. S = 1 .. Len(seq) /\ Len(seq) \in Nat OBVIOUS
<1>2. IsFiniteSet(S) BY <1>1, UptoIsFinite
<1>3. <<>> \in A OBVIOUS
<1>4. step \in [A \X S -> A]
  <2>1. \A q \in A \X S : q[1] \in A /\ seq[q[2]] \in RegionsIn BY <1>1, ElementOfSeq
  <2>2. \A q \in A \X S : Append(q[1], seq[q[2]]) \in A BY <2>1, AppendIs
  <2>3. \A q \in A \X S : KeepOf(q[1], seq[q[2]]) \in A BY <2>1, <2>2, Zenon DEF KeepOf
  <2> QED BY <2>3
<1>5. \A s \in SUBSET S : s # {} => pick[s] \in s /\ pick[s] = Max(s) BY <1>1, GreatestIs
<1>6. \A a \in A, x \in S : step[<<a, x>>] = KeepOf(a, seq[x]) OBVIOUS
<1> HIDE DEF step, pick
<1>6a. \A s \in SUBSET S : s # {} => pick[s] \in s BY <1>5
<1>7. PICK F \in [SUBSET S -> A] : \A s \in SUBSET S : F[s] = FoldStep(F, <<>>, step, pick, s)
  <2>1. IsFold(S, A, <<>>, step, pick) BY <1>2, <1>3, <1>4, <1>6a DEF IsFold
  <2>2. HasFold(S, A, <<>>, step, pick) BY <2>1, FoldsExist, Zenon
  <2> HIDE DEF A, S
  <2> QED BY <2>2, Zenon DEF HasFold
<1>8. ASSUME NEW s \in SUBSET S PROVE F[s] = KeepStep(F, seq, s)
  <2>1. CASE s = {} BY <1>7, <2>1 DEF FoldStep, KeepStep
  <2>2. CASE s # {}
    <3>1. Max(s) \in S /\ s \ {Max(s)} \in SUBSET S /\ pick[s] = Max(s) BY <1>5, <2>2
    <3>2. F[s \ {Max(s)}] \in A BY <3>1
    <3>3. step[<<F[s \ {Max(s)}], Max(s)>>] = KeepOf(F[s \ {Max(s)}], seq[Max(s)]) BY <1>6, <3>1, <3>2
    <3>4. F[s] = step[<<F[s \ {Max(s)}], Max(s)>>] BY <1>7, <2>2, <3>1, Zenon DEF FoldStep
    <3> QED BY <2>2, <3>3, <3>4, Zenon DEF KeepStep
  <2> QED BY <2>1, <2>2
<1>9. F = [s \in SUBSET S |-> KeepStep(F, seq, s)]
  <2>1. F = [s \in SUBSET S |-> F[s]] OBVIOUS
  <2>2. [s \in SUBSET S |-> F[s]] = [s \in SUBSET S |-> KeepStep(F, seq, s)] BY <1>8
  <2> QED BY <2>1, <2>2
<1> DEFINE T == Keeping(seq)
<1>10. T = [s \in SUBSET S |-> KeepStep(T, seq, s)] BY <1>9, Zenon DEF Keeping
<1> HIDE DEF T
<1>11. \A s \in SUBSET S : T[s] = KeepStep(T, seq, s) BY <1>10
<1> DEFINE U(n) == 1 .. n
           G == {n \in Nat : n <= Len(seq) => KeptOK(seq, n, T[U(n)])}
<1>12. 0 \in G
  <2>1. U(0) = {} OBVIOUS
  <2>2. T[{}] = <<>> BY <1>11 DEF KeepStep
  <2>3. KeptOK(seq, 0, <<>>) BY DEF KeptOK
  <2> QED BY <2>1, <2>2, <2>3
<1>13. ASSUME NEW n \in G PROVE n + 1 \in G
  <2>0. n \in Nat /\ (n <= Len(seq) => KeptOK(seq, n, T[U(n)])) OBVIOUS
  <2>1. ASSUME n + 1 <= Len(seq) PROVE KeptOK(seq, n + 1, T[U(n + 1)])
    <3>1. U(n + 1) \in SUBSET (1 .. Len(seq)) /\ n + 1 \in U(n + 1) BY <1>1, <2>0, <2>1
    <3>2. U(n + 1) \in SUBSET S /\ U(n + 1) # {} BY <1>1, <3>1, Zenon
    <3>3. Max(U(n + 1)) \in U(n + 1) /\ \A x \in U(n + 1) : Max(U(n + 1)) >= x BY <1>1, <3>1, <3>2, GreatestIs
    <3>4. Max(U(n + 1)) = n + 1 BY <2>0, <3>1, <3>3
    <3>5. U(n + 1) \ {n + 1} = U(n) BY <2>0
    <3>6. T[U(n + 1)] = KeepOf(T[U(n + 1) \ {Max(U(n + 1))}], seq[Max(U(n + 1))])
      BY <1>11, <3>2, Zenon DEF KeepStep
    <3>7. T[U(n + 1)] = KeepOf(T[U(n)], seq[n + 1]) BY <3>4, <3>5, <3>6
    <3>8. KeptOK(seq, n, T[U(n)]) BY <1>1, <2>0, <2>1
    <3> HIDE DEF U
    <3>9. KeptOK(seq, n + 1, KeepOf(T[U(n)], seq[n + 1])) BY <2>0, <2>1, <3>8, KeepIsOK
    <3> QED BY <3>7, <3>9
  <2> HIDE DEF U
  <2> QED BY <2>0, <2>1
<1>14. G = Nat
  <2>1. G \in SUBSET Nat OBVIOUS
  <2> HIDE DEF G
  <2> QED BY <1>12, <1>13, <2>1, SetInduction
<1>15. KeptOK(seq, Len(seq), T[S])
  <2>1. Len(seq) \in G BY <1>1, <1>14
  <2>2. KeptOK(seq, Len(seq), T[U(Len(seq))]) BY <1>1, <2>1
  <2> QED BY <1>1, <2>2
<1> QED BY <1>15 DEF T

-----------------------------------------------------------------------------
(* The marks.  What is before the snippet on its line is no break.               *)

Behind(indent, out) == [k \in 1 .. indent |-> "x"] \o out

LEMMA BehindIs ==
  ASSUME NEW C, NEW out \in Seq(C), NEW indent \in Nat
  PROVE  /\ Len(Behind(indent, out)) = indent + Len(out) /\ DOMAIN Behind(indent, out) = 1 .. indent + Len(out)
         /\ \A k \in 1 .. indent : Behind(indent, out)[k] = "x"
         /\ \A k \in 1 .. Len(out) : Behind(indent, out)[indent + k] = out[k]
<1> DEFINE X == C \union {"x"}
           pre == [k \in 1 .. indent |-> "x"]
<1>1. pre \in Seq(X) /\ Len(pre) = indent /\ \A k \in 1 .. indent : pre[k] = "x" OBVIOUS
<1>2. out \in Seq(X) OBVIOUS
<1> HIDE DEF pre, X
<1>3. pre \o out \in Seq(X) /\ Len(pre \o out) = indent + Len(out) BY <1>1, <1>2
<1>4. \A k \in 1 .. indent : (pre \o out)[k] = "x" BY <1>1, <1>2
<1>5. \A k \in 1 .. Len(out) : (pre \o out)[indent + k] = out[k] BY <1>1, <1>2
<1>6. DOMAIN (pre \o out) = 1 .. indent + Len(out) BY <1>3
<1> QED BY <1>3, <1>4, <1>5, <1>6 DEF Behind, pre

Ended(text, i) == {k \in LineEnds(text) : k <= i}

LEMMA EndedAre ==
  ASSUME NEW C, NEW text \in Seq(C), NEW i \in Int
  PROVE  /\ LineEnds(text) \in SUBSET (1 .. Len(text)) /\ Len(text) \in Nat
         /\ IsFiniteSet(Ended(text, i)) /\ Cardinality(Ended(text, i)) \in Nat
         /\ Ended(text, i) = {} <=> Cardinality(Ended(text, i)) = 0
<1>1. LineEnds(text) \in SUBSET (1 .. Len(text)) /\ Len(text) \in Nat BY DEF LineEnds
<1>2. Ended(text, i) \in SUBSET (1 .. Len(text)) BY <1>1 DEF Ended
<1>3. IsFiniteSet(1 .. Len(text)) BY <1>1, UptoIsFinite
<1>4. IsFiniteSet(Ended(text, i)) BY <1>2, <1>3, FS_Subset
<1> QED BY <1>1, <1>4, FS_CardinalityType, FS_EmptySet

LEMMA AsManyHaveEnded ==
  ASSUME NEW C, NEW out \in Seq(C), NEW indent \in Nat, NEW b \in Nat
  PROVE  /\ Cardinality(Ended(Behind(indent, out), indent + b)) = Cardinality(Ended(out, b))
         /\ b \in LineEnds(out) => indent + b \in LineEnds(Behind(indent, out))
<1> DEFINE text == Behind(indent, out)
           E == Ended(out, b)
           F == Ended(text, indent + b)
           f == [k \in E |-> indent + k]
<1>1. /\ DOMAIN text = 1 .. indent + Len(out) /\ Len(out) \in Nat /\ DOMAIN out = 1 .. Len(out)
      /\ \A k \in 1 .. indent : text[k] = "x"
      /\ \A k \in 1 .. Len(out) : text[indent + k] = out[k]
  <2>1. Len(out) \in Nat /\ DOMAIN out = 1 .. Len(out) OBVIOUS
  <2> HIDE DEF text
  <2>2. /\ DOMAIN text = 1 .. indent + Len(out)
        /\ \A k \in 1 .. indent : text[k] = "x"
        /\ \A k \in 1 .. Len(out) : text[indent + k] = out[k]
    BY BehindIs, Zenon DEF text
  <2> QED BY <2>1, <2>2
<1>2. \A k : k \in E <=> k \in 1 .. Len(out) /\ out[k] = "nl" /\ k <= b BY <1>1 DEF Ended, LineEnds
<1>3. \A k : k \in F <=> k \in 1 .. indent + Len(out) /\ text[k] = "nl" /\ k <= indent + b BY <1>1 DEF Ended, LineEnds
<1>4. \A k : k \in LineEnds(text) <=> k \in 1 .. indent + Len(out) /\ text[k] = "nl" BY <1>1 DEF LineEnds
<1>4a. \A k : k \in LineEnds(out) <=> k \in 1 .. Len(out) /\ out[k] = "nl" BY <1>1 DEF LineEnds
<1> HIDE DEF text, E, F
<1>5. \A k \in 1 .. Len(out) : indent + k \in 1 .. indent + Len(out) BY <1>1
<1>6. \A k \in E : indent + k \in F
  <2> SUFFICES ASSUME NEW k \in E PROVE indent + k \in F OBVIOUS
  <2>1. k \in 1 .. Len(out) /\ out[k] = "nl" /\ k <= b BY <1>2
  <2>2. indent + k \in 1 .. indent + Len(out) /\ text[indent + k] = "nl" BY <1>1, <1>5, <2>1
  <2>3. indent + k <= indent + b BY <2>1
  <2> QED BY <1>3, <2>2, <2>3
<1>7. \A m \in F : \E k \in E : m = indent + k
  <2> SUFFICES ASSUME NEW m \in F PROVE \E k \in E : m = indent + k OBVIOUS
  <2>1. m \in 1 .. indent + Len(out) /\ text[m] = "nl" /\ m <= indent + b BY <1>3
  <2>2. m \notin 1 .. indent BY <1>1, <2>1
  <2>3. PICK k \in 1 .. Len(out) : m = indent + k
    <3>1. m - indent \in 1 .. Len(out) /\ m = indent + (m - indent) BY <1>1, <2>1, <2>2
    <3> QED BY <3>1
  <2>4. out[k] = "nl" BY <1>1, <2>1, <2>3
  <2>5. k <= b BY <1>1, <2>1, <2>3
  <2>6. k \in E BY <1>2, <2>4, <2>5
  <2> QED BY <2>3, <2>6
<1>8. f \in Bijection(E, F)
  <2>1. f \in [E -> F] BY <1>6
  <2>2. \A j, k \in E : j # k => f[j] # f[k]
    <3> SUFFICES ASSUME NEW j \in E, NEW k \in E, j # k PROVE f[j] # f[k] OBVIOUS
    <3>1. j \in Int /\ k \in Int BY <1>2
    <3>2. f[j] = indent + j /\ f[k] = indent + k OBVIOUS
    <3> HIDE DEF f
    <3> QED BY <3>1, <3>2
  <2>3. \A m \in F : \E k \in E : f[k] = m BY <1>7
  <2> HIDE DEF f
  <2> QED BY <2>1, <2>2, <2>3 DEF Bijection, Injection, Surjection, IsInjective
<1>9. IsFiniteSet(E) BY EndedAre DEF E
<1>10. Cardinality(F) = Cardinality(E)
  <2> HIDE DEF f
  <2>1. ExistsBijection(E, F) BY <1>8 DEF ExistsBijection
  <2> QED BY <1>9, <2>1, FS_Bijection
<1>11. b \in LineEnds(out) => indent + b \in LineEnds(text) BY <1>1, <1>4, <1>4a, <1>5
<1> QED BY <1>10, <1>11 DEF text, E, F

IsRowBegin(text, row, i) ==
  \/ row = 1 /\ i = 0
  \/ i \in LineEnds(text) /\ Cardinality({k \in LineEnds(text) : k <= i}) = row - 1
IsPlace(text, out, indent, pos, offset) ==
  \/ \E i \in 0 .. Len(text) : IsRowBegin(text, pos[1], i) /\ i + pos[2] = indent + offset
  \/ indent > 0 /\ pos[1] = 2 /\ offset \in LineEnds(out)

LEMMA MarkIsPlaced ==
  ASSUME NEW C, NEW out \in Seq(C), NEW indent \in Nat, NEW offset \in Nat, offset <= Len(out)
  PROVE  IsPlace(Behind(indent, out), out, indent, MarkPos(out, offset, indent), offset)
<1> DEFINE ended == Ended(out, offset)
           row == Cardinality(ended) + 1
           begin == Max({0} \union ended)
           text == Behind(indent, out)
           col == offset - begin + (IF row = 1 \/ (row = 2 /\ offset = begin) THEN indent ELSE 0)
<1>1. MarkPos(out, offset, indent) = <<row, col>> BY DEF MarkPos, Ended
<1>2. /\ LineEnds(out) \in SUBSET (1 .. Len(out)) /\ Len(out) \in Nat
      /\ Cardinality(ended) \in Nat /\ (ended = {} <=> Cardinality(ended) = 0)
  BY EndedAre
<1>3. \A k \in ended : k \in 1 .. Len(out) /\ k <= offset /\ k \in LineEnds(out) BY <1>2 DEF Ended
<1>4. Len(text) = indent + Len(out) BY BehindIs
<1> HIDE DEF ended, text
<1>5. begin \in {0} \union ended /\ \A k \in ended : k <= begin
  <2> DEFINE X == {0} \union ended
             n == Len(out) + 1
             Y == {n - k : k \in X}
  <2>1. X \in SUBSET (0 .. Len(out)) BY <1>2, <1>3
  <2> HIDE DEF X
  <2>2. \A k \in X : n - k \in Nat BY <1>2, <2>1
  <2>3. Y \in SUBSET Nat /\ Y # {} BY <2>2 DEF X
  <2>4. PICK y \in Y : \A z \in Y : y <= z
    <3> HIDE DEF Y
    <3> QED BY <2>3, LeastNatural
  <2>5. PICK x \in X : y = n - x OBVIOUS
  <2>6. \A z \in X : x >= z
    <3> SUFFICES ASSUME NEW z \in X PROVE x >= z OBVIOUS
    <3>1. n - z \in Y OBVIOUS
    <3>2. n - x <= n - z BY <2>4, <2>5, <3>1
    <3> QED BY <1>2, <2>1, <3>2
  <2>7. Max(X) \in X /\ \A z \in X : Max(X) >= z BY <2>6 DEF Max
  <2>8. begin = Max(X) BY DEF X
  <2> HIDE DEF begin
  <2>9. \A k \in ended : k \in X /\ k \in Int BY <1>3 DEF X
  <2>11. \A z \in X : z \in Int BY <1>2, <2>1
  <2>10. Max(X) \in Int BY <2>7, <2>11, Zenon
  <2> QED BY <2>7, <2>8, <2>9, <2>10 DEF X
<1> HIDE DEF begin, row
<1>6. row \in Nat /\ (ended = {} <=> row = 1) BY <1>2 DEF row
<1>7. begin \in Nat /\ begin <= offset BY <1>3, <1>5
<1>8. CASE row = 1
  <2>1. begin = 0 BY <1>5, <1>6, <1>8
  <2>2. col = offset + indent BY <1>8, <2>1
  <2>3. IsRowBegin(text, row, 0) BY <1>8 DEF IsRowBegin
  <2>4. 0 \in 0 .. Len(text) /\ 0 + col = indent + offset BY <1>2, <1>4, <2>2
  <2> HIDE DEF col
  <2>5. IsPlace(text, out, indent, <<row, col>>, offset) BY <2>3, <2>4 DEF IsPlace
  <2> QED BY <1>1, <2>5 DEF text
<1>9. CASE row # 1
  <2>1. begin \in ended
    <3>1. PICK k \in ended : TRUE BY <1>6, <1>9
    <3>2. k >= 1 /\ k <= begin BY <1>2, <1>3, <1>5
    <3> QED BY <1>3, <1>5, <3>2
  <2>2. begin \in LineEnds(out) /\ begin \in 1 .. Len(out) BY <1>3, <2>1
  <2>3. CASE indent > 0 /\ row = 2 /\ offset = begin
    <3> HIDE DEF col
    <3>1. IsPlace(text, out, indent, <<row, col>>, offset) BY <2>2, <2>3 DEF IsPlace
    <3> QED BY <1>1, <3>1 DEF text
  <2>4. CASE ~(indent > 0 /\ row = 2 /\ offset = begin)
    <3>1. col = offset - begin BY <1>7, <1>9, <2>4
    <3> DEFINE i == indent + begin
    <3>2. i \in 0 .. Len(text) /\ i + col = indent + offset BY <1>2, <1>4, <1>7, <2>2, <3>1
    <3>3. ended = Ended(out, begin)
      <4>1. \A k \in LineEnds(out) : k <= offset <=> k <= begin
        <5> SUFFICES ASSUME NEW k \in LineEnds(out) PROVE k <= offset <=> k <= begin OBVIOUS
        <5>1. k \in Int BY <1>2
        <5>2. k <= offset => k \in ended BY DEF ended, Ended
        <5> QED BY <1>5, <1>7, <5>1, <5>2
      <4> QED BY <4>1 DEF ended, Ended
    <3>4. /\ Cardinality(Ended(text, indent + begin)) = Cardinality(Ended(out, begin))
          /\ indent + begin \in LineEnds(text)
      BY <1>7, <2>2, AsManyHaveEnded DEF text
    <3>5. Cardinality(Ended(text, i)) = row - 1 BY <1>2, <3>3, <3>4 DEF row
    <3> HIDE DEF i, col
    <3>6. i \in LineEnds(text) BY <3>4 DEF i
    <3>7. IsRowBegin(text, row, i) BY <3>5, <3>6 DEF IsRowBegin, Ended
    <3>8. IsPlace(text, out, indent, <<row, col>>, offset) BY <3>2, <3>7 DEF IsPlace
    <3> QED BY <1>1, <3>8 DEF text
  <2> QED BY <2>3, <2>4
<1> QED BY <1>8, <1>9

LEMMA RegionsAreKept ==
  ASSUME NEW regs, AreRegions(regs), NEW kept, kept = Consolidated(regs)
  PROVE  /\ \A i, j \in DOMAIN kept : i # j => ~Nested(kept[i], kept[j])
         /\ \A k \in DOMAIN kept : \E i \in DOMAIN regs : kept[k] = regs[i]
         /\ \A i \in DOMAIN regs :
              \/ \E k \in DOMAIN kept : kept[k] = regs[i]
              \/ \E j \in DOMAIN regs \ {i} : Nested(regs[i], regs[j]) /\ Size(regs[j]) <= Size(regs[i])
<1> DEFINE seq == ByLength(regs)
           D == DOMAIN regs
           f(m) == RegionAt(regs, m)
<1>1. /\ seq \in Seq(RegionsIn) /\ DOMAIN seq = D
      /\ \A m \in D : f(m) \in D /\ seq[m] = regs[f(m)]
      /\ \A k \in D : \E m \in D : f(m) = k
      /\ \A l, m \in D : l # m => f(l) # f(m)
      /\ \A l, m \in D : l < m => Size(seq[l]) <= Size(seq[m])
  BY ByLengthSorts
<1>2. kept = Keeping(seq)[DOMAIN seq] BY ConsolidatedIsKeeping
<1> HIDE DEF seq
<1>3. KeptOK(seq, Len(seq), kept) BY <1>1, <1>2, AllAreKept
<1>4. D = 1 .. Len(seq) /\ Len(seq) \in Nat BY <1>1
<1>5. \A i, j \in DOMAIN kept : i # j => ~Nested(kept[i], kept[j]) BY <1>3 DEF KeptOK
<1>6. \A k \in DOMAIN kept : \E i \in D : kept[k] = regs[i]
  <2> SUFFICES ASSUME NEW k \in DOMAIN kept PROVE \E i \in D : kept[k] = regs[i] OBVIOUS
  <2>1. PICK m \in D : kept[k] = seq[m] BY <1>3, <1>4 DEF KeptOK
  <2> QED BY <1>1, <2>1
<1>7. ASSUME NEW i \in D
      PROVE  \/ \E k \in DOMAIN kept : kept[k] = regs[i]
             \/ \E j \in D \ {i} : Nested(regs[i], regs[j]) /\ Size(regs[j]) <= Size(regs[i])
  <2>1. PICK m \in D : f(m) = i BY <1>1
  <2>2. seq[m] = regs[i] BY <1>1, <2>1
  <2>3. (\E k \in DOMAIN kept : kept[k] = seq[m]) \/ (\E l \in 1 .. m - 1 : Nested(seq[m], seq[l])) BY <1>3, <1>4 DEF KeptOK
  <2>4. CASE \E l \in 1 .. m - 1 : Nested(seq[m], seq[l])
    <3>1. PICK l \in 1 .. m - 1 : Nested(seq[m], seq[l]) BY <2>4
    <3>2. l \in D /\ l < m BY <1>4, <3>1
    <3>3. f(l) \in D \ {i} /\ seq[l] = regs[f(l)] BY <1>1, <1>4, <2>1, <3>2
    <3>4. Size(seq[l]) <= Size(seq[m]) BY <1>1, <3>2
    <3> QED BY <2>2, <3>1, <3>3, <3>4
  <2> QED BY <2>2, <2>3, <2>4
<1> QED BY <1>5, <1>6, <1>7

LEMMA ParsedIsMarked == LxIInv => InnermostAreMarked
<1> SUFFICES ASSUME LxIInv, lxAt = "parsed" PROVE InnermostAreMarked BY DEF InnermostAreMarked
<1>1. IsParsed(lxParsed, Signs) /\ lxIndent \in Nat BY DEF LxIInv
<1> DEFINE regs == lxParsed.regs
           out == lxParsed.out
           kept == Consolidated(regs)
           text == Behind(lxIndent, out)
<1>2. /\ out \in Seq(Signs) /\ regs \in Seq(RegionsIn)
      /\ \A k \in DOMAIN regs : regs[k].begin <= Len(out) /\ regs[k].end <= Len(out)
  BY <1>1 DEF IsParsed
<1> HIDE DEF regs, out, kept, text
<1>3. \A k \in DOMAIN regs : regs[k] \in RegionsIn BY <1>2
<1>4. /\ \A i, j \in DOMAIN kept : i # j => ~Nested(kept[i], kept[j])
      /\ \A k \in DOMAIN kept : \E i \in DOMAIN regs : kept[k] = regs[i]
      /\ \A i \in DOMAIN regs :
           \/ \E k \in DOMAIN kept : kept[k] = regs[i]
           \/ \E j \in DOMAIN regs \ {i} : Nested(regs[i], regs[j]) /\ Size(regs[j]) <= Size(regs[i])
  BY <1>2, RegionsAreKept DEF kept, AreRegions
<1>5. ASSUME NEW i \in DOMAIN regs,
             \A j \in DOMAIN regs \ {i} : Nested(regs[i], regs[j]) => Size(regs[j]) > Size(regs[i])
      PROVE  \E k \in DOMAIN kept : kept[k] = regs[i]
  <2> SUFFICES ASSUME NEW j \in DOMAIN regs \ {i}, Nested(regs[i], regs[j]), Size(regs[j]) <= Size(regs[i]) PROVE FALSE
    BY <1>4
  <2>1. Size(regs[j]) > Size(regs[i]) BY <1>5
  <2>2. Size(regs[i]) \in Int /\ Size(regs[j]) \in Int BY <1>3, SizesAre
  <2> QED BY <2>1, <2>2
<1>6. ASSUME NEW k \in DOMAIN kept, NEW offset \in {kept[k].begin, kept[k].end}
      PROVE  IsPlace(text, out, lxIndent, MarkPos(out, offset, lxIndent), offset)
  <2>1. PICK i \in DOMAIN regs : kept[k] = regs[i] BY <1>4
  <2>2. offset \in Nat /\ offset <= Len(out) BY <1>2, <1>3, <2>1 DEF RegionsIn
  <2> QED BY <1>1, <1>2, <2>2, MarkIsPlaced DEF text
<1>7. \A k \in DOMAIN kept : \A offset \in {kept[k].begin, kept[k].end} :
        IsPlace(text, out, lxIndent, MarkPos(out, offset, lxIndent), offset)
  BY <1>6
<1>8. \A i \in DOMAIN regs : (\A j \in DOMAIN regs \ {i} : Nested(regs[i], regs[j]) => Size(regs[j]) > Size(regs[i]))
        => \E k \in DOMAIN kept : kept[k] = regs[i]
  BY <1>5
<1> QED BY <1>4, <1>7, <1>8, Zenon DEF InnermostAreMarked, IsPlace, IsRowBegin, regs, out, kept, text, Behind

\* Of every sentence, and whatever is before it on its line: no mark contains another, a tabstop that
\* contains none that is as short keeps its mark, and each mark is where the text of its region is, but
\* for one at the beginning of the second row (lexer.py:105, parse.py:42).
THEOREM InnermostAreMarkedCorrect == LxSpec => []InnermostAreMarked
<1>1. LxIInv => InnermostAreMarked BY ParsedIsMarked
<1> QED BY <1>1, LxStart, LxStep, PTL DEF LxSpec

-----------------------------------------------------------------------------
(* Edits: the types of what is planned.                                     *)

\* lines, whatever they are
IsSome(text) == text \in Seq(ToSet(text)) /\ text # <<>>

LEMMA SetTextIsSome ==
  ASSUME NEW text, IsSome(text), NEW begin, NEW end, NEW new, IsSome(new)
  PROVE  IsSome(SetText(text, begin, end, new))
<1> DEFINE ok == /\ begin[1] \in DOMAIN text /\ end[1] \in DOMAIN text /\ ~Before(end, begin)
                 /\ begin[2] \in 0 .. Bytes(text[begin[1]]) /\ end[2] \in 0 .. Bytes(text[end[1]])
           head == Upto(text[begin[1]], begin[2])
           tail == From(text[end[1]], end[2])
           mid == Joined(head, new, tail)
           pre == SubSeq(text, 1, begin[1] - 1)
           post == SubSeq(text, end[1] + 1, Len(text))
<1>1. CASE ~ok
  <2>1. SetText(text, begin, end, new) = text BY <1>1 DEF SetText
  <2> QED BY <2>1
<1>2. CASE ok
  <2>1. SetText(text, begin, end, new) = pre \o mid \o post BY <1>2 DEF SetText
  <2>2. text \in Seq(ToSet(text)) /\ new \in Seq(ToSet(new)) /\ new # <<>> BY DEF IsSome
  <2>3. begin[1] \in 1 .. Len(text) /\ end[1] \in 1 .. Len(text) /\ Len(text) \in Nat BY <1>2, <2>2
  <2>4. pre \in Seq(ToSet(text)) /\ post \in Seq(ToSet(text)) BY <2>2, <2>3
  <2>5. PICK L : mid \in Seq(L) /\ mid # <<>>
    <3> HIDE DEF head, tail
    <3>1. CASE Len(new) = 1
      <4>1. PICK one : one = head \o new[1] \o tail OBVIOUS
      <4>2. mid = <<one>> BY <3>1, <4>1 DEF Joined
      <4>3. <<one>> \in Seq({one}) /\ <<one>> # <<>> OBVIOUS
      <4> QED BY <4>2, <4>3
    <3>2. CASE Len(new) # 1
      <4>1. PICK first, last : first = head \o Head(new) /\ last = Last(new) \o tail OBVIOUS
      <4>2. PICK between : between = SubSeq(new, 2, Len(new) - 1) OBVIOUS
      <4>3. mid = <<first>> \o between \o <<last>> BY <3>2, <4>1, <4>2 DEF Joined
      <4>4. PICK X : X = ToSet(new) \union {first, last} OBVIOUS
      <4>5. new \in Seq(X) /\ first \in X /\ last \in X BY <2>2, <4>4
      <4>6. between \in Seq(X) BY <4>2, <4>5
      <4>7. <<first>> \o between \o <<last>> \in Seq(X) /\ <<first>> \o between \o <<last>> # <<>> BY <4>5, <4>6
      <4> QED BY <4>3, <4>7
    <3> QED BY <3>1, <3>2
  <2>6. PICK X : X = ToSet(text) \union L OBVIOUS
  <2> HIDE DEF mid, pre, post
  <2>7. pre \in Seq(X) /\ mid \in Seq(X) /\ post \in Seq(X) BY <2>4, <2>5, <2>6
  <2>8. pre \o mid \o post \in Seq(X) /\ pre \o mid \o post # <<>> BY <2>5, <2>7
  <2> QED BY <2>1, <2>8, SeqOfItsOwn DEF IsSome
<1> QED BY <1>1, <1>2

\* an instruction puts a text somewhere, which adds lines or takes some out
IsReplacing(a) == DOMAIN a = {"primary", "begin", "end", "yoffset", "xpos", "new"} /\ a.yoffset \in Int /\ IsText(a.new)

LEMMA RangesReplace ==
  ASSUME NEW view, NEW edit, IsRange(edit), IsText(edit.new), IsText(edit.stop), NEW primary
  PROVE  IsReplacing(RangeInst(view, edit, primary))
<1> DEFINE inst == RangeInst(view, edit, primary)
           turned == Before(edit.end, edit.begin)
           lo == IF turned THEN edit.end ELSE edit.begin
           hi == IF turned THEN edit.begin ELSE edit.end
<1>1. DOMAIN inst = {"primary", "begin", "end", "yoffset", "xpos", "new"} /\ inst.new = edit.new BY DEF RangeInst
<1>2. inst.yoffset = hi[1] - lo[1] + Len(edit.stop) - 1 BY DEF RangeInst
<1>3. lo[1] \in Nat /\ hi[1] \in Nat BY DEF IsRange
<1>4. Len(edit.stop) \in Nat BY TextIs
<1> HIDE DEF inst, lo, hi
<1>5. inst.yoffset \in Int BY <1>2, <1>3, <1>4
<1> QED BY <1>1, <1>5 DEF IsReplacing, inst

LEMMA ContextsReplace ==
  ASSUME NEW view, NEW edit, IsContext(edit), IsText(edit.new), IsText(edit.stop)
  PROVE  IsReplacing(ContextInst(view, edit))
<1> DEFINE inst == ContextInst(view, edit)
<1>1. DOMAIN inst = {"primary", "begin", "end", "yoffset", "xpos", "new"} /\ inst.new = edit.new
      /\ inst.yoffset = Len(edit.stop) - Len(edit.prefix) BY DEF ContextInst
<1>2. Len(edit.stop) \in Nat /\ Len(edit.prefix) \in Nat BY TextIs DEF IsContext
<1> HIDE DEF inst
<1>3. inst.yoffset \in Int BY <1>1, <1>2
<1> QED BY <1>1, <1>3 DEF IsReplacing, inst

LEMMA InstructionsReplace ==
  ASSUME NEW item \in EpItems, NEW view, NEW inst \in ToSet(Instructions(view, item))
  PROVE  IsReplacing(inst)
<1> DEFINE edit == Primary(item)
           first == IF edit.kind = "range" THEN RangeInst(view, edit, TRUE) ELSE ContextInst(view, edit)
           others == [i \in DOMAIN item.secondary |-> RangeInst(view, item.secondary[i], FALSE)]
<1>1. Instructions(view, item) = <<first>> \o others BY DEF Instructions
<1>2. /\ (edit.kind = "context" /\ IsContext(edit)) \/ (edit.kind = "range" /\ IsRange(edit))
      /\ Len(item.secondary) \in Nat /\ DOMAIN item.secondary = 1 .. Len(item.secondary)
      /\ \A i \in DOMAIN item.secondary : IsRange(item.secondary[i])
  BY ItemIs, PrimaryIs
<1>3. /\ IsText(edit.new) /\ IsText(edit.stop)
      /\ \A i \in DOMAIN item.secondary : IsText(item.secondary[i].new) /\ IsText(item.secondary[i].stop)
  BY EpAssumption, PrimaryIs DEF IsEdit
<1> HIDE DEF edit
<1>4. IsReplacing(first) BY <1>2, <1>3, RangesReplace, ContextsReplace
<1>5. \A i \in DOMAIN item.secondary : IsReplacing(RangeInst(view, item.secondary[i], FALSE)) BY <1>2, <1>3, RangesReplace
<1> DEFINE X == {first} \union {others[i] : i \in DOMAIN item.secondary}
<1>6. \A a \in X : IsReplacing(a) BY <1>4, <1>5
<1>7. others \in Seq(X)
  <2> HIDE DEF first
  <2>1. DOMAIN others = 1 .. Len(item.secondary) /\ \A i \in DOMAIN others : others[i] \in X BY <1>2
  <2>2. others = [i \in 1 .. Len(item.secondary) |-> others[i]] BY <1>2
  <2> HIDE DEF others, X
  <2> QED BY <1>2, <2>1, <2>2
<1> HIDE DEF first, others
<1>8. first \in X OBVIOUS
<1> HIDE DEF X
<1>9. <<first>> \o others \in Seq(X) BY <1>7, <1>8
<1>10. inst \in X BY <1>1, <1>9, SeqOfItsOwn
<1> QED BY <1>6, <1>10

\* instructions on their way: those there are, somewhere else
Elsewhere(inst, p, q) == [inst EXCEPT !.begin = p, !.end = q]
ElsewhereOf(I) == {Elsewhere(i, p, q) : i \in I, p \in Positions, q \in Positions}
ShiftAccs(I) == [row : Int, col : UNION {[D -> Int] : D \in SUBSET Int}, out : Seq(ElsewhereOf(I))]

LEMMA ShiftIsAcc ==
  ASSUME NEW I, NEW acc \in ShiftAccs(I), NEW inst \in I, IsInst(inst), IsReplacing(inst)
  PROVE  ShiftOf(acc, inst) \in ShiftAccs(I)
<1> DEFINE ColOf(row) == IF row \in DOMAIN acc.col THEN acc.col[row] ELSE 0
           b == inst.begin
           e == inst.end
           added == IF inst.new = <<>> THEN 0 ELSE Bytes(Last(inst.new))
           shift == (IF b[1] = e[1] THEN b[2] - e[2] ELSE -e[2]) + added
           col == [row \in DOMAIN acc.col \union {e[1]} |-> IF row = e[1] THEN shift ELSE acc.col[row]]
           moved == [inst EXCEPT !.begin = <<b[1] + acc.row, b[2] + ColOf(b[1])>>, !.end = <<e[1] + acc.row, e[2] + ColOf(e[1])>>]
<1>1. acc.row \in Int /\ acc.out \in Seq(ElsewhereOf(I)) /\ \E D \in SUBSET Int : acc.col \in [D -> Int] BY DEF ShiftAccs
<1>2. PICK D \in SUBSET Int : acc.col \in [D -> Int] BY <1>1
<1>3. b[1] \in Int /\ b[2] \in Int /\ e[1] \in Int /\ e[2] \in Int BY DEF IsInst, Positions
<1>4. inst.yoffset \in Int BY DEF IsReplacing
<1>5. added \in Int
  <2>1. IsText(inst.new) BY DEF IsReplacing
  <2>2. Len(inst.new) \in Nat \ {0} /\ DOMAIN inst.new = 1 .. Len(inst.new) /\ \A i \in DOMAIN inst.new : IsLine(inst.new[i]) BY <2>1, TextIs
  <2>3. IsLine(inst.new[Len(inst.new)]) BY <2>2
  <2>4. Bytes(Last(inst.new)) \in Nat BY <2>3, LinesHaveBytes DEF Last
  <2> QED BY <2>4
<1>6. ShiftOf(acc, inst) = [row |-> acc.row + inst.yoffset, col |-> col, out |-> Append(acc.out, moved)] BY DEF ShiftOf
<1>7. ASSUME NEW row PROVE ColOf(row) \in Int
  <2>1. CASE row \in DOMAIN acc.col BY <1>2, <2>1
  <2>2. CASE row \notin DOMAIN acc.col BY <2>2
  <2> QED BY <2>1, <2>2
<1> HIDE DEF b, e, added, ColOf
<1>8. shift \in Int BY <1>3, <1>5
<1> HIDE DEF shift
<1>9. col \in [D \union {e[1]} -> Int] /\ D \union {e[1]} \in SUBSET Int BY <1>2, <1>3, <1>8
<1>10. col \in UNION {[d -> Int] : d \in SUBSET Int}
  <2> HIDE DEF col
  <2> QED BY <1>9
<1>11. moved \in ElsewhereOf(I)
  <2>1. PICK p, q : p = <<b[1] + acc.row, b[2] + ColOf(b[1])>> /\ q = <<e[1] + acc.row, e[2] + ColOf(e[1])>> OBVIOUS
  <2>2. p \in Positions /\ q \in Positions
    <3>1. PICK k, l : k = ColOf(b[1]) /\ l = ColOf(e[1]) OBVIOUS
    <3>2. k \in Int /\ l \in Int BY <1>7, <3>1
    <3>3. PICK row : row = acc.row /\ row \in Int BY <1>1
    <3>4. b[1] + row \in Int /\ b[2] + k \in Int /\ e[1] + row \in Int /\ e[2] + l \in Int BY <1>3, <3>2, <3>3
    <3>5. p = <<b[1] + row, b[2] + k>> /\ q = <<e[1] + row, e[2] + l>> BY <2>1, <3>1, <3>3
    <3> QED BY <3>4, <3>5 DEF Positions
  <2>3. moved = Elsewhere(inst, p, q) BY <2>1 DEF Elsewhere
  <2> QED BY <2>2, <2>3 DEF ElsewhereOf
<1> HIDE DEF col, moved
<1>12. Append(acc.out, moved) \in Seq(ElsewhereOf(I)) BY <1>1, <1>11
<1>13. acc.row + inst.yoffset \in Int BY <1>1, <1>4
<1> QED BY <1>6, <1>10, <1>12, <1>13 DEF ShiftAccs

\* the steps of _shift are those of the instructions one after the other, however many
LEMMA ShiftStepsAre ==
  ASSUME NEW I, \A a \in I : IsInst(a) /\ IsReplacing(a), NEW seq \in Seq(I)
  PROVE  /\ Shifted(seq)[{}] = NoneShifted
         /\ \A n \in 1 .. Len(seq) : Shifted(seq)[1 .. n] = ShiftOf(Shifted(seq)[1 .. n - 1], seq[n])
<1> DEFINE S == DOMAIN seq
           A == ShiftAccs(I)
           step == [q \in A \X S |-> ShiftOf(q[1], seq[q[2]])]
           pick == [s \in SUBSET S |-> Max(s)]
<1>1. S = 1 .. Len(seq) /\ Len(seq) \in Nat OBVIOUS
<1>2. IsFiniteSet(S) BY <1>1, UptoIsFinite
<1>3. NoneShifted \in A
  <2>1. <<>> \in [{} -> Int] /\ {} \in SUBSET Int OBVIOUS
  <2>2. <<>> \in UNION {[D -> Int] : D \in SUBSET Int} BY <2>1
  <2>3. <<>> \in Seq(ElsewhereOf(I)) OBVIOUS
  <2> QED BY <2>2, <2>3 DEF NoneShifted, ShiftAccs
<1>4. step \in [A \X S -> A]
  <2>1. \A q \in A \X S : q[1] \in A /\ seq[q[2]] \in I BY <1>1, ElementOfSeq
  <2>2. \A q \in A \X S : ShiftOf(q[1], seq[q[2]]) \in A BY <2>1, ShiftIsAcc
  <2> QED BY <2>2
<1>5. \A s \in SUBSET S : s # {} => pick[s] \in s /\ pick[s] = Max(s) BY <1>1, GreatestIs
<1>6. \A a \in A, x \in S : step[<<a, x>>] = ShiftOf(a, seq[x]) OBVIOUS
<1> HIDE DEF step, pick
<1>6a. \A s \in SUBSET S : s # {} => pick[s] \in s BY <1>5
<1>7. PICK F \in [SUBSET S -> A] : \A s \in SUBSET S : F[s] = FoldStep(F, NoneShifted, step, pick, s)
  <2>1. IsFold(S, A, NoneShifted, step, pick) BY <1>2, <1>3, <1>4, <1>6a DEF IsFold
  <2>2. HasFold(S, A, NoneShifted, step, pick) BY <2>1, FoldsExist, Zenon
  <2> HIDE DEF A, S
  <2> QED BY <2>2, Zenon DEF HasFold
<1>8. ASSUME NEW s \in SUBSET S PROVE F[s] = ShiftStep(F, seq, s)
  <2>1. CASE s = {} BY <1>7, <2>1 DEF FoldStep, ShiftStep
  <2>2. CASE s # {}
    <3>1. Max(s) \in S /\ s \ {Max(s)} \in SUBSET S /\ pick[s] = Max(s) BY <1>5, <2>2
    <3>2. F[s \ {Max(s)}] \in A BY <3>1
    <3>3. step[<<F[s \ {Max(s)}], Max(s)>>] = ShiftOf(F[s \ {Max(s)}], seq[Max(s)]) BY <1>6, <3>1, <3>2
    <3>4. F[s] = step[<<F[s \ {Max(s)}], Max(s)>>] BY <1>7, <2>2, <3>1, Zenon DEF FoldStep
    <3> QED BY <2>2, <3>3, <3>4, Zenon DEF ShiftStep
  <2> QED BY <2>1, <2>2
<1>9. F = [s \in SUBSET S |-> ShiftStep(F, seq, s)]
  <2>1. F = [s \in SUBSET S |-> F[s]] OBVIOUS
  <2>2. [s \in SUBSET S |-> F[s]] = [s \in SUBSET S |-> ShiftStep(F, seq, s)] BY <1>8
  <2> QED BY <2>1, <2>2
<1> DEFINE T == Shifted(seq)
<1>10. T = [s \in SUBSET S |-> ShiftStep(T, seq, s)] BY <1>9, Zenon DEF Shifted
<1> HIDE DEF T
<1>11. \A s \in SUBSET S : T[s] = ShiftStep(T, seq, s) BY <1>10
<1>12. T[{}] = NoneShifted BY <1>11 DEF ShiftStep
<1>13. ASSUME NEW n \in 1 .. Len(seq) PROVE T[1 .. n] = ShiftOf(T[1 .. n - 1], seq[n])
  <2> DEFINE s == 1 .. n
  <2>1. s \in SUBSET S /\ s # {} /\ n \in Nat
    <3>1. 1 .. n \in SUBSET (1 .. Len(seq)) /\ n \in 1 .. n /\ n \in Nat BY <1>1
    <3> QED BY <1>1, <3>1, Zenon
  <2>2. Max(s) \in s /\ \A x \in s : Max(s) >= x BY <2>1, GreatestIs
  <2>3. Max(s) = n BY <2>1, <2>2
  <2>4. s \ {n} = 1 .. n - 1 BY <2>1
  <2>5. T[s] = ShiftOf(T[s \ {Max(s)}], seq[Max(s)]) BY <1>11, <2>1, Zenon DEF ShiftStep
  <2> QED BY <2>3, <2>4, <2>5
<1> QED BY <1>12, <1>13 DEF T

\* each one is shifted, and puts there what it did
LEMMA ShiftKeepsAll ==
  ASSUME NEW I, \A a \in I : IsInst(a) /\ IsReplacing(a), NEW seq \in Seq(I)
  PROVE  Shift(seq) \in Seq(ElsewhereOf(I)) /\ Len(Shift(seq)) = Len(seq)
<1>1. /\ Shifted(seq)[{}] = NoneShifted
      /\ \A n \in 1 .. Len(seq) : Shifted(seq)[1 .. n] = ShiftOf(Shifted(seq)[1 .. n - 1], seq[n])
  BY ShiftStepsAre
<1>2. Len(seq) \in Nat /\ DOMAIN seq = 1 .. Len(seq) OBVIOUS
<1> DEFINE T(n) == Shifted(seq)[1 .. n]
           G == {n \in Nat : n <= Len(seq) => T(n) \in ShiftAccs(I) /\ Len(T(n).out) = n}
<1>3. 0 \in G
  <2>1. 1 .. 0 = {} OBVIOUS
  <2>2. T(0) = NoneShifted BY <1>1, <2>1
  <2>3. NoneShifted \in ShiftAccs(I) /\ Len(NoneShifted.out) = 0
    <3>1. <<>> \in [{} -> Int] /\ {} \in SUBSET Int OBVIOUS
    <3>2. <<>> \in UNION {[D -> Int] : D \in SUBSET Int} BY <3>1
    <3>3. <<>> \in Seq(ElsewhereOf(I)) /\ Len(<<>>) = 0 OBVIOUS
    <3> QED BY <3>2, <3>3 DEF NoneShifted, ShiftAccs
  <2> QED BY <2>2, <2>3
<1>4. ASSUME NEW n \in G PROVE n + 1 \in G
  <2>1. n \in Nat /\ (n <= Len(seq) => T(n) \in ShiftAccs(I) /\ Len(T(n).out) = n) OBVIOUS
  <2>2. ASSUME n + 1 <= Len(seq) PROVE T(n + 1) \in ShiftAccs(I) /\ Len(T(n + 1).out) = n + 1
    <3>1. T(n) \in ShiftAccs(I) /\ Len(T(n).out) = n /\ n + 1 \in 1 .. Len(seq) /\ n + 1 - 1 = n BY <1>2, <2>1, <2>2
    <3>2. T(n + 1) = ShiftOf(T(n), seq[n + 1])
      <4>1. T(n + 1) = ShiftOf(T(n + 1 - 1), seq[n + 1]) BY <1>1, <3>1
      <4> QED BY <3>1, <4>1
    <3>3. PICK acc \in ShiftAccs(I), inst \in I : acc = T(n) /\ inst = seq[n + 1] BY <1>2, <3>1
    <3>4. ShiftOf(acc, inst) \in ShiftAccs(I) BY ShiftIsAcc
    <3>5. \E moved : ShiftOf(acc, inst).out = Append(acc.out, moved) BY DEF ShiftOf
    <3>6. \E X : acc.out \in Seq(X) BY DEF ShiftAccs
    <3>7. Len(ShiftOf(acc, inst).out) = Len(acc.out) + 1 BY <3>5, <3>6
    <3> HIDE DEF T
    <3> QED BY <3>1, <3>2, <3>3, <3>4, <3>7
  <2> HIDE DEF T
  <2> QED BY <2>1, <2>2
<1>5. G = Nat
  <2>1. G \in SUBSET Nat OBVIOUS
  <2> HIDE DEF G
  <2> QED BY <1>3, <1>4, <2>1, SetInduction
<1>6. T(Len(seq)) \in ShiftAccs(I) /\ Len(T(Len(seq)).out) = Len(seq)
  <2>1. Len(seq) \in G BY <1>2, <1>5
  <2> HIDE DEF T
  <2> QED BY <1>2, <2>1
<1>7. Shift(seq) = T(Len(seq)).out BY <1>2, ShiftIsShifted
<1> HIDE DEF T
<1> QED BY <1>6, <1>7 DEF ShiftAccs

-----------------------------------------------------------------------------
EpTyping ==
  /\ IsSome(epText)
  /\ Len(epPlan) \in Nat /\ Len(epTodo) <= Len(epPlan)
  /\ epTodo \in Seq(ToSet(epTodo)) /\ \A inst \in ToSet(epTodo) : IsSome(inst.new)

LEMMA EpTypingStep == EpIInv /\ EpTyping /\ [EpNext]_epVars => EpTyping'
<1> SUFFICES ASSUME EpIInv, EpTyping, [EpNext]_epVars PROVE EpTyping' OBVIOUS
<1>e. IsSome(<<<<>>>>)
  <2>1. <<<<>>>> \in Seq({<<>>}) /\ <<<<>>>> # <<>> OBVIOUS
  <2> QED BY <2>1, SeqOfItsOwn DEF IsSome
<1>1. CASE EpRestore
  <2>1. epText' = epText \/ epText' = SetText(epText, EpCursor, MarkAfter, <<<<>>>>) BY <1>1 DEF EpRestore
  <2>2. IsSome(epText') BY <1>e, <2>1, SetTextIsSome DEF EpTyping
  <2>3. epPlan' = epPlan /\ epTodo' = epTodo BY <1>1 DEF EpRestore
  <2> QED BY <2>2, <2>3 DEF EpTyping
<1>2. CASE EpParse
  <2>1. epText' = epText BY <1>2 DEF EpParse
  <2>2. CASE ~HasView(epItem, epText)
    <3>1. epPlan' = epPlan /\ epTodo' = epTodo BY <1>2, <2>2 DEF EpParse
    <3> QED BY <2>1, <3>1 DEF EpTyping
  <2>3. CASE HasView(epItem, epText)
    <3>1. epText = TextSeen /\ epItem \in EpItems /\ IsText(TextSeen) BY <1>2, TextSeenIsText DEF EpIInv, EpParse
    <3>2. PICK insts : insts = Instructions(View(epItem, epText), epItem) OBVIOUS
    <3>3. AreInsts(insts) /\ OneIsPrimary(insts) BY <2>3, <3>1, <3>2, InstructionsAreInsts
    <3>4. \A a \in ToSet(insts) : IsReplacing(a) BY <3>1, <3>2, InstructionsReplace
    <3>5. \A a \in ToSet(insts) : IsInst(a) BY <3>3 DEF AreInsts, ToSet
    <3>6. PICK plan : plan = Consolidate(insts) OBVIOUS
    <3>7. plan \in Seq(ToSet(insts)) BY <3>3, <3>6, ConsolidateIsDisjoint
    <3>8. PICK todo : todo = Shift(plan) OBVIOUS
    <3>9. epPlan' = plan /\ epTodo' = todo BY <1>2, <2>3, <3>2, <3>6, <3>8 DEF EpParse
    <3>10. todo \in Seq(ElsewhereOf(ToSet(insts))) /\ Len(todo) = Len(plan) BY <3>4, <3>5, <3>7, <3>8, ShiftKeepsAll
    <3>11. ASSUME NEW b \in ElsewhereOf(ToSet(insts)) PROVE IsSome(b.new)
      <4>1. PICK a \in ToSet(insts) : \E p, q : b = Elsewhere(a, p, q) BY DEF ElsewhereOf
      <4>2. b.new = a.new BY <3>4, <4>1 DEF IsReplacing, Elsewhere
      <4>3. IsText(a.new) BY <3>4 DEF IsReplacing
      <4> QED BY <4>2, <4>3 DEF IsText, IsSome
    <3>12. todo \in Seq(ToSet(todo)) /\ ToSet(todo) \subseteq ElsewhereOf(ToSet(insts)) BY <3>10, SeqOfItsOwn
    <3>13. Len(plan) \in Nat BY <3>7
    <3> QED BY <2>1, <3>9, <3>10, <3>11, <3>12, <3>13 DEF EpTyping
  <2> QED BY <2>2, <2>3
<1>3. CASE EpApply
  <2>1. PICK inst : inst = Head(epTodo) /\ epText' = SetText(epText, inst.begin, inst.end, inst.new) BY <1>3 DEF EpApply
  <2>2. epTodo # <<>> /\ epTodo' = Tail(epTodo) /\ epPlan' = epPlan BY <1>3 DEF EpApply
  <2>3. PICK X : X = ToSet(epTodo) OBVIOUS
  <2>4. epTodo \in Seq(X) /\ \A i \in X : IsSome(i.new) BY <2>3 DEF EpTyping
  <2>5. inst \in X /\ Tail(epTodo) \in Seq(X) /\ Len(Tail(epTodo)) = Len(epTodo) - 1 /\ Len(epTodo) \in Nat BY <2>1, <2>2, <2>4
  <2>6. IsSome(epText') BY <2>1, <2>4, <2>5, SetTextIsSome DEF EpTyping
  <2>7. epTodo' \in Seq(ToSet(epTodo')) /\ ToSet(epTodo') \subseteq X BY <2>2, <2>5, SeqOfItsOwn
  <2>8. Len(epTodo') <= Len(epPlan') /\ Len(epPlan') \in Nat BY <2>2, <2>5 DEF EpTyping
  <2> QED BY <2>4, <2>6, <2>7, <2>8 DEF EpTyping
<1>4. CASE EpPutBack
  <2>1. PICK cursor : epText' = epText \/ epText' = SetText(epText, cursor, cursor, <<epKept>>) BY <1>4 DEF EpPutBack
  <2>2. <<epKept>> \in Seq({epKept}) /\ <<epKept>> # <<>> OBVIOUS
  <2>3. IsSome(<<epKept>>) BY <2>2, SeqOfItsOwn DEF IsSome
  <2>4. IsSome(epText') BY <2>1, <2>3, SetTextIsSome DEF EpTyping
  <2>5. epPlan' = epPlan /\ epTodo' = epTodo BY <1>4 DEF EpPutBack
  <2> QED BY <2>4, <2>5 DEF EpTyping
<1>5. CASE UNCHANGED epVars BY <1>5 DEF epVars, EpTyping
<1> QED BY <1>1, <1>2, <1>3, <1>4, <1>5 DEF EpNext

LEMMA EpTypes == EpSpec => []EpTypeOK
<1>1. EpInit => EpTyping
  <2> SUFFICES ASSUME EpInit PROVE EpTyping OBVIOUS
  <2>1. IsText(epTyped) /\ IsText(EpText) BY EpAssumption DEF EpInit
  <2>2. IsSome(epTyped) /\ IsSome(EpText) BY <2>1 DEF IsText, IsSome
  <2>3. IsSome(epText) BY <2>2, SetTextIsSome DEF EpInit, TextTyped
  <2>4. epPlan = <<>> /\ epTodo = <<>> BY DEF EpInit
  <2>5. ToSet(epTodo) = {} BY <2>4 DEF ToSet
  <2> QED BY <2>3, <2>4, <2>5 DEF EpTyping
<1>2. EpIInv /\ EpTyping => EpTypeOK BY DEF EpIInv, EpTyping, IsSome, EpTypeOK
<1> QED BY <1>1, <1>2, EpStart, EpStep, EpTypingStep, PTL DEF EpSpec

-----------------------------------------------------------------------------
(* Snippets: the types of what has been read.                               *)

\* a scope is opened or closed at a time
LxStacks == \/ lxStack' \in {lxStack, Append(lxStack, "scope")}
            \/ lxStack # <<>> /\ lxStack' = Front(lxStack)

LEMMA StacksBy == /\ \A tokens, i : Yields(tokens, i) => LxStacks
                  /\ \A tokens, i : Opens(tokens, i) => LxStacks
                  /\ Fails => LxStacks
BY DEF Yields, Opens, Fails, LxStacks

LEMMA IntStacks == LxInt => LxStacks
<1> SUFFICES ASSUME LxInt PROVE LxStacks OBVIOUS
<1> DEFINE i == Past(3, Digits)
           begin == IntBegin(Between(3, i))
           behind == AfterInt(i)
           sign == IF Snu THEN "/" ELSE "|"
<1>1. /\ CASE At(i) = "eof" -> Yields(<<>>, i)
           [] At(i) = "}" -> Yields(begin \o End1, i + 1)
        [] At(i) = ":" -> Opens(begin, AfterColon(i))
        [] At(i) = sign -> IF behind.ok THEN Yields(begin \o behind.tokens, behind.end) ELSE Fails
        [] OTHER -> Fails
  BY Zenon DEF LxInt
<1>2. sign \in {"|", "/"} OBVIOUS
<1> HIDE DEF i, begin, behind, sign
<1>3. CASE At(i) = "eof" BY <1>1, <1>3, StacksBy
<1>4. CASE At(i) = "}" BY <1>1, <1>4, StacksBy
<1>5. CASE At(i) = ":" BY <1>1, <1>5, StacksBy
<1>6. CASE At(i) = sign BY <1>1, <1>2, <1>6, StacksBy
<1>7. CASE At(i) \notin {"eof", "}", ":", sign} BY <1>1, <1>7, StacksBy
<1> QED BY <1>3, <1>4, <1>5, <1>6, <1>7

LEMMA NameStacks == LxName => LxStacks
<1> SUFFICES ASSUME LxName PROVE LxStacks OBVIOUS
<1> DEFINE i == NameEnd(3)
           name == Between(3, i)
           default == IF Known(name) THEN Substituted(name) ELSE VarBegin
<1>1. /\ CASE At(i) = "eof" -> Yields(<<>>, i)
        [] At(i) = "}" -> Yields(Substituted(name), i + 1)
        [] At(i) = ":" -> Opens(default, i + 1)
        [] At(i) = "/" -> Decorated(name, i)
        [] OTHER -> Fails
  BY Zenon DEF LxName
<1> HIDE DEF i, name
<1>3. Decorated(name, i) => LxStacks
  <2> DEFINE slash == Upon(i + 1, {"/"})
             format == Format(slash + 1)
             last == Past(format.end + 1, Flags)
             matched == Matched(Between(i + 1, slash), ToSet(Between(format.end + 1, last)), format.group, ValueOf(name))
             tokens == Text(Formatted(format, matched))
  <2>1. Decorated(name, i) =>
          IF format.end # 0 /\ At(format.end) = "/" /\ At(last) \in {"}", "eof"} THEN Yields(tokens, last + 1) ELSE Fails
    BY Zenon DEF Decorated
  <2> HIDE DEF slash, format, last, tokens
  <2> QED BY <2>1, StacksBy
<1> HIDE DEF default
<1>4. CASE At(i) = "eof" BY <1>1, <1>4, StacksBy
<1>5. CASE At(i) = "}" BY <1>1, <1>5, StacksBy
<1>6. CASE At(i) = ":" BY <1>1, <1>6, StacksBy
<1>7. CASE At(i) = "/" BY <1>1, <1>3, <1>7
<1>8. CASE At(i) \notin {"eof", "}", ":", "/"} BY <1>1, <1>8, StacksBy
<1> QED BY <1>4, <1>5, <1>6, <1>7, <1>8

LEMMA NextStacks == LxNext => LxStacks
<1> SUFFICES ASSUME LxNext PROVE LxStacks OBVIOUS
<1>1. CASE LxText BY <1>1, StacksBy DEF LxText
<1>2. CASE LxEscape BY <1>2, StacksBy DEF LxEscape
<1>3. CASE LxClose BY <1>3 DEF LxClose, LxStacks
<1>4. CASE LxTabstop
  <2> DEFINE i == Past(2, Digits)
             tokens == IF Snu /\ At(i) = "eof" THEN <<>> ELSE IntBegin(Between(2, i)) \o End1
  <2>1. Yields(tokens, i) BY <1>4, Zenon DEF LxTabstop
  <2> HIDE DEF i, tokens
  <2> QED BY <2>1, StacksBy
<1>5. CASE LxNaked
  <2> DEFINE i == Past(2, Letters \union Digits)
             tokens == IF At(i) = "eof" THEN <<>> ELSE Substituted(Between(2, i))
  <2>1. Yields(tokens, i) BY <1>5, Zenon DEF LxNaked
  <2> HIDE DEF i, tokens
  <2> QED BY <2>1, StacksBy
<1>6. CASE LxDollar BY <1>6, StacksBy DEF LxDollar
<1>7. CASE LxBrace BY <1>7, StacksBy DEF LxBrace
<1>8. CASE LxParse BY <1>8, StacksBy DEF LxParse, LxStacks
<1> QED BY <1>1, <1>2, <1>3, <1>4, <1>5, <1>6, <1>7, <1>8, IntStacks, NameStacks DEF LxNext

LxTyping ==
  /\ lxGoal \in LxSentences /\ lxIndent \in LxIndents /\ lxAt \in {"lex", "parsed", "error"}
  /\ Len(lxRest) <= Len(lxGoal.src)
  /\ lxStack \in Seq({"scope"})

LEMMA LxTypingStep == LxIInv /\ LxTyping /\ [LxNext]_lxVars => LxTyping'
<1> SUFFICES ASSUME LxIInv, LxTyping, [LxNext]_lxVars PROVE LxTyping' OBVIOUS
<1>1. CASE UNCHANGED lxVars BY <1>1 DEF lxVars, LxTyping
<1>2. CASE LxParse
  <2>1. lxAt' \in {"parsed", "error"} /\ UNCHANGED <<lxGoal, lxIndent, lxRest, lxStack, lxTokens>> BY <1>2 DEF LxParse, Fails
  <2> QED BY <2>1 DEF LxTyping
<1>3. CASE Fails
  <2>1. lxAt' = "error" /\ UNCHANGED <<lxGoal, lxIndent, lxRest, lxStack, lxTokens>> BY <1>3 DEF Fails
  <2> QED BY <2>1 DEF LxTyping
<1>4. CASE LxNext /\ \E tokens, i : Sets(Signs, tokens, i)
  <2>1. PICK tokens, i : Sets(Signs, tokens, i) BY <1>4
  <2>2. /\ lxTokens' = lxTokens \o tokens /\ lxRest' = Between(i, Len(lxRest) + 1)
        /\ UNCHANGED <<lxGoal, lxIndent, lxAt>> /\ tokens \in Seq(TokensOf(Signs)) /\ i \in Nat \ {0}
    BY <2>1 DEF Sets, Yield
  <2>3. lxRest \in Seq(Signs) /\ lxTokens \in Seq(TokensOf(Signs)) BY DEF LxIInv
  <2>4. Len(lxRest') <= Len(lxRest)
    <3>1. lxRest' = SubSeq(lxRest, i, Len(lxRest)) BY <2>2, <2>3 DEF Between
    <3> QED BY <2>2, <2>3, <3>1
  <2>5. Len(lxRest') <= Len(lxGoal'.src)
    <3>1. Len(lxRest') \in Nat /\ Len(lxRest) \in Nat
      <4>1. lxRest' = SubSeq(lxRest, i, Len(lxRest)) BY <2>2, <2>3 DEF Between
      <4> QED BY <2>2, <2>3, <4>1
    <3>2. lxGoal.src \in Seq(ToSet(lxGoal.src)) BY LxAssumption DEF LxTyping
    <3>3. Len(lxGoal.src) \in Nat BY <3>2
    <3> QED BY <2>2, <2>4, <3>1, <3>3 DEF LxTyping
  <2>6. lxStack \in Seq({"scope"}) BY DEF LxTyping
  <2>7. LxStacks BY <1>4, NextStacks
  <2>8. lxStack' \in Seq({"scope"})
    <3>1. CASE lxStack' \in {lxStack, Append(lxStack, "scope")} BY <2>6, <3>1
    <3>2. CASE lxStack # <<>> /\ lxStack' = Front(lxStack)
      <4>1. lxStack' = SubSeq(lxStack, 1, Len(lxStack) - 1) BY <3>2 DEF Front
      <4> QED BY <2>6, <3>2, <4>1
    <3> QED BY <2>7, <3>1, <3>2 DEF LxStacks
  <2> QED BY <2>2, <2>5, <2>8 DEF LxTyping
<1>5. LxNext => LxParse \/ LxGoesOn BY NextGoesOn
<1> QED BY <1>1, <1>2, <1>3, <1>4, <1>5 DEF LxGoesOn

LEMMA LxTypes == LxSpec => []LxTypeOK
<1>1. LxInit => LxTyping
  <2> SUFFICES ASSUME LxInit PROVE LxTyping OBVIOUS
  <2>1. /\ lxGoal \in LxSentences /\ lxIndent \in LxIndents /\ lxAt = "lex" /\ lxRest = lxGoal.src
        /\ lxStack = <<>> /\ lxTokens = <<>> BY DEF LxInit
  <2>2. lxGoal.src \in Seq(ToSet(lxGoal.src)) BY <2>1, LxAssumption
  <2>3. Len(lxRest) <= Len(lxGoal.src) BY <2>1, <2>2
  <2> QED BY <2>1, <2>3 DEF LxTyping
<1>2. LxTyping => LxTypeOK BY DEF LxTyping, LxTypeOK
<1> QED BY <1>1, <1>2, LxStart, LxStep, LxTypingStep, PTL DEF LxSpec

-----------------------------------------------------------------------------
(* Ranking: its types.                                                      *)

RkTyping == /\ rkManual \in BOOLEAN /\ rkRanked \in BoundedSeq(RkItems, MaxRanked)
            /\ rkMenu \in Seq(DOMAIN rkRanked)

LEMMA RkTypingStep == RkInv /\ RkTyping /\ [RkNext]_rkVars => RkTyping'
<1> SUFFICES ASSUME RkInv, RkTyping, [RkNext]_rkVars PROVE RkTyping' OBVIOUS
<1>1. CASE UNCHANGED rkVars BY <1>1 DEF rkVars, RkTyping
<1>2. CASE RkTake
  <2>1. rkManual' = rkManual /\ rkRanked' = rkRanked /\ (rkMenu' = rkMenu \/ rkMenu' = Append(rkMenu, rkSeen.at + 1)) BY <1>2 DEF RkTake
  <2>2. rkSeen.at < Len(rkRanked) BY <1>2 DEF RkTake
  <2>3. RkShape BY DEF RkInv
  <2>4. rkSeen.at \in 0 .. Len(rkRanked) /\ DOMAIN rkRanked = 1 .. Len(rkRanked) /\ Len(rkRanked) \in Nat
    BY <2>3, RankedIsSeq DEF RkShape
  <2>5. rkSeen.at + 1 \in DOMAIN rkRanked BY <2>2, <2>4
  <2>6. rkMenu' \in Seq(DOMAIN rkRanked) BY <2>1, <2>5 DEF RkTyping
  <2> QED BY <2>1, <2>6 DEF RkTyping
<1> QED BY <1>1, <1>2 DEF RkNext

LEMMA RkTypes == RkSpec => []RkTypeOK
<1>1. RkInit => RkTyping BY DEF RkInit, RkTyping
<1>2. RkInv /\ RkTyping => RkTypeOK
  <2> SUFFICES ASSUME RkInv, RkTyping PROVE RkTypeOK OBVIOUS
  <2>1. RkShape BY DEF RkInv
  <2>2. rkSeen.texts \subseteq RkTexts
    <3> SUFFICES ASSUME NEW t \in rkSeen.texts PROVE t \in RkTexts OBVIOUS
    <3>1. rkSeen.texts = PlainTexts(rkSeen.at) BY <2>1 DEF RkShape
    <3>2. PICK j \in 1 .. rkSeen.at : rkRanked[j].text = t BY <3>1, WordsAre
    <3>3. rkSeen.at \in 0 .. Len(rkRanked) /\ Len(rkRanked) \in Nat BY <2>1, RankedIsSeq DEF RkShape
    <3>4. rkRanked[j] \in RkItems BY <2>1, <3>3, RankedIsSeq
    <3> QED BY <3>2, <3>4 DEF RkItems
  <2> QED BY <2>1, <2>2 DEF RkShape, RkTyping, RkTypeOK
<1> QED BY <1>1, <1>2, RkFirst, RkStep, RkTypingStep, PTL DEF RkSpec

-----------------------------------------------------------------------------
(* Fuzzy: its types.                                                        *)

FzTyping ==
  /\ fzCount \in [FzThreads -> 0 .. MaxFzCalls]
  /\ \A t \in FzThreads : fzCall[t].at \in {"idle", "table", "done", "raised"}

FzSets(t, c) ==
  /\ c.at \in {"idle", "table", "done", "raised"} /\ fzCall' = [fzCall EXCEPT ![t] = c]
  /\ fzCount' = fzCount \/ (fzCount[t] < MaxFzCalls /\ fzCount' = [fzCount EXCEPT ![t] = @ + 1])

LEMMA FzTyped ==
  ASSUME FzInv, FzTyping, NEW t \in FzThreads, NEW c, FzSets(t, c)
  PROVE  FzTyping'
<1>1. fzCount' \in [FzThreads -> 0 .. MaxFzCalls] BY FzAssumption DEF FzTyping, FzSets
<1>2. \A r \in FzThreads : fzCall'[r] = IF r = t THEN c ELSE fzCall[r] BY DEF FzInv, FzSets
<1>3. c.at \in {"idle", "table", "done", "raised"} BY DEF FzSets
<1> QED BY <1>1, <1>2, <1>3 DEF FzTyping

LEMMA FzTypingStep == FzInv /\ FzTyping /\ [FzNext]_fzVars => FzTyping'
<1> SUFFICES ASSUME FzInv, FzTyping, [FzNext]_fzVars PROVE FzTyping' OBVIOUS
<1>1. CASE UNCHANGED fzVars BY <1>1 DEF fzVars, FzTyping
<1>2. ASSUME NEW t \in FzThreads, NEW call \in FzCalls, FzBegin(t, call) PROVE FzTyping'
  <2> DEFINE new == [NoCall EXCEPT !.cword = call.cword, !.match = call.match]
             table == [new EXCEPT !.at = "table", !.i = 1, !.j = 1, !.d = Table(Lhs(new), Rhs(new))]
             done == [new EXCEPT !.at = "done"]
  <2>1. fzCount[t] < MaxFzCalls /\ fzCount' = [fzCount EXCEPT ![t] = @ + 1] BY <1>2 DEF FzBegin
  <2>2. fzCall' = [fzCall EXCEPT ![t] = done] \/ fzCall' = [fzCall EXCEPT ![t] = table] BY <1>2 DEF FzBegin
  <2>3. "at" \in DOMAIN new BY DEF NoCall
  <2> HIDE DEF new
  <2>4. table.at = "table" /\ done.at = "done" BY <2>3
  <2> HIDE DEF table, done
  <2>5. FzSets(t, done) \/ FzSets(t, table) BY <2>1, <2>2, <2>4 DEF FzSets
  <2> QED BY <2>5, FzTyped
<1>3. ASSUME NEW t \in FzThreads, FzCell(t) PROVE FzTyping'
  <2>1. PICK c : c = fzCall[t] OBVIOUS
  <2>2. c.at = "table" /\ "at" \in DOMAIN c BY <1>3, <2>1 DEF FzCell, InRows, FzInv, FzCallOK, FzFields
  <2>3. PICK least, j, db, cell :
          fzCall' = [fzCall EXCEPT ![t] = [c EXCEPT !.at = "raised"]]
          \/ fzCall' = [fzCall EXCEPT ![t] = [c EXCEPT !.d[cell] = least, !.j = @ + 1, !.db = db]]
    BY <1>3, <2>1 DEF FzCell
  <2>4. PICK raised, filled : raised = [c EXCEPT !.at = "raised"] /\ filled = [c EXCEPT !.d[cell] = least, !.j = @ + 1, !.db = db] OBVIOUS
  <2>5. raised.at = "raised" /\ filled.at = "table" BY <2>2, <2>4
  <2>6. fzCount' = fzCount BY <1>3 DEF FzCell
  <2>7. FzSets(t, raised) \/ FzSets(t, filled) BY <2>3, <2>4, <2>5, <2>6 DEF FzSets
  <2> QED BY <2>7, FzTyped
<1>4. ASSUME NEW t \in FzThreads, FzRow(t) PROVE FzTyping'
  <2>1. PICK c : c = fzCall[t] OBVIOUS
  <2>2. c.at = "table" /\ "at" \in DOMAIN c BY <1>4, <2>1 DEF FzRow, InRows, FzInv, FzCallOK, FzFields
  <2>3. PICK next : next = [c EXCEPT !.i = @ + 1, !.j = 1, !.db = 0] OBVIOUS
  <2>4. next.at = "table" BY <2>2, <2>3
  <2>5. fzCall' = [fzCall EXCEPT ![t] = next] /\ fzCount' = fzCount BY <1>4, <2>1, <2>3 DEF FzRow
  <2>6. FzSets(t, next) BY <2>4, <2>5 DEF FzSets
  <2> QED BY <2>6, FzTyped
<1>5. ASSUME NEW t \in FzThreads, FzReturn(t) PROVE FzTyping'
  <2>1. PICK c : c = fzCall[t] OBVIOUS
  <2>2. "at" \in DOMAIN c BY <2>1 DEF FzInv, FzCallOK, FzFields
  <2>3. PICK done : done = [c EXCEPT !.at = "done", !.dist = c.d[<<Len(Lhs(c)) + 1, Len(Rhs(c)) + 1>>]] OBVIOUS
  <2>4. done.at = "done" BY <2>2, <2>3
  <2>5. fzCall' = [fzCall EXCEPT ![t] = done] /\ fzCount' = fzCount BY <1>5, <2>1, <2>3 DEF FzReturn
  <2>6. FzSets(t, done) BY <2>4, <2>5 DEF FzSets
  <2> QED BY <2>6, FzTyped
<1> QED BY <1>1, <1>2, <1>3, <1>4, <1>5 DEF FzNext, FzThread

LEMMA FzTypes == FzSpec => []FzTypeOK
<1>1. FzInit => FzTyping
  <2> SUFFICES ASSUME FzInit PROVE FzTyping OBVIOUS
  <2>1. \A t \in FzThreads : fzCall[t] = NoCall BY DEF FzInit
  <2>2. NoCall.at = "idle" BY DEF NoCall
  <2>3. fzCount \in [FzThreads -> 0 .. MaxFzCalls] BY FzAssumption DEF FzInit
  <2> QED BY <2>1, <2>2, <2>3 DEF FzTyping
<1>2. FzTyping => FzTypeOK BY DEF FzTyping, FzTypeOK
<1> QED BY <1>1, <1>2, FzInitOK, FzStepOK, FzTypingStep, PTL DEF FzSpec
=============================================================================
