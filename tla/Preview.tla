-------------------------------- MODULE Preview --------------------------------
(***************************************************************************)
(* server/registrants/preview.py, shared/lru.py and the resolve of an item   *)
(* that is accepted (omnifunc.py).                                          *)
(*                                                                         *)
(* Every change of the selected item and the end of the menu start a         *)
(* handler, which runs across awaits with those before it; the one that      *)
(* resolves an item goes on in a task of its own, which the next to resolve  *)
(* cancels.  The preview and the ghost text are enabled.                     *)
(*                                                                         *)
(* Items are of a language server and without documentation or edits until   *)
(* they are resolved, when they get their imports; or paths, whose text is    *)
(* read from the file; or they have documentation of their own.  Servers and  *)
(* files may answer in time, or too late.                                    *)
(***************************************************************************)
EXTENDS Integers, Sequences, FiniteSets

CONSTANTS
  PvItems,      \* items of the menu
  PvLsp,        \* those of language servers
  PvPaths,      \* those that are paths
  PvSize,       \* items that the cache holds
  MaxPvEvents   \* bound: changes of the selection, and ends of the menu

ASSUME PvAssumption ==
  /\ IsFiniteSet(PvItems) /\ PvLsp \subseteq PvItems /\ PvPaths \subseteq PvItems \ PvLsp
  /\ PvSize \in Nat \ {0} /\ MaxPvEvents \in Nat

VARIABLES
  pvSel,      \* the item that is selected, "none" without a menu
  pvEvents,   \* number of events
  pvTasks,    \* handlers, by the number of their event
  pvCont,     \* _resolve_comp.cont
  pvId,       \* state().preview_id
  pvLru,      \* stack.lru, the oldest first
  pvWins,     \* preview windows on the screen, by the event they are for
  pvMarked,   \* those that bear the UUID, by which they are found
  pvGhost,    \* the event that the ghost text is for, 0 when there is none
  pvAccepted, \* the item that CompleteDone is to resolve
  pvApplied,  \* the last one that has been applied, and if that was with its imports
  pvDocs,     \* items that get documentation when they are resolved
  pvLate      \* history: events that were overtaken by another, or cancelled by one

pvVars == <<pvSel, pvEvents, pvTasks, pvCont, pvId, pvLru, pvWins, pvMarked, pvGhost,
            pvAccepted, pvApplied, pvDocs, pvLate>>

NoCont == [at |-> "idle", n |-> 0, item |-> "none"]
NotApplied == [item |-> "none", imports |-> FALSE, waited |-> FALSE]
PvSome == PvItems \union {"none"}
PvKilling == {"kill", "clear", "list", "close"}
PvShowing == {"ghost", "choose", "open", "mark"}

PvTypeOK ==
  /\ pvSel \in PvSome /\ pvId \in PvSome /\ pvAccepted \in PvSome /\ pvEvents \in 0 .. MaxPvEvents
  /\ \A t \in pvTasks : /\ t.n \in 1 .. pvEvents /\ t.at \in PvKilling \union PvShowing
                        /\ t.item \in PvSome /\ t.seen \subseteq 1 .. pvEvents
  /\ pvCont.at \in {"idle", "start", "resolve", "secondary", "open", "mark"}
  /\ pvCont.n \in 0 .. pvEvents /\ pvCont.item \in PvSome
  /\ Len(pvLru) <= PvSize
  /\ \A i, j \in 1 .. Len(pvLru) : pvLru[i].key = pvLru[j].key => i = j
  /\ pvWins \union pvMarked \subseteq 1 .. pvEvents /\ pvGhost \in 0 .. pvEvents
  /\ pvApplied.item \in PvSome /\ pvDocs \subseteq PvLsp /\ pvLate \subseteq 1 .. pvEvents

PvInit ==
  /\ pvSel = "none" /\ pvEvents = 0 /\ pvTasks = {} /\ pvCont = NoCont /\ pvId = "none"
  /\ pvLru = <<>> /\ pvWins = {} /\ pvMarked = {} /\ pvGhost = 0
  /\ pvAccepted = "none" /\ pvApplied = NotApplied
  /\ pvDocs \in SUBSET PvLsp /\ pvLate = {}

-----------------------------------------------------------------------------
(* nvim: CompleteChanged and CompleteDone.                                    *)

Task(x) == [n |-> pvEvents + 1, at |-> "kill", item |-> x, seen |-> {}]

Event(x) ==
  /\ pvEvents < MaxPvEvents
  /\ pvEvents' = pvEvents + 1 /\ pvSel' = x
  /\ pvTasks' = pvTasks \union {Task(x)}
  /\ pvLate' = (pvLate \union {t.n : t \in pvTasks} \union {pvCont.n}) \ {0}
  /\ UNCHANGED <<pvCont, pvId, pvLru, pvWins, pvMarked, pvGhost, pvApplied, pvDocs>>

PvSelect(x) == x # pvSel /\ Event(x) /\ UNCHANGED pvAccepted

PvDone ==
  /\ pvSel # "none" /\ Event("none")
  /\ pvAccepted' \in {pvAccepted, IF pvAccepted = "none" THEN pvSel ELSE pvAccepted}

-----------------------------------------------------------------------------
(* _kill_win: what it awaits is done by nvim in between.                       *)

pvMenu == <<pvSel, pvEvents, pvLru, pvAccepted, pvApplied, pvDocs>>

Goes(t, at) == pvTasks' = (pvTasks \ {t}) \union {[t EXCEPT !.at = at]}
End(t) == pvTasks' = pvTasks \ {t}

\* the handlers begin in the order of the events
PvKill(t) ==
  /\ t.at = "kill" /\ \A u \in pvTasks : u.at = "kill" => u.n >= t.n
  /\ pvId' = IF t.item = "none" THEN "none" ELSE pvId
  /\ Goes(t, "clear")
  /\ UNCHANGED <<pvMenu, pvCont, pvWins, pvMarked, pvGhost, pvLate>>

\* clear_namespace
PvClear(t) ==
  /\ t.at = "clear"
  /\ pvGhost' = 0 /\ Goes(t, "list")
  /\ UNCHANGED <<pvMenu, pvCont, pvId, pvWins, pvMarked, pvLate>>

Listing(t) == [n |-> t.n, at |-> "close", item |-> t.item, seen |-> pvWins]

\* Mutant: at the end of a menu nothing is closed
PvListLeaves(t) ==
  /\ t.at = "list"
  /\ IF t.item = "none" THEN End(t) ELSE pvTasks' = (pvTasks \ {t}) \union {Listing(t)}
  /\ UNCHANGED <<pvMenu, pvCont, pvId, pvWins, pvMarked, pvGhost, pvLate>>

\* list_floatwins: the windows there are, of which those that bear the UUID are closed one by one
PvList(t) ==
  /\ t.at = "list"
  /\ pvTasks' = (pvTasks \ {t}) \union {Listing(t)}
  /\ UNCHANGED <<pvMenu, pvCont, pvId, pvWins, pvMarked, pvGhost, pvLate>>

PvClose(t, w) ==
  /\ t.at = "close" /\ w \in t.seen
  /\ IF w \in pvMarked THEN pvWins' = pvWins \ {w} /\ pvMarked' = pvMarked \ {w} ELSE UNCHANGED <<pvWins, pvMarked>>
  /\ pvTasks' = (pvTasks \ {t}) \union {[t EXCEPT !.seen = @ \ {w}]}
  /\ UNCHANGED <<pvMenu, pvCont, pvId, pvGhost, pvLate>>

-----------------------------------------------------------------------------
(* _cmp_changed.                                                              *)

\* the metrics may be of a newer menu by now, without the item
PvClosed(t) ==
  /\ t.at = "close" /\ t.seen = {}
  /\ End(t) \/ (t.item # "none" /\ Goes(t, "ghost"))
  /\ UNCHANGED <<pvMenu, pvCont, pvId, pvWins, pvMarked, pvGhost, pvLate>>

\* an item without a text has no ghost text
PvGhost(t) ==
  /\ t.at = "ghost"
  /\ pvGhost' \in {t.n, pvGhost} /\ Goes(t, "choose")
  /\ UNCHANGED <<pvMenu, pvCont, pvId, pvWins, pvMarked, pvLate>>

\* _die cancels the task that resolves, if there is one, wherever it is
PvChoose(t) ==
  /\ t.at = "choose"
  /\ pvId' = t.item
  /\ IF t.item \in PvLsp \union PvPaths
     THEN End(t) /\ pvCont' = [at |-> "start", n |-> t.n, item |-> t.item] /\ pvLate' = pvLate \union ({pvCont.n} \ {0})
     ELSE Goes(t, "open") /\ UNCHANGED <<pvCont, pvLate>>
  /\ UNCHANGED <<pvMenu, pvWins, pvMarked, pvGhost>>

\* _show_preview: the window is opened, if there is room, and given the UUID by another request
PvOpen(t) ==
  /\ t.at = "open"
  /\ \/ Goes(t, "mark") /\ pvWins' = pvWins \union {t.n}
     \/ End(t) /\ UNCHANGED pvWins
  /\ UNCHANGED <<pvMenu, pvCont, pvId, pvMarked, pvGhost, pvLate>>

PvMark(t) ==
  /\ t.at = "mark"
  /\ End(t) /\ pvMarked' = pvMarked \union {t.n}
  /\ UNCHANGED <<pvMenu, pvCont, pvId, pvWins, pvGhost, pvLate>>

-----------------------------------------------------------------------------
(* The cache: an assignment makes room first, be its key there or not.        *)

Keys == {pvLru[i].key : i \in 1 .. Len(pvLru)}
Cached(k) == pvLru[CHOOSE i \in 1 .. Len(pvLru) : pvLru[i].key = k]

LruPut(lru, e) ==
  LET room == IF Len(lru) >= PvSize THEN Tail(lru) ELSE lru IN
    IF \E i \in 1 .. Len(room) : room[i].key = e.key
    THEN [i \in 1 .. Len(room) |-> IF room[i].key = e.key THEN e ELSE room[i]]
    ELSE Append(room, e)

Store(x, imports, doc) == pvLru' = LruPut(pvLru, [key |-> x, imports |-> imports, doc |-> doc])

-----------------------------------------------------------------------------
(* _resolve_comp.cont.                                                        *)

pvOther == <<pvSel, pvEvents, pvTasks, pvId, pvGhost, pvAccepted, pvApplied, pvDocs, pvLate>>

Cont(at) == pvCont' = IF at = "idle" THEN NoCont ELSE [pvCont EXCEPT !.at = at]

\* the key is preview_id as it was when the item was chosen
PvStart ==
  /\ pvCont.at = "start"
  /\ IF pvCont.item \notin Keys THEN Cont("resolve")
     ELSE IF Cached(pvCont.item).doc THEN Cont("open")
     ELSE \E at \in {"idle", "secondary"} : Cont(at)
  /\ UNCHANGED <<pvOther, pvLru, pvWins, pvMarked>>

\* an answer in time is kept, with its imports; without documentation, and after an answer that
\* is late, the preview is of the edits that the item came with
PvAnswer ==
  /\ pvCont.at = "resolve"
  /\ \/ pvCont.item \in pvDocs \union PvPaths /\ Store(pvCont.item, pvCont.item \in PvLsp, TRUE) /\ Cont("open")
     \/ pvCont.item \in PvLsp \ pvDocs /\ Store(pvCont.item, TRUE, FALSE) /\ Cont("secondary")
  /\ UNCHANGED <<pvOther, pvWins, pvMarked>>

PvTimeout ==
  /\ pvCont.at = "resolve"
  /\ Cont("secondary")
  /\ UNCHANGED <<pvOther, pvLru, pvWins, pvMarked>>

\* _secondary: there are none; the item it came as is kept in the place of the resolved one
PvSecondary ==
  /\ pvCont.at = "secondary"
  /\ Store(pvCont.item, FALSE, FALSE) /\ Cont("idle")
  /\ UNCHANGED <<pvOther, pvWins, pvMarked>>

\* _show_preview, as in a handler, but that it can be cancelled in between
PvOpenResolved ==
  /\ pvCont.at = "open"
  /\ \/ Cont("mark") /\ pvWins' = pvWins \union {pvCont.n}
     \/ Cont("idle") /\ UNCHANGED pvWins
  /\ UNCHANGED <<pvOther, pvLru, pvMarked>>

PvMarkResolved ==
  /\ pvCont.at = "mark"
  /\ Cont("idle") /\ pvMarked' = pvMarked \union {pvCont.n}
  /\ UNCHANGED <<pvOther, pvLru, pvWins>>

-----------------------------------------------------------------------------

\* _resolve: from the cache, or from the server, which is waited for.  When the menu is another by
\* then, nothing is applied.
PvAccept ==
  /\ pvAccepted # "none"
  /\ pvAccepted' = "none"
  /\ \/ UNCHANGED pvApplied
     \/ pvApplied' \in
          IF pvAccepted \in Keys
          THEN {[item |-> pvAccepted, imports |-> Cached(pvAccepted).imports, waited |-> FALSE]}
          ELSE [item : {pvAccepted}, imports : {(pvAccepted \in PvLsp), FALSE}, waited : {TRUE}]
  /\ UNCHANGED <<pvSel, pvEvents, pvTasks, pvCont, pvId, pvLru, pvWins, pvMarked, pvGhost, pvDocs, pvLate>>

PvHandler(t) ==
  \/ PvKill(t) \/ PvClear(t) \/ PvList(t) \/ (\E w \in t.seen : PvClose(t, w)) \/ PvClosed(t)
  \/ PvGhost(t) \/ PvChoose(t) \/ PvOpen(t) \/ PvMark(t)

PvResolve == PvStart \/ PvAnswer \/ PvTimeout \/ PvSecondary \/ PvOpenResolved \/ PvMarkResolved

PvNext ==
  \/ \E x \in PvItems : PvSelect(x)
  \/ \E t \in pvTasks : PvHandler(t)
  \/ PvDone \/ PvResolve \/ PvAccept

PvSpec == PvInit /\ [][PvNext]_pvVars

-----------------------------------------------------------------------------

PvQuiet == pvTasks = {} /\ pvCont.at = "idle"

\* the event of the item that is selected
PvCurrent == IF pvSel = "none" THEN {} ELSE {pvEvents}

\* Once the handlers are done, the windows and the ghost text are for the item that is selected, or
\* for an event that another overtook: every other window has been closed, though windows are opened,
\* marked, listed and closed one request at a time (preview.py:74, :187-189).
PreviewIsOfSelection ==
  PvQuiet => pvWins \subseteq PvCurrent \union pvLate /\ pvGhost \in {0} \union PvCurrent \union pvLate

-----------------------------------------------------------------------------
(* What the documents say, and the code does not do.                          *)

\* An item of a server is applied with its imports, unless the server has been waited for and
\* was late (docs/SOURCES.md:75, README.md:438).
ImportsAreApplied == pvApplied.item \in PvLsp => pvApplied.imports \/ pvApplied.waited
=============================================================================
