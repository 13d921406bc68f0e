--------------------------- MODULE CompletionFlow ---------------------------
(***************************************************************************)
(* From a key to the menu and from the menu to an edit:                    *)
(* coq/server/registrants/{attachment,omnifunc}.py, coq/server/{state,     *)
(* context,completions}.py and lua/coq/completion.lua.                     *)
(*                                                                         *)
(* nvim and the main loop of the server talk over one channel, in order    *)
(* either way.  A change is a notification; completefunc and CompleteDone   *)
(* are requests that nvim waits for: it takes no key and runs nothing that  *)
(* vim.schedule has put off, but serves the calls of the server.           *)
(*                                                                         *)
(* A change is its number, and so are the change_id it is given and the     *)
(* position of the cursor after it.  Items are those of one context.       *)
(***************************************************************************)
EXTENDS Integers, Sequences, FiniteSets, SequencesExt

CONSTANTS
  MaxTick,    \* bound: changes of the buffer
  MaxManual,  \* bound: manual completions
  FastClose   \* what display.pum.fast_close can be

ASSUME FlowAssumption ==
  MaxTick \in Nat /\ MaxManual \in Nat /\ FastClose \subseteq BOOLEAN

VARIABLES
  \* --- nvim ---
  tick,       \* changes so far
  insert,     \* in insert mode
  menu,       \* the popup menu
  scheduled,  \* calls of complete() that vim.schedule has put off
  asked,      \* manual completions so far
  blocked,    \* nvim waits for a handler
  \* --- the channel ---
  calls,      \* from the server
  inbox,      \* to the server
  \* --- the server ---
  cell,       \* _CELL, the state
  metrics,    \* stack.metrics
  tasks,      \* comp_func, and the _lines_event that leads to it
  collects,   \* Supervisor.collect of the tasks: running, or asked to stop
  finish,     \* the handler of CompleteDone
  \* --- history ---
  fate,       \* how a change has ended
  used        \* the item that is applied, with the context it is applied in

nvim == <<tick, insert, menu, scheduled, asked, blocked>>
flowVars == <<nvim, calls, inbox, cell, metrics, tasks, collects, finish, fate, used>>

Ticks == 0 .. MaxTick
NoPos == -1
Context == [change : Ticks, pos : Ticks, text : Ticks, manual : BOOLEAN]
NoContext == [change |-> 0, pos |-> 0, text |-> 0, manual |-> FALSE]
Nothing == [none |-> TRUE]

\* "other": a menu that is not of complete()
Menus == Context \union {Nothing, [other |-> TRUE]}
Items == Context \union {Nothing}

State == [change_id : Ticks, context : Context, inserted_pos : Ticks \union {NoPos},
          is_dir : BOOLEAN]

\* a change has one task, and so has a manual completion
Automatic(n) == <<"auto", n>>
Manual(n) == <<"manual", n>>
TaskIds == {"auto", "manual"} \X Nat
IsAuto(id) == id[1] = "auto"

Points == {"status", "cursor", "text", "collect", "closing"}
Tasks == [at : Points, s : State, ctx : Context]

FlowTypeOK ==
  /\ tick \in Ticks /\ insert \in BOOLEAN /\ menu \in Menus
  /\ scheduled \in Seq(Items) /\ asked \in 0 .. MaxManual /\ blocked \in BOOLEAN
  /\ cell \in State /\ metrics \in Items
  /\ DOMAIN tasks \subseteq TaskIds /\ \A id \in DOMAIN tasks : tasks[id] \in Tasks
  /\ DOMAIN collects = {id \in DOMAIN tasks : tasks[id].at = "collect"}
  /\ Cardinality({id \in DOMAIN tasks : IsAuto(id)}) <= 1
  /\ finish.at \in {"none", "resolving", "editing"}
  /\ blocked <=> finish.at # "none" \/ \E i \in DOMAIN inbox : inbox[i].kind \in {"omni", "done"}

FlowInit ==
  /\ tick = 0 /\ insert = TRUE /\ menu = Nothing
  /\ scheduled = <<>> /\ asked = 0 /\ blocked = FALSE
  /\ calls = <<>> /\ inbox = <<>>
  /\ cell = [change_id |-> 0, context |-> NoContext, inserted_pos |-> NoPos, is_dir |-> FALSE]
  /\ metrics = Nothing /\ tasks = <<>> /\ collects = <<>>
  /\ finish = [at |-> "none"]
  /\ fate = [c \in Ticks |-> "open"] /\ used = <<>>

-----------------------------------------------------------------------------
(* nvim.                                                                      *)

server == <<cell, metrics, tasks, collects, finish, fate, used>>

Event(kind, n) == [kind |-> kind, n |-> n]

\* an open menu of complete() is narrowed by what is typed, or ends
Type ==
  /\ insert /\ ~blocked /\ tick < MaxTick
  /\ tick' = tick + 1
  /\ menu' \in {menu, Nothing}
  /\ inbox' = Append(inbox, Event("lines", tick'))
  /\ UNCHANGED <<insert, scheduled, asked, blocked, calls, server>>

LeaveInsert ==
  /\ insert /\ ~blocked
  /\ insert' = FALSE /\ menu' = Nothing
  /\ UNCHANGED <<tick, scheduled, asked, blocked, calls, inbox, server>>

EnterInsert ==
  /\ ~insert
  /\ insert' = TRUE
  /\ UNCHANGED <<tick, menu, scheduled, asked, blocked, calls, inbox, server>>

\* another completion of nvim, by CTRL-X or CTRL-N
OtherMenu ==
  /\ insert /\ ~blocked
  /\ menu' = [other |-> TRUE]
  /\ UNCHANGED <<tick, insert, scheduled, asked, blocked, calls, inbox, server>>

\* completefunc, which is omnifunc
AskManual ==
  /\ insert /\ ~blocked /\ asked < MaxManual
  /\ asked' = asked + 1 /\ blocked' = TRUE /\ menu' = Nothing
  /\ inbox' = Append(inbox, Event("omni", asked'))
  /\ UNCHANGED <<tick, insert, scheduled, calls, cell, metrics, tasks, collects, finish,
                 fate, used>>

\* CompleteDone with the item that is selected
Accept ==
  /\ menu \in Context /\ ~blocked
  /\ blocked' = TRUE /\ menu' = Nothing
  /\ inbox' = Append(inbox, [kind |-> "done", item |-> menu])
  /\ UNCHANGED <<tick, insert, scheduled, asked, calls, server>>

\* COQ.send_comp, once the loop of nvim comes to it
ShowComp ==
  /\ scheduled # <<>> /\ ~blocked
  /\ scheduled' = Tail(scheduled)
  /\ menu' = IF insert /\ menu # [other |-> TRUE] THEN Head(scheduled) ELSE menu
  /\ UNCHANGED <<tick, insert, asked, blocked, calls, inbox, server>>

\* nvim serves the oldest call, even while it waits
Serve ==
  /\ calls # <<>>
  /\ LET c == Head(calls) IN
       /\ calls' = Tail(calls)
       /\ scheduled' = IF c.kind = "send" THEN Append(scheduled, c.items) ELSE scheduled
       /\ inbox' = Append(inbox, [kind |-> "reply", id |-> c.id, tick |-> tick,
                                  legal |-> insert /\ menu # [other |-> TRUE]])
  /\ UNCHANGED <<tick, insert, menu, asked, blocked, server>>

-----------------------------------------------------------------------------
(* The server.                                                                *)

Call(kind, id) == [kind |-> kind, id |-> id]
Send(items, id) == [kind |-> "send", id |-> id, items |-> items]

Without(f, ids) == [x \in DOMAIN f \ ids |-> f[x]]
With(f, x, v) == [y \in DOMAIN f \union {x} |-> IF y = x THEN v ELSE f[y]]

\* those whose cancellation has been asked for go on until it is raised
Stopping(f) == [x \in DOMAIN f |-> "stopping"]

Take(kind) == inbox # <<>> /\ Head(inbox).kind = kind /\ inbox' = Tail(inbox)

\* _lines_event: _die cancels the task of the change before
LinesEvent ==
  /\ Take("lines")
  /\ LET n == Head(inbox).n
         autos == {id \in DOMAIN tasks : IsAuto(id)} IN
       /\ tasks' = With(Without(tasks, autos), Automatic(n),
                        [at |-> "status", s |-> cell, ctx |-> NoContext])
       /\ calls' = Append(calls, Call("status", Automatic(n)))
       /\ collects' = Stopping(Without(collects, autos))
  /\ UNCHANGED <<nvim, cell, metrics, finish, fate, used>>

\* omnifunc: change_id stays what it is
Omnifunc ==
  /\ Take("omni")
  /\ LET id == Manual(Head(inbox).n) IN
       /\ tasks' = With(tasks, id, [at |-> "cursor", s |-> cell, ctx |-> NoContext])
       /\ calls' = Append(calls, Call("cursor", id))
  /\ blocked' = FALSE
  /\ UNCHANGED <<tick, insert, menu, scheduled, asked, cell, metrics, collects, finish,
                 fate, used>>

Reply(at) ==
  /\ Take("reply")
  /\ Head(inbox).id \in DOMAIN tasks /\ tasks[Head(inbox).id].at = at

\* what comes back for a task that has been cancelled, or does not wait for it
LateReply ==
  /\ Take("reply")
  /\ Head(inbox).id \in DOMAIN tasks => tasks[Head(inbox).id].at = "collect"
  /\ UNCHANGED <<nvim, calls, server>>

\* _status has been read, and the state takes the new change_id
Status ==
  /\ Reply("status")
  /\ LET r == Head(inbox)
         id == r.id
         s == [cell EXCEPT !.change_id = id[2]] IN
       /\ cell' = s
       /\ IF r.legal
          THEN /\ tasks' = [tasks EXCEPT ![id].at = "cursor", ![id].s = s]
               /\ calls' = Append(calls, Call("cursor", id))
               /\ fate' = fate
          ELSE /\ tasks' = Without(tasks, {id})
               /\ calls' = calls
               /\ fate' = [fate EXCEPT ![id[2]] = "skipped"]
  /\ UNCHANGED <<nvim, metrics, collects, finish, used>>

\* context: the cursor in one call ...
Cursor ==
  /\ Reply("cursor")
  /\ LET r == Head(inbox) IN
       /\ tasks' = [tasks EXCEPT ![r.id].at = "text", ![r.id].ctx.pos = r.tick]
       /\ calls' = Append(calls, Call("text", r.id))
  /\ UNCHANGED <<nvim, cell, metrics, collects, finish, fate, used>>

\* ... and the lines in another
ContextOf(id, text) ==
  [change |-> tasks[id].s.change_id, pos |-> tasks[id].ctx.pos, text |-> text,
   manual |-> ~IsAuto(id)]

\* _should_cont: skips if the line ends with a token of skip_after
ShouldCont(s, cur, skips) ==
  \/ cur.manual
  \/ /\ s.context.change # cur.change
     /\ IF cur.pos = s.inserted_pos THEN s.is_dir ELSE ~skips

\* complete() fills metrics before it awaits
Complete(items, id, cs) ==
  /\ metrics' = items
  /\ calls' = Append(cs, Send(items, id))

\* Mutant: the newest context is that of the items
TextLate ==
  /\ Reply("text")
  /\ LET id == Head(inbox).id
         ctx == ContextOf(id, Head(inbox).tick) IN
     \E skips \in BOOLEAN :
       IF ShouldCont(tasks[id].s, ctx, skips)
       THEN /\ tasks' = [tasks EXCEPT ![id].at = "collect", ![id].ctx = ctx]
            /\ collects' = With(Stopping(collects), id, "running")
            /\ UNCHANGED <<cell, fate>>
            /\ \E fast \in FastClose :
                 IF fast THEN Complete(Nothing, id, calls) ELSE UNCHANGED <<metrics, calls>>
       ELSE /\ tasks' = [tasks EXCEPT ![id].at = "closing", ![id].ctx = ctx]
            /\ Complete(Nothing, id, calls)
            /\ fate' = [fate EXCEPT ![ctx.change] = "refused"]
            /\ UNCHANGED <<cell, collects>>
  /\ UNCHANGED <<nvim, finish, used>>

\* Mutant: what is refused leaves the menu open
TextLeavesOpen ==
  /\ Reply("text")
  /\ LET id == Head(inbox).id
         ctx == ContextOf(id, Head(inbox).tick) IN
     \E skips \in BOOLEAN :
       IF ShouldCont(tasks[id].s, ctx, skips)
       THEN /\ cell' = [cell EXCEPT !.context = ctx]
            /\ tasks' = [tasks EXCEPT ![id].at = "collect", ![id].ctx = ctx]
            /\ collects' = With(Stopping(collects), id, "running")
            /\ fate' = fate
            /\ \E fast \in FastClose :
                 IF fast THEN Complete(Nothing, id, calls) ELSE UNCHANGED <<metrics, calls>>
       ELSE /\ tasks' = Without(tasks, {id})
            /\ fate' = [fate EXCEPT ![ctx.change] = "refused"]
            /\ UNCHANGED <<cell, collects, metrics, calls>>
  /\ UNCHANGED <<nvim, finish, used>>

\* comp_func has its context; a collect stops the one before
Text ==
  /\ Reply("text")
  /\ LET id == Head(inbox).id
         ctx == ContextOf(id, Head(inbox).tick) IN
     \E skips \in BOOLEAN :
       IF ShouldCont(tasks[id].s, ctx, skips)
       THEN /\ cell' = [cell EXCEPT !.context = ctx]
            /\ tasks' = [tasks EXCEPT ![id].at = "collect", ![id].ctx = ctx]
            /\ collects' = With(Stopping(collects), id, "running")
            /\ fate' = fate
            /\ \E fast \in FastClose :
                 IF fast THEN Complete(Nothing, id, calls) ELSE UNCHANGED <<metrics, calls>>
       ELSE /\ tasks' = [tasks EXCEPT ![id].at = "closing", ![id].ctx = ctx]
            /\ Complete(Nothing, id, calls)
            /\ fate' = [fate EXCEPT ![ctx.change] = "refused"]
            /\ UNCHANGED <<cell, collects>>
  /\ UNCHANGED <<nvim, finish, used>>

Closed ==
  /\ Reply("closing")
  /\ cell' = [cell EXCEPT !.inserted_pos = NoPos]
  /\ tasks' = Without(tasks, {Head(inbox).id})
  /\ UNCHANGED <<nvim, calls, metrics, collects, finish, fate, used>>

\* Mutant: they are shown only if the state is still that of the task
CollectEndsSame(id) ==
  /\ tasks' = Without(tasks, {id}) /\ collects' = Without(collects, {id})
  /\ IF cell = [tasks[id].s EXCEPT !.context = tasks[id].ctx]
     THEN /\ Complete(tasks[id].ctx, id, calls)
          /\ fate' = [fate EXCEPT ![tasks[id].ctx.change] = "shown"]
     ELSE UNCHANGED <<metrics, calls, fate>>
  /\ UNCHANGED <<nvim, inbox, cell, finish, used>>

\* the collect returns: its items are shown if there has been no change
CollectEnds(id) ==
  /\ tasks' = Without(tasks, {id}) /\ collects' = Without(collects, {id})
  /\ IF cell.change_id = tasks[id].ctx.change
     THEN /\ Complete(tasks[id].ctx, id, calls)
          /\ fate' = [fate EXCEPT ![tasks[id].ctx.change] = "shown"]
     ELSE UNCHANGED <<metrics, calls, fate>>
  /\ UNCHANGED <<nvim, inbox, cell, finish, used>>

\* the cancellation is raised, and ends comp_func with it
CollectCancelled(id) ==
  /\ collects[id] = "stopping"
  /\ tasks' = Without(tasks, {id}) /\ collects' = Without(collects, {id})
  /\ UNCHANGED <<nvim, calls, inbox, cell, metrics, finish, fate, used>>

-----------------------------------------------------------------------------
(* CompleteDone.                                                              *)

\* _comp_done: an item that is not in metrics is nobody's
DoneStarts ==
  /\ Take("done")
  /\ IF Head(inbox).item = metrics
     THEN finish' = [at |-> "resolving", item |-> metrics, s |-> cell] /\ blocked' = blocked
     ELSE finish' = finish /\ blocked' = FALSE
  /\ UNCHANGED <<tick, insert, menu, scheduled, asked, calls, cell, metrics, tasks,
                 collects, fate, used>>

\* resolved, and metrics are looked at again
DoneEdits ==
  /\ finish.at = "resolving"
  /\ IF finish.item = metrics /\ tick < MaxTick
     THEN /\ finish' = [at |-> "editing", pos |-> tick + 1]
          /\ tick' = tick + 1
          /\ inbox' = Append(inbox, Event("lines", tick'))
          /\ used' = <<finish.item, finish.s.context>>
          /\ blocked' = blocked
     ELSE /\ finish' = [at |-> "none"] /\ blocked' = FALSE
          /\ UNCHANGED <<tick, inbox, used>>
  /\ UNCHANGED <<insert, menu, scheduled, asked, calls, cell, metrics, tasks, collects,
                 fate>>

\* the cursor and the marks have been set, or the edit has come to nothing
DoneEnds ==
  /\ finish.at = "editing"
  /\ \E d \in BOOLEAN : cell' = [cell EXCEPT !.inserted_pos = finish.pos, !.is_dir = d]
  /\ finish' = [at |-> "none"] /\ blocked' = FALSE
  /\ UNCHANGED <<tick, insert, menu, scheduled, asked, calls, inbox, metrics, tasks,
                 collects, fate, used>>

-----------------------------------------------------------------------------

User == Type \/ LeaveInsert \/ EnterInsert \/ OtherMenu \/ AskManual \/ Accept
Receive == LinesEvent \/ Omnifunc \/ Status \/ Cursor \/ Text \/ Closed \/ LateReply \/ DoneStarts
Collected == \E id \in DOMAIN collects : CollectEnds(id) \/ CollectCancelled(id)
Finish == DoneEdits \/ DoneEnds

FlowNext == User \/ ShowComp \/ Serve \/ Receive \/ Collected \/ Finish

FlowSpec == FlowInit /\ [][FlowNext]_flowVars

\* the loops of nvim and of the server go on, and every collect ends
FlowFairness == /\ WF_flowVars(ShowComp) /\ WF_flowVars(Serve) /\ WF_flowVars(Receive)
                /\ WF_flowVars(Collected) /\ WF_flowVars(Finish)

-----------------------------------------------------------------------------
(* What the menu shows, and what is done with it.                             *)

\* An item is applied in a context that is not older than the one it has been found for: the
\* state takes the context before metrics take the items (omnifunc.py:70, :89, :142).
ContextIsNotOlder ==
  used # <<>> => used[1].change <= used[2].change /\ used[1].pos <= used[2].pos

Quiet == calls = <<>> /\ inbox = <<>> /\ scheduled = <<>> /\ tasks = <<>> /\ ~blocked

\* When nothing is under way, a menu that is open is of the buffer as it is: no menu survives
\* a change that was seen in insert mode, whatever tasks, replies and edits have crossed
\* (attachment.py:88, :101, omnifunc.py:80).
QuietMenuIsCurrent ==
  Quiet /\ menu \in Context /\ fate[tick] # "skipped" => menu.pos = tick /\ menu.text = tick

\* The newest change is served: its items are shown, or they are refused, unless it is
\* followed by another (attachment.py:88, omnifunc.py:57, :80).
NewestIsServed == \A c \in 1 .. MaxTick : tick = c ~> fate[c] # "open" \/ tick > c

=============================================================================
