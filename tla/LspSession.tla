----------------------------- MODULE LspSession -----------------------------
(***************************************************************************)
(* One request name ("lsp_comp", "lsp_resolve", ...) of the request layer  *)
(* that coq/lsp/requests/request.py and lua/coq/lsp-request.lua share.     *)
(* Every table of either side is indexed by that name, so names do not     *)
(* interact and one is enough.                                             *)
(*                                                                         *)
(* A generator is one run of async_request, named by its session uid.  All *)
(* generators of a name and the body of _lsp_notify run on one event loop: *)
(* an action is the code between two suspension points.  The Lua side runs *)
(* on nvim's main thread, one RPC or one client callback at a time.        *)
(***************************************************************************)
EXTENDS Integers, FiniteSets, Sequences, SequencesExt

CONSTANTS
  Clients,      \* language servers, or Lua sources of COQsources
  MaxUid,       \* bound: sessions are numbered 0 .. MaxUid
  MaxChunks,    \* bound: full chunks a reply can hold before its short one
  Multipart     \* TRUE for lsp_comp and the like, FALSE for resolve, command

ASSUME SessionAssumption ==
  /\ MaxUid \in Nat
  /\ MaxChunks \in Nat
  /\ Multipart \in BOOLEAN
  /\ IsFiniteSet(Clients)

VARIABLES
  \* --- python ---
  state,        \* _STATE[name]; uid = -1 when there is no entry
  pc,           \* where each generator is suspended
  held,         \* the session object a generator read at the top of its loop
  item,         \* the reply popped from held, then the chunk pulled for it
  activity,     \* the asyncio Event of the name
  lockq,        \* those waiting for its Lock: generators (uid), notifications (-1)
  \* --- the msgpack channel, one queue per direction ---
  rpc, chan,
  \* --- Lua ---
  cids, accs,   \* the tables of lsp_pull and lsp_notify
  current,      \* current_sessions[name], -2 when there is none
  left,         \* n_clients of each session's closure
  pending,      \* clients of each session that may still call on_resp
  \* --- history ---
  got,          \* what each generator has yielded to its consumer
  asked,        \* the clients each session was sent to
  alone         \* had every older generator ended when this one started?

lua == <<cids, accs, current, left, pending, asked>>
vars == <<state, pc, held, item, activity, lockq, rpc, chan,
          cids, accs, current, left, pending, got, asked, alone>>

Uids == 0 .. MaxUid
NoClient == "NIL"                       \* payload.client = vim.NIL
Names == Clients \union {NoClient}

Ended == {"done", "superseded", "delayed", "cancelled"}
\* where a generator can be suspended, and so cancelled: "calling" and "pulling"
\* have an exec_lua in flight, which has answered at "called" and "pulled"
Suspended == {"calling", "called", "pulling", "pulled", "yielded",
              "waiting", "woken", "locking", "clearing"}
Points == {"idle"} \union Suspended \union Ended

Reply == [uid : Uids, client : Names]
Session == [uid : Uids \union {-1}, done : BOOLEAN, acc : Seq(Reply)]
NoSession == [uid |-> -1, done |-> FALSE, acc |-> <<>>]
Held == [done : BOOLEAN, acc : Seq(Reply), shared : BOOLEAN]
NotHeld == [done |-> FALSE, acc |-> <<>>, shared |-> FALSE]

\* a table of items is its session and its number of full chunks
Items == [from : Uids, chunks : 0 .. MaxChunks]
NoItems == [from |-> -1, chunks |-> 0]
\* a reply being delivered: chunk k comes next, or has just come back from
\* lsp_pull: from is the session its items belong to, -1 when there were none
Item == [reply : Reply, k : Nat, from : Uids \union {-1},
         full : BOOLEAN, refused : BOOLEAN]
Fresh(r) == [reply |-> r, k |-> 0, from |-> -1, full |-> FALSE, refused |-> FALSE]

Call == [op : {"req", "pull"}, uid : Uids, client : Names, k : Nat]
Payload == [uid : Uids, client : Names, done : BOOLEAN]
Delivery == [reply : Reply, from : Uids \union {-1}]

TypeOK ==
  /\ state \in Session
  /\ pc \in [Uids -> Points]
  /\ held \in [Uids -> Held]
  /\ item \in [Uids -> Item]
  /\ activity \in BOOLEAN
  /\ lockq \in Seq(Uids \union {-1})
  /\ rpc \in Seq(Call)
  /\ chan \in Seq(Payload)
  /\ cids \in Uids \union {-1}
  /\ accs \in [Names -> Items \union {NoItems}]
  /\ current \in Uids \union {-2}
  /\ left \in [Uids -> 0 .. Cardinality(Clients)]
  /\ pending \in [Uids -> SUBSET Clients]
  /\ got \in [Uids -> SUBSET Delivery]
  /\ asked \in [Uids -> SUBSET Clients]
  /\ alone \in [Uids -> BOOLEAN]

Init ==
  /\ state = NoSession
  /\ pc = [g \in Uids |-> "idle"]
  /\ held = [g \in Uids |-> NotHeld]
  /\ item = [g \in Uids |-> Fresh([uid |-> g, client |-> NoClient])]
  /\ activity = FALSE
  /\ lockq = <<>>
  /\ rpc = <<>>
  /\ chan = <<>>
  /\ cids = -1
  /\ accs = [c \in Names |-> NoItems]
  /\ current = -2
  /\ left = [g \in Uids |-> 0]
  /\ pending = [g \in Uids |-> {}]
  /\ got = [g \in Uids |-> {}]
  /\ asked = [g \in Uids |-> {}]
  /\ alone = [g \in Uids |-> FALSE]

-----------------------------------------------------------------------------
(* The Event and the Lock of the name.  The Lock is held across a           *)
(* suspension only by a generator at "clearing".                            *)

\* Event.set resolves the future of every waiter there is now
Wake(p) == [g \in Uids |-> IF p[g] = "waiting" THEN "woken" ELSE p[g]]

\* asyncio.Lock takes no shortcut past those already in its queue
LockFree == lockq = <<>> /\ \A g \in Uids : pc[g] # "clearing"

\* async with lock: await sleep(0)
Acquire(g) ==
  IF LockFree
  THEN pc' = [pc EXCEPT ![g] = "clearing"] /\ UNCHANGED lockq
  ELSE pc' = [pc EXCEPT ![g] = "locking"] /\ lockq' = Append(lockq, g)

\* from the return of activity.wait() to the next suspension
AfterWait(g) ==
  IF state.uid \notin {-1, g}
  THEN pc' = [pc EXCEPT ![g] = "superseded"] /\ UNCHANGED lockq
  ELSE Acquire(g)

\* activity.wait() does not suspend when ev, the event, is set
Wait(g, ev) ==
  IF ev THEN AfterWait(g)
        ELSE pc' = [pc EXCEPT ![g] = "waiting"] /\ UNCHANGED lockq

-----------------------------------------------------------------------------
(* A generator.                                                             *)

\* one round of "while state.acc", on the session object s that g holds; its
\* list is also the one of _STATE until something replaces the session there
Deliver(g, s) ==
  LET r == Last(s.acc)
  IN /\ s.acc # <<>>
     /\ held' = [held EXCEPT ![g] = [s EXCEPT !.acc = Front(@)]]
     /\ state' = IF s.shared THEN [state EXCEPT !.acc = Front(@)] ELSE state
     /\ item' = [item EXCEPT ![g] = Fresh(r)]
     /\ IF Multipart
        THEN /\ pc' = [pc EXCEPT ![g] = "pulling"]
             /\ rpc' = Append(rpc, [op |-> "pull", uid |-> g, client |-> r.client, k |-> 0])
             /\ UNCHANGED got
        ELSE /\ pc' = [pc EXCEPT ![g] = "yielded"]
             /\ got' = [got EXCEPT ![g] = @ \union {[reply |-> r, from |-> -1]}]
             /\ UNCHANGED rpc
     /\ UNCHANGED lockq

\* nobody but _STATE refers to the list of the session there any more
Detached == [g \in Uids |-> [held[g] EXCEPT !.shared = FALSE]]

\* the rest of the loop body once s.acc is empty
Drained(g, s, ev) ==
  /\ s.acc = <<>>
  /\ \/ /\ s.done                        \* _STATE.pop(name, None); break
        /\ state' = NoSession
        /\ held' = Detached
        /\ pc' = [pc EXCEPT ![g] = "done"]
        /\ UNCHANGED lockq
     \/ /\ ~s.done
        /\ Wait(g, ev)
        /\ UNCHANGED <<state, held>>
  /\ UNCHANGED <<item, rpc, got>>

\* Mutant: the generator takes any session it finds for its own
LoopAnySession(g, ev) ==
  LET s == [done |-> state.done, acc |-> state.acc, shared |-> TRUE]
  IN IF state.uid = -1
     THEN Wait(g, ev) /\ UNCHANGED <<state, held, item, rpc, got>>
     ELSE Deliver(g, s) \/ Drained(g, s, ev)

\* from the top of "while True" to the next suspension
Loop(g, ev) ==
  LET s == [done |-> state.done, acc |-> state.acc, shared |-> TRUE]
  IN \/ /\ state.uid = g
        /\ Deliver(g, s) \/ Drained(g, s, ev)
     \/ /\ state.uid = -1
        /\ Wait(g, ev)
        /\ UNCHANGED <<state, held, item, rpc, got>>
     \/ /\ state.uid \notin {-1, g}      \* a newer session, or a DELAYED LSP RESP
        /\ pc' = [pc EXCEPT ![g] = IF state.uid > g THEN "superseded" ELSE "delayed"]
        /\ UNCHANGED <<state, held, item, rpc, got, lockq>>

\* Mutant: the list of the last session is not emptied
StartKeeping(g) ==
  /\ pc[g] = "idle"
  /\ \A h \in Uids : h < g => pc[h] # "idle"
  /\ state' = [state EXCEPT !.uid = g, !.done = FALSE]
  /\ held' = Detached
  /\ activity' = TRUE
  /\ pc' = [Wake(pc) EXCEPT ![g] = "calling"]
  /\ rpc' = Append(rpc, [op |-> "req", uid |-> g, client |-> NoClient, k |-> 0])
  /\ alone' = [alone EXCEPT ![g] = \A h \in Uids : h < g => pc[h] \in Ended]
  /\ UNCHANGED <<item, lockq, chan, lua, got>>

\* async_request up to exec_lua: a new session replaces whatever was there
Start(g) ==
  /\ pc[g] = "idle"
  /\ \A h \in Uids : h < g => pc[h] # "idle"       \* uids come from count()
  /\ state' = [uid |-> g, done |-> FALSE, acc |-> <<>>]
  /\ held' = Detached
  /\ activity' = TRUE
  /\ pc' = [Wake(pc) EXCEPT ![g] = "calling"]
  /\ rpc' = Append(rpc, [op |-> "req", uid |-> g, client |-> NoClient, k |-> 0])
  /\ alone' = [alone EXCEPT ![g] = \A h \in Uids : h < g => pc[h] \in Ended]
  /\ UNCHANGED <<item, lockq, chan, lua, got>>

\* exec_lua has returned
Called(g) ==
  /\ pc[g] = "called"
  /\ Loop(g, activity)
  /\ UNCHANGED <<activity, chan, lua, alone>>

\* lsp_pull has returned: its part goes to the consumer
Pulled(g) ==
  /\ pc[g] = "pulled"
  /\ pc' = [pc EXCEPT ![g] = "yielded"]
  /\ got' = [got EXCEPT ![g] = @ \union {[reply |-> item[g].reply, from |-> item[g].from]}]
  /\ UNCHANGED <<state, held, item, activity, lockq, rpc, chan, lua, alone>>

\* the consumer asks for more: the next chunk after a full one, or the next reply
Resume(g) ==
  /\ pc[g] = "yielded"
  /\ \/ /\ item[g].full
        /\ item' = [item EXCEPT ![g].k = @ + 1]
        /\ rpc' = Append(rpc, [op |-> "pull", uid |-> g,
                               client |-> item[g].reply.client, k |-> item[g].k + 1])
        /\ pc' = [pc EXCEPT ![g] = "pulling"]
        /\ UNCHANGED <<state, held, lockq, got>>
     \/ /\ ~item[g].full
        /\ Deliver(g, held[g]) \/ Drained(g, held[g], activity)
  /\ UNCHANGED <<activity, chan, lua, alone>>

\* activity.wait() returns
Woken(g) ==
  /\ pc[g] = "woken"
  /\ AfterWait(g)
  /\ UNCHANGED <<state, held, item, activity, rpc, chan, lua, got, alone>>

\* Mutant: the loop does not read _STATE again after the event is cleared
ClearThenWait(g) ==
  /\ pc[g] = "clearing"
  /\ activity' = FALSE
  /\ pc' = [pc EXCEPT ![g] = "waiting"]
  /\ UNCHANGED <<state, held, item, lockq, rpc, chan, lua, got, alone>>

\* sleep(0) is over: clear the event, release the lock, back to the top
Clear(g) ==
  /\ pc[g] = "clearing"
  /\ activity' = FALSE
  /\ Loop(g, FALSE)
  /\ UNCHANGED <<chan, lua, alone>>

\* the consumer is cancelled, or drops the generator at a yield
Cancel(g) ==
  /\ pc[g] \in Suspended
  /\ pc' = [pc EXCEPT ![g] = "cancelled"]
  /\ \/ \E i \in 1 .. Len(lockq) : lockq[i] = g /\ lockq' = RemoveAt(lockq, i)
     \/ (\A i \in 1 .. Len(lockq) : lockq[i] # g) /\ UNCHANGED lockq
  /\ UNCHANGED <<state, held, item, activity, rpc, chan, lua, got, alone>>

-----------------------------------------------------------------------------
(* Notifications, and the queue of the lock.                                *)

\* Mutant: the old list is not copied
RenewedFromNone(p) ==
  [uid |-> p.uid, done |-> p.done, acc |-> <<[uid |-> p.uid, client |-> p.client]>>]

\* the session that replaces _STATE[name] when payload p is not outdated
Renewed(p) ==
  [uid |-> p.uid, done |-> p.done,
   acc |-> Append(IF state.uid = p.uid THEN state.acc ELSE <<>>,
                  [uid |-> p.uid, client |-> p.client])]

\* Mutants: the event is set by the last answer only; outdated answers are stored
NotifiedWhenDone ==
  /\ chan # <<>>
  /\ chan' = Tail(chan)
  /\ IF state.uid = -1 \/ Head(chan).uid >= state.uid
     THEN state' = Renewed(Head(chan)) /\ held' = Detached
     ELSE UNCHANGED <<state, held>>
  /\ IF Head(chan).done /\ LockFree
     THEN activity' = TRUE /\ pc' = Wake(pc)
     ELSE UNCHANGED <<activity, pc>>
  /\ UNCHANGED <<item, lockq, rpc, lua, got, alone>>
NotifiedOutdated ==
  /\ chan # <<>>
  /\ chan' = Tail(chan)
  /\ state' = Renewed(Head(chan)) /\ held' = Detached
  /\ IF LockFree
     THEN activity' = TRUE /\ pc' = Wake(pc) /\ UNCHANGED lockq
     ELSE lockq' = Append(lockq, -1) /\ UNCHANGED <<activity, pc>>
  /\ UNCHANGED <<item, rpc, lua, got, alone>>

\* _lsp_notify up to its lock, and through it when the lock is free
Notified ==
  /\ chan # <<>>
  /\ chan' = Tail(chan)
  /\ IF state.uid = -1 \/ Head(chan).uid >= state.uid
     THEN state' = Renewed(Head(chan)) /\ held' = Detached
     ELSE UNCHANGED <<state, held>>
  /\ IF LockFree
     THEN activity' = TRUE /\ pc' = Wake(pc) /\ UNCHANGED lockq
     ELSE lockq' = Append(lockq, -1) /\ UNCHANGED <<activity, pc>>
  /\ UNCHANGED <<item, rpc, lua, got, alone>>

\* the released lock goes to the head of its queue
Granted ==
  /\ lockq # <<>>
  /\ \A g \in Uids : pc[g] # "clearing"
  /\ lockq' = Tail(lockq)
  /\ IF Head(lockq) = -1
     THEN activity' = TRUE /\ pc' = Wake(pc)
     ELSE pc' = [pc EXCEPT ![Head(lockq)] = "clearing"] /\ UNCHANGED activity
  /\ UNCHANGED <<state, held, item, rpc, chan, lua, got, alone>>

-----------------------------------------------------------------------------
(* Lua.                                                                     *)

\* exec_lua's answer finds the generator in its call, unless it was cancelled meanwhile
Answered(g, call, p) == IF pc[g] = call THEN [pc EXCEPT ![g] = p] ELSE pc

\* Mutant: accs is not emptied for a newer session
LspNotifyKeeping(u, c, done, table, n) ==
  /\ chan' = Append(chan, [uid |-> u, client |-> c, done |-> done])
  /\ cids' = u
  /\ accs' = IF Multipart /\ table THEN [accs EXCEPT ![c] = [from |-> u, chunks |-> n]]
             ELSE accs

\* lsp_notify: a newer session empties accs; a table of items waits there
LspNotify(u, c, done, table, n) ==
  LET kept == IF u > cids THEN [d \in Names |-> NoItems] ELSE accs
  IN /\ chan' = Append(chan, [uid |-> u, client |-> c, done |-> done])
     /\ cids' = u
     /\ accs' = IF ~Multipart THEN accs
                ELSE IF table THEN [kept EXCEPT ![c] = [from |-> u, chunks |-> n]]
                ELSE kept

\* lsp_clients, lua_clients: any of them may be attached, support the method and
\* pass the filter of names
AskedSets == SUBSET Clients

\* req: the new session is current, its clients are asked, none at all is an answer.
\* cancels[name]() tells the clients of the last session, which may answer all the same
LuaReq ==
  LET u == Head(rpc).uid
  IN /\ rpc # <<>> /\ Head(rpc).op = "req"
     /\ rpc' = Tail(rpc)
     /\ current' = u
     /\ pc' = Answered(u, "calling", "called")
     /\ \E C \in AskedSets :
          /\ asked' = [asked EXCEPT ![u] = C]
          /\ pending' = [pending EXCEPT ![u] = C]
          /\ left' = [left EXCEPT ![u] = Cardinality(C)]
          /\ IF C = {} THEN LspNotify(u, NoClient, TRUE, FALSE, 0)
                       ELSE UNCHANGED <<cids, accs, chan>>
     /\ UNCHANGED <<state, held, item, activity, lockq, got, alone>>

\* Mutant: a client may call on_resp again
ClientReplyAgain(u, c) ==
  /\ c \in pending[u]
  /\ left' = [left EXCEPT ![u] = @ - 1]
  /\ \E table \in {FALSE, u = current}, n \in 0 .. MaxChunks :
       /\ table \/ n = 0
       /\ LspNotify(u, c, left[u] - 1 = 0, table, n)
  /\ UNCHANGED <<state, pc, held, item, activity, lockq, rpc, current, pending, got, asked, alone>>

\* on_resp: an answer to a session that is not current any more carries no items
ClientReply(u, c) ==
  /\ c \in pending[u]
  /\ pending' = [pending EXCEPT ![u] = @ \ {c}]
  /\ left' = [left EXCEPT ![u] = @ - 1]
  /\ \E table \in {FALSE, u = current}, n \in 0 .. MaxChunks :
       /\ table \/ n = 0
       /\ LspNotify(u, c, left[u] - 1 = 0, table, n)
  /\ UNCHANGED <<state, pc, held, item, activity, lockq, rpc, current, got, asked, alone>>

\* lsp_pull
LuaPull ==
  LET q == Head(rpc)
      refused == q.uid > cids
      there == accs[q.client]
      some == ~refused /\ there.from # -1 /\ q.k <= there.chunks
  IN /\ rpc # <<>> /\ Head(rpc).op = "pull"
     /\ rpc' = Tail(rpc)
     /\ pc' = Answered(q.uid, "pulling", "pulled")
     /\ item' = IF pc[q.uid] = "pulling"
                THEN [item EXCEPT ![q.uid] =
                        [@ EXCEPT !.from = IF some THEN there.from ELSE -1,
                                  !.full = some /\ q.k < there.chunks,
                                  !.refused = refused]]
                ELSE item
     /\ UNCHANGED <<state, held, activity, lockq, chan, lua, got, alone>>

-----------------------------------------------------------------------------
Next ==
  \/ \E g \in Uids : \/ Start(g) \/ Called(g) \/ Pulled(g) \/ Resume(g)
                     \/ Woken(g) \/ Clear(g) \/ Cancel(g)
  \/ Notified \/ Granted \/ LuaReq \/ LuaPull
  \/ \E u \in Uids, c \in Clients : ClientReply(u, c)

Spec == Init /\ [][Next]_vars

\* Both event loops and nvim's main loop run whatever is ready, a consumer that
\* has not been cancelled keeps iterating, and the clients of the current
\* session answer, as docs/CUSTOM_SOURCES.md asks of a source.  Nothing obliges
\* a request to be made, a consumer to be cancelled or an old client to answer.
Fairness ==
  /\ WF_vars(Notified) /\ WF_vars(Granted) /\ WF_vars(LuaReq) /\ WF_vars(LuaPull)
  /\ \A g \in Uids : WF_vars(Called(g) \/ Pulled(g) \/ Resume(g) \/ Woken(g) \/ Clear(g))
  /\ \A u \in Uids, c \in Clients : WF_vars(u = current /\ ClientReply(u, c))

-----------------------------------------------------------------------------
(* A generator yields only replies to its own session, however many newer and
   older ones share the name: a new session starts with an empty list, and the
   guard of _lsp_notify and what it copies of the old list keep a late reply out
   of another session's.                                                       *)
OwnReplies == \A g \in Uids : \A d \in got[g] : d.reply.uid = g

(* Items pulled from Lua are never those of an older session than the one that
   pulls: lsp_notify empties accs before the first answer of a newer session. *)
NoStaleItems == \A g \in Uids : \A d \in got[g] : d.from = -1 \/ d.from >= g

(* No lost wake-up: while its session is the one of _STATE, a generator asleep
   on the event has nothing to read there, unless a notification that is going
   to set the event is queued for the lock.                                    *)
NoLostWakeup ==
  \A g \in Uids : pc[g] = "waiting" /\ state.uid = g =>
    \/ state.acc = <<>> /\ ~state.done
    \/ \E i \in 1 .. Len(lockq) : lockq[i] = -1

\* g overlaps no other generator: the older ones had ended, no newer one exists
Undisturbed(g) == alone[g] /\ \A h \in Uids : h > g => pc[h] = "idle"

(* A generator that overlaps no other and ends with "done" has yielded the
   answer of every client asked, in whatever order the answers, their
   notifications and its own pulls came.                                       *)
DoneIsComplete ==
  \A g \in Uids : pc[g] = "done" /\ Undisturbed(g) =>
    asked[g] \subseteq {d.reply.client : d \in got[g]}

(* _STATE[name] goes from a session to a newer one or to none, never back.    *)
SessionsAdvance == [][state'.uid = -1 \/ state'.uid >= state.uid]_state

(* A generator that overlaps no other ends, once every client has answered: as
   requests are bounded, there comes a time from which on none is under way.   *)
NewestEnds == <>[](\A g \in Uids : Undisturbed(g) => pc[g] \in {"idle"} \union Ended)

-----------------------------------------------------------------------------
(* What the comments and documents of the code say, and the code does not do.  *)

(* docs/CUSTOM_SOURCES.md:15 sources "can optionally support cancellation": one
   that answers a session which is over does not make Lua refuse the items of
   the session that is current.                                                *)
CurrentIsServed == \A g \in Uids : pc[g] = "pulled" /\ item[g].refused => g # current

-----------------------------------------------------------------------------
(* What a consumer is promised, see LspRequest.                               *)

Phase ==
  [g \in Uids |-> IF pc[g] = "idle" THEN "idle" ELSE IF pc[g] \in Ended THEN "closed" ELSE "open"]

\* "none at all" is the answer of a session that has asked nobody
AnsweredTo ==
  [u \in Uids |-> (asked[u] \ pending[u])
                 \union IF u <= current /\ asked[u] = {} THEN {NoClient} ELSE {}]

Yields == [g \in Uids |-> {d.reply : d \in got[g]}]

Requests == INSTANCE LspRequest WITH phase <- Phase, answered <- AnsweredTo, yields <- Yields

(* The request layer implements that promise.                                 *)
RequestsSpec == Requests!Spec
=============================================================================
