------------------------ MODULE CompletionFlow_proofs ------------------------
(***************************************************************************)
(* The completion flow is typed, an item is never applied in a context     *)
(* older than the one it was found for, and a menu that is open when        *)
(* nothing is under way is of the buffer as it is.                         *)
(*                                                                         *)
(* FlowInv is the inductive invariant.  Its heart is the order of the one   *)
(* line in which the server's calls are answered: the replies in inbox,     *)
(* then the calls that nvim has not served.  What has been asked first is    *)
(* answered first, with the tick of then or a later one, so that contexts   *)
(* reach the state in the order of their changes and of their positions.    *)
(*                                                                         *)
(* Then the launcher: one server runs.  And the two side by side.          *)
(***************************************************************************)
EXTENDS MCFlow, SequenceTheorems, FiniteSetTheorems, TLAPS

\* The line of answers: a place in it, whose it is, who waits and who stands before whom.
NoId == <<"none", 0>>

Slots(inb, cs) == 1 .. Len(inb) + Len(cs)
IdAt(inb, cs, i) ==
  IF i <= Len(inb) THEN IF inb[i].kind = "reply" THEN inb[i].id ELSE NoId
  ELSE cs[i - Len(inb)].id

IsWaiting(inb, cs, p) == \E i \in Slots(inb, cs) : IdAt(inb, cs, i) = p
IsBefore(inb, cs, p, q) ==
  \E i, j \in Slots(inb, cs) : i < j /\ IdAt(inb, cs, i) = p /\ IdAt(inb, cs, j) = q

Waits(p) == IsWaiting(inbox, calls, p)
Before(p, q) == IsBefore(inbox, calls, p, q)

\* What is on the channel.
Events == [kind : {"lines", "omni"}, n : Nat]
Dones == [kind : {"done"}, item : Context]
Replies == [kind : {"reply"}, id : TaskIds, tick : Ticks, legal : BOOLEAN]
Asks == [kind : {"status", "cursor", "text"}, id : TaskIds]
Sends == [kind : {"send"}, id : TaskIds, items : Items]

IsReply(i) == i \in DOMAIN inbox /\ inbox[i].kind = "reply"
IsEvent(i) == i \in DOMAIN inbox /\ inbox[i].kind \in {"lines", "omni"}

\* The types, those of the messages and of the finished edit included.
Typed ==
  /\ tick \in Ticks /\ insert \in BOOLEAN /\ menu \in Menus /\ (menu \in Context => insert)
  /\ scheduled \in Seq(Items) /\ asked \in 0 .. MaxManual /\ blocked \in BOOLEAN
  /\ inbox \in Seq(Events \union Dones \union Replies) /\ calls \in Seq(Asks \union Sends)
  /\ cell \in State /\ metrics \in Items
  /\ \A p \in DOMAIN tasks : p \in TaskIds /\ tasks[p] \in Tasks
  /\ DOMAIN collects = {p \in DOMAIN tasks : tasks[p].at = "collect"}
  /\ \A p \in DOMAIN collects : collects[p] \in {"running", "stopping"}
  /\ DOMAIN fate = Ticks
  /\ finish.at \in {"none", "resolving", "editing"}
  /\ finish.at = "resolving" => finish.item \in Context /\ finish.s \in State
  /\ finish.at = "editing" => finish.pos \in Ticks

\* nvim waits for one thing at a time: a request in the inbox, or the handler of CompleteDone.
IsRequest(i) == i \in DOMAIN inbox /\ inbox[i].kind \in {"omni", "done"}
OneRequest ==
  /\ \A i, j \in DOMAIN inbox : IsRequest(i) /\ IsRequest(j) => i = j
  /\ finish.at # "none" => \A i \in DOMAIN inbox : ~IsRequest(i)
  /\ blocked <=> finish.at # "none" \/ \E i \in DOMAIN inbox : IsRequest(i)

\* A task that is under way, or an answer that still comes for one; a task whose turn comes with
\* an answer; a task at a point.
Known(p) == p \in DOMAIN tasks \/ Waits(p)
Pending(p) == p \in DOMAIN tasks /\ tasks[p].at # "collect"
At(p, at) == p \in DOMAIN tasks /\ tasks[p].at = at
Asking(p) == At(p, "cursor") \/ At(p, "text")

KindOf(p) == IF IsAuto(p) THEN "lines" ELSE "omni"
CountOf(kind) == IF kind = "lines" THEN tick ELSE asked

\* A task that is not collecting waits for one answer.
InLine == \A p \in DOMAIN tasks : Pending(p) => Waits(p) /\ ~Before(p, p)

\* Tasks are numbered as they are asked for: none has the number of an event to come.
Numbers ==
  /\ \A p \in TaskIds : Known(p) => p[2] <= CountOf(KindOf(p))
  /\ \A i \in DOMAIN inbox : IsEvent(i) =>
       /\ inbox[i].n <= CountOf(inbox[i].kind)
       /\ \A p \in TaskIds : Known(p) /\ KindOf(p) = inbox[i].kind => p[2] < inbox[i].n
       /\ \A j \in DOMAIN inbox : i < j /\ inbox[j].kind = inbox[i].kind => inbox[i].n < inbox[j].n
       /\ inbox[i].kind = "lines" => cell.change_id < inbox[i].n

\* One change has a task, and only a change is asked about whether completion is legal.
OneAuto ==
  /\ \A p, q \in DOMAIN tasks : IsAuto(p) /\ IsAuto(q) => p = q
  /\ \A p \in DOMAIN tasks : At(p, "status") => IsAuto(p)

\* change_id of the state that a task has copied.
Seen(p) == tasks[p].s.change_id

\* The change_id a task has seen grows along the line of answers, and the state is at its end.
Changes ==
  /\ cell.context.change <= cell.change_id /\ cell.change_id <= tick
  /\ \A p \in DOMAIN tasks : IsAuto(p) /\ At(p, "status") => cell.change_id < p[2]
  /\ \A p \in DOMAIN tasks : Asking(p) =>
       /\ cell.context.change <= Seen(p) /\ Seen(p) <= cell.change_id
       /\ IsAuto(p) => Seen(p) = p[2]
  /\ \A p, q \in DOMAIN tasks : At(p, "text") /\ At(q, "cursor") => Seen(p) <= Seen(q)
  /\ \A p, q \in DOMAIN tasks : Before(p, q) /\ tasks[p].at = tasks[q].at /\ Asking(p) => Seen(p) <= Seen(q)

\* So does the position that a task has read, and the tick of the replies.
Positions ==
  /\ \A i, j \in DOMAIN inbox : i < j /\ IsReply(i) /\ IsReply(j) => inbox[i].tick <= inbox[j].tick
  /\ \A i \in DOMAIN inbox : IsReply(i) =>
       /\ inbox[i].tick <= tick
       /\ cell.change_id <= inbox[i].tick /\ cell.context.pos <= inbox[i].tick
       /\ IsAuto(inbox[i].id) => inbox[i].id[2] <= inbox[i].tick
       /\ \A p \in DOMAIN tasks : At(p, "text") => tasks[p].ctx.pos <= inbox[i].tick
  /\ \A p \in DOMAIN tasks : At(p, "text") =>
       /\ cell.context.pos <= tasks[p].ctx.pos /\ tasks[p].ctx.pos <= tick
       /\ Seen(p) <= tasks[p].ctx.pos
  /\ \A p, q \in DOMAIN tasks : At(p, "text") /\ At(q, "text") /\ Before(p, q) => tasks[p].ctx.pos <= tasks[q].ctx.pos

\* A context that has been read: neither its position nor its text is older than its change.
Sound(c) == c.change <= c.pos /\ c.pos <= tick /\ c.change <= c.text /\ c.text <= tick
SoundItem(x) == x \in Context => Sound(x)

\* All contexts that are kept or under way have been read so.
Contexts ==
  /\ Sound(cell.context)
  /\ \A p \in DOMAIN tasks : At(p, "collect") => Sound(tasks[p].ctx)
  /\ SoundItem(metrics) /\ SoundItem(menu)
  /\ \A i \in DOMAIN scheduled : SoundItem(scheduled[i])
  /\ \A i \in DOMAIN calls : calls[i].kind = "send" => SoundItem(calls[i].items)

NotNewer(c, d) == c.change <= d.change /\ c.pos <= d.pos

\* No context of a collect, of metrics or of an item that is being resolved is newer than the
\* context of the state it is applied in.
Ordered ==
  /\ \A p \in DOMAIN tasks : At(p, "collect") => NotNewer(tasks[p].ctx, cell.context)
  /\ metrics \in Context => NotNewer(metrics, cell.context)
  /\ finish.at = "resolving" => NotNewer(finish.item, finish.s.context)
  /\ ContextIsNotOlder

Fresh(x, n) == x \in Context => x.change = n
IsSend(cs, i) == i \in DOMAIN cs /\ cs[i].kind = "send"
\* What will be shown once everything that is on its way to nvim has come: items of change n,
\* or none.
NewestIsFresh(cs, sch, m, n) ==
  /\ \A i \in DOMAIN cs : IsSend(cs, i) /\ (\A j \in DOMAIN cs : j > i => ~IsSend(cs, j)) => Fresh(cs[i].items, n)
  /\ (\A i \in DOMAIN cs : ~IsSend(cs, i)) => IF sch # <<>> THEN Fresh(sch[Len(sch)], n) ELSE Fresh(m, n)

\* A collect for change n that nobody has stopped.
Running(n) == \E p \in DOMAIN collects : collects[p] = "running" /\ tasks[p].ctx.change = n

\* The newest change is skipped, on its way, being asked about, or served.
Newest ==
  \/ fate[tick] = "skipped"
  \/ \E i \in DOMAIN inbox : inbox[i].kind = "lines" /\ inbox[i].n = tick
  \/ \E p \in DOMAIN tasks : p = Automatic(tick) /\ tasks[p].at \in {"status", "cursor", "text"}
  \/ /\ cell.change_id = tick
     /\ \A p \in DOMAIN tasks : Asking(p) => Seen(p) = tick
     /\ Running(tick) \/ NewestIsFresh(calls, scheduled, menu, tick)

FlowInv ==
  /\ Typed /\ OneRequest /\ InLine /\ Numbers /\ OneAuto
  /\ Changes /\ Positions /\ Contexts /\ Ordered /\ Newest

-----------------------------------------------------------------------------
(* The line of answers, as sequences.                                       *)

LEMMA SeqEnds ==
  ASSUME NEW S, NEW s \in Seq(S)
  PROVE  /\ Len(s) \in Nat /\ DOMAIN s = 1 .. Len(s)
         /\ \A x \in S : /\ Append(s, x) \in Seq(S) /\ Len(Append(s, x)) = Len(s) + 1
                         /\ Append(s, x)[Len(s) + 1] = x
                         /\ \A i \in 1 .. Len(s) : Append(s, x)[i] = s[i]
         /\ s # <<>> => /\ Head(s) = s[1] /\ Head(s) \in S /\ Tail(s) \in Seq(S) /\ Len(s) >= 1
                        /\ Len(Tail(s)) = Len(s) - 1 /\ \A i \in 1 .. Len(s) - 1 : Tail(s)[i] = s[i + 1]
<1>1. Len(s) \in Nat /\ DOMAIN s = 1 .. Len(s) OBVIOUS
<1>2. \A x \in S : /\ Append(s, x) \in Seq(S) /\ Len(Append(s, x)) = Len(s) + 1
                   /\ Append(s, x)[Len(s) + 1] = x
                   /\ \A i \in 1 .. Len(s) : Append(s, x)[i] = s[i]
  BY AppendProperties
<1>3. ASSUME s # <<>> 
      PROVE  /\ Head(s) = s[1] /\ Head(s) \in S /\ Tail(s) \in Seq(S) /\ Len(s) >= 1
             /\ Len(Tail(s)) = Len(s) - 1 /\ \A i \in 1 .. Len(s) - 1 : Tail(s)[i] = s[i + 1]
  BY <1>3, HeadTailProperties
<1> QED BY <1>1, <1>2, <1>3

\* an event that is put in the inbox is waited for by nobody
LEMMA PutEvent ==
  ASSUME NEW M, NEW C, NEW inb \in Seq(M), NEW cs \in Seq(C), NEW e \in M, e.kind # "reply",
         NEW p, NEW q, p # NoId, q # NoId
  PROVE  /\ IsWaiting(Append(inb, e), cs, p) <=> IsWaiting(inb, cs, p)
         /\ IsBefore(Append(inb, e), cs, p, q) => IsBefore(inb, cs, p, q)
<1> DEFINE n == Len(inb)
           m == Len(cs)
           new == Append(inb, e)
           Old(i) == IF i <= n THEN i ELSE i - 1
<1>1. n \in Nat /\ m \in Nat /\ Len(new) = n + 1 /\ new[n + 1] = e /\ \A i \in 1 .. n : new[i] = inb[i]
  BY SeqEnds
<1> HIDE DEF n, m, new
<1>2. Slots(inb, cs) = 1 .. n + m /\ Slots(new, cs) = 1 .. n + m + 1 BY <1>1 DEF Slots, n, m
<1>3. IdAt(new, cs, n + 1) = NoId BY <1>1 DEF IdAt
<1>4. ASSUME NEW i \in 1 .. n + m + 1, i # n + 1
      PROVE  Old(i) \in 1 .. n + m /\ IdAt(new, cs, i) = IdAt(inb, cs, Old(i))
  <2>1. CASE i <= n BY <1>1, <2>1 DEF IdAt, n
  <2>2. CASE i > n + 1
    <3>1. Old(i) = i - 1 /\ i - 1 \in 1 .. n + m /\ ~(i - 1 <= n) /\ ~(i <= n + 1) BY <1>1, <2>2
    <3>2. i - (n + 1) = (i - 1) - n BY <1>1
    <3> QED BY <1>1, <3>1, <3>2 DEF IdAt, n
  <2> QED BY <1>1, <1>4, <2>1, <2>2
<1>5. ASSUME NEW i \in 1 .. n + m
      PROVE  \E j \in 1 .. n + m + 1 : IdAt(new, cs, j) = IdAt(inb, cs, i)
  <2>1. CASE i <= n
    <3>1. i \in 1 .. n + m + 1 /\ i # n + 1 /\ Old(i) = i BY <1>1, <2>1
    <3> QED BY <1>4, <3>1
  <2>2. CASE i > n
    <3>1. i + 1 \in 1 .. n + m + 1 /\ i + 1 # n + 1 /\ Old(i + 1) = i BY <1>1, <2>2
    <3> QED BY <1>4, <3>1
  <2> QED BY <1>1, <2>1, <2>2
<1>6. ASSUME NEW i \in 1 .. n + m + 1, NEW j \in 1 .. n + m + 1, i < j, i # n + 1, j # n + 1
      PROVE  Old(i) < Old(j)
  BY <1>1, <1>6
<1>7. IsWaiting(new, cs, p) <=> IsWaiting(inb, cs, p)
  <2>1. ASSUME IsWaiting(new, cs, p) PROVE IsWaiting(inb, cs, p)
    <3>1. PICK i \in 1 .. n + m + 1 : IdAt(new, cs, i) = p BY <1>2, <2>1 DEF IsWaiting
    <3>2. i # n + 1 BY <1>3, <3>1
    <3> QED BY <1>2, <1>4, <3>1, <3>2 DEF IsWaiting
  <2>2. ASSUME IsWaiting(inb, cs, p) PROVE IsWaiting(new, cs, p)
    BY <1>2, <1>5, <2>2 DEF IsWaiting
  <2> QED BY <2>1, <2>2
<1>8. ASSUME IsBefore(new, cs, p, q) PROVE IsBefore(inb, cs, p, q)
  <2>1. PICK i \in 1 .. n + m + 1, j \in 1 .. n + m + 1 : i < j /\ IdAt(new, cs, i) = p /\ IdAt(new, cs, j) = q
    BY <1>2, <1>8 DEF IsBefore
  <2>2. i # n + 1 /\ j # n + 1 BY <1>3, <2>1
  <2>3. /\ Old(i) \in 1 .. n + m /\ Old(j) \in 1 .. n + m /\ IdAt(inb, cs, Old(i)) = p /\ IdAt(inb, cs, Old(j)) = q
    BY <1>4, <2>1, <2>2
  <2>4. Old(i) < Old(j) BY <1>6, <2>1, <2>2
  <2> HIDE DEF Old
  <2> QED BY <1>2, <2>3, <2>4 DEF IsBefore
<1> QED BY <1>7, <1>8 DEF new

\* a call that is served keeps its place
LEMMA ServeKeepsPlace ==
  ASSUME NEW M, NEW C, NEW inb \in Seq(M), NEW cs \in Seq(C), cs # <<>>, NEW r \in M, r.kind = "reply",
         r.id = Head(cs).id, NEW p, NEW q
  PROVE  /\ IsWaiting(Append(inb, r), Tail(cs), p) <=> IsWaiting(inb, cs, p)
         /\ IsBefore(Append(inb, r), Tail(cs), p, q) <=> IsBefore(inb, cs, p, q)
<1> DEFINE n == Len(inb)
           m == Len(cs)
           new == Append(inb, r)
           rest == Tail(cs)
<1>1. /\ n \in Nat /\ Len(new) = n + 1 /\ new[n + 1] = r /\ \A i \in 1 .. n : new[i] = inb[i]
      /\ m \in Nat /\ m >= 1 /\ Len(rest) = m - 1 /\ Head(cs) = cs[1] /\ \A i \in 1 .. m - 1 : rest[i] = cs[i + 1]
  BY SeqEnds
<1> HIDE DEF n, m, new, rest
<1>2. Slots(inb, cs) = 1 .. n + m /\ Slots(new, rest) = 1 .. n + m BY <1>1 DEF Slots, n, m
<1>3. ASSUME NEW i \in 1 .. n + m
      PROVE  IdAt(new, rest, i) = IdAt(inb, cs, i)
  <2>1. CASE i <= n BY <1>1, <2>1 DEF IdAt, n
  <2>2. CASE i = n + 1
    <3>1. IdAt(new, rest, i) = r.id BY <1>1, <2>2 DEF IdAt
    <3>2. ~(i <= n) /\ i - n = 1 BY <1>1, <2>2
    <3>3. IdAt(inb, cs, i) = cs[1].id BY <3>2 DEF IdAt, n
    <3> QED BY <1>1, <3>1, <3>3
  <2>3. CASE i > n + 1
    <3>1. ~(i <= n) /\ ~(i <= n + 1) /\ i - (n + 1) \in 1 .. m - 1 /\ (i - (n + 1)) + 1 = i - n BY <1>1, <2>3
    <3>2. IdAt(new, rest, i) = rest[i - (n + 1)].id BY <1>1, <3>1 DEF IdAt
    <3>3. IdAt(inb, cs, i) = cs[i - n].id BY <3>1 DEF IdAt, n
    <3> QED BY <1>1, <3>1, <3>2, <3>3
  <2> QED BY <1>1, <2>1, <2>2, <2>3
<1> QED BY <1>2, <1>3 DEF IsWaiting, IsBefore, new, rest

\* what is taken from the inbox moves the others one up
LEMMA TakeHead ==
  ASSUME NEW M, NEW C, NEW inb \in Seq(M), NEW cs \in Seq(C), inb # <<>>, NEW p, NEW q
  PROVE  /\ IsWaiting(Tail(inb), cs, p) => IsWaiting(inb, cs, p)
         /\ IsWaiting(Tail(inb), cs, p) /\ Head(inb).kind = "reply" => IsBefore(inb, cs, Head(inb).id, p)
         /\ IsWaiting(inb, cs, p) /\ p # IdAt(inb, cs, 1) => IsWaiting(Tail(inb), cs, p)
         /\ IsBefore(Tail(inb), cs, p, q) => IsBefore(inb, cs, p, q)
         /\ IdAt(inb, cs, 1) = (IF Head(inb).kind = "reply" THEN Head(inb).id ELSE NoId)
         /\ Head(inb).kind = "reply" => IsWaiting(inb, cs, Head(inb).id)
<1> DEFINE n == Len(inb)
           m == Len(cs)
           rest == Tail(inb)
<1>1. /\ n \in Nat /\ n >= 1 /\ Len(rest) = n - 1 /\ Head(inb) = inb[1] /\ \A i \in 1 .. n - 1 : rest[i] = inb[i + 1]
      /\ m \in Nat
  BY SeqEnds
<1> HIDE DEF n, m, rest
<1>2. Slots(inb, cs) = 1 .. n + m /\ Slots(rest, cs) = 1 .. n + m - 1 BY <1>1 DEF Slots, n, m
<1>3. IdAt(inb, cs, 1) = (IF Head(inb).kind = "reply" THEN Head(inb).id ELSE NoId) BY <1>1 DEF IdAt, n
<1>4. ASSUME NEW i \in 1 .. n + m - 1
      PROVE  i + 1 \in 1 .. n + m /\ IdAt(rest, cs, i) = IdAt(inb, cs, i + 1)
  <2>1. i + 1 \in 1 .. n + m BY <1>1
  <2>2. CASE i <= n - 1 BY <1>1, <2>1, <2>2 DEF IdAt, n
  <2>3. CASE ~(i <= n - 1)
    <3>1. ~(i + 1 <= n) /\ (i + 1) - n = i - (n - 1) BY <1>1, <2>3
    <3> QED BY <1>1, <2>1, <2>3, <3>1 DEF IdAt, n
  <2> QED BY <2>2, <2>3
<1>5. ASSUME IsWaiting(rest, cs, p) PROVE \E i \in 1 .. n + m : 1 < i /\ IdAt(inb, cs, i) = p
  <2>1. PICK i \in 1 .. n + m - 1 : IdAt(rest, cs, i) = p BY <1>2, <1>5 DEF IsWaiting
  <2>2. i + 1 \in 1 .. n + m /\ 1 < i + 1 /\ IdAt(inb, cs, i + 1) = p BY <1>1, <1>4, <2>1
  <2> QED BY <2>2
<1>6. 1 \in 1 .. n + m BY <1>1
<1>7. ASSUME IsWaiting(inb, cs, p), p # IdAt(inb, cs, 1) PROVE IsWaiting(rest, cs, p)
  <2>1. PICK i \in 1 .. n + m : IdAt(inb, cs, i) = p BY <1>2, <1>7 DEF IsWaiting
  <2>2. i - 1 \in 1 .. n + m - 1 /\ (i - 1) + 1 = i BY <1>1, <1>7, <2>1
  <2>3. IdAt(rest, cs, i - 1) = p BY <1>4, <2>1, <2>2
  <2> QED BY <1>2, <2>2, <2>3 DEF IsWaiting
<1>8. ASSUME IsBefore(rest, cs, p, q) PROVE IsBefore(inb, cs, p, q)
  <2>1. PICK i \in 1 .. n + m - 1, j \in 1 .. n + m - 1 : i < j /\ IdAt(rest, cs, i) = p /\ IdAt(rest, cs, j) = q
    BY <1>2, <1>8 DEF IsBefore
  <2>2. i + 1 < j + 1 BY <1>1, <2>1
  <2> QED BY <1>2, <1>4, <2>1, <2>2 DEF IsBefore
<1>9. ASSUME Head(inb).kind = "reply" PROVE IsWaiting(inb, cs, Head(inb).id)
  BY <1>2, <1>3, <1>6, <1>9 DEF IsWaiting
<1>10. ASSUME IsWaiting(rest, cs, p) PROVE IsWaiting(inb, cs, p)
  BY <1>2, <1>5, <1>10 DEF IsWaiting
<1>11. ASSUME IsWaiting(rest, cs, p), Head(inb).kind = "reply" PROVE IsBefore(inb, cs, Head(inb).id, p)
  BY <1>2, <1>3, <1>5, <1>6, <1>11 DEF IsBefore
<1> QED BY <1>3, <1>7, <1>8, <1>9, <1>10, <1>11 DEF rest

\* a call stands behind all others
LEMMA PutCall ==
  ASSUME NEW M, NEW C, NEW inb \in Seq(M), NEW cs \in Seq(C), NEW c \in C, NEW p, NEW q
  PROVE  /\ IsWaiting(inb, Append(cs, c), p) <=> IsWaiting(inb, cs, p) \/ p = c.id
         /\ IsBefore(inb, Append(cs, c), p, q) => IsBefore(inb, cs, p, q) \/ (IsWaiting(inb, cs, p) /\ q = c.id)
<1> DEFINE n == Len(inb)
           m == Len(cs)
           new == Append(cs, c)
<1>1. n \in Nat /\ m \in Nat /\ Len(new) = m + 1 /\ new[m + 1] = c /\ \A i \in 1 .. m : new[i] = cs[i]
  BY SeqEnds
<1> HIDE DEF n, m, new
<1>2. Slots(inb, cs) = 1 .. n + m /\ Slots(inb, new) = 1 .. n + m + 1 BY <1>1 DEF Slots, n, m
<1>3. IdAt(inb, new, n + m + 1) = c.id
  <2>1. ~(n + m + 1 <= n) /\ n + m + 1 - n = m + 1 BY <1>1
  <2> QED BY <1>1, <2>1 DEF IdAt, n
<1>4. ASSUME NEW i \in 1 .. n + m PROVE IdAt(inb, new, i) = IdAt(inb, cs, i)
  <2>1. CASE i <= n BY <2>1 DEF IdAt, n
  <2>2. CASE ~(i <= n)
    <3>1. i - n \in 1 .. m BY <1>1, <2>2
    <3> QED BY <1>1, <2>2, <3>1 DEF IdAt, n
  <2> QED BY <2>1, <2>2
<1>5. \A i \in 1 .. n + m + 1 : i \in 1 .. n + m \/ i = n + m + 1 BY <1>1
<1>6. \A i \in 1 .. n + m : i \in 1 .. n + m + 1 BY <1>1
<1>7. n + m + 1 \in 1 .. n + m + 1 BY <1>1
<1>8. IsWaiting(inb, new, p) <=> IsWaiting(inb, cs, p) \/ p = c.id
  BY <1>2, <1>3, <1>4, <1>5, <1>6, <1>7 DEF IsWaiting
<1>9. ASSUME IsBefore(inb, new, p, q)
      PROVE  IsBefore(inb, cs, p, q) \/ (IsWaiting(inb, cs, p) /\ q = c.id)
  <2>1. PICK i \in 1 .. n + m + 1, j \in 1 .. n + m + 1 : i < j /\ IdAt(inb, new, i) = p /\ IdAt(inb, new, j) = q
    BY <1>2, <1>9 DEF IsBefore
  <2>2. i \in 1 .. n + m BY <1>1, <2>1
  <2>3. CASE j \in 1 .. n + m BY <1>2, <1>4, <2>1, <2>2, <2>3 DEF IsBefore
  <2>4. CASE j = n + m + 1 BY <1>2, <1>3, <1>4, <2>1, <2>2, <2>4 DEF IsWaiting
  <2> QED BY <1>5, <2>3, <2>4
<1> QED BY <1>8, <1>9 DEF new

-----------------------------------------------------------------------------
(* The line of answers, as the steps move it.                               *)

LEMMA Ids ==
  /\ \A n \in Nat : /\ Automatic(n) \in TaskIds /\ IsAuto(Automatic(n)) /\ Automatic(n)[2] = n
                    /\ Manual(n) \in TaskIds /\ ~IsAuto(Manual(n)) /\ Manual(n)[2] = n
  /\ \A p \in TaskIds : p # NoId /\ p[2] \in Nat /\ p = IF IsAuto(p) THEN Automatic(p[2]) ELSE Manual(p[2])
BY DEF TaskIds, Automatic, Manual, IsAuto, NoId

LEMMA ChannelTypes ==
  ASSUME Typed
  PROVE  /\ inbox \in Seq(Events \union Dones \union Replies) /\ calls \in Seq(Asks \union Sends)
         /\ \A i \in DOMAIN inbox : inbox[i] \in Events \union Dones \union Replies
         /\ \A i \in DOMAIN calls : calls[i] \in Asks \union Sends
         /\ inbox # <<>> => /\ Head(inbox) \in Events \union Dones \union Replies
                            /\ Head(inbox).kind = "reply" => Head(inbox) \in Replies
                            /\ Head(inbox).kind \in {"lines", "omni"} => Head(inbox) \in Events
                            /\ Head(inbox).kind = "done" => Head(inbox) \in Dones
<1> DEFINE M == Events \union Dones \union Replies
           C == Asks \union Sends
<1>1. inbox \in Seq(M) /\ calls \in Seq(C) BY DEF Typed
<1>2. inbox # <<>> => Head(inbox) \in M
  <2> HIDE DEF M
  <2> QED BY <1>1
<1>3. (\A i \in DOMAIN inbox : inbox[i] \in M) /\ (\A i \in DOMAIN calls : calls[i] \in C)
  <2> HIDE DEF M, C
  <2> QED BY <1>1
<1>4. \A x \in M : /\ x.kind = "reply" => x \in Replies
                   /\ x.kind \in {"lines", "omni"} => x \in Events
                   /\ x.kind = "done" => x \in Dones
  BY DEF Events, Dones, Replies
<1> QED BY <1>1, <1>2, <1>3, <1>4

\* no other task than h comes nearer to its answer or further from it
Untouched(h) ==
  /\ \A p \in TaskIds : p # h => (Waits(p)' <=> Waits(p))
  /\ \A p, q \in TaskIds : p # h /\ q # h /\ Before(p, q)' => Before(p, q)

OneTask(h) == \A p \in DOMAIN tasks' : p # h => p \in DOMAIN tasks /\ tasks'[p] = tasks[p]

LEMMA NewCall ==
  ASSUME Typed, inbox # <<>>, Head(inbox).kind # "reply", inbox' = Tail(inbox),
         NEW c \in Asks, calls' = Append(calls, c)
  PROVE  /\ Untouched(c.id) /\ Waits(c.id)'
         /\ \A p, q \in TaskIds : Before(p, q)' => Before(p, q) \/ (Waits(p) /\ q = c.id)
<1> DEFINE M == Events \union Dones \union Replies
           C == Asks \union Sends
           rest == Tail(inbox)
<1>1. inbox \in Seq(M) /\ calls \in Seq(C) /\ rest \in Seq(M) BY ChannelTypes, SeqEnds
<1>2. c \in C /\ c.id \in TaskIds BY DEF Asks
<1> HIDE DEF M, C
<1>3. \A p, q \in TaskIds :
        /\ IsWaiting(rest, calls, p) <=> IsWaiting(inbox, calls, p)
        /\ IsBefore(rest, calls, p, q) => IsBefore(inbox, calls, p, q)
  BY <1>1, Ids, TakeHead
<1>4. \A p, q \in TaskIds :
        /\ IsWaiting(rest, Append(calls, c), p) <=> IsWaiting(rest, calls, p) \/ p = c.id
        /\ IsBefore(rest, Append(calls, c), p, q) => IsBefore(rest, calls, p, q) \/ (IsWaiting(rest, calls, p) /\ q = c.id)
  <2> HIDE DEF rest
  <2> TAKE p, q \in TaskIds
  <2> QED BY <1>1, <1>2, PutCall
<1>5. \A p, q \in TaskIds :
        /\ Waits(p)' <=> Waits(p) \/ p = c.id
        /\ Before(p, q)' => Before(p, q) \/ (Waits(p) /\ q = c.id)
  BY <1>3, <1>4 DEF Waits, Before
<1> QED BY <1>2, <1>5 DEF Untouched

LEMMA ReplyTaken ==
  ASSUME Typed, InLine, Take("reply"), NEW h, h = Head(inbox).id,
         calls' = calls \/ \E c \in Asks \union Sends : c.id = h /\ calls' = Append(calls, c)
  PROVE  /\ h \in TaskIds /\ Waits(h) /\ Untouched(h)
         /\ Pending(h) => \A q \in TaskIds : /\ Waits(q) /\ q # h => Before(h, q)
                                             /\ ~Before(h, q)'
         /\ (\E c \in Asks \union Sends : c.id = h /\ calls' = Append(calls, c)) => Waits(h)'
<1> DEFINE M == Events \union Dones \union Replies
           C == Asks \union Sends
           rest == Tail(inbox)
<1>1. inbox \in Seq(M) /\ calls \in Seq(C) /\ inbox # <<>> /\ inbox' = rest /\ Head(inbox).kind = "reply"
  BY ChannelTypes DEF Take
<1>2. h \in TaskIds BY <1>1, ChannelTypes DEF Replies
<1>3. rest \in Seq(M) BY <1>1, SeqEnds
<1> HIDE DEF M, C
<1>4. \A p, q \in TaskIds :
        /\ IsWaiting(rest, calls, p) => IsWaiting(inbox, calls, p) /\ IsBefore(inbox, calls, h, p)
        /\ IsWaiting(inbox, calls, p) /\ p # h => IsWaiting(rest, calls, p)
        /\ IsBefore(rest, calls, p, q) => IsBefore(inbox, calls, p, q)
  BY <1>1, TakeHead
<1>5. Waits(h) BY <1>1, TakeHead DEF Waits
<1>6. \A q \in TaskIds : IsBefore(rest, calls, h, q) => IsWaiting(rest, calls, h)
  BY DEF IsBefore, IsWaiting
<1>7. Pending(h) => ~IsWaiting(rest, calls, h)
  <2>1. Pending(h) => h \in DOMAIN tasks /\ ~Before(h, h) BY DEF Pending, InLine
  <2> QED BY <1>2, <1>4, <2>1 DEF Before
<1>8. CASE calls' = calls
  <2>1. \A p, q \in TaskIds : (Waits(p)' <=> IsWaiting(rest, calls, p)) /\ (Before(p, q)' <=> IsBefore(rest, calls, p, q))
    BY <1>1, <1>8 DEF Waits, Before
  <2>2. Untouched(h) BY <1>4, <2>1 DEF Untouched, Waits, Before
  <2>3. Pending(h) => \A q \in TaskIds : (Waits(q) /\ q # h => Before(h, q)) /\ ~Before(h, q)'
    BY <1>2, <1>4, <1>6, <1>7, <2>1 DEF Waits, Before
  <2>4. \A c \in C : Append(calls, c) # calls
    <3> TAKE c \in C
    <3>1. Len(Append(calls, c)) = Len(calls) + 1 /\ Len(calls) \in Nat BY <1>1, SeqEnds
    <3> QED BY <3>1
  <2> QED BY <1>2, <1>5, <1>8, <2>2, <2>3, <2>4 DEF C
<1>9. CASE \E c \in C : c.id = h /\ calls' = Append(calls, c)
  <2>1. PICK c \in C : c.id = h /\ calls' = Append(calls, c) BY <1>9
  <2>2. \A p, q \in TaskIds :
          /\ IsWaiting(rest, Append(calls, c), p) <=> IsWaiting(rest, calls, p) \/ p = h
          /\ IsBefore(rest, Append(calls, c), p, q) => IsBefore(rest, calls, p, q) \/ (IsWaiting(rest, calls, p) /\ q = h)
    <3> HIDE DEF rest
    <3> TAKE p, q \in TaskIds
    <3>1. /\ IsWaiting(rest, Append(calls, c), p) <=> IsWaiting(rest, calls, p) \/ p = c.id
          /\ IsBefore(rest, Append(calls, c), p, q) => IsBefore(rest, calls, p, q) \/ (IsWaiting(rest, calls, p) /\ q = c.id)
      BY <1>1, <1>3, PutCall
    <3> QED BY <2>1, <3>1
  <2>3. \A p, q \in TaskIds :
          /\ Waits(p)' <=> IsWaiting(rest, calls, p) \/ p = h
          /\ Before(p, q)' => IsBefore(rest, calls, p, q) \/ (IsWaiting(rest, calls, p) /\ q = h)
    BY <1>1, <2>1, <2>2 DEF Waits, Before
  <2>4. Untouched(h) BY <1>4, <2>3 DEF Untouched, Waits, Before
  <2>5. Waits(h)' BY <1>2, <2>3
  <2>6. Pending(h) => \A q \in TaskIds : (Waits(q) /\ q # h => Before(h, q)) /\ ~Before(h, q)'
    BY <1>2, <1>4, <1>6, <1>7, <2>3 DEF Waits, Before
  <2> QED BY <1>2, <1>5, <2>4, <2>5, <2>6
<1> QED BY <1>8, <1>9 DEF C

LEMMA SendPut ==
  ASSUME Typed, inbox' = inbox, NEW c \in Sends, calls' = Append(calls, c)
  PROVE  Untouched(c.id)
<1> DEFINE M == Events \union Dones \union Replies
           C == Asks \union Sends
<1>1. inbox \in Seq(M) /\ calls \in Seq(C) BY ChannelTypes
<1>2. c \in C OBVIOUS
<1> HIDE DEF M, C
<1>3. \A p, q \in TaskIds :
        /\ IsWaiting(inbox, Append(calls, c), p) <=> IsWaiting(inbox, calls, p) \/ p = c.id
        /\ IsBefore(inbox, Append(calls, c), p, q) => IsBefore(inbox, calls, p, q) \/ (IsWaiting(inbox, calls, p) /\ q = c.id)
  BY <1>1, <1>2, PutCall
<1> QED BY <1>3 DEF Untouched, Waits, Before

-----------------------------------------------------------------------------
(* Types.                                                                   *)

LEMMA NoContexts == Nothing \notin Context /\ [other |-> TRUE] \notin Context
<1>1. \A c \in Context : DOMAIN c = {"change", "pos", "text", "manual"} BY DEF Context
<1>2. DOMAIN Nothing = {"none"} /\ DOMAIN [other |-> TRUE] = {"other"} BY DEF Nothing
<1>3. {"none"} # {"change", "pos", "text", "manual"} /\ {"other"} # {"change", "pos", "text", "manual"} OBVIOUS
<1> QED BY <1>1, <1>2, <1>3

LEMMA TaskTypes ==
  ASSUME Typed
  PROVE  /\ cell.change_id \in Ticks /\ cell.context \in Context
         /\ \A p \in DOMAIN tasks : /\ p \in TaskIds /\ tasks[p].at \in Points
                                    /\ tasks[p].s \in State /\ tasks[p].ctx \in Context
         /\ \A c \in Context : c.change \in Ticks /\ c.pos \in Ticks /\ c.text \in Ticks
         /\ \A s \in State : s.change_id \in Ticks /\ s.context \in Context
         /\ \A n \in Ticks : n \in Nat
         /\ tick \in Nat /\ asked \in Nat
<1>1. \A t \in Tasks : t.at \in Points /\ t.s \in State /\ t.ctx \in Context BY DEF Tasks
<1>2. \A s \in State : s.change_id \in Ticks /\ s.context \in Context BY DEF State
<1>3. \A c \in Context : c.change \in Ticks /\ c.pos \in Ticks /\ c.text \in Ticks BY DEF Context
<1>4. \A n \in Ticks : n \in Nat BY FlowAssumption DEF Ticks
<1>5. asked \in Nat BY FlowAssumption DEF Typed
<1> QED BY <1>1, <1>2, <1>3, <1>4, <1>5 DEF Typed

TypedNvim ==
  /\ tick \in Ticks /\ insert \in BOOLEAN /\ menu \in Menus /\ (menu \in Context => insert)
  /\ asked \in 0 .. MaxManual /\ blocked \in BOOLEAN

LEMMA TypedNvimStep == Typed /\ [FlowNext]_flowVars => TypedNvim'
<1> SUFFICES ASSUME Typed, [FlowNext]_flowVars PROVE TypedNvim' OBVIOUS
<1>1. TypedNvim BY DEF Typed, TypedNvim
<1>2. /\ Nothing \in Menus /\ [other |-> TRUE] \in Menus /\ Items \subseteq Menus BY DEF Menus, Items
<1>3. CASE tick' = tick /\ insert' = insert /\ menu' = menu /\ asked' = asked /\ blocked' \in BOOLEAN
  BY <1>1, <1>3 DEF TypedNvim
<1>4. CASE Type
  <2>1. tick' \in Ticks BY <1>1, <1>4, FlowAssumption DEF Type, TypedNvim, Ticks
  <2> QED BY <1>1, <1>2, <1>4, <2>1, NoContexts DEF Type, TypedNvim
<1>5. CASE LeaveInsert BY <1>1, <1>2, <1>5, NoContexts DEF LeaveInsert, TypedNvim
<1>6. CASE EnterInsert BY <1>1, <1>6 DEF EnterInsert, TypedNvim
<1>7. CASE OtherMenu BY <1>1, <1>2, <1>7, NoContexts DEF OtherMenu, TypedNvim
<1>8. CASE AskManual
  <2>1. asked' \in 0 .. MaxManual BY <1>1, <1>8, FlowAssumption DEF AskManual, TypedNvim
  <2> QED BY <1>1, <1>2, <1>8, <2>1, NoContexts DEF AskManual, TypedNvim
<1>9. CASE Accept BY <1>1, <1>2, <1>9, NoContexts DEF Accept, TypedNvim
<1>10. CASE ShowComp
  <2>1. Head(scheduled) \in Items
    <3>1. scheduled \in Seq(Items) /\ scheduled # <<>> BY <1>10 DEF Typed, ShowComp
    <3> QED BY <3>1, SeqEnds
  <2> QED BY <1>1, <1>2, <1>10, <2>1 DEF ShowComp, TypedNvim
<1>11. CASE DoneEdits
  <2>1. tick' \in Ticks BY <1>1, <1>11, FlowAssumption DEF DoneEdits, TypedNvim, Ticks
  <2> QED BY <1>1, <1>11, <2>1 DEF DoneEdits, TypedNvim
<1>12. CASE Serve BY <1>1, <1>12 DEF Serve, TypedNvim
<1>13. CASE Receive BY <1>1, <1>13 DEF Receive, LinesEvent, Omnifunc, Status, Cursor, Text, Closed, LateReply, DoneStarts, nvim, TypedNvim
<1>14. CASE Collected BY <1>1, <1>14 DEF Collected, CollectEnds, CollectCancelled, nvim, TypedNvim
<1>15. CASE DoneEnds BY <1>1, <1>15 DEF DoneEnds, TypedNvim
<1>16. CASE UNCHANGED flowVars BY <1>1, <1>16 DEF flowVars, nvim, TypedNvim
<1> QED BY <1>4, <1>5, <1>6, <1>7, <1>8, <1>9, <1>10, <1>11, <1>12, <1>13, <1>14, <1>15, <1>16 DEF FlowNext, User, Finish

TypedChannel ==
  /\ scheduled \in Seq(Items)
  /\ inbox \in Seq(Events \union Dones \union Replies) /\ calls \in Seq(Asks \union Sends)

LEMMA Puts ==
  ASSUME Typed
  PROVE  /\ \A e \in Events \union Dones \union Replies :
              Append(inbox, e) \in Seq(Events \union Dones \union Replies)
         /\ inbox # <<>> => Tail(inbox) \in Seq(Events \union Dones \union Replies)
         /\ \A c \in Asks \union Sends : Append(calls, c) \in Seq(Asks \union Sends)
         /\ calls # <<>> => Tail(calls) \in Seq(Asks \union Sends) /\ Head(calls) \in Asks \union Sends
<1> DEFINE M == Events \union Dones \union Replies
           C == Asks \union Sends
<1>1. inbox \in Seq(M) /\ calls \in Seq(C) BY DEF Typed
<1> HIDE DEF M, C
<1>2. /\ \A e \in M : Append(inbox, e) \in Seq(M)
      /\ inbox # <<>> => Tail(inbox) \in Seq(M)
      /\ \A c \in C : Append(calls, c) \in Seq(C)
      /\ calls # <<>> => Tail(calls) \in Seq(C) /\ Head(calls) \in C
  BY <1>1, SeqEnds
<1> QED BY <1>2 DEF M, C

LEMMA Messages ==
  /\ \A n \in Nat : Event("lines", n) \in Events /\ Event("omni", n) \in Events
  /\ \A n \in Nat, kind \in {"lines", "omni"} : Event(kind, n).kind = kind /\ Event(kind, n).n = n
  /\ \A p \in TaskIds, kind \in {"status", "cursor", "text"} : Call(kind, p) \in Asks /\ Call(kind, p).id = p /\ Call(kind, p).kind = kind
  /\ \A p \in TaskIds, x \in Items : Send(x, p) \in Sends /\ Send(x, p).id = p /\ Send(x, p).kind = "send" /\ Send(x, p).items = x
BY DEF Event, Events, Call, Asks, Send, Sends

LEMMA HeadIds ==
  ASSUME Typed, inbox # <<>>
  PROVE  /\ Head(inbox).kind = "reply" => Head(inbox).id \in TaskIds /\ Head(inbox).tick \in Ticks /\ Head(inbox).legal \in BOOLEAN
         /\ Head(inbox).kind \in {"lines", "omni"} => Head(inbox).n \in Nat
         /\ Head(inbox).kind = "done" => Head(inbox).item \in Context
BY ChannelTypes DEF Replies, Events, Dones

LEMMA TypedChannelStep == Typed /\ [FlowNext]_flowVars => TypedChannel'
<1> SUFFICES ASSUME Typed, [FlowNext]_flowVars PROVE TypedChannel' OBVIOUS
<1> DEFINE M == Events \union Dones \union Replies
           C == Asks \union Sends
<1>1. /\ scheduled \in Seq(Items) /\ inbox \in Seq(M) /\ calls \in Seq(C) BY DEF Typed
<1>2. Events \subseteq M /\ Dones \subseteq M /\ Replies \subseteq M /\ Asks \subseteq C /\ Sends \subseteq C OBVIOUS
<1>3. (\A e \in M : Append(inbox, e) \in Seq(M)) /\ (inbox # <<>> => Tail(inbox) \in Seq(M))
  BY Puts
<1>4. (\A c \in C : Append(calls, c) \in Seq(C)) /\ (calls # <<>> => Tail(calls) \in Seq(C) /\ Head(calls) \in C)
  BY Puts
<1>5. Nothing \in Items /\ Context \subseteq Items BY DEF Items
<1>6. TypedChannel' <=> scheduled' \in Seq(Items) /\ inbox' \in Seq(M) /\ calls' \in Seq(C) BY DEF TypedChannel
<1> HIDE DEF M, C
<1>7. CASE Type
  <2>1. tick' \in Nat BY <1>7, TaskTypes DEF Type
  <2> QED BY <1>1, <1>2, <1>3, <1>6, <1>7, <2>1, Messages DEF Type
<1>8. CASE LeaveInsert BY <1>1, <1>6, <1>8 DEF LeaveInsert
<1>9. CASE EnterInsert BY <1>1, <1>6, <1>9 DEF EnterInsert
<1>10. CASE OtherMenu BY <1>1, <1>6, <1>10 DEF OtherMenu
<1>11. CASE AskManual
  <2>1. asked' \in Nat BY <1>11, TaskTypes DEF AskManual
  <2> QED BY <1>1, <1>2, <1>3, <1>6, <1>11, <2>1, Messages DEF AskManual
<1>12. CASE Accept
  <2>1. [kind |-> "done", item |-> menu] \in Dones BY <1>12 DEF Accept, Dones
  <2> QED BY <1>1, <1>2, <1>3, <1>6, <1>12, <2>1 DEF Accept
<1>13. CASE ShowComp
  <2>1. Tail(scheduled) \in Seq(Items) BY <1>1, <1>13, SeqEnds DEF ShowComp
  <2> QED BY <1>1, <1>6, <1>13, <2>1 DEF ShowComp
<1>14. CASE Serve
  <2> DEFINE c == Head(calls)
             r == [kind |-> "reply", id |-> c.id, tick |-> tick, legal |-> insert /\ menu # [other |-> TRUE]]
  <2>1. c \in C /\ Tail(calls) \in Seq(C) BY <1>4, <1>14 DEF Serve
  <2>2. c.id \in TaskIds /\ (c.kind = "send" => c.items \in Items) BY <2>1 DEF C, Asks, Sends
  <2>3. tick \in Ticks /\ insert \in BOOLEAN BY DEF Typed
  <2>4. r \in Replies
    <3> HIDE DEF c
    <3> QED BY <2>2, <2>3 DEF Replies
  <2>5. scheduled' \in Seq(Items)
    <3>1. scheduled' = IF c.kind = "send" THEN Append(scheduled, c.items) ELSE scheduled BY <1>14 DEF Serve
    <3> HIDE DEF c
    <3> QED BY <1>1, <2>2, <3>1
  <2>6. inbox' = Append(inbox, r) /\ calls' = Tail(calls) BY <1>14 DEF Serve
  <2> HIDE DEF c, r
  <2> QED BY <1>2, <1>3, <1>6, <2>1, <2>4, <2>5, <2>6
<1>15. CASE LinesEvent
  <2>1. Head(inbox).n \in Nat /\ inbox # <<>> BY <1>15, HeadIds DEF LinesEvent, Take
  <2>2. Call("status", Automatic(Head(inbox).n)) \in C BY <1>2, <2>1, Ids, Messages
  <2>3. inbox' = Tail(inbox) /\ calls' = Append(calls, Call("status", Automatic(Head(inbox).n))) /\ scheduled' = scheduled
    BY <1>15 DEF LinesEvent, Take, nvim
  <2> QED BY <1>1, <1>3, <1>4, <1>6, <2>1, <2>2, <2>3
<1>16. CASE Omnifunc
  <2>1. Head(inbox).n \in Nat /\ inbox # <<>> BY <1>16, HeadIds DEF Omnifunc, Take
  <2>2. Call("cursor", Manual(Head(inbox).n)) \in C BY <1>2, <2>1, Ids, Messages
  <2>3. inbox' = Tail(inbox) /\ calls' = Append(calls, Call("cursor", Manual(Head(inbox).n))) /\ scheduled' = scheduled
    BY <1>16 DEF Omnifunc, Take
  <2> QED BY <1>1, <1>3, <1>4, <1>6, <2>1, <2>2, <2>3
<1>17. ASSUME NEW at, Reply(at)
       PROVE  /\ inbox # <<>> /\ inbox' = Tail(inbox) /\ Head(inbox).id \in TaskIds
              /\ \A kind \in {"status", "cursor", "text"} : Call(kind, Head(inbox).id) \in C
              /\ \A x \in Items : Send(x, Head(inbox).id) \in C
  <2>1. inbox # <<>> /\ inbox' = Tail(inbox) /\ Head(inbox).id \in TaskIds BY <1>17, HeadIds DEF Reply, Take
  <2> QED BY <1>2, <2>1, Messages
<1>18. CASE Status
  <2>1. scheduled' = scheduled /\ (calls' = calls \/ calls' = Append(calls, Call("cursor", Head(inbox).id)))
    BY <1>18 DEF Status, nvim
  <2>2. Reply("status") BY <1>18 DEF Status
  <2> QED BY <1>1, <1>3, <1>4, <1>6, <1>17, <2>1, <2>2
<1>19. CASE Cursor
  <2>1. scheduled' = scheduled /\ calls' = Append(calls, Call("text", Head(inbox).id)) /\ Reply("cursor")
    BY <1>19 DEF Cursor, nvim
  <2> QED BY <1>1, <1>3, <1>4, <1>6, <1>17, <2>1
<1>20. CASE Text
  <2>1. /\ scheduled' = scheduled /\ Reply("text")
        /\ calls' = calls \/ calls' = Append(calls, Send(Nothing, Head(inbox).id))
    BY <1>20 DEF Text, Complete, nvim
  <2> QED BY <1>1, <1>3, <1>4, <1>5, <1>6, <1>17, <2>1
<1>21. CASE Closed
  <2>1. scheduled' = scheduled /\ calls' = calls /\ Reply("closing") BY <1>21 DEF Closed, nvim
  <2> QED BY <1>1, <1>3, <1>6, <1>17, <2>1
<1>22. CASE LateReply \/ DoneStarts
  <2>1. scheduled' = scheduled /\ calls' = calls /\ inbox # <<>> /\ inbox' = Tail(inbox)
    BY <1>22 DEF LateReply, DoneStarts, Take, nvim
  <2> QED BY <1>1, <1>3, <1>6, <2>1
<1>23. CASE Collected
  <2>1. PICK id \in DOMAIN collects : CollectEnds(id) \/ CollectCancelled(id) BY <1>23 DEF Collected
  <2>2. id \in DOMAIN tasks BY DEF Typed
  <2>3. id \in TaskIds /\ tasks[id].ctx \in Context BY <2>2, TaskTypes
  <2>4. scheduled' = scheduled /\ inbox' = inbox /\ (calls' = calls \/ calls' = Append(calls, Send(tasks[id].ctx, id)))
    BY <2>1 DEF CollectEnds, CollectCancelled, Complete, nvim
  <2>5. Send(tasks[id].ctx, id) \in C BY <1>2, <1>5, <2>3, Messages
  <2> QED BY <1>1, <1>4, <1>6, <2>4, <2>5
<1>24. CASE DoneEdits
  <2>1. tick + 1 \in Nat BY TaskTypes
  <2>2. /\ scheduled' = scheduled /\ calls' = calls
        /\ inbox' = inbox \/ inbox' = Append(inbox, Event("lines", tick + 1))
    BY <1>24 DEF DoneEdits
  <2>3. Event("lines", tick + 1) \in M BY <1>2, <2>1, Messages
  <2> QED BY <1>1, <1>3, <1>6, <2>2, <2>3
<1>25. CASE DoneEnds BY <1>1, <1>6, <1>25 DEF DoneEnds
<1>26. CASE UNCHANGED flowVars BY <1>1, <1>6, <1>26 DEF flowVars, nvim
<1> QED BY <1>7, <1>8, <1>9, <1>10, <1>11, <1>12, <1>13, <1>14, <1>15, <1>16, <1>18, <1>19, <1>20, <1>21,
           <1>22, <1>23, <1>24, <1>25, <1>26 DEF FlowNext, User, Finish, Receive

TypedServer ==
  /\ cell \in State /\ metrics \in Items
  /\ \A p \in DOMAIN tasks : p \in TaskIds /\ tasks[p] \in Tasks
  /\ DOMAIN collects = {p \in DOMAIN tasks : tasks[p].at = "collect"}
  /\ \A p \in DOMAIN collects : collects[p] \in {"running", "stopping"}
  /\ DOMAIN fate = Ticks

TypedFinish ==
  /\ finish.at \in {"none", "resolving", "editing"}
  /\ finish.at = "resolving" => finish.item \in Context /\ finish.s \in State
  /\ finish.at = "editing" => finish.pos \in Ticks

LEMMA TypedFinishStep == Typed /\ [FlowNext]_flowVars => TypedFinish'
<1> SUFFICES ASSUME Typed, [FlowNext]_flowVars PROVE TypedFinish' OBVIOUS
<1>1. TypedFinish BY DEF Typed, TypedFinish
<1>2. CASE finish' = finish BY <1>1, <1>2 DEF TypedFinish
<1>3. CASE DoneStarts
  <2>1. CASE Head(inbox).item = metrics
    <3>1. finish' = [at |-> "resolving", item |-> metrics, s |-> cell] BY <1>3, <2>1 DEF DoneStarts
    <3>2. metrics \in Context BY <1>3, <2>1, HeadIds DEF DoneStarts, Take
    <3> QED BY <3>1, <3>2 DEF Typed, TypedFinish
  <2>2. CASE Head(inbox).item # metrics BY <1>2, <1>3, <2>2 DEF DoneStarts
  <2> QED BY <2>1, <2>2
<1>4. CASE DoneEdits
  <2>1. CASE finish.item = metrics /\ tick < MaxTick
    <3>1. finish' = [at |-> "editing", pos |-> tick + 1] BY <1>4, <2>1 DEF DoneEdits
    <3>2. tick + 1 \in Ticks BY <2>1, TaskTypes, FlowAssumption DEF Ticks
    <3> QED BY <3>1, <3>2 DEF TypedFinish
  <2>2. CASE ~(finish.item = metrics /\ tick < MaxTick)
    <3>1. finish' = [at |-> "none"] BY <1>4, <2>2 DEF DoneEdits
    <3> QED BY <3>1 DEF TypedFinish
  <2> QED BY <2>1, <2>2
<1>5. CASE DoneEnds BY <1>5 DEF DoneEnds, TypedFinish
<1>6. CASE User BY <1>2, <1>6 DEF User, Type, LeaveInsert, EnterInsert, OtherMenu, AskManual, Accept, server
<1>7. CASE ShowComp \/ Serve BY <1>2, <1>7 DEF ShowComp, Serve, server
<1>8. CASE Receive BY <1>2, <1>3, <1>8 DEF Receive, LinesEvent, Omnifunc, Status, Cursor, Text, Closed, LateReply, server
<1>9. CASE Collected BY <1>2, <1>9 DEF Collected, CollectEnds, CollectCancelled
<1>10. CASE UNCHANGED flowVars BY <1>2, <1>10 DEF flowVars
<1> QED BY <1>4, <1>5, <1>6, <1>7, <1>8, <1>9, <1>10 DEF FlowNext, Finish

LEMMA NewTask ==
  ASSUME Typed, NEW at \in Points
  PROVE  LET t == [at |-> at, s |-> cell, ctx |-> NoContext] IN
           t \in Tasks /\ t.at = at /\ t.s = cell
<1>1. NoContext \in Context BY FlowAssumption DEF NoContext, Context, Ticks
<1>2. cell \in State BY DEF Typed
<1> QED BY <1>1, <1>2 DEF Tasks

LEMMA StateKept ==
  ASSUME Typed
  PROVE  /\ \A n \in Ticks : LET s == [cell EXCEPT !.change_id = n] IN
              s \in State /\ s.change_id = n /\ s.context = cell.context
         /\ \A ctx \in Context : LET s == [cell EXCEPT !.context = ctx] IN
              s \in State /\ s.change_id = cell.change_id /\ s.context = ctx
         /\ LET s == [cell EXCEPT !.inserted_pos = NoPos] IN
              s \in State /\ s.change_id = cell.change_id /\ s.context = cell.context
         /\ \A n \in Ticks, d \in BOOLEAN : LET s == [cell EXCEPT !.inserted_pos = n, !.is_dir = d] IN
              s \in State /\ s.change_id = cell.change_id /\ s.context = cell.context
<1>1. cell \in State BY DEF Typed
<1> QED BY <1>1 DEF State

LEMMA TaskTakesState ==
  ASSUME NEW t \in Tasks, NEW at \in Points, NEW s \in State
  PROVE  LET u == [t EXCEPT !.at = at, !.s = s] IN u \in Tasks /\ u.at = at /\ u.s = s
BY DEF Tasks

LEMMA TaskTakesContext ==
  ASSUME NEW t \in Tasks, NEW at \in Points, NEW ctx \in Context
  PROVE  LET u == [t EXCEPT !.at = at, !.ctx = ctx] IN u \in Tasks /\ u.at = at /\ u.s = t.s /\ u.ctx = ctx
BY DEF Tasks

LEMMA TaskTakesPos ==
  ASSUME NEW t \in Tasks, NEW at \in Points, NEW n \in Ticks
  PROVE  LET u == [t EXCEPT !.at = at, !.ctx.pos = n] IN u \in Tasks /\ u.at = at /\ u.s = t.s /\ u.ctx.pos = n
BY DEF Tasks, Context

\* the answer that a task waits for
LEMMA Answered ==
  ASSUME Typed, NEW at, Reply(at)
  PROVE  LET h == Head(inbox).id IN
         /\ inbox # <<>> /\ inbox' = Tail(inbox) /\ Take("reply") /\ Head(inbox) \in Replies
         /\ h \in DOMAIN tasks /\ tasks[h] \in Tasks /\ tasks[h].at = at
         /\ h \in TaskIds /\ Head(inbox).tick \in Ticks /\ Head(inbox).legal \in BOOLEAN
BY HeadIds, ChannelTypes DEF Reply, Take, Typed

LEMMA ContextRead ==
  ASSUME Typed, NEW h \in DOMAIN tasks, NEW text \in Ticks
  PROVE  LET ctx == ContextOf(h, text) IN
         /\ ctx \in Context /\ ctx.change = tasks[h].s.change_id /\ ctx.pos = tasks[h].ctx.pos /\ ctx.text = text
         /\ ctx.manual = ~IsAuto(h)
<1>1. tasks[h].s.change_id \in Ticks /\ tasks[h].ctx.pos \in Ticks BY TaskTypes
<1> QED BY <1>1 DEF ContextOf, Context, IsAuto

\* what the tasks and their collects are after each step of the server
LEMMA LinesEventSets ==
  ASSUME Typed, LinesEvent
  PROVE  LET n == Head(inbox).n
             h == Automatic(n)
             t == [at |-> "status", s |-> cell, ctx |-> NoContext]
         IN  /\ n \in Nat /\ h \in TaskIds /\ inbox # <<>> /\ Head(inbox).kind = "lines" /\ inbox' = Tail(inbox)
             /\ DOMAIN tasks' = {p \in DOMAIN tasks : ~IsAuto(p)} \union {h} /\ tasks'[h] = t /\ t \in Tasks
             /\ \A p \in DOMAIN tasks' : p # h => tasks'[p] = tasks[p]
             /\ DOMAIN collects' = {p \in DOMAIN collects : ~IsAuto(p)}
             /\ \A p \in DOMAIN collects' : collects'[p] = "stopping"
             /\ calls' = Append(calls, Call("status", h))
             /\ UNCHANGED <<nvim, cell, metrics, finish, fate, used>>
<1> DEFINE n == Head(inbox).n
           h == Automatic(n)
           t == [at |-> "status", s |-> cell, ctx |-> NoContext]
           autos == {id \in DOMAIN tasks : IsAuto(id)}
<1>1. inbox # <<>> /\ Head(inbox).kind = "lines" /\ inbox' = Tail(inbox) BY DEF LinesEvent, Take
<1>2. n \in Nat BY <1>1, HeadIds
<1>3. h \in TaskIds /\ IsAuto(h) BY <1>2, Ids
<1>4. t \in Tasks BY NewTask DEF Points
<1>5. /\ tasks' = With(Without(tasks, autos), h, t) /\ calls' = Append(calls, Call("status", h))
      /\ collects' = Stopping(Without(collects, autos))
      /\ UNCHANGED <<nvim, cell, metrics, finish, fate, used>>
  BY DEF LinesEvent
<1>6. DOMAIN collects \subseteq DOMAIN tasks BY DEF Typed
<1> HIDE DEF n, h, t
<1>7. DOMAIN Without(tasks, autos) = {p \in DOMAIN tasks : ~IsAuto(p)} BY DEF With, Without, Stopping
<1>8. DOMAIN tasks' = {p \in DOMAIN tasks : ~IsAuto(p)} \union {h} /\ tasks'[h] = t BY <1>5, <1>7 DEF With, Without, Stopping
<1>9. ASSUME NEW p \in DOMAIN tasks', p # h PROVE tasks'[p] = tasks[p]
  <2>1. p \in DOMAIN tasks \ autos BY <1>8, <1>9
  <2>2. Without(tasks, autos)[p] = tasks[p] BY <2>1 DEF With, Without, Stopping
  <2>3. tasks'[p] = Without(tasks, autos)[p] BY <1>5, <1>7, <1>9, <2>1 DEF With, Without, Stopping
  <2> QED BY <2>2, <2>3
<1>10. /\ DOMAIN collects' = {p \in DOMAIN collects : ~IsAuto(p)}
       /\ \A p \in DOMAIN collects' : collects'[p] = "stopping"
  <2>1. DOMAIN Without(collects, autos) = {p \in DOMAIN collects : ~IsAuto(p)} BY <1>6 DEF With, Without, Stopping
  <2> QED BY <1>5, <2>1 DEF With, Without, Stopping
<1> QED BY <1>1, <1>2, <1>3, <1>4, <1>5, <1>8, <1>9, <1>10 DEF n, h, t

LEMMA OmnifuncSets ==
  ASSUME Typed, Omnifunc
  PROVE  LET n == Head(inbox).n
             h == Manual(n)
             t == [at |-> "cursor", s |-> cell, ctx |-> NoContext]
         IN  /\ n \in Nat /\ h \in TaskIds /\ inbox # <<>> /\ Head(inbox).kind = "omni" /\ inbox' = Tail(inbox)
             /\ DOMAIN tasks' = DOMAIN tasks \union {h} /\ tasks'[h] = t /\ t \in Tasks
             /\ \A p \in DOMAIN tasks' : p # h => tasks'[p] = tasks[p]
             /\ calls' = Append(calls, Call("cursor", h))
             /\ UNCHANGED <<tick, insert, menu, scheduled, asked, cell, metrics, collects, finish, fate, used>>
<1> DEFINE n == Head(inbox).n
           h == Manual(n)
           t == [at |-> "cursor", s |-> cell, ctx |-> NoContext]
<1>1. inbox # <<>> /\ Head(inbox).kind = "omni" /\ inbox' = Tail(inbox) BY DEF Omnifunc, Take
<1>2. n \in Nat BY <1>1, HeadIds
<1>3. h \in TaskIds BY <1>2, Ids
<1>4. t \in Tasks BY NewTask DEF Points
<1>5. /\ tasks' = With(tasks, h, t) /\ calls' = Append(calls, Call("cursor", h))
      /\ UNCHANGED <<tick, insert, menu, scheduled, asked, cell, metrics, collects, finish, fate, used>>
  BY DEF Omnifunc
<1> HIDE DEF n, h, t
<1>6. DOMAIN tasks' = DOMAIN tasks \union {h} /\ tasks'[h] = t /\ \A p \in DOMAIN tasks' : p # h => tasks'[p] = tasks[p]
  BY <1>5 DEF With, Without, Stopping
<1> QED BY <1>1, <1>2, <1>3, <1>4, <1>5, <1>6 DEF n, h, t

LEMMA StatusSets ==
  ASSUME Typed, Status
  PROVE  LET h == Head(inbox).id
             s == [cell EXCEPT !.change_id = h[2]]
         IN  /\ cell' = s
             /\ \/ /\ DOMAIN tasks' = DOMAIN tasks /\ tasks'[h] = [tasks[h] EXCEPT !.at = "cursor", !.s = s]
                   /\ \A p \in DOMAIN tasks : p # h => tasks'[p] = tasks[p]
                   /\ calls' = Append(calls, Call("cursor", h)) /\ fate' = fate
                \/ /\ DOMAIN tasks' = DOMAIN tasks \ {h} /\ \A p \in DOMAIN tasks' : tasks'[p] = tasks[p]
                   /\ calls' = calls /\ fate' = [fate EXCEPT ![h[2]] = "skipped"]
             /\ UNCHANGED <<nvim, metrics, collects, finish, used>>
<1> DEFINE h == Head(inbox).id
           s == [cell EXCEPT !.change_id = h[2]]
<1>1. /\ cell' = s /\ UNCHANGED <<nvim, metrics, collects, finish, used>>
      /\ \/ /\ tasks' = [tasks EXCEPT ![h].at = "cursor", ![h].s = s]
            /\ calls' = Append(calls, Call("cursor", h)) /\ fate' = fate
         \/ tasks' = Without(tasks, {h}) /\ calls' = calls /\ fate' = [fate EXCEPT ![h[2]] = "skipped"]
  BY DEF Status
<1>2. h \in DOMAIN tasks BY Answered DEF Status
<1> HIDE DEF h, s
<1>3. CASE /\ tasks' = [tasks EXCEPT ![h].at = "cursor", ![h].s = s]
           /\ calls' = Append(calls, Call("cursor", h)) /\ fate' = fate
  BY <1>1, <1>2, <1>3 DEF h, s
<1>4. CASE tasks' = Without(tasks, {h}) /\ calls' = calls /\ fate' = [fate EXCEPT ![h[2]] = "skipped"]
  BY <1>1, <1>2, <1>4 DEF h, s, With, Without, Stopping
<1> QED BY <1>1, <1>3, <1>4

LEMMA CursorSets ==
  ASSUME Typed, Cursor
  PROVE  LET h == Head(inbox).id IN
         /\ DOMAIN tasks' = DOMAIN tasks /\ tasks'[h] = [tasks[h] EXCEPT !.at = "text", !.ctx.pos = Head(inbox).tick]
         /\ \A p \in DOMAIN tasks : p # h => tasks'[p] = tasks[p]
         /\ calls' = Append(calls, Call("text", h))
         /\ UNCHANGED <<nvim, cell, metrics, collects, finish, fate, used>>
<1>1. Head(inbox).id \in DOMAIN tasks BY Answered DEF Cursor
<1> QED BY <1>1 DEF Cursor

LEMMA TextSets ==
  ASSUME Typed, Text
  PROVE  LET h == Head(inbox).id
             ctx == ContextOf(h, Head(inbox).tick)
         IN  /\ DOMAIN tasks' = DOMAIN tasks /\ \A p \in DOMAIN tasks : p # h => tasks'[p] = tasks[p]
             /\ ctx \in Context
             /\ \/ /\ cell' = [cell EXCEPT !.context = ctx] /\ fate' = fate
                   /\ tasks'[h] = [tasks[h] EXCEPT !.at = "collect", !.ctx = ctx]
                   /\ DOMAIN collects' = DOMAIN collects \union {h} /\ collects'[h] = "running"
                   /\ \A p \in DOMAIN collects : p # h => collects'[p] = "stopping"
                   /\ \/ UNCHANGED <<metrics, calls>>
                      \/ metrics' = Nothing /\ calls' = Append(calls, Send(Nothing, h))
                \/ /\ cell' = cell /\ collects' = collects /\ fate' = [fate EXCEPT ![ctx.change] = "refused"]
                   /\ ~ctx.manual /\ tasks'[h] = [tasks[h] EXCEPT !.at = "closing", !.ctx = ctx]
                   /\ metrics' = Nothing /\ calls' = Append(calls, Send(Nothing, h))
             /\ UNCHANGED <<nvim, finish, used>>
<1> DEFINE h == Head(inbox).id
           ctx == ContextOf(h, Head(inbox).tick)
           Taken == /\ cell' = [cell EXCEPT !.context = ctx] /\ fate' = fate
                    /\ tasks' = [tasks EXCEPT ![h].at = "collect", ![h].ctx = ctx]
                    /\ collects' = With(Stopping(collects), h, "running")
                    /\ UNCHANGED <<metrics, calls>> \/ (metrics' = Nothing /\ calls' = Append(calls, Send(Nothing, h)))
           Refused == /\ cell' = cell /\ collects' = collects /\ fate' = [fate EXCEPT ![ctx.change] = "refused"]
                      /\ ~ctx.manual /\ tasks' = [tasks EXCEPT ![h].at = "closing", ![h].ctx = ctx]
                      /\ metrics' = Nothing /\ calls' = Append(calls, Send(Nothing, h))
<1>1. h \in DOMAIN tasks /\ Head(inbox).tick \in Ticks BY Answered DEF Text
<1>2. ctx \in Context BY <1>1, ContextRead
<1>3. (Taken \/ Refused) /\ UNCHANGED <<nvim, finish, used>>
  <2>1. PICK skips \in BOOLEAN :
          IF ShouldCont(tasks[h].s, ctx, skips)
          THEN /\ cell' = [cell EXCEPT !.context = ctx]
               /\ tasks' = [tasks EXCEPT ![h].at = "collect", ![h].ctx = ctx]
               /\ collects' = With(Stopping(collects), h, "running")
               /\ fate' = fate
               /\ \E fast \in FastClose :
                    IF fast THEN Complete(Nothing, h, calls) ELSE UNCHANGED <<metrics, calls>>
          ELSE /\ tasks' = [tasks EXCEPT ![h].at = "closing", ![h].ctx = ctx]
               /\ Complete(Nothing, h, calls)
               /\ fate' = [fate EXCEPT ![ctx.change] = "refused"]
               /\ UNCHANGED <<cell, collects>>
    BY DEF Text
  <2>2. UNCHANGED <<nvim, finish, used>> BY DEF Text
  <2>3. ~ShouldCont(tasks[h].s, ctx, skips) => ~ctx.manual BY DEF ShouldCont
  <2> HIDE DEF h, ctx
  <2> QED BY <2>1, <2>2, <2>3 DEF Complete
<1> HIDE DEF h, ctx
<1>4. CASE Taken
  <2>1. /\ DOMAIN tasks' = DOMAIN tasks /\ \A p \in DOMAIN tasks : p # h => tasks'[p] = tasks[p]
        /\ tasks'[h] = [tasks[h] EXCEPT !.at = "collect", !.ctx = ctx]
    BY <1>1, <1>4 DEF h
  <2>2. /\ DOMAIN collects' = DOMAIN collects \union {h} /\ collects'[h] = "running"
        /\ \A p \in DOMAIN collects : p # h => collects'[p] = "stopping"
    BY <1>4 DEF With, Without, Stopping
  <2> QED BY <1>2, <1>3, <1>4, <2>1, <2>2 DEF h, ctx
<1>5. CASE Refused
  <2>1. /\ DOMAIN tasks' = DOMAIN tasks /\ \A p \in DOMAIN tasks : p # h => tasks'[p] = tasks[p]
        /\ tasks'[h] = [tasks[h] EXCEPT !.at = "closing", !.ctx = ctx]
    BY <1>1, <1>5 DEF h
  <2> QED BY <1>2, <1>3, <1>5, <2>1 DEF h, ctx
<1> QED BY <1>3, <1>4, <1>5

LEMMA CollectedSets ==
  ASSUME Typed, NEW h \in DOMAIN collects, CollectEnds(h) \/ CollectCancelled(h)
  PROVE  /\ h \in DOMAIN tasks /\ h \in TaskIds /\ tasks[h].at = "collect" /\ tasks[h].ctx \in Context
         /\ DOMAIN tasks' = DOMAIN tasks \ {h} /\ \A p \in DOMAIN tasks' : tasks'[p] = tasks[p]
         /\ DOMAIN collects' = DOMAIN collects \ {h} /\ \A p \in DOMAIN collects' : collects'[p] = collects[p]
         /\ \/ /\ UNCHANGED <<metrics, calls, fate>>
               /\ collects[h] = "stopping" \/ cell.change_id # tasks[h].ctx.change
            \/ /\ cell.change_id = tasks[h].ctx.change /\ metrics' = tasks[h].ctx
               /\ calls' = Append(calls, Send(tasks[h].ctx, h))
               /\ fate' = [fate EXCEPT ![tasks[h].ctx.change] = "shown"]
         /\ UNCHANGED <<nvim, inbox, cell, finish, used>>
<1>1. h \in DOMAIN tasks /\ h \in TaskIds /\ tasks[h].at = "collect" BY DEF Typed
<1>2. tasks[h].ctx \in Context BY <1>1, TaskTypes
<1>3. tasks' = Without(tasks, {h}) /\ collects' = Without(collects, {h}) /\ UNCHANGED <<nvim, inbox, cell, finish, used>>
  BY DEF CollectEnds, CollectCancelled
<1>4. /\ DOMAIN tasks' = DOMAIN tasks \ {h} /\ \A p \in DOMAIN tasks' : tasks'[p] = tasks[p]
      /\ DOMAIN collects' = DOMAIN collects \ {h} /\ \A p \in DOMAIN collects' : collects'[p] = collects[p]
  BY <1>3 DEF With, Without, Stopping
<1>5. \/ /\ UNCHANGED <<metrics, calls, fate>>
         /\ collects[h] = "stopping" \/ cell.change_id # tasks[h].ctx.change
      \/ /\ cell.change_id = tasks[h].ctx.change /\ metrics' = tasks[h].ctx
         /\ calls' = Append(calls, Send(tasks[h].ctx, h))
         /\ fate' = [fate EXCEPT ![tasks[h].ctx.change] = "shown"]
  BY DEF CollectEnds, CollectCancelled, Complete
<1> QED BY <1>1, <1>2, <1>3, <1>4, <1>5

LEMMA ClosedSets ==
  ASSUME Typed, Closed
  PROVE  LET h == Head(inbox).id IN
         /\ DOMAIN tasks' = DOMAIN tasks \ {h} /\ \A p \in DOMAIN tasks' : tasks'[p] = tasks[p]
         /\ cell' = [cell EXCEPT !.inserted_pos = NoPos]
         /\ UNCHANGED <<nvim, calls, metrics, collects, finish, fate, used>>
BY DEF Closed, Without

\* the steps in which the tasks stay as they are
Aside == User \/ ShowComp \/ Serve \/ LateReply \/ DoneStarts \/ Finish \/ UNCHANGED flowVars

LEMMA AsideSets ==
  ASSUME Typed, Aside
  PROVE  /\ tasks' = tasks /\ collects' = collects /\ fate' = fate /\ metrics' = metrics
         /\ cell' \in State /\ cell'.change_id = cell.change_id /\ cell'.context = cell.context
<1>1. CASE DoneEnds
  <2>1. finish.pos \in Ticks BY <1>1 DEF DoneEnds, Typed
  <2>2. PICK d \in BOOLEAN : cell' = [cell EXCEPT !.inserted_pos = finish.pos, !.is_dir = d] BY <1>1 DEF DoneEnds
  <2>3. cell' \in State /\ cell'.change_id = cell.change_id /\ cell'.context = cell.context BY <2>1, <2>2, StateKept
  <2>4. tasks' = tasks /\ collects' = collects /\ fate' = fate /\ metrics' = metrics BY <1>1 DEF DoneEnds
  <2> QED BY <2>3, <2>4
<1>2. CASE ~DoneEnds
  <2>1. tasks' = tasks /\ collects' = collects /\ fate' = fate /\ metrics' = metrics /\ cell' = cell
    BY <1>2 DEF Aside, User, Type, LeaveInsert, EnterInsert, OtherMenu, AskManual, Accept, ShowComp, Serve, LateReply,
                DoneStarts, Finish, DoneEdits, flowVars, server
  <2> QED BY <2>1 DEF Typed
<1> QED BY <1>1, <1>2

LEMMA StepKinds ==
  ASSUME [FlowNext]_flowVars
  PROVE  Aside \/ LinesEvent \/ Omnifunc \/ Status \/ Cursor \/ Text \/ Closed \/ Collected
BY DEF FlowNext, Aside, Receive

\* an event is newer than all that is known
LEMMA HeadIsNew ==
  ASSUME Typed, Numbers, inbox # <<>>, Head(inbox).kind \in {"lines", "omni"}
  PROVE  /\ Head(inbox).n \in Nat /\ Head(inbox).n <= CountOf(Head(inbox).kind)
         /\ \A p \in TaskIds : Known(p) /\ KindOf(p) = Head(inbox).kind => p[2] < Head(inbox).n
         /\ Head(inbox).kind = "lines" => cell.change_id < Head(inbox).n
<1> DEFINE M == Events \union Dones \union Replies
<1>1. inbox \in Seq(M) BY ChannelTypes
<1> HIDE DEF M
<1>2. 1 \in DOMAIN inbox /\ Head(inbox) = inbox[1] BY <1>1, SeqEnds
<1>3. IsEvent(1) BY <1>2 DEF IsEvent
<1> QED BY <1>2, <1>3, HeadIds DEF Numbers

LEMMA TypedServerStep == Typed /\ Numbers /\ OneAuto /\ [FlowNext]_flowVars => TypedServer'
<1> SUFFICES ASSUME Typed, Numbers, OneAuto, [FlowNext]_flowVars PROVE TypedServer' OBVIOUS
<1>1. TypedServer BY DEF Typed, TypedServer
<1>2. CASE Aside BY <1>1, <1>2, AsideSets DEF TypedServer
<1>3. CASE LinesEvent
  <2> DEFINE n == Head(inbox).n
             h == Automatic(n)
             t == [at |-> "status", s |-> cell, ctx |-> NoContext]
  <2>1. /\ n \in Nat /\ h \in TaskIds
        /\ DOMAIN tasks' = {p \in DOMAIN tasks : ~IsAuto(p)} \union {h} /\ tasks'[h] = t /\ t \in Tasks
        /\ \A p \in DOMAIN tasks' : p # h => tasks'[p] = tasks[p]
        /\ DOMAIN collects' = {p \in DOMAIN collects : ~IsAuto(p)}
        /\ \A p \in DOMAIN collects' : collects'[p] = "stopping"
        /\ UNCHANGED <<cell, metrics, fate>>
    BY <1>3, LinesEventSets
  <2>2. IsAuto(h) BY <2>1, Ids
  <2>3. t.at = "status" OBVIOUS
  <2> HIDE DEF h, t
  <2>4. DOMAIN collects' = {p \in DOMAIN tasks' : tasks'[p].at = "collect"} BY <1>1, <2>1, <2>2, <2>3 DEF TypedServer
  <2>5. \A p \in DOMAIN tasks' : p \in TaskIds /\ tasks'[p] \in Tasks BY <1>1, <2>1 DEF TypedServer
  <2> QED BY <1>1, <2>1, <2>4, <2>5 DEF TypedServer
<1>4. CASE Omnifunc
  <2> DEFINE h == Manual(Head(inbox).n)
             t == [at |-> "cursor", s |-> cell, ctx |-> NoContext]
  <2>1. /\ h \in TaskIds /\ DOMAIN tasks' = DOMAIN tasks \union {h} /\ tasks'[h] = t /\ t \in Tasks
        /\ \A p \in DOMAIN tasks' : p # h => tasks'[p] = tasks[p]
        /\ UNCHANGED <<cell, metrics, collects, fate>>
    BY <1>4, OmnifuncSets
  <2>2. t.at = "cursor" OBVIOUS
  <2> HIDE DEF h, t
  <2>3. \A p \in DOMAIN tasks' : p \in TaskIds /\ tasks'[p] \in Tasks BY <1>1, <2>1 DEF TypedServer
  <2>4. h \notin DOMAIN tasks
    <3> DEFINE n == Head(inbox).n
    <3>1. inbox # <<>> /\ Head(inbox).kind = "omni" BY <1>4, OmnifuncSets
    <3>2. n \in Nat /\ \A p \in TaskIds : Known(p) /\ KindOf(p) = "omni" => p[2] < n BY <3>1, HeadIsNew
    <3>3. h \in TaskIds /\ KindOf(h) = "omni" /\ h[2] = n BY <3>2, Ids DEF KindOf, h
    <3> HIDE DEF n
    <3> QED BY <3>2, <3>3 DEF Known
  <2> QED BY <1>1, <2>1, <2>2, <2>3, <2>4 DEF TypedServer
<1>5. CASE Status
  <2> DEFINE h == Head(inbox).id
             s == [cell EXCEPT !.change_id = h[2]]
  <2>1. h \in DOMAIN tasks /\ h \in TaskIds /\ tasks[h].at = "status" /\ tasks[h] \in Tasks BY <1>5, Answered DEF Status
  <2>2. h[2] \in Ticks
    <3>1. IsAuto(h) BY <2>1 DEF OneAuto, At
    <3>2. h[2] <= tick /\ h[2] \in Nat BY <2>1, <3>1, Ids DEF Numbers, Known, KindOf, CountOf
    <3>3. tick \in Ticks BY DEF Typed
    <3> HIDE DEF h
    <3> QED BY <3>2, <3>3, FlowAssumption DEF Ticks
  <2>3. s \in State BY <2>2, StateKept
  <2> DEFINE u == [tasks[h] EXCEPT !.at = "cursor", !.s = s]
  <2>4. u \in Tasks /\ u.at = "cursor"
    <3> HIDE DEF h, s
    <3> QED BY <2>1, <2>3, TaskTakesState DEF Points
  <2>5. /\ cell' = s
        /\ \/ /\ DOMAIN tasks' = DOMAIN tasks /\ tasks'[h] = u /\ \A p \in DOMAIN tasks : p # h => tasks'[p] = tasks[p]
              /\ fate' = fate
           \/ /\ DOMAIN tasks' = DOMAIN tasks \ {h} /\ \A p \in DOMAIN tasks' : tasks'[p] = tasks[p]
              /\ fate' = [fate EXCEPT ![h[2]] = "skipped"]
        /\ UNCHANGED <<metrics, collects>>
    BY <1>5, StatusSets
  <2> HIDE DEF h, s, u
  <2>6. DOMAIN fate' = Ticks BY <1>1, <2>5 DEF TypedServer
  <2>7. \A p \in DOMAIN tasks' : p \in TaskIds /\ tasks'[p] \in Tasks BY <1>1, <2>4, <2>5 DEF TypedServer
  <2>8. DOMAIN collects' = {p \in DOMAIN tasks' : tasks'[p].at = "collect"} BY <1>1, <2>1, <2>4, <2>5 DEF TypedServer
  <2> QED BY <1>1, <2>3, <2>5, <2>6, <2>7, <2>8 DEF TypedServer
<1>6. CASE Cursor
  <2> DEFINE h == Head(inbox).id
             u == [tasks[h] EXCEPT !.at = "text", !.ctx.pos = Head(inbox).tick]
  <2>1. /\ h \in DOMAIN tasks /\ h \in TaskIds /\ tasks[h].at = "cursor" /\ tasks[h] \in Tasks
        /\ Head(inbox).tick \in Ticks
    BY <1>6, Answered DEF Cursor
  <2>2. u \in Tasks /\ u.at = "text"
    <3> HIDE DEF h
    <3> QED BY <2>1, TaskTakesPos DEF Points
  <2>3. /\ DOMAIN tasks' = DOMAIN tasks /\ tasks'[h] = u /\ \A p \in DOMAIN tasks : p # h => tasks'[p] = tasks[p]
        /\ UNCHANGED <<cell, metrics, collects, fate>>
    BY <1>6, CursorSets
  <2> HIDE DEF h, u
  <2> QED BY <1>1, <2>1, <2>2, <2>3 DEF TypedServer
<1>7. CASE Text
  <2> DEFINE h == Head(inbox).id
             ctx == ContextOf(h, Head(inbox).tick)
             u == [tasks[h] EXCEPT !.at = "collect", !.ctx = ctx]
             v == [tasks[h] EXCEPT !.at = "closing", !.ctx = ctx]
  <2>1. h \in DOMAIN tasks /\ h \in TaskIds /\ tasks[h].at = "text" /\ tasks[h] \in Tasks BY <1>7, Answered DEF Text
  <2>2. /\ DOMAIN tasks' = DOMAIN tasks /\ \A p \in DOMAIN tasks : p # h => tasks'[p] = tasks[p]
        /\ ctx \in Context
        /\ \/ /\ cell' = [cell EXCEPT !.context = ctx] /\ fate' = fate /\ tasks'[h] = u
              /\ DOMAIN collects' = DOMAIN collects \union {h} /\ collects'[h] = "running"
              /\ \A p \in DOMAIN collects : p # h => collects'[p] = "stopping"
           \/ /\ cell' = cell /\ collects' = collects /\ fate' = [fate EXCEPT ![ctx.change] = "refused"] /\ tasks'[h] = v
        /\ metrics' = metrics \/ metrics' = Nothing
    BY <1>7, TextSets
  <2>3. u \in Tasks /\ u.at = "collect" /\ v \in Tasks /\ v.at = "closing"
    <3> HIDE DEF h, ctx
    <3>1. PICK t \in Tasks : t = tasks[h] BY <2>1
    <3>2. PICK c \in Context : c = ctx BY <2>2
    <3>3. "collect" \in Points /\ "closing" \in Points BY DEF Points
    <3>4. \A at \in Points : [t EXCEPT !.at = at, !.ctx = c] \in Tasks /\ [t EXCEPT !.at = at, !.ctx = c].at = at
      BY DEF Tasks
    <3>5. u = [t EXCEPT !.at = "collect", !.ctx = c] /\ v = [t EXCEPT !.at = "closing", !.ctx = c] BY <3>1, <3>2, Zenon
    <3> HIDE DEF u, v
    <3> QED BY <3>3, <3>4, <3>5
  <2>4. [cell EXCEPT !.context = ctx] \in State
    <3> HIDE DEF ctx
    <3>1. PICK c \in Context : c = ctx BY <2>2
    <3>2. [cell EXCEPT !.context = c] \in State BY StateKept
    <3>3. [cell EXCEPT !.context = c] = [cell EXCEPT !.context = ctx] BY <3>1, Zenon
    <3> QED BY <3>2, <3>3
  <2>5. metrics' \in Items /\ cell' \in State BY <1>1, <2>2, <2>4 DEF TypedServer, Items
  <2> HIDE DEF h, ctx, u, v
  <2>6. DOMAIN fate' = Ticks BY <1>1, <2>2 DEF TypedServer
  <2>7. \A p \in DOMAIN tasks' : p \in TaskIds /\ tasks'[p] \in Tasks
    <3>1. tasks'[h] \in Tasks BY <2>2, <2>3
    <3>2. \A p \in DOMAIN tasks : p \in TaskIds /\ tasks[p] \in Tasks BY <1>1 DEF TypedServer
    <3>3. DOMAIN tasks' = DOMAIN tasks /\ \A p \in DOMAIN tasks : p # h => tasks'[p] = tasks[p] BY <2>2
    <3> QED BY <3>1, <3>2, <3>3
  <2>8. DOMAIN collects' = {p \in DOMAIN tasks' : tasks'[p].at = "collect"}
    <3>1. DOMAIN collects = {p \in DOMAIN tasks : tasks[p].at = "collect"} BY <1>1 DEF TypedServer
    <3>2. DOMAIN tasks' = DOMAIN tasks /\ \A p \in DOMAIN tasks : p # h => tasks'[p] = tasks[p] BY <2>2
    <3>3. \/ DOMAIN collects' = DOMAIN collects \union {h} /\ tasks'[h].at = "collect"
          \/ DOMAIN collects' = DOMAIN collects /\ tasks'[h].at = "closing"
      BY <2>2, <2>3
    <3> QED BY <2>1, <3>1, <3>2, <3>3
  <2>9. \A p \in DOMAIN collects' : collects'[p] \in {"running", "stopping"} BY <1>1, <2>2 DEF TypedServer
  <2> QED BY <2>5, <2>6, <2>7, <2>8, <2>9 DEF TypedServer
<1>8. CASE Closed
  <2> DEFINE h == Head(inbox).id
  <2>1. /\ DOMAIN tasks' = DOMAIN tasks \ {h} /\ \A p \in DOMAIN tasks' : tasks'[p] = tasks[p]
        /\ cell' = [cell EXCEPT !.inserted_pos = NoPos] /\ UNCHANGED <<metrics, collects, fate>>
    BY <1>8, ClosedSets
  <2>2. cell' \in State BY <2>1, StateKept
  <2>3. h \in DOMAIN tasks /\ tasks[h].at = "closing" BY <1>8, Answered DEF Closed
  <2> HIDE DEF h
  <2> QED BY <1>1, <2>1, <2>2, <2>3 DEF TypedServer
<1>9. CASE Collected
  <2>1. PICK h \in DOMAIN collects : CollectEnds(h) \/ CollectCancelled(h) BY <1>9 DEF Collected
  <2>2. /\ tasks[h].ctx \in Context
        /\ DOMAIN tasks' = DOMAIN tasks \ {h} /\ \A p \in DOMAIN tasks' : tasks'[p] = tasks[p]
        /\ DOMAIN collects' = DOMAIN collects \ {h} /\ \A p \in DOMAIN collects' : collects'[p] = collects[p]
        /\ metrics' = metrics \/ metrics' = tasks[h].ctx
        /\ fate' = fate \/ fate' = [fate EXCEPT ![tasks[h].ctx.change] = "shown"]
        /\ cell' = cell
    BY <2>1, CollectedSets
  <2>3. DOMAIN fate' = Ticks BY <1>1, <2>2 DEF TypedServer
  <2>4. metrics' \in Items BY <1>1, <2>2 DEF TypedServer, Items
  <2> QED BY <1>1, <2>2, <2>3, <2>4 DEF TypedServer
<1> QED BY <1>2, <1>3, <1>4, <1>5, <1>6, <1>7, <1>8, <1>9, StepKinds

LEMMA TypedStep == Typed /\ Numbers /\ OneAuto /\ [FlowNext]_flowVars => Typed'
<1>1. Typed' <=> TypedNvim' /\ TypedChannel' /\ TypedServer' /\ TypedFinish'
  BY DEF Typed, TypedNvim, TypedChannel, TypedServer, TypedFinish
<1> QED BY <1>1, TypedNvimStep, TypedChannelStep, TypedServerStep, TypedFinishStep

-----------------------------------------------------------------------------
(* What each step does to the inbox and to the line of answers.             *)

LEMMA InboxGrows ==
  ASSUME Typed, NEW e \in Events \union Dones \union Replies, inbox' = Append(inbox, e)
  PROVE  /\ Len(inbox) \in Nat /\ DOMAIN inbox \subseteq Nat
         /\ Len(inbox) + 1 \in DOMAIN inbox' /\ inbox'[Len(inbox) + 1] = e
         /\ \A i \in DOMAIN inbox : i < Len(inbox) + 1 /\ i \in DOMAIN inbox' /\ inbox'[i] = inbox[i]
         /\ \A i \in DOMAIN inbox' : i \in DOMAIN inbox \/ i = Len(inbox) + 1
<1> DEFINE M == Events \union Dones \union Replies
<1>1. inbox \in Seq(M) BY ChannelTypes
<1> HIDE DEF M
<1>2. /\ Len(inbox) \in Nat /\ DOMAIN inbox = 1 .. Len(inbox)
      /\ DOMAIN Append(inbox, e) = 1 .. Len(inbox) + 1 /\ Append(inbox, e)[Len(inbox) + 1] = e
      /\ \A i \in 1 .. Len(inbox) : Append(inbox, e)[i] = inbox[i]
  BY <1>1, SeqEnds DEF M
<1> QED BY <1>2

LEMMA InboxTaken ==
  ASSUME Typed, inbox # <<>>, inbox' = Tail(inbox)
  PROVE  /\ DOMAIN inbox \subseteq Nat /\ DOMAIN inbox' \subseteq Nat
         /\ 1 \in DOMAIN inbox /\ inbox[1] = Head(inbox)
         /\ \A i \in DOMAIN inbox' : i + 1 \in DOMAIN inbox /\ inbox'[i] = inbox[i + 1] /\ 1 < i + 1
         /\ \A i \in DOMAIN inbox : i # 1 => i - 1 \in DOMAIN inbox' /\ inbox'[i - 1] = inbox[i]
<1> DEFINE M == Events \union Dones \union Replies
<1>1. inbox \in Seq(M) BY ChannelTypes
<1> HIDE DEF M
<1>2. /\ Len(inbox) \in Nat /\ Len(inbox) >= 1 /\ DOMAIN inbox = 1 .. Len(inbox) /\ Head(inbox) = inbox[1]
      /\ DOMAIN Tail(inbox) = 1 .. Len(inbox) - 1
      /\ \A i \in 1 .. Len(inbox) - 1 : Tail(inbox)[i] = inbox[i + 1]
  BY <1>1, SeqEnds
<1>3. \A i \in 1 .. Len(inbox) : i # 1 => i - 1 \in 1 .. Len(inbox) - 1 /\ (i - 1) + 1 = i BY <1>2
<1> QED BY <1>2, <1>3

LEMMA AsideQueue ==
  ASSUME Typed, InLine, Aside
  PROVE  /\ \E h : ~Pending(h) /\ Untouched(h)
         /\ \A p \in TaskIds : Waits(p)' => Waits(p)
<1> DEFINE M == Events \union Dones \union Replies
           C == Asks \union Sends
<1>1. inbox \in Seq(M) /\ calls \in Seq(C) BY ChannelTypes
<1>2. ~Pending(NoId) BY Ids DEF Typed, Pending
<1>3. ASSUME \A p, q \in TaskIds : (Waits(p)' <=> Waits(p)) /\ (Before(p, q)' => Before(p, q))
      PROVE  (\E h : ~Pending(h) /\ Untouched(h)) /\ \A p \in TaskIds : Waits(p)' => Waits(p)
  BY <1>2, <1>3 DEF Untouched
<1>4. CASE inbox' = inbox /\ calls' = calls
  <2>1. \A p, q \in TaskIds : (Waits(p)' <=> Waits(p)) /\ (Before(p, q)' <=> Before(p, q)) BY <1>4 DEF Waits, Before
  <2> QED BY <1>3, <2>1
<1>5. ASSUME NEW e \in M, e.kind # "reply", inbox' = Append(inbox, e), calls' = calls
      PROVE  (\E h : ~Pending(h) /\ Untouched(h)) /\ \A p \in TaskIds : Waits(p)' => Waits(p)
  <2>1. ASSUME NEW p \in TaskIds, NEW q \in TaskIds PROVE (Waits(p)' <=> Waits(p)) /\ (Before(p, q)' => Before(p, q))
    <3>1. p # NoId /\ q # NoId BY Ids
    <3> HIDE DEF M, C
    <3>2. /\ IsWaiting(Append(inbox, e), calls, p) <=> IsWaiting(inbox, calls, p)
          /\ IsBefore(Append(inbox, e), calls, p, q) => IsBefore(inbox, calls, p, q)
      BY <1>1, <1>5, <3>1, PutEvent
    <3> QED BY <1>5, <3>2 DEF Waits, Before
  <2> QED BY <1>3, <2>1
<1>6. \A n \in Nat, kind \in {"lines", "omni"} : Event(kind, n) \in M /\ Event(kind, n).kind # "reply"
  BY Messages
<1>7. CASE Type
  <2>1. tick' \in Nat /\ inbox' = Append(inbox, Event("lines", tick')) /\ calls' = calls BY <1>7, TaskTypes DEF Type
  <2> HIDE DEF M
  <2> QED BY <1>5, <1>6, <2>1
<1>8. CASE AskManual
  <2>1. asked' \in Nat /\ inbox' = Append(inbox, Event("omni", asked')) /\ calls' = calls BY <1>8, TaskTypes DEF AskManual
  <2> HIDE DEF M
  <2> QED BY <1>5, <1>6, <2>1
<1>9. CASE Accept
  <2> DEFINE e == [kind |-> "done", item |-> menu]
  <2>1. e \in M /\ e.kind # "reply" BY <1>9 DEF Accept, Dones
  <2>2. inbox' = Append(inbox, e) /\ calls' = calls BY <1>9 DEF Accept
  <2> HIDE DEF M, e
  <2> QED BY <1>5, <2>1, <2>2
<1>10. CASE DoneEdits
  <2>1. tick + 1 \in Nat BY TaskTypes
  <2>2. calls' = calls /\ (inbox' = inbox \/ inbox' = Append(inbox, Event("lines", tick + 1))) BY <1>10 DEF DoneEdits
  <2>3. Event("lines", tick + 1) \in M /\ Event("lines", tick + 1).kind # "reply" BY <1>6, <2>1
  <2> HIDE DEF M
  <2> QED BY <1>4, <1>5, <2>2, <2>3
<1>11. CASE Serve
  <2> DEFINE r == [kind |-> "reply", id |-> Head(calls).id, tick |-> tick, legal |-> insert /\ menu # [other |-> TRUE]]
  <2>1. calls # <<>> /\ inbox' = Append(inbox, r) /\ calls' = Tail(calls) BY <1>11 DEF Serve
  <2>2. r.kind = "reply" /\ r.id = Head(calls).id OBVIOUS
  <2>3. r \in M
    <3>1. Head(calls) \in C BY <2>1, Puts
    <3>2. Head(calls).id \in TaskIds BY <3>1 DEF Asks, Sends
    <3>3. tick \in Ticks /\ insert \in BOOLEAN BY DEF Typed
    <3> QED BY <3>2, <3>3 DEF Replies
  <2> HIDE DEF M, C, r
  <2>4. ASSUME NEW p \in TaskIds, NEW q \in TaskIds PROVE (Waits(p)' <=> Waits(p)) /\ (Before(p, q)' => Before(p, q))
    <3>1. /\ IsWaiting(Append(inbox, r), Tail(calls), p) <=> IsWaiting(inbox, calls, p)
          /\ IsBefore(Append(inbox, r), Tail(calls), p, q) <=> IsBefore(inbox, calls, p, q)
      BY <1>1, <2>1, <2>2, <2>3, ServeKeepsPlace
    <3> QED BY <2>1, <3>1 DEF Waits, Before
  <2> QED BY <1>3, <2>4
<1>12. CASE LateReply
  <2> DEFINE h == Head(inbox).id
  <2>1. Take("reply") /\ calls' = calls /\ (h \in DOMAIN tasks => tasks[h].at = "collect") BY <1>12 DEF LateReply
  <2>2. h \in TaskIds /\ Waits(h) /\ Untouched(h) BY <2>1, ReplyTaken
  <2>3. ~Pending(h) BY <2>1 DEF Pending
  <2> HIDE DEF h
  <2> QED BY <2>2, <2>3 DEF Untouched
<1>13. CASE DoneStarts
  <2>1. inbox # <<>> /\ Head(inbox).kind = "done" /\ inbox' = Tail(inbox) /\ calls' = calls BY <1>13 DEF DoneStarts, Take
  <2>2. ASSUME NEW p \in TaskIds, NEW q \in TaskIds PROVE (Waits(p)' <=> Waits(p)) /\ (Before(p, q)' => Before(p, q))
    <3>1. p # NoId /\ q # NoId BY Ids
    <3> HIDE DEF M, C
    <3>2. /\ IsWaiting(Tail(inbox), calls, p) <=> IsWaiting(inbox, calls, p)
          /\ IsBefore(Tail(inbox), calls, p, q) => IsBefore(inbox, calls, p, q)
      BY <1>1, <2>1, <3>1, TakeHead
    <3> QED BY <2>1, <3>2 DEF Waits, Before
  <2> QED BY <1>3, <2>2
<1>14. CASE LeaveInsert \/ EnterInsert \/ OtherMenu \/ ShowComp \/ DoneEnds \/ UNCHANGED flowVars
  <2>1. inbox' = inbox /\ calls' = calls
    BY <1>14 DEF LeaveInsert, EnterInsert, OtherMenu, ShowComp, DoneEnds, flowVars, nvim
  <2> QED BY <1>4, <2>1
<1> QED BY <1>7, <1>8, <1>9, <1>10, <1>11, <1>12, <1>13, <1>14 DEF Aside, User, Finish

\* what a step of the server that answers a task does to what is waited for
Answers == Status \/ Cursor \/ Text \/ Closed

LEMMA AnswerQueue ==
  ASSUME Typed, InLine, Answers, NEW h, h = Head(inbox).id
  PROVE  /\ inbox # <<>> /\ inbox' = Tail(inbox) /\ Head(inbox) \in Replies
         /\ h \in TaskIds /\ h \in DOMAIN tasks /\ Pending(h) /\ Waits(h) /\ Untouched(h) /\ OneTask(h)
         /\ \A q \in TaskIds : (Waits(q) /\ q # h => Before(h, q)) /\ ~Before(h, q)'
         /\ Pending(h)' => Waits(h)'
         /\ DOMAIN tasks' \subseteq DOMAIN tasks
<1> DEFINE Asks1 == \E c \in Asks \union Sends : c.id = h /\ calls' = Append(calls, c)
<1>1. PICK at \in {"status", "cursor", "text", "closing"} : Reply(at) BY DEF Answers, Status, Cursor, Text, Closed
<1>2. /\ inbox # <<>> /\ inbox' = Tail(inbox) /\ Take("reply") /\ Head(inbox) \in Replies
      /\ h \in DOMAIN tasks /\ tasks[h].at = at /\ h \in TaskIds /\ tasks[h] \in Tasks /\ Head(inbox).tick \in Ticks
  BY <1>1, Answered
<1>3. Pending(h) BY <1>1, <1>2 DEF Pending
<1>4. /\ \A kind \in {"status", "cursor", "text"} : Call(kind, h) \in Asks \union Sends /\ Call(kind, h).id = h
      /\ Send(Nothing, h) \in Asks \union Sends /\ Send(Nothing, h).id = h
  BY <1>2, Messages DEF Items
<1>5. /\ OneTask(h) /\ DOMAIN tasks' \subseteq DOMAIN tasks
      /\ calls' = calls \/ Asks1
      /\ Pending(h)' => Asks1
  <2>1. CASE Status
    <3> DEFINE s == [cell EXCEPT !.change_id = h[2]]
    <3>1. \/ /\ DOMAIN tasks' = DOMAIN tasks /\ \A p \in DOMAIN tasks : p # h => tasks'[p] = tasks[p]
             /\ calls' = Append(calls, Call("cursor", h))
          \/ /\ DOMAIN tasks' = DOMAIN tasks \ {h} /\ \A p \in DOMAIN tasks' : tasks'[p] = tasks[p]
             /\ calls' = calls
      BY <2>1, StatusSets
    <3> QED BY <1>2, <1>4, <3>1 DEF OneTask, Pending
  <2>2. CASE Cursor
    <3>1. /\ DOMAIN tasks' = DOMAIN tasks /\ \A p \in DOMAIN tasks : p # h => tasks'[p] = tasks[p]
          /\ calls' = Append(calls, Call("text", h))
      BY <2>2, CursorSets
    <3> QED BY <1>2, <1>4, <3>1 DEF OneTask, Pending
  <2>3. CASE Text
    <3> DEFINE ctx == ContextOf(h, Head(inbox).tick)
    <3>1. /\ DOMAIN tasks' = DOMAIN tasks /\ \A p \in DOMAIN tasks : p # h => tasks'[p] = tasks[p]
          /\ ctx \in Context
          /\ \/ /\ tasks'[h] = [tasks[h] EXCEPT !.at = "collect", !.ctx = ctx]
                /\ calls' = calls \/ calls' = Append(calls, Send(Nothing, h))
             \/ calls' = Append(calls, Send(Nothing, h))
      BY <2>3, TextSets
    <3> HIDE DEF ctx
    <3>2. [tasks[h] EXCEPT !.at = "collect", !.ctx = ctx].at = "collect" BY <1>2, <3>1, TaskTakesContext DEF Points
    <3> QED BY <1>2, <1>4, <3>1, <3>2 DEF OneTask, Pending
  <2>4. CASE Closed
    <3>1. DOMAIN tasks' = DOMAIN tasks \ {h} /\ (\A p \in DOMAIN tasks' : tasks'[p] = tasks[p]) /\ calls' = calls
      BY <2>4, ClosedSets
    <3> QED BY <3>1 DEF OneTask, Pending
  <2> QED BY <2>1, <2>2, <2>3, <2>4 DEF Answers
<1>6. /\ Waits(h) /\ Untouched(h)
      /\ Pending(h) => \A q \in TaskIds : (Waits(q) /\ q # h => Before(h, q)) /\ ~Before(h, q)'
      /\ Asks1 => Waits(h)'
  BY <1>2, <1>5, ReplyTaken
<1> HIDE DEF Asks1
<1> QED BY <1>2, <1>3, <1>5, <1>6

LEMMA CollectQueue ==
  ASSUME Typed, NEW h \in DOMAIN collects, CollectEnds(h) \/ CollectCancelled(h)
  PROVE  /\ h \in TaskIds /\ h \in DOMAIN tasks /\ Untouched(h) /\ OneTask(h) /\ h \notin DOMAIN tasks'
         /\ DOMAIN tasks' \subseteq DOMAIN tasks
<1>1. /\ h \in DOMAIN tasks /\ h \in TaskIds /\ tasks[h].ctx \in Context
      /\ DOMAIN tasks' = DOMAIN tasks \ {h} /\ \A p \in DOMAIN tasks' : tasks'[p] = tasks[p]
      /\ calls' = calls \/ calls' = Append(calls, Send(tasks[h].ctx, h))
      /\ inbox' = inbox
  BY CollectedSets
<1>2. Send(tasks[h].ctx, h) \in Sends /\ Send(tasks[h].ctx, h).id = h BY <1>1, Messages DEF Items
<1>3. CASE calls' = calls
  <2>1. \A p, q \in TaskIds : (Waits(p)' <=> Waits(p)) /\ (Before(p, q)' <=> Before(p, q)) BY <1>1, <1>3 DEF Waits, Before
  <2> QED BY <1>1, <2>1 DEF Untouched, OneTask
<1>4. CASE calls' = Append(calls, Send(tasks[h].ctx, h))
  <2>1. Untouched(h) BY <1>1, <1>2, <1>4, SendPut
  <2> QED BY <1>1, <2>1 DEF OneTask
<1> QED BY <1>1, <1>3, <1>4

-----------------------------------------------------------------------------
(* A task waits for one answer, and a change has one task.                  *)

LEMMA InLineKept ==
  ASSUME Typed, Typed', InLine, NEW h, Untouched(h), OneTask(h),
         Pending(h)' => Waits(h)' /\ ~Before(h, h)'
  PROVE  InLine'
<1> SUFFICES ASSUME NEW p \in DOMAIN tasks', Pending(p)' PROVE Waits(p)' /\ ~Before(p, p)'
  BY DEF InLine
<1>1. CASE p = h BY <1>1
<1>2. CASE p # h
  <2>1. p \in DOMAIN tasks /\ Pending(p) BY <1>2 DEF OneTask, Pending
  <2>2. p \in TaskIds BY <2>1 DEF Typed
  <2>3. Waits(p) /\ ~Before(p, p) BY <2>1 DEF InLine
  <2> QED BY <1>2, <2>2, <2>3 DEF Untouched
<1> QED BY <1>1, <1>2

\* a task that begins has not been waited for
LEMMA NewTaskQueue ==
  ASSUME Typed, Numbers, LinesEvent \/ Omnifunc,
         NEW n, n = Head(inbox).n, NEW h, h = IF Head(inbox).kind = "lines" THEN Automatic(n) ELSE Manual(n)
  PROVE  /\ n \in Nat /\ h \in TaskIds /\ h[2] = n /\ KindOf(h) = Head(inbox).kind /\ n <= CountOf(KindOf(h))
         /\ ~Known(h) /\ Untouched(h) /\ OneTask(h) /\ Waits(h)' /\ \A p \in TaskIds : ~Before(h, p)'
         /\ inbox # <<>> /\ Head(inbox).kind \in {"lines", "omni"} /\ inbox' = Tail(inbox)
         /\ DOMAIN tasks' \subseteq DOMAIN tasks \union {h}
         /\ \A p \in TaskIds : Known(p) /\ KindOf(p) = Head(inbox).kind => p[2] < n
<1>1. /\ inbox # <<>> /\ Head(inbox).kind \in {"lines", "omni"} /\ inbox' = Tail(inbox)
      /\ OneTask(h) /\ DOMAIN tasks' \subseteq DOMAIN tasks \union {h}
      /\ calls' = Append(calls, Call("status", h)) \/ calls' = Append(calls, Call("cursor", h))
  <2>1. CASE LinesEvent
    <3>1. h = Automatic(Head(inbox).n) BY <2>1, LinesEventSets
    <3>2. /\ inbox # <<>> /\ Head(inbox).kind = "lines" /\ inbox' = Tail(inbox)
          /\ DOMAIN tasks' = {p \in DOMAIN tasks : ~IsAuto(p)} \union {h}
          /\ \A p \in DOMAIN tasks' : p # h => tasks'[p] = tasks[p]
          /\ calls' = Append(calls, Call("status", h))
      BY <2>1, <3>1, LinesEventSets
    <3> QED BY <3>2 DEF OneTask
  <2>2. CASE Omnifunc
    <3>1. h = Manual(Head(inbox).n) BY <2>2, OmnifuncSets
    <3>2. /\ inbox # <<>> /\ Head(inbox).kind = "omni" /\ inbox' = Tail(inbox)
          /\ DOMAIN tasks' = DOMAIN tasks \union {h}
          /\ \A p \in DOMAIN tasks' : p # h => tasks'[p] = tasks[p]
          /\ calls' = Append(calls, Call("cursor", h))
      BY <2>2, <3>1, OmnifuncSets
    <3> QED BY <3>2 DEF OneTask
  <2> QED BY <2>1, <2>2
<1>2. /\ n \in Nat /\ n <= CountOf(Head(inbox).kind)
      /\ \A p \in TaskIds : Known(p) /\ KindOf(p) = Head(inbox).kind => p[2] < n
  BY <1>1, HeadIsNew
<1>3. h \in TaskIds /\ h[2] = n /\ KindOf(h) = Head(inbox).kind BY <1>1, <1>2, Ids DEF KindOf
<1>4. ~Known(h) BY <1>2, <1>3
<1>5. PICK c \in Asks : c.id = h /\ calls' = Append(calls, c)
  <2>1. /\ Call("status", h) \in Asks /\ Call("status", h).id = h
        /\ Call("cursor", h) \in Asks /\ Call("cursor", h).id = h
    BY <1>3, Messages
  <2> QED BY <1>1, <2>1
<1>6. /\ Untouched(c.id) /\ Waits(c.id)'
      /\ \A p, q \in TaskIds : Before(p, q)' => Before(p, q) \/ (Waits(p) /\ q = c.id)
  BY <1>1, <1>5, NewCall
<1>7. \A p \in TaskIds : Before(h, p) => Waits(h) BY DEF Before, IsBefore, Waits, IsWaiting
<1>8. \A p \in TaskIds : ~Before(h, p)' BY <1>3, <1>4, <1>6, <1>7 DEF Known
<1>9. Untouched(h) /\ Waits(h)' BY <1>5, <1>6
<1> QED BY <1>1, <1>2, <1>3, <1>4, <1>8, <1>9

\* a step either begins a task, or knows no task that was not known
Starts == LinesEvent \/ Omnifunc

LEMMA NothingNew ==
  ASSUME Typed, InLine, [FlowNext]_flowVars, ~Starts
  PROVE  /\ \A p \in TaskIds : Known(p)' => Known(p)
         /\ DOMAIN tasks' \subseteq DOMAIN tasks
<1>1. CASE Aside
  <2>1. tasks' = tasks /\ \A p \in TaskIds : Waits(p)' => Waits(p) BY <1>1, AsideSets, AsideQueue
  <2> QED BY <2>1 DEF Known
<1>2. CASE Answers
  <2>1. PICK h : h = Head(inbox).id OBVIOUS
  <2>2. h \in TaskIds /\ Waits(h) /\ Untouched(h) /\ DOMAIN tasks' \subseteq DOMAIN tasks BY <1>2, <2>1, AnswerQueue
  <2>3. \A p \in TaskIds : Waits(p)' => Waits(p) BY <2>2 DEF Untouched
  <2> QED BY <2>2, <2>3 DEF Known
<1>3. CASE Collected
  <2>1. PICK h \in DOMAIN collects : CollectEnds(h) \/ CollectCancelled(h) BY <1>3 DEF Collected
  <2>2. h \in TaskIds /\ h \in DOMAIN tasks /\ Untouched(h) /\ DOMAIN tasks' \subseteq DOMAIN tasks BY <2>1, CollectQueue
  <2>3. \A p \in TaskIds : Waits(p)' => Waits(p) \/ p = h BY <2>2 DEF Untouched
  <2> QED BY <2>2, <2>3 DEF Known
<1> QED BY <1>1, <1>2, <1>3, StepKinds DEF Starts, Answers

LEMMA InLineStep ==
  ASSUME Typed, Typed', Numbers, InLine, [FlowNext]_flowVars
  PROVE  InLine'
<1>1. CASE Aside
  <2>1. PICK h : ~Pending(h) /\ Untouched(h) BY <1>1, AsideQueue
  <2>2. tasks' = tasks BY <1>1, AsideSets
  <2>3. OneTask(h) /\ ~Pending(h)' BY <2>1, <2>2 DEF OneTask, Pending
  <2> QED BY <2>1, <2>3, InLineKept
<1>2. CASE Answers
  <2>1. PICK h : h = Head(inbox).id OBVIOUS
  <2>2. /\ h \in TaskIds /\ Untouched(h) /\ OneTask(h) /\ (\A q \in TaskIds : ~Before(h, q)') /\ (Pending(h)' => Waits(h)')
    BY <1>2, <2>1, AnswerQueue
  <2> QED BY <2>2, InLineKept
<1>3. CASE Collected
  <2>1. PICK h \in DOMAIN collects : CollectEnds(h) \/ CollectCancelled(h) BY <1>3 DEF Collected
  <2>2. Untouched(h) /\ OneTask(h) /\ h \notin DOMAIN tasks' BY <2>1, CollectQueue
  <2>3. ~Pending(h)' BY <2>2 DEF Pending
  <2> QED BY <2>2, <2>3, InLineKept
<1>4. CASE Starts
  <2>1. PICK n : n = Head(inbox).n OBVIOUS
  <2>2. PICK h : h = IF Head(inbox).kind = "lines" THEN Automatic(n) ELSE Manual(n) OBVIOUS
  <2>3. h \in TaskIds /\ Untouched(h) /\ OneTask(h) /\ Waits(h)' /\ \A p \in TaskIds : ~Before(h, p)'
    BY <1>4, <2>1, <2>2, NewTaskQueue DEF Starts
  <2> QED BY <2>3, InLineKept
<1> QED BY <1>1, <1>2, <1>3, <1>4, StepKinds DEF Starts, Answers

LEMMA OneAutoStep ==
  ASSUME Typed, InLine, Numbers, OneAuto, [FlowNext]_flowVars
  PROVE  OneAuto'
<1>1. CASE LinesEvent
  <2>1. PICK h : h = Automatic(Head(inbox).n) OBVIOUS
  <2>2. /\ h \in TaskIds /\ IsAuto(h)
        /\ DOMAIN tasks' = {p \in DOMAIN tasks : ~IsAuto(p)} \union {h}
        /\ \A p \in DOMAIN tasks' : p # h => tasks'[p] = tasks[p]
    BY <1>1, <2>1, LinesEventSets, Ids
  <2> QED BY <2>2 DEF OneAuto, At
<1>2. CASE Omnifunc
  <2>1. PICK h : h = Manual(Head(inbox).n) OBVIOUS
  <2>2. /\ h \in TaskIds /\ ~IsAuto(h)
        /\ DOMAIN tasks' = DOMAIN tasks \union {h} /\ tasks'[h] = [at |-> "cursor", s |-> cell, ctx |-> NoContext]
        /\ \A p \in DOMAIN tasks' : p # h => tasks'[p] = tasks[p]
    BY <1>2, <2>1, OmnifuncSets, Ids
  <2>3. tasks'[h].at = "cursor" BY <2>2
  <2> QED BY <2>2, <2>3 DEF OneAuto, At
<1>3. CASE ~Starts
  <2>1. DOMAIN tasks' \subseteq DOMAIN tasks BY <1>3, NothingNew
  <2>2. ASSUME NEW p \in DOMAIN tasks', tasks'[p].at = "status" PROVE tasks[p].at = "status"
    <3>1. CASE Aside BY <2>2, <3>1, AsideSets
    <3>2. CASE Collected
      <4>1. PICK h \in DOMAIN collects : CollectEnds(h) \/ CollectCancelled(h) BY <3>2 DEF Collected
      <4> QED BY <2>2, <4>1, CollectedSets
    <3>3. CASE Answers
      <4>1. PICK h : h = Head(inbox).id OBVIOUS
      <4>2. h \in DOMAIN tasks /\ OneTask(h) BY <3>3, <4>1, AnswerQueue
      <4>3. CASE p # h BY <2>2, <4>2, <4>3 DEF OneTask
      <4>4. CASE p = h
        <5>1. h \in DOMAIN tasks /\ tasks[h] \in Tasks BY <4>2 DEF Typed
        <5>2. CASE Status
          <6>1. PICK s : s = [cell EXCEPT !.change_id = h[2]] OBVIOUS
          <6>2. tasks'[h] = [tasks[h] EXCEPT !.at = "cursor", !.s = s]
            BY <2>2, <4>1, <4>4, <5>2, <6>1, StatusSets
          <6>3. tasks'[h].at = "cursor" BY <5>1, <6>2 DEF Tasks
          <6> QED BY <2>2, <4>4, <6>3
        <5>3. CASE Cursor
          <6>1. tasks'[h] = [tasks[h] EXCEPT !.at = "text", !.ctx.pos = Head(inbox).tick] BY <4>1, <5>3, CursorSets
          <6>2. tasks'[h].at = "text" BY <5>1, <6>1 DEF Tasks
          <6> QED BY <2>2, <4>4, <6>2
        <5>4. CASE Text
          <6>1. PICK ctx : ctx = ContextOf(h, Head(inbox).tick) OBVIOUS
          <6>2. \/ tasks'[h] = [tasks[h] EXCEPT !.at = "collect", !.ctx = ctx]
                \/ tasks'[h] = [tasks[h] EXCEPT !.at = "closing", !.ctx = ctx]
            BY <4>1, <5>4, <6>1, TextSets
          <6>3. tasks'[h].at = "collect" \/ tasks'[h].at = "closing" BY <5>1, <6>2 DEF Tasks
          <6> QED BY <2>2, <4>4, <6>3
        <5>5. CASE Closed BY <2>2, <4>1, <4>4, <5>5, ClosedSets
        <5> QED BY <3>3, <5>2, <5>3, <5>4, <5>5 DEF Answers
      <4> QED BY <4>3, <4>4
    <3> QED BY <1>3, <3>1, <3>2, <3>3, StepKinds DEF Starts, Answers
  <2> QED BY <2>1, <2>2 DEF OneAuto, At
<1> QED BY <1>1, <1>2, <1>3 DEF Starts

-----------------------------------------------------------------------------
(* Numbers.                                                                 *)

\* the parts of Numbers
Counted == \A p \in TaskIds : Known(p) => p[2] <= CountOf(KindOf(p))

EventIsNew(i) ==
  /\ inbox[i].n <= CountOf(inbox[i].kind)
  /\ \A p \in TaskIds : Known(p) /\ KindOf(p) = inbox[i].kind => p[2] < inbox[i].n
  /\ \A j \in DOMAIN inbox : i < j /\ inbox[j].kind = inbox[i].kind => inbox[i].n < inbox[j].n
  /\ inbox[i].kind = "lines" => cell.change_id < inbox[i].n

LEMMA NumbersParts ==
  Numbers <=> Counted /\ \A i \in DOMAIN inbox : IsEvent(i) => EventIsNew(i)
BY DEF Numbers, Counted, EventIsNew

\* the counters go up by one at most, with an event that says so
LEMMA CountersGrow ==
  ASSUME Typed, [FlowNext]_flowVars
  PROVE  /\ tick' \in Nat /\ asked' \in Nat /\ tick <= tick' /\ asked <= asked'
         /\ \A kind \in {"lines", "omni"} : CountOf(kind) <= CountOf(kind)' /\ CountOf(kind) \in Nat /\ CountOf(kind)' \in Nat
         /\ inbox' = inbox \/ (Receive /\ inbox # <<>> /\ inbox' = Tail(inbox)) \/ \E e \in Events \union Dones \union Replies :
              /\ inbox' = Append(inbox, e)
              /\ e.kind \in {"lines", "omni"} => e.n = CountOf(e.kind) + 1 /\ e.n = CountOf(e.kind)'
              /\ e.kind = "reply" => e.tick = tick /\ calls # <<>> /\ e.id = Head(calls).id
<1>0. tick \in Nat /\ asked \in Nat BY TaskTypes
<1>1. /\ tick' = tick \/ tick' = tick + 1
      /\ asked' = asked \/ asked' = asked + 1
  BY DEF FlowNext, User, Type, LeaveInsert, EnterInsert, OtherMenu, AskManual, Accept, ShowComp, Serve, Receive,
         LinesEvent, Omnifunc, Status, Cursor, Text, Closed, LateReply, DoneStarts, Collected, CollectEnds,
         CollectCancelled, Finish, DoneEdits, DoneEnds, flowVars, nvim
<1>2. /\ tick' \in Nat /\ asked' \in Nat /\ tick <= tick' /\ asked <= asked'
      /\ \A kind \in {"lines", "omni"} : CountOf(kind) <= CountOf(kind)' /\ CountOf(kind) \in Nat /\ CountOf(kind)' \in Nat
  BY <1>0, <1>1 DEF CountOf
<1> DEFINE Shape == inbox' = inbox \/ (Receive /\ inbox # <<>> /\ inbox' = Tail(inbox)) \/ \E e \in Events \union Dones \union Replies :
              /\ inbox' = Append(inbox, e)
              /\ e.kind \in {"lines", "omni"} => e.n = CountOf(e.kind) + 1 /\ e.n = CountOf(e.kind)'
              /\ e.kind = "reply" => e.tick = tick /\ calls # <<>> /\ e.id = Head(calls).id
<1>3. ASSUME Type PROVE Shape
  <2>1. inbox' = Append(inbox, Event("lines", tick')) /\ tick' = tick + 1 BY <1>3 DEF Type
  <2>2. Event("lines", tick') \in Events /\ Event("lines", tick').kind = "lines" /\ Event("lines", tick').n = tick'
    BY <1>2, Messages
  <2> QED BY <2>1, <2>2 DEF CountOf
<1>4. ASSUME AskManual PROVE Shape
  <2>1. inbox' = Append(inbox, Event("omni", asked')) /\ asked' = asked + 1 BY <1>4 DEF AskManual
  <2>2. Event("omni", asked') \in Events /\ Event("omni", asked').kind = "omni" /\ Event("omni", asked').n = asked'
    BY <1>2, Messages
  <2> QED BY <2>1, <2>2 DEF CountOf
<1>5. ASSUME Accept PROVE Shape
  <2>1. PICK e : e = [kind |-> "done", item |-> menu] OBVIOUS
  <2>2. e \in Dones /\ e.kind = "done" /\ inbox' = Append(inbox, e) BY <1>5, <2>1 DEF Accept, Dones
  <2> QED BY <2>2
<1>6. ASSUME Serve PROVE Shape
  <2>1. PICK r : r = [kind |-> "reply", id |-> Head(calls).id, tick |-> tick, legal |-> insert /\ menu # [other |-> TRUE]]
    OBVIOUS
  <2>2. inbox' = Append(inbox, r) /\ calls # <<>> BY <1>6, <2>1 DEF Serve
  <2>3. r \in Replies
    <3>1. Head(calls) \in Asks \union Sends BY <2>2, Puts
    <3>2. Head(calls).id \in TaskIds BY <3>1 DEF Asks, Sends
    <3>3. tick \in Ticks /\ insert \in BOOLEAN BY DEF Typed
    <3> QED BY <2>1, <3>2, <3>3 DEF Replies
  <2>4. r.kind = "reply" /\ r.tick = tick /\ r.id = Head(calls).id BY <2>1
  <2> QED BY <2>2, <2>3, <2>4
<1>7. ASSUME DoneEdits PROVE Shape
  <2>1. inbox' = inbox \/ (inbox' = Append(inbox, Event("lines", tick + 1)) /\ tick' = tick + 1) BY <1>7 DEF DoneEdits
  <2>2. Event("lines", tick + 1) \in Events /\ Event("lines", tick + 1).kind = "lines" /\ Event("lines", tick + 1).n = tick + 1
    BY <1>0, Messages
  <2> QED BY <2>1, <2>2 DEF CountOf
<1>8. ASSUME Receive PROVE Shape
  <2>1. inbox # <<>> /\ inbox' = Tail(inbox)
    BY <1>8 DEF Receive, LinesEvent, Omnifunc, Status, Cursor, Text, Closed, LateReply, DoneStarts, Take, Reply
  <2> QED BY <1>8, <2>1
<1>9. ASSUME LeaveInsert \/ EnterInsert \/ OtherMenu \/ ShowComp \/ Collected \/ DoneEnds \/ UNCHANGED flowVars PROVE Shape
  <2>1. inbox' = inbox
    BY <1>9 DEF LeaveInsert, EnterInsert, OtherMenu, ShowComp, Collected, CollectEnds, CollectCancelled, DoneEnds, flowVars, nvim
  <2> QED BY <2>1
<1>10. Shape BY <1>3, <1>4, <1>5, <1>6, <1>7, <1>8, <1>9 DEF FlowNext, User, Finish
<1> QED BY <1>2, <1>10

LEMMA StateSteps ==
  ASSUME Typed, [FlowNext]_flowVars
  PROVE  /\ cell'.change_id = cell.change_id \/ (Status /\ cell'.change_id = Head(inbox).id[2])
         /\ cell'.context = cell.context \/ Text
<1>0. cell \in State BY DEF Typed
<1>1. CASE Aside BY <1>1, AsideSets
<1>2. CASE LinesEvent \/ Omnifunc \/ Cursor \/ Collected
  <2>1. cell' = cell BY <1>2 DEF LinesEvent, Omnifunc, Cursor, Collected, CollectEnds, CollectCancelled
  <2> QED BY <2>1
<1>3. CASE Status
  <2>1. cell' = [cell EXCEPT !.change_id = Head(inbox).id[2]] BY <1>3 DEF Status
  <2> QED BY <1>0, <1>3, <2>1 DEF State
<1>4. CASE Text
  <2>1. cell' = cell \/ cell' = [cell EXCEPT !.context = ContextOf(Head(inbox).id, Head(inbox).tick)]
    BY <1>4, TextSets
  <2> QED BY <1>0, <1>4, <2>1 DEF State
<1>5. CASE Closed
  <2>1. cell' = [cell EXCEPT !.inserted_pos = NoPos] BY <1>5 DEF Closed
  <2> QED BY <1>0, <2>1 DEF State
<1> QED BY <1>1, <1>2, <1>3, <1>4, <1>5, StepKinds

LEMMA CountedStep ==
  ASSUME Typed, InLine, Numbers, [FlowNext]_flowVars
  PROVE  Counted'
<1> SUFFICES ASSUME NEW p \in TaskIds, Known(p)' PROVE p[2] <= CountOf(KindOf(p))' BY DEF Counted
<1>1. KindOf(p) \in {"lines", "omni"} BY DEF KindOf
<1>2. /\ CountOf(KindOf(p)) <= CountOf(KindOf(p))' /\ CountOf(KindOf(p)) \in Nat /\ CountOf(KindOf(p))' \in Nat
  BY <1>1, CountersGrow DEF CountOf
<1>3. p[2] \in Nat BY Ids
<1>4. CASE Known(p) BY <1>2, <1>3, <1>4 DEF Numbers
<1>5. CASE ~Known(p)
  <2>1. Starts BY <1>5, NothingNew
  <2>2. PICK n : n = Head(inbox).n OBVIOUS
  <2>3. PICK h : h = IF Head(inbox).kind = "lines" THEN Automatic(n) ELSE Manual(n) OBVIOUS
  <2>4. /\ n \in Nat /\ h \in TaskIds /\ h[2] = n /\ n <= CountOf(KindOf(h)) /\ Untouched(h)
        /\ DOMAIN tasks' \subseteq DOMAIN tasks \union {h}
    BY <2>1, <2>2, <2>3, NewTaskQueue DEF Starts
  <2>5. p = h BY <1>5, <2>4 DEF Known, Untouched
  <2> QED BY <1>2, <2>4, <2>5
<1> QED BY <1>4, <1>5

LEMMA StatusIsKnown ==
  ASSUME Typed, InLine, OneAuto, Status, NEW h, h = Head(inbox).id
  PROVE  h \in TaskIds /\ h \in DOMAIN tasks /\ IsAuto(h) /\ Known(h) /\ KindOf(h) = "lines" /\ h[2] \in Nat
<1>1. h \in TaskIds /\ h \in DOMAIN tasks /\ tasks[h].at = "status" BY Answered DEF Status
<1>2. IsAuto(h) BY <1>1 DEF OneAuto, At
<1> QED BY <1>1, <1>2, Ids DEF Known, KindOf

\* an event that stays in the inbox stays newer than what is known
LEMMA EventStays ==
  ASSUME Typed, InLine, OneAuto, Numbers, [FlowNext]_flowVars, NEW k \in DOMAIN inbox, IsEvent(k),
         Starts => 1 < k, NEW kind, kind = inbox[k].kind, NEW n, n = inbox[k].n
  PROVE  /\ kind \in {"lines", "omni"} /\ n \in Nat /\ n <= CountOf(kind) /\ n <= CountOf(kind)'
         /\ \A p \in TaskIds : Known(p)' /\ KindOf(p) = kind => p[2] < n
         /\ kind = "lines" => cell'.change_id < n
<1>1. EventIsNew(k) BY NumbersParts
<1>2. n \in Nat /\ kind \in {"lines", "omni"}
  <2>1. inbox[k] \in Events \union Dones \union Replies BY ChannelTypes
  <2> QED BY <2>1 DEF IsEvent, Events, Dones, Replies
<1>3. n <= CountOf(kind) /\ n <= CountOf(kind)'
  <2>1. CountOf(kind) <= CountOf(kind)' /\ CountOf(kind) \in Nat /\ CountOf(kind)' \in Nat
    BY <1>2, CountersGrow
  <2>2. n <= CountOf(kind) BY <1>1 DEF EventIsNew
  <2> QED BY <1>2, <2>1, <2>2
<1>4. ASSUME NEW p \in TaskIds, Known(p)', KindOf(p) = kind PROVE p[2] < n
  <2>1. CASE Known(p) BY <1>1, <1>4, <2>1 DEF EventIsNew
  <2>2. CASE ~Known(p)
    <3>1. Starts BY <1>4, <2>2, NothingNew
    <3>2. PICK m : m = Head(inbox).n OBVIOUS
    <3>3. PICK h : h = IF Head(inbox).kind = "lines" THEN Automatic(m) ELSE Manual(m) OBVIOUS
    <3>4. /\ m \in Nat /\ h \in TaskIds /\ h[2] = m /\ KindOf(h) = Head(inbox).kind /\ Untouched(h)
          /\ DOMAIN tasks' \subseteq DOMAIN tasks \union {h}
          /\ inbox # <<>> /\ Head(inbox).kind \in {"lines", "omni"} /\ inbox' = Tail(inbox)
      BY <3>1, <3>2, <3>3, NewTaskQueue DEF Starts
    <3>5. p = h BY <1>4, <2>2, <3>4 DEF Known, Untouched
    <3>6. 1 \in DOMAIN inbox /\ inbox[1] = Head(inbox) BY <3>4, InboxTaken
    <3>7. EventIsNew(1) BY <3>4, <3>6, NumbersParts DEF IsEvent
    <3>8. inbox[1].n < inbox[k].n BY <1>4, <3>1, <3>4, <3>5, <3>6, <3>7 DEF EventIsNew
    <3> QED BY <3>2, <3>4, <3>5, <3>6, <3>8
  <2> QED BY <2>1, <2>2
<1>5. ASSUME kind = "lines" PROVE cell'.change_id < n
  <2>1. CASE cell'.change_id = cell.change_id BY <1>1, <1>5, <2>1 DEF EventIsNew
  <2>2. CASE Status /\ cell'.change_id = Head(inbox).id[2]
    <3>1. PICK h : h = Head(inbox).id OBVIOUS
    <3>2. h \in TaskIds /\ Known(h) /\ KindOf(h) = "lines" BY <2>2, <3>1, StatusIsKnown
    <3> QED BY <1>1, <1>5, <2>2, <3>1, <3>2 DEF EventIsNew
  <2> QED BY <2>1, <2>2, StateSteps
<1> QED BY <1>2, <1>3, <1>4, <1>5

\* what makes an event new after a step, its kind and number given
LEMMA IsNewNext ==
  ASSUME NEW i, NEW kind, NEW n, kind = inbox'[i].kind, n = inbox'[i].n, n <= CountOf(kind)',
         \A p \in TaskIds : Known(p)' /\ KindOf(p) = kind => p[2] < n,
         \A j \in DOMAIN inbox' : i < j /\ inbox'[j].kind = kind => n < inbox'[j].n,
         kind = "lines" => cell'.change_id < n
  PROVE  EventIsNew(i)'
BY DEF EventIsNew, CountOf

LEMMA NumbersStep ==
  ASSUME Typed, InLine, OneAuto, Numbers, cell.change_id <= tick, [FlowNext]_flowVars
  PROVE  Numbers'
<1>1. Counted' BY CountedStep
<1>2. ASSUME NEW i \in DOMAIN inbox', IsEvent(i)' PROVE EventIsNew(i)'
  <2>1. CASE inbox' = inbox
    <3>1. IsEvent(i) /\ i \in DOMAIN inbox BY <1>2, <2>1 DEF IsEvent
    <3>2. Starts => inbox # <<>> /\ inbox' = Tail(inbox) BY LinesEventSets, OmnifuncSets DEF Starts
    <3>3. ~Starts
      <4>1. inbox # <<>> => Tail(inbox) # inbox
        <5> DEFINE M == Events \union Dones \union Replies
        <5>1. inbox \in Seq(M) BY ChannelTypes
        <5> HIDE DEF M
        <5>2. inbox # <<>> => Len(Tail(inbox)) = Len(inbox) - 1 /\ Len(inbox) \in Nat BY <5>1, SeqEnds
        <5> QED BY <5>2
      <4> QED BY <2>1, <3>2, <4>1
    <3>4. PICK kind, n : kind = inbox[i].kind /\ n = inbox[i].n OBVIOUS
    <3>5. /\ n <= CountOf(kind)' /\ (kind = "lines" => cell'.change_id < n)
          /\ \A p \in TaskIds : Known(p)' /\ KindOf(p) = kind => p[2] < n
      BY <3>1, <3>3, <3>4, EventStays
    <3>6. EventIsNew(i) BY <3>1, NumbersParts
    <3>7. \A j \in DOMAIN inbox' : i < j /\ inbox'[j].kind = kind => n < inbox'[j].n
      BY <2>1, <3>4, <3>6 DEF EventIsNew
    <3>8. kind = inbox'[i].kind /\ n = inbox'[i].n BY <2>1, <3>4
    <3> QED BY <3>5, <3>7, <3>8, IsNewNext
  <2>2. CASE inbox # <<>> /\ inbox' = Tail(inbox)
    <3>1. /\ i \in Nat /\ i + 1 \in DOMAIN inbox /\ inbox'[i] = inbox[i + 1] /\ 1 < i + 1
          /\ \A j \in DOMAIN inbox' : j \in Nat /\ j + 1 \in DOMAIN inbox /\ inbox'[j] = inbox[j + 1]
      BY <1>2, <2>2, InboxTaken
    <3>2. IsEvent(i + 1) BY <1>2, <3>1 DEF IsEvent
    <3>3. PICK kind, n : kind = inbox[i + 1].kind /\ n = inbox[i + 1].n OBVIOUS
    <3>6. /\ n <= CountOf(kind)' /\ (kind = "lines" => cell'.change_id < n)
          /\ \A p \in TaskIds : Known(p)' /\ KindOf(p) = kind => p[2] < n
      BY <3>1, <3>2, <3>3, EventStays
    <3>4. EventIsNew(i + 1) BY <3>1, <3>2, NumbersParts
    <3>5. ASSUME NEW j \in DOMAIN inbox', i < j, inbox'[j].kind = kind PROVE n < inbox'[j].n
      <4>1. j \in Nat /\ j + 1 \in DOMAIN inbox /\ inbox'[j] = inbox[j + 1] /\ i + 1 < j + 1 BY <3>1, <3>5
      <4> QED BY <3>1, <3>3, <3>4, <3>5, <4>1 DEF EventIsNew
    <3>7. kind = inbox'[i].kind /\ n = inbox'[i].n BY <3>1, <3>3
    <3> QED BY <3>5, <3>6, <3>7, IsNewNext
  <2>3. ASSUME NEW e \in Events \union Dones \union Replies, inbox' = Append(inbox, e),
               e.kind \in {"lines", "omni"} => e.n = CountOf(e.kind) + 1 /\ e.n = CountOf(e.kind)'
        PROVE  EventIsNew(i)'
    <3>1. /\ Len(inbox) \in Nat /\ DOMAIN inbox \subseteq Nat
          /\ Len(inbox) + 1 \in DOMAIN inbox' /\ inbox'[Len(inbox) + 1] = e
          /\ \A j \in DOMAIN inbox : j < Len(inbox) + 1 /\ j \in DOMAIN inbox' /\ inbox'[j] = inbox[j]
          /\ \A j \in DOMAIN inbox' : j \in DOMAIN inbox \/ j = Len(inbox) + 1
      BY <2>3, InboxGrows
    <3>2. ~Starts
      <4>1. Starts => inbox # <<>> /\ inbox' = Tail(inbox) BY LinesEventSets, OmnifuncSets DEF Starts
      <4>2. inbox # <<>> /\ inbox' = Tail(inbox) => \A j \in DOMAIN inbox' : j + 1 \in DOMAIN inbox BY InboxTaken
      <4> QED BY <3>1, <4>1, <4>2
    <3>3. CASE i \in DOMAIN inbox
      <4>1. IsEvent(i) /\ inbox'[i] = inbox[i] BY <1>2, <3>1, <3>3 DEF IsEvent
      <4>2. PICK kind, n : kind = inbox[i].kind /\ n = inbox[i].n OBVIOUS
      <4>3. /\ n \in Nat /\ n <= CountOf(kind) /\ n <= CountOf(kind)' /\ (kind = "lines" => cell'.change_id < n)
            /\ kind \in {"lines", "omni"}
            /\ \A p \in TaskIds : Known(p)' /\ KindOf(p) = kind => p[2] < n
        BY <3>2, <3>3, <4>1, <4>2, EventStays
      <4>4. EventIsNew(i) BY <3>3, <4>1, NumbersParts
      <4>5. ASSUME NEW j \in DOMAIN inbox', i < j, inbox'[j].kind = kind PROVE n < inbox'[j].n
        <5>1. CASE j \in DOMAIN inbox BY <3>1, <4>2, <4>4, <4>5, <5>1 DEF EventIsNew
        <5>2. CASE j = Len(inbox) + 1
          <6>1. e.kind = kind BY <3>1, <4>5, <5>2
          <6>2. e.n = CountOf(kind) + 1 /\ CountOf(kind) \in Nat BY <2>3, <4>3, <6>1, CountersGrow
          <6> QED BY <3>1, <4>3, <5>2, <6>2
        <5> QED BY <3>1, <5>1, <5>2
      <4>6. kind = inbox'[i].kind /\ n = inbox'[i].n BY <4>1, <4>2
      <4> QED BY <4>3, <4>5, <4>6, IsNewNext
    <3>4. CASE i = Len(inbox) + 1
      <4>1. inbox'[i] = e /\ e.kind \in {"lines", "omni"} BY <1>2, <3>1, <3>4 DEF IsEvent
      <4>2. e.n = CountOf(e.kind) + 1 /\ e.n = CountOf(e.kind)' /\ CountOf(e.kind) \in Nat BY <2>3, <4>1, CountersGrow
      <4>3. ASSUME NEW p \in TaskIds, Known(p)', KindOf(p) = e.kind PROVE p[2] < e.n
        <5>1. Known(p) BY <3>2, <4>3, NothingNew
        <5>2. p[2] <= CountOf(e.kind) /\ p[2] \in Nat BY <4>3, <5>1, Ids DEF Numbers
        <5> QED BY <4>2, <5>2
      <4>4. \A j \in DOMAIN inbox' : ~(i < j) BY <3>1, <3>4
      <4>5. ASSUME e.kind = "lines" PROVE cell'.change_id < e.n
        <5>1. e.n = tick + 1 /\ tick \in Nat /\ cell.change_id \in Nat BY <4>2, <4>5, TaskTypes DEF CountOf
        <5>2. CASE cell'.change_id = cell.change_id BY <5>1, <5>2
        <5>3. CASE Status /\ cell'.change_id = Head(inbox).id[2]
          <6>1. PICK h : h = Head(inbox).id OBVIOUS
          <6>2. h \in TaskIds /\ Known(h) /\ KindOf(h) = "lines" /\ h[2] \in Nat BY <5>3, <6>1, StatusIsKnown
          <6>3. h[2] <= tick BY <6>2 DEF Numbers, CountOf
          <6> QED BY <5>1, <5>3, <6>1, <6>2, <6>3
        <5> QED BY <5>2, <5>3, StateSteps
      <4>6. e.n <= CountOf(e.kind)' BY <4>2
      <4>7. PICK kind, n : kind = e.kind /\ n = e.n OBVIOUS
      <4>8. n <= CountOf(kind)' BY <4>6, <4>7
      <4>9. kind = inbox'[i].kind /\ n = inbox'[i].n BY <4>1, <4>7
      <4> QED BY <4>3, <4>4, <4>5, <4>7, <4>8, <4>9, IsNewNext
    <3> QED BY <1>2, <3>1, <3>3, <3>4
  <2> QED BY <2>1, <2>2, <2>3, CountersGrow
<1> QED BY <1>1, <1>2 DEF Numbers, Counted, EventIsNew

-----------------------------------------------------------------------------
(* nvim waits for one thing at a time.                                      *)

\* what nvim waits for, after what is put in the inbox or taken from it
LEMMA RequestPut ==
  ASSUME Typed, NEW e \in Events \union Dones \union Replies, inbox' = Append(inbox, e),
         NEW m, m = Len(inbox) + 1
  PROVE  /\ \A i \in DOMAIN inbox : i \in DOMAIN inbox' /\ (IsRequest(i)' <=> IsRequest(i))
         /\ \A i \in DOMAIN inbox' : i \in DOMAIN inbox \/ i = m
         /\ m \in DOMAIN inbox' /\ (IsRequest(m)' <=> e.kind \in {"omni", "done"})
<1>1. /\ m \in DOMAIN inbox' /\ inbox'[m] = e
      /\ \A i \in DOMAIN inbox : i \in DOMAIN inbox' /\ inbox'[i] = inbox[i]
      /\ \A i \in DOMAIN inbox' : i \in DOMAIN inbox \/ i = m
  BY InboxGrows
<1> QED BY <1>1 DEF IsRequest

LEMMA RequestTaken ==
  ASSUME Typed, inbox # <<>>, inbox' = Tail(inbox)
  PROVE  /\ \A i \in DOMAIN inbox' : i + 1 \in DOMAIN inbox /\ i + 1 # 1 /\ (IsRequest(i)' <=> IsRequest(i + 1))
         /\ \A i \in DOMAIN inbox : i # 1 => i - 1 \in DOMAIN inbox' /\ (IsRequest(i - 1)' <=> IsRequest(i))
         /\ DOMAIN inbox \subseteq Nat /\ DOMAIN inbox' \subseteq Nat
         /\ 1 \in DOMAIN inbox /\ (IsRequest(1) <=> Head(inbox).kind \in {"omni", "done"})
<1>1. /\ DOMAIN inbox \subseteq Nat /\ DOMAIN inbox' \subseteq Nat
      /\ 1 \in DOMAIN inbox /\ inbox[1] = Head(inbox)
      /\ \A i \in DOMAIN inbox' : i + 1 \in DOMAIN inbox /\ inbox'[i] = inbox[i + 1] /\ 1 < i + 1
      /\ \A i \in DOMAIN inbox : i # 1 => i - 1 \in DOMAIN inbox' /\ inbox'[i - 1] = inbox[i]
  BY InboxTaken
<1>2. ASSUME NEW i \in DOMAIN inbox' PROVE i + 1 \in DOMAIN inbox /\ i + 1 # 1 /\ (IsRequest(i)' <=> IsRequest(i + 1))
  BY <1>1 DEF IsRequest
<1>3. ASSUME NEW i \in DOMAIN inbox, i # 1 PROVE i - 1 \in DOMAIN inbox' /\ (IsRequest(i - 1)' <=> IsRequest(i))
  BY <1>1, <1>3 DEF IsRequest
<1>4. IsRequest(1) <=> Head(inbox).kind \in {"omni", "done"} BY <1>1 DEF IsRequest
<1> QED BY <1>1, <1>2, <1>3, <1>4

LEMMA OneRequestStep ==
  ASSUME Typed, OneRequest, [FlowNext]_flowVars
  PROVE  OneRequest'
<1>1. CASE inbox' = inbox /\ finish' = finish /\ blocked' = blocked
  BY <1>1 DEF OneRequest, IsRequest
<1>2. ASSUME NEW e \in Events \union Dones \union Replies, inbox' = Append(inbox, e), e.kind \notin {"omni", "done"},
             finish'.at = finish.at \/ (finish.at # "none" /\ finish'.at # "none"), blocked' = blocked
      PROVE  OneRequest'
  <2>1. PICK m : m = Len(inbox) + 1 OBVIOUS
  <2>2. /\ \A i \in DOMAIN inbox : i \in DOMAIN inbox' /\ (IsRequest(i)' <=> IsRequest(i))
        /\ \A i \in DOMAIN inbox' : IsRequest(i)' => i \in DOMAIN inbox
    BY <1>2, <2>1, RequestPut
  <2> QED BY <1>2, <2>2 DEF OneRequest
<1>3. ASSUME NEW e \in Events \union Dones \union Replies, inbox' = Append(inbox, e), e.kind \in {"omni", "done"},
             finish' = finish, ~blocked, blocked'
      PROVE  OneRequest'
  <2>1. PICK m : m = Len(inbox) + 1 OBVIOUS
  <2>2. finish.at = "none" /\ \A i \in DOMAIN inbox : ~IsRequest(i) BY <1>3 DEF OneRequest
  <2>3. /\ \A i \in DOMAIN inbox : ~IsRequest(i)'
        /\ \A i \in DOMAIN inbox' : i \in DOMAIN inbox \/ i = m
        /\ m \in DOMAIN inbox' /\ IsRequest(m)'
    BY <1>3, <2>1, <2>2, RequestPut
  <2> QED BY <1>3, <2>2, <2>3 DEF OneRequest
<1>4. ASSUME inbox # <<>>, inbox' = Tail(inbox), Head(inbox).kind \notin {"omni", "done"}, finish' = finish, blocked' = blocked
      PROVE  OneRequest'
  <2>1. /\ \A i \in DOMAIN inbox' : i + 1 \in DOMAIN inbox /\ (IsRequest(i)' <=> IsRequest(i + 1))
        /\ \A i \in DOMAIN inbox : i # 1 => i - 1 \in DOMAIN inbox' /\ (IsRequest(i - 1)' <=> IsRequest(i))
        /\ DOMAIN inbox' \subseteq Nat /\ ~IsRequest(1)
    BY <1>4, RequestTaken
  <2>2. ASSUME NEW i \in DOMAIN inbox', NEW j \in DOMAIN inbox', IsRequest(i)', IsRequest(j)' PROVE i = j
    <3>1. i + 1 = j + 1 BY <2>1, <2>2 DEF OneRequest
    <3> QED BY <2>1, <3>1
  <2>3. (\E i \in DOMAIN inbox' : IsRequest(i)') <=> \E i \in DOMAIN inbox : IsRequest(i) BY <2>1
  <2> QED BY <1>4, <2>2, <2>3 DEF OneRequest
<1>5. ASSUME inbox # <<>>, inbox' = Tail(inbox), Head(inbox).kind \in {"omni", "done"}, blocked' <=> finish'.at # "none"
      PROVE  OneRequest'
  <2>1. /\ \A i \in DOMAIN inbox' : i + 1 \in DOMAIN inbox /\ i + 1 # 1 /\ (IsRequest(i)' <=> IsRequest(i + 1))
        /\ 1 \in DOMAIN inbox /\ IsRequest(1)
    BY <1>5, RequestTaken
  <2>2. \A i \in DOMAIN inbox' : ~IsRequest(i)' BY <2>1 DEF OneRequest
  <2> QED BY <1>5, <2>2 DEF OneRequest
<1>6. CASE Type
  <2>1. tick' \in Nat /\ inbox' = Append(inbox, Event("lines", tick')) /\ finish' = finish /\ blocked' = blocked
    BY <1>6, TaskTypes DEF Type, server
  <2>2. Event("lines", tick') \in Events /\ Event("lines", tick').kind = "lines" BY <2>1, Messages
  <2> QED BY <1>2, <2>1, <2>2
<1>7. CASE AskManual
  <2>1. /\ asked' \in Nat /\ inbox' = Append(inbox, Event("omni", asked')) /\ finish' = finish /\ ~blocked /\ blocked'
    BY <1>7, TaskTypes DEF AskManual
  <2>2. Event("omni", asked') \in Events /\ Event("omni", asked').kind = "omni" BY <2>1, Messages
  <2> QED BY <1>3, <2>1, <2>2
<1>8. CASE Accept
  <2>1. PICK e : e = [kind |-> "done", item |-> menu] OBVIOUS
  <2>2. e \in Dones /\ e.kind = "done" BY <1>8, <2>1 DEF Accept, Dones
  <2>3. inbox' = Append(inbox, e) /\ finish' = finish /\ ~blocked /\ blocked' BY <1>8, <2>1 DEF Accept, server
  <2> QED BY <1>3, <2>2, <2>3
<1>9. CASE Serve
  <2>1. PICK r : r = [kind |-> "reply", id |-> Head(calls).id, tick |-> tick, legal |-> insert /\ menu # [other |-> TRUE]]
    OBVIOUS
  <2>2. inbox' = Append(inbox, r) /\ calls # <<>> /\ finish' = finish /\ blocked' = blocked BY <1>9, <2>1 DEF Serve, server
  <2>3. r \in Replies
    <3>1. Head(calls) \in Asks \union Sends BY <2>2, Puts
    <3>2. Head(calls).id \in TaskIds BY <3>1 DEF Asks, Sends
    <3>3. tick \in Ticks /\ insert \in BOOLEAN BY DEF Typed
    <3> QED BY <2>1, <3>2, <3>3 DEF Replies
  <2>4. r.kind = "reply" BY <2>1
  <2> QED BY <1>2, <2>2, <2>3, <2>4
<1>10. CASE LinesEvent \/ Status \/ Cursor \/ Text \/ Closed \/ LateReply
  <2>1. inbox # <<>> /\ inbox' = Tail(inbox) /\ Head(inbox).kind \in {"lines", "reply"} /\ finish' = finish /\ blocked' = blocked
    BY <1>10 DEF LinesEvent, Status, Cursor, Text, Closed, LateReply, Reply, Take, nvim, server
  <2> QED BY <1>4, <2>1
<1>11. ASSUME inbox # <<>>, Head(inbox).kind \in {"omni", "done"} PROVE finish.at = "none" /\ blocked
  <2>1. 1 \in DOMAIN inbox /\ IsRequest(1)
    <3>1. 1 \in DOMAIN inbox /\ inbox[1] = Head(inbox)
      <4> DEFINE M == Events \union Dones \union Replies
      <4>1. inbox \in Seq(M) BY ChannelTypes
      <4> HIDE DEF M
      <4> QED BY <1>11, <4>1, SeqEnds
    <3> QED BY <1>11, <3>1 DEF IsRequest
  <2> QED BY <2>1 DEF OneRequest
<1>12. CASE Omnifunc
  <2>1. inbox # <<>> /\ inbox' = Tail(inbox) /\ Head(inbox).kind = "omni" /\ finish' = finish /\ ~blocked'
    BY <1>12 DEF Omnifunc, Take
  <2> QED BY <1>5, <1>11, <2>1
<1>13. CASE DoneStarts
  <2>1. /\ inbox # <<>> /\ inbox' = Tail(inbox) /\ Head(inbox).kind = "done"
        /\ \/ finish' = [at |-> "resolving", item |-> metrics, s |-> cell] /\ blocked' = blocked
           \/ finish' = finish /\ ~blocked'
    BY <1>13 DEF DoneStarts, Take
  <2>2. finish.at = "none" /\ blocked BY <1>11, <2>1
  <2>3. CASE finish' = [at |-> "resolving", item |-> metrics, s |-> cell] /\ blocked' = blocked
    <3>1. finish'.at # "none" BY <2>3
    <3>2. blocked' BY <2>2, <2>3
    <3> QED BY <1>5, <2>1, <3>1, <3>2
  <2>4. CASE finish' = finish /\ ~blocked'
    <3>1. ~(finish'.at # "none") BY <2>2, <2>4
    <3> QED BY <1>5, <2>1, <2>4, <3>1
  <2> QED BY <2>1, <2>3, <2>4
<1>14. CASE DoneEdits
  <2>1. CASE finish' = [at |-> "none"] /\ ~blocked' /\ inbox' = inbox
    BY <1>14, <2>1 DEF DoneEdits, OneRequest, IsRequest
  <2>2. CASE /\ finish' = [at |-> "editing", pos |-> tick + 1] /\ inbox' = Append(inbox, Event("lines", tick'))
             /\ tick' = tick + 1 /\ blocked' = blocked
    <3>1. tick' \in Nat BY <2>2, TaskTypes
    <3>2. Event("lines", tick') \in Events /\ Event("lines", tick').kind = "lines" BY <3>1, Messages
    <3>3. finish.at # "none" /\ finish'.at # "none" BY <1>14, <2>2 DEF DoneEdits
    <3> QED BY <1>2, <2>2, <3>2, <3>3
  <2> QED BY <1>14, <2>1, <2>2 DEF DoneEdits
<1>15. CASE DoneEnds
  BY <1>15 DEF DoneEnds, OneRequest, IsRequest
<1>16. CASE LeaveInsert \/ EnterInsert \/ OtherMenu \/ ShowComp \/ Collected \/ UNCHANGED flowVars
  <2>1. inbox' = inbox /\ finish' = finish /\ blocked' = blocked
    BY <1>16 DEF LeaveInsert, EnterInsert, OtherMenu, ShowComp, Collected, CollectEnds, CollectCancelled, flowVars, nvim, server
  <2> QED BY <1>1, <2>1
<1> QED BY <1>6, <1>7, <1>8, <1>9, <1>10, <1>12, <1>13, <1>14, <1>15, <1>16 DEF FlowNext, User, Receive, Finish

-----------------------------------------------------------------------------
(* The changes that tasks have seen.                                        *)

\* the others are as they were, h is in order with them
LEMMA ChangesKept ==
  ASSUME Typed, Typed', Changes, NEW h, Untouched(h), OneTask(h),
         cell'.context.change <= cell'.change_id, cell'.change_id <= tick', cell.change_id <= cell'.change_id,
         \A p \in DOMAIN tasks' : IsAuto(p) /\ At(p, "status")' => cell'.change_id < p[2],
         \A p \in DOMAIN tasks : p # h /\ Asking(p) => cell'.context.change <= Seen(p),
         Asking(h)' => /\ cell'.context.change <= Seen(h)' /\ Seen(h)' <= cell'.change_id
                       /\ IsAuto(h) => Seen(h)' = h[2]
                       /\ \A p \in TaskIds : ~Before(h, p)'
                       /\ \A p \in DOMAIN tasks : p # h /\ Asking(p) =>
                            /\ At(h, "text")' /\ At(p, "cursor") => Seen(h)' <= Seen(p)
                            /\ At(h, "cursor")' \/ At(p, "text") => Seen(p) <= Seen(h)'
  PROVE  Changes'
<1>1. ASSUME NEW p \in DOMAIN tasks', p # h
      PROVE  /\ p \in DOMAIN tasks /\ p \in TaskIds /\ (Asking(p)' <=> Asking(p)) /\ Seen(p)' = Seen(p)
             /\ \A at \in {"cursor", "text"} : At(p, at)' <=> At(p, at)
             /\ tasks'[p] = tasks[p]
  BY <1>1 DEF OneTask, Typed, Asking, At, Seen
<1>2. ASSUME NEW p \in DOMAIN tasks', Asking(p)'
      PROVE  /\ cell'.context.change <= Seen(p)' /\ Seen(p)' <= cell'.change_id
             /\ IsAuto(p) => Seen(p)' = p[2]
  <2>1. CASE p = h BY <1>2, <2>1
  <2>2. CASE p # h
    <3>1. p \in DOMAIN tasks /\ Asking(p) /\ Seen(p)' = Seen(p) BY <1>1, <1>2, <2>2
    <3>2. Seen(p) <= cell.change_id /\ (IsAuto(p) => Seen(p) = p[2]) BY <3>1 DEF Changes
    <3>3. Seen(p) \in Nat /\ cell.change_id \in Nat BY <3>1, TaskTypes DEF Seen
    <3>4. cell'.change_id \in Nat
      <4>1. cell' \in State BY DEF Typed
      <4> QED BY <4>1, FlowAssumption DEF State, Ticks
    <3> QED BY <2>2, <3>1, <3>2, <3>3, <3>4
  <2> QED BY <2>1, <2>2
<1>3. ASSUME NEW p \in DOMAIN tasks', NEW q \in DOMAIN tasks', At(p, "text")', At(q, "cursor")' PROVE Seen(p)' <= Seen(q)'
  <2>1. p # q BY <1>3 DEF At
  <2>2. CASE p # h /\ q # h
    <3>1. p \in DOMAIN tasks /\ q \in DOMAIN tasks /\ At(p, "text") /\ At(q, "cursor") /\ Seen(p)' = Seen(p) /\ Seen(q)' = Seen(q)
      BY <1>1, <1>3, <2>2
    <3> QED BY <3>1 DEF Changes
  <2>3. CASE p = h
    <3>1. q \in DOMAIN tasks /\ At(q, "cursor") /\ Asking(q) /\ Seen(q)' = Seen(q) BY <1>1, <1>3, <2>1, <2>3 DEF Asking
    <3>2. Asking(h)' BY <1>3, <2>3 DEF Asking
    <3> QED BY <1>3, <2>1, <2>3, <3>1, <3>2
  <2>4. CASE q = h
    <3>1. p \in DOMAIN tasks /\ At(p, "text") /\ Asking(p) /\ Seen(p)' = Seen(p) BY <1>1, <1>3, <2>1, <2>4 DEF Asking
    <3>2. Asking(h)' BY <1>3, <2>4 DEF Asking
    <3> QED BY <1>3, <2>1, <2>4, <3>1, <3>2
  <2> QED BY <2>2, <2>3, <2>4
<1>4. ASSUME NEW p \in DOMAIN tasks', NEW q \in DOMAIN tasks', Before(p, q)', tasks'[p].at = tasks'[q].at, Asking(p)'
      PROVE  Seen(p)' <= Seen(q)'
  <2>0. p \in TaskIds /\ q \in TaskIds BY DEF Typed
  <2>1. Asking(q)' BY <1>4 DEF Asking, At
  <2>2. CASE p = h BY <1>4, <2>0, <2>2
  <2>3. CASE p # h /\ q # h
    <3>1. Before(p, q) BY <1>4, <2>0, <2>3 DEF Untouched
    <3>2. p \in DOMAIN tasks /\ q \in DOMAIN tasks /\ tasks[p].at = tasks[q].at /\ Asking(p) /\ Seen(p)' = Seen(p) /\ Seen(q)' = Seen(q)
      BY <1>1, <1>4, <2>3
    <3> QED BY <3>1, <3>2 DEF Changes
  <2>4. CASE p # h /\ q = h
    <3>1. p \in DOMAIN tasks /\ Asking(p) /\ Seen(p)' = Seen(p) /\ (At(p, "text")' <=> At(p, "text")) BY <1>1, <1>4, <2>4
    <3>2. At(h, "cursor")' \/ At(p, "text") BY <1>4, <2>1, <2>4, <3>1 DEF At, Asking
    <3> QED BY <2>1, <2>4, <3>1, <3>2
  <2> QED BY <2>2, <2>3, <2>4
<1> QED BY <1>2, <1>3, <1>4 DEF Changes

\* the changes that a state, or a task, has seen are numbers
LEMMA Numbered ==
  ASSUME Typed
  PROVE  /\ cell.change_id \in Nat /\ cell.context.change \in Nat /\ cell.context.pos \in Nat /\ cell.context.text \in Nat
         /\ \A p \in DOMAIN tasks : Seen(p) \in Nat /\ tasks[p].ctx.pos \in Nat
         /\ tick \in Nat
BY TaskTypes DEF Seen

\* the task that is served is the first of those that wait
LEMMA FirstHasSeenLess ==
  ASSUME Typed, InLine, Changes, NEW h \in DOMAIN tasks, NEW at \in {"cursor", "text"}, At(h, at),
         \A q \in TaskIds : Waits(q) /\ q # h => Before(h, q)
  PROVE  /\ \A q \in DOMAIN tasks : q # h /\ At(q, at) => Seen(h) <= Seen(q)
         /\ \A q \in DOMAIN tasks : At(h, "text") /\ At(q, "cursor") => Seen(h) <= Seen(q)
         /\ \A q \in DOMAIN tasks : At(q, "text") /\ At(h, "cursor") => Seen(q) <= Seen(h)
<1>1. ASSUME NEW q \in DOMAIN tasks, q # h, At(q, at) PROVE Seen(h) <= Seen(q)
  <2>1. q \in TaskIds /\ Pending(q) BY <1>1 DEF Typed, Pending, At
  <2>2. Before(h, q) BY <1>1, <2>1 DEF InLine
  <2>3. Asking(h) /\ tasks[h].at = tasks[q].at BY <1>1 DEF Asking, At
  <2> QED BY <2>2, <2>3 DEF Changes
<1> QED BY <1>1 DEF Changes

LEMMA ChangesKeptAside ==
  ASSUME Typed, Typed', InLine, Changes, Aside, [FlowNext]_flowVars
  PROVE  Changes'
<1>1. PICK h : ~Pending(h) /\ Untouched(h) BY AsideQueue
<1>2. tasks' = tasks /\ cell'.change_id = cell.change_id /\ cell'.context = cell.context BY AsideSets
<1>3. OneTask(h) BY <1>2 DEF OneTask
<1>4. ~Asking(h)' BY <1>1, <1>2 DEF Asking, At, Pending
<1>5. tick <= tick' /\ tick' \in Nat BY CountersGrow
<1>6. /\ cell'.context.change <= cell'.change_id /\ cell'.change_id <= tick' /\ cell.change_id <= cell'.change_id
      /\ \A p \in DOMAIN tasks' : IsAuto(p) /\ At(p, "status")' => cell'.change_id < p[2]
      /\ \A p \in DOMAIN tasks : p # h /\ Asking(p) => cell'.context.change <= Seen(p)
  BY <1>2, <1>5, Numbered DEF Changes, At
<1> QED BY <1>1, <1>3, <1>4, <1>6, ChangesKept

LEMMA ChangesKeptStarts ==
  ASSUME Typed, Typed', InLine, Numbers, OneAuto, Changes, Starts, [FlowNext]_flowVars
  PROVE  Changes'
<1>1. PICK n : n = Head(inbox).n OBVIOUS
<1>2. PICK h : h = IF Head(inbox).kind = "lines" THEN Automatic(n) ELSE Manual(n) OBVIOUS
<1>3. /\ n \in Nat /\ h \in TaskIds /\ h[2] = n /\ KindOf(h) = Head(inbox).kind /\ ~Known(h)
      /\ Untouched(h) /\ OneTask(h) /\ \A p \in TaskIds : ~Before(h, p)'
      /\ inbox # <<>> /\ inbox' = Tail(inbox)
      /\ DOMAIN tasks' \subseteq DOMAIN tasks \union {h}
  BY <1>1, <1>2, NewTaskQueue DEF Starts
<1>4. cell' = cell /\ tick' = tick BY DEF Starts, LinesEvent, Omnifunc, nvim
<1>5. /\ cell'.context.change <= cell'.change_id /\ cell'.change_id <= tick' /\ cell.change_id <= cell'.change_id
      /\ \A p \in DOMAIN tasks : p # h /\ Asking(p) => cell'.context.change <= Seen(p)
  BY <1>4, Numbered DEF Changes
<1>6. ASSUME NEW p \in DOMAIN tasks', p # h, IsAuto(p), At(p, "status")' PROVE cell'.change_id < p[2]
  <2>1. At(p, "status") /\ p \in DOMAIN tasks BY <1>3, <1>6 DEF OneTask, At
  <2> QED BY <1>4, <1>6, <2>1 DEF Changes
<1>7. CASE LinesEvent
  <2>1. h = Automatic(Head(inbox).n) BY <1>7, <1>1, <1>2, LinesEventSets
  <2>2. tasks'[h] = [at |-> "status", s |-> cell, ctx |-> NoContext] /\ Head(inbox).kind = "lines"
    BY <1>7, <2>1, LinesEventSets
  <2>3. ~Asking(h)' BY <2>2 DEF Asking, At
  <2>4. cell'.change_id < h[2]
    <3>1. 1 \in DOMAIN inbox /\ inbox[1] = Head(inbox) BY <1>3, InboxTaken
    <3>2. EventIsNew(1) BY <2>2, <3>1, NumbersParts DEF IsEvent
    <3> QED BY <1>1, <1>3, <1>4, <2>2, <3>1, <3>2 DEF EventIsNew
  <2>5. \A p \in DOMAIN tasks' : IsAuto(p) /\ At(p, "status")' => cell'.change_id < p[2] BY <1>6, <2>4
  <2> QED BY <1>3, <1>5, <2>3, <2>5, ChangesKept
<1>8. CASE Omnifunc
  <2>1. h = Manual(Head(inbox).n) BY <1>8, <1>1, <1>2, OmnifuncSets
  <2>2. tasks'[h] = [at |-> "cursor", s |-> cell, ctx |-> NoContext] /\ h \in DOMAIN tasks'
    BY <1>8, <2>1, OmnifuncSets
  <2>3. ~IsAuto(h) BY <1>3, <2>1, <1>1, Ids
  <2>4. At(h, "cursor")' /\ ~At(h, "text")' /\ Seen(h)' = cell'.change_id BY <1>4, <2>2 DEF At, Seen
  <2>5. \A p \in DOMAIN tasks' : IsAuto(p) /\ At(p, "status")' => cell'.change_id < p[2] BY <1>6, <2>3
  <2>6. /\ cell'.context.change <= Seen(h)' /\ Seen(h)' <= cell'.change_id
        /\ IsAuto(h) => Seen(h)' = h[2]
        /\ \A p \in DOMAIN tasks : p # h /\ Asking(p) =>
             /\ At(h, "text")' /\ At(p, "cursor") => Seen(h)' <= Seen(p)
             /\ At(h, "cursor")' \/ At(p, "text") => Seen(p) <= Seen(h)'
    BY <1>4, <1>5, <2>3, <2>4, Numbered DEF Changes
  <2> QED BY <1>3, <1>5, <2>5, <2>6, ChangesKept
<1> QED BY <1>7, <1>8 DEF Starts

LEMMA ChangesKeptLeaves ==
  ASSUME Typed, Typed', InLine, Changes, [FlowNext]_flowVars, Closed \/ Collected
  PROVE  Changes'
<1> DEFINE Goes == \E h : Untouched(h) /\ OneTask(h) /\ h \notin DOMAIN tasks'
<1>1. Goes /\ cell'.change_id = cell.change_id /\ cell'.context = cell.context /\ tick' = tick
  <2>1. CASE Closed
    <3>1. PICK h : h = Head(inbox).id OBVIOUS
    <3>2. Untouched(h) /\ OneTask(h) BY <2>1, <3>1, AnswerQueue DEF Answers
    <3>3. h \notin DOMAIN tasks' BY <2>1, <3>1, ClosedSets
    <3>4. cell' = [cell EXCEPT !.inserted_pos = NoPos] /\ tick' = tick BY <2>1 DEF Closed, nvim
    <3> QED BY <3>2, <3>3, <3>4, StateKept
  <2>2. CASE Collected
    <3>1. PICK h \in DOMAIN collects : CollectEnds(h) \/ CollectCancelled(h) BY <2>2 DEF Collected
    <3>2. Untouched(h) /\ OneTask(h) /\ h \notin DOMAIN tasks' BY <3>1, CollectQueue
    <3>3. cell' = cell /\ tick' = tick BY <3>1, CollectedSets DEF nvim
    <3> QED BY <3>2, <3>3
  <2> QED BY <2>1, <2>2
<1>2. PICK h : Untouched(h) /\ OneTask(h) /\ h \notin DOMAIN tasks' BY <1>1
<1>3. ~Asking(h)' BY <1>2 DEF Asking, At
<1>4. /\ cell'.context.change <= cell'.change_id /\ cell'.change_id <= tick' /\ cell.change_id <= cell'.change_id
      /\ \A p \in DOMAIN tasks : p # h /\ Asking(p) => cell'.context.change <= Seen(p)
  BY <1>1, Numbered DEF Changes
<1>5. \A p \in DOMAIN tasks' : IsAuto(p) /\ At(p, "status")' => cell'.change_id < p[2]
  <2>1. \A p \in DOMAIN tasks' : At(p, "status")' => p \in DOMAIN tasks /\ At(p, "status") BY <1>2 DEF OneTask, At
  <2> QED BY <1>1, <2>1 DEF Changes
<1> QED BY <1>2, <1>3, <1>4, <1>5, ChangesKept

LEMMA ChangesKeptStatus ==
  ASSUME Typed, Typed', InLine, Numbers, OneAuto, Changes, Status, [FlowNext]_flowVars
  PROVE  Changes'
<1>1. PICK h : h = Head(inbox).id OBVIOUS
<1>2. /\ h \in TaskIds /\ h \in DOMAIN tasks /\ Untouched(h) /\ OneTask(h) /\ DOMAIN tasks' \subseteq DOMAIN tasks
      /\ \A q \in TaskIds : ~Before(h, q)'
  BY <1>1, AnswerQueue DEF Answers
<1>3. IsAuto(h) /\ Known(h) /\ KindOf(h) = "lines" /\ h[2] \in Nat /\ At(h, "status")
  BY <1>1, StatusIsKnown, Answered DEF Status, At
<1>4. h[2] <= tick BY <1>2, <1>3 DEF Numbers, CountOf
<1>5. PICK s : s = [cell EXCEPT !.change_id = h[2]] OBVIOUS
<1>6. s.change_id = h[2] /\ s.context = cell.context
  <2>1. cell \in State BY DEF Typed
  <2> QED BY <1>5, <2>1 DEF State
<1>7. /\ cell' = s /\ tick' = tick
      /\ \/ tasks'[h] = [tasks[h] EXCEPT !.at = "cursor", !.s = s] /\ h \in DOMAIN tasks'
         \/ h \notin DOMAIN tasks'
  BY <1>1, <1>2, <1>5, StatusSets DEF nvim
<1>8. h \in DOMAIN tasks' => At(h, "cursor")' /\ ~At(h, "text")' /\ Seen(h)' = h[2]
  <2>1. tasks[h] \in Tasks BY <1>2 DEF Typed
  <2> QED BY <1>6, <1>7, <2>1 DEF Tasks, At, Seen
<1>9. cell.change_id < h[2] BY <1>2, <1>3 DEF Changes
<1>10. /\ cell'.context.change <= cell'.change_id /\ cell'.change_id <= tick' /\ cell.change_id <= cell'.change_id
       /\ \A p \in DOMAIN tasks : p # h /\ Asking(p) => cell'.context.change <= Seen(p)
  BY <1>3, <1>4, <1>6, <1>7, <1>9, Numbered DEF Changes
<1>11. \A p \in DOMAIN tasks' : IsAuto(p) /\ At(p, "status")' => cell'.change_id < p[2]
  <2>1. ASSUME NEW p \in DOMAIN tasks', IsAuto(p), At(p, "status")' PROVE FALSE
    <3>1. p = h BY <1>2, <1>3, <2>1 DEF OneAuto
    <3> QED BY <1>8, <2>1, <3>1 DEF At
  <2> QED BY <2>1
<1>12. Asking(h)' => /\ cell'.context.change <= Seen(h)' /\ Seen(h)' <= cell'.change_id
                     /\ IsAuto(h) => Seen(h)' = h[2]
                     /\ \A p \in DOMAIN tasks : p # h /\ Asking(p) =>
                          /\ At(h, "text")' /\ At(p, "cursor") => Seen(h)' <= Seen(p)
                          /\ At(h, "cursor")' \/ At(p, "text") => Seen(p) <= Seen(h)'
  <2>1. Asking(h)' => h \in DOMAIN tasks' BY DEF Asking, At
  <2>2. \A p \in DOMAIN tasks : Asking(p) => Seen(p) <= cell.change_id /\ Seen(p) \in Nat BY Numbered DEF Changes
  <2> QED BY <1>3, <1>6, <1>7, <1>8, <1>9, <1>10, <2>1, <2>2, Numbered
<1> QED BY <1>2, <1>10, <1>11, <1>12, ChangesKept

LEMMA ChangesKeptCursor ==
  ASSUME Typed, Typed', InLine, Changes, Cursor, [FlowNext]_flowVars
  PROVE  Changes'
<1>1. PICK h : h = Head(inbox).id OBVIOUS
<1>2. /\ h \in TaskIds /\ h \in DOMAIN tasks /\ Untouched(h) /\ OneTask(h) /\ DOMAIN tasks' \subseteq DOMAIN tasks
      /\ \A q \in TaskIds : (Waits(q) /\ q # h => Before(h, q)) /\ ~Before(h, q)'
  BY <1>1, AnswerQueue DEF Answers
<1>3. At(h, "cursor") BY <1>1, Answered DEF Cursor, At
<1>4. cell' = cell /\ tick' = tick /\ tasks'[h] = [tasks[h] EXCEPT !.at = "text", !.ctx.pos = Head(inbox).tick] /\ h \in DOMAIN tasks'
  BY <1>1, <1>2, CursorSets DEF nvim
<1>5. At(h, "text")' /\ ~At(h, "cursor")' /\ Seen(h)' = Seen(h)
  <2>1. tasks[h] \in Tasks BY <1>2 DEF Typed
  <2> QED BY <1>4, <2>1 DEF Tasks, At, Seen
<1>6. /\ cell'.context.change <= cell'.change_id /\ cell'.change_id <= tick' /\ cell.change_id <= cell'.change_id
      /\ \A p \in DOMAIN tasks : p # h /\ Asking(p) => cell'.context.change <= Seen(p)
  BY <1>4, Numbered DEF Changes
<1>7. \A p \in DOMAIN tasks' : IsAuto(p) /\ At(p, "status")' => cell'.change_id < p[2]
  <2>1. \A p \in DOMAIN tasks' : At(p, "status")' => p \in DOMAIN tasks /\ At(p, "status") BY <1>2, <1>5 DEF OneTask, At
  <2> QED BY <1>4, <2>1 DEF Changes
<1>8. /\ \A q \in DOMAIN tasks : q # h /\ At(q, "cursor") => Seen(h) <= Seen(q)
      /\ \A q \in DOMAIN tasks : At(q, "text") => Seen(q) <= Seen(h)
  BY <1>2, <1>3, FirstHasSeenLess
<1>9. /\ cell'.context.change <= Seen(h)' /\ Seen(h)' <= cell'.change_id
      /\ IsAuto(h) => Seen(h)' = h[2]
      /\ \A p \in DOMAIN tasks : p # h /\ Asking(p) =>
           /\ At(h, "text")' /\ At(p, "cursor") => Seen(h)' <= Seen(p)
           /\ At(h, "cursor")' \/ At(p, "text") => Seen(p) <= Seen(h)'
  <2>1. cell.context.change <= Seen(h) /\ Seen(h) <= cell.change_id /\ (IsAuto(h) => Seen(h) = h[2])
    BY <1>2, <1>3 DEF Changes, Asking
  <2> QED BY <1>4, <1>5, <1>8, <2>1
<1> QED BY <1>2, <1>6, <1>7, <1>9, ChangesKept

LEMMA ChangesKeptText ==
  ASSUME Typed, Typed', InLine, Changes, Text, [FlowNext]_flowVars
  PROVE  Changes'
<1>1. PICK h : h = Head(inbox).id OBVIOUS
<1>2. /\ h \in TaskIds /\ h \in DOMAIN tasks /\ Untouched(h) /\ OneTask(h) /\ DOMAIN tasks' \subseteq DOMAIN tasks
      /\ \A q \in TaskIds : (Waits(q) /\ q # h => Before(h, q)) /\ ~Before(h, q)'
  BY <1>1, AnswerQueue DEF Answers
<1>3. At(h, "text") /\ tasks[h] \in Tasks /\ Head(inbox).tick \in Ticks BY <1>1, Answered DEF Text, At
<1>4. PICK ctx : ctx = ContextOf(h, Head(inbox).tick) OBVIOUS
<1>5. /\ ctx \in Context /\ tick' = tick
      /\ \/ tasks'[h] = [tasks[h] EXCEPT !.at = "collect", !.ctx = ctx] /\ cell' = [cell EXCEPT !.context = ctx]
         \/ tasks'[h] = [tasks[h] EXCEPT !.at = "closing", !.ctx = ctx] /\ cell' = cell
  BY <1>1, <1>4, TextSets DEF nvim
<1>6. ctx.change = Seen(h) BY <1>2, <1>3, <1>4, ContextRead DEF Seen
<1>7. ~Asking(h)' /\ ~At(h, "status")' BY <1>3, <1>5 DEF Tasks, Asking, At
<1>8. cell'.change_id = cell.change_id /\ cell'.context.change \in {cell.context.change, Seen(h)}
  <2>1. cell \in State BY DEF Typed
  <2> QED BY <1>5, <1>6, <2>1 DEF State
<1>9. cell.context.change <= Seen(h) /\ Seen(h) <= cell.change_id BY <1>2, <1>3 DEF Changes, Asking
<1>10. \A p \in DOMAIN tasks : p # h /\ Asking(p) => Seen(h) <= Seen(p)
  BY <1>2, <1>3, FirstHasSeenLess DEF Asking
<1>11. /\ cell'.context.change <= cell'.change_id /\ cell'.change_id <= tick' /\ cell.change_id <= cell'.change_id
       /\ \A p \in DOMAIN tasks : p # h /\ Asking(p) => cell'.context.change <= Seen(p)
  BY <1>2, <1>5, <1>8, <1>9, <1>10, Numbered DEF Changes
<1>12. \A p \in DOMAIN tasks' : IsAuto(p) /\ At(p, "status")' => cell'.change_id < p[2]
  <2>1. \A p \in DOMAIN tasks' : At(p, "status")' => p \in DOMAIN tasks /\ At(p, "status") BY <1>2, <1>7 DEF OneTask, At
  <2> QED BY <1>8, <2>1 DEF Changes
<1> QED BY <1>2, <1>7, <1>11, <1>12, ChangesKept

LEMMA ChangesStep ==
  ASSUME Typed, Typed', InLine, Numbers, OneAuto, Changes, [FlowNext]_flowVars
  PROVE  Changes'
BY StepKinds, ChangesKeptAside, ChangesKeptStarts, ChangesKeptLeaves, ChangesKeptStatus, ChangesKeptCursor, ChangesKeptText
  DEF Starts

-----------------------------------------------------------------------------
(* The positions that tasks have read.                                      *)

\* the parts of Positions
TextPos(p) == tasks[p].ctx.pos

Later(i) ==
  /\ inbox[i].tick <= tick
  /\ cell.change_id <= inbox[i].tick /\ cell.context.pos <= inbox[i].tick
  /\ IsAuto(inbox[i].id) => inbox[i].id[2] <= inbox[i].tick
  /\ \A p \in DOMAIN tasks : At(p, "text") => TextPos(p) <= inbox[i].tick

Texts ==
  /\ \A p \in DOMAIN tasks : At(p, "text") =>
       cell.context.pos <= TextPos(p) /\ TextPos(p) <= tick /\ Seen(p) <= TextPos(p)
  /\ \A p, q \in DOMAIN tasks : At(p, "text") /\ At(q, "text") /\ Before(p, q) => TextPos(p) <= TextPos(q)

LEMMA PositionsParts ==
  Positions <=> /\ \A i, j \in DOMAIN inbox : i < j /\ IsReply(i) /\ IsReply(j) => inbox[i].tick <= inbox[j].tick
                /\ \A i \in DOMAIN inbox : IsReply(i) => Later(i)
                /\ Texts
BY DEF Positions, Later, Texts, TextPos

\* the others are as they were, h is in order with them
LEMMA TextsKept ==
  ASSUME Typed, Texts, NEW h, Untouched(h), OneTask(h), tick \in Nat, tick' \in Nat, tick <= tick',
         \A p \in DOMAIN tasks : p # h /\ At(p, "text") => cell'.context.pos <= TextPos(p),
         At(h, "text")' => /\ cell'.context.pos <= TextPos(h)' /\ TextPos(h)' <= tick' /\ Seen(h)' <= TextPos(h)'
                           /\ TextPos(h)' \in Nat
                           /\ \A p \in TaskIds : ~Before(h, p)'
                           /\ \A p \in DOMAIN tasks : p # h /\ At(p, "text") => TextPos(p) <= TextPos(h)',
         \A p \in DOMAIN tasks' : p \in TaskIds
  PROVE  Texts'
<1>1. ASSUME NEW p \in DOMAIN tasks', p # h, At(p, "text")'
      PROVE  p \in DOMAIN tasks /\ At(p, "text") /\ TextPos(p)' = TextPos(p) /\ Seen(p)' = Seen(p)
  BY <1>1 DEF OneTask, At, TextPos, Seen
<1>2. ASSUME NEW p \in DOMAIN tasks', At(p, "text")'
      PROVE  cell'.context.pos <= TextPos(p)' /\ TextPos(p)' <= tick' /\ Seen(p)' <= TextPos(p)'
  <2>1. CASE p = h BY <1>2, <2>1
  <2>2. CASE p # h
    <3>1. TextPos(p) \in Nat BY <1>1, <1>2, <2>2, Numbered DEF TextPos
    <3>2. /\ p \in DOMAIN tasks /\ At(p, "text") /\ TextPos(p)' = TextPos(p) /\ Seen(p)' = Seen(p)
          /\ TextPos(p) <= tick /\ Seen(p) <= TextPos(p)
      BY <1>1, <1>2, <2>2 DEF Texts
    <3> QED BY <2>2, <3>1, <3>2
  <2> QED BY <2>1, <2>2
<1>3. ASSUME NEW p \in DOMAIN tasks', NEW q \in DOMAIN tasks', At(p, "text")', At(q, "text")', Before(p, q)'
      PROVE  TextPos(p)' <= TextPos(q)'
  <2>1. p \in TaskIds /\ q \in TaskIds OBVIOUS
  <2>2. CASE p = h BY <1>3, <2>1, <2>2
  <2>3. CASE p # h /\ q = h BY <1>1, <1>3, <2>3
  <2>4. CASE p # h /\ q # h
    <3>1. Before(p, q) BY <1>3, <2>1, <2>4 DEF Untouched
    <3> QED BY <1>1, <1>3, <2>4, <3>1 DEF Texts
  <2> QED BY <2>2, <2>3, <2>4
<1> QED BY <1>2, <1>3 DEF Texts

\* a reply that was there stays later than what is known
LEMMA ReplyStays ==
  ASSUME Typed, NEW k \in DOMAIN inbox, IsReply(k), Later(k), NEW h, OneTask(h), tick <= tick', tick' \in Nat,
         cell'.change_id <= inbox[k].tick, cell'.context.pos <= inbox[k].tick,
         At(h, "text")' => TextPos(h)' <= inbox[k].tick,
         NEW i, inbox'[i] = inbox[k]
  PROVE  Later(i)'
<1>1. inbox[k].tick \in Nat /\ tick \in Nat
  <2>1. inbox[k] \in Events \union Dones \union Replies BY ChannelTypes
  <2>2. inbox[k].tick \in Ticks BY <2>1 DEF IsReply, Events, Dones, Replies
  <2> QED BY <2>2, TaskTypes
<1>2. inbox[k].tick <= tick' BY <1>1 DEF Later
<1>3. ASSUME NEW p \in DOMAIN tasks', At(p, "text")' PROVE TextPos(p)' <= inbox[k].tick
  <2>1. CASE p = h BY <1>3, <2>1
  <2>2. CASE p # h
    <3>1. p \in DOMAIN tasks /\ At(p, "text") /\ TextPos(p)' = TextPos(p) BY <1>3, <2>2 DEF OneTask, At, TextPos
    <3> QED BY <3>1 DEF Later
  <2> QED BY <2>1, <2>2
<1> QED BY <1>2, <1>3 DEF Later

LEMMA PositionsKept ==
  ASSUME Typed, Typed', Positions, NEW h, OneTask(h), Texts', tick <= tick',
         inbox' = inbox \/ (inbox # <<>> /\ inbox' = Tail(inbox)),
         \A k \in DOMAIN inbox : IsReply(k) /\ (inbox' = inbox \/ 1 < k) =>
            /\ cell'.change_id <= inbox[k].tick /\ cell'.context.pos <= inbox[k].tick
            /\ At(h, "text")' => TextPos(h)' <= inbox[k].tick
  PROVE  Positions'
<1>0. tick' \in Nat
  <2>1. tick' \in Ticks BY DEF Typed
  <2> QED BY <2>1, FlowAssumption DEF Ticks
<1>1. PICK d \in {0, 1} : \A i \in DOMAIN inbox' : /\ i \in Nat /\ i + d \in DOMAIN inbox /\ inbox'[i] = inbox[i + d]
                                                   /\ inbox' = inbox \/ 1 < i + d
  <2>1. CASE inbox' = inbox
    <3>1. \A i \in DOMAIN inbox : i \in Nat
      <4> DEFINE M == Events \union Dones \union Replies
      <4>1. inbox \in Seq(M) BY ChannelTypes
      <4> HIDE DEF M
      <4> QED BY <4>1
    <3>2. \A i \in DOMAIN inbox : i \in Nat /\ i + 0 = i BY <3>1
    <3> QED BY <2>1, <3>2
  <2>2. CASE inbox # <<>> /\ inbox' = Tail(inbox) BY <2>2, InboxTaken
  <2> QED BY <2>1, <2>2
<1>2. \A i \in DOMAIN inbox' : IsReply(i)' => IsReply(i + d) BY <1>1 DEF IsReply
<1>3. ASSUME NEW i \in DOMAIN inbox', NEW j \in DOMAIN inbox', i < j, IsReply(i)', IsReply(j)'
      PROVE  inbox'[i].tick <= inbox'[j].tick
  <2>1. i + d < j + d BY <1>1, <1>3
  <2> QED BY <1>1, <1>2, <1>3, <2>1 DEF Positions
<1>4. ASSUME NEW i \in DOMAIN inbox', IsReply(i)' PROVE Later(i)'
  <2>1. PICK k : k = i + d OBVIOUS
  <2>2. k \in DOMAIN inbox /\ IsReply(k) /\ inbox'[i] = inbox[k] /\ (inbox' = inbox \/ 1 < k) BY <1>1, <1>2, <1>4, <2>1
  <2>3. Later(k) BY <2>2, PositionsParts
  <2> QED BY <1>0, <2>2, <2>3, ReplyStays
<1> QED BY <1>3, <1>4 DEF Positions, Later, Texts, TextPos

\* a reply carries the tick of the moment: nothing that is known is newer
LEMMA PositionsPut ==
  ASSUME Typed, Typed', Positions, Changes, Counted, Sound(cell.context), NEW h, OneTask(h), ~At(h, "text")', Texts',
         tick <= tick', cell'.change_id = cell.change_id, cell'.context = cell.context,
         NEW e \in Events \union Dones \union Replies, inbox' = Append(inbox, e),
         e.kind = "reply" => e.tick = tick /\ Known(e.id)
  PROVE  Positions'
<1>0. tick \in Nat /\ tick' \in Nat /\ tick' \in Ticks
  <2>1. tick' \in Ticks BY DEF Typed
  <2> QED BY <2>1, FlowAssumption, TaskTypes DEF Ticks
<1>1. PICK m : m = Len(inbox) + 1 OBVIOUS
<1>2. /\ DOMAIN inbox \subseteq Nat /\ m \in Nat
      /\ m \in DOMAIN inbox' /\ inbox'[m] = e
      /\ \A i \in DOMAIN inbox : i < m /\ i \in DOMAIN inbox' /\ inbox'[i] = inbox[i]
      /\ \A i \in DOMAIN inbox' : i \in DOMAIN inbox \/ i = m
  BY <1>1, InboxGrows
<1>3. ASSUME NEW i \in DOMAIN inbox, IsReply(i) PROVE inbox[i].tick <= tick /\ Later(i)'
  <2>1. Later(i) /\ inbox[i].tick <= tick BY <1>3, PositionsParts DEF Later
  <2>2. /\ cell'.change_id <= inbox[i].tick /\ cell'.context.pos <= inbox[i].tick
        /\ At(h, "text")' => TextPos(h)' <= inbox[i].tick
    BY <2>1 DEF Later
  <2>3. inbox'[i] = inbox[i] BY <1>2
  <2>4. Later(i)' BY <1>0, <1>3, <2>1, <2>2, <2>3, ReplyStays
  <2> QED BY <2>1, <2>4
<1>4. ASSUME e.kind = "reply" PROVE Later(m)'
  <2>1. e \in Replies /\ e.tick = tick /\ Known(e.id) BY <1>4 DEF Events, Dones, Replies
  <2>2. e.id \in TaskIds BY <2>1 DEF Replies
  <2>3. IsAuto(e.id) => e.id[2] <= tick BY <2>1, <2>2 DEF Counted, KindOf, CountOf
  <2>4. cell.change_id <= tick /\ cell.context.pos <= tick BY DEF Changes, Sound
  <2>5. ASSUME NEW p \in DOMAIN tasks', At(p, "text")' PROVE TextPos(p)' <= tick
    <3>1. p # h BY <2>5
    <3>2. p \in DOMAIN tasks /\ At(p, "text") /\ TextPos(p)' = TextPos(p) BY <2>5, <3>1 DEF OneTask, At, TextPos
    <3> QED BY <3>2, PositionsParts DEF Texts
  <2> QED BY <1>0, <1>2, <2>1, <2>3, <2>4, <2>5 DEF Later
<1>5. ASSUME NEW i \in DOMAIN inbox', IsReply(i)' PROVE Later(i)'
  <2>1. CASE i \in DOMAIN inbox
    <3>1. IsReply(i) BY <1>2, <1>5, <2>1 DEF IsReply
    <3> QED BY <1>3, <2>1, <3>1
  <2>2. CASE i = m
    <3>1. e.kind = "reply" BY <1>2, <1>5, <2>2 DEF IsReply
    <3> QED BY <1>4, <2>2, <3>1
  <2> QED BY <1>2, <2>1, <2>2
<1>6. ASSUME NEW i \in DOMAIN inbox', NEW j \in DOMAIN inbox', i < j, IsReply(i)', IsReply(j)'
      PROVE  inbox'[i].tick <= inbox'[j].tick
  <2>1. i \in DOMAIN inbox
    <3>1. j \in DOMAIN inbox \/ j = m BY <1>2
    <3>2. i # m
      <4>1. CASE j = m BY <1>2, <1>6, <4>1
      <4>2. CASE j \in DOMAIN inbox BY <1>2, <1>6, <4>2
      <4> QED BY <3>1, <4>1, <4>2
    <3> QED BY <1>2, <3>2
  <2>2. IsReply(i) /\ inbox'[i] = inbox[i] BY <1>2, <1>6, <2>1 DEF IsReply
  <2>3. CASE j \in DOMAIN inbox
    <3>1. IsReply(j) /\ inbox'[j] = inbox[j] BY <1>2, <1>6, <2>3 DEF IsReply
    <3> QED BY <1>6, <2>1, <2>2, <2>3, <3>1 DEF Positions
  <2>4. CASE j = m
    <3>1. e.kind = "reply" /\ e.tick = tick BY <1>2, <1>6, <2>4 DEF IsReply
    <3> QED BY <1>2, <1>3, <2>1, <2>2, <2>4, <3>1
  <2> QED BY <1>2, <2>3, <2>4
<1> QED BY <1>5, <1>6 DEF Positions, Later, Texts, TextPos

LEMMA HeadWaits ==
  ASSUME Typed, calls # <<>>
  PROVE  Waits(Head(calls).id)
<1> DEFINE M == Events \union Dones \union Replies
           C == Asks \union Sends
           i == Len(inbox) + 1
<1>1. inbox \in Seq(M) /\ calls \in Seq(C) BY ChannelTypes
<1> HIDE DEF M, C
<1>2. Len(inbox) \in Nat /\ Len(calls) \in Nat /\ Len(calls) >= 1 /\ Head(calls) = calls[1] BY <1>1, SeqEnds
<1>3. i \in Slots(inbox, calls) BY <1>2 DEF Slots
<1>4. IdAt(inbox, calls, i) = Head(calls).id BY <1>2 DEF IdAt
<1> HIDE DEF i
<1> QED BY <1>3, <1>4 DEF Waits, IsWaiting

LEMMA PositionsStepAside ==
  ASSUME Typed, Typed', InLine, Numbers, Changes, Positions, Sound(cell.context), Aside, [FlowNext]_flowVars
  PROVE  Positions'
<1>1. PICK h : ~Pending(h) /\ Untouched(h) BY AsideQueue
<1>2. tasks' = tasks /\ cell'.change_id = cell.change_id /\ cell'.context = cell.context BY AsideSets
<1>3. OneTask(h) BY <1>2 DEF OneTask
<1>4. ~At(h, "text")' BY <1>1, <1>2 DEF At, Pending
<1>5. tick <= tick' /\ tick' \in Nat /\ tick \in Nat BY CountersGrow, TaskTypes
<1>6. Texts BY PositionsParts
<1>7. \A p \in DOMAIN tasks' : p \in TaskIds BY DEF Typed
<1>8. \A p \in DOMAIN tasks : p # h /\ At(p, "text") => cell'.context.pos <= TextPos(p) BY <1>2, <1>6 DEF Texts
<1>9. Texts' BY <1>1, <1>3, <1>4, <1>5, <1>6, <1>7, <1>8, TextsKept
<1>10. CASE inbox' = inbox \/ (inbox # <<>> /\ inbox' = Tail(inbox))
  <2>1. \A k \in DOMAIN inbox : IsReply(k) => /\ cell'.change_id <= inbox[k].tick /\ cell'.context.pos <= inbox[k].tick
    BY <1>2, PositionsParts DEF Later
  <2> QED BY <1>3, <1>4, <1>5, <1>9, <1>10, <2>1, PositionsKept
<1>11. ASSUME NEW e \in Events \union Dones \union Replies, inbox' = Append(inbox, e),
              e.kind = "reply" => e.tick = tick /\ calls # <<>> /\ e.id = Head(calls).id
       PROVE  Positions'
  <2>1. e.kind = "reply" => e.tick = tick /\ Known(e.id) BY <1>11, HeadWaits DEF Known
  <2>2. Counted BY DEF Numbers, Counted
  <2> QED BY <1>2, <1>3, <1>4, <1>5, <1>9, <1>11, <2>1, <2>2, PositionsPut
<1> QED BY <1>10, <1>11, CountersGrow

\* steps after which h is not at its lines, the state being what it was or later than nothing in the inbox
LEMMA PositionsStepOff ==
  ASSUME Typed, Typed', Positions, NEW h, Untouched(h), OneTask(h), ~At(h, "text")', tick' = tick,
         inbox' = inbox \/ (inbox # <<>> /\ inbox' = Tail(inbox)), cell'.context.pos = cell.context.pos,
         \A k \in DOMAIN inbox : IsReply(k) /\ (inbox' = inbox \/ 1 < k) => cell'.change_id <= inbox[k].tick
  PROVE  Positions'
<1>1. tick \in Nat /\ tick' \in Nat /\ tick <= tick' BY TaskTypes
<1>2. Texts BY PositionsParts
<1>3. \A p \in DOMAIN tasks' : p \in TaskIds BY DEF Typed
<1>4. \A p \in DOMAIN tasks : p # h /\ At(p, "text") => cell'.context.pos <= TextPos(p) BY <1>2 DEF Texts
<1>5. Texts' BY <1>1, <1>2, <1>3, <1>4, TextsKept
<1>6. \A k \in DOMAIN inbox : IsReply(k) => cell'.context.pos <= inbox[k].tick BY PositionsParts DEF Later
<1> QED BY <1>1, <1>5, <1>6, PositionsKept

LEMMA PositionsStepStarts ==
  ASSUME Typed, Typed', InLine, Numbers, Positions, Starts, [FlowNext]_flowVars
  PROVE  Positions'
<1>1. PICK n : n = Head(inbox).n OBVIOUS
<1>2. PICK h : h = IF Head(inbox).kind = "lines" THEN Automatic(n) ELSE Manual(n) OBVIOUS
<1>3. Untouched(h) /\ OneTask(h) /\ inbox # <<>> /\ inbox' = Tail(inbox) BY <1>1, <1>2, NewTaskQueue DEF Starts
<1>4. cell' = cell /\ tick' = tick BY DEF Starts, LinesEvent, Omnifunc, nvim
<1>5. ~At(h, "text")'
  <2>1. CASE LinesEvent
    <3>1. h = Automatic(Head(inbox).n) BY <1>1, <1>2, <2>1, LinesEventSets
    <3>2. tasks'[h] = [at |-> "status", s |-> cell, ctx |-> NoContext] BY <2>1, <3>1, LinesEventSets
    <3> QED BY <3>2 DEF At
  <2>2. CASE Omnifunc
    <3>1. h = Manual(Head(inbox).n) BY <1>1, <1>2, <2>2, OmnifuncSets
    <3>2. tasks'[h] = [at |-> "cursor", s |-> cell, ctx |-> NoContext] BY <2>2, <3>1, OmnifuncSets
    <3> QED BY <3>2 DEF At
  <2> QED BY <2>1, <2>2 DEF Starts
<1>6. \A k \in DOMAIN inbox : IsReply(k) => cell'.change_id <= inbox[k].tick BY <1>4, PositionsParts DEF Later
<1> QED BY <1>3, <1>4, <1>5, <1>6, PositionsStepOff

LEMMA PositionsStepLeaves ==
  ASSUME Typed, Typed', InLine, Positions, [FlowNext]_flowVars, Closed \/ Collected
  PROVE  Positions'
<1>1. \A k \in DOMAIN inbox : IsReply(k) => cell.change_id <= inbox[k].tick BY PositionsParts DEF Later
<1>2. CASE Closed
  <2>1. PICK h : h = Head(inbox).id OBVIOUS
  <2>2. Untouched(h) /\ OneTask(h) /\ inbox # <<>> /\ inbox' = Tail(inbox) BY <1>2, <2>1, AnswerQueue DEF Answers
  <2>3. h \notin DOMAIN tasks' BY <1>2, <2>1, ClosedSets
  <2>4. cell' = [cell EXCEPT !.inserted_pos = NoPos] /\ tick' = tick BY <1>2 DEF Closed, nvim
  <2>5. cell'.change_id = cell.change_id /\ cell'.context = cell.context BY <2>4, StateKept
  <2>6. ~At(h, "text")' BY <2>3 DEF At
  <2> QED BY <1>1, <2>2, <2>4, <2>5, <2>6, PositionsStepOff
<1>3. CASE Collected
  <2>1. PICK h \in DOMAIN collects : CollectEnds(h) \/ CollectCancelled(h) BY <1>3 DEF Collected
  <2>2. Untouched(h) /\ OneTask(h) /\ h \notin DOMAIN tasks' BY <2>1, CollectQueue
  <2>3. cell' = cell /\ tick' = tick /\ inbox' = inbox BY <2>1, CollectedSets DEF nvim
  <2>4. ~At(h, "text")' BY <2>2 DEF At
  <2> QED BY <1>1, <2>2, <2>3, <2>4, PositionsStepOff
<1> QED BY <1>2, <1>3

LEMMA HeadReply ==
  ASSUME Typed, Positions, inbox # <<>>, Head(inbox).kind = "reply"
  PROVE  /\ 1 \in DOMAIN inbox /\ IsReply(1) /\ inbox[1] = Head(inbox) /\ Later(1)
         /\ \A k \in DOMAIN inbox : IsReply(k) /\ 1 < k => Head(inbox).tick <= inbox[k].tick
         /\ \A k \in DOMAIN inbox : IsReply(k) => inbox[k].tick \in Nat
<1>1. 1 \in DOMAIN inbox /\ inbox[1] = Head(inbox)
  <2> DEFINE M == Events \union Dones \union Replies
  <2>1. inbox \in Seq(M) BY ChannelTypes
  <2> HIDE DEF M
  <2> QED BY <2>1, SeqEnds
<1>2. IsReply(1) BY <1>1 DEF IsReply
<1>3. ASSUME NEW k \in DOMAIN inbox, IsReply(k) PROVE inbox[k].tick \in Nat
  <2>1. inbox[k] \in Events \union Dones \union Replies BY ChannelTypes
  <2>2. inbox[k].tick \in Ticks BY <1>3, <2>1 DEF IsReply, Events, Dones, Replies
  <2> QED BY <2>2, TaskTypes
<1>4. ASSUME NEW k \in DOMAIN inbox, IsReply(k), 1 < k PROVE Head(inbox).tick <= inbox[k].tick
  BY <1>1, <1>2, <1>4 DEF Positions
<1> QED BY <1>1, <1>2, <1>3, <1>4, PositionsParts

LEMMA PositionsStepStatus ==
  ASSUME Typed, Typed', InLine, OneAuto, Positions, Status, [FlowNext]_flowVars
  PROVE  Positions'
<1>1. PICK h : h = Head(inbox).id OBVIOUS
<1>2. /\ h \in TaskIds /\ h \in DOMAIN tasks /\ Untouched(h) /\ OneTask(h) /\ inbox # <<>> /\ inbox' = Tail(inbox)
      /\ Head(inbox) \in Replies
  BY <1>1, AnswerQueue DEF Answers
<1>3. IsAuto(h) /\ h[2] \in Nat BY <1>1, StatusIsKnown
<1>4. PICK s : s = [cell EXCEPT !.change_id = h[2]] OBVIOUS
<1>5. s.change_id = h[2] /\ s.context = cell.context
  <2>1. cell \in State BY DEF Typed
  <2> QED BY <1>4, <2>1 DEF State
<1>6. /\ cell' = s /\ tick' = tick
      /\ \/ tasks'[h] = [tasks[h] EXCEPT !.at = "cursor", !.s = s]
         \/ h \notin DOMAIN tasks'
  BY <1>1, <1>2, <1>4, StatusSets DEF nvim
<1>7. ~At(h, "text")'
  <2>1. tasks[h] \in Tasks BY <1>2 DEF Typed
  <2> QED BY <1>6, <2>1 DEF Tasks, At
<1>8. Head(inbox).kind = "reply" BY <1>2 DEF Replies
<1>9. h[2] <= Head(inbox).tick BY <1>1, <1>2, <1>3, <1>8, HeadReply DEF Later
<1>10. \A k \in DOMAIN inbox : IsReply(k) /\ 1 < k => cell'.change_id <= inbox[k].tick
  <2>1. Head(inbox).tick \in Nat BY <1>2, <1>8, HeadReply
  <2> QED BY <1>2, <1>3, <1>5, <1>6, <1>8, <1>9, <2>1, HeadReply
<1>11. inbox' # inbox
  <2> DEFINE M == Events \union Dones \union Replies
  <2>1. inbox \in Seq(M) BY ChannelTypes
  <2> HIDE DEF M
  <2>2. Len(Tail(inbox)) # Len(inbox) BY <1>2, <2>1, SeqEnds
  <2>3. Tail(inbox) # inbox BY <2>2
  <2> QED BY <1>2, <2>3
<1> QED BY <1>2, <1>5, <1>6, <1>7, <1>10, <1>11, PositionsStepOff

LEMMA PositionsStepCursor ==
  ASSUME Typed, Typed', InLine, Changes, Positions, Cursor, [FlowNext]_flowVars
  PROVE  Positions'
<1>1. PICK h : h = Head(inbox).id OBVIOUS
<1>2. /\ h \in TaskIds /\ h \in DOMAIN tasks /\ Untouched(h) /\ OneTask(h) /\ inbox # <<>> /\ inbox' = Tail(inbox)
      /\ Head(inbox) \in Replies /\ \A q \in TaskIds : ~Before(h, q)'
  BY <1>1, AnswerQueue DEF Answers
<1>3. PICK t : t = Head(inbox).tick OBVIOUS
<1>4. t \in Ticks /\ t \in Nat /\ Head(inbox).kind = "reply" BY <1>2, <1>3, TaskTypes DEF Replies
<1>5. /\ cell' = cell /\ tick' = tick /\ tasks'[h] = [tasks[h] EXCEPT !.at = "text", !.ctx.pos = t]
  BY <1>1, <1>3, CursorSets DEF nvim
<1>6. TextPos(h)' = t /\ Seen(h)' = Seen(h)
  <2>1. tasks[h] \in Tasks BY <1>2 DEF Typed
  <2> QED BY <1>4, <1>5, <2>1 DEF Tasks, Context, TextPos, Seen
<1>7. At(h, "cursor") BY <1>1, Answered DEF Cursor, At
<1>8. /\ t <= tick /\ cell.change_id <= t /\ cell.context.pos <= t
      /\ \A p \in DOMAIN tasks : At(p, "text") => TextPos(p) <= t
      /\ \A k \in DOMAIN inbox : IsReply(k) /\ 1 < k => t <= inbox[k].tick
  BY <1>2, <1>3, <1>4, HeadReply DEF Later
<1>9. Seen(h) <= t
  <2>1. Seen(h) <= cell.change_id BY <1>2, <1>7 DEF Changes, Asking
  <2> QED BY <1>2, <1>4, <1>8, <2>1, Numbered
<1>10. Texts'
  <2>1. Texts BY PositionsParts
  <2>2. \A p \in DOMAIN tasks' : p \in TaskIds BY DEF Typed
  <2>3. \A p \in DOMAIN tasks : p # h /\ At(p, "text") => cell'.context.pos <= TextPos(p) BY <1>5, <2>1 DEF Texts
  <2>4. tick \in Nat /\ tick' \in Nat /\ tick <= tick' BY <1>5, TaskTypes
  <2> QED BY <1>2, <1>4, <1>5, <1>6, <1>8, <1>9, <2>1, <2>2, <2>3, <2>4, TextsKept
<1>11. \A k \in DOMAIN inbox : IsReply(k) /\ 1 < k =>
         /\ cell'.change_id <= inbox[k].tick /\ cell'.context.pos <= inbox[k].tick /\ TextPos(h)' <= inbox[k].tick
  BY <1>5, <1>6, <1>8, PositionsParts DEF Later
<1>12. inbox' # inbox
  <2> DEFINE M == Events \union Dones \union Replies
  <2>1. inbox \in Seq(M) BY ChannelTypes
  <2> HIDE DEF M
  <2>2. Len(Tail(inbox)) # Len(inbox) BY <1>2, <2>1, SeqEnds
  <2>3. Tail(inbox) # inbox BY <2>2
  <2> QED BY <1>2, <2>3
<1>13. tick <= tick' BY <1>5, TaskTypes
<1> QED BY <1>2, <1>10, <1>11, <1>12, <1>13, PositionsKept

LEMMA PositionsStepText ==
  ASSUME Typed, Typed', InLine, Positions, Text, [FlowNext]_flowVars
  PROVE  Positions'
<1>1. PICK h : h = Head(inbox).id OBVIOUS
<1>2. /\ h \in TaskIds /\ h \in DOMAIN tasks /\ Untouched(h) /\ OneTask(h) /\ inbox # <<>> /\ inbox' = Tail(inbox)
      /\ \A q \in TaskIds : Waits(q) /\ q # h => Before(h, q)
  BY <1>1, AnswerQueue DEF Answers
<1>3. At(h, "text") /\ tasks[h] \in Tasks /\ Head(inbox).tick \in Ticks BY <1>1, Answered DEF Text, At
<1>4. PICK ctx : ctx = ContextOf(h, Head(inbox).tick) OBVIOUS
<1>5. /\ ctx \in Context /\ tick' = tick
      /\ \/ tasks'[h] = [tasks[h] EXCEPT !.at = "collect", !.ctx = ctx] /\ cell' = [cell EXCEPT !.context = ctx]
         \/ tasks'[h] = [tasks[h] EXCEPT !.at = "closing", !.ctx = ctx] /\ cell' = cell
  BY <1>1, <1>4, TextSets DEF nvim
<1>6. ctx.pos = TextPos(h) BY <1>2, <1>3, <1>4, ContextRead DEF TextPos
<1>7. ~At(h, "text")' BY <1>3, <1>5 DEF Tasks, At
<1>8. cell'.change_id = cell.change_id /\ cell'.context.pos \in {cell.context.pos, TextPos(h)}
  <2>1. cell \in State BY DEF Typed
  <2> QED BY <1>5, <1>6, <2>1 DEF State
<1>9. Texts BY PositionsParts
<1>10. \A p \in DOMAIN tasks : p # h /\ At(p, "text") => TextPos(h) <= TextPos(p)
  <2> SUFFICES ASSUME NEW p \in DOMAIN tasks, p # h, At(p, "text") PROVE TextPos(h) <= TextPos(p) OBVIOUS
  <2>1. p \in TaskIds /\ Pending(p) BY DEF Typed, Pending, At
  <2>2. Before(h, p) BY <1>2, <2>1 DEF InLine
  <2> QED BY <1>2, <1>3, <1>9, <2>2 DEF Texts
<1>11. \A p \in DOMAIN tasks : p # h /\ At(p, "text") => cell'.context.pos <= TextPos(p)
  BY <1>8, <1>9, <1>10 DEF Texts
<1>12. Texts'
  <2>1. \A p \in DOMAIN tasks' : p \in TaskIds BY DEF Typed
  <2>2. tick \in Nat /\ tick' \in Nat /\ tick <= tick' BY <1>5, TaskTypes
  <2> QED BY <1>2, <1>7, <1>9, <1>11, <2>1, <2>2, TextsKept
<1>13. \A k \in DOMAIN inbox : IsReply(k) => cell'.change_id <= inbox[k].tick /\ cell'.context.pos <= inbox[k].tick
  BY <1>2, <1>3, <1>8, PositionsParts DEF Later
<1>14. tick <= tick' BY <1>5, TaskTypes
<1> QED BY <1>2, <1>7, <1>12, <1>13, <1>14, PositionsKept

LEMMA PositionsStep ==
  ASSUME Typed, Typed', InLine, Numbers, OneAuto, Changes, Positions, Sound(cell.context), [FlowNext]_flowVars
  PROVE  Positions'
BY StepKinds, PositionsStepAside, PositionsStepStarts, PositionsStepLeaves, PositionsStepStatus, PositionsStepCursor,
   PositionsStepText DEF Starts

-----------------------------------------------------------------------------
(* Contexts.                                                                *)

\* what has been read stays read
LEMMA SoundLasts ==
  ASSUME Typed, tick <= tick', tick' \in Nat
  PROVE  /\ \A c \in Context : Sound(c) => Sound(c)'
         /\ \A x : SoundItem(x) => SoundItem(x)'
<1>1. ASSUME NEW c \in Context, Sound(c) PROVE Sound(c)'
  <2>1. c.pos \in Nat /\ c.text \in Nat /\ tick \in Nat BY TaskTypes
  <2> QED BY <1>1, <2>1 DEF Sound
<1> QED BY <1>1 DEF SoundItem

\* the context of a task whose lines have come
LEMMA ReadIsSound ==
  ASSUME Typed, InLine, Positions, Text, NEW h, h = Head(inbox).id, NEW ctx, ctx = ContextOf(h, Head(inbox).tick)
  PROVE  ctx \in Context /\ ctx.change = Seen(h) /\ ctx.pos = TextPos(h) /\ Sound(ctx)
<1>1. /\ h \in TaskIds /\ h \in DOMAIN tasks /\ inbox # <<>> /\ Head(inbox) \in Replies
  BY AnswerQueue DEF Answers
<1>2. At(h, "text") /\ Head(inbox).tick \in Ticks /\ Head(inbox).kind = "reply" BY <1>1, Answered DEF Text, At, Replies
<1>3. ctx \in Context /\ ctx.change = Seen(h) /\ ctx.pos = TextPos(h) /\ ctx.text = Head(inbox).tick
  BY <1>1, <1>2, ContextRead DEF Seen, TextPos
<1>4. Seen(h) <= TextPos(h) /\ TextPos(h) <= tick BY <1>1, <1>2, PositionsParts DEF Texts
<1>5. TextPos(h) <= Head(inbox).tick /\ Head(inbox).tick <= tick BY <1>1, <1>2, HeadReply DEF Later
<1>6. Seen(h) \in Nat /\ TextPos(h) \in Nat /\ Head(inbox).tick \in Nat BY <1>1, <1>2, Numbered, TaskTypes DEF TextPos
<1> QED BY <1>3, <1>4, <1>5, <1>6 DEF Sound

SoundServer ==
  /\ Sound(cell.context) /\ SoundItem(metrics)
  /\ \A p \in DOMAIN tasks : At(p, "collect") => Sound(tasks[p].ctx)

LEMMA SoundServerKept ==
  ASSUME Typed, Typed', SoundServer, tick <= tick', tick' \in Nat, NEW h, OneTask(h),
         NEW c, c = cell'.context, c = cell.context \/ Sound(c)',
         NEW x, x = metrics', x = metrics \/ SoundItem(x)',
         NEW d, d = tasks'[h].ctx, At(h, "collect")' => Sound(d)'
  PROVE  SoundServer'
<1>1. cell.context \in Context /\ (\A p \in DOMAIN tasks : tasks[p].ctx \in Context)
  BY TaskTypes
<1>2. Sound(c)' BY <1>1, SoundLasts DEF SoundServer
<1>3. SoundItem(x)' BY SoundLasts DEF SoundServer
<1>4. ASSUME NEW p \in DOMAIN tasks', At(p, "collect")', NEW e, e = tasks'[p].ctx PROVE Sound(e)'
  <2>1. CASE p = h BY <1>4, <2>1
  <2>2. CASE p # h
    <3>1. p \in DOMAIN tasks /\ At(p, "collect") /\ e = tasks[p].ctx BY <1>4, <2>2 DEF OneTask, At
    <3>2. e \in Context /\ Sound(e) BY <1>1, <3>1 DEF SoundServer
    <3> QED BY <3>2, SoundLasts
  <2> QED BY <2>1, <2>2
<1>5. Sound(cell.context)' BY <1>2 DEF Sound
<1>6. SoundItem(metrics)' BY <1>3 DEF SoundItem, Sound
<1>7. ASSUME NEW p \in DOMAIN tasks', At(p, "collect")' PROVE Sound(tasks[p].ctx)'
  <2>1. PICK e : e = tasks'[p].ctx OBVIOUS
  <2>2. Sound(e)' BY <1>4, <1>7, <2>1
  <2> QED BY <2>1, <2>2 DEF Sound
<1> QED BY <1>5, <1>6, <1>7 DEF SoundServer

LEMMA SoundServerStep ==
  ASSUME Typed, Typed', InLine, OneAuto, Numbers, Positions, SoundServer, [FlowNext]_flowVars
  PROVE  SoundServer'
<1>1. tick <= tick' /\ tick' \in Nat BY CountersGrow
<1>2. PICK c, x : c = cell'.context /\ x = metrics' OBVIOUS
<1>3. CASE Text
  <2>1. PICK h : h = Head(inbox).id OBVIOUS
  <2>2. PICK ctx : ctx = ContextOf(h, Head(inbox).tick) OBVIOUS
  <2>3. PICK d : d = tasks'[h].ctx OBVIOUS
  <2>4. h \in DOMAIN tasks /\ OneTask(h) BY <1>3, <2>1, AnswerQueue DEF Answers
  <2>5. ctx \in Context /\ Sound(ctx) BY <1>3, <2>1, <2>2, ReadIsSound
  <2>6. Sound(ctx)' BY <1>1, <2>5, SoundLasts
  <2>7. /\ cell' = [cell EXCEPT !.context = ctx] \/ cell' = cell
        /\ \/ tasks'[h] = [tasks[h] EXCEPT !.at = "collect", !.ctx = ctx]
           \/ tasks'[h] = [tasks[h] EXCEPT !.at = "closing", !.ctx = ctx]
        /\ metrics' = metrics \/ metrics' = Nothing
    BY <1>3, <2>1, <2>2, TextSets
  <2>8. c = cell.context \/ Sound(c)'
    <3>1. cell \in State BY DEF Typed
    <3> QED BY <1>2, <2>6, <2>7, <3>1 DEF State
  <2>9. x = metrics \/ SoundItem(x)' BY <1>2, <2>7, NoContexts DEF SoundItem
  <2>10. Sound(d)'
    <3>1. tasks[h] \in Tasks BY <2>4 DEF Typed
    <3>2. d = ctx BY <2>3, <2>7, <3>1 DEF Tasks
    <3> QED BY <2>6, <3>2
  <2> QED BY <1>1, <1>2, <2>3, <2>4, <2>8, <2>9, <2>10, SoundServerKept
<1>4. CASE Collected
  <2>1. PICK h \in DOMAIN collects : CollectEnds(h) \/ CollectCancelled(h) BY <1>4 DEF Collected
  <2>2. /\ h \in DOMAIN tasks /\ tasks[h].at = "collect" /\ tasks[h].ctx \in Context
        /\ metrics' = metrics \/ metrics' = tasks[h].ctx
        /\ cell' = cell
    BY <2>1, CollectedSets
  <2>3. OneTask(h) /\ h \notin DOMAIN tasks' BY <2>1, CollectQueue
  <2>4. PICK y : y = tasks[h].ctx OBVIOUS
  <2>5. Sound(y) BY <2>2, <2>4 DEF SoundServer, At
  <2>6. Sound(y)' BY <1>1, <2>2, <2>4, <2>5, SoundLasts
  <2>7. x = metrics \/ SoundItem(x)' BY <1>2, <2>2, <2>4, <2>6 DEF SoundItem
  <2>8. ~At(h, "collect")' BY <2>3 DEF At
  <2>9. PICK d : d = tasks'[h].ctx OBVIOUS
  <2> QED BY <1>1, <1>2, <2>2, <2>3, <2>7, <2>8, <2>9, SoundServerKept
<1>5. CASE ~Text /\ ~Collected
  <2>1. \E h : OneTask(h) /\ ~At(h, "collect")'
    <3>1. CASE Aside
      <4>1. tasks' = tasks BY <3>1, AsideSets
      <4>2. PICK h : h \notin DOMAIN tasks
        <5>1. NoId \notin DOMAIN tasks BY Ids DEF Typed
        <5> QED BY <5>1
      <4> QED BY <4>1, <4>2 DEF OneTask, At
    <3>2. CASE Starts
      <4>1. PICK n : n = Head(inbox).n OBVIOUS
      <4>2. PICK h : h = IF Head(inbox).kind = "lines" THEN Automatic(n) ELSE Manual(n) OBVIOUS
      <4>3. OneTask(h) BY <3>2, <4>1, <4>2, NewTaskQueue DEF Starts
      <4>4. ~At(h, "collect")'
        <5>1. CASE LinesEvent
          <6>1. h = Automatic(Head(inbox).n) BY <4>1, <4>2, <5>1, LinesEventSets
          <6>2. tasks'[h] = [at |-> "status", s |-> cell, ctx |-> NoContext] BY <5>1, <6>1, LinesEventSets
          <6> QED BY <6>2 DEF At
        <5>2. CASE Omnifunc
          <6>1. h = Manual(Head(inbox).n) BY <4>1, <4>2, <5>2, OmnifuncSets
          <6>2. tasks'[h] = [at |-> "cursor", s |-> cell, ctx |-> NoContext] BY <5>2, <6>1, OmnifuncSets
          <6> QED BY <6>2 DEF At
        <5> QED BY <3>2, <5>1, <5>2 DEF Starts
      <4> QED BY <4>3, <4>4
    <3>3. CASE Status \/ Cursor \/ Closed
      <4>1. PICK h : h = Head(inbox).id OBVIOUS
      <4>2. h \in DOMAIN tasks /\ OneTask(h) BY <3>3, <4>1, AnswerQueue DEF Answers
      <4>3. tasks[h] \in Tasks BY <4>2 DEF Typed
      <4>4. ~At(h, "collect")'
        <5>1. CASE Status
          <6>1. PICK s : s = [cell EXCEPT !.change_id = h[2]] OBVIOUS
          <6>2. tasks'[h] = [tasks[h] EXCEPT !.at = "cursor", !.s = s] \/ h \notin DOMAIN tasks'
            BY <4>1, <5>1, <6>1, StatusSets
          <6> QED BY <4>3, <6>2 DEF Tasks, At
        <5>2. CASE Cursor
          <6>1. tasks'[h] = [tasks[h] EXCEPT !.at = "text", !.ctx.pos = Head(inbox).tick] BY <4>1, <5>2, CursorSets
          <6> QED BY <4>3, <6>1 DEF Tasks, At
        <5>3. CASE Closed
          <6>1. h \notin DOMAIN tasks' BY <4>1, <5>3, ClosedSets
          <6> QED BY <6>1 DEF At
        <5> QED BY <3>3, <5>1, <5>2, <5>3
      <4> QED BY <4>2, <4>4
    <3> QED BY <1>5, <3>1, <3>2, <3>3, StepKinds DEF Starts
  <2>2. PICK h : OneTask(h) /\ ~At(h, "collect")' BY <2>1
  <2>3. PICK d : d = tasks'[h].ctx OBVIOUS
  <2>4. c = cell.context BY <1>2, <1>5, StateSteps
  <2>5. x = metrics
    <3>1. CASE Aside BY <1>2, <3>1, AsideSets
    <3>2. CASE LinesEvent \/ Omnifunc \/ Status \/ Cursor \/ Closed
      BY <1>2, <3>2 DEF LinesEvent, Omnifunc, Status, Cursor, Closed
    <3> QED BY <1>5, <3>1, <3>2, StepKinds
  <2> QED BY <1>1, <1>2, <2>2, <2>3, <2>4, <2>5, SoundServerKept
<1> QED BY <1>3, <1>4, <1>5

\* what is put behind the calls: a menu is closed, or shows the items of a collect that has ended
LEMMA CallsGrow ==
  ASSUME Typed, InLine, Numbers, [FlowNext]_flowVars
  PROVE  \/ calls' = calls
         \/ Serve /\ calls # <<>> /\ calls' = Tail(calls)
         \/ \E c \in Asks \union Sends :
              /\ calls' = Append(calls, c)
              /\ c.kind = "send" => \/ c.items = Nothing /\ Text
                                    \/ \E p \in DOMAIN tasks : At(p, "collect") /\ c.items = tasks[p].ctx
<1> DEFINE Shape == \E c \in Asks \union Sends :
              /\ calls' = Append(calls, c)
              /\ c.kind = "send" => \/ c.items = Nothing /\ Text
                                    \/ \E p \in DOMAIN tasks : At(p, "collect") /\ c.items = tasks[p].ctx
<1>1. CASE Serve BY <1>1 DEF Serve
<1>2. CASE User \/ ShowComp \/ LateReply \/ DoneStarts \/ Finish \/ Closed \/ UNCHANGED flowVars
  BY <1>2 DEF User, Type, LeaveInsert, EnterInsert, OtherMenu, AskManual, Accept, ShowComp, LateReply, DoneStarts, Finish,
              DoneEdits, DoneEnds, Closed, flowVars, server
<1>3. ASSUME NEW p \in TaskIds, NEW kind \in {"status", "cursor", "text"}, calls' = Append(calls, Call(kind, p)) PROVE Shape
  <2>1. Call(kind, p) \in Asks /\ Call(kind, p).kind # "send" BY Messages
  <2> QED BY <1>3, <2>1
<1>4. CASE Starts
  <2>1. PICK n : n = Head(inbox).n OBVIOUS
  <2>2. PICK h : h = IF Head(inbox).kind = "lines" THEN Automatic(n) ELSE Manual(n) OBVIOUS
  <2>3. h \in TaskIds BY <1>4, <2>1, <2>2, NewTaskQueue DEF Starts
  <2>4. CASE LinesEvent
    <3>1. h = Automatic(Head(inbox).n) BY <2>1, <2>2, <2>4, LinesEventSets
    <3>2. calls' = Append(calls, Call("status", h)) BY <2>4, <3>1, LinesEventSets
    <3> QED BY <1>3, <2>3, <3>2
  <2>5. CASE Omnifunc
    <3>1. h = Manual(Head(inbox).n) BY <2>1, <2>2, <2>5, OmnifuncSets
    <3>2. calls' = Append(calls, Call("cursor", h)) BY <2>5, <3>1, OmnifuncSets
    <3> QED BY <1>3, <2>3, <3>2
  <2> QED BY <1>4, <2>4, <2>5 DEF Starts
<1>5. CASE Status \/ Cursor
  <2>1. PICK h : h = Head(inbox).id OBVIOUS
  <2>2. h \in TaskIds BY <1>5, <2>1, AnswerQueue DEF Answers
  <2>3. calls' = calls \/ calls' = Append(calls, Call("cursor", h)) \/ calls' = Append(calls, Call("text", h))
    BY <1>5, <2>1, StatusSets, CursorSets
  <2> HIDE DEF Shape
  <2> QED BY <1>3, <2>2, <2>3 DEF Shape
<1>6. CASE Text
  <2>1. PICK h : h = Head(inbox).id OBVIOUS
  <2>2. h \in TaskIds BY <1>6, <2>1, AnswerQueue DEF Answers
  <2>3. calls' = calls \/ calls' = Append(calls, Send(Nothing, h)) BY <1>6, <2>1, TextSets
  <2>4. Send(Nothing, h) \in Sends /\ Send(Nothing, h).items = Nothing BY <2>2, Messages DEF Items
  <2> QED BY <1>6, <2>3, <2>4
<1>7. CASE Collected
  <2>1. PICK h \in DOMAIN collects : CollectEnds(h) \/ CollectCancelled(h) BY <1>7 DEF Collected
  <2>2. /\ h \in DOMAIN tasks /\ h \in TaskIds /\ tasks[h].at = "collect" /\ tasks[h].ctx \in Context
        /\ calls' = calls \/ calls' = Append(calls, Send(tasks[h].ctx, h))
    BY <2>1, CollectedSets
  <2>3. Send(tasks[h].ctx, h) \in Sends /\ Send(tasks[h].ctx, h).items = tasks[h].ctx BY <2>2, Messages DEF Items
  <2> QED BY <2>2, <2>3 DEF At
<1> QED BY <1>1, <1>2, <1>4, <1>5, <1>6, <1>7, StepKinds DEF Starts, Aside

SoundMenus ==
  /\ SoundItem(menu)
  /\ \A i \in DOMAIN scheduled : SoundItem(scheduled[i])
  /\ \A i \in DOMAIN calls : calls[i].kind = "send" => SoundItem(calls[i].items)

\* the menu, and what is put off until it is shown
LEMMA MenuSteps ==
  ASSUME Typed, [FlowNext]_flowVars
  PROVE  /\ \/ menu' = menu \/ menu' \notin Context
            \/ ShowComp /\ scheduled # <<>> /\ menu' = Head(scheduled)
         /\ \/ scheduled' = scheduled
            \/ ShowComp /\ scheduled # <<>> /\ scheduled' = Tail(scheduled)
            \/ Serve /\ calls # <<>> /\ Head(calls).kind = "send" /\ scheduled' = Append(scheduled, Head(calls).items)
<1>1. CASE User
  BY <1>1, NoContexts DEF User, Type, LeaveInsert, EnterInsert, OtherMenu, AskManual, Accept
<1>2. CASE ShowComp
  <2>1. menu' = Head(scheduled) \/ menu' = menu BY <1>2 DEF ShowComp
  <2>2. scheduled # <<>> /\ scheduled' = Tail(scheduled) BY <1>2 DEF ShowComp
  <2> QED BY <1>2, <2>1, <2>2
<1>3. CASE Serve
  <2>1. calls # <<>> /\ menu' = menu BY <1>3 DEF Serve
  <2>2. scheduled' = IF Head(calls).kind = "send" THEN Append(scheduled, Head(calls).items) ELSE scheduled
    BY <1>3 DEF Serve
  <2> QED BY <1>3, <2>1, <2>2
<1>4. CASE Receive \/ Collected \/ Finish \/ UNCHANGED flowVars
  <2>1. menu' = menu /\ scheduled' = scheduled
    BY <1>4 DEF Receive, LinesEvent, Omnifunc, Status, Cursor, Text, Closed, LateReply, DoneStarts, Collected, CollectEnds,
                CollectCancelled, Finish, DoneEdits, DoneEnds, flowVars, nvim
  <2> QED BY <2>1
<1> QED BY <1>1, <1>2, <1>3, <1>4 DEF FlowNext

LEMMA SoundMenusStep ==
  ASSUME Typed, Typed', InLine, Numbers, SoundServer, SoundMenus, [FlowNext]_flowVars
  PROVE  SoundMenus'
<1>1. tick <= tick' /\ tick' \in Nat BY CountersGrow
<1>2. \A y : SoundItem(y) => SoundItem(y)' BY <1>1, SoundLasts
<1>3. scheduled \in Seq(Items) BY DEF Typed
<1>4. scheduled # <<>> => SoundItem(Head(scheduled))
  <2>1. scheduled # <<>> => 1 \in DOMAIN scheduled /\ Head(scheduled) = scheduled[1] BY <1>3, SeqEnds
  <2> QED BY <2>1 DEF SoundMenus
<1> DEFINE C == Asks \union Sends
<1>5. calls \in Seq(C) BY ChannelTypes
<1>6. calls # <<>> /\ Head(calls).kind = "send" => SoundItem(Head(calls).items)
  <2> HIDE DEF C
  <2>1. calls # <<>> => 1 \in DOMAIN calls /\ Head(calls) = calls[1] BY <1>5, SeqEnds
  <2> QED BY <2>1 DEF SoundMenus
<1>7. PICK m : m = menu' OBVIOUS
<1>8. SoundItem(m)'
  <2>1. SoundItem(m) \/ m \notin Context BY <1>4, <1>7, MenuSteps DEF SoundMenus
  <2> QED BY <1>2, <2>1 DEF SoundItem
<1>9. ASSUME NEW i \in DOMAIN scheduled', NEW y, y = scheduled'[i] PROVE SoundItem(y)'
  <2>1. SoundItem(y)
    <3>1. CASE scheduled' = scheduled BY <1>9, <3>1 DEF SoundMenus
    <3>2. CASE scheduled # <<>> /\ scheduled' = Tail(scheduled)
      <4>1. i + 1 \in DOMAIN scheduled /\ scheduled'[i] = scheduled[i + 1] BY <1>3, <3>2, SeqEnds
      <4> QED BY <1>9, <4>1 DEF SoundMenus
    <3>3. CASE calls # <<>> /\ Head(calls).kind = "send" /\ scheduled' = Append(scheduled, Head(calls).items)
      <4>1. Head(calls).items \in Items
        <5>1. Head(calls) \in Asks \union Sends BY <3>3, Puts
        <5> QED BY <3>3, <5>1 DEF Asks, Sends
      <4>2. (i \in DOMAIN scheduled /\ y = scheduled[i]) \/ y = Head(calls).items BY <1>3, <1>9, <3>3, <4>1, SeqEnds
      <4> QED BY <1>6, <3>3, <4>2 DEF SoundMenus
    <3> QED BY <3>1, <3>2, <3>3, MenuSteps
  <2> QED BY <1>2, <2>1
<1>10. ASSUME NEW i \in DOMAIN calls', calls'[i].kind = "send", NEW y, y = calls'[i].items PROVE SoundItem(y)'
  <2>1. SoundItem(y)
    <3>1. CASE calls' = calls BY <1>10, <3>1 DEF SoundMenus
    <3>2. CASE calls # <<>> /\ calls' = Tail(calls)
      <4> HIDE DEF C
      <4>1. i + 1 \in DOMAIN calls /\ calls'[i] = calls[i + 1] BY <1>5, <3>2, SeqEnds
      <4> QED BY <1>10, <4>1 DEF SoundMenus
    <3>3. ASSUME NEW c \in C, calls' = Append(calls, c),
                 c.kind = "send" => \/ c.items = Nothing /\ Text
                                    \/ \E p \in DOMAIN tasks : At(p, "collect") /\ c.items = tasks[p].ctx
          PROVE  SoundItem(y)
      <4> HIDE DEF C
      <4>1. (i \in DOMAIN calls /\ calls'[i] = calls[i]) \/ calls'[i] = c BY <1>5, <3>3, SeqEnds
      <4>2. CASE i \in DOMAIN calls /\ calls'[i] = calls[i] BY <1>10, <4>2 DEF SoundMenus
      <4>3. CASE calls'[i] = c
        <5>1. y = Nothing \/ \E p \in DOMAIN tasks : At(p, "collect") /\ y = tasks[p].ctx BY <1>10, <3>3, <4>3
        <5> QED BY <5>1, NoContexts DEF SoundItem, SoundServer
      <4> QED BY <4>1, <4>2, <4>3
    <3> QED BY <3>1, <3>2, <3>3, CallsGrow
  <2> QED BY <1>2, <2>1
<1>11. SoundItem(menu)' BY <1>7, <1>8 DEF SoundItem, Sound
<1>12. \A i \in DOMAIN scheduled' : SoundItem(scheduled[i])'
  <2> SUFFICES ASSUME NEW i \in DOMAIN scheduled' PROVE SoundItem(scheduled[i])' OBVIOUS
  <2>1. PICK y : y = scheduled'[i] OBVIOUS
  <2>2. SoundItem(y)' BY <1>9, <2>1
  <2> QED BY <2>1, <2>2 DEF SoundItem, Sound
<1>13. \A i \in DOMAIN calls' : calls'[i].kind = "send" => SoundItem(calls[i].items)'
  <2> SUFFICES ASSUME NEW i \in DOMAIN calls', calls'[i].kind = "send" PROVE SoundItem(calls[i].items)' OBVIOUS
  <2>1. PICK y : y = calls'[i].items OBVIOUS
  <2>2. SoundItem(y)' BY <1>10, <2>1
  <2> QED BY <2>1, <2>2 DEF SoundItem, Sound
<1> QED BY <1>11, <1>12, <1>13 DEF SoundMenus

LEMMA ContextsStep ==
  ASSUME Typed, Typed', InLine, OneAuto, Numbers, Positions, Contexts, [FlowNext]_flowVars
  PROVE  Contexts'
<1>1. SoundServer /\ SoundMenus BY DEF Contexts, SoundServer, SoundMenus
<1>2. SoundServer' /\ SoundMenus' BY <1>1, SoundServerStep, SoundMenusStep
<1> QED BY <1>2 DEF Contexts, SoundServer, SoundMenus

-----------------------------------------------------------------------------
(* The context of the state is the newest.                                  *)

LEMMA NoNewCollect ==
  ASSUME Typed, InLine, Numbers, [FlowNext]_flowVars, ~Text, NEW p \in DOMAIN tasks', At(p, "collect")'
  PROVE  p \in DOMAIN tasks /\ At(p, "collect") /\ tasks'[p] = tasks[p]
<1>1. CASE Aside BY <1>1, AsideSets DEF At
<1>2. CASE Starts
  <2>1. PICK n : n = Head(inbox).n OBVIOUS
  <2>2. PICK h : h = IF Head(inbox).kind = "lines" THEN Automatic(n) ELSE Manual(n) OBVIOUS
  <2>3. OneTask(h) BY <1>2, <2>1, <2>2, NewTaskQueue DEF Starts
  <2>4. ~At(h, "collect")'
    <3>1. CASE LinesEvent
      <4>1. h = Automatic(Head(inbox).n) BY <2>1, <2>2, <3>1, LinesEventSets
      <4>2. tasks'[h] = [at |-> "status", s |-> cell, ctx |-> NoContext] BY <3>1, <4>1, LinesEventSets
      <4> QED BY <4>2 DEF At
    <3>2. CASE Omnifunc
      <4>1. h = Manual(Head(inbox).n) BY <2>1, <2>2, <3>2, OmnifuncSets
      <4>2. tasks'[h] = [at |-> "cursor", s |-> cell, ctx |-> NoContext] BY <3>2, <4>1, OmnifuncSets
      <4> QED BY <4>2 DEF At
    <3> QED BY <1>2, <3>1, <3>2 DEF Starts
  <2> QED BY <2>3, <2>4 DEF OneTask, At
<1>3. CASE Status \/ Cursor \/ Closed
  <2>1. PICK h : h = Head(inbox).id OBVIOUS
  <2>2. h \in DOMAIN tasks /\ OneTask(h) BY <1>3, <2>1, AnswerQueue DEF Answers
  <2>3. tasks[h] \in Tasks BY <2>2 DEF Typed
  <2>4. ~At(h, "collect")'
    <3>1. CASE Status
      <4>1. PICK s : s = [cell EXCEPT !.change_id = h[2]] OBVIOUS
      <4>2. tasks'[h] = [tasks[h] EXCEPT !.at = "cursor", !.s = s] \/ h \notin DOMAIN tasks'
        BY <2>1, <3>1, <4>1, StatusSets
      <4> QED BY <2>3, <4>2 DEF Tasks, At
    <3>2. CASE Cursor
      <4>1. tasks'[h] = [tasks[h] EXCEPT !.at = "text", !.ctx.pos = Head(inbox).tick] BY <2>1, <3>2, CursorSets
      <4> QED BY <2>3, <4>1 DEF Tasks, At
    <3>3. CASE Closed
      <4>1. h \notin DOMAIN tasks' BY <2>1, <3>3, ClosedSets
      <4> QED BY <4>1 DEF At
    <3> QED BY <1>3, <3>1, <3>2, <3>3
  <2> QED BY <2>2, <2>4 DEF OneTask, At
<1>4. CASE Collected
  <2>1. PICK h \in DOMAIN collects : CollectEnds(h) \/ CollectCancelled(h) BY <1>4 DEF Collected
  <2>2. OneTask(h) /\ h \notin DOMAIN tasks' BY <2>1, CollectQueue
  <2> QED BY <2>2 DEF OneTask, At
<1> QED BY <1>1, <1>2, <1>3, <1>4, StepKinds DEF Starts

\* the context of the state is only followed by one that is not older
LEMMA ContextAdvances ==
  ASSUME Typed, Typed', InLine, Changes, Positions, [FlowNext]_flowVars
  PROVE  /\ NotNewer(cell.context, cell'.context)
         /\ Text => \A p \in DOMAIN tasks' : At(p, "collect")' =>
                      (p \in DOMAIN tasks /\ At(p, "collect") /\ tasks'[p] = tasks[p]) \/ tasks'[p].ctx = cell'.context
<1>1. /\ cell.context.change \in Nat /\ cell.context.pos \in Nat BY Numbered
<1>2. CASE ~Text BY <1>1, <1>2, StateSteps DEF NotNewer
<1>3. CASE Text
  <2>1. PICK h : h = Head(inbox).id OBVIOUS
  <2>2. PICK ctx : ctx = ContextOf(h, Head(inbox).tick) OBVIOUS
  <2>3. h \in DOMAIN tasks /\ OneTask(h) BY <1>3, <2>1, AnswerQueue DEF Answers
  <2>4. ctx \in Context /\ ctx.change = Seen(h) /\ ctx.pos = TextPos(h) BY <1>3, <2>1, <2>2, ReadIsSound
  <2>5. At(h, "text") BY <1>3, <2>1, Answered DEF Text, At
  <2>6. /\ \/ /\ tasks'[h] = [tasks[h] EXCEPT !.at = "collect", !.ctx = ctx] /\ cell' = [cell EXCEPT !.context = ctx]
           \/ tasks'[h] = [tasks[h] EXCEPT !.at = "closing", !.ctx = ctx] /\ cell' = cell
    BY <1>3, <2>1, <2>2, TextSets
  <2>7. tasks[h] \in Tasks /\ cell \in State BY <2>3 DEF Typed
  <2>8. \/ tasks'[h].ctx = ctx /\ cell'.context = ctx
        \/ ~At(h, "collect")' /\ cell'.context = cell.context
    BY <2>6, <2>7 DEF Tasks, State, At
  <2>9. NotNewer(cell.context, ctx)
    <3>1. cell.context.change <= Seen(h) BY <2>3, <2>5 DEF Changes, Asking
    <3>2. cell.context.pos <= TextPos(h) BY <2>3, <2>5, PositionsParts DEF Texts
    <3> QED BY <2>4, <3>1, <3>2 DEF NotNewer
  <2>10. NotNewer(cell.context, cell'.context) BY <1>1, <2>8, <2>9 DEF NotNewer
  <2>11. \A p \in DOMAIN tasks' : At(p, "collect")' =>
           (p \in DOMAIN tasks /\ At(p, "collect") /\ tasks'[p] = tasks[p]) \/ tasks'[p].ctx = cell'.context
    BY <2>3, <2>8 DEF OneTask, At
  <2> QED BY <2>10, <2>11
<1> QED BY <1>2, <1>3

LEMMA NotNewerIsTransitive ==
  ASSUME NEW c \in Context, NEW d \in Context, NEW e \in Context, NotNewer(c, d), NotNewer(d, e)
  PROVE  NotNewer(c, e)
<1>1. \A x \in Context : x.change \in Nat /\ x.pos \in Nat BY FlowAssumption DEF Context, Ticks
<1> QED BY <1>1 DEF NotNewer

\* the items of metrics are of no newer context than the state's
LEMMA MetricsStep ==
  ASSUME Typed, [FlowNext]_flowVars
  PROVE  \/ metrics' = metrics \/ metrics' = Nothing
         \/ \E p \in DOMAIN tasks : At(p, "collect") /\ metrics' = tasks[p].ctx /\ cell' = cell
<1>1. CASE Collected
  <2>1. PICK h \in DOMAIN collects : CollectEnds(h) \/ CollectCancelled(h) BY <1>1 DEF Collected
  <2> QED BY <2>1, CollectedSets DEF At
<1>2. CASE Text BY <1>2, TextSets
<1>3. CASE ~Collected /\ ~Text
  <2>1. metrics' = metrics
    BY <1>3 DEF FlowNext, User, Type, LeaveInsert, EnterInsert, OtherMenu, AskManual, Accept, ShowComp, Serve, Receive,
                LinesEvent, Omnifunc, Status, Cursor, Closed, LateReply, DoneStarts, Finish, DoneEdits, DoneEnds, flowVars,
                server
  <2> QED BY <2>1
<1> QED BY <1>1, <1>2, <1>3

\* CompleteDone keeps the state that it has begun with
LEMMA FinishSteps ==
  ASSUME Typed, [FlowNext]_flowVars
  PROVE  /\ finish'.at = "resolving" => \/ finish' = finish
                                        \/ metrics \in Context /\ finish'.item = metrics /\ finish'.s = cell
         /\ used' = used \/ (finish.at = "resolving" /\ used' = <<finish.item, finish.s.context>>)
<1>1. CASE DoneStarts
  <2>1. used' = used BY <1>1 DEF DoneStarts
  <2>2. CASE Head(inbox).item = metrics
    <3>1. finish' = [at |-> "resolving", item |-> metrics, s |-> cell] BY <1>1, <2>2 DEF DoneStarts
    <3>2. metrics \in Context BY <1>1, <2>2, HeadIds DEF DoneStarts, Take
    <3> QED BY <2>1, <3>1, <3>2
  <2>3. CASE Head(inbox).item # metrics BY <1>1, <2>1, <2>3 DEF DoneStarts
  <2> QED BY <2>2, <2>3
<1>2. CASE DoneEdits
  <2>1. CASE finish.item = metrics /\ tick < MaxTick
    <3>1. finish' = [at |-> "editing", pos |-> tick + 1] /\ used' = <<finish.item, finish.s.context>> /\ finish.at = "resolving"
      BY <1>2, <2>1 DEF DoneEdits
    <3> QED BY <3>1
  <2>2. CASE ~(finish.item = metrics /\ tick < MaxTick)
    <3>1. finish' = [at |-> "none"] /\ used' = used BY <1>2, <2>2 DEF DoneEdits
    <3> QED BY <3>1
  <2> QED BY <2>1, <2>2
<1>3. CASE DoneEnds
  <2>1. finish' = [at |-> "none"] /\ used' = used BY <1>3 DEF DoneEnds
  <2> QED BY <2>1
<1>4. CASE ~DoneStarts /\ ~Finish
  <2>1. finish' = finish /\ used' = used
    BY <1>4 DEF FlowNext, User, Type, LeaveInsert, EnterInsert, OtherMenu, AskManual, Accept, ShowComp, Serve, Receive,
                LinesEvent, Omnifunc, Status, Cursor, Text, Closed, LateReply, Collected, CollectEnds, CollectCancelled,
                flowVars, server
  <2> QED BY <2>1
<1> QED BY <1>1, <1>2, <1>3, <1>4 DEF Finish

LEMMA OrderedStep ==
  ASSUME Typed, Typed', InLine, Numbers, Changes, Positions, Ordered, [FlowNext]_flowVars
  PROVE  Ordered'
<1>1. /\ cell.context \in Context /\ cell'.context \in Context /\ \A p \in DOMAIN tasks : tasks[p].ctx \in Context
  <2>1. cell' \in State BY DEF Typed
  <2> QED BY <2>1, TaskTypes DEF State
<1>2. NotNewer(cell.context, cell'.context) BY ContextAdvances
<1>3. NotNewer(cell'.context, cell'.context)
  <2>1. \A c \in Context : c.change \in Nat /\ c.pos \in Nat BY FlowAssumption DEF Context, Ticks
  <2> QED BY <1>1, <2>1 DEF NotNewer
<1>4. ASSUME NEW p \in DOMAIN tasks', At(p, "collect")' PROVE NotNewer(tasks'[p].ctx, cell'.context)
  <2>1. (p \in DOMAIN tasks /\ At(p, "collect") /\ tasks'[p] = tasks[p]) \/ tasks'[p].ctx = cell'.context
    BY <1>4, NoNewCollect, ContextAdvances
  <2>2. CASE p \in DOMAIN tasks /\ At(p, "collect") /\ tasks'[p] = tasks[p]
    <3>1. NotNewer(tasks[p].ctx, cell.context) /\ tasks[p].ctx \in Context BY <1>1, <2>2 DEF Ordered
    <3>2. NotNewer(tasks[p].ctx, cell'.context) BY <1>1, <1>2, <3>1, NotNewerIsTransitive
    <3> QED BY <2>2, <3>2
  <2>3. CASE tasks'[p].ctx = cell'.context BY <1>3, <2>3
  <2> QED BY <2>1, <2>2, <2>3
<1>5. ASSUME metrics' \in Context PROVE NotNewer(metrics', cell'.context)
  <2>1. CASE metrics' = metrics
    <3>1. metrics \in Context /\ NotNewer(metrics, cell.context) BY <1>5, <2>1 DEF Ordered
    <3>2. NotNewer(metrics, cell'.context) BY <1>1, <1>2, <3>1, NotNewerIsTransitive
    <3> QED BY <2>1, <3>2
  <2>2. ASSUME NEW p \in DOMAIN tasks, At(p, "collect"), metrics' = tasks[p].ctx, cell' = cell
        PROVE  NotNewer(metrics', cell'.context)
    BY <2>2 DEF Ordered
  <2> QED BY <1>5, <2>1, <2>2, MetricsStep, NoContexts
<1>6. finish'.at = "resolving" => NotNewer(finish'.item, finish'.s.context) BY FinishSteps DEF Ordered
<1>7. ContextIsNotOlder'
  <2>1. CASE used' = used BY <2>1 DEF Ordered, ContextIsNotOlder
  <2>2. CASE finish.at = "resolving" /\ used' = <<finish.item, finish.s.context>>
    <3>1. NotNewer(finish.item, finish.s.context) BY <2>2 DEF Ordered
    <3> QED BY <2>2, <3>1 DEF ContextIsNotOlder, NotNewer
  <2> QED BY <2>1, <2>2, FinishSteps
<1> QED BY <1>4, <1>5, <1>6, <1>7 DEF Ordered, NotNewer

-----------------------------------------------------------------------------
(* The newest change is served.                                             *)

LEMMA FreshAsk ==
  ASSUME NEW C, NEW cs \in Seq(C), NEW c \in C, c.kind # "send", NEW sch, NEW m, NEW n, NewestIsFresh(cs, sch, m, n)
  PROVE  NewestIsFresh(Append(cs, c), sch, m, n)
<1>1. /\ Len(cs) \in Nat /\ DOMAIN cs = 1 .. Len(cs) /\ DOMAIN Append(cs, c) = 1 .. Len(cs) + 1
      /\ Append(cs, c)[Len(cs) + 1] = c /\ \A i \in 1 .. Len(cs) : Append(cs, c)[i] = cs[i]
  BY SeqEnds
<1> DEFINE new == Append(cs, c)
           k == Len(cs) + 1
<1>2. /\ DOMAIN new = DOMAIN cs \union {k} /\ k \notin DOMAIN cs /\ new[k] = c /\ \A i \in DOMAIN cs : new[i] = cs[i]
  BY <1>1
<1> HIDE DEF new, k
<1>3. /\ ~IsSend(new, k) /\ \A i \in DOMAIN cs : IsSend(new, i) <=> IsSend(cs, i) BY <1>2 DEF IsSend
<1>4. ASSUME NEW i \in DOMAIN new, IsSend(new, i), \A j \in DOMAIN new : j > i => ~IsSend(new, j)
      PROVE  Fresh(new[i].items, n)
  <2>1. i \in DOMAIN cs /\ new[i] = cs[i] /\ IsSend(cs, i) /\ \A j \in DOMAIN cs : j > i => ~IsSend(cs, j)
    BY <1>2, <1>3, <1>4
  <2> QED BY <2>1 DEF NewestIsFresh
<1>5. (\A i \in DOMAIN new : ~IsSend(new, i)) => \A i \in DOMAIN cs : ~IsSend(cs, i) BY <1>2, <1>3
<1> QED BY <1>4, <1>5 DEF NewestIsFresh, new

LEMMA FreshSent ==
  ASSUME NEW C, NEW cs \in Seq(C), NEW c \in C, c.kind = "send", NEW sch, NEW m, NEW n, Fresh(c.items, n)
  PROVE  NewestIsFresh(Append(cs, c), sch, m, n)
<1> DEFINE new == Append(cs, c)
           k == Len(cs) + 1
<1>1. /\ DOMAIN new \subseteq Nat /\ k \in DOMAIN new /\ new[k] = c /\ \A i \in DOMAIN new : i # k => k > i
  BY SeqEnds
<1> HIDE DEF new, k
<1>2. IsSend(new, k) BY <1>1 DEF IsSend
<1> QED BY <1>1, <1>2 DEF NewestIsFresh, new

LEMMA FreshServed ==
  ASSUME NEW C, NEW cs \in Seq(C), cs # <<>>, NEW S, NEW sch \in Seq(S), NEW m, NEW n, NewestIsFresh(cs, sch, m, n),
         Head(cs).kind = "send" => Head(cs).items \in S
  PROVE  NewestIsFresh(Tail(cs), IF Head(cs).kind = "send" THEN Append(sch, Head(cs).items) ELSE sch, m, n)
<1> DEFINE rest == Tail(cs)
           next == IF Head(cs).kind = "send" THEN Append(sch, Head(cs).items) ELSE sch
<1>1. /\ Len(cs) \in Nat /\ Len(cs) >= 1 /\ DOMAIN cs = 1 .. Len(cs) /\ Head(cs) = cs[1]
      /\ DOMAIN rest = 1 .. Len(cs) - 1 /\ \A i \in 1 .. Len(cs) - 1 : rest[i] = cs[i + 1]
  BY SeqEnds
<1>2. /\ 1 \in DOMAIN cs /\ DOMAIN cs \subseteq Nat /\ DOMAIN rest \subseteq Nat
      /\ \A i \in DOMAIN rest : i + 1 \in DOMAIN cs /\ rest[i] = cs[i + 1]
      /\ \A i \in DOMAIN cs : i # 1 => i - 1 \in DOMAIN rest /\ rest[i - 1] = cs[i] /\ i > 1
  BY <1>1
<1>3. Head(cs).kind = "send" => next # <<>> /\ next[Len(next)] = Head(cs).items
  <2>1. ASSUME NEW x \in S PROVE Append(sch, x) # <<>> /\ Append(sch, x)[Len(Append(sch, x))] = x
    <3>1. Len(sch) \in Nat /\ Len(Append(sch, x)) = Len(sch) + 1 /\ Append(sch, x)[Len(sch) + 1] = x BY SeqEnds
    <3>2. Append(sch, x) # <<>> BY <3>1
    <3> QED BY <3>1, <3>2
  <2> QED BY <2>1
<1> HIDE DEF rest, next
<1>4. /\ \A i \in DOMAIN rest : IsSend(rest, i) <=> IsSend(cs, i + 1)
      /\ IsSend(cs, 1) <=> Head(cs).kind = "send"
      /\ \A i \in DOMAIN cs : i # 1 => (IsSend(rest, i - 1) <=> IsSend(cs, i))
  BY <1>1, <1>2 DEF IsSend
<1>5. ASSUME NEW i \in DOMAIN rest, IsSend(rest, i), \A j \in DOMAIN rest : j > i => ~IsSend(rest, j)
      PROVE  Fresh(rest[i].items, n)
  <2>1. i + 1 \in DOMAIN cs /\ IsSend(cs, i + 1) /\ rest[i] = cs[i + 1] BY <1>2, <1>4, <1>5
  <2>2. ASSUME NEW j \in DOMAIN cs, j > i + 1 PROVE ~IsSend(cs, j)
    <3>1. j # 1 /\ j - 1 > i BY <1>2, <2>2
    <3> QED BY <1>2, <1>4, <1>5, <3>1
  <2> QED BY <2>1, <2>2 DEF NewestIsFresh
<1>6. ASSUME \A i \in DOMAIN rest : ~IsSend(rest, i)
      PROVE  IF next # <<>> THEN Fresh(next[Len(next)], n) ELSE Fresh(m, n)
  <2>1. \A i \in DOMAIN cs : i # 1 => ~IsSend(cs, i) BY <1>2, <1>4, <1>6
  <2>2. CASE Head(cs).kind = "send"
    <3>1. \A j \in DOMAIN cs : j > 1 => ~IsSend(cs, j) BY <1>2, <2>1
    <3>2. Fresh(cs[1].items, n) BY <1>2, <1>4, <2>2, <3>1 DEF NewestIsFresh
    <3> QED BY <1>1, <1>3, <2>2, <3>2
  <2>3. CASE Head(cs).kind # "send"
    <3>1. \A i \in DOMAIN cs : ~IsSend(cs, i) BY <1>4, <2>1, <2>3
    <3>2. next = sch BY <2>3 DEF next
    <3> QED BY <3>1, <3>2 DEF NewestIsFresh
  <2> QED BY <2>2, <2>3
<1> QED BY <1>5, <1>6 DEF NewestIsFresh, rest, next

LEMMA FreshShown ==
  ASSUME NEW cs, NEW S, NEW sch \in Seq(S), sch # <<>>, NEW m, NEW n, NewestIsFresh(cs, sch, m, n),
         NEW shown, shown = Head(sch) \/ shown \notin Context
  PROVE  NewestIsFresh(cs, Tail(sch), shown, n)
<1>1. /\ Len(sch) \in Nat /\ Len(sch) >= 1 /\ Head(sch) = sch[1] /\ Tail(sch) \in Seq(S)
      /\ Len(Tail(sch)) = Len(sch) - 1 /\ \A i \in 1 .. Len(sch) - 1 : Tail(sch)[i] = sch[i + 1]
  BY SeqEnds
<1>2. ASSUME \A i \in DOMAIN cs : ~IsSend(cs, i)
      PROVE  IF Tail(sch) # <<>> THEN Fresh(Tail(sch)[Len(Tail(sch))], n) ELSE Fresh(shown, n)
  <2>1. Fresh(sch[Len(sch)], n) BY <1>2 DEF NewestIsFresh
  <2>2. CASE Tail(sch) # <<>>
    <3>1. Len(Tail(sch)) # 0 BY <1>1, <2>2
    <3>2. Tail(sch)[Len(Tail(sch))] = sch[Len(sch)] BY <1>1, <3>1
    <3> QED BY <2>1, <2>2, <3>2
  <2>3. CASE Tail(sch) = <<>>
    <3>1. Len(Tail(sch)) = 0
      <4>1. Len(<<>>) = 0 OBVIOUS
      <4> QED BY <2>3, <4>1
    <3>2. Len(sch) = 1
      <4>1. PICK k \in Nat : k = Len(sch) BY <1>1
      <4>2. k - 1 = 0 BY <1>1, <3>1, <4>1
      <4>3. k = 1 BY <4>2
      <4> QED BY <4>1, <4>3
    <3> QED BY <1>1, <2>1, <2>3, <3>2 DEF Fresh
  <2> QED BY <2>2, <2>3
<1> QED BY <1>2 DEF NewestIsFresh

LEMMA FreshMenu ==
  ASSUME NEW cs, NEW sch, NEW m, NEW n, NewestIsFresh(cs, sch, m, n), NEW shown, shown = m \/ shown \notin Context
  PROVE  NewestIsFresh(cs, sch, shown, n)
BY DEF NewestIsFresh, Fresh

\* the parts of Newest
Arrives(n) == \E i \in DOMAIN inbox : inbox[i].kind = "lines" /\ inbox[i].n = n
Begun(n) == \E p \in DOMAIN tasks : p = Automatic(n) /\ tasks[p].at \in {"status", "cursor", "text"}
Served(n) ==
  /\ cell.change_id = n
  /\ \A p \in DOMAIN tasks : Asking(p) => Seen(p) = n
  /\ Running(n) \/ NewestIsFresh(calls, scheduled, menu, n)

LEMMA NewestParts ==
  ASSUME NEW n
  PROVE  /\ n = tick => (Newest <=> fate[n] = "skipped" \/ Arrives(n) \/ Begun(n) \/ Served(n))
         /\ n = tick' => (Newest' <=> fate'[n] = "skipped" \/ Arrives(n)' \/ Begun(n)' \/ Served(n)')
BY DEF Newest, Arrives, Begun, Served, Running, NewestIsFresh, Fresh

LEMMA ArrivesStays ==
  ASSUME Typed, [FlowNext]_flowVars, NEW n, Arrives(n), LinesEvent => Head(inbox).n # n
  PROVE  Arrives(n)'
<1>1. PICK i \in DOMAIN inbox : inbox[i].kind = "lines" /\ inbox[i].n = n BY DEF Arrives
<1>2. CASE inbox' = inbox BY <1>1, <1>2 DEF Arrives
<1>3. CASE Receive /\ inbox # <<>> /\ inbox' = Tail(inbox)
  <2>1. inbox[1] = Head(inbox) /\ (i # 1 => i - 1 \in DOMAIN inbox' /\ inbox'[i - 1] = inbox[i]) BY <1>1, <1>3, InboxTaken
  <2>2. CASE i # 1 BY <1>1, <2>1, <2>2 DEF Arrives
  <2>3. CASE i = 1
    <3>1. Head(inbox).kind = "lines" /\ Head(inbox).n = n BY <1>1, <2>1, <2>3
    <3>2. LinesEvent
      BY <1>3, <3>1 DEF Receive, Omnifunc, Status, Cursor, Text, Closed, LateReply, DoneStarts, Reply, Take
    <3> QED BY <3>1, <3>2
  <2> QED BY <2>2, <2>3
<1>4. ASSUME NEW e \in Events \union Dones \union Replies, inbox' = Append(inbox, e) PROVE Arrives(n)'
  <2>1. i \in DOMAIN inbox' /\ inbox'[i] = inbox[i] BY <1>1, <1>4, InboxGrows
  <2> QED BY <1>1, <2>1 DEF Arrives
<1> QED BY <1>2, <1>3, <1>4, CountersGrow

\* the newest change is asked about until its lines have come, or it is skipped
LEMMA BegunStays ==
  ASSUME Typed, InLine, OneAuto, Numbers, [FlowNext]_flowVars, NEW n, n = tick, Begun(n),
         ~(Text /\ Head(inbox).id = Automatic(n)), ~(Status /\ Head(inbox).id = Automatic(n))
  PROVE  Begun(n)'
<1>1. PICK p \in DOMAIN tasks : p = Automatic(n) /\ tasks[p].at \in {"status", "cursor", "text"} BY DEF Begun
<1>2. n \in Nat /\ p \in TaskIds /\ IsAuto(p) /\ p[2] = n /\ Known(p) /\ KindOf(p) = "lines"
  BY <1>1, TaskTypes, Ids DEF Known, KindOf
<1>3. ASSUME p \in DOMAIN tasks', tasks'[p] = tasks[p] PROVE Begun(n)' BY <1>1, <1>3 DEF Begun
<1>4. CASE Aside BY <1>1, <1>3, <1>4, AsideSets
<1>5. CASE LinesEvent
  <2>1. inbox # <<>> /\ Head(inbox).kind = "lines" BY <1>5, LinesEventSets
  <2>2. Head(inbox).n \in Nat /\ Head(inbox).n <= CountOf("lines") /\ p[2] < Head(inbox).n
    BY <1>2, <2>1, HeadIsNew
  <2> QED BY <1>2, <2>2 DEF CountOf
<1>6. CASE Omnifunc
  <2>1. PICK h : h = Manual(Head(inbox).n) OBVIOUS
  <2>2. /\ Head(inbox).n \in Nat /\ DOMAIN tasks' = DOMAIN tasks \union {h} /\ \A q \in DOMAIN tasks' : q # h => tasks'[q] = tasks[q]
    BY <1>6, <2>1, OmnifuncSets
  <2>3. p # h BY <1>2, <2>1, <2>2, Ids
  <2> QED BY <1>1, <1>3, <2>2, <2>3
<1>7. CASE Status \/ Cursor \/ Text \/ Closed
  <2>1. PICK h : h = Head(inbox).id OBVIOUS
  <2>2. CASE Status
    <3>1. \/ DOMAIN tasks' = DOMAIN tasks /\ \A q \in DOMAIN tasks : q # h => tasks'[q] = tasks[q]
          \/ DOMAIN tasks' = DOMAIN tasks \ {h} /\ \A q \in DOMAIN tasks' : tasks'[q] = tasks[q]
      BY <2>1, <2>2, StatusSets
    <3>2. p # h BY <1>1, <2>1, <2>2
    <3> QED BY <1>1, <1>3, <3>1, <3>2
  <2>3. CASE Cursor
    <3>1. /\ DOMAIN tasks' = DOMAIN tasks /\ \A q \in DOMAIN tasks : q # h => tasks'[q] = tasks[q]
          /\ tasks'[h] = [tasks[h] EXCEPT !.at = "text", !.ctx.pos = Head(inbox).tick]
      BY <2>1, <2>3, CursorSets
    <3>2. CASE p = h
      <4>1. tasks[h] \in Tasks BY <1>1, <3>2 DEF Typed
      <4>2. tasks'[h].at = "text" BY <3>1, <4>1 DEF Tasks
      <4> QED BY <1>1, <3>1, <3>2, <4>2 DEF Begun
    <3>3. CASE p # h BY <1>1, <1>3, <3>1, <3>3
    <3> QED BY <3>2, <3>3
  <2>4. CASE Text
    <3>1. DOMAIN tasks' = DOMAIN tasks /\ \A q \in DOMAIN tasks : q # h => tasks'[q] = tasks[q]
      BY <2>1, <2>4, TextSets
    <3>2. p # h BY <1>1, <2>1, <2>4
    <3> QED BY <1>1, <1>3, <3>1, <3>2
  <2>5. CASE Closed
    <3>1. DOMAIN tasks' = DOMAIN tasks \ {h} /\ \A q \in DOMAIN tasks' : tasks'[q] = tasks[q] BY <2>1, <2>5, ClosedSets
    <3>2. tasks[h].at = "closing" BY <2>1, <2>5, Answered DEF Closed
    <3> QED BY <1>1, <1>3, <3>1, <3>2
  <2> QED BY <1>7, <2>2, <2>3, <2>4, <2>5
<1>8. CASE Collected
  <2>1. PICK h \in DOMAIN collects : CollectEnds(h) \/ CollectCancelled(h) BY <1>8 DEF Collected
  <2>2. tasks[h].at = "collect" /\ DOMAIN tasks' = DOMAIN tasks \ {h} /\ \A q \in DOMAIN tasks' : tasks'[q] = tasks[q]
    BY <2>1, CollectedSets
  <2> QED BY <1>1, <1>3, <2>2
<1> QED BY <1>4, <1>5, <1>6, <1>7, <1>8, StepKinds

\* what is sent comes to the menu in order
LEMMA FreshAside ==
  ASSUME Typed, Aside, [FlowNext]_flowVars, NEW n, NewestIsFresh(calls, scheduled, menu, n)
  PROVE  NewestIsFresh(calls', scheduled', menu', n)
<1> DEFINE C == Asks \union Sends
<1>1. calls \in Seq(C) /\ scheduled \in Seq(Items) BY DEF Typed
<1>2. CASE Serve
  <2>1. /\ calls # <<>> /\ calls' = Tail(calls) /\ menu' = menu
        /\ scheduled' = IF Head(calls).kind = "send" THEN Append(scheduled, Head(calls).items) ELSE scheduled
    BY <1>2 DEF Serve
  <2>2. Head(calls).kind = "send" => Head(calls).items \in Items
    <3>1. Head(calls) \in C BY <2>1, Puts
    <3> QED BY <3>1 DEF Asks, Sends
  <2> HIDE DEF C
  <2> QED BY <1>1, <2>1, <2>2, FreshServed
<1>3. CASE ShowComp
  <2>1. scheduled # <<>> /\ scheduled' = Tail(scheduled) /\ calls' = calls BY <1>3 DEF ShowComp
  <2>2. menu' = Head(scheduled) \/ menu' \notin Context
    <3>1. menu' = IF insert /\ menu # [other |-> TRUE] THEN Head(scheduled) ELSE menu BY <1>3 DEF ShowComp
    <3>2. menu \in Context => insert /\ menu # [other |-> TRUE] BY NoContexts DEF Typed
    <3> QED BY <3>1, <3>2
  <2> QED BY <1>1, <2>1, <2>2, FreshShown
<1>4. CASE ~Serve /\ ~ShowComp
  <2>1. menu' = menu \/ menu' \notin Context BY <1>4, MenuSteps
  <2>2. scheduled' = scheduled BY <1>4, MenuSteps
  <2>3. calls' = calls
    BY <1>4 DEF Aside, User, Type, LeaveInsert, EnterInsert, OtherMenu, AskManual, Accept, LateReply, DoneStarts, Finish,
                DoneEdits, DoneEnds, flowVars, server
  <2> QED BY <2>1, <2>2, <2>3, FreshMenu
<1> QED BY <1>2, <1>3, <1>4

LEMMA ServedAside ==
  ASSUME Typed, Aside, [FlowNext]_flowVars, NEW n, Served(n)
  PROVE  Served(n)'
<1>1. tasks' = tasks /\ collects' = collects /\ cell'.change_id = cell.change_id BY AsideSets
<1>2. Running(n)' <=> Running(n) BY <1>1 DEF Running
<1>3. NewestIsFresh(calls, scheduled, menu, n) => NewestIsFresh(calls', scheduled', menu', n) BY FreshAside
<1> QED BY <1>1, <1>2, <1>3 DEF Served, Asking, At, Seen, NewestIsFresh, Fresh, IsSend

\* a step of the server that sends nothing
LEMMA ServedKept ==
  ASSUME Typed, NEW n, Served(n), NEW h, OneTask(h), cell'.change_id = cell.change_id,
         Asking(h)' => Seen(h)' = n,
         \A p \in DOMAIN collects : collects[p] = "running" /\ tasks[p].ctx.change = n =>
            p # h /\ p \in DOMAIN collects' /\ p \in DOMAIN tasks' /\ collects'[p] = "running",
         calls' = calls \/ \E c \in Asks : calls' = Append(calls, c),
         scheduled' = scheduled, menu' = menu
  PROVE  Served(n)'
<1> DEFINE C == Asks \union Sends
<1>1. \A p \in DOMAIN tasks' : Asking(p)' => Seen(p)' = n
  <2> SUFFICES ASSUME NEW p \in DOMAIN tasks', Asking(p)', p # h PROVE Seen(p)' = n OBVIOUS
  <2>1. p \in DOMAIN tasks /\ Asking(p) /\ Seen(p)' = Seen(p) BY DEF OneTask, Asking, At, Seen
  <2> QED BY <2>1 DEF Served
<1>2. Running(n) => Running(n)'
  <2> SUFFICES ASSUME NEW p \in DOMAIN collects, collects[p] = "running", tasks[p].ctx.change = n PROVE Running(n)'
    BY DEF Running
  <2>1. p # h /\ p \in DOMAIN collects' /\ p \in DOMAIN tasks' /\ collects'[p] = "running" OBVIOUS
  <2>2. tasks'[p] = tasks[p] BY <2>1 DEF OneTask
  <2> QED BY <2>1, <2>2 DEF Running
<1>3. NewestIsFresh(calls, scheduled, menu, n) => NewestIsFresh(calls', scheduled, menu, n)
  <2>1. CASE calls' = calls BY <2>1
  <2>2. ASSUME NEW c \in Asks, calls' = Append(calls, c)
        PROVE  NewestIsFresh(calls, scheduled, menu, n) => NewestIsFresh(calls', scheduled, menu, n)
    <3>1. calls \in Seq(C) BY ChannelTypes
    <3>2. c \in C /\ c.kind # "send" BY DEF Asks
    <3> HIDE DEF C
    <3>3. ASSUME NewestIsFresh(calls, scheduled, menu, n) PROVE NewestIsFresh(Append(calls, c), scheduled, menu, n)
      BY <3>1, <3>2, <3>3, FreshAsk
    <3> QED BY <2>2, <3>3
  <2> QED BY <2>1, <2>2
<1>4. NewestIsFresh(calls, scheduled, menu, n)' <=> NewestIsFresh(calls', scheduled', menu', n)
  BY DEF NewestIsFresh, Fresh, IsSend
<1> QED BY <1>1, <1>2, <1>3, <1>4 DEF Served

LEMMA ServedStays ==
  ASSUME Typed, InLine, OneAuto, Numbers, Changes, [FlowNext]_flowVars, NEW n, n = tick, Served(n), ~Text, ~Collected
  PROVE  Served(n)'
<1>1. n \in Nat /\ cell.change_id = n BY TaskTypes DEF Served
<1>2. CASE Aside BY <1>2, ServedAside
<1>3. CASE LinesEvent
  <2>1. inbox # <<>> /\ Head(inbox).kind = "lines" /\ inbox' = Tail(inbox) BY <1>3, LinesEventSets
  <2>2. 1 \in DOMAIN inbox /\ inbox[1] = Head(inbox) BY <2>1, InboxTaken
  <2>3. EventIsNew(1) BY <2>1, <2>2, NumbersParts DEF IsEvent
  <2>4. Head(inbox).n \in Nat BY <2>1, HeadIds
  <2> QED BY <1>1, <2>1, <2>2, <2>3, <2>4 DEF EventIsNew, CountOf
<1>4. CASE Omnifunc
  <2>1. PICK m : m = Head(inbox).n OBVIOUS
  <2>2. PICK h : h = IF Head(inbox).kind = "lines" THEN Automatic(m) ELSE Manual(m) OBVIOUS
  <2>3. h \in TaskIds /\ ~Known(h) /\ OneTask(h) BY <1>4, <2>1, <2>2, NewTaskQueue
  <2>4. h = Manual(Head(inbox).n) BY <1>4, <2>1, <2>2, OmnifuncSets
  <2>5. /\ DOMAIN tasks' = DOMAIN tasks \union {h} /\ tasks'[h] = [at |-> "cursor", s |-> cell, ctx |-> NoContext]
        /\ calls' = Append(calls, Call("cursor", h)) /\ UNCHANGED <<menu, scheduled, cell, collects>>
    BY <1>4, <2>4, OmnifuncSets
  <2>6. Call("cursor", h) \in Asks BY <2>3, Messages
  <2>7. Seen(h)' = n BY <1>1, <2>5 DEF Seen
  <2>8. DOMAIN collects \subseteq DOMAIN tasks /\ h \notin DOMAIN tasks BY <2>3 DEF Typed, Known
  <2> QED BY <2>3, <2>5, <2>6, <2>7, <2>8, ServedKept
<1>5. CASE Status
  <2>1. PICK h : h = Head(inbox).id OBVIOUS
  <2>2. h \in TaskIds /\ h \in DOMAIN tasks /\ IsAuto(h) /\ Known(h) /\ KindOf(h) = "lines" /\ h[2] \in Nat
    BY <1>5, <2>1, StatusIsKnown
  <2>3. At(h, "status") BY <1>5, <2>1, Answered DEF Status, At
  <2>4. cell.change_id < h[2] BY <2>2, <2>3 DEF Changes
  <2>5. h[2] <= tick BY <2>2 DEF Numbers, CountOf
  <2> QED BY <1>1, <2>2, <2>4, <2>5
<1>6. CASE Cursor
  <2>1. PICK h : h = Head(inbox).id OBVIOUS
  <2>2. h \in TaskIds /\ h \in DOMAIN tasks /\ OneTask(h) BY <1>6, <2>1, AnswerQueue DEF Answers
  <2>3. /\ DOMAIN tasks' = DOMAIN tasks /\ tasks'[h] = [tasks[h] EXCEPT !.at = "text", !.ctx.pos = Head(inbox).tick]
        /\ calls' = Append(calls, Call("text", h)) /\ UNCHANGED <<menu, scheduled, cell, collects>>
    BY <1>6, <2>1, CursorSets DEF nvim
  <2>4. At(h, "cursor") BY <1>6, <2>1, Answered DEF Cursor, At
  <2>5. Seen(h)' = n
    <3>1. tasks[h] \in Tasks BY <2>2 DEF Typed
    <3>2. Seen(h)' = Seen(h) BY <2>3, <3>1 DEF Tasks, Seen
    <3> QED BY <2>2, <2>4, <3>2 DEF Served, Asking
  <2>6. Call("text", h) \in Asks BY <2>2, Messages
  <2>7. DOMAIN collects \subseteq DOMAIN tasks /\ h \notin DOMAIN collects BY <2>4 DEF Typed, At
  <2> QED BY <2>2, <2>3, <2>5, <2>6, <2>7, ServedKept
<1>7. CASE Closed
  <2>1. PICK h : h = Head(inbox).id OBVIOUS
  <2>2. h \in TaskIds /\ h \in DOMAIN tasks /\ OneTask(h) BY <1>7, <2>1, AnswerQueue DEF Answers
  <2>3. /\ DOMAIN tasks' = DOMAIN tasks \ {h} /\ cell' = [cell EXCEPT !.inserted_pos = NoPos]
        /\ UNCHANGED <<calls, menu, scheduled, collects>>
    BY <1>7, <2>1, ClosedSets DEF nvim
  <2>4. tasks[h].at = "closing" BY <1>7, <2>1, Answered DEF Closed
  <2>5. cell'.change_id = cell.change_id BY <2>3, StateKept
  <2>6. ~Asking(h)' BY <2>3 DEF Asking, At
  <2>7. DOMAIN collects \subseteq DOMAIN tasks /\ h \notin DOMAIN collects BY <2>4 DEF Typed
  <2> QED BY <2>2, <2>3, <2>5, <2>6, <2>7, ServedKept
<1> QED BY <1>2, <1>3, <1>4, <1>5, <1>6, <1>7, StepKinds

\* the lines of the newest change: a collect begins for it, or the menu is closed
LEMMA ServedText ==
  ASSUME Typed, Typed', InLine, Changes, [FlowNext]_flowVars, Text, NEW h, h = Head(inbox).id, NEW n, n = tick, Seen(h) = n
  PROVE  Served(n)'
<1> DEFINE C == Asks \union Sends
<1>1. /\ h \in TaskIds /\ h \in DOMAIN tasks /\ OneTask(h) /\ \A q \in TaskIds : Waits(q) /\ q # h => Before(h, q)
  BY AnswerQueue DEF Answers
<1>2. At(h, "text") /\ tasks[h] \in Tasks /\ Head(inbox).tick \in Ticks BY <1>1, Answered DEF Text, At
<1>3. PICK ctx : ctx = ContextOf(h, Head(inbox).tick) OBVIOUS
<1>4. ctx \in Context /\ ctx.change = n BY <1>1, <1>2, <1>3, ContextRead DEF Seen
<1>5. /\ DOMAIN tasks' = DOMAIN tasks
      /\ \/ /\ tasks'[h] = [tasks[h] EXCEPT !.at = "collect", !.ctx = ctx] /\ cell' = [cell EXCEPT !.context = ctx]
            /\ DOMAIN collects' = DOMAIN collects \union {h} /\ collects'[h] = "running"
         \/ /\ tasks'[h] = [tasks[h] EXCEPT !.at = "closing", !.ctx = ctx] /\ cell' = cell
            /\ calls' = Append(calls, Send(Nothing, h))
  BY <1>3, TextSets
<1>6. Seen(h) <= cell.change_id /\ cell.change_id <= tick BY <1>1, <1>2 DEF Changes, Asking
<1>7. cell.change_id = n /\ n \in Nat BY <1>6, Numbered
<1>8. cell'.change_id = n
  <2>1. cell \in State BY DEF Typed
  <2> QED BY <1>5, <1>7, <2>1 DEF State
<1>9. \A p \in DOMAIN tasks' : Asking(p)' => Seen(p)' = n
  <2> SUFFICES ASSUME NEW p \in DOMAIN tasks', Asking(p)' PROVE Seen(p)' = n OBVIOUS
  <2>1. ~Asking(h)' BY <1>2, <1>5 DEF Tasks, Asking, At
  <2>2. p # h BY <2>1
  <2>3. p \in DOMAIN tasks /\ Asking(p) /\ Seen(p)' = Seen(p) BY <1>1, <2>2 DEF OneTask, Asking, At, Seen
  <2>4. n <= Seen(p) BY <1>1, <1>2, <2>2, <2>3, FirstHasSeenLess DEF Asking
  <2>5. Seen(p) <= cell.change_id /\ Seen(p) \in Nat BY <2>3, Numbered DEF Changes
  <2> QED BY <1>7, <2>3, <2>4, <2>5
<1>10. CASE tasks'[h] = [tasks[h] EXCEPT !.at = "collect", !.ctx = ctx] /\ h \in DOMAIN collects' /\ collects'[h] = "running"
  <2>1. tasks'[h].ctx = ctx BY <1>2, <1>10 DEF Tasks
  <2>2. Running(n)' BY <1>4, <1>10, <2>1 DEF Running
  <2> QED BY <1>8, <1>9, <2>2 DEF Served
<1>11. CASE calls' = Append(calls, Send(Nothing, h))
  <2>1. Send(Nothing, h) \in C /\ Send(Nothing, h).kind = "send" /\ Send(Nothing, h).items = Nothing
    BY <1>1, Messages DEF Items
  <2>2. calls \in Seq(C) BY ChannelTypes
  <2>3. Fresh(Nothing, n) BY NoContexts DEF Fresh
  <2> HIDE DEF C
  <2>4. NewestIsFresh(Append(calls, Send(Nothing, h)), scheduled', menu', n) BY <2>1, <2>2, <2>3, FreshSent
  <2>5. NewestIsFresh(calls', scheduled', menu', n) BY <1>11, <2>4
  <2>6. NewestIsFresh(calls, scheduled, menu, n)' BY <2>5 DEF NewestIsFresh, Fresh, IsSend
  <2> QED BY <1>8, <1>9, <2>6 DEF Served
<1> QED BY <1>5, <1>10, <1>11

LEMMA ServedCollected ==
  ASSUME Typed, Changes, Ordered, NEW h \in DOMAIN collects, CollectEnds(h) \/ CollectCancelled(h), NEW n, n = tick,
         \/ Served(n)
         \/ calls' = Append(calls, Send(tasks[h].ctx, h)) /\ tasks[h].ctx.change = n /\ cell.change_id = n
  PROVE  Served(n)'
<1> DEFINE C == Asks \union Sends
<1>1. /\ h \in DOMAIN tasks /\ h \in TaskIds /\ tasks[h].at = "collect" /\ tasks[h].ctx \in Context
      /\ DOMAIN tasks' = DOMAIN tasks \ {h} /\ \A p \in DOMAIN tasks' : tasks'[p] = tasks[p]
      /\ DOMAIN collects' = DOMAIN collects \ {h} /\ \A p \in DOMAIN collects' : collects'[p] = collects[p]
      /\ \/ calls' = calls /\ (collects[h] = "stopping" \/ cell.change_id # tasks[h].ctx.change)
         \/ cell.change_id = tasks[h].ctx.change /\ calls' = Append(calls, Send(tasks[h].ctx, h))
      /\ UNCHANGED <<menu, scheduled, cell>>
  BY CollectedSets DEF nvim
<1>2. n \in Nat BY TaskTypes
<1>3. CASE calls' = Append(calls, Send(tasks[h].ctx, h)) /\ tasks[h].ctx.change = n /\ cell.change_id = n
  <2>1. PICK ctx : ctx = tasks[h].ctx OBVIOUS
  <2>2. Send(ctx, h) \in C /\ Send(ctx, h).kind = "send" /\ Send(ctx, h).items = ctx BY <1>1, <2>1, Messages DEF Items
  <2>3. calls \in Seq(C) BY ChannelTypes
  <2>4. Fresh(ctx, n) BY <1>3, <2>1 DEF Fresh
  <2> HIDE DEF C
  <2>5. NewestIsFresh(Append(calls, Send(ctx, h)), scheduled', menu', n) BY <2>2, <2>3, <2>4, FreshSent
  <2>6. NewestIsFresh(calls', scheduled', menu', n) BY <1>3, <2>1, <2>5
  <2>7. NewestIsFresh(calls, scheduled, menu, n)' BY <2>6 DEF NewestIsFresh, Fresh, IsSend
  <2>8. n <= cell.context.change BY <1>1, <1>3 DEF Ordered, NotNewer, At
  <2>9. ASSUME NEW p \in DOMAIN tasks', Asking(p)' PROVE Seen(p)' = n
    <3>1. p \in DOMAIN tasks /\ Asking(p) /\ Seen(p)' = Seen(p) BY <1>1, <2>9 DEF Asking, At, Seen
    <3>2. cell.context.change <= Seen(p) /\ Seen(p) <= cell.change_id BY <3>1 DEF Changes
    <3>3. cell.context.change \in Nat /\ Seen(p) \in Nat BY <3>1, Numbered
    <3> QED BY <1>2, <1>3, <2>8, <3>1, <3>2, <3>3
  <2>10. cell'.change_id = n BY <1>1, <1>3
  <2> QED BY <2>7, <2>9, <2>10 DEF Served
<1>4. CASE Served(n) /\ ~(calls' = Append(calls, Send(tasks[h].ctx, h)) /\ tasks[h].ctx.change = n /\ cell.change_id = n)
  <2>1. cell.change_id = n BY <1>4 DEF Served
  <2>2. calls' = calls /\ (collects[h] = "stopping" \/ n # tasks[h].ctx.change) BY <1>1, <1>4, <2>1
  <2>3. OneTask(h) BY <1>1 DEF OneTask
  <2>4. ~Asking(h)' BY <1>1 DEF Asking, At
  <2>5. ASSUME NEW p \in DOMAIN collects, collects[p] = "running", tasks[p].ctx.change = n
        PROVE  p # h /\ p \in DOMAIN collects' /\ p \in DOMAIN tasks' /\ collects'[p] = "running"
    <3>1. p # h BY <2>2, <2>5
    <3>2. DOMAIN collects \subseteq DOMAIN tasks BY DEF Typed
    <3> QED BY <1>1, <2>5, <3>1, <3>2
  <2> QED BY <1>1, <1>4, <2>2, <2>3, <2>4, <2>5, ServedKept
<1> QED BY <1>3, <1>4

\* how a change ends
LEMMA FateSteps ==
  ASSUME Typed, [FlowNext]_flowVars, NEW n \in Ticks, fate[n] = "skipped"
  PROVE  \/ fate'[n] = "skipped"
         \/ \E h : Text /\ h = Head(inbox).id /\ Seen(h) = n
         \/ \E h \in DOMAIN collects : /\ CollectEnds(h) \/ CollectCancelled(h)
                                       /\ calls' = Append(calls, Send(tasks[h].ctx, h)) /\ tasks[h].ctx.change = n
                                       /\ cell.change_id = n
<1>0. DOMAIN fate = Ticks BY DEF Typed
<1>1. CASE fate' = fate BY <1>1
<1>2. CASE Aside BY <1>1, <1>2, AsideSets
<1>3. CASE LinesEvent \/ Omnifunc \/ Cursor \/ Closed BY <1>1, <1>3 DEF LinesEvent, Omnifunc, Cursor, Closed
<1>4. CASE Status
  <2>1. PICK k : k = Head(inbox).id[2] OBVIOUS
  <2>2. fate' = fate \/ fate' = [fate EXCEPT ![k] = "skipped"] BY <1>4, <2>1, StatusSets
  <2> QED BY <1>0, <2>2
<1>5. CASE Text
  <2>1. PICK h : h = Head(inbox).id OBVIOUS
  <2>2. PICK ctx : ctx = ContextOf(h, Head(inbox).tick) OBVIOUS
  <2>3. fate' = fate \/ fate' = [fate EXCEPT ![ctx.change] = "refused"] BY <1>5, <2>1, <2>2, TextSets
  <2>4. ctx.change = Seen(h) BY <2>2 DEF ContextOf, Seen
  <2> QED BY <1>0, <1>5, <2>1, <2>3, <2>4
<1>6. CASE Collected
  <2>1. PICK h \in DOMAIN collects : CollectEnds(h) \/ CollectCancelled(h) BY <1>6 DEF Collected
  <2>2. \/ fate' = fate
        \/ /\ cell.change_id = tasks[h].ctx.change /\ calls' = Append(calls, Send(tasks[h].ctx, h))
           /\ fate' = [fate EXCEPT ![tasks[h].ctx.change] = "shown"]
    BY <2>1, CollectedSets
  <2>3. CASE fate' = fate BY <1>1, <2>3
  <2>4. CASE /\ cell.change_id = tasks[h].ctx.change /\ calls' = Append(calls, Send(tasks[h].ctx, h))
             /\ fate' = [fate EXCEPT ![tasks[h].ctx.change] = "shown"]
    <3>1. CASE tasks[h].ctx.change = n BY <2>1, <2>4, <3>1
    <3>2. CASE tasks[h].ctx.change # n
      <4>1. PICK k : k = tasks[h].ctx.change OBVIOUS
      <4>2. fate' = [fate EXCEPT ![k] = "shown"] /\ k # n BY <2>4, <3>2, <4>1
      <4> QED BY <1>0, <4>2
    <3> QED BY <3>1, <3>2
  <2> QED BY <2>2, <2>3, <2>4
<1> QED BY <1>2, <1>3, <1>4, <1>5, <1>6, StepKinds

LEMMA NewestStep ==
  ASSUME Typed, Typed', InLine, OneAuto, Numbers, Changes, Ordered, Newest, [FlowNext]_flowVars
  PROVE  Newest'
<1>1. PICK n : n = tick OBVIOUS
<1>2. n \in Nat /\ n \in Ticks BY <1>1, TaskTypes DEF Typed
<1>3. CASE tick' # tick
  <2>1. Type \/ DoneEdits
    BY <1>3 DEF FlowNext, User, LeaveInsert, EnterInsert, OtherMenu, AskManual, Accept, ShowComp, Serve, Receive,
         LinesEvent, Omnifunc, Status, Cursor, Text, Closed, LateReply, DoneStarts, Collected, CollectEnds,
         CollectCancelled, Finish, DoneEnds, flowVars, nvim
  <2>2. inbox' = Append(inbox, Event("lines", tick')) BY <1>3, <2>1 DEF Type, DoneEdits
  <2>3. PICK m : m = tick' OBVIOUS
  <2>4. m \in Nat BY <2>3, CountersGrow
  <2>5. PICK e : e = Event("lines", m) OBVIOUS
  <2>6. e \in Events /\ e.kind = "lines" /\ e.n = m /\ inbox' = Append(inbox, e) BY <2>2, <2>3, <2>4, <2>5, Messages
  <2>7. PICK k : k = Len(inbox) + 1 OBVIOUS
  <2>8. k \in DOMAIN inbox' /\ inbox'[k] = e BY <2>6, <2>7, InboxGrows
  <2>9. Arrives(m)' BY <2>6, <2>8 DEF Arrives
  <2> QED BY <2>3, <2>9, NewestParts
<1>4. CASE tick' = tick
  <2>1. n = tick' BY <1>1, <1>4
  <2>2. fate[n] = "skipped" \/ Arrives(n) \/ Begun(n) \/ Served(n) BY <1>1, NewestParts
  <2>3. SUFFICES fate'[n] = "skipped" \/ Arrives(n)' \/ Begun(n)' \/ Served(n)' BY <2>1, NewestParts
  <2>4. ASSUME Text, NEW h, h = Head(inbox).id, Seen(h) = n PROVE Served(n)' BY <1>1, <2>4, ServedText
  <2>5. CASE fate[n] = "skipped"
    <3>1. ASSUME NEW h \in DOMAIN collects, CollectEnds(h) \/ CollectCancelled(h),
                 calls' = Append(calls, Send(tasks[h].ctx, h)), tasks[h].ctx.change = n, cell.change_id = n
          PROVE  Served(n)'
      BY <1>1, <3>1, ServedCollected
    <3> QED BY <1>2, <2>4, <2>5, <3>1, FateSteps
  <2>6. CASE Arrives(n)
    <3>1. CASE LinesEvent /\ Head(inbox).n = n
      <4>1. PICK h : h = Automatic(n) OBVIOUS
      <4>2. tasks'[h] = [at |-> "status", s |-> cell, ctx |-> NoContext] /\ h \in DOMAIN tasks'
        BY <3>1, <4>1, LinesEventSets
      <4>3. Begun(n)' BY <4>1, <4>2 DEF Begun
      <4> QED BY <4>3
    <3>2. CASE ~(LinesEvent /\ Head(inbox).n = n) BY <2>6, <3>2, ArrivesStays
    <3> QED BY <3>1, <3>2
  <2>7. CASE Begun(n)
    <3>1. CASE Text /\ Head(inbox).id = Automatic(n)
      <4>1. PICK h : h = Head(inbox).id OBVIOUS
      <4>2. h \in DOMAIN tasks /\ At(h, "text") BY <3>1, <4>1, Answered DEF Text, At
      <4>3. IsAuto(h) /\ h[2] = n BY <1>2, <3>1, <4>1, Ids
      <4>4. Seen(h) = n BY <4>2, <4>3 DEF Changes, Asking
      <4> QED BY <2>4, <3>1, <4>1, <4>4
    <3>2. CASE Status /\ Head(inbox).id = Automatic(n)
      <4>1. PICK h : h = Head(inbox).id OBVIOUS
      <4>2. h \in DOMAIN tasks /\ tasks[h] \in Tasks /\ h = Automatic(n) /\ h[2] = n
        <5>1. h \in DOMAIN tasks /\ tasks[h] \in Tasks BY <3>2, <4>1, Answered DEF Status
        <5> QED BY <1>2, <3>2, <4>1, <5>1, Ids
      <4>3. PICK s : s = [cell EXCEPT !.change_id = h[2]] OBVIOUS
      <4>4. \/ DOMAIN tasks' = DOMAIN tasks /\ tasks'[h] = [tasks[h] EXCEPT !.at = "cursor", !.s = s]
            \/ fate' = [fate EXCEPT ![h[2]] = "skipped"]
        BY <3>2, <4>1, <4>3, StatusSets
      <4>5. CASE DOMAIN tasks' = DOMAIN tasks /\ tasks'[h] = [tasks[h] EXCEPT !.at = "cursor", !.s = s]
        <5>1. tasks'[h].at = "cursor" BY <4>2, <4>5 DEF Tasks
        <5> QED BY <4>2, <4>5, <5>1 DEF Begun
      <4>6. CASE fate' = [fate EXCEPT ![h[2]] = "skipped"]
        <5>1. DOMAIN fate = Ticks BY DEF Typed
        <5>2. fate'[n] = "skipped" BY <1>2, <4>2, <4>6, <5>1
        <5> QED BY <5>2
      <4> QED BY <4>4, <4>5, <4>6
    <3>3. CASE ~(Text /\ Head(inbox).id = Automatic(n)) /\ ~(Status /\ Head(inbox).id = Automatic(n))
      BY <1>1, <2>7, <3>3, BegunStays
    <3> QED BY <3>1, <3>2, <3>3
  <2>8. CASE Served(n)
    <3>1. CASE Text
      <4>1. PICK h : h = Head(inbox).id OBVIOUS
      <4>2. h \in DOMAIN tasks /\ At(h, "text") BY <3>1, <4>1, Answered DEF Text, At
      <4>3. Seen(h) = n BY <2>8, <4>2 DEF Served, Asking
      <4> QED BY <2>4, <3>1, <4>1, <4>3
    <3>2. CASE Collected
      <4>1. PICK h \in DOMAIN collects : CollectEnds(h) \/ CollectCancelled(h) BY <3>2 DEF Collected
      <4> QED BY <1>1, <2>8, <4>1, ServedCollected
    <3>3. CASE ~Text /\ ~Collected BY <1>1, <2>8, <3>3, ServedStays
    <3> QED BY <3>1, <3>2, <3>3
  <2> QED BY <2>2, <2>5, <2>6, <2>7, <2>8
<1> QED BY <1>3, <1>4

-----------------------------------------------------------------------------
(* The theorems.                                                            *)

LEMMA FlowStarts == FlowInit => FlowInv
<1> SUFFICES ASSUME FlowInit PROVE FlowInv OBVIOUS
<1>1. MaxTick \in Nat /\ MaxManual \in Nat BY FlowAssumption
<1>2. /\ tick = 0 /\ insert = TRUE /\ menu = Nothing /\ scheduled = <<>> /\ asked = 0 /\ blocked = FALSE
      /\ calls = <<>> /\ inbox = <<>> /\ metrics = Nothing /\ tasks = <<>> /\ collects = <<>>
      /\ finish = [at |-> "none"] /\ fate = [c \in Ticks |-> "open"] /\ used = <<>>
      /\ cell = [change_id |-> 0, context |-> NoContext, inserted_pos |-> NoPos, is_dir |-> FALSE]
  BY DEF FlowInit
<1>3. 0 \in Ticks /\ 0 \in 0 .. MaxManual BY <1>1 DEF Ticks
<1>4. NoContext \in Context BY <1>3 DEF Context, NoContext
<1>5. cell \in State /\ cell.context = NoContext /\ cell.change_id = 0 BY <1>2, <1>3, <1>4 DEF State
<1>6. Nothing \notin Context BY DEF Nothing, Context
<1>7. /\ DOMAIN tasks = {} /\ DOMAIN collects = {} /\ DOMAIN inbox = {} /\ DOMAIN calls = {} /\ DOMAIN scheduled = {}
  BY <1>2
<1>8. Len(inbox) = 0 /\ Len(calls) = 0 /\ inbox = <<>> /\ calls = <<>> BY <1>2
<1>9. \A p : ~Waits(p) /\ \A q : ~Before(p, q)
  BY <1>8 DEF Waits, Before, IsWaiting, IsBefore, Slots
<1>10. Typed
  <2>1. inbox \in Seq(Events \union Dones \union Replies) /\ calls \in Seq(Asks \union Sends) /\ scheduled \in Seq(Items)
    BY <1>2
  <2>2. menu \in Menus /\ metrics \in Items BY <1>2 DEF Menus, Items
  <2>3. finish.at = "none" BY <1>2
  <2>4. DOMAIN fate = Ticks BY <1>2
  <2>5. insert \in BOOLEAN /\ blocked \in BOOLEAN BY <1>2
  <2> QED BY <1>2, <1>3, <1>5, <1>7, <2>1, <2>2, <2>3, <2>4, <2>5 DEF Typed
<1>11. OneRequest BY <1>2, <1>7 DEF OneRequest
<1>12. InLine BY <1>7 DEF InLine
<1>13. Numbers BY <1>7, <1>9 DEF Numbers, Known
<1>14. OneAuto BY <1>7 DEF OneAuto
<1>15. Changes BY <1>2, <1>5, <1>7 DEF Changes, NoContext
<1>16. Positions BY <1>7 DEF Positions, IsReply
<1>17. Sound(NoContext) BY <1>2 DEF Sound, NoContext
<1>18. Contexts BY <1>2, <1>5, <1>6, <1>7, <1>17 DEF Contexts, SoundItem
<1>19. Ordered BY <1>2, <1>6, <1>7 DEF Ordered, ContextIsNotOlder
<1>20. Newest
  <2>1. NewestIsFresh(calls, scheduled, menu, 0) BY <1>2, <1>6, <1>7 DEF NewestIsFresh, IsSend, Fresh
  <2>2. cell.change_id = tick /\ \A p \in DOMAIN tasks : Asking(p) => Seen(p) = tick BY <1>2, <1>5, <1>7
  <2>3. NewestIsFresh(calls, scheduled, menu, tick) BY <1>2, <2>1
  <2> QED BY <2>2, <2>3 DEF Newest
<1> QED BY <1>10, <1>11, <1>12, <1>13, <1>14, <1>15, <1>16, <1>18, <1>19, <1>20 DEF FlowInv

LEMMA FlowGoesOn == FlowInv /\ [FlowNext]_flowVars => FlowInv'
<1> SUFFICES ASSUME FlowInv, [FlowNext]_flowVars PROVE FlowInv' OBVIOUS
<1>1. /\ Typed /\ OneRequest /\ InLine /\ Numbers /\ OneAuto
      /\ Changes /\ Positions /\ Contexts /\ Ordered /\ Newest
  BY DEF FlowInv
<1>2. Typed' BY <1>1, TypedStep
<1>3. cell.change_id <= tick BY <1>1 DEF Changes
<1>4. Sound(cell.context) BY <1>1 DEF Contexts
<1>5. OneRequest' BY <1>1, OneRequestStep
<1>6. InLine' BY <1>1, <1>2, InLineStep
<1>7. Numbers' BY <1>1, <1>3, NumbersStep
<1>8. OneAuto' BY <1>1, OneAutoStep
<1>9. Changes' BY <1>1, <1>2, ChangesStep
<1>10. Positions' BY <1>1, <1>2, <1>4, PositionsStep
<1>11. Contexts' BY <1>1, <1>2, ContextsStep
<1>12. Ordered' BY <1>1, <1>2, OrderedStep
<1>13. Newest' BY <1>1, <1>2, NewestStep
<1> QED BY <1>2, <1>5, <1>6, <1>7, <1>8, <1>9, <1>10, <1>11, <1>12, <1>13 DEF FlowInv

\* The inductive invariant holds.
THEOREM FlowInvariant == FlowSpec => []FlowInv
BY FlowStarts, FlowGoesOn, PTL DEF FlowSpec

\* An item is applied in a context that is not older than the one it has been found for,
\* whatever changes, manual completions and edits have crossed (omnifunc.py:70, :89, :142).
THEOREM ContextIsNotOlderCorrect == FlowSpec => []ContextIsNotOlder
<1>1. FlowInv => ContextIsNotOlder BY DEF FlowInv, Ordered
<1> QED BY <1>1, FlowInvariant, PTL

LEMMA QuietIsCurrent == FlowInv => QuietMenuIsCurrent
<1> SUFFICES ASSUME FlowInv, Quiet, menu \in Context, fate[tick] # "skipped"
             PROVE  menu.pos = tick /\ menu.text = tick
  BY DEF QuietMenuIsCurrent
<1>1. Typed /\ Contexts /\ Newest BY DEF FlowInv
<1>2. calls = <<>> /\ inbox = <<>> /\ scheduled = <<>> /\ tasks = <<>> BY DEF Quiet
<1>3. DOMAIN calls = {} /\ DOMAIN inbox = {} /\ DOMAIN tasks = {} BY <1>2
<1>4. DOMAIN collects = {} BY <1>1, <1>3 DEF Typed
<1>5. ~Running(tick) BY <1>4 DEF Running
<1>6. NewestIsFresh(calls, scheduled, menu, tick) BY <1>1, <1>3, <1>5 DEF Newest
<1>7. menu.change = tick BY <1>2, <1>3, <1>6 DEF NewestIsFresh, IsSend, Fresh
<1>8. Sound(menu) BY <1>1 DEF Contexts, SoundItem
<1>9. tick \in Nat BY <1>1, FlowAssumption DEF Typed, Ticks
<1>10. menu.pos \in Nat /\ menu.text \in Nat
  <2>1. menu.pos \in Ticks /\ menu.text \in Ticks BY DEF Context
  <2> QED BY <2>1, FlowAssumption DEF Ticks
<1> QED BY <1>7, <1>8, <1>9, <1>10 DEF Sound

\* When nothing is under way, an open menu is of the buffer as it is, unless its last change was
\* skipped (attachment.py:88, :101, omnifunc.py:80).
THEOREM QuietMenuIsCurrentCorrect == FlowSpec => []QuietMenuIsCurrent
BY QuietIsCurrent, FlowInvariant, PTL

LEMMA FlowIsTyped == FlowInv => FlowTypeOK
<1> SUFFICES ASSUME FlowInv PROVE FlowTypeOK OBVIOUS
<1>1. Typed /\ OneRequest /\ OneAuto BY DEF FlowInv
<1>2. Cardinality({id \in DOMAIN tasks : IsAuto(id)}) <= 1
  <2>1. PICK autos : autos = {id \in DOMAIN tasks : IsAuto(id)} OBVIOUS
  <2>2. \A p, q \in autos : p = q BY <1>1, <2>1 DEF OneAuto
  <2>3. CASE autos = {} BY <2>1, <2>3, FS_EmptySet
  <2>4. CASE autos # {}
    <3>1. PICK p : p \in autos BY <2>4
    <3>2. autos = {p} BY <2>2, <3>1
    <3>3. Cardinality({p}) = 1 BY FS_Singleton
    <3> QED BY <2>1, <3>2, <3>3
  <2> QED BY <2>3, <2>4
<1>3. blocked <=> finish.at # "none" \/ \E i \in DOMAIN inbox : inbox[i].kind \in {"omni", "done"}
  BY <1>1 DEF OneRequest, IsRequest
<1>4. DOMAIN tasks \subseteq TaskIds /\ \A id \in DOMAIN tasks : tasks[id] \in Tasks BY <1>1 DEF Typed
<1>5. /\ tick \in Ticks /\ insert \in BOOLEAN /\ menu \in Menus
      /\ scheduled \in Seq(Items) /\ asked \in 0 .. MaxManual /\ blocked \in BOOLEAN
      /\ cell \in State /\ metrics \in Items
      /\ DOMAIN collects = {id \in DOMAIN tasks : tasks[id].at = "collect"}
      /\ finish.at \in {"none", "resolving", "editing"}
  BY <1>1 DEF Typed
<1> QED BY <1>2, <1>3, <1>4, <1>5 DEF FlowTypeOK

\* The flow is typed: among the tasks at most one is of a change, and nvim is blocked exactly
\* while a request of its is unanswered.
THEOREM FlowTypes == FlowSpec => []FlowTypeOK
BY FlowIsTyped, FlowInvariant, PTL

-----------------------------------------------------------------------------
(* Launcher.  Until the end of an installer is taken for that of the server, each server but the
   one that is thought to run has been reported: none is left that could set job_id back while
   another runs.                                                              *)

Places == {"starting", "up", "gone", "reported"}

LnShape ==
  /\ lnServer \in Seq([at : Places, code : Codes])
  /\ lnJob \in 0 .. Len(lnServer)
  /\ lnInstaller \in {"none", "begins", "clears"} \union Codes
  /\ lnInstalls \in Nat /\ (lnInstaller # "none" => lnInstalls > 0)

OthersReported ==
  /\ lnJob # 0 => lnServer[lnJob].at # "reported"
  /\ InstallsReported = 0 => \A s \in 1 .. Len(lnServer) : lnServer[s].at = "reported" \/ s = lnJob

LnIInv == LnShape /\ OthersReported

LEMMA LnStart == LnInit => LnIInv
BY DEF LnInit, LnIInv, LnShape, OthersReported, Codes

LEMMA ServersArePlaced ==
  ASSUME LnIInv, NEW s \in DOMAIN lnServer
  PROVE  s \in 1 .. Len(lnServer) /\ lnServer[s] \in [at : Places, code : Codes]
<1> DEFINE S == [at : Places, code : Codes]
<1>1. lnServer \in Seq(S) BY DEF LnIInv, LnShape
<1> HIDE DEF S
<1>2. s \in 1 .. Len(lnServer) BY <1>1
<1>3. lnServer[s] \in S BY <1>1, <1>2, ElementOfSeq
<1> QED BY <1>2, <1>3 DEF S

\* what a server does that is not reported leaves the invariant as it is
LEMMA ServerMoves ==
  ASSUME LnIInv, NEW s \in 1 .. Len(lnServer), NEW new \in [at : Places, code : Codes],
         lnServer[s].at # "reported", new.at # "reported",
         lnServer' = [lnServer EXCEPT ![s] = new],
         UNCHANGED <<lnJob, lnInstaller, lnInstalls>>
  PROVE  LnIInv'
<1> USE DEF LnIInv, LnShape
<1>1. lnServer' \in Seq([at : Places, code : Codes]) /\ Len(lnServer') = Len(lnServer) /\ InstallsReported' = InstallsReported
  BY DEF InstallsReported
<1>2. lnServer'[s] = new /\ \A r \in 1 .. Len(lnServer) : r # s => lnServer'[r] = lnServer[r]
  OBVIOUS
<1>3. lnJob' # 0 => lnServer'[lnJob'].at # "reported" BY <1>2 DEF OthersReported
<1>4. InstallsReported = 0 => s = lnJob BY DEF OthersReported
<1> QED BY <1>1, <1>2, <1>3, <1>4 DEF OthersReported

\* a server is started only when none is thought to run
LEMMA StartsOne ==
  ASSUME LnIInv, IF lnJob = 0 THEN Start ELSE UNCHANGED <<lnJob, lnServer>>,
         UNCHANGED <<lnInstaller, lnInstalls>>
  PROVE  LnIInv'
<1> USE DEF LnIInv, LnShape, OthersReported, InstallsReported
<1>1. CASE lnJob # 0 BY <1>1
<1>2. CASE lnJob = 0
  <2> DEFINE new == [at |-> "starting", code |-> "ok"]
  <2>1. lnJob' = Len(lnServer) + 1 /\ lnServer' = Append(lnServer, new) BY <1>2 DEF Start
  <2>2. new \in [at : Places, code : Codes] BY DEF Places, Codes
  <2>3. /\ lnServer' \in Seq([at : Places, code : Codes]) /\ Len(lnServer') = Len(lnServer) + 1
        /\ lnServer'[Len(lnServer) + 1] = new
        /\ \A s \in 1 .. Len(lnServer) : lnServer'[s] = lnServer[s]
    BY <2>1, <2>2, AppendProperties
  <2> QED BY <1>2, <2>1, <2>3
<1> QED BY <1>1, <1>2

LEMMA LnStep == LnIInv /\ [LnNext]_lnVars => LnIInv'
<1> SUFFICES ASSUME LnIInv, [LnNext]_lnVars PROVE LnIInv' OBVIOUS
<1>1. CASE UNCHANGED lnVars BY <1>1 DEF lnVars, LnIInv, LnShape, OthersReported, InstallsReported
<1>2. ASSUME NEW c \in LnCalls, Command(c) PROVE LnIInv' BY <1>2, StartsOne DEF Command, Attempt
<1>3. ASSUME NEW c \in LnCalls, Retry(c) PROVE LnIInv'
  <2>1. CASE lnErrExit BY <1>3, <2>1 DEF Retry, LnIInv, LnShape, OthersReported, InstallsReported
  <2>2. CASE ~lnErrExit BY <1>3, <2>2, StartsOne DEF Retry, Attempt
  <2> QED BY <2>1, <2>2
<1>4. ASSUME NEW s \in DOMAIN lnServer, ServerBegins(s) PROVE LnIInv'
  <2>1. s \in 1 .. Len(lnServer) /\ lnServer[s] \in [at : Places, code : Codes] BY ServersArePlaced
  <2>2. PICK new \in [at : Places, code : Codes] :
          new.at # "reported" /\ lnServer' = [lnServer EXCEPT ![s] = new]
    <3>1. CASE lnServer' = [lnServer EXCEPT ![s].at = "up"]
      <4>1. [lnServer[s] EXCEPT !.at = "up"] \in [at : Places, code : Codes] BY <2>1 DEF Places
      <4>2. [lnServer[s] EXCEPT !.at = "up"].at = "up" BY <2>1
      <4> QED BY <3>1, <4>1, <4>2
    <3>2. CASE lnServer' = [lnServer EXCEPT ![s] = GoneWith("error")] BY <3>2 DEF GoneWith, Places, Codes
    <3> QED BY <1>4, <3>1, <3>2 DEF ServerBegins
  <2> QED BY <1>4, <2>1, <2>2, ServerMoves DEF ServerBegins
<1>5. ASSUME NEW s \in DOMAIN lnServer, ServerEnds(s) PROVE LnIInv'
  <2>1. s \in 1 .. Len(lnServer) /\ lnServer[s].at # "reported" BY <1>5 DEF LnIInv, LnShape, ServerEnds, Live
  <2>2. PICK code \in Codes : lnServer' = [lnServer EXCEPT ![s] = GoneWith(code)] BY <1>5 DEF ServerEnds
  <2>3. GoneWith(code) \in [at : Places, code : Codes] /\ GoneWith(code).at # "reported" BY DEF GoneWith, Places
  <2> QED BY <1>5, <2>1, <2>2, <2>3, ServerMoves DEF ServerEnds
<1>6. ASSUME NEW s \in DOMAIN lnServer, OnExit(s) PROVE LnIInv'
  <2> USE DEF LnIInv, LnShape
  <2>1. s \in 1 .. Len(lnServer) /\ lnServer[s] \in [at : Places, code : Codes] /\ lnServer[s].at = "gone"
    BY <1>6, ServersArePlaced DEF OnExit
  <2>2. /\ lnJob' = 0 /\ UNCHANGED <<lnInstaller, lnInstalls>>
        /\ lnServer' = [lnServer EXCEPT ![s] = [lnServer[s] EXCEPT !.at = "reported"]]
    BY <1>6 DEF OnExit, Left
  <2>3. [lnServer[s] EXCEPT !.at = "reported"] \in [at : Places, code : Codes]
    BY <2>1 DEF Places
  <2>4. /\ lnServer' \in Seq([at : Places, code : Codes]) /\ Len(lnServer') = Len(lnServer)
        /\ \A r \in 1 .. Len(lnServer) : r # s => lnServer'[r] = lnServer[r]
    BY <2>1, <2>2, <2>3
  <2>5. lnServer'[s].at = "reported" BY <2>1, <2>2
  <2>6. InstallsReported' = 0 => \A r \in 1 .. Len(lnServer) : lnServer'[r].at = "reported"
    BY <2>1, <2>2, <2>4, <2>5 DEF OthersReported, InstallsReported
  <2> QED BY <2>2, <2>4, <2>6 DEF OthersReported
<1>7. CASE Deps BY <1>7 DEF Deps, LnIInv, LnShape, OthersReported, InstallsReported, Codes
<1>8. CASE DepsClears BY <1>8 DEF DepsClears, LnIInv, LnShape, OthersReported, InstallsReported, Codes
<1>9. CASE DepsEnds BY <1>9 DEF DepsEnds, LnIInv, LnShape, OthersReported, InstallsReported, Codes
<1>10. CASE OnDepsExit BY <1>10 DEF OnDepsExit, Left, LnIInv, LnShape, OthersReported, InstallsReported, Codes
<1> QED BY <1>1, <1>2, <1>3, <1>4, <1>5, <1>6, <1>7, <1>8, <1>9, <1>10 DEF LnNext

\* One server is started, whatever commands are given while servers start, fail and are stopped, until
\* on_exit takes the end of an installer for that of the server (coq.lua:29, :143).
THEOREM OneServerRuns == LnSpec => []OneServer
<1>1. LnIInv => OneServer
  <2> SUFFICES ASSUME LnIInv PROVE OneServer OBVIOUS
  <2>1. DOMAIN lnServer = 1 .. Len(lnServer) BY DEF LnIInv, LnShape
  <2>2. \A s \in Live : lnServer[s].at # "reported" BY DEF Live
  <2> QED BY <2>1, <2>2 DEF LnIInv, OthersReported, OneServer, Live
<1> QED BY <1>1, LnStart, LnStep, PTL DEF LnSpec

(* How many servers are started: each is charged to the command that started it, or to an end without an
   error of a server or of an installer, after which one more may be started.                       *)

AskedFor == {c \in LnCalls : lnCall[c] # "new"}
EndedWell == {s \in 1 .. Len(lnServer) : lnServer[s] = GoneWith("ok")}
MayStart == IF lnJob = 0 /\ ~lnErrExit /\ AskedFor # {} THEN 1 ELSE 0
Installing == IF lnInstaller = "none" THEN 0 ELSE 1

LnTypes ==
  /\ lnCOQ \in 0 .. Len(lnServer)
  /\ lnErrExit \in BOOLEAN /\ lnInstalled \in BOOLEAN
  /\ lnInstalls \in 0 .. MaxInstalls /\ lnLeaves \in 0 .. MaxLeaves
  /\ lnCall \in [LnCalls -> {"new", "polls", "served", "dropped", "raised"}]

FewStarted ==
  Len(lnServer) + Cardinality(EndedWell) + MayStart + Installing <= Cardinality(AskedFor) + lnLeaves + lnInstalls

LnBound == LnIInv /\ LnTypes /\ FewStarted

LEMMA SetsAreFinite ==
  ASSUME LnIInv
  PROVE  /\ IsFiniteSet(AskedFor) /\ Cardinality(AskedFor) \in Nat /\ Cardinality(AskedFor) <= Cardinality(LnCalls)
         /\ IsFiniteSet(EndedWell) /\ Cardinality(EndedWell) \in Nat
         /\ Cardinality(LnCalls) \in Nat /\ Len(lnServer) \in Nat
<1>1. IsFiniteSet(LnCalls) BY LnAssumption
<1>2. AskedFor \subseteq LnCalls BY DEF AskedFor
<1>3. Len(lnServer) \in Nat BY DEF LnIInv, LnShape
<1>4. IsFiniteSet(1 .. Len(lnServer)) BY <1>3, FS_Interval
<1>5. EndedWell \subseteq 1 .. Len(lnServer) BY DEF EndedWell
<1>6. IsFiniteSet(AskedFor) /\ IsFiniteSet(EndedWell) /\ Cardinality(AskedFor) <= Cardinality(LnCalls)
  BY <1>1, <1>2, <1>4, <1>5, FS_Subset
<1> QED BY <1>1, <1>3, <1>6, FS_CardinalityType

LEMMA FewAtFirst == LnInit => LnBound
<1> SUFFICES ASSUME LnInit PROVE LnBound OBVIOUS
<1>1. LnIInv BY LnStart
<1>2. lnServer = <<>> /\ lnLeaves = 0 /\ lnInstalls = 0 /\ lnCOQ = 0 /\ lnInstaller = "none" /\ lnErrExit = FALSE
      /\ lnInstalled \in BOOLEAN /\ lnCall = [c \in LnCalls |-> "new"]
  BY DEF LnInit
<1>3. EndedWell = {} /\ AskedFor = {} BY <1>2 DEF EndedWell, AskedFor
<1>4. Cardinality(EndedWell) = 0 /\ Cardinality(AskedFor) = 0 BY <1>3, FS_EmptySet
<1>5. MayStart = 0 /\ Installing = 0 BY <1>2, <1>3 DEF MayStart, Installing
<1>6. FewStarted BY <1>2, <1>4, <1>5 DEF FewStarted
<1>7. LnTypes
  <2>1. lnCOQ \in 0 .. Len(lnServer) BY <1>2
  <2>2. lnInstalls \in 0 .. MaxInstalls /\ lnLeaves \in 0 .. MaxLeaves BY <1>2, LnAssumption
  <2> QED BY <1>2, <2>1, <2>2 DEF LnTypes
<1> QED BY <1>1, <1>6, <1>7 DEF LnBound

LEMMA Charged ==
  ASSUME LnBound
  PROVE  /\ MayStart \in Nat /\ MayStart <= 1 /\ Installing \in Nat /\ lnLeaves \in Nat /\ lnInstalls \in Nat
         /\ MayStart' \in Nat /\ MayStart' <= 1 /\ Installing' \in Nat
         /\ Cardinality(AskedFor) \in Nat /\ Cardinality(EndedWell) \in Nat /\ Len(lnServer) \in Nat
<1>1. LnIInv /\ LnTypes BY DEF LnBound
<1>2. lnLeaves \in Nat /\ lnInstalls \in Nat BY <1>1, LnAssumption DEF LnTypes
<1>3. MayStart \in Nat /\ MayStart <= 1 /\ Installing \in Nat BY DEF MayStart, Installing
<1>4. MayStart' \in Nat /\ MayStart' <= 1 /\ Installing' \in Nat BY DEF MayStart, Installing
<1> QED BY <1>1, <1>2, <1>3, <1>4, SetsAreFinite

\* a server that is started has not ended
LEMMA StartedIsNew ==
  ASSUME LnIInv, Start
  PROVE  Len(lnServer') = Len(lnServer) + 1 /\ EndedWell' = EndedWell
<1> DEFINE new == [at |-> "starting", code |-> "ok"]
<1>1. lnServer' = Append(lnServer, new) BY DEF Start
<1>2. new \in [at : Places, code : Codes] BY DEF Places, Codes
<1>3. lnServer \in Seq([at : Places, code : Codes]) BY DEF LnIInv, LnShape
<1>4. /\ Len(lnServer') = Len(lnServer) + 1 /\ lnServer'[Len(lnServer) + 1] = new
      /\ \A s \in 1 .. Len(lnServer) : lnServer'[s] = lnServer[s]
  BY <1>1, <1>2, <1>3, AppendProperties
<1>5. new # GoneWith("ok") BY DEF GoneWith
<1>6. Len(lnServer) \in Nat BY <1>3
<1>7. 1 .. Len(lnServer') = (1 .. Len(lnServer)) \union {Len(lnServer) + 1} /\ Len(lnServer) + 1 \notin 1 .. Len(lnServer)
  BY <1>4, <1>6
<1> QED BY <1>4, <1>5, <1>7 DEF EndedWell

\* a command starts one server at most, and pays for it if it is new, or if no end without an error has
LEMMA AttemptIsPaid ==
  ASSUME LnBound, NEW c \in LnCalls, Attempt(c), lnCall[c] \in {"new", "polls"}, lnCall[c] = "polls" => ~lnErrExit,
         UNCHANGED <<lnErrExit, lnCOQ, lnInstaller, lnInstalls, lnLeaves, lnInstalled>>
  PROVE  LnTypes' /\ FewStarted'
<1>1. LnIInv /\ LnTypes /\ FewStarted BY DEF LnBound
<1>2. lnCall' = [lnCall EXCEPT ![c] = lnCall'[c]] /\ lnCall'[c] \in {"polls", "served", "raised"}
  BY <1>1 DEF Attempt, LnTypes
<1>3. AskedFor' = AskedFor \union {c} BY <1>1, <1>2 DEF AskedFor, LnTypes
<1>4. c \in AskedFor <=> lnCall[c] = "polls" BY DEF AskedFor
<1>5. Cardinality(AskedFor') = IF lnCall[c] = "polls" THEN Cardinality(AskedFor) ELSE Cardinality(AskedFor) + 1
  <2>1. IsFiniteSet(AskedFor) BY <1>1, SetsAreFinite
  <2> QED BY <1>3, <1>4, <2>1, FS_AddElement
<1>6. Installing' = Installing BY DEF Installing
<1>7. /\ Cardinality(AskedFor) \in Nat /\ Cardinality(EndedWell) \in Nat /\ Len(lnServer) \in Nat
      /\ MayStart \in Nat /\ MayStart <= 1 /\ Installing \in Nat /\ lnLeaves \in Nat /\ lnInstalls \in Nat
  BY Charged
<1>8. lnLeaves' = lnLeaves /\ lnInstalls' = lnInstalls OBVIOUS
<1>9. CASE lnJob # 0
  <2>1. lnServer' = lnServer /\ lnJob' = lnJob BY <1>9 DEF Attempt
  <2>2. EndedWell' = EndedWell BY <2>1 DEF EndedWell
  <2>3. MayStart' = 0 BY <1>9, <2>1 DEF MayStart
  <2>4. Len(lnServer') = Len(lnServer) /\ Cardinality(EndedWell') = Cardinality(EndedWell) BY <2>1, <2>2
  <2>5. FewStarted' BY <1>1, <1>5, <1>6, <1>7, <1>8, <2>3, <2>4, SMTT(60) DEF FewStarted
  <2>6. LnTypes' BY <1>1, <1>2, <2>1 DEF LnTypes
  <2> QED BY <2>5, <2>6
<1>10. CASE lnJob = 0
  <2>1. Start BY <1>10 DEF Attempt
  <2>2. Len(lnServer') = Len(lnServer) + 1 /\ EndedWell' = EndedWell BY <1>1, <2>1, StartedIsNew
  <2>3. lnJob' # 0 BY <1>7, <2>1 DEF Start
  <2>4. MayStart' = 0 BY <2>3 DEF MayStart
  <2>5. lnCall[c] = "polls" => MayStart = 1 BY <1>4, <1>10 DEF MayStart
  <2>6. Cardinality(EndedWell') = Cardinality(EndedWell) /\ Len(lnServer') = Len(lnServer) + 1 BY <2>2
  <2>7. FewStarted'
    <3>1. CASE lnCall[c] = "polls"
      <4>1. MayStart = 1 /\ Cardinality(AskedFor') = Cardinality(AskedFor) BY <1>5, <2>5, <3>1
      <4> QED BY <1>1, <1>6, <1>7, <1>8, <2>4, <2>6, <4>1, SMTT(60) DEF FewStarted
    <3>2. CASE lnCall[c] # "polls"
      <4>1. Cardinality(AskedFor') = Cardinality(AskedFor) + 1 BY <1>5, <3>2
      <4> QED BY <1>1, <1>6, <1>7, <1>8, <2>4, <2>6, <4>1, SMTT(60) DEF FewStarted
    <3> QED BY <3>1, <3>2
  <2>8. LnTypes'
    <3>1. lnCOQ' \in 0 .. Len(lnServer') BY <1>1, <1>7, <2>2 DEF LnTypes
    <3> QED BY <1>1, <1>2, <3>1 DEF LnTypes
  <2> QED BY <2>7, <2>8
<1> QED BY <1>9, <1>10

\* one server moves: what it has ended with, if it has ended
LEMMA OneMoves ==
  ASSUME LnIInv, NEW s \in 1 .. Len(lnServer), NEW new \in [at : Places, code : Codes],
         lnServer' = [lnServer EXCEPT ![s] = new]
  PROVE  /\ Len(lnServer') = Len(lnServer) /\ Cardinality(EndedWell') \in Nat
         /\ lnServer[s] # GoneWith("ok") /\ new # GoneWith("ok") => Cardinality(EndedWell') = Cardinality(EndedWell)
         /\ lnServer[s] # GoneWith("ok") /\ new = GoneWith("ok") => Cardinality(EndedWell') = Cardinality(EndedWell) + 1
         /\ lnServer[s] = GoneWith("ok") /\ new # GoneWith("ok") => Cardinality(EndedWell') = Cardinality(EndedWell) - 1
<1>1. /\ Len(lnServer') = Len(lnServer) /\ lnServer'[s] = new
      /\ \A r \in 1 .. Len(lnServer) : r # s => lnServer'[r] = lnServer[r]
  BY DEF LnIInv, LnShape
<1>2. IsFiniteSet(EndedWell) /\ Cardinality(EndedWell) \in Nat BY SetsAreFinite
<1>3. EndedWell' = IF new = GoneWith("ok") THEN EndedWell \union {s} ELSE EndedWell \ {s} BY <1>1 DEF EndedWell
<1>4. s \in EndedWell <=> lnServer[s] = GoneWith("ok") BY DEF EndedWell
<1>5. CASE new = GoneWith("ok")
  <2>1. EndedWell' = EndedWell \union {s} BY <1>3, <1>5
  <2>2. Cardinality(EndedWell') = IF s \in EndedWell THEN Cardinality(EndedWell) ELSE Cardinality(EndedWell) + 1
    BY <1>2, <2>1, FS_AddElement
  <2> QED BY <1>1, <1>2, <1>4, <1>5, <2>2
<1>6. CASE new # GoneWith("ok")
  <2>1. EndedWell' = EndedWell \ {s} BY <1>3, <1>6
  <2>2. Cardinality(EndedWell') = IF s \in EndedWell THEN Cardinality(EndedWell) - 1 ELSE Cardinality(EndedWell)
    BY <1>2, <2>1, FS_RemoveElement
  <2>3. IsFiniteSet(EndedWell') BY <1>2, <2>1, FS_Subset
  <2>4. Cardinality(EndedWell') \in Nat BY <2>3, FS_CardinalityType
  <2> QED BY <1>1, <1>2, <1>4, <1>6, <2>2, <2>4
<1> QED BY <1>5, <1>6

LEMMA FewStep == LnBound /\ [LnNext]_lnVars => LnBound'
<1> SUFFICES ASSUME LnBound, [LnNext]_lnVars PROVE LnBound' OBVIOUS
<1>1. LnIInv /\ LnTypes /\ FewStarted BY DEF LnBound
<1>2. LnIInv' BY <1>1, LnStep
<1>3. SUFFICES LnTypes' /\ FewStarted' BY <1>2 DEF LnBound
<1>4. /\ Cardinality(AskedFor) \in Nat /\ Cardinality(EndedWell) \in Nat /\ Len(lnServer) \in Nat
  BY Charged
<1>5. /\ MayStart \in Nat /\ MayStart <= 1 /\ Installing \in Nat /\ lnLeaves \in Nat /\ lnInstalls \in Nat
      /\ MayStart' \in Nat /\ MayStart' <= 1 /\ Installing' \in Nat
  BY Charged
<1>6. CASE UNCHANGED lnVars
  <2>1. AskedFor' = AskedFor /\ EndedWell' = EndedWell /\ MayStart' = MayStart /\ Installing' = Installing
    BY <1>6 DEF lnVars, AskedFor, EndedWell, MayStart, Installing
  <2> QED BY <1>1, <1>6, <2>1 DEF lnVars, LnTypes, FewStarted
<1>7. ASSUME NEW c \in LnCalls, Command(c) PROVE LnTypes' /\ FewStarted' BY <1>7, AttemptIsPaid DEF Command
<1>8. ASSUME NEW c \in LnCalls, Retry(c) PROVE LnTypes' /\ FewStarted'
  <2>1. CASE lnErrExit
    <3>1. lnCall' = [lnCall EXCEPT ![c] = "dropped"] /\ lnCall[c] = "polls"
          /\ UNCHANGED <<lnJob, lnServer, lnErrExit, lnCOQ, lnInstaller, lnInstalls, lnLeaves, lnInstalled>>
      BY <1>8, <2>1 DEF Retry
    <3>2. AskedFor' = AskedFor BY <1>1, <3>1 DEF AskedFor, LnTypes
    <3>3. EndedWell' = EndedWell /\ MayStart' = MayStart /\ Installing' = Installing
      BY <3>1, <3>2 DEF EndedWell, MayStart, Installing
    <3>4. LnTypes' BY <1>1, <3>1 DEF LnTypes
    <3> QED BY <1>1, <3>1, <3>2, <3>3, <3>4 DEF FewStarted
  <2>2. CASE ~lnErrExit BY <1>8, <2>2, AttemptIsPaid DEF Retry
  <2> QED BY <2>1, <2>2
<1>9. ASSUME NEW s \in DOMAIN lnServer, ServerBegins(s) \/ ServerEnds(s) PROVE LnTypes' /\ FewStarted'
  <2>1. s \in 1 .. Len(lnServer) /\ lnServer[s] \in [at : Places, code : Codes] BY <1>1, ServersArePlaced
  <2>2. UNCHANGED <<lnJob, lnErrExit, lnInstaller, lnInstalls, lnInstalled, lnCall>> /\ lnCOQ' \in {lnCOQ, s}
    BY <1>9 DEF ServerBegins, ServerEnds
  <2>3. AskedFor' = AskedFor /\ Installing' = Installing BY <2>2 DEF AskedFor, Installing
  <2>4. MayStart' = MayStart BY <2>2, <2>3 DEF MayStart
  <2>5. lnServer[s].at # "gone" /\ lnServer[s] # GoneWith("ok") BY <1>9 DEF ServerBegins, ServerEnds, Live, GoneWith
  <2>6. PICK new \in [at : Places, code : Codes] :
          /\ lnServer' = [lnServer EXCEPT ![s] = new]
          /\ \/ new # GoneWith("ok") /\ (lnLeaves' = lnLeaves \/ Leaves)
             \/ Leaves
    <3>1. CASE lnServer' = [lnServer EXCEPT ![s].at = "up"] /\ UNCHANGED lnLeaves
      <4>1. [lnServer[s] EXCEPT !.at = "up"] \in [at : Places, code : Codes] BY <2>1 DEF Places
      <4>2. [lnServer[s] EXCEPT !.at = "up"].at = "up" BY <2>1
      <4>3. [lnServer[s] EXCEPT !.at = "up"] # GoneWith("ok") BY <4>2 DEF GoneWith
      <4> QED BY <3>1, <4>1, <4>3
    <3>2. CASE lnServer' = [lnServer EXCEPT ![s] = GoneWith("error")] /\ (UNCHANGED lnLeaves \/ Leaves)
      <4>1. GoneWith("error") \in [at : Places, code : Codes] /\ GoneWith("error") # GoneWith("ok") BY DEF GoneWith, Places, Codes
      <4> QED BY <3>2, <4>1
    <3>3. CASE Leaves /\ \E code \in Codes : lnServer' = [lnServer EXCEPT ![s] = GoneWith(code)]
      <4>1. PICK code \in Codes : lnServer' = [lnServer EXCEPT ![s] = GoneWith(code)] BY <3>3
      <4>2. GoneWith(code) \in [at : Places, code : Codes] BY DEF GoneWith, Places
      <4> QED BY <3>3, <4>1, <4>2
    <3>4. CASE ServerBegins(s) BY <3>1, <3>2, <3>4 DEF ServerBegins
    <3>5. CASE ServerEnds(s) BY <3>3, <3>5 DEF ServerEnds
    <3> QED BY <1>9, <3>4, <3>5
  <2>7. /\ Len(lnServer') = Len(lnServer)
        /\ new = GoneWith("ok") => Cardinality(EndedWell') = Cardinality(EndedWell) + 1
        /\ new # GoneWith("ok") => Cardinality(EndedWell') = Cardinality(EndedWell)
    BY <1>1, <1>4, <2>1, <2>5, <2>6, OneMoves
  <2>8. lnLeaves' \in 0 .. MaxLeaves /\ lnLeaves' \in Nat
        /\ (lnLeaves' = lnLeaves \/ lnLeaves' = lnLeaves + 1)
        /\ (new = GoneWith("ok") => lnLeaves' = lnLeaves + 1)
    BY <1>1, <1>5, <2>6, LnAssumption DEF Leaves, LnTypes
  <2>9. /\ Cardinality(AskedFor') = Cardinality(AskedFor) /\ Len(lnServer') = Len(lnServer) /\ lnInstalls' = lnInstalls
        /\ MayStart' = MayStart /\ Installing' = Installing
    BY <2>2, <2>3, <2>4, <2>7
  <2>10. FewStarted'
    <3>1. CASE new = GoneWith("ok")
      <4>1. Cardinality(EndedWell') = Cardinality(EndedWell) + 1 /\ lnLeaves' = lnLeaves + 1 BY <2>7, <2>8, <3>1
      <4> QED BY <1>1, <1>4, <1>5, <2>9, <4>1, SMTT(60) DEF FewStarted
    <3>2. CASE new # GoneWith("ok")
      <4>1. Cardinality(EndedWell') = Cardinality(EndedWell) /\ lnLeaves' >= lnLeaves BY <1>4, <1>5, <2>7, <2>8, <3>2
      <4>2. lnLeaves' \in Nat BY <2>8
      <4> QED BY <1>1, <1>4, <1>5, <2>9, <4>1, <4>2, SMTT(60) DEF FewStarted
    <3> QED BY <3>1, <3>2
  <2>11. LnTypes'
    <3>1. lnCOQ' \in 0 .. Len(lnServer') BY <1>1, <1>4, <2>1, <2>2, <2>7 DEF LnTypes
    <3> QED BY <1>1, <2>2, <2>8, <3>1 DEF LnTypes
  <2> QED BY <2>10, <2>11
<1>10. ASSUME NEW s \in DOMAIN lnServer, OnExit(s) PROVE LnTypes' /\ FewStarted'
  <2>1. s \in 1 .. Len(lnServer) /\ lnServer[s] \in [at : Places, code : Codes] /\ lnServer[s].at = "gone"
    BY <1>1, <1>10, ServersArePlaced DEF OnExit
  <2>2. /\ lnJob' = 0 /\ UNCHANGED <<lnCOQ, lnInstaller, lnInstalls, lnLeaves, lnInstalled, lnCall>>
        /\ lnErrExit' = (lnServer[s].code = "error")
        /\ lnServer' = [lnServer EXCEPT ![s] = [lnServer[s] EXCEPT !.at = "reported"]]
    BY <1>10 DEF OnExit, Left
  <2>3. PICK new : new = [lnServer[s] EXCEPT !.at = "reported"] OBVIOUS
  <2>4. new \in [at : Places, code : Codes] /\ new.at = "reported" BY <2>1, <2>3 DEF Places
  <2>5. new # GoneWith("ok") BY <2>4 DEF GoneWith
  <2>6. lnServer[s] = GoneWith("ok") <=> lnServer[s].code = "ok" BY <2>1 DEF GoneWith
  <2>7. /\ Len(lnServer') = Len(lnServer)
        /\ lnServer[s].code = "ok" => Cardinality(EndedWell') = Cardinality(EndedWell) - 1
        /\ lnServer[s].code # "ok" => Cardinality(EndedWell') = Cardinality(EndedWell)
    BY <1>1, <1>4, <2>1, <2>2, <2>3, <2>4, <2>5, <2>6, OneMoves
  <2>8. MayStart' <= IF lnServer[s].code = "ok" THEN 1 ELSE 0
    <3>1. CASE lnServer[s].code = "ok" BY <1>5, <3>1
    <3>2. CASE lnServer[s].code # "ok"
      <4>1. lnServer[s].code = "error" BY <2>1, <3>2 DEF Codes
      <4>2. lnErrExit' BY <2>2, <4>1
      <4> QED BY <3>2, <4>2 DEF MayStart
    <3> QED BY <3>1, <3>2
  <2>9. AskedFor' = AskedFor /\ Installing' = Installing BY <2>2 DEF AskedFor, Installing
  <2>10. /\ Cardinality(AskedFor') = Cardinality(AskedFor) /\ Len(lnServer') = Len(lnServer)
         /\ lnLeaves' = lnLeaves /\ lnInstalls' = lnInstalls /\ Installing' = Installing
    BY <2>2, <2>7, <2>9
  <2>11. FewStarted'
    <3>1. CASE lnServer[s].code = "ok"
      <4>1. Cardinality(EndedWell') = Cardinality(EndedWell) - 1 BY <2>7, <3>1
      <4> QED BY <1>1, <1>4, <1>5, <2>10, <4>1, SMTT(60) DEF FewStarted
    <3>2. CASE lnServer[s].code # "ok"
      <4>1. Cardinality(EndedWell') = Cardinality(EndedWell) /\ MayStart' = 0 BY <1>4, <1>5, <2>7, <2>8, <3>2
      <4> QED BY <1>1, <1>4, <1>5, <2>10, <4>1, SMTT(60) DEF FewStarted
    <3> QED BY <3>1, <3>2
  <2>12. LnTypes' BY <1>1, <2>2, <2>7 DEF LnTypes
  <2> QED BY <2>11, <2>12
<1>11. CASE Deps \/ DepsClears \/ DepsEnds \/ OnDepsExit
  <2>1. UNCHANGED <<lnCOQ, lnServer, lnLeaves, lnCall>> BY <1>11 DEF Deps, DepsClears, DepsEnds, OnDepsExit
  <2>2. AskedFor' = AskedFor /\ EndedWell' = EndedWell BY <2>1 DEF AskedFor, EndedWell
  <2>3. Cardinality(AskedFor') = Cardinality(AskedFor) /\ Cardinality(EndedWell') = Cardinality(EndedWell)
        /\ Len(lnServer') = Len(lnServer) /\ lnLeaves' = lnLeaves
    BY <2>1, <2>2
  <2>4. lnErrExit' \in BOOLEAN /\ lnInstalled' \in BOOLEAN
    BY <1>1, <1>11 DEF Deps, DepsClears, DepsEnds, OnDepsExit, Left, LnTypes
  <2>5. CASE Deps
    <3>1. lnInstalls' = lnInstalls + 1 /\ lnInstalls < MaxInstalls BY <2>5 DEF Deps
    <3>2. lnInstalls' \in 0 .. MaxInstalls BY <1>5, <3>1, LnAssumption
    <3>3. MayStart' = MayStart BY <2>2, <2>5 DEF Deps, MayStart
    <3>4. Installing = 0 /\ Installing' = 1 BY <2>5 DEF Deps, Installing
    <3>5. FewStarted' BY <1>1, <1>4, <1>5, <2>3, <3>1, <3>3, <3>4, SMTT(60) DEF FewStarted
    <3>6. LnTypes' BY <1>1, <2>1, <2>4, <3>2 DEF LnTypes
    <3> QED BY <3>5, <3>6
  <2>6. CASE DepsClears \/ DepsEnds
    <3>1. MayStart' = MayStart BY <2>2, <2>6 DEF DepsClears, DepsEnds, MayStart
    <3>2. Installing = 1 /\ lnInstalls' = lnInstalls /\ Installing' = 1
      BY <2>6 DEF DepsClears, DepsEnds, Installing, Codes
    <3>3. FewStarted' BY <1>1, <1>4, <1>5, <2>3, <3>1, <3>2, SMTT(60) DEF FewStarted
    <3>4. LnTypes' BY <1>1, <2>1, <2>4, <3>2 DEF LnTypes
    <3> QED BY <3>3, <3>4
  <2>7. CASE OnDepsExit
    <3>1. Installing = 1 /\ Installing' = 0 /\ lnInstalls' = lnInstalls BY <2>7 DEF OnDepsExit, Codes, Installing
    <3>2. FewStarted' BY <1>1, <1>4, <1>5, <2>3, <3>1, SMTT(60) DEF FewStarted
    <3>3. LnTypes' BY <1>1, <2>1, <2>4, <3>1 DEF LnTypes
    <3> QED BY <3>2, <3>3
  <2> QED BY <1>11, <2>5, <2>6, <2>7
<1> QED BY <1>6, <1>7, <1>8, <1>9, <1>10, <1>11 DEF LnNext

\* The launcher is typed; and a server that cannot run is not started again every 10 ms, since each that is started
\* is the first of a command, or comes after an end without an error (coq.lua:156).
THEOREM LauncherTypes == LnSpec => []LnTypeOK
<1>1. LnBound => LnTypeOK
  <2> SUFFICES ASSUME LnBound PROVE LnTypeOK OBVIOUS
  <2>1. LnIInv /\ LnTypes /\ FewStarted BY DEF LnBound
  <2>2. /\ Cardinality(AskedFor) \in Nat /\ Cardinality(AskedFor) <= Cardinality(LnCalls) /\ Cardinality(LnCalls) \in Nat
        /\ Cardinality(EndedWell) \in Nat /\ Len(lnServer) \in Nat
    BY <2>1, SetsAreFinite
  <2>3. MayStart \in Nat /\ Installing \in Nat BY Charged
  <2>4. lnLeaves \in 0 .. MaxLeaves /\ lnInstalls \in 0 .. MaxInstalls BY <2>1 DEF LnTypes
  <2>5. lnLeaves \in Nat /\ lnLeaves <= MaxLeaves /\ lnInstalls \in Nat /\ lnInstalls <= MaxInstalls BY <2>4, LnAssumption
  <2>6. Len(lnServer) <= Cardinality(LnCalls) + MaxLeaves + MaxInstalls
    BY <2>1, <2>2, <2>3, <2>5, LnAssumption, SMTT(60) DEF FewStarted
  <2> QED BY <2>1, <2>6 DEF LnTypes, LnTypeOK, LnIInv, LnShape, Places, MaxServers
<1> QED BY <1>1, FewAtFirst, FewStep, PTL DEF LnSpec

-----------------------------------------------------------------------------
(* The flow and the launcher side by side.  A behaviour of both is one of each: what is proved of one
   holds whatever the other does.                                             *)

LEMMA BothAreThere == Spec => FlowSpec /\ LnSpec
<1>1. Init => FlowInit /\ LnInit BY DEF Init
<1>2. [Next]_<<on, flowVars, lnVars>> => [FlowNext]_flowVars BY DEF Next
<1>3. [Next]_<<on, flowVars, lnVars>> => [LnNext]_lnVars BY DEF Next
<1> QED BY <1>1, <1>2, <1>3, PTL DEF Spec, FlowSpec, LnSpec

\* Flow and launcher are typed, whatever the steps of one are among those of the other.
THEOREM TypesCorrect == Spec => []TypesOK
<1>1. FlowTypeOK /\ LnTypeOK => TypesOK BY DEF TypesOK
<1> QED BY <1>1, BothAreThere, FlowTypes, LauncherTypes, PTL

\* A context that an item is applied in is not older than the one it was found for, a menu at rest is of
\* the buffer as it is, and one server runs, in the behaviours that the run flow checks.
THEOREM BothAreSafe == Spec => [](ContextIsNotOlder /\ QuietMenuIsCurrent /\ OneServer)
BY BothAreThere, ContextIsNotOlderCorrect, QuietMenuIsCurrentCorrect, OneServerRuns, PTL

=============================================================================
