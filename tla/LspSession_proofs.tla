-------------------------- MODULE LspSession_proofs --------------------------
(***************************************************************************)
(* Theorems about LspSession, for every number of sessions and clients and *)
(* every length of a reply: it is typed, its generators yield replies to    *)
(* their own session, and no items of an older one; _STATE only moves       *)
(* forward, no wake-up is lost, and the layer implements LspRequest.        *)
(***************************************************************************)
EXTENDS LspSession, SequenceTheorems, FiniteSetTheorems, TLAPS

-----------------------------------------------------------------------------
(* Sequences.                                                               *)

LEMMA FrontLast ==
  ASSUME NEW S, NEW s \in Seq(S), s # <<>>
  PROVE  Front(s) \in Seq(S) /\ Last(s) \in S
<1>1. Len(s) \in Nat \ {0} /\ \A i \in 1 .. Len(s) - 1 : s[i] \in S
  BY LenProperties, EmptySeq, ElementOfSeq
<1>2. Front(s) \in Seq(S)
  BY <1>1, SubSeqProperties DEF Front
<1>3. Last(s) \in S
  BY <1>1, ElementOfSeq DEF Last
<1> QED BY <1>2, <1>3

LEMMA FrontInSeq ==
  ASSUME NEW S, NEW s \in Seq(S)
  PROVE  Front(s) \in Seq(S)
<1>1. CASE s # <<>> BY <1>1, FrontLast
<1>2. CASE s = <<>>
  <2>1. Front(s) = <<>> BY <1>2, SubSeqEmpty DEF Front
  <2> QED BY <2>1
<1> QED BY <1>1, <1>2

LEMMA RemoveAtInSeq ==
  ASSUME NEW S, NEW s \in Seq(S), NEW i \in 1 .. Len(s)
  PROVE  /\ RemoveAt(s, i) \in Seq(S)
         /\ \A j \in 1 .. Len(s) : j # i =>
              \E k \in 1 .. Len(RemoveAt(s, i)) : RemoveAt(s, i)[k] = s[j]
         /\ Len(RemoveAt(s, i)) = Len(s) - 1
         /\ i # Len(s) => RemoveAt(s, i)[Len(s) - 1] = s[Len(s)]
<1> DEFINE a == SubSeq(s, 1, i - 1)  b == SubSeq(s, i + 1, Len(s))
<1>0. Len(s) \in Nat /\ \A j \in 1 .. Len(s) : s[j] \in S
  BY LenProperties, ElementOfSeq
<1>1. /\ a \in Seq(S) /\ Len(a) = i - 1
      /\ \A j \in 1 .. i - 1 : a[j] = s[j]
  <2>1. \A j \in 1 .. i - 1 : s[j] \in S BY <1>0
  <2> QED BY <1>0, <2>1, SubSeqProperties
<1>2. /\ b \in Seq(S) /\ Len(b) = Len(s) - i
      /\ \A j \in 1 .. Len(s) - i : b[j] = s[i + j]
  <2>1. \A j \in i + 1 .. Len(s) : s[j] \in S BY <1>0
  <2> QED BY <1>0, <2>1, SubSeqProperties
<1>3. RemoveAt(s, i) = a \o b BY DEF RemoveAt
<1> HIDE DEF a, b
<1>4. /\ a \o b \in Seq(S) /\ Len(a \o b) = Len(s) - 1
      /\ \A k \in 1 .. Len(s) - 1 : (a \o b)[k] = IF k <= i - 1 THEN a[k] ELSE b[k - (i - 1)]
  <2>1. /\ a \o b \in Seq(S) /\ Len(a \o b) = Len(a) + Len(b)
        /\ \A k \in 1 .. Len(a) + Len(b) :
             (a \o b)[k] = IF k <= Len(a) THEN a[k] ELSE b[k - Len(a)]
    BY <1>1, <1>2, ConcatProperties, Zenon
  <2>2. i - 1 + (Len(s) - i) = Len(s) - 1 BY <1>0
  <2> QED BY <1>1, <1>2, <2>1, <2>2, Zenon
<1>5. ASSUME NEW j \in 1 .. Len(s), j # i
      PROVE  \E k \in 1 .. Len(a \o b) : (a \o b)[k] = s[j]
  <2>1. CASE j < i
    <3>1. j \in 1 .. Len(s) - 1 /\ (a \o b)[j] = s[j] BY <1>0, <1>1, <1>4, <2>1
    <3> QED BY <3>1, <1>4
  <2>2. CASE j > i
    <3>1. j - 1 \in 1 .. Len(s) - 1 /\ j - i \in 1 .. Len(s) - i /\ ~(j - 1 <= i - 1)
      BY <1>0, <2>2
    <3>2. (a \o b)[j - 1] = b[j - 1 - (i - 1)] BY <3>1, <1>4
    <3>3. b[j - i] = s[i + (j - i)] BY <3>1, <1>2
    <3>4. j - 1 - (i - 1) = j - i /\ i + (j - i) = j BY <1>0
    <3>5. (a \o b)[j - 1] = s[j] BY <3>2, <3>3, <3>4
    <3> QED BY <3>1, <3>5, <1>4
  <2> QED BY <1>5, <2>1, <2>2
<1>6. ASSUME i # Len(s) PROVE (a \o b)[Len(s) - 1] = s[Len(s)]
  <2>1. Len(s) - 1 \in 1 .. Len(s) - 1 /\ ~(Len(s) - 1 <= i - 1) /\ Len(s) - i \in 1 .. Len(s) - i
    BY <1>0, <1>6
  <2>2. Len(s) - 1 - (i - 1) = Len(s) - i /\ i + (Len(s) - i) = Len(s) BY <1>0
  <2> QED BY <1>2, <1>4, <2>1, <2>2
<1> QED BY <1>3, <1>4, <1>5, <1>6

-----------------------------------------------------------------------------
(* Types of the helpers.                                                    *)

LEMMA WakeType ==
  ASSUME NEW p \in [Uids -> Points]
  PROVE  Wake(p) \in [Uids -> Points]
BY DEF Wake, Points, Suspended

LEMMA DetachedType ==
  ASSUME held \in [Uids -> Held]
  PROVE  Detached \in [Uids -> Held]
BY DEF Detached, Held

LEMMA WaitType ==
  ASSUME TypeOK, NEW g \in Uids, NEW ev \in BOOLEAN, Wait(g, ev) \/ AfterWait(g)
  PROVE  pc' \in [Uids -> Points] /\ lockq' \in Seq(Uids \union {-1})
<1>1. Append(lockq, g) \in Seq(Uids \union {-1})
  BY AppendProperties DEF TypeOK
<1> QED BY <1>1 DEF TypeOK, Wait, AfterWait, Acquire, Points, Suspended, Ended

LEMMA DeliverType ==
  ASSUME TypeOK, NEW g \in Uids, NEW s \in Held, Deliver(g, s)
  PROVE  /\ state' \in Session /\ pc' \in [Uids -> Points] /\ held' \in [Uids -> Held]
         /\ item' \in [Uids -> Item] /\ lockq' \in Seq(Uids \union {-1})
         /\ rpc' \in Seq(Call) /\ got' \in [Uids -> SUBSET Delivery]
<1> DEFINE r == Last(s.acc)
<1>1. r \in Reply /\ Front(s.acc) \in Seq(Reply)
  BY FrontLast DEF Deliver, Held
<1>2. Front(state.acc) \in Seq(Reply)
  BY FrontInSeq DEF TypeOK, Session
<1>3. state' \in Session
  BY <1>2 DEF Deliver, TypeOK, Session
<1>4. held' \in [Uids -> Held]
  BY <1>1 DEF Deliver, TypeOK, Held
<1>5. item' \in [Uids -> Item]
  BY <1>1 DEF Deliver, TypeOK, Item, Fresh
<1>6. rpc' \in Seq(Call)
  <2>1. r.client \in Names BY <1>1 DEF Reply
  <2>2. [op |-> "pull", uid |-> g, client |-> r.client, k |-> 0] \in Call
    BY <2>1 DEF Call
  <2>3. Append(rpc, [op |-> "pull", uid |-> g, client |-> r.client, k |-> 0]) \in Seq(Call)
    BY <2>2, AppendProperties DEF TypeOK
  <2>4. CASE Multipart BY <2>3, <2>4 DEF Deliver
  <2>5. CASE ~Multipart BY <2>5 DEF Deliver, TypeOK
  <2> QED BY <2>4, <2>5
<1>7. got' \in [Uids -> SUBSET Delivery]
  <2>1. [reply |-> r, from |-> -1] \in Delivery BY <1>1 DEF Delivery
  <2>2. CASE Multipart BY <2>2 DEF Deliver, TypeOK
  <2>3. CASE ~Multipart
    <3>1. got' = [got EXCEPT ![g] = @ \union {[reply |-> r, from |-> -1]}]
      BY <2>3 DEF Deliver
    <3> QED BY <2>1, <3>1 DEF TypeOK
  <2> QED BY <2>2, <2>3
<1>8. pc' \in [Uids -> Points] /\ lockq' \in Seq(Uids \union {-1})
  BY DEF Deliver, TypeOK, Points, Suspended
<1> QED BY <1>3, <1>4, <1>5, <1>6, <1>7, <1>8

LEMMA DrainedType ==
  ASSUME TypeOK, NEW g \in Uids, NEW s \in Held, NEW ev \in BOOLEAN, Drained(g, s, ev)
  PROVE  /\ state' \in Session /\ pc' \in [Uids -> Points] /\ held' \in [Uids -> Held]
         /\ item' \in [Uids -> Item] /\ lockq' \in Seq(Uids \union {-1})
         /\ rpc' \in Seq(Call) /\ got' \in [Uids -> SUBSET Delivery]
<1>1. item' \in [Uids -> Item] /\ rpc' \in Seq(Call) /\ got' \in [Uids -> SUBSET Delivery]
  BY DEF Drained, TypeOK
<1>2. CASE s.done /\ state' = NoSession /\ held' = Detached
           /\ pc' = [pc EXCEPT ![g] = "done"] /\ UNCHANGED lockq
  BY <1>1, <1>2, DetachedType DEF TypeOK, NoSession, Session, Points, Ended
<1>3. CASE ~s.done /\ Wait(g, ev) /\ UNCHANGED <<state, held>>
  BY <1>1, <1>3, WaitType DEF TypeOK
<1> QED BY <1>2, <1>3 DEF Drained

LEMMA LoopType ==
  ASSUME TypeOK, NEW g \in Uids, NEW ev \in BOOLEAN, Loop(g, ev)
  PROVE  /\ state' \in Session /\ pc' \in [Uids -> Points] /\ held' \in [Uids -> Held]
         /\ item' \in [Uids -> Item] /\ lockq' \in Seq(Uids \union {-1})
         /\ rpc' \in Seq(Call) /\ got' \in [Uids -> SUBSET Delivery]
<1> DEFINE s == [done |-> state.done, acc |-> state.acc, shared |-> TRUE]
<1>1. s \in Held BY DEF TypeOK, Session, Held
<1>2. CASE Deliver(g, s) BY <1>1, <1>2, DeliverType
<1>3. CASE Drained(g, s, ev) BY <1>1, <1>3, DrainedType
<1>4. CASE Wait(g, ev) /\ UNCHANGED <<state, held, item, rpc, got>>
  BY <1>4, WaitType DEF TypeOK
<1>5. CASE /\ pc' = [pc EXCEPT ![g] = IF state.uid > g THEN "superseded" ELSE "delayed"]
           /\ UNCHANGED <<state, held, item, rpc, got, lockq>>
  BY <1>5 DEF TypeOK, Points, Ended
<1> QED BY <1>2, <1>3, <1>4, <1>5 DEF Loop

LEMMA LspNotifyType ==
  ASSUME TypeOK, NEW u \in Uids, NEW c \in Names, NEW done \in BOOLEAN,
         NEW table \in BOOLEAN, NEW n \in 0 .. MaxChunks, LspNotify(u, c, done, table, n)
  PROVE  /\ chan' \in Seq(Payload) /\ cids' \in Uids \union {-1}
         /\ accs' \in [Names -> Items \union {NoItems}]
<1>1. chan' \in Seq(Payload)
  <2>1. [uid |-> u, client |-> c, done |-> done] \in Payload BY DEF Payload
  <2> QED BY <2>1, AppendProperties DEF TypeOK, LspNotify
<1>2. [from |-> u, chunks |-> n] \in Items BY DEF Items
<1> QED BY <1>1, <1>2 DEF TypeOK, LspNotify

LEMMA RenewedType ==
  ASSUME TypeOK, NEW p \in Payload
  PROVE  Renewed(p) \in Session
<1> DEFINE old == IF state.uid = p.uid THEN state.acc ELSE <<>>
<1>1. old \in Seq(Reply) BY EmptySeq DEF TypeOK, Session
<1>2. [uid |-> p.uid, client |-> p.client] \in Reply BY DEF Payload, Reply
<1>3. Append(old, [uid |-> p.uid, client |-> p.client]) \in Seq(Reply)
  BY <1>1, <1>2, AppendProperties
<1> QED BY <1>3 DEF Renewed, Session, Payload

-----------------------------------------------------------------------------
(* Type correctness.                                                        *)

\* n_clients counts the clients of the session that have not called on_resp yet
Counted == \A u \in Uids : left[u] = Cardinality(pending[u])

TypeInv == TypeOK /\ Counted

LEMMA PendingFinite ==
  ASSUME NEW C \in SUBSET Clients
  PROVE  /\ IsFiniteSet(C)
         /\ Cardinality(C) \in 0 .. Cardinality(Clients)
<1>1. IsFiniteSet(Clients) BY SessionAssumption
<1>2. IsFiniteSet(C) /\ Cardinality(C) <= Cardinality(Clients) BY <1>1, FS_Subset
<1>3. Cardinality(C) \in Nat /\ Cardinality(Clients) \in Nat BY <1>1, <1>2, FS_CardinalityType
<1> QED BY <1>2, <1>3

LEMMA TypeInit == Init => TypeInv
<1> SUFFICES ASSUME Init PROVE TypeInv OBVIOUS
<1>1. 0 \in 0 .. Cardinality(Clients)
  BY PendingFinite, FS_EmptySet
<1>2. \A S : <<>> \in Seq(S) BY EmptySeq
<1>3. MaxChunks \in Nat /\ MaxUid \in Nat BY SessionAssumption
<1>4. item \in [Uids -> Item]
  BY <1>3 DEF Init, Item, Fresh, Reply, Names, Uids
<1>5. state \in Session /\ held \in [Uids -> Held]
  BY <1>2 DEF Init, NoSession, Session, NotHeld, Held
<1>6. pc \in [Uids -> Points] /\ accs \in [Names -> Items \union {NoItems}]
  BY DEF Init, Points
<1>7. /\ left \in [Uids -> 0 .. Cardinality(Clients)] /\ pending \in [Uids -> SUBSET Clients]
      /\ got \in [Uids -> SUBSET Delivery] /\ asked \in [Uids -> SUBSET Clients]
      /\ alone \in [Uids -> BOOLEAN]
  BY <1>1 DEF Init
<1>8. Counted BY FS_EmptySet DEF Init, Counted
<1>9. TypeOK BY <1>2, <1>4, <1>5, <1>6, <1>7 DEF Init, TypeOK
<1> QED BY <1>8, <1>9 DEF TypeInv

LEMMA LuaReqType ==
  ASSUME TypeInv, LuaReq
  PROVE  TypeInv'
<1> USE DEF TypeInv
<1> DEFINE u == Head(rpc).uid
<1>1. Head(rpc) \in Call /\ Tail(rpc) \in Seq(Call)
  BY HeadTailProperties DEF LuaReq, TypeOK
<1>2. u \in Uids BY <1>1 DEF Call
<1>3. PICK C \in SUBSET Clients :
        /\ asked' = [asked EXCEPT ![u] = C]
        /\ pending' = [pending EXCEPT ![u] = C]
        /\ left' = [left EXCEPT ![u] = Cardinality(C)]
        /\ IF C = {} THEN LspNotify(u, NoClient, TRUE, FALSE, 0)
                     ELSE UNCHANGED <<cids, accs, chan>>
  BY DEF LuaReq, AskedSets
<1>4. /\ chan' \in Seq(Payload) /\ cids' \in Uids \union {-1}
      /\ accs' \in [Names -> Items \union {NoItems}]
  <2>1. CASE LspNotify(u, NoClient, TRUE, FALSE, 0)
    <3>1. NoClient \in Names /\ 0 \in 0 .. MaxChunks BY SessionAssumption DEF Names
    <3> QED BY <1>2, <2>1, <3>1, LspNotifyType
  <2>2. CASE UNCHANGED <<cids, accs, chan>> BY <2>2 DEF TypeOK
  <2> QED BY <1>3, <2>1, <2>2
<1>5. Cardinality(C) \in 0 .. Cardinality(Clients) BY PendingFinite
<1>6. /\ asked' \in [Uids -> SUBSET Clients] /\ pending' \in [Uids -> SUBSET Clients]
      /\ left' \in [Uids -> 0 .. Cardinality(Clients)] /\ Counted'
  BY <1>2, <1>3, <1>5 DEF TypeOK, Counted
<1>7. pc' \in [Uids -> Points]
  BY <1>2 DEF LuaReq, Answered, TypeOK, Points, Suspended
<1>8. /\ UNCHANGED <<state, held, item, activity, lockq, got, alone>>
      /\ rpc' = Tail(rpc) /\ current' = u
  BY DEF LuaReq
<1> QED BY <1>1, <1>2, <1>4, <1>6, <1>7, <1>8 DEF TypeOK

LEMMA LuaPullType ==
  ASSUME TypeInv, LuaPull
  PROVE  TypeInv'
<1> USE DEF TypeInv
<1> DEFINE q == Head(rpc)
           refused == q.uid > cids
           there == accs[q.client]
           some == ~refused /\ there.from # -1 /\ q.k <= there.chunks
           it == [item[q.uid] EXCEPT !.from = IF some THEN there.from ELSE -1,
                                     !.full = some /\ q.k < there.chunks,
                                     !.refused = refused]
<1>1. q \in Call /\ Tail(rpc) \in Seq(Call)
  BY HeadTailProperties DEF LuaPull, TypeOK
<1>2. q.uid \in Uids /\ there \in Items \union {NoItems}
  BY <1>1 DEF Call, TypeOK
<1>3. it \in Item
  <2>1. item[q.uid] \in Item BY <1>2 DEF TypeOK
  <2>2. some => there.from \in Uids BY <1>2 DEF Items, NoItems
  <2>3. some \in BOOLEAN /\ refused \in BOOLEAN OBVIOUS
  <2> HIDE DEF some, refused
  <2> QED BY <2>1, <2>2, <2>3 DEF Item
<1>4. item' \in [Uids -> Item]
  <2>1. item' = item \/ item' = [item EXCEPT ![q.uid] = it] BY DEF LuaPull
  <2> QED BY <1>3, <2>1 DEF TypeOK
<1>5. pc' \in [Uids -> Points]
  BY <1>2 DEF LuaPull, Answered, TypeOK, Points, Suspended
<1>6. /\ UNCHANGED <<state, held, activity, lockq, chan, cids, accs, current, left,
                     pending, asked, got, alone>>
      /\ rpc' = Tail(rpc)
  BY DEF LuaPull, lua
<1> QED BY <1>1, <1>4, <1>5, <1>6 DEF TypeOK, Counted

LEMMA ClientReplyType ==
  ASSUME TypeInv, NEW u \in Uids, NEW c \in Clients, ClientReply(u, c)
  PROVE  TypeInv'
<1> USE DEF TypeInv
<1>1. PICK table \in {FALSE, u = current}, n \in 0 .. MaxChunks :
        LspNotify(u, c, left[u] - 1 = 0, table, n)
  BY DEF ClientReply
<1>2. /\ chan' \in Seq(Payload) /\ cids' \in Uids \union {-1}
      /\ accs' \in [Names -> Items \union {NoItems}]
  <2>1. c \in Names /\ table \in BOOLEAN /\ (left[u] - 1 = 0) \in BOOLEAN BY DEF Names
  <2> QED BY <1>1, <2>1, LspNotifyType
<1>3. pending[u] \in SUBSET Clients /\ c \in pending[u] BY DEF TypeOK, ClientReply
<1>4. /\ Cardinality(pending[u] \ {c}) = Cardinality(pending[u]) - 1
      /\ Cardinality(pending[u] \ {c}) \in 0 .. Cardinality(Clients)
  <2>1. IsFiniteSet(pending[u]) BY <1>3, PendingFinite
  <2>2. pending[u] \ {c} \in SUBSET Clients BY <1>3
  <2> QED BY <1>3, <2>1, <2>2, FS_RemoveElement, PendingFinite
<1>5. left' = [left EXCEPT ![u] = left[u] - 1] /\ pending' = [pending EXCEPT ![u] = pending[u] \ {c}]
  BY DEF ClientReply
<1>6. left[u] - 1 = Cardinality(pending[u] \ {c}) BY <1>4 DEF Counted
<1>7. /\ left' \in [Uids -> 0 .. Cardinality(Clients)] /\ pending' \in [Uids -> SUBSET Clients]
      /\ Counted'
  BY <1>3, <1>4, <1>5, <1>6 DEF TypeOK, Counted
<1>8. UNCHANGED <<state, pc, held, item, activity, lockq, rpc, current, got, asked, alone>>
  BY DEF ClientReply
<1> QED BY <1>2, <1>7, <1>8 DEF TypeOK

LEMMA TypeStep == TypeInv /\ [Next]_vars => TypeInv'
<1> SUFFICES ASSUME TypeInv, [Next]_vars PROVE TypeInv'
  OBVIOUS
<1> USE DEF TypeInv
<1>1. ASSUME NEW g \in Uids, Start(g) PROVE TypeInv'
  <2>1. state' \in Session
    <3>1. <<>> \in Seq(Reply) BY EmptySeq
    <3> QED BY <1>1, <3>1 DEF Start, Session
  <2>2. held' \in [Uids -> Held] BY <1>1, DetachedType DEF Start, TypeOK
  <2>3. pc' \in [Uids -> Points]
    <3>1. Wake(pc) \in [Uids -> Points] BY WakeType DEF TypeOK
    <3> QED BY <1>1, <3>1 DEF Start, Points, Suspended
  <2>4. rpc' \in Seq(Call)
    <3>1. [op |-> "req", uid |-> g, client |-> NoClient, k |-> 0] \in Call
      BY DEF Call, Names
    <3> QED BY <1>1, <3>1, AppendProperties DEF Start, TypeOK
  <2>5. alone' \in [Uids -> BOOLEAN] BY <1>1 DEF Start, TypeOK
  <2>6. /\ UNCHANGED <<item, lockq, chan, cids, accs, current, left, pending, asked, got>>
        /\ activity' \in BOOLEAN
    BY <1>1 DEF Start, lua
  <2> QED BY <2>1, <2>2, <2>3, <2>4, <2>5, <2>6 DEF TypeOK, Counted
<1>2. ASSUME NEW g \in Uids, Called(g) PROVE TypeInv'
  <2>1. activity \in BOOLEAN BY DEF TypeOK
  <2>2. UNCHANGED <<activity, chan, cids, accs, current, left, pending, asked, alone>>
    BY <1>2 DEF Called, lua
  <2> QED BY <1>2, <2>1, <2>2, LoopType DEF Called, TypeOK, Counted
<1>3. ASSUME NEW g \in Uids, Pulled(g) PROVE TypeInv'
  <2>1. got' \in [Uids -> SUBSET Delivery]
    <3>1. [reply |-> item[g].reply, from |-> item[g].from] \in Delivery
      BY DEF TypeOK, Item, Delivery
    <3> QED BY <1>3, <3>1 DEF Pulled, TypeOK
  <2>2. pc' \in [Uids -> Points] BY <1>3 DEF Pulled, TypeOK, Points, Suspended
  <2>3. UNCHANGED <<state, held, item, activity, lockq, rpc, chan, cids, accs, current,
                    left, pending, asked, alone>>
    BY <1>3 DEF Pulled, lua
  <2> QED BY <2>1, <2>2, <2>3 DEF TypeOK, Counted
<1>4. ASSUME NEW g \in Uids, Resume(g) PROVE TypeInv'
  <2>1. UNCHANGED <<activity, chan, cids, accs, current, left, pending, asked, alone>>
    BY <1>4 DEF Resume, lua
  <2>2. /\ state' \in Session /\ pc' \in [Uids -> Points] /\ held' \in [Uids -> Held]
        /\ item' \in [Uids -> Item] /\ lockq' \in Seq(Uids \union {-1})
        /\ rpc' \in Seq(Call) /\ got' \in [Uids -> SUBSET Delivery]
    <3>1. held[g] \in Held /\ activity \in BOOLEAN BY DEF TypeOK
    <3>2. CASE Deliver(g, held[g]) BY <3>1, <3>2, DeliverType
    <3>3. CASE Drained(g, held[g], activity) BY <3>1, <3>3, DrainedType
    <3>4. CASE /\ item' = [item EXCEPT ![g].k = @ + 1]
               /\ rpc' = Append(rpc, [op |-> "pull", uid |-> g,
                               client |-> item[g].reply.client, k |-> item[g].k + 1])
               /\ pc' = [pc EXCEPT ![g] = "pulling"]
               /\ UNCHANGED <<state, held, lockq, got>>
      <4>1. item[g] \in Item BY DEF TypeOK
      <4>2. item' \in [Uids -> Item]
        <5>1. [item[g] EXCEPT !.k = item[g].k + 1] \in Item BY <4>1 DEF Item
        <5>2. item' = [item EXCEPT ![g] = [item[g] EXCEPT !.k = item[g].k + 1]]
          BY <3>4
        <5> QED BY <5>1, <5>2 DEF TypeOK
      <4>3. [op |-> "pull", uid |-> g, client |-> item[g].reply.client,
             k |-> item[g].k + 1] \in Call
        BY <4>1 DEF Item, Reply, Call
      <4>4. rpc' \in Seq(Call) BY <3>4, <4>3, AppendProperties DEF TypeOK
      <4> QED BY <3>4, <4>2, <4>4 DEF TypeOK, Points, Suspended
    <3> QED BY <1>4, <3>2, <3>3, <3>4 DEF Resume
  <2> QED BY <2>1, <2>2 DEF TypeOK, Counted
<1>5. ASSUME NEW g \in Uids, Woken(g) PROVE TypeInv'
  <2>1. UNCHANGED <<state, held, item, activity, rpc, chan, cids, accs, current, left,
                    pending, asked, got, alone>>
    BY <1>5 DEF Woken, lua
  <2>2. pc' \in [Uids -> Points] /\ lockq' \in Seq(Uids \union {-1})
    BY <1>5, WaitType DEF Woken
  <2> QED BY <2>1, <2>2 DEF TypeOK, Counted
<1>6. ASSUME NEW g \in Uids, Clear(g) PROVE TypeInv'
  <2>1. UNCHANGED <<chan, cids, accs, current, left, pending, asked, alone>>
    BY <1>6 DEF Clear, lua
  <2> QED BY <1>6, <2>1, LoopType DEF Clear, TypeOK, Counted
<1>7. ASSUME NEW g \in Uids, Cancel(g) PROVE TypeInv'
  <2>1. lockq' \in Seq(Uids \union {-1})
    BY <1>7, RemoveAtInSeq DEF Cancel, TypeOK
  <2>2. pc' \in [Uids -> Points] BY <1>7 DEF Cancel, TypeOK, Points, Ended
  <2>3. UNCHANGED <<state, held, item, activity, rpc, chan, cids, accs, current, left,
                    pending, asked, got, alone>>
    BY <1>7 DEF Cancel, lua
  <2> QED BY <2>1, <2>2, <2>3 DEF TypeOK, Counted
<1>8. CASE Notified
  <2>1. Head(chan) \in Payload /\ Tail(chan) \in Seq(Payload)
    BY <1>8, HeadTailProperties DEF Notified, TypeOK
  <2>2. state' \in Session /\ held' \in [Uids -> Held]
    <3>1. Renewed(Head(chan)) \in Session
      BY <2>1, RenewedType
    <3> QED BY <1>8, <3>1, DetachedType DEF Notified, TypeOK
  <2>3. /\ activity' \in BOOLEAN /\ pc' \in [Uids -> Points]
        /\ lockq' \in Seq(Uids \union {-1})
    <3>1. Append(lockq, -1) \in Seq(Uids \union {-1})
      BY AppendProperties DEF TypeOK
    <3>2. Wake(pc) \in [Uids -> Points] BY WakeType DEF TypeOK
    <3> QED BY <1>8, <3>1, <3>2 DEF Notified, TypeOK
  <2>4. chan' \in Seq(Payload) BY <1>8, <2>1 DEF Notified
  <2>5. UNCHANGED <<item, rpc, cids, accs, current, left, pending, asked, got, alone>>
    BY <1>8 DEF Notified, lua
  <2> QED BY <2>2, <2>3, <2>4, <2>5 DEF TypeOK, Counted
<1>9. CASE Granted
  <2>1. Head(lockq) \in Uids \union {-1} /\ Tail(lockq) \in Seq(Uids \union {-1})
    BY <1>9, HeadTailProperties DEF Granted, TypeOK
  <2>2. activity' \in BOOLEAN /\ pc' \in [Uids -> Points]
    <3>1. Wake(pc) \in [Uids -> Points] BY WakeType DEF TypeOK
    <3>2. [pc EXCEPT ![Head(lockq)] = "clearing"] \in [Uids -> Points]
      BY DEF TypeOK, Points, Suspended
    <3>3. CASE Head(lockq) = -1
      <4>1. activity' = TRUE /\ pc' = Wake(pc) BY <1>9, <3>3 DEF Granted
      <4> QED BY <3>1, <4>1
    <3>4. CASE Head(lockq) # -1
      <4>1. activity' = activity /\ pc' = [pc EXCEPT ![Head(lockq)] = "clearing"]
        BY <1>9, <3>4 DEF Granted
      <4> QED BY <3>2, <4>1 DEF TypeOK
    <3> QED BY <3>3, <3>4
  <2>3. UNCHANGED <<state, held, item, rpc, chan, cids, accs, current, left, pending,
                    asked, got, alone>> /\ lockq' = Tail(lockq)
    BY <1>9 DEF Granted, lua
  <2> QED BY <2>1, <2>2, <2>3 DEF TypeOK, Counted
<1>10. CASE LuaReq BY <1>10, LuaReqType DEF TypeInv
<1>11. CASE LuaPull BY <1>11, LuaPullType DEF TypeInv
<1>12. ASSUME NEW u \in Uids, NEW c \in Clients, ClientReply(u, c) PROVE TypeInv'
  BY <1>12, ClientReplyType DEF TypeInv
<1>13. CASE UNCHANGED vars
  BY <1>13 DEF vars, TypeOK, Counted
<1> QED
  BY <1>1, <1>2, <1>3, <1>4, <1>5, <1>6, <1>7, <1>8, <1>9, <1>10, <1>11, <1>12, <1>13
     DEF Next

(* Every variable keeps its type, whatever the number of sessions, clients and
   chunks; n_clients in particular never goes below zero.                      *)
THEOREM TypeCorrect == Spec => []TypeOK
<1>1. TypeInv => TypeOK BY DEF TypeInv
<1> QED BY <1>1, TypeInit, TypeStep, PTL DEF Spec

-----------------------------------------------------------------------------
(* OwnReplies: a list never mixes sessions, in _STATE or held by a generator. *)

ReplyTo(u) == [uid : {u}, client : Names]

OwnInv ==
  /\ TypeInv
  /\ state.acc \in Seq(ReplyTo(state.uid))
  /\ \A g \in Uids : held[g].acc \in Seq(ReplyTo(g))
  /\ \A g \in Uids : item[g].reply.uid = g
  /\ OwnReplies

\* the step of a generator g that leaves lists of their own session behind it
Own(g) ==
  /\ state'.acc \in Seq(ReplyTo(state'.uid))
  /\ \A h \in Uids : held'[h].acc \in Seq(ReplyTo(h))
  /\ \A h \in Uids : item'[h].reply.uid = h
  /\ \A h \in Uids : \A d \in got'[h] : d.reply.uid = h

LEMMA DeliverOwn ==
  ASSUME OwnInv, NEW g \in Uids, NEW s \in Held, s.acc \in Seq(ReplyTo(g)), Deliver(g, s)
  PROVE  Own(g)
<1> USE DEF OwnInv, TypeInv
<1> DEFINE r == Last(s.acc)
<1>1. r \in ReplyTo(g) /\ Front(s.acc) \in Seq(ReplyTo(g))
  BY FrontLast DEF Deliver
<1>2. state'.acc \in Seq(ReplyTo(state'.uid))
  <2>1. Front(state.acc) \in Seq(ReplyTo(state.uid)) BY FrontInSeq
  <2> QED BY <2>1 DEF Deliver, TypeOK, Session
<1>3. \A h \in Uids : held'[h].acc \in Seq(ReplyTo(h))
  BY <1>1 DEF Deliver, TypeOK, Held
<1>4. r.uid = g BY <1>1 DEF ReplyTo
<1>5. \A h \in Uids : item'[h].reply.uid = h
  BY <1>4 DEF Deliver, TypeOK, Fresh
<1>6. \A h \in Uids : \A d \in got'[h] : d.reply.uid = h
  <2>1. CASE Multipart BY <2>1 DEF Deliver, OwnReplies
  <2>2. CASE ~Multipart
    <3>1. got' = [got EXCEPT ![g] = @ \union {[reply |-> r, from |-> -1]}]
      BY <2>2 DEF Deliver
    <3> QED BY <1>4, <3>1 DEF OwnReplies, TypeOK
  <2> QED BY <2>1, <2>2
<1> QED BY <1>2, <1>3, <1>5, <1>6 DEF Own

LEMMA DetachedOwn ==
  ASSUME OwnInv
  PROVE  \A h \in Uids : Detached[h].acc \in Seq(ReplyTo(h))
<1> SUFFICES ASSUME NEW h \in Uids PROVE Detached[h].acc \in Seq(ReplyTo(h))
  OBVIOUS
<1>1. Detached[h].acc = held[h].acc
  BY DEF OwnInv, TypeInv, TypeOK, Held, Detached
<1> QED BY <1>1 DEF OwnInv

LEMMA DrainedOwn ==
  ASSUME OwnInv, NEW g \in Uids, NEW s, NEW ev, Drained(g, s, ev)
  PROVE  Own(g)
<1> USE DEF OwnInv
<1>1. (state' = NoSession /\ held' = Detached) \/ UNCHANGED <<state, held>>
  BY DEF Drained
<1>2. NoSession.acc \in Seq(ReplyTo(NoSession.uid)) BY EmptySeq DEF NoSession
<1>3. UNCHANGED <<item, got>> BY DEF Drained
<1> QED BY <1>1, <1>2, <1>3, DetachedOwn DEF Own, OwnReplies

LEMMA LoopOwn ==
  ASSUME OwnInv, NEW g \in Uids, NEW ev \in BOOLEAN, Loop(g, ev)
  PROVE  Own(g)
<1> DEFINE s == [done |-> state.done, acc |-> state.acc, shared |-> TRUE]
<1>1. CASE state.uid = g /\ Deliver(g, s)
  <2>1. s \in Held BY DEF OwnInv, TypeInv, TypeOK, Session, Held
  <2>2. s.acc \in Seq(ReplyTo(g)) BY <1>1 DEF OwnInv
  <2> QED BY <1>1, <2>1, <2>2, DeliverOwn
<1>2. CASE Drained(g, s, ev) BY <1>2, DrainedOwn
<1>3. CASE UNCHANGED <<state, held, item, got>>
  BY <1>3 DEF OwnInv, OwnReplies, Own
<1> QED BY <1>1, <1>2, <1>3 DEF Loop

LEMMA SameReplies ==
  ASSUME TypeInv, LuaPull
  PROVE  \A h \in Uids : item'[h].reply = item[h].reply
<1> DEFINE q == Head(rpc)
           some == ~(q.uid > cids) /\ accs[q.client].from # -1 /\ q.k <= accs[q.client].chunks
           it == [item[q.uid] EXCEPT
                    !.from = IF some THEN accs[q.client].from ELSE -1,
                    !.full = some /\ q.k < accs[q.client].chunks,
                    !.refused = q.uid > cids]
<1>1. \A h \in Uids : item[h] \in Item BY DEF TypeInv, TypeOK
<1>2. item' = item \/ item' = [item EXCEPT ![q.uid] = it] BY DEF LuaPull
<1>3. q.uid \in Uids => it.reply = item[q.uid].reply BY <1>1 DEF Item
<1> HIDE DEF it
<1> QED BY <1>1, <1>2, <1>3 DEF TypeInv, TypeOK

LEMMA OwnInit == Init => OwnInv
<1> SUFFICES ASSUME Init PROVE OwnInv OBVIOUS
<1>1. \A S : <<>> \in Seq(S) BY EmptySeq
<1> QED BY <1>1, TypeInit DEF Init, OwnInv, OwnReplies, NoSession, NotHeld, Fresh

LEMMA OwnStep == OwnInv /\ [Next]_vars => OwnInv'
<1> SUFFICES ASSUME OwnInv, [Next]_vars PROVE OwnInv'
  OBVIOUS
<1> USE DEF OwnInv
<1>0. TypeInv' BY TypeStep
<1>00. ASSUME NEW g \in Uids, Own(g) PROVE OwnInv'
  BY <1>0, <1>00 DEF Own, OwnReplies
<1>1. ASSUME NEW g \in Uids, Start(g) PROVE OwnInv'
  <2>1. <<>> \in Seq(ReplyTo(g)) BY EmptySeq
  <2> QED BY <1>0, <1>1, <2>1, DetachedOwn DEF Start, OwnReplies
<1>2. ASSUME NEW g \in Uids, Called(g) PROVE OwnInv'
  <2>1. activity \in BOOLEAN BY DEF TypeInv, TypeOK
  <2> QED BY <1>00, <1>2, <2>1, LoopOwn DEF Called
<1>3. ASSUME NEW g \in Uids, Pulled(g) PROVE OwnInv'
  <2>1. got' = [got EXCEPT ![g] = @ \union {[reply |-> item[g].reply, from |-> item[g].from]}]
    BY <1>3 DEF Pulled
  <2>2. \A h \in Uids : \A d \in got'[h] : d.reply.uid = h
    BY <2>1 DEF TypeInv, TypeOK, OwnReplies
  <2>3. UNCHANGED <<state, held, item>> BY <1>3 DEF Pulled
  <2> QED BY <1>0, <2>2, <2>3 DEF OwnReplies
<1>4. ASSUME NEW g \in Uids, Resume(g) PROVE OwnInv'
  <2>1. CASE Deliver(g, held[g])
    <3>1. held[g] \in Held BY DEF TypeInv, TypeOK
    <3> QED BY <1>00, <2>1, <3>1, DeliverOwn
  <2>2. CASE Drained(g, held[g], activity) BY <1>00, <2>2, DrainedOwn
  <2>3. CASE item' = [item EXCEPT ![g].k = @ + 1] /\ UNCHANGED <<state, held, got>>
    <3>1. \A h \in Uids : item'[h].reply = item[h].reply
      BY <2>3 DEF TypeInv, TypeOK, Item
    <3> QED BY <1>0, <2>3, <3>1 DEF OwnReplies
  <2> QED BY <1>4, <2>1, <2>2, <2>3 DEF Resume
<1>5. ASSUME NEW g \in Uids, Clear(g) PROVE OwnInv'
  BY <1>00, <1>5, LoopOwn DEF Clear
<1>6. CASE Notified
  <2>1. CASE state' = Renewed(Head(chan)) /\ held' = Detached
    <3> DEFINE p == Head(chan)
               old == IF state.uid = p.uid THEN state.acc ELSE <<>>
    <3>1. p \in Payload BY <1>6, HeadTailProperties DEF Notified, TypeInv, TypeOK
    <3>2. old \in Seq(ReplyTo(p.uid)) BY EmptySeq
    <3>3. [uid |-> p.uid, client |-> p.client] \in ReplyTo(p.uid)
      BY <3>1 DEF Payload, ReplyTo
    <3>4. Append(old, [uid |-> p.uid, client |-> p.client]) \in Seq(ReplyTo(p.uid))
      BY <3>2, <3>3, AppendProperties
    <3>5. state'.acc \in Seq(ReplyTo(state'.uid)) BY <2>1, <3>4 DEF Renewed
    <3>6. UNCHANGED <<item, got>> BY <1>6 DEF Notified
    <3> QED BY <1>0, <2>1, <3>5, <3>6, DetachedOwn DEF OwnReplies
  <2>2. CASE UNCHANGED <<state, held>>
    BY <1>0, <1>6, <2>2 DEF Notified, OwnReplies
  <2> QED BY <1>6, <2>1, <2>2 DEF Notified
<1>7. CASE LuaPull
  <2>1. \A h \in Uids : item'[h].reply = item[h].reply BY <1>7, SameReplies
  <2>2. UNCHANGED <<state, held, got>> BY <1>7 DEF LuaPull
  <2> QED BY <1>0, <2>1, <2>2 DEF OwnReplies
<1>8. CASE UNCHANGED <<state, held, item, got>>
  BY <1>0, <1>8 DEF OwnReplies
<1>9. ASSUME NEW g \in Uids, Woken(g) \/ Cancel(g) PROVE UNCHANGED <<state, held, item, got>>
  BY <1>9 DEF Woken, Cancel
<1>10. ASSUME Granted \/ LuaReq PROVE UNCHANGED <<state, held, item, got>>
  BY <1>10 DEF Granted, LuaReq
<1>11. ASSUME NEW u \in Uids, NEW c \in Clients, ClientReply(u, c)
       PROVE  UNCHANGED <<state, held, item, got>>
  BY <1>11 DEF ClientReply
<1>12. UNCHANGED vars => UNCHANGED <<state, held, item, got>>
  BY DEF vars
<1> QED
  BY <1>1, <1>2, <1>3, <1>4, <1>5, <1>6, <1>7, <1>8, <1>9, <1>10, <1>11, <1>12 DEF Next

(* Whatever requests overlap and whatever answers come late, a generator yields
   replies to its own session only.                                            *)
THEOREM OnlyOwnReplies == Spec => []OwnReplies
<1>1. OwnInv => OwnReplies BY DEF OwnInv
<1> QED BY <1>1, OwnInit, OwnStep, PTL DEF Spec

-----------------------------------------------------------------------------
(* NoStaleItems: what waits in accs is never older than cids, which is never
   older than the session whose pull is accepted.                           *)

FreshInv ==
  /\ TypeInv
  /\ \A c \in Names : accs[c].from = -1 \/ accs[c].from >= cids
  /\ ~Multipart => \A c \in Names : accs[c].from = -1
  /\ \A g \in Uids : item[g].from = -1 \/ item[g].from >= g
  /\ NoStaleItems

\* a step that leaves no stale items behind it in python
Python ==
  /\ \A h \in Uids : item'[h].from = -1 \/ item'[h].from >= h
  /\ \A h \in Uids : \A d \in got'[h] : d.from = -1 \/ d.from >= h

LEMMA DeliverFresh ==
  ASSUME FreshInv, NEW g \in Uids, NEW s, Deliver(g, s)
  PROVE  Python
<1> USE DEF FreshInv
<1>1. item' = [item EXCEPT ![g] = Fresh(Last(s.acc))] BY DEF Deliver
<1>2. \A h \in Uids : item'[h].from = -1 \/ item'[h].from >= h
  BY <1>1 DEF TypeInv, TypeOK, Fresh
<1>3. \A h \in Uids : \A d \in got'[h] : d.from = -1 \/ d.from >= h
  <2>1. CASE UNCHANGED got BY <2>1 DEF NoStaleItems
  <2>2. CASE got' = [got EXCEPT ![g] = @ \union {[reply |-> Last(s.acc), from |-> -1]}]
    BY <2>2 DEF NoStaleItems, TypeInv, TypeOK
  <2> QED BY <2>1, <2>2 DEF Deliver
<1> QED BY <1>2, <1>3 DEF Python

LEMMA LoopFresh ==
  ASSUME FreshInv, NEW g \in Uids, NEW ev, Loop(g, ev)
  PROVE  Python
<1> DEFINE s == [done |-> state.done, acc |-> state.acc, shared |-> TRUE]
<1>1. CASE Deliver(g, s) BY <1>1, DeliverFresh
<1>2. CASE UNCHANGED <<item, got>>
  BY <1>2 DEF FreshInv, NoStaleItems, Python
<1> QED BY <1>1, <1>2 DEF Loop, Drained

LEMMA LspNotifyFresh ==
  ASSUME FreshInv, NEW u \in Uids, NEW c \in Names, NEW done, NEW table, NEW n,
         LspNotify(u, c, done, table, n)
  PROVE  /\ \A d \in Names : accs'[d].from = -1 \/ accs'[d].from >= cids'
         /\ ~Multipart => \A d \in Names : accs'[d].from = -1
<1> USE DEF FreshInv
<1> DEFINE kept == IF u > cids THEN [d \in Names |-> NoItems] ELSE accs
<1>1. cids' = u /\ cids \in Uids \union {-1}
  BY DEF LspNotify, TypeInv, TypeOK
<1>2. kept \in [Names -> Items \union {NoItems}]
  BY DEF TypeInv, TypeOK
<1>3. \A d \in Names : kept[d].from = -1 \/ kept[d].from >= u
  <2>1. CASE u > cids BY <2>1 DEF NoItems
  <2>2. CASE ~(u > cids)
    <3>1. cids >= u /\ u \in Int BY <1>1, <2>2 DEF Uids
    <3>2. \A d \in Names : accs[d].from \in Int
      BY DEF TypeInv, TypeOK, Items, NoItems, Uids
    <3> QED BY <1>1, <2>2, <3>1, <3>2 DEF Uids
  <2> QED BY <2>1, <2>2
<1>4. u >= u BY DEF Uids
<1> HIDE DEF kept
<1>5. CASE Multipart /\ accs' = kept BY <1>1, <1>3, <1>5
<1>6. CASE Multipart /\ accs' = [kept EXCEPT ![c] = [from |-> u, chunks |-> n]]
  BY <1>1, <1>2, <1>3, <1>4, <1>6
<1>7. CASE ~Multipart /\ accs' = accs
  BY <1>7
<1>8. accs' = IF ~Multipart THEN accs
              ELSE IF table THEN [kept EXCEPT ![c] = [from |-> u, chunks |-> n]]
              ELSE kept
  BY DEF LspNotify, kept
<1> QED BY <1>5, <1>6, <1>7, <1>8

LEMMA FreshInit == Init => FreshInv
BY TypeInit DEF Init, FreshInv, NoStaleItems, NoItems, Fresh

LEMMA FreshStep == FreshInv /\ [Next]_vars => FreshInv'
<1> SUFFICES ASSUME FreshInv, [Next]_vars PROVE FreshInv'
  OBVIOUS
<1> USE DEF FreshInv
<1>0. TypeInv' BY TypeStep
<1>1. ASSUME Python, UNCHANGED <<accs, cids>> PROVE FreshInv'
  BY <1>0, <1>1 DEF Python, NoStaleItems
<1>2. ASSUME NEW g \in Uids, Called(g) PROVE FreshInv'
  BY <1>1, <1>2, LoopFresh DEF Called, lua
<1>3. ASSUME NEW g \in Uids, Pulled(g) PROVE FreshInv'
  <2>1. got' = [got EXCEPT ![g] = @ \union {[reply |-> item[g].reply, from |-> item[g].from]}]
    BY <1>3 DEF Pulled
  <2>2. \A h \in Uids : \A d \in got'[h] : d.from = -1 \/ d.from >= h
    BY <2>1 DEF TypeInv, TypeOK, NoStaleItems
  <2>3. UNCHANGED <<item, accs, cids>> BY <1>3 DEF Pulled, lua
  <2> QED BY <1>1, <2>2, <2>3 DEF Python
<1>4. ASSUME NEW g \in Uids, Resume(g) PROVE FreshInv'
  <2>0. UNCHANGED <<accs, cids>> BY <1>4 DEF Resume, lua
  <2>1. CASE Deliver(g, held[g])
    <3>1. Python BY <2>1, DeliverFresh
    <3> QED BY <1>1, <2>0, <3>1
  <2>2. CASE UNCHANGED <<item, got>>
    BY <1>1, <1>4, <2>2 DEF Resume, lua, Python, NoStaleItems
  <2>3. CASE item' = [item EXCEPT ![g].k = @ + 1] /\ UNCHANGED got
    <3>1. \A h \in Uids : item'[h].from = item[h].from
      BY <2>3 DEF TypeInv, TypeOK, Item
    <3> QED BY <1>1, <1>4, <2>3, <3>1 DEF Resume, lua, Python, NoStaleItems
  <2> QED BY <1>4, <2>1, <2>2, <2>3 DEF Resume, Drained
<1>5. ASSUME NEW g \in Uids, Clear(g) PROVE FreshInv'
  BY <1>1, <1>5, LoopFresh DEF Clear, lua
<1>6. CASE LuaReq
  <2> DEFINE u == Head(rpc).uid
  <2>1. u \in Uids
    <3>1. Head(rpc) \in Call
      BY <1>6, HeadTailProperties DEF LuaReq, TypeInv, TypeOK
    <3> QED BY <3>1 DEF Call
  <2>2. UNCHANGED <<item, got>> BY <1>6 DEF LuaReq
  <2>3. CASE LspNotify(u, NoClient, TRUE, FALSE, 0)
    <3>1. NoClient \in Names BY DEF Names
    <3> QED BY <1>0, <2>1, <2>2, <2>3, <3>1, LspNotifyFresh DEF NoStaleItems
  <2>4. CASE UNCHANGED <<cids, accs, chan>>
    BY <1>1, <2>2, <2>4 DEF Python, NoStaleItems
  <2> QED BY <1>6, <2>3, <2>4 DEF LuaReq
<1>7. CASE LuaPull
  <2> DEFINE q == Head(rpc)
             there == accs[q.client]
             some == ~(q.uid > cids) /\ there.from # -1 /\ q.k <= there.chunks
             it == [item[q.uid] EXCEPT
                      !.from = IF some THEN there.from ELSE -1,
                      !.full = some /\ q.k < there.chunks,
                      !.refused = q.uid > cids]
  <2>1. q \in Call BY <1>7, HeadTailProperties DEF LuaPull, TypeInv, TypeOK
  <2>2. q.uid \in Uids /\ q.client \in Names BY <2>1 DEF Call
  <2>3. item' = item \/ item' = [item EXCEPT ![q.uid] = it] BY <1>7 DEF LuaPull
  <2>4. item[q.uid] \in Item /\ there \in Items \union {NoItems} BY <2>2 DEF TypeInv, TypeOK
  <2>5. some => there.from >= q.uid
    <3>1. cids \in Int /\ q.uid \in Int BY <2>2 DEF TypeInv, TypeOK, Uids
    <3>2. there.from \in Int BY <2>4 DEF Items, NoItems, Uids
    <3> QED BY <2>2, <3>1, <3>2
  <2>6. it.from = IF some THEN there.from ELSE -1 BY <2>4 DEF Item
  <2> HIDE DEF some, it
  <2>7. it.from = -1 \/ it.from >= q.uid BY <2>5, <2>6
  <2>8. \A h \in Uids : item'[h].from = -1 \/ item'[h].from >= h
    BY <2>2, <2>3, <2>7 DEF TypeInv, TypeOK
  <2>9. UNCHANGED <<got, accs, cids>> BY <1>7 DEF LuaPull, lua
  <2> QED BY <1>1, <2>8, <2>9 DEF Python, NoStaleItems
<1>8. ASSUME NEW u \in Uids, NEW c \in Clients, ClientReply(u, c) PROVE FreshInv'
  <2>1. PICK table \in {FALSE, u = current}, n \in 0 .. MaxChunks :
          LspNotify(u, c, left[u] - 1 = 0, table, n)
    BY <1>8 DEF ClientReply
  <2>2. UNCHANGED <<item, got>> BY <1>8 DEF ClientReply
  <2>3. c \in Names BY DEF Names
  <2> QED BY <1>0, <2>1, <2>2, <2>3, LspNotifyFresh DEF NoStaleItems
<1>9. CASE UNCHANGED <<item, got, accs, cids>>
  BY <1>1, <1>9 DEF Python, NoStaleItems
<1>10. ASSUME NEW g \in Uids, Start(g) \/ Woken(g) \/ Cancel(g)
       PROVE  UNCHANGED <<item, got, accs, cids>>
  BY <1>10 DEF Start, Woken, Cancel, lua
<1>11. ASSUME Notified \/ Granted PROVE UNCHANGED <<item, got, accs, cids>>
  BY <1>11 DEF Notified, Granted, lua
<1>12. UNCHANGED vars => UNCHANGED <<item, got, accs, cids>>
  BY DEF vars
<1> QED
  BY <1>2, <1>3, <1>4, <1>5, <1>6, <1>7, <1>8, <1>9, <1>10, <1>11, <1>12 DEF Next

(* A generator is never handed the items of a session older than its own.     *)
THEOREM NeverStaleItems == Spec => []NoStaleItems
<1>1. FreshInv => NoStaleItems BY DEF FreshInv
<1> QED BY <1>1, FreshInit, FreshStep, PTL DEF Spec

-----------------------------------------------------------------------------
(* _STATE only moves forward, and the layer implements what LspRequest       *)
(* promises.                                                               *)
(*                                                                         *)
(* No lost wake-up: asyncio's Event and Lock as request.py combines them    *)
(* (the event is cleared under the lock by the generators, and set under it *)
(* by the notifications) never leave a generator asleep beside an answer to  *)
(* its session; and a request that ends undisturbed has yielded them all.    *)

\* every number in use belongs to a generator that has started, and generators
\* start in the order of their numbers
Begun == {g \in Uids : pc[g] # "idle"}
CallsOf(U) == {q \in Call : q.uid \in U}
PayloadsOf(U) == {p \in Payload : p.uid \in U}

OrderInv ==
  /\ TypeInv
  /\ \A g \in Begun, h \in Uids : h < g => h \in Begun
  /\ state.uid \in Begun \union {-1}
  /\ chan \in Seq(PayloadsOf(Begun))
  /\ rpc \in Seq(CallsOf(Begun))
  /\ lockq \in Seq(Begun \union {-1})
  /\ \A u \in Uids : pending[u] # {} => u \in Begun

\* a step of a generator g that has started, or of those that answer it
Moved(g) ==
  /\ \/ pc' = pc
     \/ pc[g] # "idle" /\ \E p \in Points \ {"idle"} : pc' = [pc EXCEPT ![g] = p]
  /\ state'.uid \in {-1, state.uid}
  /\ UNCHANGED lockq \/ lockq' = Append(lockq, g)

LEMMA WaitMoved ==
  ASSUME TypeInv, NEW g \in Uids, NEW ev, pc[g] # "idle", UNCHANGED state,
         Wait(g, ev) \/ AfterWait(g)
  PROVE  Moved(g)
BY DEF Wait, AfterWait, Acquire, Moved, Points, Suspended, Ended

LEMMA DeliverMoved ==
  ASSUME TypeInv, NEW g \in Uids, NEW s \in Held, pc[g] # "idle", Deliver(g, s)
  PROVE  /\ Moved(g)
         /\ \/ UNCHANGED rpc
            \/ \E q \in Call : q.uid = g /\ rpc' = Append(rpc, q)
<1>1. state'.uid = state.uid BY DEF Deliver, TypeInv, TypeOK, Session
<1>2. CASE Multipart
  <2>1. pc' = [pc EXCEPT ![g] = "pulling"] /\ UNCHANGED lockq BY <1>2 DEF Deliver
  <2>2. rpc' = Append(rpc, [op |-> "pull", uid |-> g, client |-> Last(s.acc).client, k |-> 0])
    BY <1>2 DEF Deliver
  <2>3. Last(s.acc) \in Reply BY FrontLast DEF Deliver, Held
  <2>4. [op |-> "pull", uid |-> g, client |-> Last(s.acc).client, k |-> 0] \in Call
    BY <2>3 DEF Reply, Call
  <2>5. Moved(g) BY <1>1, <2>1 DEF Moved, Points, Suspended
  <2> QED BY <2>2, <2>4, <2>5
<1>3. CASE ~Multipart
  <2>1. pc' = [pc EXCEPT ![g] = "yielded"] /\ UNCHANGED <<lockq, rpc>> BY <1>3 DEF Deliver
  <2> QED BY <1>1, <2>1 DEF Moved, Points, Suspended
<1> QED BY <1>2, <1>3

LEMMA DrainedMoved ==
  ASSUME TypeInv, NEW g \in Uids, NEW s, NEW ev, pc[g] # "idle", Drained(g, s, ev)
  PROVE  Moved(g) /\ UNCHANGED rpc
<1>1. CASE state' = NoSession /\ pc' = [pc EXCEPT ![g] = "done"] /\ UNCHANGED lockq
  BY <1>1 DEF Drained, Moved, NoSession, Points, Ended
<1>2. CASE Wait(g, ev) /\ UNCHANGED state
  BY <1>2, WaitMoved DEF Drained
<1> QED BY <1>1, <1>2 DEF Drained

LEMMA LoopMoved ==
  ASSUME TypeInv, NEW g \in Uids, NEW ev, pc[g] # "idle", Loop(g, ev)
  PROVE  /\ Moved(g)
         /\ \/ UNCHANGED rpc
            \/ \E q \in Call : q.uid = g /\ rpc' = Append(rpc, q)
<1> DEFINE s == [done |-> state.done, acc |-> state.acc, shared |-> TRUE]
<1>1. s \in Held BY DEF TypeInv, TypeOK, Session, Held
<1>2. CASE Deliver(g, s) BY <1>1, <1>2, DeliverMoved
<1>3. CASE Drained(g, s, ev) BY <1>3, DrainedMoved
<1>4. CASE Wait(g, ev) /\ UNCHANGED <<state, rpc>> BY <1>4, WaitMoved
<1>5. CASE /\ pc' = [pc EXCEPT ![g] = IF state.uid > g THEN "superseded" ELSE "delayed"]
           /\ UNCHANGED <<state, lockq, rpc>>
  BY <1>5 DEF Moved, Points, Ended
<1> QED BY <1>2, <1>3, <1>4, <1>5 DEF Loop

LEMMA SeqMonotone ==
  ASSUME NEW S, NEW T, S \subseteq T, NEW s \in Seq(S)
  PROVE  s \in Seq(T)
<1>1. Len(s) \in Nat /\ s \in [1 .. Len(s) -> S] BY LenProperties
<1>2. s \in [1 .. Len(s) -> T] BY <1>1
<1> QED BY <1>1, <1>2

LEMMA QueueKept ==
  ASSUME NEW S, NEW T, S \subseteq T, NEW s \in Seq(S), NEW t,
         \/ t = s
         \/ \E e \in T : t = Append(s, e)
         \/ s # <<>> /\ t = Tail(s)
  PROVE  t \in Seq(T)
<1>1. s \in Seq(T) BY SeqMonotone
<1>2. ASSUME NEW e \in T, t = Append(s, e) PROVE t \in Seq(T)
  BY <1>1, <1>2, AppendProperties
<1>3. CASE s # <<>> /\ t = Tail(s) BY <1>1, <1>3, HeadTailProperties
<1> QED BY <1>1, <1>2, <1>3

LEMMA OrderKept ==
  ASSUME OrderInv, TypeInv', NEW G \in SUBSET Begun',
         Begun \subseteq Begun',
         \A f \in Begun', h \in Uids : h < f => h \in Begun',
         state'.uid \in {-1, state.uid} \union G,
         \/ UNCHANGED chan
         \/ \E e \in PayloadsOf(G) : chan' = Append(chan, e)
         \/ chan # <<>> /\ chan' = Tail(chan),
         \/ UNCHANGED rpc
         \/ \E e \in CallsOf(G) : rpc' = Append(rpc, e)
         \/ rpc # <<>> /\ rpc' = Tail(rpc),
         \/ UNCHANGED lockq
         \/ \E e \in {-1} \union G : lockq' = Append(lockq, e)
         \/ lockq # <<>> /\ lockq' = Tail(lockq)
         \/ \E i \in 1 .. Len(lockq) : lockq' = RemoveAt(lockq, i),
         \A u \in Uids : pending'[u] # {} => pending[u] # {} \/ u \in G
  PROVE  OrderInv'
<1> USE DEF OrderInv
<1>1. chan' \in Seq(PayloadsOf(Begun'))
  <2>1. PayloadsOf(Begun) \subseteq PayloadsOf(Begun') /\ PayloadsOf(G) \subseteq PayloadsOf(Begun')
    BY DEF PayloadsOf
  <2> QED BY <2>1, QueueKept
<1>2. rpc' \in Seq(CallsOf(Begun'))
  <2>1. CallsOf(Begun) \subseteq CallsOf(Begun') /\ CallsOf(G) \subseteq CallsOf(Begun')
    BY DEF CallsOf
  <2> QED BY <2>1, QueueKept
<1>3. lockq' \in Seq(Begun' \union {-1})
  <2>1. /\ Begun \union {-1} \subseteq Begun' \union {-1}
        /\ {-1} \union G \subseteq Begun' \union {-1}
    OBVIOUS
  <2>2. ASSUME NEW i \in 1 .. Len(lockq), lockq' = RemoveAt(lockq, i)
        PROVE  lockq' \in Seq(Begun' \union {-1})
    <3>1. lockq \in Seq(Begun' \union {-1}) BY <2>1, SeqMonotone
    <3> QED BY <2>2, <3>1, RemoveAtInSeq
  <2>3. ASSUME NEW e \in {-1} \union G, lockq' = Append(lockq, e)
        PROVE  lockq' \in Seq(Begun' \union {-1})
    BY <2>1, <2>3, QueueKept
  <2>4. CASE UNCHANGED lockq \/ (lockq # <<>> /\ lockq' = Tail(lockq))
    BY <2>1, <2>4, QueueKept
  <2> QED BY <2>2, <2>3, <2>4
<1>4. /\ state'.uid \in Begun' \union {-1}
      /\ \A u \in Uids : pending'[u] # {} => u \in Begun'
  OBVIOUS
<1>5. PayloadsOf(Begun)' = PayloadsOf(Begun') /\ CallsOf(Begun)' = CallsOf(Begun')
  BY DEF PayloadsOf, CallsOf
<1> QED BY <1>1, <1>2, <1>3, <1>4, <1>5

LEMMA MovedKept ==
  ASSUME OrderInv, TypeInv', NEW g \in Uids, pc[g] # "idle", Moved(g),
         \/ UNCHANGED rpc
         \/ \E q \in Call : q.uid = g /\ rpc' = Append(rpc, q),
         UNCHANGED <<chan, pending>>
  PROVE  OrderInv'
<1>1. Begun' = Begun /\ g \in Begun
  BY DEF Begun, Moved, OrderInv, TypeInv, TypeOK
<1>2. UNCHANGED rpc \/ \E e \in CallsOf({g}) : rpc' = Append(rpc, e)
  BY DEF CallsOf
<1>3. /\ state'.uid \in {-1, state.uid}
      /\ UNCHANGED lockq \/ lockq' = Append(lockq, g)
  BY DEF Moved
<1>4. {g} \in SUBSET Begun' BY <1>1
<1> QED BY <1>1, <1>2, <1>3, <1>4, OrderKept DEF OrderInv

LEMMA OrderInit == Init => OrderInv
<1> SUFFICES ASSUME Init PROVE OrderInv OBVIOUS
<1>1. \A S : <<>> \in Seq(S) BY EmptySeq
<1> QED BY <1>1, TypeInit DEF Init, OrderInv, Begun, NoSession

\* what a step may do to the session of _STATE
Advance == state'.uid = -1 \/ state'.uid >= state.uid

LEMMA MovedAdvances ==
  ASSUME TypeInv, NEW g, Moved(g)
  PROVE  Advance
BY DEF TypeInv, TypeOK, Session, Moved, Advance, Uids

LEMMA OrderStep == OrderInv /\ [Next]_vars => OrderInv' /\ Advance
<1> SUFFICES ASSUME OrderInv, [Next]_vars PROVE OrderInv' /\ Advance
  OBVIOUS
<1> USE DEF OrderInv
<1>a. TypeInv' BY TypeStep
<1>b. pc \in [Uids -> Points] /\ state.uid \in Uids \union {-1} BY DEF TypeInv, TypeOK, Session
<1>c. UNCHANGED state => Advance BY <1>b DEF Advance, Uids
<1>1. ASSUME NEW g \in Uids, Start(g) PROVE OrderInv' /\ Advance
  <2>1. g \notin Begun /\ (\A h \in Uids : h < g => h \in Begun) BY <1>1 DEF Start, Begun
  <2>2. Begun' = Begun \union {g}
    BY <1>1, <1>b DEF Start, Begun, Wake
  <2>3. state'.uid = g BY <1>1 DEF Start
  <2>4. Advance
    <3>1. state.uid # -1 => state.uid < g
      BY <1>b, <2>1 DEF Begun, Uids
    <3> QED BY <1>b, <2>3, <3>1 DEF Advance, Uids
  <2>5. \A f \in Begun', h \in Uids : h < f => h \in Begun' BY <2>1, <2>2
  <2>6. \E e \in CallsOf({g}) : rpc' = Append(rpc, e)
    <3>1. [op |-> "req", uid |-> g, client |-> NoClient, k |-> 0] \in CallsOf({g})
      BY DEF CallsOf, Call, Names
    <3> QED BY <1>1, <3>1 DEF Start
  <2>7. UNCHANGED <<chan, lockq, pending>> BY <1>1 DEF Start, lua
  <2>8. {g} \in SUBSET Begun' BY <2>2
  <2>9. OrderInv' BY <1>a, <2>2, <2>3, <2>5, <2>6, <2>7, <2>8, OrderKept
  <2> QED BY <2>4, <2>9
<1>2. ASSUME NEW g \in Uids, Called(g) \/ Clear(g) PROVE OrderInv' /\ Advance
  <2>1. pc[g] # "idle" /\ (\E ev : Loop(g, ev)) /\ UNCHANGED <<chan, pending>>
    BY <1>2 DEF Called, Clear, lua
  <2> QED BY <1>a, <2>1, LoopMoved, MovedKept, MovedAdvances
<1>3. ASSUME NEW g \in Uids, Pulled(g) PROVE OrderInv' /\ Advance
  <2>1. Moved(g) /\ pc[g] # "idle" /\ UNCHANGED <<chan, pending, rpc>>
    BY <1>3 DEF Pulled, lua, Moved, Points, Suspended
  <2> QED BY <1>a, <2>1, MovedKept, MovedAdvances
<1>4. ASSUME NEW g \in Uids, Resume(g) PROVE OrderInv' /\ Advance
  <2>1. pc[g] # "idle" /\ UNCHANGED <<chan, pending>> /\ held[g] \in Held
    BY <1>4 DEF Resume, lua, TypeInv, TypeOK
  <2>2. CASE Deliver(g, held[g]) BY <1>a, <2>1, <2>2, DeliverMoved, MovedKept, MovedAdvances
  <2>3. CASE Drained(g, held[g], activity)
    BY <1>a, <2>1, <2>3, DrainedMoved, MovedKept, MovedAdvances
  <2>4. CASE /\ rpc' = Append(rpc, [op |-> "pull", uid |-> g,
                               client |-> item[g].reply.client, k |-> item[g].k + 1])
             /\ pc' = [pc EXCEPT ![g] = "pulling"]
             /\ UNCHANGED <<state, lockq>>
    <3>1. item[g] \in Item BY DEF TypeInv, TypeOK
    <3>2. [op |-> "pull", uid |-> g, client |-> item[g].reply.client,
           k |-> item[g].k + 1] \in Call
      BY <3>1 DEF Item, Reply, Call
    <3>3. Moved(g) BY <2>1, <2>4 DEF Moved, Points, Suspended
    <3>4. \E q \in Call : q.uid = g /\ rpc' = Append(rpc, q) BY <2>4, <3>2
    <3> QED BY <1>a, <2>1, <3>3, <3>4, MovedKept, MovedAdvances
  <2> QED BY <1>4, <2>2, <2>3, <2>4 DEF Resume
<1>5. ASSUME NEW g \in Uids, Woken(g) PROVE OrderInv' /\ Advance
  <2>1. pc[g] # "idle" /\ AfterWait(g) /\ UNCHANGED <<state, chan, pending, rpc>>
    BY <1>5 DEF Woken, lua
  <2> QED BY <1>a, <2>1, WaitMoved, MovedKept, MovedAdvances
<1>6. ASSUME NEW g \in Uids, Cancel(g) PROVE OrderInv' /\ Advance
  <2>1. g \in Begun /\ Begun' = Begun
    BY <1>6, <1>b DEF Cancel, Begun, Suspended
  <2>2. /\ UNCHANGED <<state, chan, pending, rpc>>
        /\ \/ UNCHANGED lockq
           \/ \E i \in 1 .. Len(lockq) : lockq' = RemoveAt(lockq, i)
    BY <1>6 DEF Cancel, lua
  <2> QED BY <1>a, <1>c, <2>1, <2>2, OrderKept
<1>7. CASE Notified
  <2> DEFINE p == Head(chan)
  <2>1. p \in PayloadsOf(Begun)
    BY <1>7, HeadTailProperties DEF Notified
  <2>2. p.uid \in Begun /\ p.uid \in Uids BY <2>1 DEF PayloadsOf, Begun
  <2>3. Begun' = Begun
    <3>1. pc' = Wake(pc) \/ pc' = pc BY <1>7 DEF Notified
    <3> QED BY <1>b, <3>1 DEF Begun, Wake
  <2>4. \/ UNCHANGED state
        \/ state'.uid = p.uid /\ (state.uid = -1 \/ p.uid >= state.uid)
    BY <1>7 DEF Notified, Renewed
  <2>5. Advance BY <1>b, <1>c, <2>2, <2>4 DEF Advance, Uids
  <2>6. /\ UNCHANGED <<rpc, pending>> /\ chan # <<>> /\ chan' = Tail(chan)
        /\ UNCHANGED lockq \/ \E e \in {-1} : lockq' = Append(lockq, e)
    BY <1>7 DEF Notified, lua
  <2>7. {p.uid} \in SUBSET Begun' BY <2>2, <2>3
  <2>8. OrderInv' BY <1>a, <2>3, <2>4, <2>6, <2>7, OrderKept
  <2> QED BY <2>5, <2>8
<1>8. CASE Granted
  <2>1. Head(lockq) \in Begun \union {-1}
    BY <1>8, HeadTailProperties DEF Granted
  <2>2. Begun' = Begun
    <3>1. CASE pc' = Wake(pc) BY <1>b, <3>1 DEF Begun, Wake
    <3>2. CASE Head(lockq) # -1 /\ pc' = [pc EXCEPT ![Head(lockq)] = "clearing"]
      BY <1>b, <2>1, <3>2 DEF Begun
    <3> QED BY <1>8, <3>1, <3>2 DEF Granted
  <2>3. /\ UNCHANGED <<state, rpc, chan, pending>> /\ lockq # <<>> /\ lockq' = Tail(lockq)
    BY <1>8 DEF Granted, lua
  <2>4. {} \in SUBSET Begun' OBVIOUS
  <2>5. OrderInv' BY <1>a, <2>2, <2>3, <2>4, OrderKept
  <2> QED BY <1>c, <2>3, <2>5
<1>9. CASE LuaReq
  <2> DEFINE u == Head(rpc).uid
  <2>1. Head(rpc) \in CallsOf(Begun) BY <1>9, HeadTailProperties DEF LuaReq
  <2>2. u \in Begun /\ u \in Uids BY <2>1 DEF CallsOf, Begun
  <2>3. Begun' = Begun
    <3>1. pc' = Answered(u, "calling", "called") BY <1>9 DEF LuaReq
    <3> QED BY <1>b, <2>2, <3>1 DEF Begun, Answered
  <2>4. \/ UNCHANGED chan
        \/ \E e \in PayloadsOf({u}) : chan' = Append(chan, e)
    <3>1. [uid |-> u, client |-> NoClient, done |-> TRUE] \in PayloadsOf({u})
      BY <2>2 DEF PayloadsOf, Payload, Names
    <3> QED BY <1>9, <3>1 DEF LuaReq, LspNotify
  <2>5. UNCHANGED <<state, lockq>> /\ rpc # <<>> /\ rpc' = Tail(rpc) BY <1>9 DEF LuaReq
  <2>6. \A v \in Uids : pending'[v] # {} => pending[v] # {} \/ v \in {u}
    BY <1>9 DEF LuaReq, TypeInv, TypeOK
  <2>7. {u} \in SUBSET Begun' BY <2>2, <2>3
  <2>8. OrderInv' BY <1>a, <2>3, <2>4, <2>5, <2>6, <2>7, OrderKept
  <2> QED BY <1>c, <2>5, <2>8
<1>10. CASE LuaPull
  <2> DEFINE u == Head(rpc).uid
  <2>1. Head(rpc) \in CallsOf(Begun) BY <1>10, HeadTailProperties DEF LuaPull
  <2>2. u \in Begun /\ u \in Uids BY <2>1 DEF CallsOf, Begun
  <2>3. Begun' = Begun
    <3>1. pc' = Answered(u, "pulling", "pulled") BY <1>10 DEF LuaPull
    <3> QED BY <1>b, <2>2, <3>1 DEF Begun, Answered
  <2>4. UNCHANGED <<state, lockq, chan, pending>> /\ rpc # <<>> /\ rpc' = Tail(rpc)
    BY <1>10 DEF LuaPull, lua
  <2>5. {u} \in SUBSET Begun' BY <2>2, <2>3
  <2>6. OrderInv' BY <1>a, <2>3, <2>4, <2>5, OrderKept
  <2> QED BY <1>c, <2>4, <2>6
<1>11. ASSUME NEW u \in Uids, NEW c \in Clients, ClientReply(u, c)
       PROVE  OrderInv' /\ Advance
  <2>1. pending[u] # {} /\ u \in Begun BY <1>11 DEF ClientReply
  <2>2. UNCHANGED <<state, pc, rpc, lockq>> /\ Begun' = Begun BY <1>11 DEF ClientReply, Begun
  <2>3. \E e \in PayloadsOf({u}) : chan' = Append(chan, e)
    <3>1. [uid |-> u, client |-> c, done |-> left[u] - 1 = 0] \in PayloadsOf({u})
      BY DEF PayloadsOf, Payload, Names
    <3> QED BY <1>11, <3>1 DEF ClientReply, LspNotify
  <2>4. \A v \in Uids : pending'[v] # {} => pending[v] # {}
    BY <1>11 DEF ClientReply, TypeInv, TypeOK
  <2>5. {u} \in SUBSET Begun' BY <2>1, <2>2
  <2>6. OrderInv' BY <1>a, <2>2, <2>3, <2>4, <2>5, OrderKept
  <2> QED BY <1>c, <2>2, <2>6
<1>12. CASE UNCHANGED vars
  <2>1. UNCHANGED <<state, pc, rpc, lockq, chan, pending>> /\ Begun' = Begun
    BY <1>12 DEF vars, Begun
  <2>2. {} \in SUBSET Begun' OBVIOUS
  <2>3. OrderInv' BY <1>a, <2>1, <2>2, OrderKept
  <2> QED BY <1>c, <2>1, <2>3
<1> QED
  BY <1>1, <1>2, <1>3, <1>4, <1>5, <1>6, <1>7, <1>8, <1>9, <1>10, <1>11, <1>12 DEF Next

(* _STATE[name] never goes back to an older session, however late an answer to
   it comes.                                                                   *)
THEOREM SessionsOnlyAdvance == Spec => SessionsAdvance
<1>1. OrderInv /\ [Next]_vars => [Advance]_state BY OrderStep
<1>2. OrderInv /\ [Next]_vars => OrderInv' BY OrderStep
<1> QED BY <1>1, <1>2, OrderInit, PTL DEF Spec, SessionsAdvance, Advance

-----------------------------------------------------------------------------
(* RequestsSpec.  What waits anywhere has been given by its client; calls reach *)
(* Lua in the order of the sessions; who is in the queue of the lock is there   *)
(* once, and suspended there.                                                   *)

QueueInv ==
  /\ \A i \in 1 .. Len(lockq) : lockq[i] # -1 => pc[lockq[i]] = "locking"
  /\ \A i, j \in 1 .. Len(lockq) : lockq[i] = lockq[j] => i = j \/ lockq[i] = -1

IsReq(q) == q.op = "req"

CallInv ==
  /\ current \in Begun \union {-2}
  /\ \A i \in 1 .. Len(rpc) : IsReq(rpc[i]) => current < rpc[i].uid
  /\ \A i, j \in 1 .. Len(rpc) : IsReq(rpc[i]) /\ IsReq(rpc[j]) /\ i < j => rpc[i].uid < rpc[j].uid
  /\ \A u \in Begun : current < u => \E i \in 1 .. Len(rpc) : IsReq(rpc[i]) /\ rpc[i].uid = u
  /\ \A u \in Uids : pending[u] \subseteq asked[u] /\ (current < u => asked[u] = {})

Given == {r \in Reply : r.client \in AnsweredTo[r.uid]}
GivenPayloads == {p \in Payload : p.client \in AnsweredTo[p.uid]}

\* where a generator has read the list of its session, and will not read _STATE
\* again before its consumer has resumed it
Delivering == {"pulling", "pulled", "yielded"}

GivenInv ==
  /\ state.acc \in Seq(Given)
  /\ \A g \in Uids : held[g].acc \in Seq(Given)
  /\ chan \in Seq(GivenPayloads)
  /\ \A g \in Uids : pc[g] \in Delivering => item[g].reply \in Given

RequestInv == OwnInv /\ OrderInv /\ QueueInv /\ CallInv /\ GivenInv

LEMMA RequestInit == Init => RequestInv /\ Requests!Init
<1> SUFFICES ASSUME Init PROVE RequestInv /\ Requests!Init
  OBVIOUS
<1>1. OwnInv /\ OrderInv BY OwnInit, OrderInit
<1>2. \A S : <<>> \in Seq(S) BY EmptySeq
<1>3. QueueInv /\ CallInv BY DEF Init, QueueInv, CallInv, Begun
<1>4. GivenInv BY <1>2 DEF Init, GivenInv, NoSession, NotHeld, Delivering
<1>5. Requests!Init
  <2>1. Phase = [g \in Uids |-> "idle"] BY DEF Init, Phase
  <2>2. AnsweredTo = [g \in Uids |-> {}] BY DEF Init, AnsweredTo, Uids
  <2>3. Yields = [g \in Uids |-> {}] BY DEF Init, Yields
  <2> QED BY <2>1, <2>2, <2>3 DEF Requests!Init
<1> QED BY <1>1, <1>3, <1>4, <1>5 DEF RequestInv

\* the step of a generator g, from one of its suspension points to the next
Goes(g) ==
  /\ \E p \in Points \ {"idle"} :
       /\ pc' = [pc EXCEPT ![g] = p]
       /\ \/ p # "locking" /\ UNCHANGED lockq
          \/ p = "locking" /\ lockq' = Append(lockq, g)
       /\ p \in Delivering => item'[g].reply \in Given
       /\ \/ UNCHANGED got
          \/ p \notin Ended /\ \E d \in Delivery :
               d.reply \in Given /\ d.reply.uid = g /\ got' = [got EXCEPT ![g] = @ \union {d}]
  /\ state'.acc \in Seq(Given)
  /\ \A h \in Uids : held'[h].acc \in Seq(Given)
  /\ \A h \in Uids \ {g} : item'[h] = item[h]

\* what a generator adds to the calls
Pulls == UNCHANGED rpc \/ \E q \in Call : ~IsReq(q) /\ rpc' = Append(rpc, q)

LEMMA DetachedGiven ==
  ASSUME RequestInv
  PROVE  \A h \in Uids : Detached[h].acc \in Seq(Given)
<1> SUFFICES ASSUME NEW h \in Uids PROVE Detached[h].acc \in Seq(Given)
  OBVIOUS
<1>1. Detached[h].acc = held[h].acc
  BY DEF RequestInv, OwnInv, TypeInv, TypeOK, Held, Detached
<1> QED BY <1>1 DEF RequestInv, GivenInv

LEMMA WaitGoes ==
  ASSUME RequestInv, NEW g \in Uids, NEW ev, Wait(g, ev) \/ AfterWait(g),
         UNCHANGED <<state, held, item, got>>
  PROVE  Goes(g)
<1>1. \E p \in {"superseded", "clearing", "locking", "waiting"} :
        /\ pc' = [pc EXCEPT ![g] = p]
        /\ \/ p # "locking" /\ UNCHANGED lockq
           \/ p = "locking" /\ lockq' = Append(lockq, g)
  BY DEF Wait, AfterWait, Acquire
<1>2. /\ state'.acc \in Seq(Given)
      /\ \A h \in Uids : held'[h].acc \in Seq(Given)
  BY DEF RequestInv, GivenInv
<1> QED BY <1>1, <1>2 DEF Goes, Points, Suspended, Ended, Delivering

LEMMA DeliverGoes ==
  ASSUME RequestInv, NEW g \in Uids, NEW s \in Held, s.acc \in Seq(Given), s.acc \in Seq(ReplyTo(g)),
         Deliver(g, s)
  PROVE  Goes(g) /\ Pulls
<1> DEFINE r == Last(s.acc)
<1>1. r \in Given /\ Front(s.acc) \in Seq(Given) /\ r.uid = g
  <2>1. s.acc # <<>> BY DEF Deliver
  <2>2. r \in Given /\ Front(s.acc) \in Seq(Given) BY <2>1, FrontLast
  <2>3. r \in ReplyTo(g) BY <2>1, FrontLast
  <2> QED BY <2>2, <2>3 DEF ReplyTo
<1>2. TypeOK BY DEF RequestInv, OwnInv, TypeInv
<1>3. state'.acc \in Seq(Given)
  <2>1. Front(state.acc) \in Seq(Given) BY FrontInSeq DEF RequestInv, GivenInv
  <2>2. state.acc \in Seq(Given) BY DEF RequestInv, GivenInv
  <2>3. state' = [state EXCEPT !.acc = Front(@)] \/ state' = state BY DEF Deliver
  <2> QED BY <2>1, <2>2, <2>3, <1>2 DEF TypeOK, Session
<1>4. \A h \in Uids : held'[h].acc \in Seq(Given)
  BY <1>1, <1>2 DEF Deliver, TypeOK, Held, RequestInv, GivenInv
<1>5. item'[g].reply = r /\ \A h \in Uids \ {g} : item'[h] = item[h]
  <2>1. item' = [item EXCEPT ![g] = Fresh(r)] BY DEF Deliver
  <2>2. Fresh(r).reply = r BY DEF Fresh
  <2> HIDE DEF r
  <2> QED BY <2>1, <2>2, <1>2 DEF TypeOK
<1>6. r \in Reply BY <1>1 DEF Given
<1>7. CASE Multipart
  <2>1. /\ pc' = [pc EXCEPT ![g] = "pulling"] /\ UNCHANGED <<lockq, got>>
        /\ rpc' = Append(rpc, [op |-> "pull", uid |-> g, client |-> r.client, k |-> 0])
    BY <1>7 DEF Deliver
  <2>2. [op |-> "pull", uid |-> g, client |-> r.client, k |-> 0] \in Call
    BY <1>6 DEF Call, Reply
  <2>3. Pulls BY <2>1, <2>2 DEF Pulls, IsReq
  <2>4. Goes(g) BY <1>1, <1>3, <1>4, <1>5, <2>1 DEF Goes, Points, Suspended
  <2> QED BY <2>3, <2>4
<1>8. CASE ~Multipart
  <2> DEFINE d == [reply |-> r, from |-> -1]
  <2>1. /\ pc' = [pc EXCEPT ![g] = "yielded"] /\ UNCHANGED <<lockq, rpc>>
        /\ got' = [got EXCEPT ![g] = @ \union {d}]
    BY <1>8 DEF Deliver
  <2>2. d \in Delivery /\ d.reply = r BY <1>6 DEF Delivery
  <2> HIDE DEF d, r
  <2>3. \E e \in Delivery :
          e.reply \in Given /\ e.reply.uid = g /\ got' = [got EXCEPT ![g] = @ \union {e}]
    BY <1>1, <2>1, <2>2
  <2>4. "yielded" \in Points \ {"idle"} /\ "yielded" # "locking" /\ "yielded" \notin Ended
    BY DEF Points, Suspended, Ended
  <2>5. Goes(g) BY <1>1, <1>3, <1>4, <1>5, <2>1, <2>3, <2>4 DEF Goes
  <2> QED BY <2>1, <2>5 DEF Pulls
<1> QED BY <1>7, <1>8

LEMMA DrainedGoes ==
  ASSUME RequestInv, NEW g \in Uids, NEW s, NEW ev, Drained(g, s, ev)
  PROVE  Goes(g) /\ Pulls
<1>1. UNCHANGED <<item, rpc, got>> BY DEF Drained
<1>2. CASE /\ state' = NoSession /\ held' = Detached
           /\ pc' = [pc EXCEPT ![g] = "done"] /\ UNCHANGED lockq
  <2>1. state'.acc \in Seq(Given) BY <1>2, EmptySeq DEF NoSession
  <2> QED BY <1>1, <1>2, <2>1, DetachedGiven DEF Goes, Pulls, Points, Ended, Delivering
<1>3. CASE Wait(g, ev) /\ UNCHANGED <<state, held>>
  BY <1>1, <1>3, WaitGoes DEF Pulls
<1> QED BY <1>2, <1>3 DEF Drained

LEMMA LoopGoes ==
  ASSUME RequestInv, NEW g \in Uids, NEW ev, Loop(g, ev)
  PROVE  Goes(g) /\ Pulls
<1> DEFINE s == [done |-> state.done, acc |-> state.acc, shared |-> TRUE]
<1>1. s \in Held BY DEF RequestInv, OwnInv, TypeInv, TypeOK, Session, Held
<1>2. CASE state.uid = g /\ Deliver(g, s)
  <2>1. s.acc \in Seq(Given) /\ s.acc \in Seq(ReplyTo(g))
    BY <1>2 DEF RequestInv, OwnInv, GivenInv
  <2> QED BY <1>1, <1>2, <2>1, DeliverGoes
<1>3. CASE Drained(g, s, ev) BY <1>3, DrainedGoes
<1>4. CASE Wait(g, ev) /\ UNCHANGED <<state, held, item, rpc, got>>
  BY <1>4, WaitGoes DEF Pulls
<1>5. CASE /\ pc' = [pc EXCEPT ![g] = IF state.uid > g THEN "superseded" ELSE "delayed"]
           /\ UNCHANGED <<state, held, item, rpc, got, lockq>>
  <2>1. \E p \in {"superseded", "delayed"} : pc' = [pc EXCEPT ![g] = p] BY <1>5
  <2>2. /\ state'.acc \in Seq(Given)
        /\ \A h \in Uids : held'[h].acc \in Seq(Given)
    BY <1>5 DEF RequestInv, GivenInv
  <2> QED BY <1>5, <2>1, <2>2 DEF Goes, Pulls, Points, Ended, Delivering
<1> QED BY <1>2, <1>3, <1>4, <1>5 DEF Loop

\* a call of lsp_pull comes or goes
LEMMA CallKept ==
  ASSUME RequestInv, UNCHANGED <<current, pending, asked>>, Begun' = Begun,
         Pulls \/ (rpc # <<>> /\ ~IsReq(Head(rpc)) /\ rpc' = Tail(rpc))
  PROVE  CallInv'
<1> USE DEF RequestInv, CallInv
<1>1. rpc \in Seq(Call) /\ Len(rpc) \in Nat
  BY LenProperties DEF OwnInv, TypeInv, TypeOK
<1>2. CASE UNCHANGED rpc BY <1>2
<1>3. ASSUME NEW q \in Call, ~IsReq(q), rpc' = Append(rpc, q) PROVE CallInv'
  <2>1. /\ Len(rpc') = Len(rpc) + 1 /\ rpc'[Len(rpc) + 1] = q
        /\ \A i \in 1 .. Len(rpc) : rpc'[i] = rpc[i]
    BY <1>1, <1>3, AppendProperties
  <2>2. \A i \in 1 .. Len(rpc') : IsReq(rpc'[i]) => i \in 1 .. Len(rpc)
    BY <1>1, <1>3, <2>1
  <2>3. \A i \in 1 .. Len(rpc) : i \in 1 .. Len(rpc') BY <1>1, <2>1
  <2> QED BY <2>1, <2>2, <2>3
<1>4. CASE rpc # <<>> /\ ~IsReq(Head(rpc)) /\ rpc' = Tail(rpc)
  <2>1. /\ Len(rpc') = Len(rpc) - 1 /\ Len(rpc) # 0 /\ rpc[1] = Head(rpc)
        /\ \A i \in 1 .. Len(rpc) - 1 : rpc'[i] = rpc[i + 1]
    BY <1>1, <1>4, HeadTailProperties, EmptySeq
  <2>2. \A i \in 1 .. Len(rpc') : i + 1 \in 1 .. Len(rpc) /\ rpc'[i] = rpc[i + 1]
    BY <1>1, <2>1
  <2>3. \A u \in Begun : current < u => \E i \in 1 .. Len(rpc') : IsReq(rpc'[i]) /\ rpc'[i].uid = u
    <3> SUFFICES ASSUME NEW u \in Begun, current < u
                 PROVE  \E i \in 1 .. Len(rpc') : IsReq(rpc'[i]) /\ rpc'[i].uid = u
      OBVIOUS
    <3>1. PICK i \in 1 .. Len(rpc) : IsReq(rpc[i]) /\ rpc[i].uid = u OBVIOUS
    <3>2. i # 1 BY <1>4, <2>1, <3>1
    <3>3. i - 1 \in 1 .. Len(rpc') /\ (i - 1) + 1 = i BY <1>1, <2>1, <3>2
    <3> QED BY <2>2, <3>1, <3>3
  <2>4. \A i, j \in 1 .. Len(rpc') : i < j => i + 1 < j + 1 OBVIOUS
  <2> QED BY <2>2, <2>3, <2>4
<1> QED BY <1>2, <1>3, <1>4 DEF Pulls

\* what has been given stays given
LEMMA GivenGrows ==
  ASSUME \A u \in Uids : AnsweredTo[u] \subseteq AnsweredTo'[u]
  PROVE  /\ Given \subseteq Given' /\ GivenPayloads \subseteq GivenPayloads'
         /\ \A s \in Seq(Given) : s \in Seq(Given')
         /\ \A s \in Seq(GivenPayloads) : s \in Seq(GivenPayloads')
<1>1. Given \subseteq Given' /\ GivenPayloads \subseteq GivenPayloads'
  BY DEF Given, GivenPayloads, Reply, Payload
<1> QED BY <1>1, SeqMonotone

LEMMA SameGiven ==
  ASSUME UNCHANGED <<asked, pending, current>>
  PROVE  UNCHANGED AnsweredTo /\ Given' = Given /\ GivenPayloads' = GivenPayloads
<1>1. UNCHANGED AnsweredTo BY DEF AnsweredTo
<1> QED BY <1>1 DEF Given, GivenPayloads

\* what a step does to the queue of the lock
LEMMA QueueAppended ==
  ASSUME RequestInv, NEW g \in Uids, pc[g] # "locking",
         NEW p, pc' = [pc EXCEPT ![g] = p],
         (p # "locking" /\ UNCHANGED lockq) \/ (p = "locking" /\ lockq' = Append(lockq, g))
  PROVE  QueueInv'
<1> USE DEF RequestInv, QueueInv
<1>1. /\ lockq \in Seq(Uids \union {-1}) /\ Len(lockq) \in Nat /\ pc \in [Uids -> Points]
      /\ \A i \in 1 .. Len(lockq) : lockq[i] \in Uids \union {-1}
  BY LenProperties, ElementOfSeq DEF OwnInv, TypeInv, TypeOK
<1>2. \A i \in 1 .. Len(lockq) : lockq[i] # g
  BY DEF Uids
<1>3. \A i \in 1 .. Len(lockq) : lockq[i] # -1 => pc'[lockq[i]] = "locking"
  BY <1>1, <1>2
<1>4. CASE UNCHANGED lockq BY <1>3, <1>4
<1>5. CASE p = "locking" /\ lockq' = Append(lockq, g)
  <2>1. /\ Len(lockq') = Len(lockq) + 1 /\ lockq'[Len(lockq) + 1] = g
        /\ \A i \in 1 .. Len(lockq) : lockq'[i] = lockq[i]
    BY <1>1, <1>5, AppendProperties
  <2>2. \A i \in 1 .. Len(lockq') : i \in 1 .. Len(lockq) \/ i = Len(lockq) + 1
    BY <1>1, <2>1
  <2>3. pc'[g] = "locking" BY <1>1, <1>5
  <2> QED BY <1>2, <1>3, <2>1, <2>2, <2>3
<1> QED BY <1>4, <1>5

Implemented == RequestInv' /\ [Requests!Next]_Requests!vars

LEMMA PhaseOpen ==
  ASSUME TypeOK, NEW g \in Uids, pc[g] \in Suspended
  PROVE  Phase[g] = "open"
BY DEF Phase, Suspended, Ended

\* a generator that goes on: at most one answer is yielded, or it is closed
LEMMA GoesRefines ==
  ASSUME RequestInv, NEW g \in Uids, pc[g] \in Suspended, Goes(g),
         UNCHANGED <<asked, pending, current>>
  PROVE  [Requests!Next]_Requests!vars
<1>1. TypeOK /\ pc \in [Uids -> Points] /\ got \in [Uids -> SUBSET Delivery]
  BY DEF RequestInv, OwnInv, TypeInv, TypeOK
<1>2. UNCHANGED AnsweredTo BY SameGiven
<1>3. PICK p \in Points \ {"idle"} :
        /\ pc' = [pc EXCEPT ![g] = p]
        /\ \/ UNCHANGED got
           \/ p \notin Ended /\ \E d \in Delivery :
                d.reply \in Given /\ d.reply.uid = g /\ got' = [got EXCEPT ![g] = @ \union {d}]
  BY DEF Goes
<1>4. Phase[g] = "open" BY <1>1, PhaseOpen
<1>5. Phase' = IF p \in Ended THEN [Phase EXCEPT ![g] = "closed"] ELSE Phase
  <2>1. \A h \in Uids : pc'[h] = IF h = g THEN p ELSE pc[h] BY <1>1, <1>3
  <2>2. \A h \in Uids : Phase'[h] = IF h = g THEN (IF p \in Ended THEN "closed" ELSE "open") ELSE Phase[h]
    BY <2>1 DEF Phase
  <2>3. DOMAIN Phase' = Uids /\ DOMAIN Phase = Uids BY DEF Phase
  <2>4. Phase' = [h \in Uids |-> Phase'[h]] /\ Phase = [h \in Uids |-> Phase[h]] BY DEF Phase
  <2> QED BY <1>4, <2>2, <2>3, <2>4
<1>6. CASE UNCHANGED got
  <2>1. UNCHANGED Yields BY <1>6 DEF Yields
  <2>2. CASE p \in Ended
    <3>1. Requests!Close(g) BY <1>2, <1>4, <1>5, <2>1, <2>2 DEF Requests!Close
    <3> QED BY <3>1 DEF Requests!Next
  <2>3. CASE p \notin Ended BY <1>2, <1>5, <2>1, <2>3 DEF Requests!vars
  <2> QED BY <2>2, <2>3
<1>7. ASSUME p \notin Ended, NEW d \in Delivery, d.reply \in Given, d.reply.uid = g,
             got' = [got EXCEPT ![g] = @ \union {d}]
      PROVE  [Requests!Next]_Requests!vars
  <2>1. /\ d.reply = [uid |-> g, client |-> d.reply.client]
        /\ d.reply.client \in Names /\ d.reply.client \in AnsweredTo[g]
    BY <1>7 DEF Delivery, Reply, Given
  <2>2. Yields' = [Yields EXCEPT ![g] = @ \union {d.reply}]
    <3>1. \A h \in Uids : got'[h] = IF h = g THEN got[g] \union {d} ELSE got[h] BY <1>1, <1>7
    <3>2. \A h \in Uids : Yields'[h] = IF h = g THEN Yields[g] \union {d.reply} ELSE Yields[h]
      BY <3>1 DEF Yields
    <3>3. Yields' = [h \in Uids |-> Yields'[h]] /\ Yields = [h \in Uids |-> Yields[h]] BY DEF Yields
    <3> QED BY <3>2, <3>3
  <2>3. Requests!Yield(g, d.reply.client)
    BY <1>2, <1>4, <1>5, <1>7, <2>1, <2>2 DEF Requests!Yield
  <2> QED BY <2>1, <2>3 DEF Requests!Next
<1> QED BY <1>3, <1>6, <1>7

LEMMA GoesKept ==
  ASSUME RequestInv, OwnInv', OrderInv', NEW g \in Uids, pc[g] \in Suspended \ {"locking"},
         Goes(g), Pulls, UNCHANGED <<chan, asked, pending, current>>
  PROVE  Implemented
<1>1. pc \in [Uids -> Points] BY DEF RequestInv, OwnInv, TypeInv, TypeOK
<1>2. UNCHANGED AnsweredTo /\ Given' = Given /\ GivenPayloads' = GivenPayloads BY SameGiven
<1>3. PICK p \in Points \ {"idle"} :
        /\ pc' = [pc EXCEPT ![g] = p]
        /\ (p # "locking" /\ UNCHANGED lockq) \/ (p = "locking" /\ lockq' = Append(lockq, g))
        /\ p \in Delivering => item'[g].reply \in Given
  BY DEF Goes
<1>4. QueueInv' BY <1>3, QueueAppended
<1>5. Begun' = Begun BY <1>1, <1>3 DEF Begun, Suspended
<1>6. CallInv' BY <1>5, CallKept
<1>7. GivenInv'
  <2>1. \A h \in Uids : pc'[h] \in Delivering => item'[h].reply \in Given
    <3>1. \A h \in Uids \ {g} : pc'[h] = pc[h] /\ item'[h] = item[h] BY <1>1, <1>3 DEF Goes
    <3>2. pc'[g] = p BY <1>1, <1>3
    <3> QED BY <1>3, <3>1, <3>2 DEF RequestInv, GivenInv
  <2> QED BY <1>2, <2>1 DEF RequestInv, GivenInv, Goes
<1> QED BY <1>4, <1>6, <1>7, GoesRefines DEF Implemented, RequestInv

LEMMA RemoveAtShifts ==
  ASSUME NEW S, NEW s \in Seq(S), NEW i \in 1 .. Len(s)
  PROVE  /\ Len(RemoveAt(s, i)) = Len(s) - 1
         /\ \A k \in 1 .. Len(s) - 1 : RemoveAt(s, i)[k] = IF k < i THEN s[k] ELSE s[k + 1]
<1> DEFINE a == SubSeq(s, 1, i - 1)  b == SubSeq(s, i + 1, Len(s))
<1>0. Len(s) \in Nat /\ \A j \in 1 .. Len(s) : s[j] \in S
  BY LenProperties, ElementOfSeq
<1>1. /\ a \in Seq(S) /\ Len(a) = i - 1
      /\ \A j \in 1 .. i - 1 : a[j] = s[j]
  <2>1. \A j \in 1 .. i - 1 : s[j] \in S BY <1>0
  <2> QED BY <1>0, <2>1, SubSeqProperties
<1>2. /\ b \in Seq(S) /\ Len(b) = Len(s) - i
      /\ \A j \in 1 .. Len(s) - i : b[j] = s[i + j]
  <2>1. \A j \in i + 1 .. Len(s) : s[j] \in S BY <1>0
  <2> QED BY <1>0, <2>1, SubSeqProperties
<1>3. RemoveAt(s, i) = a \o b BY DEF RemoveAt
<1> HIDE DEF a, b
<1>4. /\ Len(a \o b) = Len(a) + Len(b)
      /\ \A k \in 1 .. Len(a) + Len(b) : (a \o b)[k] = IF k <= Len(a) THEN a[k] ELSE b[k - Len(a)]
  BY <1>1, <1>2, ConcatProperties, Zenon
<1>5. Len(a) + Len(b) = Len(s) - 1 BY <1>0, <1>1, <1>2
<1>6. ASSUME NEW k \in 1 .. Len(s) - 1 PROVE (a \o b)[k] = IF k < i THEN s[k] ELSE s[k + 1]
  <2>1. CASE k < i
    <3>1. k \in 1 .. Len(a) + Len(b) /\ k <= Len(a) /\ k \in 1 .. i - 1 BY <1>0, <1>1, <1>5, <2>1
    <3> QED BY <1>1, <1>4, <2>1, <3>1
  <2>2. CASE ~(k < i)
    <3>1. k \in 1 .. Len(a) + Len(b) /\ ~(k <= Len(a)) /\ k - (i - 1) \in 1 .. Len(s) - i
      BY <1>0, <1>1, <1>5, <2>2
    <3>2. (a \o b)[k] = b[k - Len(a)] BY <1>4, <3>1
    <3>3. k - Len(a) = k - (i - 1) /\ i + (k - (i - 1)) = k + 1 BY <1>0, <1>1
    <3> QED BY <1>2, <2>2, <3>1, <3>2, <3>3
  <2> QED BY <2>1, <2>2
<1> QED BY <1>3, <1>4, <1>5, <1>6

LEMMA CancelKept ==
  ASSUME RequestInv, OwnInv', OrderInv', NEW g \in Uids, Cancel(g)
  PROVE  Implemented
<1> USE DEF RequestInv
<1>1. /\ pc \in [Uids -> Points] /\ lockq \in Seq(Uids \union {-1}) /\ Len(lockq) \in Nat
      /\ pc[g] \in Suspended /\ pc' = [pc EXCEPT ![g] = "cancelled"]
      /\ UNCHANGED <<state, held, item, rpc, chan, asked, pending, current, got>>
  BY LenProperties DEF OwnInv, TypeInv, TypeOK, Cancel, lua
<1>2. UNCHANGED AnsweredTo /\ Given' = Given /\ GivenPayloads' = GivenPayloads
  BY <1>1, SameGiven
<1>3. QueueInv'
  <2>1. CASE (\A i \in 1 .. Len(lockq) : lockq[i] # g) /\ UNCHANGED lockq
    BY <1>1, <2>1 DEF QueueInv
  <2>2. ASSUME NEW i \in 1 .. Len(lockq), lockq[i] = g, lockq' = RemoveAt(lockq, i)
        PROVE  QueueInv'
    <3>1. /\ Len(lockq') = Len(lockq) - 1
          /\ \A k \in 1 .. Len(lockq) - 1 : lockq'[k] = IF k < i THEN lockq[k] ELSE lockq[k + 1]
      BY <1>1, <2>2, RemoveAtShifts
    <3> DEFINE at(k) == IF k < i THEN k ELSE k + 1
    <3>2. \A k \in 1 .. Len(lockq') : at(k) \in 1 .. Len(lockq) /\ at(k) # i /\ lockq'[k] = lockq[at(k)]
      BY <1>1, <3>1
    <3>3. \A j, k \in 1 .. Len(lockq') : at(j) = at(k) => j = k
      BY <1>1, <3>1
    <3> HIDE DEF at
    <3>4. \A k \in 1 .. Len(lockq') : lockq'[k] # g
      <4>1. g # -1 BY DEF Uids
      <4> QED BY <2>2, <3>2, <4>1 DEF QueueInv
    <3>5. \A k \in 1 .. Len(lockq') : lockq'[k] # -1 => pc'[lockq'[k]] = "locking"
      <4>1. \A k \in 1 .. Len(lockq) : lockq[k] \in Uids \union {-1} BY <1>1, ElementOfSeq
      <4> QED BY <1>1, <3>2, <3>4, <4>1 DEF QueueInv
    <3> QED BY <3>2, <3>3, <3>5 DEF QueueInv
  <2> QED BY <2>1, <2>2 DEF Cancel
<1>4. Begun' = Begun BY <1>1 DEF Begun, Suspended
<1>5. CallInv' BY <1>1, <1>4, CallKept DEF Pulls
<1>6. GivenInv' BY <1>1, <1>2 DEF GivenInv, Delivering
<1>7. [Requests!Next]_Requests!vars
  <2>1. Phase[g] = "open" BY <1>1, PhaseOpen DEF OwnInv, TypeInv
  <2>2. Phase' = [Phase EXCEPT ![g] = "closed"]
    <3>1. \A h \in Uids : Phase'[h] = IF h = g THEN "closed" ELSE Phase[h]
      BY <1>1 DEF Phase, Ended
    <3>2. Phase' = [h \in Uids |-> Phase'[h]] /\ Phase = [h \in Uids |-> Phase[h]] BY DEF Phase
    <3> QED BY <3>1, <3>2
  <2>3. UNCHANGED Yields BY <1>1 DEF Yields
  <2>4. Requests!Close(g) BY <1>2, <2>1, <2>2, <2>3 DEF Requests!Close
  <2> QED BY <2>4 DEF Requests!Next
<1> QED BY <1>3, <1>5, <1>6, <1>7 DEF Implemented

\* a step of nobody's own: those who slept may be woken, and the queue may get shorter
LEMMA WakeKept ==
  ASSUME RequestInv, pc' = pc \/ pc' = Wake(pc), UNCHANGED <<asked, pending, current, got>>
  PROVE  /\ Begun' = Begun /\ UNCHANGED <<Phase, AnsweredTo, Yields>>
         /\ \A g \in Uids : pc[g] = "locking" => pc'[g] = "locking"
         /\ \A g \in Uids : pc'[g] \in Delivering => pc[g] \in Delivering
<1>1. pc \in [Uids -> Points] BY DEF RequestInv, OwnInv, TypeInv, TypeOK
<1>2. \A g \in Uids : pc'[g] = pc[g] \/ (pc[g] = "waiting" /\ pc'[g] = "woken")
  BY <1>1 DEF Wake
<1>3. Begun' = Begun BY <1>2 DEF Begun
<1>4. UNCHANGED Phase
  <2>1. \A g \in Uids : Phase'[g] = Phase[g] BY <1>2 DEF Phase, Ended
  <2>2. Phase' = [h \in Uids |-> Phase'[h]] /\ Phase = [h \in Uids |-> Phase[h]] BY DEF Phase
  <2> QED BY <2>1, <2>2
<1>5. UNCHANGED <<AnsweredTo, Yields>> BY SameGiven DEF Yields
<1> QED BY <1>2, <1>3, <1>4, <1>5 DEF Delivering

LEMMA StartIsNewest ==
  ASSUME RequestInv, NEW g \in Uids, Start(g)
  PROVE  (\A u \in Begun : u \in Uids /\ u < g) /\ current < g
<1>1. \A u \in Begun : u \in Uids /\ u < g
  <2> SUFFICES ASSUME NEW u \in Begun PROVE u \in Uids /\ u < g OBVIOUS
  <2>1. g \notin Begun BY DEF Start, Begun
  <2>2. u \in Uids /\ u # g BY <2>1 DEF Begun
  <2>3. ~(g < u) BY <2>1 DEF RequestInv, OrderInv
  <2> QED BY <2>2, <2>3 DEF Uids
<1>2. current \in Begun \union {-2} BY DEF RequestInv, CallInv
<1> QED BY <1>1, <1>2 DEF Uids

LEMMA StartKept ==
  ASSUME RequestInv, OwnInv', OrderInv', NEW g \in Uids, Start(g)
  PROVE  Implemented
<1> USE DEF RequestInv
<1> DEFINE q == [op |-> "req", uid |-> g, client |-> NoClient, k |-> 0]
<1>1. /\ pc \in [Uids -> Points] /\ rpc \in Seq(Call) /\ Len(rpc) \in Nat
      /\ pc[g] = "idle" /\ (\A h \in Uids : h < g => pc[h] # "idle")
      /\ pc' = [Wake(pc) EXCEPT ![g] = "calling"]
      /\ rpc' = Append(rpc, q) /\ state'.acc = <<>> /\ held' = Detached
      /\ UNCHANGED <<item, lockq, chan, asked, pending, current, got>>
  BY LenProperties DEF OwnInv, TypeInv, TypeOK, Start, lua
<1>2. UNCHANGED <<AnsweredTo, Yields>> /\ Given' = Given /\ GivenPayloads' = GivenPayloads
  BY <1>1, SameGiven DEF Yields
<1>3. \A h \in Uids : pc'[h] = IF h = g THEN "calling" ELSE IF pc[h] = "waiting" THEN "woken" ELSE pc[h]
  BY <1>1 DEF Wake
<1>4. Begun' = Begun \union {g} /\ g \notin Begun BY <1>1, <1>3 DEF Begun
<1>5. QueueInv'
  <2>1. lockq \in Seq(Uids \union {-1}) BY DEF OwnInv, TypeInv, TypeOK
  <2>2. \A i \in 1 .. Len(lockq) : lockq[i] \in Uids \union {-1} BY <2>1, ElementOfSeq
  <2> QED BY <1>1, <1>3, <2>2 DEF QueueInv
<1>6. CallInv'
  <2> USE DEF CallInv
  <2>1. q \in Call BY DEF Call, Names
  <2>2. /\ Len(rpc') = Len(rpc) + 1 /\ rpc'[Len(rpc) + 1] = q
        /\ \A i \in 1 .. Len(rpc) : rpc'[i] = rpc[i]
    BY <1>1, <2>1, AppendProperties
  <2>3. IsReq(q) /\ q.uid = g BY DEF IsReq
  <2> HIDE DEF q
  <2>4. \A u \in Begun : u \in Uids /\ u < g BY StartIsNewest
  <2>5. current < g BY StartIsNewest
  <2>6. \A i \in 1 .. Len(rpc) : rpc[i].uid < g
    BY <2>4, ElementOfSeq DEF OrderInv, CallsOf
  <2>7. \A i \in 1 .. Len(rpc') : i \in 1 .. Len(rpc) \/ (i = Len(rpc) + 1 /\ rpc'[i] = q)
    BY <1>1, <2>2
  <2>8. \A i \in 1 .. Len(rpc) : i \in 1 .. Len(rpc') /\ i < Len(rpc) + 1 BY <1>1, <2>2
  <2>9. \A i \in 1 .. Len(rpc') : IsReq(rpc'[i]) => current' < rpc'[i].uid
    BY <1>1, <2>2, <2>3, <2>5, <2>7
  <2>10. \A i, j \in 1 .. Len(rpc') : IsReq(rpc'[i]) /\ IsReq(rpc'[j]) /\ i < j => rpc'[i].uid < rpc'[j].uid
    <3> SUFFICES ASSUME NEW i \in 1 .. Len(rpc'), NEW j \in 1 .. Len(rpc'),
                        IsReq(rpc'[i]), IsReq(rpc'[j]), i < j
                 PROVE  rpc'[i].uid < rpc'[j].uid
      OBVIOUS
    <3>1. i \in 1 .. Len(rpc) BY <1>1, <2>2
    <3>2. CASE j \in 1 .. Len(rpc) BY <2>2, <3>1, <3>2
    <3>3. CASE rpc'[j] = q BY <2>2, <2>3, <2>6, <3>1, <3>3
    <3> QED BY <2>7, <3>2, <3>3
  <2>11. \A u \in Begun' : current' < u => \E i \in 1 .. Len(rpc') : IsReq(rpc'[i]) /\ rpc'[i].uid = u
    <3>1. Len(rpc) + 1 \in 1 .. Len(rpc') BY <1>1, <2>2
    <3>2. \A u \in Begun : current < u => \E i \in 1 .. Len(rpc') : IsReq(rpc'[i]) /\ rpc'[i].uid = u
      BY <2>2, <2>8
    <3> QED BY <1>1, <1>4, <2>2, <2>3, <3>1, <3>2
  <2> QED BY <1>1, <1>4, <2>9, <2>10, <2>11
<1>7. GivenInv'
  <2>1. \A h \in Uids : pc'[h] \in Delivering => pc[h] \in Delivering BY <1>3 DEF Delivering
  <2>2. <<>> \in Seq(Given) BY EmptySeq
  <2> QED BY <1>1, <1>2, <2>1, <2>2, DetachedGiven DEF GivenInv
<1>8. [Requests!Next]_Requests!vars
  <2>1. /\ Phase[g] = "idle" /\ \A h \in Uids : h < g => Phase[h] # "idle"
    BY <1>1 DEF Phase
  <2>2. Phase' = [Phase EXCEPT ![g] = "open"]
    <3>1. \A h \in Uids : Phase'[h] = IF h = g THEN "open" ELSE Phase[h]
      BY <1>3 DEF Phase, Ended
    <3>2. Phase' = [h \in Uids |-> Phase'[h]] /\ Phase = [h \in Uids |-> Phase[h]] BY DEF Phase
    <3> QED BY <3>1, <3>2
  <2>3. Requests!Open(g) BY <1>2, <2>1, <2>2 DEF Requests!Open
  <2> QED BY <2>3 DEF Requests!Next
<1> QED BY <1>5, <1>6, <1>7, <1>8 DEF Implemented

LEMMA NotifiedKept ==
  ASSUME RequestInv, OwnInv', OrderInv', Notified
  PROVE  Implemented
<1> USE DEF RequestInv
<1> DEFINE p == Head(chan)
<1>1. /\ chan # <<>> /\ chan' = Tail(chan) /\ (pc' = pc \/ pc' = Wake(pc))
      /\ UNCHANGED <<item, rpc, asked, pending, current, got>>
      /\ UNCHANGED lockq \/ lockq' = Append(lockq, -1)
      /\ \/ UNCHANGED <<state, held>>
         \/ state' = Renewed(p) /\ held' = Detached
  BY DEF Notified, lua
<1>2. /\ Begun' = Begun /\ UNCHANGED <<Phase, AnsweredTo, Yields>>
      /\ \A g \in Uids : pc[g] = "locking" => pc'[g] = "locking"
      /\ \A g \in Uids : pc'[g] \in Delivering => pc[g] \in Delivering
  BY <1>1, WakeKept
<1>3. Given' = Given /\ GivenPayloads' = GivenPayloads BY <1>1, SameGiven
<1>4. QueueInv'
  <2>1. /\ lockq \in Seq(Uids \union {-1}) /\ Len(lockq) \in Nat
        /\ \A i \in 1 .. Len(lockq) : lockq[i] \in Uids \union {-1}
    BY LenProperties, ElementOfSeq DEF OwnInv, TypeInv, TypeOK
  <2>2. CASE UNCHANGED lockq BY <1>2, <2>1, <2>2 DEF QueueInv
  <2>3. CASE lockq' = Append(lockq, -1)
    <3>1. /\ Len(lockq') = Len(lockq) + 1 /\ lockq'[Len(lockq) + 1] = -1
          /\ \A i \in 1 .. Len(lockq) : lockq'[i] = lockq[i]
      BY <2>1, <2>3, AppendProperties
    <3>2. \A i \in 1 .. Len(lockq') : i \in 1 .. Len(lockq) \/ i = Len(lockq) + 1
      BY <2>1, <3>1
    <3> QED BY <1>2, <2>1, <3>1, <3>2 DEF QueueInv
  <2> QED BY <1>1, <2>2, <2>3
<1>5. CallInv' BY <1>1, <1>2, CallKept DEF Pulls
<1>6. GivenInv'
  <2>1. p \in GivenPayloads /\ chan' \in Seq(GivenPayloads)
    BY <1>1, HeadTailProperties DEF GivenInv
  <2>2. CASE UNCHANGED <<state, held>> BY <1>1, <1>2, <1>3, <2>1, <2>2 DEF GivenInv
  <2>3. CASE state' = Renewed(p) /\ held' = Detached
    <3> DEFINE r == [uid |-> p.uid, client |-> p.client]
               old == IF state.uid = p.uid THEN state.acc ELSE <<>>
    <3>1. r \in Given BY <2>1 DEF Given, GivenPayloads, Payload, Reply
    <3>2. old \in Seq(Given) BY EmptySeq DEF GivenInv
    <3>3. Renewed(p).acc = Append(old, r) BY DEF Renewed
    <3> HIDE DEF r, old
    <3>4. state'.acc \in Seq(Given) BY <2>3, <3>1, <3>2, <3>3, AppendProperties
    <3> QED BY <1>1, <1>2, <1>3, <2>1, <2>3, <3>4, DetachedGiven DEF GivenInv
  <2> QED BY <1>1, <2>2, <2>3
<1> QED BY <1>2, <1>4, <1>5, <1>6 DEF Implemented, Requests!vars

LEMMA GrantedKept ==
  ASSUME RequestInv, OwnInv', OrderInv', Granted
  PROVE  Implemented
<1> USE DEF RequestInv
<1>1. /\ lockq # <<>> /\ lockq' = Tail(lockq)
      /\ UNCHANGED <<state, held, item, rpc, chan, asked, pending, current, got>>
  BY DEF Granted, lua
<1>2. /\ lockq \in Seq(Uids \union {-1}) /\ Len(lockq) \in Nat /\ pc \in [Uids -> Points]
      /\ \A i \in 1 .. Len(lockq) : lockq[i] \in Uids \union {-1}
  BY LenProperties, ElementOfSeq DEF OwnInv, TypeInv, TypeOK
<1>3. /\ Len(lockq') = Len(lockq) - 1 /\ lockq[1] = Head(lockq) /\ 1 \in 1 .. Len(lockq)
      /\ \A i \in 1 .. Len(lockq) - 1 : lockq'[i] = lockq[i + 1]
  BY <1>1, <1>2, HeadTailProperties, EmptySeq
<1>4. \A i \in 1 .. Len(lockq') : i + 1 \in 1 .. Len(lockq) /\ i + 1 # 1 /\ lockq'[i] = lockq[i + 1]
  BY <1>2, <1>3
<1>5. Given' = Given /\ GivenPayloads' = GivenPayloads /\ UNCHANGED <<AnsweredTo, Yields>>
  BY <1>1, SameGiven DEF Yields
<1>6. /\ Begun' = Begun /\ UNCHANGED Phase
      /\ \A i \in 1 .. Len(lockq) : i # 1 /\ lockq[i] # -1 => pc'[lockq[i]] = "locking"
      /\ \A g \in Uids : pc'[g] \in Delivering => pc[g] \in Delivering
  <2>1. CASE pc' = Wake(pc)
    BY <1>1, <1>2, <2>1, WakeKept DEF QueueInv
  <2>2. CASE Head(lockq) # -1 /\ pc' = [pc EXCEPT ![Head(lockq)] = "clearing"]
    <3> DEFINE g == Head(lockq)
    <3>1. g \in Uids /\ pc[g] = "locking" BY <1>2, <1>3, <2>2 DEF QueueInv
    <3>2. \A h \in Uids : pc'[h] = IF h = g THEN "clearing" ELSE pc[h] BY <1>2, <2>2
    <3>3. \A i \in 1 .. Len(lockq) : i # 1 /\ lockq[i] # -1 => lockq[i] # g
      BY <1>3, <2>2 DEF QueueInv
    <3> HIDE DEF g
    <3>4. Begun' = Begun BY <3>1, <3>2 DEF Begun
    <3>5. UNCHANGED Phase
      <4>1. \A h \in Uids : Phase'[h] = Phase[h] BY <3>1, <3>2 DEF Phase, Ended
      <4>2. Phase' = [h \in Uids |-> Phase'[h]] /\ Phase = [h \in Uids |-> Phase[h]] BY DEF Phase
      <4> QED BY <4>1, <4>2
    <3>6. \A i \in 1 .. Len(lockq) : i # 1 /\ lockq[i] # -1 => pc'[lockq[i]] = "locking"
      BY <1>2, <3>2, <3>3 DEF QueueInv
    <3> QED BY <3>1, <3>2, <3>4, <3>5, <3>6 DEF Delivering
  <2> QED BY <2>1, <2>2 DEF Granted
<1>7. QueueInv'
  <2>1. \A i, j \in 1 .. Len(lockq') : i + 1 = j + 1 => i = j BY <1>2, <1>3
  <2> QED BY <1>4, <1>6, <2>1 DEF QueueInv
<1>8. CallInv' BY <1>1, <1>6, CallKept DEF Pulls
<1>9. GivenInv' BY <1>1, <1>5, <1>6 DEF GivenInv
<1> QED BY <1>5, <1>6, <1>7, <1>8, <1>9 DEF Implemented, Requests!vars

LEMMA LuaPullKept ==
  ASSUME RequestInv, OwnInv', OrderInv', LuaPull
  PROVE  Implemented
<1> USE DEF RequestInv
<1> DEFINE g == Head(rpc).uid
<1>1. /\ rpc # <<>> /\ ~IsReq(Head(rpc)) /\ rpc' = Tail(rpc)
      /\ pc' = Answered(g, "pulling", "pulled")
      /\ UNCHANGED <<state, held, lockq, chan, asked, pending, current, got>>
  BY DEF LuaPull, lua, IsReq
<1>2. g \in Uids /\ pc \in [Uids -> Points]
  <2>1. Head(rpc) \in Call BY <1>1, HeadTailProperties DEF OwnInv, TypeInv, TypeOK
  <2> QED BY <2>1 DEF Call, OwnInv, TypeInv, TypeOK
<1>3. Given' = Given /\ GivenPayloads' = GivenPayloads /\ UNCHANGED <<AnsweredTo, Yields>>
  BY <1>1, SameGiven DEF Yields
<1>4. \A h \in Uids : pc'[h] = IF h = g /\ pc[h] = "pulling" THEN "pulled" ELSE pc[h]
  BY <1>1, <1>2 DEF Answered
<1> HIDE DEF g
<1>5. Begun' = Begun BY <1>4 DEF Begun
<1>6. UNCHANGED Phase
  <2>1. \A h \in Uids : Phase'[h] = Phase[h] BY <1>4 DEF Phase, Ended
  <2>2. Phase' = [h \in Uids |-> Phase'[h]] /\ Phase = [h \in Uids |-> Phase[h]] BY DEF Phase
  <2> QED BY <2>1, <2>2
<1>7. QueueInv'
  <2>1. \A i \in 1 .. Len(lockq) : lockq[i] \in Uids \union {-1}
    BY ElementOfSeq DEF OwnInv, TypeInv, TypeOK
  <2> QED BY <1>1, <1>4, <2>1 DEF QueueInv
<1>8. CallInv' BY <1>1, <1>5, CallKept
<1>9. GivenInv'
  <2>1. \A h \in Uids : item'[h].reply = item[h].reply BY SameReplies DEF OwnInv
  <2>2. \A h \in Uids : pc'[h] \in Delivering => pc[h] \in Delivering BY <1>4 DEF Delivering
  <2> QED BY <1>1, <1>3, <2>1, <2>2 DEF GivenInv
<1> QED BY <1>3, <1>6, <1>7, <1>8, <1>9 DEF Implemented, Requests!vars

LEMMA ClientReplyKept ==
  ASSUME RequestInv, OwnInv', OrderInv', NEW u \in Uids, NEW c \in Clients, ClientReply(u, c)
  PROVE  Implemented
<1> USE DEF RequestInv
<1> DEFINE p == [uid |-> u, client |-> c, done |-> left[u] - 1 = 0]
<1>1. /\ c \in pending[u] /\ pending' = [pending EXCEPT ![u] = @ \ {c}]
      /\ chan' = Append(chan, p)
      /\ UNCHANGED <<state, pc, held, item, lockq, rpc, current, got, asked>>
  BY DEF ClientReply, LspNotify
<1>2. /\ pending \in [Uids -> SUBSET Clients] /\ asked \in [Uids -> SUBSET Clients]
      /\ pending[u] \subseteq asked[u]
  BY DEF OwnInv, TypeInv, TypeOK, CallInv
<1>3. AnsweredTo' = [AnsweredTo EXCEPT ![u] = @ \union {c}]
  <2>1. \A w \in Uids : AnsweredTo'[w] = IF w = u THEN AnsweredTo[u] \union {c} ELSE AnsweredTo[w]
    BY <1>1, <1>2 DEF AnsweredTo
  <2>2. AnsweredTo' = [w \in Uids |-> AnsweredTo'[w]] /\ AnsweredTo = [w \in Uids |-> AnsweredTo[w]]
    BY DEF AnsweredTo
  <2> QED BY <2>1, <2>2
<1>4. UNCHANGED <<Phase, Yields>> /\ Begun' = Begun BY <1>1 DEF Phase, Yields, Begun
<1>5. /\ Given \subseteq Given' /\ GivenPayloads \subseteq GivenPayloads'
      /\ \A s \in Seq(Given) : s \in Seq(Given')
      /\ \A s \in Seq(GivenPayloads) : s \in Seq(GivenPayloads')
  <2>1. \A w \in Uids : AnsweredTo[w] \subseteq AnsweredTo'[w]
    <3>1. \A w \in Uids : AnsweredTo'[w] = IF w = u THEN AnsweredTo[u] \union {c} ELSE AnsweredTo[w]
      BY <1>3 DEF AnsweredTo
    <3> QED BY <3>1
  <2> QED BY <2>1, GivenGrows
<1>6. QueueInv' BY <1>1 DEF QueueInv
<1>7. CallInv'
  <2>1. \A w \in Uids : pending'[w] \subseteq pending[w] BY <1>1, <1>2
  <2> QED BY <1>1, <1>4, <2>1 DEF CallInv
<1>8. GivenInv'
  <2>1. p \in GivenPayloads'
    <3>1. c \in AnsweredTo'[u] BY <1>3 DEF AnsweredTo
    <3>2. p \in Payload BY DEF Payload, Names
    <3> QED BY <3>1, <3>2 DEF GivenPayloads
  <2> HIDE DEF p
  <2>2. chan' \in Seq(GivenPayloads')
    BY <1>1, <1>5, <2>1, AppendProperties DEF GivenInv
  <2> QED BY <1>1, <1>5, <2>2 DEF GivenInv
<1>9. [Requests!Next]_Requests!vars
  <2>1. u \in Begun
    BY <1>1 DEF OrderInv
  <2>2. Phase[u] # "idle" BY <2>1 DEF Begun, Phase
  <2>3. Requests!Answer(u, c) BY <1>3, <1>4, <2>2 DEF Requests!Answer
  <2> QED BY <2>3 DEF Requests!Next, Names
<1> QED BY <1>6, <1>7, <1>8, <1>9 DEF Implemented

LEMMA LuaReqKept ==
  ASSUME RequestInv, OwnInv', OrderInv', LuaReq
  PROVE  Implemented
<1> USE DEF RequestInv
<1> DEFINE u == Head(rpc).uid
<1>1. /\ rpc # <<>> /\ IsReq(Head(rpc)) /\ rpc' = Tail(rpc) /\ current' = u
      /\ pc' = Answered(u, "calling", "called")
      /\ UNCHANGED <<state, held, item, lockq, got>>
  BY DEF LuaReq, IsReq
<1>2. PICK C \in AskedSets :
        /\ asked' = [asked EXCEPT ![u] = C]
        /\ pending' = [pending EXCEPT ![u] = C]
        /\ IF C = {} THEN LspNotify(u, NoClient, TRUE, FALSE, 0) ELSE UNCHANGED chan
  BY DEF LuaReq
<1>3. /\ rpc \in Seq(Call) /\ Len(rpc) \in Nat /\ pc \in [Uids -> Points]
      /\ pending \in [Uids -> SUBSET Clients] /\ asked \in [Uids -> SUBSET Clients]
  BY LenProperties DEF OwnInv, TypeInv, TypeOK
<1>4. /\ Len(rpc') = Len(rpc) - 1 /\ rpc[1] = Head(rpc) /\ 1 \in 1 .. Len(rpc)
      /\ \A i \in 1 .. Len(rpc) - 1 : rpc'[i] = rpc[i + 1]
  BY <1>1, <1>3, HeadTailProperties, EmptySeq
<1>5. Head(rpc) \in CallsOf(Begun) BY <1>1, HeadTailProperties DEF OrderInv
<1>6. u \in Uids /\ u \in Begun /\ pc[u] # "idle" BY <1>5 DEF CallsOf, Begun
<1>7. current < u BY <1>1, <1>4 DEF CallInv
<1>8. \A i \in 1 .. Len(rpc') : i + 1 \in 1 .. Len(rpc) /\ i + 1 > 1 /\ rpc'[i] = rpc[i + 1]
  BY <1>3, <1>4
<1>9. \A i \in 1 .. Len(rpc) : i # 1 /\ IsReq(rpc[i]) => u < rpc[i].uid
  BY <1>1, <1>4 DEF CallInv
<1> HIDE DEF u
<1>10. current \in Int /\ \A w \in Uids : w \in Int BY DEF OwnInv, TypeInv, TypeOK, Uids
<1>11. \A h \in Uids : pc'[h] = IF h = u /\ pc[h] = "calling" THEN "called" ELSE pc[h]
  BY <1>1, <1>3, <1>6 DEF Answered
<1>12. Begun' = Begun BY <1>11 DEF Begun
<1>13. UNCHANGED <<Phase, Yields>>
  <2>1. \A h \in Uids : Phase'[h] = Phase[h] BY <1>11 DEF Phase, Ended
  <2>2. Phase' = [h \in Uids |-> Phase'[h]] /\ Phase = [h \in Uids |-> Phase[h]] BY DEF Phase
  <2> QED BY <1>1, <2>1, <2>2 DEF Yields
\* every session before this one has been asked for
<1>14. \A w \in Uids : current < w /\ w < u => FALSE
  <2> SUFFICES ASSUME NEW w \in Uids, current < w, w < u PROVE FALSE
    OBVIOUS
  <2>1. w \in Begun BY <1>6 DEF OrderInv
  <2>2. PICK i \in 1 .. Len(rpc) : IsReq(rpc[i]) /\ rpc[i].uid = w BY <2>1 DEF CallInv
  <2>3. i = 1 BY <1>9, <1>10, <1>6, <2>2
  <2> QED BY <1>4, <1>10, <1>6, <2>2, <2>3 DEF u
<1>15. asked[u] = {} /\ pending[u] = {} BY <1>6, <1>7 DEF CallInv
<1>16. AnsweredTo' = [AnsweredTo EXCEPT ![u] = @ \union IF C = {} THEN {NoClient} ELSE {}]
  <2>1. \A w \in Uids : w # u => asked'[w] = asked[w] /\ pending'[w] = pending[w] BY <1>2, <1>3
  <2>2. asked'[u] = C /\ pending'[u] = C BY <1>2, <1>3, <1>6
  <2>3. \A w \in Uids : w # u => (w <= current' <=> w <= current)
    BY <1>1, <1>6, <1>7, <1>10, <1>14
  <2>4. AnsweredTo[u] = {} BY <1>6, <1>7, <1>10, <1>15 DEF AnsweredTo
  <2>5. AnsweredTo'[u] = IF C = {} THEN {NoClient} ELSE {}
    <3>1. u <= current' BY <1>1, <1>6, <1>10
    <3> QED BY <1>6, <2>2, <3>1 DEF AnsweredTo
  <2>6. \A w \in Uids : w # u => AnsweredTo'[w] = AnsweredTo[w] BY <2>1, <2>3 DEF AnsweredTo
  <2>7. AnsweredTo' = [w \in Uids |-> AnsweredTo'[w]] /\ AnsweredTo = [w \in Uids |-> AnsweredTo[w]]
    BY DEF AnsweredTo
  <2> QED BY <1>6, <2>4, <2>5, <2>6, <2>7
<1>17. \A w \in Uids : AnsweredTo[w] \subseteq AnsweredTo'[w]
  <2>1. \A w \in Uids : AnsweredTo'[w] = IF w = u THEN AnsweredTo[u] \union IF C = {} THEN {NoClient} ELSE {}
                                         ELSE AnsweredTo[w]
    BY <1>16 DEF AnsweredTo
  <2> QED BY <2>1
<1>18. /\ Given \subseteq Given' /\ GivenPayloads \subseteq GivenPayloads'
       /\ \A s \in Seq(Given) : s \in Seq(Given')
       /\ \A s \in Seq(GivenPayloads) : s \in Seq(GivenPayloads')
  BY <1>17, GivenGrows
<1>19. QueueInv'
  <2>1. \A i \in 1 .. Len(lockq) : lockq[i] \in Uids \union {-1}
    BY ElementOfSeq DEF OwnInv, TypeInv, TypeOK
  <2> QED BY <1>1, <1>11, <2>1 DEF QueueInv
<1>20. CallInv'
  <2>1. \A i \in 1 .. Len(rpc') : IsReq(rpc'[i]) => current' < rpc'[i].uid
    BY <1>1, <1>8, <1>9
  <2>2. \A i, j \in 1 .. Len(rpc') : IsReq(rpc'[i]) /\ IsReq(rpc'[j]) /\ i < j => rpc'[i].uid < rpc'[j].uid
    <3>1. \A i, j \in 1 .. Len(rpc') : i < j => i + 1 < j + 1 OBVIOUS
    <3> QED BY <1>8, <3>1 DEF CallInv
  <2>3. \A w \in Begun' : current' < w => \E i \in 1 .. Len(rpc') : IsReq(rpc'[i]) /\ rpc'[i].uid = w
    <3> SUFFICES ASSUME NEW w \in Begun, u < w
                 PROVE  \E i \in 1 .. Len(rpc') : IsReq(rpc'[i]) /\ rpc'[i].uid = w
      BY <1>1, <1>12
    <3>1. w \in Uids BY DEF Begun
    <3>2. current < w BY <1>6, <1>7, <1>10, <3>1
    <3>3. PICK i \in 1 .. Len(rpc) : IsReq(rpc[i]) /\ rpc[i].uid = w BY <3>2 DEF CallInv
    <3>4. i # 1 BY <1>4, <1>10, <1>6, <3>3 DEF u
    <3>5. i - 1 \in 1 .. Len(rpc') /\ (i - 1) + 1 = i BY <1>3, <1>4, <3>4
    <3> QED BY <1>8, <3>3, <3>5
  <2>4. \A w \in Uids : pending'[w] \subseteq asked'[w] /\ (current' < w => asked'[w] = {})
    <3> SUFFICES ASSUME NEW w \in Uids PROVE pending'[w] \subseteq asked'[w] /\ (current' < w => asked'[w] = {})
      OBVIOUS
    <3>1. CASE w = u BY <1>1, <1>2, <1>3, <1>10, <3>1
    <3>2. CASE w # u
      <4>1. asked'[w] = asked[w] /\ pending'[w] = pending[w] BY <1>2, <1>3, <3>2
      <4>2. current' < w => current < w BY <1>1, <1>6, <1>7, <1>10
      <4> QED BY <4>1, <4>2 DEF CallInv
    <3> QED BY <3>1, <3>2
  <2> QED BY <1>1, <1>6, <1>12, <2>1, <2>2, <2>3, <2>4 DEF CallInv
<1>21. GivenInv'
  <2>1. chan' \in Seq(GivenPayloads')
    <3>1. CASE C # {} BY <1>2, <1>18, <3>1 DEF GivenInv
    <3>2. CASE C = {}
      <4> DEFINE p == [uid |-> u, client |-> NoClient, done |-> TRUE]
      <4>1. chan' = Append(chan, p) BY <1>2, <3>2 DEF LspNotify
      <4>2. NoClient \in AnsweredTo'[u]
        <5>1. AnsweredTo'[u] = AnsweredTo[u] \union {NoClient} BY <1>6, <1>16, <3>2 DEF AnsweredTo
        <5> QED BY <5>1
      <4>3. p \in GivenPayloads' BY <1>6, <4>2 DEF GivenPayloads, Payload, Names
      <4> HIDE DEF p
      <4> QED BY <1>18, <4>1, <4>3, AppendProperties DEF GivenInv
    <3> QED BY <3>1, <3>2
  <2>2. \A h \in Uids : pc'[h] \in Delivering => pc[h] \in Delivering BY <1>11 DEF Delivering
  <2> QED BY <1>1, <1>18, <2>1, <2>2 DEF GivenInv
<1>22. [Requests!Next]_Requests!vars
  <2>1. CASE C = {}
    <3>1. Phase[u] # "idle" BY <1>6 DEF Phase
    <3>2. Requests!Answer(u, NoClient) BY <1>13, <1>16, <2>1, <3>1 DEF Requests!Answer
    <3> QED BY <1>6, <3>2 DEF Requests!Next, Names
  <2>2. CASE C # {}
    <3>1. AnsweredTo' = AnsweredTo BY <1>16, <2>2 DEF AnsweredTo
    <3> QED BY <1>13, <3>1 DEF Requests!vars
  <2> QED BY <2>1, <2>2
<1> QED BY <1>19, <1>20, <1>21, <1>22 DEF Implemented

LEMMA RequestStep == RequestInv /\ [Next]_vars => Implemented
<1> SUFFICES ASSUME RequestInv, [Next]_vars PROVE Implemented
  OBVIOUS
<1>a. OwnInv' /\ OrderInv' BY OwnStep, OrderStep DEF RequestInv
<1>1. ASSUME NEW g \in Uids, Called(g) \/ Clear(g) PROVE Implemented
  <2>1. /\ pc[g] \in Suspended \ {"locking"} /\ (\E ev : Loop(g, ev))
        /\ UNCHANGED <<chan, asked, pending, current>>
    BY <1>1 DEF Called, Clear, Suspended, lua
  <2> QED BY <1>a, <2>1, LoopGoes, GoesKept
<1>2. ASSUME NEW g \in Uids, Pulled(g) PROVE Implemented
  <2> DEFINE d == [reply |-> item[g].reply, from |-> item[g].from]
  <2>1. /\ pc[g] = "pulled" /\ pc' = [pc EXCEPT ![g] = "yielded"]
        /\ got' = [got EXCEPT ![g] = @ \union {d}]
        /\ UNCHANGED <<state, held, item, lockq, rpc, chan, asked, pending, current>>
    BY <1>2 DEF Pulled, lua
  <2>2. item[g].reply \in Given BY <2>1 DEF RequestInv, GivenInv, Delivering
  <2>3. item[g] \in Item /\ item[g].reply.uid = g BY DEF RequestInv, OwnInv, TypeInv, TypeOK
  <2>4. d \in Delivery /\ d.reply = item[g].reply BY <2>3 DEF Item, Delivery
  <2> HIDE DEF d
  <2>5. \E e \in Delivery :
          e.reply \in Given /\ e.reply.uid = g /\ got' = [got EXCEPT ![g] = @ \union {e}]
    BY <2>1, <2>2, <2>3, <2>4
  <2>6. "yielded" \in Points \ {"idle"} /\ "yielded" # "locking" /\ "yielded" \notin Ended
    BY DEF Points, Suspended, Ended
  <2>7. /\ state'.acc \in Seq(Given)
        /\ \A h \in Uids : held'[h].acc \in Seq(Given)
    BY <2>1 DEF RequestInv, GivenInv
  <2>8. item'[g].reply \in Given /\ \A h \in Uids \ {g} : item'[h] = item[h] BY <2>1, <2>2
  <2>9. Goes(g) BY <2>1, <2>5, <2>6, <2>7, <2>8 DEF Goes
  <2>10. pc[g] \in Suspended \ {"locking"} BY <2>1 DEF Suspended
  <2> QED BY <1>a, <2>1, <2>9, <2>10, GoesKept DEF Pulls
<1>3. ASSUME NEW g \in Uids, Resume(g) PROVE Implemented
  <2>1. /\ pc[g] = "yielded" /\ pc[g] \in Suspended \ {"locking"}
        /\ UNCHANGED <<chan, asked, pending, current>>
    BY <1>3 DEF Resume, Suspended, lua
  <2>2. held[g] \in Held /\ held[g].acc \in Seq(Given) /\ held[g].acc \in Seq(ReplyTo(g))
    BY DEF RequestInv, OwnInv, TypeInv, TypeOK, GivenInv
  <2>3. CASE Deliver(g, held[g]) BY <1>a, <2>1, <2>2, <2>3, DeliverGoes, GoesKept
  <2>4. CASE Drained(g, held[g], activity) BY <1>a, <2>1, <2>4, DrainedGoes, GoesKept
  <2>5. CASE /\ item' = [item EXCEPT ![g].k = @ + 1]
             /\ rpc' = Append(rpc, [op |-> "pull", uid |-> g,
                                    client |-> item[g].reply.client, k |-> item[g].k + 1])
             /\ pc' = [pc EXCEPT ![g] = "pulling"]
             /\ UNCHANGED <<state, held, lockq, got>>
    <3>1. item \in [Uids -> Item] BY DEF RequestInv, OwnInv, TypeInv, TypeOK
    <3>2. item'[g].reply = item[g].reply /\ \A h \in Uids \ {g} : item'[h] = item[h]
      BY <2>5, <3>1 DEF Item
    <3>3. [op |-> "pull", uid |-> g, client |-> item[g].reply.client, k |-> item[g].k + 1] \in Call
      BY <3>1 DEF Item, Reply, Call
    <3>4. Pulls BY <2>5, <3>3 DEF Pulls, IsReq
    <3>5. item[g].reply \in Given BY <2>1 DEF RequestInv, GivenInv, Delivering
    <3>6. Goes(g)
      BY <2>5, <3>2, <3>5 DEF Goes, Points, Suspended, RequestInv, GivenInv
    <3> QED BY <1>a, <2>1, <3>4, <3>6, GoesKept
  <2> QED BY <1>3, <2>3, <2>4, <2>5 DEF Resume
<1>4. ASSUME NEW g \in Uids, Woken(g) PROVE Implemented
  <2>1. /\ pc[g] \in Suspended \ {"locking"} /\ AfterWait(g)
        /\ UNCHANGED <<state, held, item, rpc, got, chan, asked, pending, current>>
    BY <1>4 DEF Woken, Suspended, lua
  <2> QED BY <1>a, <2>1, WaitGoes, GoesKept DEF Pulls
<1>5. CASE UNCHANGED vars
  <2>1. /\ UNCHANGED <<state, pc, held, item, lockq, rpc, chan, got, asked, pending, current>>
    BY <1>5 DEF vars
  <2>2. Given' = Given /\ GivenPayloads' = GivenPayloads /\ UNCHANGED AnsweredTo BY <2>1, SameGiven
  <2>3. Begun' = Begun /\ UNCHANGED <<Phase, Yields>> BY <2>1 DEF Begun, Phase, Yields
  <2>4. QueueInv' BY <2>1 DEF RequestInv, QueueInv
  <2>5. CallInv' BY <2>1, <2>3 DEF RequestInv, CallInv
  <2>6. GivenInv' BY <2>1, <2>2 DEF RequestInv, GivenInv
  <2> QED BY <1>a, <2>2, <2>3, <2>4, <2>5, <2>6 DEF Implemented, RequestInv, Requests!vars
<1> QED
  BY <1>a, <1>1, <1>2, <1>3, <1>4, <1>5, StartKept, CancelKept, NotifiedKept, GrantedKept,
     LuaReqKept, LuaPullKept, ClientReplyKept DEF Next

(* The layer implements LspRequest: whatever is lost, late, cancelled or
   overtaken, a request that is open yields answers that its own clients have
   given, and one that is closed yields nothing more.                          *)
THEOREM Implements == Spec => RequestsSpec
<1>1. Init => RequestInv /\ Requests!Init BY RequestInit
<1>2. RequestInv /\ [Next]_vars => RequestInv' /\ [Requests!Next]_Requests!vars
  BY RequestStep DEF Implemented
<1> QED BY <1>1, <1>2, PTL DEF Spec, RequestsSpec, Requests!Spec

-----------------------------------------------------------------------------
(* Wake-ups.                                                                 *)

\* the list a generator delivers is the one of _STATE, until something replaces that
Synced ==
  \A g \in Uids : pc[g] \in Delivering /\ held[g].shared =>
    /\ state.uid = g
    /\ state.acc = held[g].acc
    /\ state.done = held[g].done

\* nobody sleeps on an event that is set
Quiet == activity => \A g \in Uids : pc[g] # "waiting"

\* the session of g has something g has not read and is not about to read
Unseen(g) ==
  /\ state.uid = g
  /\ state.acc # <<>> \/ state.done
  /\ \/ pc[g] = "waiting"
     \/ pc[g] \in Delivering /\ ~held[g].shared

\* the event is set with nobody left to clear it, or a notification sets it after
\* everyone in front of it in the queue of the lock has cleared it
Announced ==
  IF lockq = <<>>
  THEN activity /\ \A g \in Uids : pc[g] # "clearing"
  ELSE lockq[Len(lockq)] = -1

Told == \A g \in Uids : Unseen(g) => Announced

WakeInv == TypeInv /\ Synced /\ Quiet /\ Told

LEMMA WakeInit == Init => WakeInv
BY TypeInit DEF Init, WakeInv, Synced, Quiet, Told, Unseen, NoSession, Delivering

(* A generator that leaves the top of its loop, or its list, for Wait.         *)
LEMMA WaitWake ==
  ASSUME WakeInv, TypeInv', NEW g \in Uids, pc[g] # "waiting",
         Wait(g, activity'), activity' \in {activity, FALSE},
         UNCHANGED <<state, held>>,
         \/ ~\E h \in Uids : Unseen(h)'
         \/ /\ UNCHANGED activity /\ pc[g] # "clearing"
            /\ state.uid = g => Unseen(g) \/ ~(state.acc # <<>> \/ state.done)
  PROVE  WakeInv'
<1> USE DEF WakeInv
<1>0. pc \in [Uids -> Points] /\ activity \in BOOLEAN BY DEF TypeInv, TypeOK
<1>1. \E p \in {"waiting", "superseded", "clearing", "locking"} :
        pc' = [pc EXCEPT ![g] = p] /\ (p = "waiting" => ~activity')
  BY <1>0 DEF Wait, AfterWait, Acquire
<1>2. Synced' BY <1>0, <1>1 DEF Synced, Delivering
<1>3. Quiet' BY <1>0, <1>1 DEF Quiet
<1>4. Told'
  <2>1. CASE ~\E h \in Uids : Unseen(h)' BY <2>1 DEF Told
  <2>2. CASE /\ UNCHANGED activity /\ pc[g] # "clearing"
             /\ state.uid = g => Unseen(g) \/ ~(state.acc # <<>> \/ state.done)
    <3> SUFFICES ASSUME NEW h \in Uids, Unseen(h)' PROVE Announced'
      BY DEF Told
    <3>1. Unseen(h) BY <1>0, <1>1, <2>2 DEF Unseen, Delivering
    <3>2. Announced BY <3>1 DEF Told
    <3>3. ~Acquire(g)
      <4>1. state.uid = h /\ state.uid # -1 BY <3>1 DEF Unseen, Uids
      <4>2. CASE h = g BY <1>0, <4>2 DEF Acquire, Unseen, Delivering
      <4>3. CASE h # g
        <5>1. pc'[g] \in {"waiting", "superseded"}
          BY <1>0, <4>1, <4>3 DEF Wait, AfterWait
        <5> QED BY <1>0, <5>1 DEF Acquire
      <4> QED BY <4>2, <4>3
    <3>4. UNCHANGED lockq /\ pc'[g] # "clearing"
      BY <1>0, <3>3 DEF Wait, AfterWait
    <3> QED BY <1>0, <1>1, <2>2, <3>2, <3>4 DEF Announced
  <2> QED BY <2>1, <2>2
<1> QED BY <1>2, <1>3, <1>4

LEMMA DeliverWake ==
  ASSUME WakeInv, TypeInv', NEW g \in Uids, NEW s \in Held, Deliver(g, s),
         activity' \in {activity, FALSE},
         \/ state.uid = g /\ s.shared /\ s.acc = state.acc /\ s.done = state.done
         \/ pc[g] = "yielded" /\ s = held[g] /\ UNCHANGED activity
  PROVE  WakeInv'
<1> USE DEF WakeInv
<1>0. /\ pc \in [Uids -> Points] /\ held \in [Uids -> Held] /\ activity \in BOOLEAN
      /\ state \in Session
  BY DEF TypeInv, TypeOK
<1>1. \E p \in {"pulling", "yielded"} : pc' = [pc EXCEPT ![g] = p]
  <2>1. CASE Multipart BY <2>1 DEF Deliver
  <2>2. CASE ~Multipart BY <2>2 DEF Deliver
  <2> QED BY <2>1, <2>2
<1>2. /\ held' = [held EXCEPT ![g] = [s EXCEPT !.acc = Front(s.acc)]]
      /\ state' = IF s.shared THEN [state EXCEPT !.acc = Front(state.acc)] ELSE state
      /\ UNCHANGED lockq
  BY DEF Deliver
<1>3. /\ state'.uid = state.uid /\ state'.done = state.done
      /\ held'[g].shared = s.shared /\ held'[g].done = s.done /\ held'[g].acc = Front(s.acc)
      /\ s.shared => state'.acc = Front(state.acc)
      /\ ~s.shared => state' = state
  BY <1>0, <1>2 DEF Session, Held
<1>4. s.shared => state.uid = g /\ s.acc = state.acc /\ s.done = state.done
  BY DEF Synced, Delivering
<1>5. Synced'
  <2> SUFFICES ASSUME NEW h \in Uids, pc'[h] \in Delivering, held'[h].shared
               PROVE  /\ state'.uid = h /\ state'.acc = held'[h].acc
                      /\ state'.done = held'[h].done
    BY DEF Synced
  <2>1. CASE h = g BY <1>3, <1>4, <2>1
  <2>2. CASE h # g
    <3>1. pc'[h] = pc[h] /\ held'[h] = held[h] BY <1>0, <1>1, <1>2, <2>2
    <3>2. state.uid = h /\ state.acc = held[h].acc /\ state.done = held[h].done
      BY <3>1 DEF Synced
    <3>3. ~s.shared BY <1>4, <2>2, <3>2
    <3> QED BY <1>3, <3>1, <3>2, <3>3
  <2> QED BY <2>1, <2>2
<1>6. Quiet' BY <1>0, <1>1 DEF Quiet
<1>7. Told'
  <2> SUFFICES ASSUME NEW h \in Uids, Unseen(h)' PROVE Announced'
    BY DEF Told
  <2>1. ~s.shared
    <3> SUFFICES ASSUME s.shared PROVE FALSE OBVIOUS
    <3>1. h = g BY <1>3, <1>4 DEF Unseen
    <3>2. held'[g].shared /\ pc'[g] \in {"pulling", "yielded"} BY <1>0, <1>1, <1>3
    <3> QED BY <3>1, <3>2 DEF Unseen
  <2>2. pc[g] = "yielded" /\ s = held[g] /\ UNCHANGED activity BY <2>1
  <2>3. Unseen(h)
    <3>1. CASE h = g BY <1>3, <2>1, <2>2, <3>1 DEF Unseen, Delivering
    <3>2. CASE h # g
      <4>1. pc'[h] = pc[h] /\ held'[h] = held[h] BY <1>0, <1>1, <1>2, <3>2
      <4> QED BY <1>3, <2>1, <4>1 DEF Unseen
    <3> QED BY <3>1, <3>2
  <2> QED BY <1>0, <1>1, <1>2, <2>2, <2>3 DEF Told, Announced
<1> QED BY <1>5, <1>6, <1>7

LEMMA DetachedShared ==
  ASSUME TypeInv
  PROVE  \A g \in Uids : ~Detached[g].shared
BY DEF TypeInv, TypeOK, Held, Detached

LEMMA DrainedWake ==
  ASSUME WakeInv, TypeInv', NEW g \in Uids, NEW s \in Held, Drained(g, s, activity'),
         activity' \in {activity, FALSE}, pc[g] # "waiting",
         \/ state.uid = g /\ s.acc = state.acc /\ s.done = state.done
         \/ pc[g] = "yielded" /\ s = held[g] /\ UNCHANGED activity
  PROVE  WakeInv'
<1> USE DEF WakeInv
<1>0. /\ pc \in [Uids -> Points] /\ held \in [Uids -> Held] /\ activity \in BOOLEAN
  BY DEF TypeInv, TypeOK
<1>1. CASE state' = NoSession /\ held' = Detached /\ pc' = [pc EXCEPT ![g] = "done"]
  <2>1. Synced' BY <1>0, <1>1, DetachedShared DEF Synced
  <2>2. Quiet' BY <1>0, <1>1 DEF Quiet
  <2>3. Told' BY <1>1 DEF Told, Unseen, NoSession, Uids
  <2> QED BY <2>1, <2>2, <2>3
<1>2. CASE ~s.done /\ Wait(g, activity') /\ UNCHANGED <<state, held>>
  <2>1. s.acc = <<>> BY DEF Drained
  <2>2. CASE state.uid = g /\ s.acc = state.acc /\ s.done = state.done
    <3>1. ~\E h \in Uids : Unseen(h)' BY <1>2, <2>1, <2>2 DEF Unseen
    <3> QED BY <1>2, <3>1, WaitWake
  <2>3. CASE pc[g] = "yielded" /\ s = held[g] /\ UNCHANGED activity
    <3>1. state.uid = g => Unseen(g) \/ ~(state.acc # <<>> \/ state.done)
      BY <1>2, <2>1, <2>3 DEF Unseen, Synced, Delivering
    <3> QED BY <1>2, <2>3, <3>1, WaitWake
  <2> QED BY <2>2, <2>3
<1> QED BY <1>1, <1>2 DEF Drained

LEMMA LoopWake ==
  ASSUME WakeInv, TypeInv', NEW g \in Uids, Loop(g, activity'),
         \/ pc[g] = "called" /\ UNCHANGED activity
         \/ pc[g] = "clearing" /\ activity' = FALSE
  PROVE  WakeInv'
<1> USE DEF WakeInv
<1> DEFINE s == [done |-> state.done, acc |-> state.acc, shared |-> TRUE]
<1>0. /\ pc \in [Uids -> Points] /\ held \in [Uids -> Held] /\ activity \in BOOLEAN
      /\ s \in Held
  BY DEF TypeInv, TypeOK, Session, Held
<1>1. CASE state.uid = g /\ Deliver(g, s) BY <1>0, <1>1, DeliverWake
<1>2. CASE state.uid = g /\ Drained(g, s, activity') BY <1>0, <1>2, DrainedWake
<1>3. CASE state.uid = -1 /\ Wait(g, activity') /\ UNCHANGED <<state, held>>
  <2>1. ~\E h \in Uids : Unseen(h)' BY <1>3 DEF Unseen, Uids
  <2> QED BY <1>3, <2>1, WaitWake
<1>4. CASE /\ state.uid \notin {-1, g}
           /\ pc' = [pc EXCEPT ![g] = IF state.uid > g THEN "superseded" ELSE "delayed"]
           /\ UNCHANGED <<state, held, lockq>>
  <2>1. \E p \in {"superseded", "delayed"} : pc' = [pc EXCEPT ![g] = p] BY <1>4
  <2>2. Synced' BY <1>0, <1>4, <2>1 DEF Synced, Delivering
  <2>3. Quiet' BY <1>0, <2>1 DEF Quiet
  <2>4. ASSUME NEW h \in Uids, Unseen(h)' PROVE Announced'
    <3>1. Unseen(h) BY <1>0, <1>4, <2>1, <2>4 DEF Unseen, Delivering
    <3>2. Announced BY <3>1 DEF Told
    <3> QED BY <1>0, <1>4, <2>1, <3>2 DEF Announced
  <2>5. Told' BY <2>4 DEF Told
  <2> QED BY <2>2, <2>3, <2>5
<1> QED BY <1>1, <1>2, <1>3, <1>4 DEF Loop

(* A step that leaves the session, the event and the lock alone, and no
   generator in a place where it has more to be told.                          *)
LEMMA SameWake ==
  ASSUME WakeInv, TypeInv', UNCHANGED <<state, held, activity, lockq>>,
         NEW g \in Uids, pc[g] # "clearing",
         NEW p \in Points \ {"waiting", "clearing"},
         p \in Delivering => pc[g] \in Delivering,
         pc' = [pc EXCEPT ![g] = p] \/ pc' = pc
  PROVE  WakeInv'
<1> USE DEF WakeInv
<1>0. pc \in [Uids -> Points] BY DEF TypeInv, TypeOK
<1>1. Synced' BY <1>0 DEF Synced
<1>2. Quiet' BY <1>0 DEF Quiet
<1>3. ASSUME NEW h \in Uids, Unseen(h)' PROVE Announced'
  <2>1. Unseen(h) BY <1>0, <1>3 DEF Unseen
  <2>2. Announced BY <2>1 DEF Told
  <2> QED BY <1>0, <2>2 DEF Announced
<1>4. Told' BY <1>3 DEF Told
<1> QED BY <1>1, <1>2, <1>4

LEMMA WakeFacts ==
  ASSUME TypeInv
  PROVE  \A g \in Uids : /\ Wake(pc)[g] # "waiting"
                         /\ Wake(pc)[g] \in Delivering => Wake(pc)[g] = pc[g]
                         /\ Wake(pc)[g] = "clearing" => pc[g] = "clearing"
BY DEF TypeInv, TypeOK, Wake, Delivering

LEMMA WakeStep == WakeInv /\ [Next]_vars => WakeInv'
<1> SUFFICES ASSUME WakeInv, [Next]_vars PROVE WakeInv'
  OBVIOUS
<1> USE DEF WakeInv
<1>a. TypeInv' BY TypeStep
<1>b. /\ pc \in [Uids -> Points] /\ held \in [Uids -> Held] /\ activity \in BOOLEAN
      /\ lockq \in Seq(Uids \union {-1}) /\ Len(lockq) \in Nat
      /\ \A i \in 1 .. Len(lockq) : lockq[i] \in Uids \union {-1}
  BY LenProperties, ElementOfSeq DEF TypeInv, TypeOK
<1>1. ASSUME NEW g \in Uids, Start(g) PROVE WakeInv'
  <2>1. \A h \in Uids : ~Unseen(h)' BY <1>1 DEF Start, Unseen
  <2>2. Synced' BY <1>1, DetachedShared DEF Start, Synced
  <2>3. Quiet'
    <3>1. Wake(pc) \in [Uids -> Points] BY <1>b, WakeType
    <3> QED BY <1>1, <3>1, WakeFacts DEF Start, Quiet
  <2> QED BY <1>a, <2>1, <2>2, <2>3 DEF Told
<1>2. ASSUME NEW g \in Uids, Called(g) PROVE WakeInv'
  BY <1>a, <1>2, LoopWake DEF Called
<1>3. ASSUME NEW g \in Uids, Pulled(g) PROVE WakeInv'
  BY <1>a, <1>3, SameWake DEF Pulled, Delivering, Points, Suspended
<1>4. ASSUME NEW g \in Uids, Resume(g) PROVE WakeInv'
  <2>1. held[g] \in Held /\ pc[g] = "yielded" /\ UNCHANGED activity
    BY <1>b, <1>4 DEF Resume
  <2>2. CASE Deliver(g, held[g]) BY <1>a, <2>1, <2>2, DeliverWake
  <2>3. CASE Drained(g, held[g], activity)
    <3>1. Drained(g, held[g], activity') BY <2>1, <2>3
    <3> QED BY <1>a, <2>1, <3>1, DrainedWake
  <2>4. CASE pc' = [pc EXCEPT ![g] = "pulling"] /\ UNCHANGED <<state, held, lockq>>
    BY <1>a, <2>1, <2>4, SameWake DEF Delivering, Points, Suspended
  <2> QED BY <1>4, <2>2, <2>3, <2>4 DEF Resume
<1>5. ASSUME NEW g \in Uids, Woken(g) PROVE WakeInv'
  <2>1. \E p \in {"superseded", "clearing", "locking"} : pc' = [pc EXCEPT ![g] = p]
    BY <1>5 DEF Woken, AfterWait, Acquire
  <2>2. UNCHANGED <<state, held, activity>> /\ pc[g] = "woken" BY <1>5 DEF Woken
  <2>3. Synced' BY <1>b, <2>1, <2>2 DEF Synced, Delivering
  <2>4. Quiet' BY <1>b, <2>1, <2>2 DEF Quiet
  <2>5. ASSUME NEW h \in Uids, Unseen(h)' PROVE Announced'
    <3>1. Unseen(h) /\ h # g BY <1>b, <2>1, <2>2, <2>5 DEF Unseen, Delivering
    <3>2. Announced BY <3>1 DEF Told
    <3>3. state.uid \notin {-1, g} BY <3>1 DEF Unseen, Uids
    <3>4. pc' = [pc EXCEPT ![g] = "superseded"] /\ UNCHANGED lockq
      BY <1>5, <3>3 DEF Woken, AfterWait
    <3> QED BY <1>b, <2>2, <3>2, <3>4 DEF Announced
  <2> QED BY <1>a, <2>3, <2>4, <2>5 DEF Told
<1>6. ASSUME NEW g \in Uids, Clear(g) PROVE WakeInv'
  <2>1. Loop(g, activity') /\ pc[g] = "clearing" /\ activity' = FALSE BY <1>6 DEF Clear
  <2> QED BY <1>a, <2>1, LoopWake
<1>7. ASSUME NEW g \in Uids, Cancel(g) PROVE WakeInv'
  <2>1. pc' = [pc EXCEPT ![g] = "cancelled"] /\ UNCHANGED <<state, held, activity>>
    BY <1>7 DEF Cancel
  <2>2. Synced' BY <1>b, <2>1 DEF Synced, Delivering
  <2>3. Quiet' BY <1>b, <2>1 DEF Quiet
  <2>4. ASSUME NEW h \in Uids, Unseen(h)' PROVE Announced'
    <3>1. Unseen(h) BY <1>b, <2>1, <2>4 DEF Unseen, Delivering
    <3>2. Announced BY <3>1 DEF Told
    <3>3. CASE UNCHANGED lockq BY <1>b, <2>1, <3>2, <3>3 DEF Announced
    <3>4. ASSUME NEW i \in 1 .. Len(lockq), lockq[i] = g, lockq' = RemoveAt(lockq, i)
          PROVE  Announced'
      <4>1. Len(lockq) # 0 /\ lockq # <<>> BY <1>b, <3>4, EmptySeq
      <4>2. lockq[Len(lockq)] = -1 BY <3>2, <4>1 DEF Announced
      <4>3. i # Len(lockq) BY <3>4, <4>2 DEF Uids
      <4>4. Len(lockq') = Len(lockq) - 1 /\ lockq'[Len(lockq) - 1] = lockq[Len(lockq)]
        BY <1>b, <3>4, <4>3, RemoveAtInSeq
      <4>5. lockq' # <<>> BY <1>b, <3>4, <4>3, <4>4, EmptySeq
      <4> QED BY <4>2, <4>4, <4>5 DEF Announced
    <3> QED BY <1>7, <3>3, <3>4 DEF Cancel
  <2> QED BY <1>a, <2>2, <2>3, <2>4 DEF Told
<1>8. CASE Notified
  <2>1. CASE LockFree /\ activity' = TRUE /\ pc' = Wake(pc) /\ UNCHANGED lockq
    <3>1. Announced' BY <2>1, WakeFacts DEF Announced, LockFree
    <3>2. Quiet' BY <2>1, WakeFacts DEF Quiet
    <3>3. Synced'
      <4>1. CASE held' = Detached BY <4>1, DetachedShared DEF Synced
      <4>2. CASE UNCHANGED <<state, held>> BY <2>1, <4>2, WakeFacts DEF Synced
      <4> QED BY <1>8, <4>1, <4>2 DEF Notified
    <3> QED BY <1>a, <3>1, <3>2, <3>3 DEF Told
  <2>2. CASE lockq' = Append(lockq, -1) /\ UNCHANGED <<activity, pc>>
    <3>1. Announced' BY <1>b, <2>2, AppendProperties DEF Announced
    <3>2. Quiet' BY <2>2 DEF Quiet
    <3>3. Synced'
      <4>1. CASE held' = Detached BY <4>1, DetachedShared DEF Synced
      <4>2. CASE UNCHANGED <<state, held>> BY <2>2, <4>2 DEF Synced
      <4> QED BY <1>8, <4>1, <4>2 DEF Notified
    <3> QED BY <1>a, <3>1, <3>2, <3>3 DEF Told
  <2> QED BY <1>8, <2>1, <2>2 DEF Notified
<1>9. CASE Granted
  <2>1. /\ lockq # <<>> /\ lockq' = Tail(lockq) /\ UNCHANGED <<state, held>>
        /\ \A g \in Uids : pc[g] # "clearing"
    BY <1>9 DEF Granted
  <2>2. /\ Len(lockq') = Len(lockq) - 1 /\ Head(lockq) = lockq[1]
        /\ \A i \in 1 .. Len(lockq) - 1 : lockq'[i] = lockq[i + 1]
        /\ lockq' \in Seq(Uids \union {-1}) /\ Len(lockq) >= 1
        /\ Head(lockq) \in Uids \union {-1}
    BY <1>b, <2>1, HeadTailProperties, EmptySeq
  <2>3. lockq' # <<>> => lockq'[Len(lockq')] = lockq[Len(lockq)]
    <3> SUFFICES ASSUME lockq' # <<>> PROVE lockq'[Len(lockq')] = lockq[Len(lockq)]
      OBVIOUS
    <3>1. Len(lockq') \in Nat \ {0} BY <2>2, EmptySeq
    <3>2. Len(lockq) - 1 \in 1 .. Len(lockq) - 1 /\ Len(lockq) - 1 + 1 = Len(lockq)
      BY <1>b, <2>2, <3>1
    <3> QED BY <2>2, <3>2
  <2>4. CASE Head(lockq) = -1
    <3>1. activity' = TRUE /\ pc' = Wake(pc) BY <1>9, <2>4 DEF Granted
    <3>2. Quiet' BY <3>1, WakeFacts DEF Quiet
    <3>3. Synced' BY <2>1, <3>1, WakeFacts DEF Synced
    <3>4. ASSUME NEW h \in Uids, Unseen(h)' PROVE Announced'
      <4>1. Unseen(h) BY <2>1, <3>1, <3>4, WakeFacts DEF Unseen
      <4>2. lockq[Len(lockq)] = -1 BY <2>1, <4>1 DEF Told, Announced
      <4> QED BY <2>1, <2>3, <3>1, <4>2, WakeFacts DEF Announced
    <3> QED BY <1>a, <3>2, <3>3, <3>4 DEF Told
  <2>5. CASE Head(lockq) # -1
    <3>1. UNCHANGED activity /\ pc' = [pc EXCEPT ![Head(lockq)] = "clearing"]
      BY <1>9, <2>5 DEF Granted
    <3>2. Quiet' BY <1>b, <3>1 DEF Quiet
    <3>3. Synced' BY <1>b, <2>1, <3>1 DEF Synced, Delivering
    <3>4. ASSUME NEW h \in Uids, Unseen(h)' PROVE Announced'
      <4>1. Unseen(h) BY <1>b, <2>1, <3>1, <3>4 DEF Unseen, Delivering
      <4>2. lockq[Len(lockq)] = -1 BY <2>1, <4>1 DEF Told, Announced
      <4>3. Len(lockq) # 1 BY <2>2, <2>5, <4>2
      <4>4. lockq' # <<>> BY <1>b, <2>2, <4>3, EmptySeq
      <4> QED BY <2>3, <4>2, <4>4 DEF Announced
    <3> QED BY <1>a, <3>2, <3>3, <3>4 DEF Told
  <2> QED BY <2>4, <2>5
<1>10. CASE LuaReq
  <2>1. Head(rpc).uid \in Uids
    <3>1. Head(rpc) \in Call
      BY <1>10, HeadTailProperties DEF LuaReq, TypeInv, TypeOK
    <3> QED BY <3>1 DEF Call
  <2>2. \/ pc' = pc
        \/ pc[Head(rpc).uid] = "calling" /\ pc' = [pc EXCEPT ![Head(rpc).uid] = "called"]
    <3>1. pc' = Answered(Head(rpc).uid, "calling", "called") BY <1>10, Zenon DEF LuaReq
    <3>2. CASE pc[Head(rpc).uid] = "calling" BY <3>1, <3>2 DEF Answered
    <3>3. CASE pc[Head(rpc).uid] # "calling" BY <3>1, <3>3 DEF Answered
    <3> QED BY <3>2, <3>3
  <2>3. UNCHANGED <<state, held, activity, lockq>> BY <1>10 DEF LuaReq
  <2>4. CASE pc' = pc BY <1>a, <2>3, <2>4 DEF Synced, Quiet, Told, Unseen, Announced
  <2>5. CASE pc[Head(rpc).uid] = "calling" /\ pc' = [pc EXCEPT ![Head(rpc).uid] = "called"]
    <3> DEFINE g == Head(rpc).uid
    <3>1. g \in Uids BY <2>1
    <3>2. pc[g] = "calling" /\ pc' = [pc EXCEPT ![g] = "called"] BY <2>5
    <3>3. "called" \in Points \ {"waiting", "clearing"} BY DEF Points, Suspended
    <3>4. "called" \in Delivering => pc[g] \in Delivering BY <3>2 DEF Delivering
    <3> HIDE DEF g
    <3> QED BY <1>a, <2>3, <3>1, <3>2, <3>3, <3>4, SameWake
  <2> QED BY <2>2, <2>4, <2>5
<1>11. CASE LuaPull
  <2>1. Head(rpc).uid \in Uids
    <3>1. Head(rpc) \in Call
      BY <1>11, HeadTailProperties DEF LuaPull, TypeInv, TypeOK
    <3> QED BY <3>1 DEF Call
  <2>2. \/ pc' = pc
        \/ pc[Head(rpc).uid] = "pulling" /\ pc' = [pc EXCEPT ![Head(rpc).uid] = "pulled"]
    <3>1. pc' = Answered(Head(rpc).uid, "pulling", "pulled") BY <1>11, Zenon DEF LuaPull
    <3>2. CASE pc[Head(rpc).uid] = "pulling" BY <3>1, <3>2 DEF Answered
    <3>3. CASE pc[Head(rpc).uid] # "pulling" BY <3>1, <3>3 DEF Answered
    <3> QED BY <3>2, <3>3
  <2>3. UNCHANGED <<state, held, activity, lockq>> BY <1>11 DEF LuaPull
  <2>4. CASE pc' = pc BY <1>a, <2>3, <2>4 DEF Synced, Quiet, Told, Unseen, Announced
  <2>5. CASE pc[Head(rpc).uid] = "pulling" /\ pc' = [pc EXCEPT ![Head(rpc).uid] = "pulled"]
    <3> DEFINE g == Head(rpc).uid
    <3>1. g \in Uids BY <2>1
    <3>2. pc[g] = "pulling" /\ pc' = [pc EXCEPT ![g] = "pulled"] BY <2>5
    <3>3. "pulled" \in Points \ {"waiting", "clearing"} BY DEF Points, Suspended
    <3>4. "pulled" \in Delivering => pc[g] \in Delivering BY <3>2 DEF Delivering
    <3> HIDE DEF g
    <3> QED BY <1>a, <2>3, <3>1, <3>2, <3>3, <3>4, SameWake
  <2> QED BY <2>2, <2>4, <2>5
<1>12. ASSUME NEW u \in Uids, NEW c \in Clients, ClientReply(u, c) PROVE WakeInv'
  BY <1>a, <1>12 DEF ClientReply, Synced, Quiet, Told, Unseen, Announced
<1>13. CASE UNCHANGED vars
  BY <1>a, <1>13 DEF vars, Synced, Quiet, Told, Unseen, Announced
<1> QED
  BY <1>1, <1>2, <1>3, <1>4, <1>5, <1>6, <1>7, <1>8, <1>9, <1>10, <1>11, <1>12, <1>13
     DEF Next

(* A generator never sleeps beside an unread answer to the current session: the
   event is set, or a notification that sets it waits for the lock.            *)
THEOREM WakeupsAreKept == Spec => []NoLostWakeup
<1>1. WakeInv => NoLostWakeup
  <2> SUFFICES ASSUME WakeInv, NEW g \in Uids, pc[g] = "waiting", state.uid = g,
                      ~(state.acc = <<>> /\ ~state.done)
               PROVE  \E i \in 1 .. Len(lockq) : lockq[i] = -1
    BY DEF NoLostWakeup
  <2>1. state.done \in BOOLEAN /\ lockq \in Seq(Uids \union {-1})
    BY DEF WakeInv, TypeInv, TypeOK, Session
  <2>2. Unseen(g) BY <2>1 DEF Unseen
  <2>3. Announced /\ ~activity BY <2>2 DEF WakeInv, Told, Quiet
  <2>4. lockq # <<>> /\ lockq[Len(lockq)] = -1 BY <2>3 DEF Announced
  <2>5. Len(lockq) \in 1 .. Len(lockq) BY <2>1, <2>4, EmptySeq
  <2> QED BY <2>4, <2>5
<1> QED BY <1>1, WakeInit, WakeStep, PTL DEF Spec

-----------------------------------------------------------------------------
(* DoneIsComplete.                                                          *)

\* the answer that is the last of a session is sent last
SentInv ==
  \A i \in 1 .. Len(chan) :
    /\ chan[i].uid <= current
    /\ chan[i].done => /\ pending[chan[i].uid] = {}
                       /\ \A j \in 1 .. Len(chan) : i < j => chan[j].uid # chan[i].uid

AskedInv == \A g \in Uids : pc[g] \in {"idle", "calling", "cancelled"} \/ g <= current

\* the answer of c to the session of g is on its way, in _STATE, in the hands of g, or yielded
Located(g, c) ==
  \/ \E i \in 1 .. Len(chan) : chan[i].uid = g /\ chan[i].client = c
  \/ \E i \in 1 .. Len(state.acc) : state.acc[i].client = c
  \/ pc[g] \in {"pulling", "pulled"} /\ item[g].reply.client = c
  \/ \E d \in got[g] : d.reply.client = c

\* what is true of a generator that overlaps no other
Owned(g) ==
  /\ state.uid = g
  /\ state.done => g <= current /\ pending[g] = {} /\ \A i \in 1 .. Len(chan) : chan[i].uid # g
  /\ pc[g] \in Delivering /\ held[g].done => held[g].shared
  /\ \A c \in asked[g] \ pending[g] : Located(g, c)

Yielded(g) == asked[g] \subseteq {d.reply.client : d \in got[g]}

Complete(g) ==
  /\ \A h \in Uids : h < g => pc[h] \in Ended
  /\ pc[g] \notin Ended => Owned(g)
  /\ pc[g] = "done" => Yielded(g)

SessionInv == RequestInv /\ WakeInv /\ SentInv /\ AskedInv
CompleteInv == SessionInv /\ \A g \in Uids : Undisturbed(g) /\ pc[g] # "idle" => Complete(g)

LEMMA SessionTypes ==
  ASSUME SessionInv
  PROVE  /\ TypeOK /\ pc \in [Uids -> Points] /\ held \in [Uids -> Held] /\ item \in [Uids -> Item]
         /\ state \in Session /\ state.acc \in Seq(Reply) /\ Len(state.acc) \in Nat
         /\ chan \in Seq(Payload) /\ Len(chan) \in Nat
         /\ pending \in [Uids -> SUBSET Clients] /\ asked \in [Uids -> SUBSET Clients]
         /\ got \in [Uids -> SUBSET Delivery] /\ current \in Int /\ \A u \in Uids : u \in Int
         /\ lockq \in Seq(Uids \union {-1}) /\ Len(lockq) \in Nat
<1>1. TypeOK BY DEF SessionInv, WakeInv, TypeInv
<1>2. state.acc \in Seq(Reply) BY <1>1 DEF TypeOK, Session
<1>3. Len(state.acc) \in Nat /\ Len(chan) \in Nat /\ Len(lockq) \in Nat
  BY <1>1, <1>2, LenProperties DEF TypeOK
<1> QED BY <1>1, <1>2, <1>3 DEF TypeOK, Uids

LEMMA CompleteInit == Init => CompleteInv
<1> SUFFICES ASSUME Init PROVE CompleteInv
  OBVIOUS
<1>1. RequestInv /\ WakeInv BY RequestInit, WakeInit
<1>2. SentInv /\ AskedInv /\ \A g \in Uids : pc[g] = "idle"
  BY DEF Init, SentInv, AskedInv
<1> QED BY <1>1, <1>2 DEF CompleteInv, SessionInv

\* what a step does to the places of the generators
LEMMA EndedStays ==
  ASSUME SessionInv, NEW f \in Uids, pc[f] \in Suspended, NEW p, pc' = [pc EXCEPT ![f] = p]
  PROVE  \A h \in Uids : pc[h] \in Ended => pc'[h] = pc[h]
BY SessionTypes DEF Suspended, Ended

\* an answer leaves the channel, or comes to its end
LEMMA SentKept ==
  ASSUME SessionInv, UNCHANGED <<pending, current>>,
         UNCHANGED chan \/ (chan # <<>> /\ chan' = Tail(chan))
  PROVE  SentInv'
<1>1. chan \in Seq(Payload) /\ Len(chan) \in Nat BY SessionTypes
<1>2. CASE UNCHANGED chan BY <1>2 DEF SessionInv, SentInv
<1>3. CASE chan # <<>> /\ chan' = Tail(chan)
  <2>1. /\ Len(chan') = Len(chan) - 1
        /\ \A i \in 1 .. Len(chan) - 1 : chan'[i] = chan[i + 1]
    BY <1>1, <1>3, HeadTailProperties
  <2>2. \A i \in 1 .. Len(chan') : i + 1 \in 1 .. Len(chan) /\ chan'[i] = chan[i + 1]
    BY <1>1, <2>1
  <2>3. \A i, j \in 1 .. Len(chan') : i < j => i + 1 < j + 1 OBVIOUS
  <2> SUFFICES ASSUME NEW i \in 1 .. Len(chan')
               PROVE  /\ chan'[i].uid <= current'
                      /\ chan'[i].done => /\ pending'[chan'[i].uid] = {}
                                          /\ \A j \in 1 .. Len(chan') : i < j => chan'[j].uid # chan'[i].uid
    BY DEF SentInv
  <2>4. i + 1 \in 1 .. Len(chan) /\ chan'[i] = chan[i + 1] BY <2>2
  <2>5. chan'[i].uid <= current' BY <2>4 DEF SessionInv, SentInv
  <2>6. ASSUME chan'[i].done
        PROVE  pending'[chan'[i].uid] = {} /\ \A j \in 1 .. Len(chan') : i < j => chan'[j].uid # chan'[i].uid
    <3>1. pending[chan[i + 1].uid] = {} /\ \A j \in 1 .. Len(chan) : i + 1 < j => chan[j].uid # chan[i + 1].uid
      BY <2>4, <2>6 DEF SessionInv, SentInv
    <3> QED BY <2>2, <2>3, <2>4, <3>1
  <2> QED BY <2>5, <2>6
<1> QED BY <1>2, <1>3

LEMMA SentAppended ==
  ASSUME SessionInv, NEW p \in Payload, chan' = Append(chan, p),
         current <= current', p.uid <= current', current' \in Int,
         p.done => pending'[p.uid] = {},
         \A i \in 1 .. Len(chan) : chan[i].done => chan[i].uid # p.uid,
         \A w \in Uids : w # p.uid /\ w <= current /\ pending[w] = {} => pending'[w] = {}
  PROVE  SentInv'
<1>1. chan \in Seq(Payload) /\ Len(chan) \in Nat /\ current \in Int BY SessionTypes
<1>2. /\ Len(chan') = Len(chan) + 1 /\ chan'[Len(chan) + 1] = p
      /\ \A i \in 1 .. Len(chan) : chan'[i] = chan[i]
  BY <1>1, AppendProperties
<1>3. \A i \in 1 .. Len(chan') : i \in 1 .. Len(chan) \/ (i = Len(chan) + 1 /\ chan'[i] = p)
  BY <1>1, <1>2
<1>4. \A i \in 1 .. Len(chan) : chan[i].uid \in Uids
  <2>1. \A i \in 1 .. Len(chan) : chan[i] \in Payload BY <1>1, ElementOfSeq
  <2> QED BY <2>1 DEF Payload
<1>5. ASSUME NEW i \in 1 .. Len(chan)
      PROVE  /\ chan'[i].uid <= current'
             /\ chan'[i].done => /\ pending'[chan'[i].uid] = {}
                                 /\ \A j \in 1 .. Len(chan') : i < j => chan'[j].uid # chan'[i].uid
  <2>1. chan'[i].uid <= current' BY <1>1, <1>2, <1>4 DEF SessionInv, SentInv, Uids
  <2>2. ASSUME chan'[i].done
        PROVE  /\ pending'[chan'[i].uid] = {}
               /\ \A j \in 1 .. Len(chan') : i < j => chan'[j].uid # chan'[i].uid
    <3>1. chan[i].done /\ chan'[i] = chan[i] /\ chan[i].uid # p.uid BY <1>2, <2>2
    <3>2. pending'[chan'[i].uid] = {} BY <1>4, <3>1 DEF SessionInv, SentInv
    <3>3. \A j \in 1 .. Len(chan) : i < j => chan[j].uid # chan[i].uid BY <3>1 DEF SessionInv, SentInv
    <3> QED BY <1>2, <1>3, <3>1, <3>2, <3>3
  <2> QED BY <2>1, <2>2
<1>6. \A j \in 1 .. Len(chan') : ~(Len(chan) + 1 < j) BY <1>1, <1>2
<1>7. ASSUME NEW i \in 1 .. Len(chan'), i = Len(chan) + 1, chan'[i] = p
      PROVE  /\ chan'[i].uid <= current'
             /\ chan'[i].done => /\ pending'[chan'[i].uid] = {}
                                 /\ \A j \in 1 .. Len(chan') : i < j => chan'[j].uid # chan'[i].uid
  BY <1>6, <1>7
<1>8. \A i \in 1 .. Len(chan') :
        /\ chan'[i].uid <= current'
        /\ chan'[i].done => /\ pending'[chan'[i].uid] = {}
                            /\ \A j \in 1 .. Len(chan') : i < j => chan'[j].uid # chan'[i].uid
  BY <1>3, <1>5, <1>7
<1> QED BY <1>8 DEF SentInv

\* the two facts about what has been asked and sent are inductive by themselves
LEMMA SessionStep == SessionInv /\ [Next]_vars => SessionInv'
<1> SUFFICES ASSUME SessionInv, [Next]_vars PROVE SessionInv'
  OBVIOUS
<1>a. RequestInv' /\ WakeInv' BY RequestStep, WakeStep DEF SessionInv, Implemented
<1>b. SUFFICES SentInv' /\ AskedInv' BY <1>a DEF SessionInv
<1>c. /\ pc \in [Uids -> Points] /\ current \in Int /\ current' \in Int /\ \A u \in Uids : u \in Int
      /\ pending \in [Uids -> SUBSET Clients] /\ pending' \in [Uids -> SUBSET Clients]
  <2>1. current' \in Uids \union {-2} /\ pending' \in [Uids -> SUBSET Clients]
    BY <1>a DEF WakeInv, TypeInv, TypeOK
  <2> QED BY <2>1, SessionTypes DEF Uids
<1>1. ASSUME NEW g \in Uids, Called(g) \/ Pulled(g) \/ Resume(g) \/ Woken(g) \/ Clear(g) \/ Cancel(g)
      PROVE  SentInv' /\ AskedInv'
  <2>1. pc[g] \in Suspended /\ UNCHANGED <<pending, current, chan>>
    BY <1>1 DEF Called, Pulled, Resume, Woken, Clear, Cancel, Suspended, lua
  <2>2. \A h \in Uids \ {g} : pc'[h] = pc[h]
    <3>1. ASSUME Goes(g) PROVE \A h \in Uids \ {g} : pc'[h] = pc[h] BY <1>c, <3>1 DEF Goes
    <3>2. ASSUME NEW p, pc' = [pc EXCEPT ![g] = p] PROVE \A h \in Uids \ {g} : pc'[h] = pc[h]
      BY <1>c, <3>2
    <3>3. ASSUME Called(g) \/ Clear(g) PROVE Goes(g)
      BY <3>3, LoopGoes DEF Called, Clear, SessionInv
    <3>4. ASSUME Woken(g) PROVE Goes(g)
      BY <3>4, WaitGoes DEF Woken, SessionInv
    <3>5. ASSUME Resume(g) PROVE Goes(g) \/ \E p : pc' = [pc EXCEPT ![g] = p]
      <4>1. ASSUME Drained(g, held[g], activity) PROVE Goes(g) BY <4>1, DrainedGoes DEF SessionInv
      <4>2. ASSUME Deliver(g, held[g]) PROVE \E p : pc' = [pc EXCEPT ![g] = p] BY <4>2 DEF Deliver
      <4> QED BY <3>5, <4>1, <4>2 DEF Resume
    <3>6. ASSUME Pulled(g) \/ Cancel(g) PROVE \E p : pc' = [pc EXCEPT ![g] = p]
      BY <3>6 DEF Pulled, Cancel
    <3> QED BY <1>1, <3>1, <3>2, <3>3, <3>4, <3>5, <3>6
  <2>3. g <= current' \/ pc'[g] \in {"calling", "cancelled"}
    <3>1. CASE pc[g] \notin {"calling", "cancelled"}
      BY <2>1, <3>1 DEF SessionInv, AskedInv, Suspended
    <3>2. CASE pc[g] \in {"calling", "cancelled"}
      <4>1. Cancel(g)
        BY <1>1, <3>2 DEF Called, Pulled, Resume, Woken, Clear
      <4> QED BY <1>c, <4>1 DEF Cancel
    <3> QED BY <3>1, <3>2
  <2>4. AskedInv' BY <2>1, <2>2, <2>3 DEF SessionInv, AskedInv
  <2> QED BY <2>1, <2>4, SentKept
<1>2. ASSUME NEW g \in Uids, Start(g) PROVE SentInv' /\ AskedInv'
  <2>1. /\ pc' = [Wake(pc) EXCEPT ![g] = "calling"]
        /\ UNCHANGED <<pending, current, chan>>
    BY <1>2 DEF Start, lua
  <2>2. \A h \in Uids : pc'[h] = IF h = g THEN "calling" ELSE IF pc[h] = "waiting" THEN "woken" ELSE pc[h]
    BY <2>1 DEF Wake
  <2>3. AskedInv' BY <2>1, <2>2 DEF SessionInv, AskedInv
  <2> QED BY <2>1, <2>3, SentKept
<1>3. CASE Notified \/ Granted
  <2>1. /\ UNCHANGED <<pending, current>>
        /\ UNCHANGED chan \/ (chan # <<>> /\ chan' = Tail(chan))
    BY <1>3 DEF Notified, Granted, lua
  <2>2. \A h \in Uids : pc'[h] = pc[h] \/ h <= current
    <3>1. CASE pc' = pc \/ pc' = Wake(pc) BY <3>1 DEF Wake, SessionInv, AskedInv
    <3>2. CASE lockq # <<>> /\ Head(lockq) # -1 /\ pc' = [pc EXCEPT ![Head(lockq)] = "clearing"]
      <4>1. 1 \in 1 .. Len(lockq) /\ lockq[1] = Head(lockq)
        BY <3>2, SessionTypes, HeadTailProperties, EmptySeq
      <4>2. pc[Head(lockq)] = "locking" BY <3>2, <4>1 DEF SessionInv, RequestInv, QueueInv
      <4> QED BY <1>c, <3>2, <4>2 DEF SessionInv, AskedInv
    <3> QED BY <1>3, <3>1, <3>2 DEF Notified, Granted
  <2>3. AskedInv' BY <2>1, <2>2 DEF SessionInv, AskedInv
  <2> QED BY <2>1, <2>3, SentKept
<1>4. CASE LuaReq
  <2> DEFINE u == Head(rpc).uid
  <2>1. /\ rpc # <<>> /\ IsReq(Head(rpc)) /\ current' = u /\ pc' = Answered(u, "calling", "called")
    BY <1>4 DEF LuaReq, IsReq
  <2>2. PICK C \in AskedSets :
          /\ pending' = [pending EXCEPT ![u] = C]
          /\ IF C = {} THEN LspNotify(u, NoClient, TRUE, FALSE, 0) ELSE UNCHANGED chan
    BY <1>4 DEF LuaReq
  <2>3. current < u /\ u \in Uids
    <3>1. rpc \in Seq(Call) /\ Len(rpc) \in Nat BY SessionTypes, LenProperties DEF TypeOK
    <3>2. 1 \in 1 .. Len(rpc) /\ rpc[1] = Head(rpc) /\ Head(rpc) \in Call
      BY <2>1, <3>1, HeadTailProperties, EmptySeq
    <3> QED BY <2>1, <3>2 DEF SessionInv, RequestInv, CallInv, Call
  <2> HIDE DEF u
  <2>4. AskedInv'
    <3>1. \A h \in Uids : pc'[h] = IF h = u /\ pc[h] = "calling" THEN "called" ELSE pc[h]
      BY <1>c, <2>1, <2>3 DEF Answered
    <3>2. \A h \in Uids : h <= current => h <= current' BY <1>c, <2>1, <2>3
    <3>3. u <= current' BY <1>c, <2>1, <2>3
    <3> QED BY <3>1, <3>2, <3>3 DEF SessionInv, AskedInv
  <2>5. \A i \in 1 .. Len(chan) : chan[i].uid # u /\ chan[i].uid \in Uids /\ chan[i].uid <= current
    <3>1. \A i \in 1 .. Len(chan) : chan[i] \in Payload BY SessionTypes, ElementOfSeq
    <3>2. \A i \in 1 .. Len(chan) : chan[i].uid \in Uids BY <3>1 DEF Payload
    <3>3. \A i \in 1 .. Len(chan) : chan[i].uid <= current BY DEF SessionInv, SentInv
    <3>4. \A i \in 1 .. Len(chan) : chan[i].uid # u BY <1>c, <2>3, <3>2, <3>3
    <3> QED BY <3>2, <3>3, <3>4
  <2>6. \A w \in Uids : w # u => pending'[w] = pending[w] BY <1>c, <2>2
  <2>7. CASE C # {}
    <3>1. UNCHANGED chan BY <2>2, <2>7
    <3>2. \A i \in 1 .. Len(chan) : chan[i].uid <= current' BY <1>c, <2>1, <2>3, <2>5
    <3>3. \A i \in 1 .. Len(chan) : chan[i].done => pending'[chan[i].uid] = {}
      BY <2>5, <2>6 DEF SessionInv, SentInv
    <3>4. SentInv' BY <3>1, <3>2, <3>3 DEF SessionInv, SentInv
    <3> QED BY <2>4, <3>4
  <2>8. CASE C = {}
    <3> DEFINE p == [uid |-> u, client |-> NoClient, done |-> TRUE]
    <3>1. chan' = Append(chan, p) BY <2>2, <2>8 DEF LspNotify
    <3>2. p \in Payload /\ p.uid = u BY <2>3 DEF Payload, Names
    <3>3. pending'[u] = {} BY <1>c, <2>2, <2>3, <2>8
    <3> HIDE DEF p
    <3>4. current <= current' /\ u <= current' BY <1>c, <2>1, <2>3
    <3>5. SentInv' BY <1>c, <2>5, <2>6, <3>1, <3>2, <3>3, <3>4, SentAppended
    <3> QED BY <2>4, <3>5
  <2> QED BY <2>7, <2>8
<1>5. CASE LuaPull
  <2>1. /\ UNCHANGED <<pending, current, chan>> /\ pc' = Answered(Head(rpc).uid, "pulling", "pulled")
    BY <1>5 DEF LuaPull, lua
  <2>2. \A h \in Uids : pc'[h] = pc[h] \/ (pc[h] = "pulling" /\ pc'[h] = "pulled")
    BY <1>c, <2>1 DEF Answered
  <2>3. AskedInv' BY <2>1, <2>2 DEF SessionInv, AskedInv
  <2> QED BY <2>1, <2>3, SentKept
<1>6. ASSUME NEW u \in Uids, NEW c \in Clients, ClientReply(u, c) PROVE SentInv' /\ AskedInv'
  <2> DEFINE p == [uid |-> u, client |-> c, done |-> left[u] - 1 = 0]
  <2>1. /\ c \in pending[u] /\ pending' = [pending EXCEPT ![u] = @ \ {c}]
        /\ left' = [left EXCEPT ![u] = @ - 1]
        /\ chan' = Append(chan, p) /\ UNCHANGED <<pc, current>>
    BY <1>6 DEF ClientReply, LspNotify
  <2>2. p \in Payload /\ p.uid = u BY DEF Payload, Names
  <2>3. u <= current
    <3>1. ~(current < u) BY <2>1 DEF SessionInv, RequestInv, CallInv
    <3> QED BY <1>c, <3>1
  <2>4. p.done => pending'[u] = {}
    <3>1. left'[u] = Cardinality(pending'[u]) BY <1>a DEF WakeInv, TypeInv, Counted
    <3>2. left'[u] = left[u] - 1 BY <2>1, SessionTypes DEF TypeOK
    <3>3. IsFiniteSet(pending'[u]) BY <1>c, PendingFinite
    <3> QED BY <3>1, <3>2, <3>3, FS_EmptySet
  <2> HIDE DEF p
  <2>5. \A i \in 1 .. Len(chan) : chan[i].done => chan[i].uid # u
    BY <2>1 DEF SessionInv, SentInv
  <2>6. \A w \in Uids : w # u => pending'[w] = pending[w] BY <1>c, <2>1
  <2>7. current <= current' BY <1>c, <2>1
  <2>8. SentInv' BY <1>c, <2>1, <2>2, <2>3, <2>4, <2>5, <2>6, <2>7, SentAppended
  <2>9. AskedInv' BY <2>1 DEF SessionInv, AskedInv
  <2> QED BY <2>8, <2>9
<1>7. CASE UNCHANGED vars
  <2>1. UNCHANGED <<pc, pending, current, chan>> BY <1>7 DEF vars
  <2>2. AskedInv' BY <2>1 DEF SessionInv, AskedInv
  <2> QED BY <2>1, <2>2, SentKept
<1> QED
  BY <1>1, <1>2, <1>3, <1>4, <1>5, <1>6, <1>7 DEF Next

\* a step of g: the older ones stay where they are
LEMMA OlderStay ==
  ASSUME SessionInv, NEW g \in Uids, Complete(g), pc[g] \in Suspended, NEW p, pc' = [pc EXCEPT ![g] = p]
  PROVE  \A h \in Uids : h < g => pc'[h] \in Ended
<1>1. \A h \in Uids : pc[h] \in Ended => pc'[h] = pc[h] BY EndedStays
<1> QED BY <1>1 DEF Complete

LEMMA DeliverComplete ==
  ASSUME SessionInv, NEW g \in Uids, Complete(g), pc[g] \in Suspended \ {"pulling", "pulled"},
         NEW s \in Held, s.shared => s.acc = state.acc /\ s.done = state.done, s.done => s.shared,
         Deliver(g, s), UNCHANGED <<chan, pending, asked, current>>
  PROVE  Complete(g)'
<1> DEFINE r == Last(s.acc)
<1>0. pc[g] \notin Ended BY DEF Suspended, Ended
<1>1. Owned(g) BY <1>0 DEF Complete
<1>2. PICK p \in {"pulling", "yielded"} :
        /\ pc' = [pc EXCEPT ![g] = p]
        /\ p = "pulling" => UNCHANGED got
        /\ p = "yielded" => got' = [got EXCEPT ![g] = @ \union {[reply |-> r, from |-> -1]}]
  BY DEF Deliver
<1>3. pc'[g] = p /\ \A h \in Uids : h < g => pc'[h] \in Ended
  BY <1>2, SessionTypes, OlderStay
<1>4. item'[g].reply = r
  <2>1. item' = [item EXCEPT ![g] = Fresh(r)] BY DEF Deliver
  <2>2. Fresh(r).reply = r BY DEF Fresh
  <2> HIDE DEF r
  <2> QED BY <2>1, <2>2, SessionTypes
<1>5. /\ held'[g].done = s.done /\ held'[g].shared = s.shared
      /\ state'.uid = state.uid /\ state'.done = state.done
      /\ state'.acc = IF s.shared THEN Front(state.acc) ELSE state.acc
  <2>1. /\ held' = [held EXCEPT ![g] = [s EXCEPT !.acc = Front(@)]]
        /\ state' = IF s.shared THEN [state EXCEPT !.acc = Front(@)] ELSE state
    BY DEF Deliver
  <2> QED BY <2>1, SessionTypes DEF Held, Session
<1>6. ASSUME NEW c, Located(g, c) PROVE Located(g, c)'
  <2>1. CASE \E i \in 1 .. Len(state.acc) : state.acc[i].client = c
    <3>1. PICK i \in 1 .. Len(state.acc) : state.acc[i].client = c BY <2>1
    <3>2. CASE ~s.shared BY <1>5, <3>1, <3>2 DEF Located
    <3>3. CASE s.shared
      <4>1. Len(state.acc) \in Nat /\ \A j \in 1 .. Len(state.acc) : state.acc[j] \in Reply
        BY SessionTypes, ElementOfSeq
      <4>2. state'.acc = SubSeq(state.acc, 1, Len(state.acc) - 1) BY <1>5, <3>3 DEF Front
      <4>3. /\ Len(state'.acc) = Len(state.acc) - 1
            /\ \A j \in 1 .. Len(state.acc) - 1 : state'.acc[j] = state.acc[j]
        BY <3>1, <4>1, <4>2, SubSeqProperties
      <4>4. CASE i # Len(state.acc)
        <5>1. i \in 1 .. Len(state'.acc) BY <4>1, <4>3, <4>4
        <5> QED BY <3>1, <4>3, <5>1 DEF Located
      <4>5. CASE i = Len(state.acc)
        <5>1. r.client = c BY <3>1, <3>3, <4>5 DEF Last
        <5>2. CASE p = "pulling" BY <1>3, <1>4, <5>1, <5>2 DEF Located
        <5>3. CASE p = "yielded"
          <6>1. [reply |-> r, from |-> -1] \in got'[g] BY <1>2, <5>3, SessionTypes
          <6>2. [reply |-> r, from |-> -1].reply.client = c BY <5>1
          <6> QED BY <6>1, <6>2 DEF Located
        <5> QED BY <5>2, <5>3
      <4> QED BY <4>4, <4>5
    <3> QED BY <3>2, <3>3
  <2>2. CASE \E d \in got[g] : d.reply.client = c
    <3>1. got[g] \subseteq got'[g] BY <1>2, SessionTypes
    <3> QED BY <2>2, <3>1 DEF Located
  <2>3. CASE \E i \in 1 .. Len(chan) : chan[i].uid = g /\ chan[i].client = c BY <2>3 DEF Located
  <2> QED BY <1>6, <2>1, <2>2, <2>3 DEF Located
<1>7. Owned(g)'
  <2>1. \A c \in asked'[g] \ pending'[g] : Located(g, c)' BY <1>1, <1>6 DEF Owned
  <2> QED BY <1>1, <1>5, <2>1 DEF Owned
<1> QED BY <1>2, <1>3, <1>7 DEF Complete

\* g leaves its list, empty, for the end or for Wait
LEMMA DrainedComplete ==
  ASSUME SessionInv, NEW g \in Uids, Complete(g), pc[g] \in Suspended \ {"pulling", "pulled"},
         NEW s, NEW ev, s.done => s.acc = state.acc /\ s.done = state.done,
         Drained(g, s, ev), UNCHANGED <<chan, pending, asked, current>>
  PROVE  Complete(g)'
<1>0. pc[g] \notin Ended BY DEF Suspended, Ended
<1>1. Owned(g) BY <1>0 DEF Complete
<1>2. UNCHANGED <<item, got>> /\ s.acc = <<>> BY DEF Drained
<1>3. CASE s.done /\ pc' = [pc EXCEPT ![g] = "done"]
  <2>1. pc'[g] = "done" /\ \A h \in Uids : h < g => pc'[h] \in Ended
    BY <1>3, SessionTypes, OlderStay
  <2>2. state.acc = <<>> /\ state.done BY <1>2, <1>3
  <2>3. pending[g] = {} /\ \A i \in 1 .. Len(chan) : chan[i].uid # g BY <1>1, <2>2 DEF Owned
  <2>4. ASSUME NEW c \in asked[g] PROVE c \in {d.reply.client : d \in got[g]}
    <3>1. Located(g, c) BY <1>1, <2>3 DEF Owned
    <3>2. Len(state.acc) = 0 BY <2>2, EmptySeq
    <3>3. \E d \in got[g] : d.reply.client = c BY <2>3, <3>1, <3>2 DEF Located
    <3> QED BY <3>3
  <2>5. Yielded(g)' BY <1>2, <2>4 DEF Yielded
  <2> QED BY <2>1, <2>5 DEF Complete, Ended
<1>4. CASE Wait(g, ev) /\ UNCHANGED <<state, held>>
  <2>1. PICK p \in {"superseded", "clearing", "locking", "waiting"} : pc' = [pc EXCEPT ![g] = p]
    BY <1>4 DEF Wait, AfterWait, Acquire
  <2>2. pc'[g] = p /\ \A h \in Uids : h < g => pc'[h] \in Ended
    BY <2>1, SessionTypes, OlderStay
  <2>3. Owned(g)' BY <1>1, <1>2, <1>4, <2>2 DEF Owned, Located, Delivering
  <2> QED BY <2>2, <2>3 DEF Complete
<1> QED BY <1>3, <1>4 DEF Drained

LEMMA LoopComplete ==
  ASSUME SessionInv, NEW g \in Uids, Complete(g), pc[g] \in {"called", "clearing"},
         NEW ev, Loop(g, ev), UNCHANGED <<chan, pending, asked, current>>
  PROVE  Complete(g)'
<1> DEFINE s == [done |-> state.done, acc |-> state.acc, shared |-> TRUE]
<1>1. s \in Held BY SessionTypes DEF Session, Held
<1>2. state.uid = g /\ pc[g] \in Suspended \ {"pulling", "pulled"}
  BY DEF Complete, Owned, Suspended, Ended
<1>3. Deliver(g, s) \/ Drained(g, s, ev) BY <1>2 DEF Loop, Uids
<1>4. s.shared /\ s.acc = state.acc /\ s.done = state.done OBVIOUS
<1> HIDE DEF s
<1>5. CASE Deliver(g, s) BY <1>1, <1>2, <1>4, <1>5, DeliverComplete
<1>6. CASE Drained(g, s, ev) BY <1>2, <1>4, <1>6, DrainedComplete
<1> QED BY <1>3, <1>5, <1>6

\* the other steps of g itself
LEMMA GeneratorComplete ==
  ASSUME SessionInv, NEW g \in Uids, Complete(g),
         Called(g) \/ Pulled(g) \/ Resume(g) \/ Woken(g) \/ Clear(g) \/ Cancel(g)
  PROVE  Complete(g)'
<1>1. CASE Called(g) \/ Clear(g)
  BY <1>1, LoopComplete DEF Called, Clear, lua
<1>2. CASE Pulled(g)
  <2> DEFINE d == [reply |-> item[g].reply, from |-> item[g].from]
  <2>1. /\ pc[g] = "pulled" /\ pc' = [pc EXCEPT ![g] = "yielded"]
        /\ got' = [got EXCEPT ![g] = @ \union {d}]
        /\ UNCHANGED <<state, held, item, chan, pending, asked, current>>
    BY <1>2 DEF Pulled, lua
  <2>2. pc'[g] = "yielded" /\ \A h \in Uids : h < g => pc'[h] \in Ended
    BY <2>1, SessionTypes, OlderStay DEF Suspended
  <2>3. got'[g] = got[g] \union {d} /\ d.reply = item[g].reply BY <2>1, SessionTypes
  <2> HIDE DEF d
  <2>4. \A c : Located(g, c) => Located(g, c)' BY <2>1, <2>2, <2>3 DEF Located
  <2>5. Owned(g) BY <2>1 DEF Complete, Ended
  <2>6. Owned(g)' BY <2>1, <2>4, <2>5 DEF Owned, Delivering
  <2> QED BY <2>2, <2>6 DEF Complete
<1>3. CASE Resume(g)
  <2>1. pc[g] = "yielded" /\ UNCHANGED <<chan, pending, asked, current>>
    BY <1>3 DEF Resume, lua
  <2>2. Owned(g) /\ pc[g] \in Suspended \ {"pulling", "pulled"} /\ pc[g] \in Delivering
    BY <2>1 DEF Complete, Ended, Suspended, Delivering
  <2>3. held[g] \in Held /\ (held[g].shared => held[g].acc = state.acc /\ held[g].done = state.done)
    BY <2>2, SessionTypes DEF SessionInv, WakeInv, Synced
  <2>4. held[g].done => held[g].shared BY <2>2 DEF Owned
  <2>5. CASE Deliver(g, held[g]) BY <2>1, <2>2, <2>3, <2>4, <2>5, DeliverComplete
  <2>6. CASE Drained(g, held[g], activity) BY <2>1, <2>2, <2>3, <2>4, <2>6, DrainedComplete
  <2>7. CASE /\ item' = [item EXCEPT ![g].k = @ + 1]
             /\ pc' = [pc EXCEPT ![g] = "pulling"]
             /\ UNCHANGED <<state, held, got>>
    <3>1. pc'[g] = "pulling" /\ \A h \in Uids : h < g => pc'[h] \in Ended
      BY <2>2, <2>7, SessionTypes, OlderStay
    <3>2. \A c : Located(g, c) => Located(g, c)' BY <2>1, <2>7, <3>1 DEF Located
    <3>3. Owned(g)' BY <2>1, <2>2, <2>7, <3>2 DEF Owned
    <3> QED BY <3>1, <3>3 DEF Complete
  <2> QED BY <1>3, <2>5, <2>6, <2>7 DEF Resume
<1>4. CASE Woken(g)
  <2>1. /\ pc[g] = "woken" /\ AfterWait(g)
        /\ UNCHANGED <<state, held, item, got, chan, pending, asked, current>>
    BY <1>4 DEF Woken, lua
  <2>2. PICK p \in {"superseded", "clearing", "locking"} : pc' = [pc EXCEPT ![g] = p]
    BY <2>1 DEF AfterWait, Acquire
  <2>3. pc'[g] = p /\ \A h \in Uids : h < g => pc'[h] \in Ended
    BY <2>1, <2>2, SessionTypes, OlderStay DEF Suspended
  <2>4. Owned(g) BY <2>1 DEF Complete, Ended
  <2>5. Owned(g)' BY <2>1, <2>3, <2>4 DEF Owned, Located, Delivering
  <2> QED BY <2>3, <2>5 DEF Complete
<1>5. CASE Cancel(g)
  <2>1. pc[g] \in Suspended /\ pc' = [pc EXCEPT ![g] = "cancelled"] BY <1>5 DEF Cancel
  <2>2. pc'[g] = "cancelled" /\ \A h \in Uids : h < g => pc'[h] \in Ended
    BY <2>1, SessionTypes, OlderStay
  <2> QED BY <2>2 DEF Complete, Ended
<1> QED BY <1>1, <1>2, <1>3, <1>4, <1>5

\* a step that leaves _STATE, the replies and the calls as they are, moves g only
\* between places of one kind, and leaves its older ones where they have ended
LEMMA SameComplete ==
  ASSUME SessionInv, NEW g \in Uids, Complete(g),
         UNCHANGED <<state, held, chan, pending, asked, current, got>>,
         \A h \in Uids : item'[h].reply = item[h].reply,
         \A h \in Uids : pc[h] \in Ended => pc'[h] = pc[h],
         pc[g] \notin Ended =>
           /\ pc'[g] \notin Ended /\ (pc'[g] \in Delivering => pc[g] \in Delivering)
           /\ pc[g] \in {"pulling", "pulled"} => pc'[g] \in {"pulling", "pulled"}
  PROVE  Complete(g)'
<1>1. \A h \in Uids : h < g => pc'[h] \in Ended BY DEF Complete
<1>2. CASE pc[g] \in Ended
  BY <1>1, <1>2 DEF Complete, Yielded, Ended
<1>3. CASE pc[g] \notin Ended
  <2>1. \A c : Located(g, c) => Located(g, c)' BY <1>3 DEF Located
  <2>2. Owned(g)' BY <1>3, <2>1 DEF Complete, Owned
  <2> QED BY <1>1, <1>3, <2>2 DEF Complete, Ended
<1> QED BY <1>2, <1>3

LEMMA GrantedComplete ==
  ASSUME SessionInv, NEW g \in Uids, Complete(g), Granted
  PROVE  Complete(g)'
<1>1. UNCHANGED <<state, held, item, chan, pending, asked, current, got>> BY DEF Granted, lua
<1>2. \A h \in Uids : pc'[h] = pc[h] \/ (pc[h] \in {"waiting", "locking"} /\ pc'[h] \in {"woken", "clearing"})
  <2>1. CASE pc' = Wake(pc) BY <2>1 DEF Wake
  <2>2. CASE lockq # <<>> /\ Head(lockq) # -1 /\ pc' = [pc EXCEPT ![Head(lockq)] = "clearing"]
    <3>1. 1 \in 1 .. Len(lockq) /\ lockq[1] = Head(lockq)
      BY <2>2, SessionTypes, HeadTailProperties, EmptySeq
    <3>2. pc[Head(lockq)] = "locking" BY <2>2, <3>1 DEF SessionInv, RequestInv, QueueInv
    <3> QED BY <2>2, <3>2, SessionTypes
  <2> QED BY <2>1, <2>2 DEF Granted
<1>3. \A h \in Uids : item'[h].reply = item[h].reply BY <1>1
<1> QED BY <1>1, <1>2, <1>3, SameComplete DEF Ended, Delivering

LEMMA LuaPullComplete ==
  ASSUME SessionInv, NEW g \in Uids, Complete(g), LuaPull
  PROVE  Complete(g)'
<1>1. /\ UNCHANGED <<state, held, chan, pending, asked, current, got>>
      /\ pc' = Answered(Head(rpc).uid, "pulling", "pulled")
  BY DEF LuaPull, lua
<1>2. \A h \in Uids : pc'[h] = pc[h] \/ (pc[h] = "pulling" /\ pc'[h] = "pulled")
  BY <1>1, SessionTypes DEF Answered
<1>3. \A h \in Uids : item'[h].reply = item[h].reply BY SameReplies DEF SessionInv, WakeInv
<1> QED BY <1>1, <1>2, <1>3, SameComplete DEF Ended, Delivering

LEMMA NotifiedComplete ==
  ASSUME SessionInv, NEW g \in Uids, Undisturbed(g), Complete(g), Notified
  PROVE  Complete(g)'
<1> DEFINE p == Head(chan)
<1>1. /\ chan # <<>> /\ chan' = Tail(chan) /\ (pc' = pc \/ pc' = Wake(pc))
      /\ UNCHANGED <<item, pending, asked, current, got>>
      /\ IF state.uid = -1 \/ p.uid >= state.uid
         THEN state' = Renewed(p) /\ held' = Detached
         ELSE UNCHANGED <<state, held>>
  BY DEF Notified, lua
<1>2. \A h \in Uids : pc'[h] = pc[h] \/ (pc[h] = "waiting" /\ pc'[h] = "woken")
  BY <1>1 DEF Wake
<1>3. \A h \in Uids : h < g => pc'[h] \in Ended BY <1>2 DEF Complete, Ended
<1>4. CASE pc[g] \in Ended BY <1>1, <1>2, <1>3, <1>4 DEF Complete, Yielded, Ended
<1>5. CASE pc[g] \notin Ended
  <2>1. Owned(g) /\ pc'[g] \notin Ended BY <1>2, <1>5 DEF Complete, Ended
  <2>2. /\ Len(chan') = Len(chan) - 1 /\ chan[1] = p /\ 1 \in 1 .. Len(chan)
        /\ \A i \in 1 .. Len(chan) - 1 : chan'[i] = chan[i + 1]
    BY <1>1, SessionTypes, HeadTailProperties, EmptySeq
  <2>3. \A i \in 1 .. Len(chan') : i + 1 \in 1 .. Len(chan) /\ 1 < i + 1 /\ chan'[i] = chan[i + 1]
    BY <2>2, SessionTypes
  <2>4. p \in Payload /\ p.uid \in Begun
    <3>1. p \in PayloadsOf(Begun) BY <1>1, HeadTailProperties DEF SessionInv, RequestInv, OrderInv
    <3> QED BY <3>1 DEF PayloadsOf
  <2>5. p.uid \in Uids /\ p.uid \in Int /\ g \in Int /\ g # -1 /\ p.uid <= g
    BY <2>4, SessionTypes DEF Begun, Undisturbed, Uids
  \* the answers of the channel that are not at its head
  <2>6. ASSUME NEW c, \E i \in 1 .. Len(chan) : i # 1 /\ chan[i].uid = g /\ chan[i].client = c
        PROVE  Located(g, c)'
    <3>1. PICK i \in 1 .. Len(chan) : i # 1 /\ chan[i].uid = g /\ chan[i].client = c BY <2>6
    <3>2. i - 1 \in 1 .. Len(chan') /\ (i - 1) + 1 = i BY <2>2, <3>1, SessionTypes
    <3>3. chan'[i - 1] = chan[i] BY <2>3, <3>2
    <3> QED BY <3>1, <3>2, <3>3 DEF Located
  <2>7. ASSUME NEW c, \/ pc[g] \in {"pulling", "pulled"} /\ item[g].reply.client = c
                      \/ \E d \in got[g] : d.reply.client = c
        PROVE  Located(g, c)'
    BY <1>1, <1>2, <2>7 DEF Located
  <2>8. CASE p.uid # g
    <3>1. UNCHANGED <<state, held>> BY <1>1, <2>1, <2>5, <2>8 DEF Owned
    <3>2. ASSUME NEW c, Located(g, c) PROVE Located(g, c)'
      <4>1. CASE \E i \in 1 .. Len(chan) : chan[i].uid = g /\ chan[i].client = c
        BY <2>2, <2>6, <2>8, <4>1
      <4>2. CASE \E i \in 1 .. Len(state.acc) : state.acc[i].client = c BY <3>1, <4>2 DEF Located
      <4> QED BY <2>7, <3>2, <4>1, <4>2 DEF Located
    <3>3. state'.done => g <= current' /\ pending'[g] = {} /\ \A i \in 1 .. Len(chan') : chan'[i].uid # g
      BY <1>1, <2>1, <2>3, <3>1 DEF Owned
    <3>4. pc'[g] \in Delivering /\ held'[g].done => held'[g].shared
      BY <1>2, <2>1, <3>1 DEF Owned, Delivering
    <3>5. Owned(g)' BY <1>1, <2>1, <3>1, <3>2, <3>3, <3>4 DEF Owned
    <3> QED BY <1>3, <2>1, <3>5 DEF Complete, Ended
  <2>9. CASE p.uid = g
    <3> DEFINE r == [uid |-> p.uid, client |-> p.client]
    <3>1. state' = Renewed(p) /\ held' = Detached /\ state.uid = g BY <1>1, <2>1, <2>5, <2>9 DEF Owned
    <3>2. state'.uid = g /\ state'.done = p.done /\ state'.acc = Append(state.acc, r)
      BY <2>9, <3>1 DEF Renewed
    <3>3. r \in Reply /\ r.client = p.client BY <2>4 DEF Payload, Reply
    <3> HIDE DEF r
    <3>4. /\ Len(state'.acc) = Len(state.acc) + 1 /\ state'.acc[Len(state.acc) + 1] = r
          /\ \A i \in 1 .. Len(state.acc) : state'.acc[i] = state.acc[i]
      BY <3>2, <3>3, SessionTypes, AppendProperties
    <3>5. \A i \in 1 .. Len(state.acc) + 1 : i \in 1 .. Len(state'.acc) BY <3>4
    <3>6. ASSUME NEW c, Located(g, c) PROVE Located(g, c)'
      <4>1. CASE \E i \in 1 .. Len(chan) : chan[i].uid = g /\ chan[i].client = c
        <5>1. PICK i \in 1 .. Len(chan) : chan[i].uid = g /\ chan[i].client = c BY <4>1
        <5>2. CASE i # 1 BY <2>6, <5>1, <5>2
        <5>3. CASE i = 1
          <6>1. r.client = c BY <2>2, <3>3, <5>1, <5>3
          <6>2. Len(state.acc) + 1 \in 1 .. Len(state'.acc) BY <3>4, SessionTypes
          <6> QED BY <3>4, <6>1, <6>2 DEF Located
        <5> QED BY <5>2, <5>3
      <4>2. CASE \E i \in 1 .. Len(state.acc) : state.acc[i].client = c
        <5>1. \A i \in 1 .. Len(state.acc) : i \in 1 .. Len(state'.acc) BY <3>4, SessionTypes
        <5> QED BY <3>4, <4>2, <5>1 DEF Located
      <4> QED BY <2>7, <3>6, <4>1, <4>2 DEF Located
    <3>7. ~state.done BY <2>1, <2>2, <2>9 DEF Owned
    <3>8. state'.done => g <= current' /\ pending'[g] = {} /\ \A i \in 1 .. Len(chan') : chan'[i].uid # g
      <4>1. chan[1].uid <= current BY <2>2 DEF SessionInv, SentInv
      <4>2. p.done => pending[g] = {} /\ \A j \in 1 .. Len(chan) : 1 < j => chan[j].uid # g
        BY <2>2, <2>9 DEF SessionInv, SentInv
      <4> QED BY <1>1, <2>2, <2>3, <2>9, <3>2, <4>1, <4>2
    <3>9. pc'[g] \in Delivering => ~held'[g].done
      <4>1. held'[g].done = held[g].done BY <3>1, SessionTypes DEF Detached, Held
      <4>2. pc'[g] \in Delivering => pc[g] \in Delivering BY <1>2 DEF Delivering
      <4>3. pc[g] \in Delivering => ~held[g].done
        BY <2>1, <3>7 DEF Owned, SessionInv, WakeInv, Synced
      <4> QED BY <4>1, <4>2, <4>3
    <3>10. Owned(g)' BY <1>1, <2>1, <3>2, <3>6, <3>8, <3>9 DEF Owned
    <3> QED BY <1>3, <2>1, <3>10 DEF Complete, Ended
  <2> QED BY <2>8, <2>9
<1> QED BY <1>4, <1>5

\* an answer comes to the end of the channel: nothing that is located is lost
LEMMA AppendedLocated ==
  ASSUME SessionInv, NEW g \in Uids, NEW p \in Payload,
         UNCHANGED chan \/ chan' = Append(chan, p),
         UNCHANGED <<state, item, got>>,
         pc[g] \in {"pulling", "pulled"} => pc'[g] = pc[g]
  PROVE  /\ \A c : Located(g, c) => Located(g, c)'
         /\ chan' = Append(chan, p) => Len(chan) + 1 \in 1 .. Len(chan') /\ chan'[Len(chan) + 1] = p
         /\ p.uid # g /\ (\A i \in 1 .. Len(chan) : chan[i].uid # g) => \A i \in 1 .. Len(chan') : chan'[i].uid # g
<1>1. CASE UNCHANGED chan /\ chan' # Append(chan, p) BY <1>1 DEF Located
<1>2. CASE chan' = Append(chan, p)
  <2>1. /\ Len(chan) \in Nat /\ Len(chan') = Len(chan) + 1 /\ chan'[Len(chan) + 1] = p
        /\ \A i \in 1 .. Len(chan) : chan'[i] = chan[i]
    BY <1>2, SessionTypes, AppendProperties
  <2>2. \A i \in 1 .. Len(chan) : i \in 1 .. Len(chan') BY <2>1
  <2>3. \A i \in 1 .. Len(chan') : i \in 1 .. Len(chan) \/ i = Len(chan) + 1 BY <2>1
  <2>4. Len(chan) + 1 \in 1 .. Len(chan') BY <2>1
  <2>5. \A c : Located(g, c) => Located(g, c)' BY <2>1, <2>2 DEF Located
  <2> QED BY <2>1, <2>3, <2>4, <2>5
<1> QED BY <1>1, <1>2

LEMMA ClientReplyComplete ==
  ASSUME SessionInv, NEW g \in Uids, Complete(g), NEW u \in Uids, NEW c \in Clients, ClientReply(u, c)
  PROVE  Complete(g)'
<1> DEFINE p == [uid |-> u, client |-> c, done |-> left[u] - 1 = 0]
<1>1. /\ c \in pending[u] /\ pending' = [pending EXCEPT ![u] = @ \ {c}]
      /\ chan' = Append(chan, p)
      /\ UNCHANGED <<state, pc, held, item, current, got, asked>>
  BY DEF ClientReply, LspNotify
<1>2. p \in Payload /\ p.uid = u /\ p.client = c BY DEF Payload, Names
<1> HIDE DEF p
<1>3. \A h \in Uids : pending'[h] = IF h = u THEN pending[u] \ {c} ELSE pending[h]
  BY <1>1, SessionTypes
<1>4. /\ \A b : Located(g, b) => Located(g, b)'
      /\ Len(chan) + 1 \in 1 .. Len(chan') /\ chan'[Len(chan) + 1] = p
      /\ p.uid # g /\ (\A i \in 1 .. Len(chan) : chan[i].uid # g) => \A i \in 1 .. Len(chan') : chan'[i].uid # g
  BY <1>1, <1>2, AppendedLocated
<1>5. CASE pc[g] \in Ended BY <1>1, <1>5 DEF Complete, Yielded
<1>6. CASE pc[g] \notin Ended
  <2>1. Owned(g) BY <1>6 DEF Complete
  <2>2. \A b \in asked'[g] \ pending'[g] : Located(g, b)'
    <3>1. \A b \in asked'[g] \ pending'[g] : b \in asked[g] \ pending[g] \/ (g = u /\ b = c)
      BY <1>1, <1>3
    <3>2. g = u => Located(g, c)' BY <1>2, <1>4 DEF Located
    <3> QED BY <1>4, <2>1, <3>1, <3>2 DEF Owned
  <2>3. state'.done => g <= current' /\ pending'[g] = {} /\ \A i \in 1 .. Len(chan') : chan'[i].uid # g
    BY <1>1, <1>2, <1>3, <1>4, <2>1 DEF Owned
  <2>4. Owned(g)' BY <1>1, <2>1, <2>2, <2>3 DEF Owned
  <2> QED BY <1>1, <1>6, <2>4 DEF Complete, Ended
<1> QED BY <1>5, <1>6

LEMMA LuaReqComplete ==
  ASSUME SessionInv, NEW g \in Uids, Undisturbed(g), Complete(g), LuaReq
  PROVE  Complete(g)'
<1> DEFINE u == Head(rpc).uid
           p == [uid |-> u, client |-> NoClient, done |-> TRUE]
<1>1. /\ rpc # <<>> /\ IsReq(Head(rpc)) /\ current' = u /\ pc' = Answered(u, "calling", "called")
      /\ UNCHANGED <<state, held, item, got>>
  BY DEF LuaReq, IsReq
<1>2. PICK C \in AskedSets :
        /\ asked' = [asked EXCEPT ![u] = C]
        /\ pending' = [pending EXCEPT ![u] = C]
        /\ UNCHANGED chan \/ chan' = Append(chan, p)
  BY DEF LuaReq, LspNotify
<1>3. current < u /\ u \in Uids /\ u \in Begun
  <2>1. rpc \in Seq(CallsOf(Begun)) /\ rpc \in Seq(Call) /\ Len(rpc) \in Nat
    BY SessionTypes, LenProperties DEF TypeOK, SessionInv, RequestInv, OrderInv
  <2>2. 1 \in 1 .. Len(rpc) /\ rpc[1] = Head(rpc) /\ Head(rpc) \in CallsOf(Begun)
    BY <1>1, <2>1, HeadTailProperties, EmptySeq
  <2>3. current < Head(rpc).uid BY <1>1, <2>2 DEF SessionInv, RequestInv, CallInv
  <2> QED BY <2>2, <2>3 DEF CallsOf, Begun
<1>4. p \in Payload /\ p.uid = u BY <1>3 DEF Payload, Names
<1> HIDE DEF u, p
<1>5. u <= g BY <1>3, SessionTypes DEF Begun, Undisturbed
<1>6. \A h \in Uids : pc'[h] = IF h = u /\ pc[h] = "calling" THEN "called" ELSE pc[h]
  BY <1>1, <1>3, SessionTypes DEF Answered
<1>7. \A h \in Uids : h < g => pc'[h] \in Ended BY <1>6 DEF Complete, Ended
<1>8. \A b : Located(g, b) => Located(g, b)'
  <2>1. pc[g] \in {"pulling", "pulled"} => pc'[g] = pc[g] BY <1>6
  <2> QED BY <1>1, <1>2, <1>4, <2>1, AppendedLocated
<1>9. CASE u # g
  <2>1. asked'[g] = asked[g] /\ pending'[g] = pending[g] /\ pc'[g] = pc[g]
    BY <1>2, <1>6, <1>9, SessionTypes
  <2>2. CASE pc[g] \in Ended BY <1>1, <1>7, <2>1, <2>2 DEF Complete, Yielded
  <2>3. CASE pc[g] \notin Ended
    <3>1. Owned(g) BY <2>3 DEF Complete
    <3>2. ~state.done BY <1>3, <1>5, <3>1, SessionTypes DEF Owned
    <3>3. Owned(g)' BY <1>1, <1>8, <2>1, <3>1, <3>2 DEF Owned
    <3> QED BY <1>7, <2>1, <2>3, <3>3 DEF Complete, Ended
  <2> QED BY <2>2, <2>3
<1>10. CASE u = g
  <2>1. pc[g] \in {"calling", "cancelled"}
    <3>1. ~(g <= current) /\ pc[g] # "idle" BY <1>3, <1>10, SessionTypes DEF Begun
    <3> QED BY <3>1 DEF SessionInv, AskedInv
  <2>2. CASE pc[g] = "cancelled" BY <1>6, <1>7, <2>2 DEF Complete, Ended
  <2>3. CASE pc[g] = "calling"
    <3>1. pc'[g] = "called" BY <1>6, <1>10, <2>3
    <3>2. Owned(g) BY <2>3 DEF Complete, Ended
    <3>3. ~state.done BY <1>3, <1>10, <3>2, SessionTypes DEF Owned
    <3>4. asked'[g] \ pending'[g] = {} BY <1>2, <1>10, SessionTypes
    <3>5. Owned(g)' BY <1>1, <3>1, <3>2, <3>3, <3>4 DEF Owned, Delivering
    <3> QED BY <1>7, <3>1, <3>5 DEF Complete, Ended
  <2> QED BY <2>1, <2>2, <2>3
<1> QED BY <1>9, <1>10

LEMMA StartComplete ==
  ASSUME SessionInv, NEW g \in Uids, Start(g), Undisturbed(g)'
  PROVE  Complete(g)'
<1>1. /\ state' = [uid |-> g, done |-> FALSE, acc |-> <<>>]
      /\ pc' = [Wake(pc) EXCEPT ![g] = "calling"]
      /\ alone' = [alone EXCEPT ![g] = \A h \in Uids : h < g => pc[h] \in Ended]
      /\ UNCHANGED asked
  BY DEF Start, lua
<1>2. \A h \in Uids : pc'[h] = IF h = g THEN "calling" ELSE IF pc[h] = "waiting" THEN "woken" ELSE pc[h]
  BY <1>1 DEF Wake
<1>3. \A h \in Uids : h < g => pc[h] \in Ended
  BY <1>1, SessionTypes DEF Undisturbed, TypeOK
<1>4. \A h \in Uids : h < g => pc'[h] \in Ended
  <2>1. \A h \in Uids : h < g => h # g BY DEF Uids
  <2> QED BY <1>2, <1>3, <2>1 DEF Ended
<1>5. asked'[g] = {}
  <2>1. current < g BY StartIsNewest DEF SessionInv
  <2> QED BY <1>1, <2>1 DEF SessionInv, RequestInv, CallInv
<1>6. Owned(g)' BY <1>1, <1>2, <1>5 DEF Owned, Delivering
<1> QED BY <1>2, <1>4, <1>6 DEF Complete

LEMMA CompleteStep == CompleteInv /\ [Next]_vars => CompleteInv'
<1> SUFFICES ASSUME CompleteInv, [Next]_vars PROVE CompleteInv'
  OBVIOUS
<1>a. SessionInv /\ SessionInv' BY SessionStep DEF CompleteInv
<1> SUFFICES ASSUME NEW g \in Uids, Undisturbed(g)', pc'[g] # "idle" PROVE Complete(g)'
  BY <1>a DEF CompleteInv
<1>b. pc \in [Uids -> Points] BY <1>a, SessionTypes
<1>c. \A h \in Uids : h < g \/ h = g \/ h > g BY DEF Uids
\* but for Start, a step begins nothing, and what it finds undisturbed was so before
<1>1. ASSUME UNCHANGED alone, Begun' = Begun
      PROVE  Undisturbed(g) /\ Complete(g)
  <2>1. Undisturbed(g) /\ pc[g] # "idle" BY <1>1 DEF Undisturbed, Begun
  <2> QED BY <2>1 DEF CompleteInv
<1>2. ASSUME NEW f \in Uids, Start(f) PROVE Complete(g)'
  <2>1. CASE f = g BY <1>a, <1>2, <2>1, StartComplete
  <2>2. CASE f # g
    <3>1. \A h \in Uids : pc'[h] = IF h = f THEN "calling" ELSE IF pc[h] = "waiting" THEN "woken" ELSE pc[h]
      BY <1>2 DEF Start, Wake
    <3>2. ~(f > g) BY <3>1 DEF Undisturbed
    <3>3. pc[g] # "idle" BY <2>2, <3>1
    <3>4. g < f
      <4>1. g \in Begun BY <3>3 DEF Begun
      <4> QED BY <1>2, <1>a, <4>1, StartIsNewest DEF SessionInv
    <3> QED BY <3>2, <3>4 DEF Uids
  <2> QED BY <2>1, <2>2
<1>3. ASSUME NEW f \in Uids,
             Called(f) \/ Pulled(f) \/ Resume(f) \/ Woken(f) \/ Clear(f) \/ Cancel(f)
      PROVE  Complete(g)'
  <2>1. pc[f] \in Suspended /\ UNCHANGED alone
    BY <1>3 DEF Called, Pulled, Resume, Woken, Clear, Cancel, Suspended
  <2>2. Begun' = Begun
    <3>1. ASSUME Goes(f) PROVE Begun' = Begun
      <4>1. PICK p \in Points \ {"idle"} : pc' = [pc EXCEPT ![f] = p] BY <3>1 DEF Goes
      <4> QED BY <1>b, <2>1, <4>1 DEF Begun, Suspended
    <3>2. ASSUME NEW p \in {"pulling", "yielded", "cancelled"}, pc' = [pc EXCEPT ![f] = p]
          PROVE  Begun' = Begun
      BY <1>b, <2>1, <3>2 DEF Begun, Suspended
    <3>3. ASSUME Called(f) \/ Clear(f) PROVE Goes(f)
      BY <1>a, <3>3, LoopGoes DEF Called, Clear, SessionInv
    <3>4. ASSUME Woken(f) PROVE Goes(f)
      BY <1>a, <3>4, WaitGoes DEF Woken, SessionInv
    <3>5. ASSUME Resume(f)
          PROVE  Goes(f) \/ \E p \in {"pulling", "yielded", "cancelled"} : pc' = [pc EXCEPT ![f] = p]
      <4>1. ASSUME Drained(f, held[f], activity) PROVE Goes(f) BY <1>a, <4>1, DrainedGoes DEF SessionInv
      <4>2. ASSUME Deliver(f, held[f])
            PROVE  \E p \in {"pulling", "yielded", "cancelled"} : pc' = [pc EXCEPT ![f] = p]
        BY <4>2 DEF Deliver
      <4> QED BY <3>5, <4>1, <4>2 DEF Resume
    <3>6. ASSUME Pulled(f) \/ Cancel(f)
          PROVE  \E p \in {"pulling", "yielded", "cancelled"} : pc' = [pc EXCEPT ![f] = p]
      BY <3>6 DEF Pulled, Cancel
    <3> QED BY <1>3, <3>1, <3>2, <3>3, <3>4, <3>5, <3>6
  <2>3. Undisturbed(g) /\ Complete(g) BY <1>1, <2>1, <2>2
  <2>4. f = g
    <3>1. ~(f < g) BY <2>1, <2>3 DEF Complete, Suspended, Ended
    <3>2. ~(f > g) BY <2>1, <2>3 DEF Undisturbed, Suspended
    <3> QED BY <1>c, <3>1, <3>2
  <2> QED BY <1>3, <1>a, <2>3, <2>4, GeneratorComplete
<1>4. CASE Notified \/ Granted
  <2>1. /\ UNCHANGED <<alone, asked, pending, current, got>>
        /\ \/ pc' = pc \/ pc' = Wake(pc)
           \/ lockq # <<>> /\ Head(lockq) # -1 /\ pc' = [pc EXCEPT ![Head(lockq)] = "clearing"]
    BY <1>4 DEF Notified, Granted, lua
  <2>2. Begun' = Begun
    <3>1. CASE pc' = pc \/ pc' = Wake(pc) BY <1>a, <2>1, <3>1, WakeKept DEF SessionInv
    <3>2. CASE lockq # <<>> /\ Head(lockq) # -1 /\ pc' = [pc EXCEPT ![Head(lockq)] = "clearing"]
      <4>1. 1 \in 1 .. Len(lockq) /\ lockq[1] = Head(lockq)
        BY <1>a, <3>2, SessionTypes, HeadTailProperties, EmptySeq
      <4>2. pc[Head(lockq)] = "locking" BY <1>a, <3>2, <4>1 DEF SessionInv, RequestInv, QueueInv
      <4> QED BY <1>b, <3>2, <4>2 DEF Begun
    <3> QED BY <2>1, <3>1, <3>2
  <2> QED BY <1>1, <1>4, <1>a, <2>1, <2>2, NotifiedComplete, GrantedComplete
<1>5. CASE LuaReq \/ LuaPull
  <2>1. /\ UNCHANGED alone
        /\ pc' = Answered(Head(rpc).uid, "calling", "called") \/ pc' = Answered(Head(rpc).uid, "pulling", "pulled")
    BY <1>5 DEF LuaReq, LuaPull
  <2>2. Begun' = Begun BY <1>b, <2>1 DEF Begun, Answered
  <2> QED BY <1>1, <1>5, <1>a, <2>1, <2>2, LuaReqComplete, LuaPullComplete
<1>6. ASSUME NEW u \in Uids, NEW c \in Clients, ClientReply(u, c) PROVE Complete(g)'
  <2>1. UNCHANGED alone /\ Begun' = Begun BY <1>6 DEF ClientReply, Begun
  <2> QED BY <1>1, <1>6, <1>a, <2>1, ClientReplyComplete
<1>7. CASE UNCHANGED vars
  <2>1. UNCHANGED alone /\ Begun' = Begun BY <1>7 DEF vars, Begun
  <2>2. Complete(g) BY <1>1, <2>1
  <2> QED BY <1>7, <2>2 DEF vars, Complete, Owned, Located, Yielded
<1> QED
  BY <1>2, <1>3, <1>4, <1>5, <1>6, <1>7 DEF Next

(* A generator that overlaps no other and comes to its end has yielded the answer
   of every client that was asked, wherever its answers were when they came.   *)
THEOREM DoneMeansComplete == Spec => []DoneIsComplete
<1>1. CompleteInv => DoneIsComplete
  BY DEF CompleteInv, Complete, Yielded, DoneIsComplete
<1> QED BY <1>1, CompleteInit, CompleteStep, PTL DEF Spec
===============================================================================
