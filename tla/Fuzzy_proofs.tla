----------------------------- MODULE Fuzzy_proofs -----------------------------
(***************************************************************************)
(* Theorems about Fuzzy, for words of every length: what dl_distance comes   *)
(* to, what metrics makes of it, and what quick_ratio comes to.              *)
(*                                                                         *)
(* Distances is a recursive function and Difference a fold.  What they are   *)
(* for every pair of words is by SetInduction: the set of the numbers up to   *)
(* which a statement holds has 0 and every successor, so it is Nat.          *)
(***************************************************************************)
EXTENDS Fuzzy, SequenceTheorems, FiniteSetTheorems, WellFoundedInduction, TLAPS

-----------------------------------------------------------------------------
(* The reference: Distances is defined, and has in each cell what Apart says of the others.   *)

LEMMA LeastNatural ==
  ASSUME NEW T \in SUBSET Nat, T # {}
  PROVE  \E m \in T : \A k \in T : m <= k
<1>1. PICK m \in T : \A k \in T : ~(<<k, m>> \in OpToRel(<, Nat))
  BY NatLessThanWellFounded, WFMin
<1>2. \A k \in Nat : \A n \in Nat : k < n => <<k, n>> \in OpToRel(<, Nat) BY DEF OpToRel
<1>3. \A k \in T : ~(k < m) BY <1>1, <1>2
<1> QED BY <1>3

\* induction, for the set of the numbers of which something holds
LEMMA SetInduction ==
  ASSUME NEW G \in SUBSET Nat, 0 \in G, \A n \in G : n + 1 \in G
  PROVE  G = Nat
<1> SUFFICES ASSUME Nat \ G # {} PROVE FALSE OBVIOUS
<1>1. PICK m \in Nat \ G : \A k \in Nat \ G : m <= k BY LeastNatural
<1>2. m - 1 \in Nat /\ m - 1 \in G BY <1>1
<1> QED BY <1>1, <1>2

LEMMA LeastOfNaturals ==
  ASSUME NEW S \in SUBSET Nat, S # {}
  PROVE  Min(S) \in S /\ \A x \in S : Min(S) <= x
<1>1. \E x \in S : \A y \in S : x <= y BY LeastNatural
<1> QED BY <1>1 DEF Min

PairsOf(lhs, rhs) == (0 .. Len(lhs)) \X (0 .. Len(rhs))

Ways(D, lhs, rhs, i, j) ==
  {D[<<i - 1, j>>] + 1, D[<<i, j - 1>>] + 1, D[<<i - 1, j - 1>>] + (IF lhs[i] = rhs[j] THEN 0 ELSE 1)}
    \union {D[<<p[1] - 1, p[2] - 1>>] + (i - p[1]) + (j - p[2]) - 1 : p \in Swaps(lhs, rhs, i, j)}

\* the cells that a cell hangs on are nearer to the corner
LEMMA ApartIsNatural ==
  ASSUME NEW lhs, NEW rhs, Len(lhs) \in Nat, Len(rhs) \in Nat, NEW D,
         NEW i \in 0 .. Len(lhs), NEW j \in 0 .. Len(rhs),
         \A x \in 0 .. Len(lhs), y \in 0 .. Len(rhs) : x + y < i + j => D[<<x, y>>] \in Nat
  PROVE  /\ Apart(D, lhs, rhs, i, j) \in Nat
         /\ i > 0 /\ j > 0 => /\ Apart(D, lhs, rhs, i, j) \in Ways(D, lhs, rhs, i, j)
                              /\ \A n \in Ways(D, lhs, rhs, i, j) : Apart(D, lhs, rhs, i, j) <= n
<1>1. CASE i = 0 \/ j = 0 BY <1>1 DEF Apart
<1>2. CASE i > 0 /\ j > 0
  <2> DEFINE C == Ways(D, lhs, rhs, i, j)
  <2>1. i \in Nat /\ j \in Nat /\ i - 1 \in 0 .. Len(lhs) /\ j - 1 \in 0 .. Len(rhs) BY <1>2
  <2>2. D[<<i - 1, j>>] \in Nat /\ D[<<i, j - 1>>] \in Nat /\ D[<<i - 1, j - 1>>] \in Nat BY <1>2, <2>1
  <2>3. ASSUME NEW p \in Swaps(lhs, rhs, i, j)
        PROVE  D[<<p[1] - 1, p[2] - 1>>] + (i - p[1]) + (j - p[2]) - 1 \in Nat
    <3>1. p \in (1 .. i - 1) \X (1 .. j - 1) BY DEF Swaps
    <3>2. PICK a \in 1 .. i - 1, b \in 1 .. j - 1 : p = <<a, b>> BY <3>1
    <3>3. p[1] = a /\ p[2] = b BY <3>2
    <3>4. a - 1 \in 0 .. Len(lhs) /\ b - 1 \in 0 .. Len(rhs) /\ (a - 1) + (b - 1) < i + j BY <2>1, <3>2
    <3>5. D[<<a - 1, b - 1>>] \in Nat BY <3>4
    <3>6. D[<<p[1] - 1, p[2] - 1>>] \in Nat BY <3>3, <3>5
    <3>7. a \in Nat /\ b \in Nat /\ a < i /\ b < j BY <2>1, <3>2
    <3>8. PICK d \in Nat : d = D[<<p[1] - 1, p[2] - 1>>] BY <3>6
    <3>9. d + (i - a) + (j - b) - 1 \in Nat BY <2>1, <3>7
    <3> QED BY <3>3, <3>8, <3>9
  <2>4. C \in SUBSET Nat
    <3> SUFFICES ASSUME NEW n \in C PROVE n \in Nat OBVIOUS
    <3>1. CASE n \in {D[<<i - 1, j>>] + 1, D[<<i, j - 1>>] + 1, D[<<i - 1, j - 1>>] + (IF lhs[i] = rhs[j] THEN 0 ELSE 1)}
      BY <2>2, <3>1
    <3>2. CASE n \in {D[<<p[1] - 1, p[2] - 1>>] + (i - p[1]) + (j - p[2]) - 1 : p \in Swaps(lhs, rhs, i, j)}
      BY <2>3, <3>2
    <3> QED BY <3>1, <3>2 DEF Ways
  <2>5. C # {} BY DEF Ways
  <2>6. Apart(D, lhs, rhs, i, j) = Min(C) BY <1>2, <2>1 DEF Apart, Ways
  <2> HIDE DEF C
  <2>7. Min(C) \in C /\ \A n \in C : Min(C) <= n BY <2>4, <2>5, LeastOfNaturals
  <2> QED BY <2>4, <2>6, <2>7 DEF C
<1> QED BY <1>1, <1>2

\* what is nearer to the corner than a sum
Agree(D, E, lhs, rhs, sum) ==
  \A x \in 0 .. Len(lhs), y \in 0 .. Len(rhs) : x + y < sum => D[<<x, y>>] = E[<<x, y>>]

LEMMA ApartIsLocal ==
  ASSUME NEW lhs, NEW rhs, Len(lhs) \in Nat, Len(rhs) \in Nat, NEW D, NEW E,
         NEW i \in 0 .. Len(lhs), NEW j \in 0 .. Len(rhs), Agree(D, E, lhs, rhs, i + j)
  PROVE  Apart(D, lhs, rhs, i, j) = Apart(E, lhs, rhs, i, j)
<1> USE DEF Agree
<1>1. CASE i = 0 \/ j = 0 BY <1>1 DEF Apart
<1>2. CASE i > 0 /\ j > 0
  <2>1. i \in Nat /\ j \in Nat /\ i - 1 \in 0 .. Len(lhs) /\ j - 1 \in 0 .. Len(rhs) BY <1>2
  <2>2. D[<<i - 1, j>>] = E[<<i - 1, j>>] /\ D[<<i, j - 1>>] = E[<<i, j - 1>>] /\ D[<<i - 1, j - 1>>] = E[<<i - 1, j - 1>>]
    BY <1>2, <2>1
  <2>3. ASSUME NEW p \in Swaps(lhs, rhs, i, j) PROVE D[<<p[1] - 1, p[2] - 1>>] = E[<<p[1] - 1, p[2] - 1>>]
    <3>1. p \in (1 .. i - 1) \X (1 .. j - 1) BY DEF Swaps
    <3>2. PICK a \in 1 .. i - 1, b \in 1 .. j - 1 : p = <<a, b>> BY <3>1
    <3>3. p[1] = a /\ p[2] = b BY <3>2
    <3>4. a - 1 \in 0 .. Len(lhs) /\ b - 1 \in 0 .. Len(rhs) /\ (a - 1) + (b - 1) < i + j BY <2>1, <3>2
    <3>5. D[<<a - 1, b - 1>>] = E[<<a - 1, b - 1>>] BY <3>4
    <3> QED BY <3>3, <3>5
  <2>4. {D[<<p[1] - 1, p[2] - 1>>] + (i - p[1]) + (j - p[2]) - 1 : p \in Swaps(lhs, rhs, i, j)}
          = {E[<<p[1] - 1, p[2] - 1>>] + (i - p[1]) + (j - p[2]) - 1 : p \in Swaps(lhs, rhs, i, j)}
    BY <2>3
  <2> QED BY <1>2, <2>2, <2>4 DEF Apart
<1> QED BY <1>1, <1>2

IsDistances(D, lhs, rhs) ==
  \A i \in 0 .. Len(lhs), j \in 0 .. Len(rhs) : D[<<i, j>>] = Apart(D, lhs, rhs, i, j) /\ D[<<i, j>>] \in Nat

\* the sum of a cell's numbers
LEMMA CellsAreBounded ==
  ASSUME NEW lhs, NEW rhs, Len(lhs) \in Nat, Len(rhs) \in Nat
  PROVE  /\ Len(lhs) + Len(rhs) \in Nat
         /\ \A i \in 0 .. Len(lhs), j \in 0 .. Len(rhs) :
              /\ i \in Nat /\ j \in Nat /\ i + j \in Nat /\ i + j <= Len(lhs) + Len(rhs)
              /\ <<i, j>> \in PairsOf(lhs, rhs)
BY DEF PairsOf

NatTable(D, lhs, rhs) == D \in [PairsOf(lhs, rhs) -> Nat]

\* what holds of the cells up to every sum
DefinedUpTo(D, lhs, rhs, n) ==
  \A i \in 0 .. Len(lhs), j \in 0 .. Len(rhs) : i + j <= n => D[<<i, j>>] = Apart(D, lhs, rhs, i, j)

LEMMA DefinedOneMore ==
  ASSUME NEW lhs, NEW rhs, Len(lhs) \in Nat, Len(rhs) \in Nat,
         NEW n \in Nat, NEW D, NatTable(D, lhs, rhs), DefinedUpTo(D, lhs, rhs, n)
  PROVE  \E E : NatTable(E, lhs, rhs) /\ DefinedUpTo(E, lhs, rhs, n + 1)
<1> DEFINE C == PairsOf(lhs, rhs)
           Next1(c) == IF c[1] + c[2] <= n THEN D[c] ELSE Apart(D, lhs, rhs, c[1], c[2])
<1>1. \A i \in 0 .. Len(lhs), j \in 0 .. Len(rhs) : <<i, j>> \in C BY DEF PairsOf
<1>2. \A i \in 0 .. Len(lhs), j \in 0 .. Len(rhs) : D[<<i, j>>] \in Nat BY <1>1 DEF NatTable
<1>3. ASSUME NEW i \in 0 .. Len(lhs), NEW j \in 0 .. Len(rhs) PROVE Apart(D, lhs, rhs, i, j) \in Nat
  BY <1>2, ApartIsNatural
<1>4. \A c \in C : Next1(c) \in Nat BY <1>2, <1>3 DEF PairsOf
<1>5. PICK E : NatTable(E, lhs, rhs) /\
        \A i \in 0 .. Len(lhs), j \in 0 .. Len(rhs) :
           E[<<i, j>>] = IF i + j <= n THEN D[<<i, j>>] ELSE Apart(D, lhs, rhs, i, j)
  <2> DEFINE E == [c \in C |-> Next1(c)]
  <2>1. E \in [C -> Nat] BY <1>4
  <2>2. \A i \in 0 .. Len(lhs), j \in 0 .. Len(rhs) :
           E[<<i, j>>] = IF i + j <= n THEN D[<<i, j>>] ELSE Apart(D, lhs, rhs, i, j)
    BY <1>1
  <2>3. NatTable(E, lhs, rhs) BY <2>1 DEF NatTable
  <2> HIDE DEF E
  <2> QED BY <2>2, <2>3
<1>6. ASSUME NEW i \in 0 .. Len(lhs), NEW j \in 0 .. Len(rhs), i + j <= n + 1
      PROVE  E[<<i, j>>] = Apart(E, lhs, rhs, i, j)
  <2>1. ASSUME NEW x \in 0 .. Len(lhs), NEW y \in 0 .. Len(rhs), x + y < i + j PROVE D[<<x, y>>] = E[<<x, y>>]
    <3>1. x + y <= n BY <1>6, <2>1
    <3> QED BY <1>5, <3>1
  <2>2. Agree(D, E, lhs, rhs, i + j) BY <2>1 DEF Agree
  <2>4. Apart(D, lhs, rhs, i, j) = Apart(E, lhs, rhs, i, j) BY <2>2, ApartIsLocal
  <2>3. i + j <= n => D[<<i, j>>] = Apart(D, lhs, rhs, i, j) BY DEF DefinedUpTo
  <2> QED BY <1>5, <2>4, <2>3
<1>7. DefinedUpTo(E, lhs, rhs, n + 1) BY <1>6 DEF DefinedUpTo
<1> QED BY <1>5, <1>7

LEMMA DefinedFor ==
  ASSUME NEW lhs, NEW rhs, Len(lhs) \in Nat, Len(rhs) \in Nat
  PROVE  \E D : NatTable(D, lhs, rhs) /\ DefinedUpTo(D, lhs, rhs, Len(lhs) + Len(rhs))
<1> DEFINE G == {n \in Nat : \E D : NatTable(D, lhs, rhs) /\ DefinedUpTo(D, lhs, rhs, n)}
<1>1. 0 \in G
  <2> DEFINE D == [c \in PairsOf(lhs, rhs) |-> 0]
  <2>1. NatTable(D, lhs, rhs) BY DEF NatTable
  <2>2. ASSUME NEW i \in 0 .. Len(lhs), NEW j \in 0 .. Len(rhs), i + j <= 0 PROVE D[<<i, j>>] = Apart(D, lhs, rhs, i, j)
    <3>1. i = 0 /\ j = 0 BY <2>2
    <3>2. Apart(D, lhs, rhs, i, j) = 0 BY <3>1 DEF Apart
    <3>3. <<i, j>> \in PairsOf(lhs, rhs) BY DEF PairsOf
    <3> QED BY <3>2, <3>3
  <2>3. DefinedUpTo(D, lhs, rhs, 0) BY <2>2 DEF DefinedUpTo
  <2> QED BY <2>1, <2>3
<1>2. ASSUME NEW n \in G PROVE n + 1 \in G
  <2>1. n \in Nat /\ n + 1 \in Nat OBVIOUS
  <2>2. \E D : NatTable(D, lhs, rhs) /\ DefinedUpTo(D, lhs, rhs, n) OBVIOUS
  <2>3. \E D : NatTable(D, lhs, rhs) /\ DefinedUpTo(D, lhs, rhs, n + 1) BY <2>1, <2>2, DefinedOneMore
  <2> QED BY <2>1, <2>3
<1>3. G = Nat
  <2>1. G \in SUBSET Nat OBVIOUS
  <2> HIDE DEF G
  <2> QED BY <1>1, <1>2, <2>1, SetInduction
<1>4. Len(lhs) + Len(rhs) \in G BY <1>3, CellsAreBounded
<1> QED BY <1>4

LEMMA DefinedAreNatural ==
  ASSUME NEW lhs, NEW rhs, Len(lhs) \in Nat, Len(rhs) \in Nat, NEW F,
         \A i \in 0 .. Len(lhs), j \in 0 .. Len(rhs) : F[<<i, j>>] = Apart(F, lhs, rhs, i, j)
  PROVE  \A i \in 0 .. Len(lhs), j \in 0 .. Len(rhs) : F[<<i, j>>] \in Nat
<1> DEFINE H == {n \in Nat : \A i \in 0 .. Len(lhs), j \in 0 .. Len(rhs) : i + j <= n => F[<<i, j>>] \in Nat}
<1>1. 0 \in H
  <2>1. ASSUME NEW i \in 0 .. Len(lhs), NEW j \in 0 .. Len(rhs), i + j <= 0 PROVE F[<<i, j>>] \in Nat
    <3>1. i = 0 /\ j = 0 BY <2>1
    <3>2. Apart(F, lhs, rhs, i, j) = 0 BY <3>1 DEF Apart
    <3>3. F[<<i, j>>] = 0 BY <3>2
    <3> QED BY <3>3
  <2> QED BY <2>1
<1>2. ASSUME NEW n \in H PROVE n + 1 \in H
  <2>1. n \in Nat /\ n + 1 \in Nat OBVIOUS
  <2>2. \A x \in 0 .. Len(lhs), y \in 0 .. Len(rhs) : x + y <= n => F[<<x, y>>] \in Nat OBVIOUS
  <2> HIDE DEF H
  <2>3. ASSUME NEW i \in 0 .. Len(lhs), NEW j \in 0 .. Len(rhs), i + j <= n + 1 PROVE F[<<i, j>>] \in Nat
    <3>1. ASSUME NEW x \in 0 .. Len(lhs), NEW y \in 0 .. Len(rhs), x + y < i + j PROVE F[<<x, y>>] \in Nat
      <4>1. x + y <= n BY <2>1, <2>3, <3>1
      <4> QED BY <2>2, <4>1
    <3>2. \A x \in 0 .. Len(lhs), y \in 0 .. Len(rhs) : x + y < i + j => F[<<x, y>>] \in Nat BY <3>1
    <3>3. Apart(F, lhs, rhs, i, j) \in Nat BY <3>2, ApartIsNatural
    <3> QED BY <3>3
  <2> QED BY <2>1, <2>3 DEF H
<1>3. H = Nat
  <2>1. H \in SUBSET Nat OBVIOUS
  <2> HIDE DEF H
  <2> QED BY <1>1, <1>2, <2>1, SetInduction
<1> SUFFICES ASSUME NEW i \in 0 .. Len(lhs), NEW j \in 0 .. Len(rhs) PROVE F[<<i, j>>] \in Nat OBVIOUS
<1>4. i + j \in Nat /\ i + j <= i + j OBVIOUS
<1> HIDE DEF H
<1>5. i + j \in H BY <1>3, <1>4
<1> QED BY <1>4, <1>5 DEF H

\* there is one function that is defined so, built up from the corner
LEMMA DistancesAre ==
  ASSUME NEW lhs, NEW rhs, Len(lhs) \in Nat, Len(rhs) \in Nat
  PROVE  IsDistances(Distances(lhs, rhs), lhs, rhs)
<1> DEFINE C == PairsOf(lhs, rhs)
<1>1. PICK D : NatTable(D, lhs, rhs) /\ DefinedUpTo(D, lhs, rhs, Len(lhs) + Len(rhs)) BY DefinedFor
<1>2. ASSUME NEW i \in 0 .. Len(lhs), NEW j \in 0 .. Len(rhs) PROVE D[<<i, j>>] = Apart(D, lhs, rhs, i, j)
  <2>1. i + j <= Len(lhs) + Len(rhs) BY CellsAreBounded
  <2> QED BY <1>1, <2>1 DEF DefinedUpTo
<1>3. D = [cell \in C |-> Apart(D, lhs, rhs, cell[1], cell[2])]
  <2>1. \A cell \in C : D[cell] = Apart(D, lhs, rhs, cell[1], cell[2]) BY <1>2 DEF PairsOf
  <2> QED BY <1>1, <2>1 DEF NatTable
<1> DEFINE F == Distances(lhs, rhs)
<1>4. F = [cell \in C |-> Apart(F, lhs, rhs, cell[1], cell[2])] BY <1>3 DEF Distances, PairsOf
<1> HIDE DEF F
<1>5. \A i \in 0 .. Len(lhs), j \in 0 .. Len(rhs) : F[<<i, j>>] = Apart(F, lhs, rhs, i, j)
  <2> SUFFICES ASSUME NEW i \in 0 .. Len(lhs), NEW j \in 0 .. Len(rhs) PROVE F[<<i, j>>] = Apart(F, lhs, rhs, i, j) OBVIOUS
  <2>1. <<i, j>> \in C BY DEF PairsOf
  <2>2. <<i, j>>[1] = i /\ <<i, j>>[2] = j OBVIOUS
  <2> QED BY <1>4, <2>1, <2>2
<1>6. \A i \in 0 .. Len(lhs), j \in 0 .. Len(rhs) : F[<<i, j>>] \in Nat BY <1>5, DefinedAreNatural
<1> QED BY <1>5, <1>6 DEF IsDistances, F

LEMMA DistancesAreNatural ==
  ASSUME NEW lhs, NEW rhs, NEW D, IsDistances(D, lhs, rhs), NEW i \in 0 .. Len(lhs), NEW j \in 0 .. Len(rhs)
  PROVE  D[<<i, j>>] = Apart(D, lhs, rhs, i, j) /\ D[<<i, j>>] \in Nat
BY DEF IsDistances

LEMMA DistancesAtEdge ==
  ASSUME NEW lhs, NEW rhs, NEW D, IsDistances(D, lhs, rhs), NEW i \in 0 .. Len(lhs), NEW j \in 0 .. Len(rhs)
  PROVE  (i = 0 => D[<<i, j>>] = j) /\ (j = 0 => D[<<i, j>>] = i)
<1>1. D[<<i, j>>] = Apart(D, lhs, rhs, i, j) BY DistancesAreNatural
<1>2. i = 0 => Apart(D, lhs, rhs, i, j) = j BY DEF Apart
<1>3. j = 0 => Apart(D, lhs, rhs, i, j) = i BY DEF Apart
<1> QED BY <1>1, <1>2, <1>3, Zenon

\* a distance is at most each of what it is chosen from, and one of them
LEMMA DistanceSteps ==
  ASSUME NEW lhs, NEW rhs, Len(lhs) \in Nat, Len(rhs) \in Nat, NEW D, IsDistances(D, lhs, rhs),
         NEW i \in 0 .. Len(lhs), NEW j \in 0 .. Len(rhs)
  PROVE  /\ D[<<i, j>>] \in Nat
         /\ i = 0 => D[<<i, j>>] = j
         /\ j = 0 => D[<<i, j>>] = i
         /\ i > 0 => D[<<i, j>>] <= D[<<i - 1, j>>] + 1
         /\ j > 0 => D[<<i, j>>] <= D[<<i, j - 1>>] + 1
         /\ i > 0 /\ j > 0 =>
              /\ D[<<i, j>>] <= D[<<i - 1, j - 1>>] + (IF lhs[i] = rhs[j] THEN 0 ELSE 1)
              /\ D[<<i, j>>] \in Ways(D, lhs, rhs, i, j)
              /\ \A n \in Ways(D, lhs, rhs, i, j) : D[<<i, j>>] <= n
<1>1. \A x \in 0 .. Len(lhs), y \in 0 .. Len(rhs) : D[<<x, y>>] = Apart(D, lhs, rhs, x, y) /\ D[<<x, y>>] \in Nat
  BY DEF IsDistances
<1>2. i \in Nat /\ j \in Nat OBVIOUS
<1>3. \A y \in 0 .. Len(rhs) : D[<<0, y>>] = y
  <2>1. 0 \in 0 .. Len(lhs) OBVIOUS
  <2>2. \A y \in 0 .. Len(rhs) : Apart(D, lhs, rhs, 0, y) = y BY DEF Apart
  <2> QED BY <1>1, <2>1, <2>2
<1>4. \A x \in 0 .. Len(lhs) : D[<<x, 0>>] = x
  <2>1. 0 \in 0 .. Len(rhs) OBVIOUS
  <2>2. \A x \in 0 .. Len(lhs) : Apart(D, lhs, rhs, x, 0) = x BY DEF Apart
  <2> QED BY <1>1, <2>1, <2>2
<1>5. CASE i = 0
  <2>1. j > 0 => j - 1 \in 0 .. Len(rhs) /\ D[<<0, j - 1>>] = j - 1 BY <1>3
  <2>2. D[<<0, j>>] = j BY <1>3
  <2>3. j = 0 => D[<<i, j>>] = i BY <1>5, <2>2
  <2> QED BY <1>2, <1>5, <2>1, <2>2, <2>3
<1>6. CASE i > 0 /\ j = 0
  <2>1. i - 1 \in 0 .. Len(lhs) /\ D[<<i - 1, 0>>] = i - 1 BY <1>4, <1>6
  <2>2. D[<<i, 0>>] = i BY <1>4
  <2> QED BY <1>2, <1>6, <2>1, <2>2
<1>7. CASE i > 0 /\ j > 0
  <2>1. /\ D[<<i, j>>] \in Ways(D, lhs, rhs, i, j)
        /\ \A n \in Ways(D, lhs, rhs, i, j) : D[<<i, j>>] <= n
    <3>1. \A x \in 0 .. Len(lhs), y \in 0 .. Len(rhs) : x + y < i + j => D[<<x, y>>] \in Nat BY <1>1
    <3>2. /\ Apart(D, lhs, rhs, i, j) \in Ways(D, lhs, rhs, i, j)
          /\ \A n \in Ways(D, lhs, rhs, i, j) : Apart(D, lhs, rhs, i, j) <= n
      BY <1>7, <3>1, ApartIsNatural
    <3>3. D[<<i, j>>] = Apart(D, lhs, rhs, i, j) BY <1>1
    <3> QED BY <3>2, <3>3, Zenon
  <2>2. /\ D[<<i - 1, j>>] + 1 \in Ways(D, lhs, rhs, i, j) /\ D[<<i, j - 1>>] + 1 \in Ways(D, lhs, rhs, i, j)
        /\ D[<<i - 1, j - 1>>] + (IF lhs[i] = rhs[j] THEN 0 ELSE 1) \in Ways(D, lhs, rhs, i, j)
    BY DEF Ways
  <2>3. D[<<i, j>>] \in Nat BY <1>1
  <2>4. i # 0 /\ j # 0 BY <1>7
  <2>5. /\ D[<<i, j>>] <= D[<<i - 1, j>>] + 1 /\ D[<<i, j>>] <= D[<<i, j - 1>>] + 1
        /\ D[<<i, j>>] <= D[<<i - 1, j - 1>>] + (IF lhs[i] = rhs[j] THEN 0 ELSE 1)
    BY <2>1, <2>2, Zenon
  <2> QED BY <2>1, <2>3, <2>4, <2>5, Zenon
<1> QED BY <1>2, <1>5, <1>6, <1>7

LEMMA OneMore ==
  ASSUME NEW a \in Nat, NEW b \in Nat, NEW c \in Nat, NEW n \in Nat, a <= b + 1, b <= c + n
  PROVE  a <= c + (n + 1)
OBVIOUS

\* cells that are near to each other are of nearly the same distance
LEMMA DistancesAreClose ==
  ASSUME NEW lhs, NEW rhs, Len(lhs) \in Nat, Len(rhs) \in Nat, NEW D, IsDistances(D, lhs, rhs),
         NEW i \in 0 .. Len(lhs), NEW j \in 0 .. Len(rhs), NEW x \in 0 .. i, NEW y \in 0 .. j
  PROVE  D[<<i, j>>] <= D[<<x, y>>] + (i - x) + (j - y)
<1> DEFINE Close(n) == \A a \in x .. Len(lhs), b \in y .. Len(rhs) :
                         (a - x) + (b - y) = n => D[<<a, b>>] <= D[<<x, y>>] + n
           G == {n \in Nat : Close(n)}
<1>1. x \in Nat /\ y \in Nat /\ i \in Nat /\ j \in Nat /\ x <= i /\ y <= j /\ i <= Len(lhs) /\ j <= Len(rhs) OBVIOUS
<1>2. x \in 0 .. Len(lhs) /\ y \in 0 .. Len(rhs) BY <1>1
<1>3. D[<<x, y>>] \in Nat BY <1>2, DistanceSteps
<1>4. Close(0)
  <2> SUFFICES ASSUME NEW a \in x .. Len(lhs), NEW b \in y .. Len(rhs), (a - x) + (b - y) = 0
               PROVE  D[<<a, b>>] <= D[<<x, y>>] + 0
    OBVIOUS
  <2>1. a = x /\ b = y BY <1>1
  <2> QED BY <1>3, <2>1
<1>5. ASSUME NEW n \in Nat, Close(n) PROVE Close(n + 1)
  <2> SUFFICES ASSUME NEW a \in x .. Len(lhs), NEW b \in y .. Len(rhs), (a - x) + (b - y) = n + 1
               PROVE  D[<<a, b>>] <= D[<<x, y>>] + (n + 1)
    OBVIOUS
  <2>1. a \in 0 .. Len(lhs) /\ b \in 0 .. Len(rhs) BY <1>1
  <2>2. D[<<a, b>>] \in Nat BY <2>1, DistanceSteps
  <2>3. CASE a > x
    <3>1. a - 1 \in x .. Len(lhs) /\ ((a - 1) - x) + (b - y) = n BY <1>1, <2>3
    <3>2. D[<<a - 1, b>>] <= D[<<x, y>>] + n BY <1>5, <3>1
    <3>3. a > 0 /\ a - 1 \in 0 .. Len(lhs) BY <1>1, <2>3
    <3>4. D[<<a, b>>] <= D[<<a - 1, b>>] + 1 BY <2>1, <3>3, DistanceSteps
    <3>5. D[<<a - 1, b>>] \in Nat BY <2>1, <3>3, DistancesAreNatural
    <3> HIDE DEF Close, G
    <3> QED BY <1>3, <2>2, <3>2, <3>4, <3>5, OneMore, Zenon
  <2>4. CASE ~(a > x)
    <3>0. b > y BY <1>1, <2>4
    <3>1. b - 1 \in y .. Len(rhs) /\ (a - x) + ((b - 1) - y) = n BY <1>1, <3>0
    <3>2. D[<<a, b - 1>>] <= D[<<x, y>>] + n BY <1>5, <3>1
    <3>3. b > 0 /\ b - 1 \in 0 .. Len(rhs) BY <1>1, <3>0
    <3>4. D[<<a, b>>] <= D[<<a, b - 1>>] + 1 BY <2>1, <3>3, DistanceSteps
    <3>5. D[<<a, b - 1>>] \in Nat BY <2>1, <3>3, DistancesAreNatural
    <3> HIDE DEF Close, G
    <3> QED BY <1>3, <2>2, <3>2, <3>4, <3>5, OneMore, Zenon
  <2> QED BY <2>3, <2>4
<1> HIDE DEF Close
<1>6. G = Nat
  <2>1. G \in SUBSET Nat /\ 0 \in G /\ \A n \in G : n + 1 \in G BY <1>4, <1>5
  <2> HIDE DEF G
  <2> QED BY <2>1, SetInduction
<1>7. (i - x) + (j - y) \in Nat BY <1>1
<1>8. Close((i - x) + (j - y)) BY <1>6, <1>7
<1>9. D[<<i, j>>] <= D[<<x, y>>] + ((i - x) + (j - y))
  <2>1. i \in x .. Len(lhs) /\ j \in y .. Len(rhs) BY <1>1
  <2> QED BY <1>8, <2>1 DEF Close
<1> QED BY <1>1, <1>3, <1>9

LEMMA LeastIs ==
  ASSUME NEW S \in SUBSET Int, NEW n \in S, \A x \in S : n <= x
  PROVE  Min(S) = n
<1>1. \E x \in S : \A y \in S : x <= y OBVIOUS
<1>2. Min(S) \in S /\ \A y \in S : Min(S) <= y BY <1>1 DEF Min
<1> DEFINE m == Min(S)
<1> HIDE DEF m
<1>3. m \in S /\ m <= n /\ n <= m BY <1>2 DEF m
<1>4. m = n BY <1>3
<1> QED BY <1>4 DEF m

LEMMA SwapIsNumber ==
  ASSUME NEW f \in Int, NEW i \in Nat, NEW x \in Nat, NEW j \in Nat, NEW y \in Nat
  PROVE  f + (i - x - 1) + 1 + (j - y - 1) \in Int
OBVIOUS

\* where a character has been seen last, or 0
LastSeen(word, char, n, at) ==
  /\ at \in 0 .. n
  /\ at > 0 => word[at] = char
  /\ \A k \in at + 1 .. n : word[k] # char

\* what the code knows at a cell: f is what the table has where the rows and columns of a swap end
KnownAt(D, lhs, rhs, i, j, i1, db, f) ==
  /\ i \in 1 .. Len(lhs) /\ j \in 1 .. Len(rhs) /\ f \in Int
  /\ LastSeen(lhs, rhs[j], i - 1, i1) /\ LastSeen(rhs, lhs[i], j - 1, db)
  /\ i1 = 0 \/ db = 0 => f = Len(lhs) + Len(rhs)
  /\ i1 > 0 /\ db > 0 => f = D[<<i1 - 1, db - 1>>]

LEMMA UnseenIsFar ==
  ASSUME NEW x \in Nat, NEW y \in Nat, NEW i \in Nat, NEW j \in Nat, NEW i1 \in Nat, NEW db \in Nat, NEW n \in Nat, NEW f,
         f = x + y, i <= x, j <= y, i1 <= i - 1, db <= j - 1, n <= i + j
  PROVE  n <= f + (i - i1 - 1) + 1 + (j - db - 1)
<1> DEFINE d == (i - i1 - 1) + (j - db - 1)
<1>1. d \in Nat /\ n <= x + y + d BY DEF d
<1> QED BY <1>1

\* the least of the four that the code looks at
Looked(D, lhs, rhs, i, j, i1, db, f) ==
  Min({D[<<i - 1, j - 1>>] + (IF lhs[i] = rhs[j] THEN 0 ELSE 1), D[<<i, j - 1>>] + 1, D[<<i - 1, j>>] + 1,
       f + (i - i1 - 1) + 1 + (j - db - 1)})

\* A swap with what has been seen last costs no more than any other, and what has not been seen is never chosen:
\* so the four numbers that the code takes the least of have the same least as all there are.
LEMMA CellIsApart ==
  ASSUME NEW lhs, NEW rhs, Len(lhs) \in Nat, Len(rhs) \in Nat, NEW D, IsDistances(D, lhs, rhs),
         NEW i, NEW j, NEW i1, NEW db, NEW f, KnownAt(D, lhs, rhs, i, j, i1, db, f)
  PROVE  Looked(D, lhs, rhs, i, j, i1, db, f) = D[<<i, j>>]
<1> DEFINE a == D[<<i - 1, j - 1>>] + (IF lhs[i] = rhs[j] THEN 0 ELSE 1)
           b == D[<<i, j - 1>>] + 1
           c == D[<<i - 1, j>>] + 1
           g == f + (i - i1 - 1) + 1 + (j - db - 1)
           n == D[<<i, j>>]
<1>0. /\ i \in 1 .. Len(lhs) /\ j \in 1 .. Len(rhs) /\ f \in Int
      /\ LastSeen(lhs, rhs[j], i - 1, i1) /\ LastSeen(rhs, lhs[i], j - 1, db)
      /\ i1 = 0 \/ db = 0 => f = Len(lhs) + Len(rhs)
      /\ i1 > 0 /\ db > 0 => f = D[<<i1 - 1, db - 1>>]
  BY DEF KnownAt
<1>1. /\ i \in 0 .. Len(lhs) /\ j \in 0 .. Len(rhs) /\ i - 1 \in 0 .. Len(lhs) /\ j - 1 \in 0 .. Len(rhs)
      /\ i > 0 /\ j > 0 /\ i \in Nat /\ j \in Nat
  BY <1>0
<1>2. i1 \in 0 .. i - 1 /\ db \in 0 .. j - 1 BY <1>0 DEF LastSeen
<1>3. i1 \in Nat /\ db \in Nat /\ i1 <= i - 1 /\ db <= j - 1 BY <1>1, <1>2
<1>4. D[<<i - 1, j - 1>>] \in Nat /\ D[<<i, j - 1>>] \in Nat /\ D[<<i - 1, j>>] \in Nat /\ n \in Nat
  BY <1>1, DistancesAreNatural
<1>5. a \in Int /\ b \in Int /\ c \in Int /\ g \in Int
  <2>1. a \in Int /\ b \in Int /\ c \in Int BY <1>4
  <2>2. g \in Int BY <1>0, <1>1, <1>3, SwapIsNumber, Zenon
  <2> HIDE DEF a, b, c, g
  <2> QED BY <2>1, <2>2
<1>6. /\ n <= a /\ n <= b /\ n <= c /\ n \in Ways(D, lhs, rhs, i, j)
      /\ \A m \in Ways(D, lhs, rhs, i, j) : n <= m
  <2>1. /\ i > 0 => D[<<i, j>>] <= D[<<i - 1, j>>] + 1
        /\ j > 0 => D[<<i, j>>] <= D[<<i, j - 1>>] + 1
        /\ i > 0 /\ j > 0 =>
              /\ D[<<i, j>>] <= D[<<i - 1, j - 1>>] + (IF lhs[i] = rhs[j] THEN 0 ELSE 1)
              /\ D[<<i, j>>] \in Ways(D, lhs, rhs, i, j)
              /\ \A m \in Ways(D, lhs, rhs, i, j) : D[<<i, j>>] <= m
    BY <1>1, DistanceSteps, Zenon
  <2> QED BY <1>1, <2>1, Zenon
<1>7. n <= g
  <2>1. CASE i1 = 0 \/ db = 0
    <3>1. f = Len(lhs) + Len(rhs) BY <1>0, <2>1
    <3>2. 0 \in 0 .. i /\ 0 \in 0 .. j /\ 0 \in 0 .. Len(lhs) /\ 0 \in 0 .. Len(rhs) BY <1>1
    <3>3. D[<<0, 0>>] = 0
      <4>1. Apart(D, lhs, rhs, 0, 0) = 0 BY DEF Apart
      <4> QED BY <3>2, <4>1, DistancesAreNatural
    <3>4. n <= D[<<0, 0>>] + (i - 0) + (j - 0) BY <1>1, <3>2, DistancesAreClose
    <3>5. n <= i + j BY <1>1, <3>3, <3>4
    <3>6. i <= Len(lhs) /\ j <= Len(rhs) BY <1>0
    <3> HIDE DEF n
    <3> QED BY <1>1, <1>3, <1>4, <3>1, <3>5, <3>6, UnseenIsFar
  <2>2. CASE i1 > 0 /\ db > 0
    <3>1. f = D[<<i1 - 1, db - 1>>] BY <1>0, <2>2
    <3>2. i1 \in 1 .. i - 1 /\ db \in 1 .. j - 1 BY <1>1, <1>3, <2>2
    <3>3. lhs[i1] = rhs[j] /\ lhs[i] = rhs[db] BY <1>0, <2>2 DEF LastSeen
    <3>4. <<i1, db>> \in Swaps(lhs, rhs, i, j) BY <3>2, <3>3 DEF Swaps
    <3>5. D[<<<<i1, db>>[1] - 1, <<i1, db>>[2] - 1>>] + (i - <<i1, db>>[1]) + (j - <<i1, db>>[2]) - 1
            \in Ways(D, lhs, rhs, i, j)
      BY <3>4, Zenon DEF Ways
    <3>6. f + (i - i1) + (j - db) - 1 \in Ways(D, lhs, rhs, i, j) BY <3>1, <3>5
    <3>7. n <= f + (i - i1) + (j - db) - 1 BY <1>6, <3>6
    <3>8. f + (i - i1) + (j - db) - 1 = g BY <1>0, <1>1, <1>3
    <3> QED BY <3>7, <3>8, Zenon
  <2> QED BY <1>3, <2>1, <2>2
<1>8. n = a \/ n = b \/ n = c \/ n = g
  <2>1. CASE n \in {D[<<i - 1, j>>] + 1, D[<<i, j - 1>>] + 1, a} BY <2>1
  <2>2. CASE n \in {D[<<p[1] - 1, p[2] - 1>>] + (i - p[1]) + (j - p[2]) - 1 : p \in Swaps(lhs, rhs, i, j)}
    <3>1. PICK p \in Swaps(lhs, rhs, i, j) : n = D[<<p[1] - 1, p[2] - 1>>] + (i - p[1]) + (j - p[2]) - 1 BY <2>2
    <3>2. p \in (1 .. i - 1) \X (1 .. j - 1) /\ lhs[p[1]] = rhs[j] /\ lhs[i] = rhs[p[2]] BY DEF Swaps
    <3>3. PICK x \in 1 .. i - 1, y \in 1 .. j - 1 : p = <<x, y>> BY <3>2
    <3>4. p[1] = x /\ p[2] = y BY <3>3
    <3>5. lhs[x] = rhs[j] /\ lhs[i] = rhs[y] /\ n = D[<<x - 1, y - 1>>] + (i - x) + (j - y) - 1
      BY <3>1, <3>2, <3>4
    <3>6. x \in Nat /\ y \in Nat /\ x >= 1 /\ y >= 1 /\ x <= i - 1 /\ y <= j - 1 BY <1>1
    <3>7. ~(x \in i1 + 1 .. i - 1) /\ ~(y \in db + 1 .. j - 1) BY <1>0, <3>5 DEF LastSeen
    <3>8. x <= i1 /\ y <= db BY <1>1, <1>3, <3>6, <3>7
    <3>9. f = D[<<i1 - 1, db - 1>>] BY <1>0, <1>3, <3>6, <3>8
    <3>10. /\ i1 - 1 \in 0 .. Len(lhs) /\ db - 1 \in 0 .. Len(rhs)
           /\ x - 1 \in 0 .. i1 - 1 /\ y - 1 \in 0 .. db - 1 /\ x - 1 \in 0 .. Len(lhs) /\ y - 1 \in 0 .. Len(rhs)
      BY <1>1, <1>3, <3>6, <3>8
    <3>11. f <= D[<<x - 1, y - 1>>] + ((i1 - 1) - (x - 1)) + ((db - 1) - (y - 1)) BY <3>9, <3>10, DistancesAreClose
    <3>12. D[<<x - 1, y - 1>>] \in Nat BY <3>10, DistancesAreNatural
    <3>13. PICK d \in Nat : d = D[<<x - 1, y - 1>>] BY <3>12
    <3>14. f <= d + ((i1 - 1) - (x - 1)) + ((db - 1) - (y - 1)) /\ n = d + (i - x) + (j - y) - 1
      BY <3>5, <3>11, <3>13, Zenon
    <3> HIDE DEF n
    <3>15. f + (i - i1 - 1) + 1 + (j - db - 1) <= n BY <1>0, <1>1, <1>3, <3>6, <3>14
    <3>16. g <= n BY <3>15
    <3> HIDE DEF g
    <3>17. g = n BY <1>4, <1>5, <1>7, <3>16
    <3> QED BY <3>17
  <2> QED BY <1>6, <2>1, <2>2 DEF Ways
<1>9. Min({a, b, c, g}) = n
  <2> DEFINE S == {a, b, c, g}
  <2>1. n <= a /\ n <= b /\ n <= c BY <1>6
  <2> HIDE DEF a, b, c, g, n
  <2>2. S \in SUBSET Int /\ n \in S /\ \A x \in S : n <= x BY <1>5, <1>7, <1>8, <2>1
  <2> HIDE DEF S
  <2>3. Min(S) = n BY <2>2, LeastIs
  <2> QED BY <2>3 DEF S
<1> QED BY <1>9, Zenon DEF Looked

-----------------------------------------------------------------------------
(* The table has integers, no more than the row or the column of a cell, whatever row another
   thread has put into _DA.                                                   *)

LEMMA MinIsLeast ==
  ASSUME NEW a \in Int, NEW b \in Int, NEW c \in Int, NEW e \in Int
  PROVE  Min({a, b, c, e}) \in Int /\ Min({a, b, c, e}) <= a
<1>1. \E x \in {a, b, c, e} : \A y \in {a, b, c, e} : x <= y
  <2> DEFINE m1 == IF a <= b THEN a ELSE b
             m2 == IF c <= e THEN c ELSE e
             m == IF m1 <= m2 THEN m1 ELSE m2
  <2>1. m \in {a, b, c, e} /\ m <= a /\ m <= b /\ m <= c /\ m <= e OBVIOUS
  <2> QED BY <2>1
<1>2. Min({a, b, c, e}) \in {a, b, c, e} /\ \A y \in {a, b, c, e} : Min({a, b, c, e}) <= y
  BY <1>1 DEF Min
<1> QED BY <1>2

LEMMA OfTwo ==
  ASSUME NEW a \in Int, NEW b \in Int
  PROVE  Min({a, b}) = (IF a <= b THEN a ELSE b) /\ Max({a, b}) = (IF a <= b THEN b ELSE a)
<1>1. \E x \in {a, b} : \A y \in {a, b} : x <= y OBVIOUS
<1>2. \E x \in {a, b} : \A y \in {a, b} : x >= y OBVIOUS
<1>3. Min({a, b}) \in {a, b} /\ \A y \in {a, b} : Min({a, b}) <= y BY <1>1 DEF Min
<1>4. Max({a, b}) \in {a, b} /\ \A y \in {a, b} : Max({a, b}) >= y BY <1>2 DEF Max
<1> QED BY <1>3, <1>4

LEMMA PrefixIsShort ==
  ASSUME NEW S, NEW lhs \in Seq(S), NEW T, NEW rhs \in Seq(T)
  PROVE  /\ Shorter(lhs, rhs) = (IF Len(lhs) <= Len(rhs) THEN Len(lhs) ELSE Len(rhs))
         /\ Longer(lhs, rhs) = (IF Len(lhs) <= Len(rhs) THEN Len(rhs) ELSE Len(lhs))
         /\ Matches(lhs, rhs) \in 0 .. Shorter(lhs, rhs)
         /\ \A k \in 1 .. Matches(lhs, rhs) : lhs[k] = rhs[k]
         /\ Matches(lhs, rhs) < Shorter(lhs, rhs) => lhs[Matches(lhs, rhs) + 1] # rhs[Matches(lhs, rhs) + 1]
<1>0. Len(lhs) \in Int /\ Len(rhs) \in Int OBVIOUS
<1>1. /\ Shorter(lhs, rhs) = (IF Len(lhs) <= Len(rhs) THEN Len(lhs) ELSE Len(rhs))
      /\ Longer(lhs, rhs) = (IF Len(lhs) <= Len(rhs) THEN Len(rhs) ELSE Len(lhs))
  BY <1>0, OfTwo DEF Shorter, Longer
<1> DEFINE s == Shorter(lhs, rhs)
           Ends == {p \in 0 .. s : p < s => lhs[p + 1] # rhs[p + 1]}
<1>2. s \in Nat BY <1>1
<1> HIDE DEF s
<1>3. s \in Ends /\ Ends \in SUBSET Nat BY <1>2
<1>4. PICK p \in Ends : \A q \in Ends : p <= q
  <2> HIDE DEF Ends
  <2> QED BY <1>3, LeastNatural
<1>5. \A k \in 1 .. p : lhs[k] = rhs[k]
  <2> SUFFICES ASSUME NEW k \in 1 .. p PROVE lhs[k] = rhs[k] OBVIOUS
  <2>1. k \in Nat /\ 1 <= k /\ k <= p /\ p \in Nat /\ p <= s BY <1>2, <1>4
  <2>2. k - 1 \in 0 .. s /\ k - 1 < s /\ ~(p <= k - 1) BY <1>2, <2>1
  <2>3. k - 1 \notin Ends
    <3> HIDE DEF Ends
    <3> QED BY <1>4, <2>2
  <2> QED BY <2>2, <2>3
<1>6. p \in 0 .. s /\ (p < s => lhs[p + 1] # rhs[p + 1]) OBVIOUS
<1>7. \E q \in 0 .. s : (\A k \in 1 .. q : lhs[k] = rhs[k]) /\ (q < s => lhs[q + 1] # rhs[q + 1])
  BY <1>5, <1>6
<1>8. /\ Matches(lhs, rhs) \in 0 .. s
      /\ \A k \in 1 .. Matches(lhs, rhs) : lhs[k] = rhs[k]
      /\ Matches(lhs, rhs) < s => lhs[Matches(lhs, rhs) + 1] # rhs[Matches(lhs, rhs) + 1]
  BY <1>7 DEF Matches, s
<1> QED BY <1>1, <1>8 DEF s

\* what is compared of the two words is no longer than what they are looked at and have not in common
LEMMA ComparedIsShort ==
  ASSUME NEW c, IsWord(c.cword), IsWord(c.match)
  PROVE  /\ Lhs(c) \in Seq(ToSet(c.cword)) /\ Rhs(c) \in Seq(ToSet(c.match))
         /\ Cutoff(c) \in Nat /\ More(c) = Cutoff(c) - Shorter(c.cword, c.match)
         /\ Shorter(c.cword, c.match) \in Nat /\ Matches(c.cword, c.match) \in Nat
         /\ Len(Lhs(c)) <= Cutoff(c) - Matches(c.cword, c.match)
         /\ Len(Rhs(c)) <= Cutoff(c) - Matches(c.cword, c.match)
<1> DEFINE u == c.cword
           v == c.match
           s == Shorter(u, v)
           p == Matches(u, v)
<1>1. u \in Seq(ToSet(u)) /\ v \in Seq(ToSet(v)) BY DEF IsWord
<1>2. /\ s = (IF Len(u) <= Len(v) THEN Len(u) ELSE Len(v))
      /\ Longer(u, v) = (IF Len(u) <= Len(v) THEN Len(v) ELSE Len(u))
      /\ p \in 0 .. s
  BY <1>1, PrefixIsShort
<1>3. Len(u) \in Nat /\ Len(v) \in Nat BY <1>1
<1>4. Cutoff(c) = (IF Longer(u, v) <= s + FzLookAhead THEN Longer(u, v) ELSE s + FzLookAhead)
  BY <1>2, <1>3, OfTwo, FzAssumption DEF Cutoff
<1>5. Cutoff(c) \in Nat /\ s <= Cutoff(c) BY <1>2, <1>3, <1>4, FzAssumption
<1>6. ASSUME NEW S, NEW word \in Seq(S), s <= Len(word)
      PROVE  Tail1(c, word) \in Seq(S) /\ Len(Tail1(c, word)) <= Cutoff(c) - p
  <2> DEFINE n == Min({Cutoff(c), Len(word)})
  <2>1. Len(word) \in Nat BY <1>6
  <2>2. n = (IF Cutoff(c) <= Len(word) THEN Cutoff(c) ELSE Len(word)) BY <1>5, <2>1, OfTwo
  <2>3. n \in Nat /\ n <= Len(word) /\ n <= Cutoff(c) /\ p <= n /\ p \in Nat BY <1>2, <1>3, <1>5, <1>6, <2>1, <2>2
  <2> HIDE DEF n
  <2>4. SubSeq(word, p + 1, n) \in Seq(S) /\ Len(SubSeq(word, p + 1, n)) = (IF p + 1 <= n THEN n - (p + 1) + 1 ELSE 0)
    BY <2>1, <2>3, SubSeqProperties
  <2>5. Tail1(c, word) = SubSeq(word, p + 1, n) BY DEF Tail1, n
  <2> QED BY <1>5, <2>3, <2>4, <2>5
<1>7. s <= Len(u) /\ s <= Len(v) /\ s \in Nat /\ p \in Nat BY <1>2, <1>3
<1> QED BY <1>1, <1>5, <1>6, <1>7 DEF Lhs, Rhs, More

FzCells(c) == (0 .. Len(Lhs(c)) + 1) \X (0 .. Len(Rhs(c)) + 1)

\* a table that is being filled: a cell is at most as far as it is from the corner
FzTableOK(c) ==
  /\ c.i \in Nat \ {0} /\ c.j \in Nat \ {0} /\ c.db \in 0 .. c.j - 1
  /\ c.d \in [FzCells(c) -> Int]
  /\ \A x \in 1 .. Len(Lhs(c)) + 1, y \in 1 .. Len(Rhs(c)) + 1 :
       c.d[<<x, y>>] <= x - 1 \/ c.d[<<x, y>>] <= y - 1

FzDistOK(c) == c.dist \in Int /\ (c.dist <= Len(Lhs(c)) \/ c.dist <= Len(Rhs(c)))

FzFields == {"at", "cword", "match", "i", "j", "db", "d", "dist"}

FzCallOK(c) ==
  /\ DOMAIN c = FzFields
  /\ IsWord(c.cword) /\ IsWord(c.match)
  /\ c.at = "table" => FzTableOK(c)
  /\ c.at = "done" /\ Shorter(c.cword, c.match) > 0 => FzDistOK(c)

FzInv ==
  /\ fzCall = [t \in FzThreads |-> fzCall[t]]
  /\ \A t \in FzThreads : FzCallOK(fzCall[t])
  /\ \A char \in DOMAIN fzDA : fzDA[char] \in Nat

LEMMA TableBegins ==
  ASSUME NEW lhs, NEW rhs, Len(lhs) \in Nat, Len(rhs) \in Nat
  PROVE  /\ Table(lhs, rhs) \in [(0 .. Len(lhs) + 1) \X (0 .. Len(rhs) + 1) -> Int]
         /\ \A x \in 1 .. Len(lhs) + 1, y \in 1 .. Len(rhs) + 1 :
              Table(lhs, rhs)[<<x, y>>] <= x - 1 \/ Table(lhs, rhs)[<<x, y>>] <= y - 1
<1> DEFINE L == Len(lhs)
           R == Len(rhs)
           Cells == (0 .. L + 1) \X (0 .. R + 1)
           Value(cell) == IF cell[1] = 0 \/ cell[2] = 0 THEN L + R
                            ELSE IF cell[2] = 1 THEN cell[1] - 1
                            ELSE IF cell[1] = 1 THEN cell[2] - 1
                            ELSE 0
<1>1. Table(lhs, rhs) = [cell \in Cells |-> Value(cell)] BY DEF Table
<1>2. \A cell \in Cells : Value(cell) \in Int
  <2> SUFFICES ASSUME NEW x \in 0 .. L + 1, NEW y \in 0 .. R + 1, NEW cell, cell = <<x, y>> PROVE Value(cell) \in Int
    OBVIOUS
  <2>1. cell[1] = x /\ cell[2] = y OBVIOUS
  <2> HIDE DEF L, R
  <2>2. x \in Int /\ y \in Int /\ L \in Int /\ R \in Int BY DEF L, R
  <2> QED BY <2>1, <2>2
<1>3. ASSUME NEW x \in 1 .. L + 1, NEW y \in 1 .. R + 1
      PROVE  Table(lhs, rhs)[<<x, y>>] <= x - 1 \/ Table(lhs, rhs)[<<x, y>>] <= y - 1
  <2>0. x \in Int /\ y \in Int /\ x >= 1 /\ y >= 1 OBVIOUS
  <2>1. <<x, y>> \in Cells OBVIOUS
  <2>2. Table(lhs, rhs)[<<x, y>>] = Value(<<x, y>>) BY <1>1, <2>1
  <2>3. <<x, y>>[1] = x /\ <<x, y>>[2] = y OBVIOUS
  <2>4. CASE y = 1 BY <2>0, <2>2, <2>3, <2>4
  <2>5. CASE x = 1 /\ y # 1 BY <2>0, <2>2, <2>3, <2>5
  <2>6. CASE x # 1 /\ y # 1
    <3>1. Value(<<x, y>>) = 0 BY <2>0, <2>3, <2>6
    <3> QED BY <2>0, <2>2, <3>1
  <2> QED BY <2>4, <2>5, <2>6
<1> QED BY <1>1, <1>2, <1>3

LEMMA EmptyIsWord == IsWord(<<>>)
  BY DEF IsWord

LEMMA FzInitOK == FzInit => FzInv
<1> SUFFICES ASSUME FzInit PROVE FzInv OBVIOUS
<1>1. FzCallOK(NoCall)
  <2>1. NoCall.at = "idle" /\ NoCall.cword = <<>> /\ NoCall.match = <<>> BY DEF NoCall
  <2>2. DOMAIN NoCall = FzFields BY DEF NoCall, FzFields
  <2> QED BY <2>1, <2>2, EmptyIsWord DEF FzCallOK
<1> QED BY <1>1 DEF FzInit, FzInv

\* a step of a thread sets its call, and the rows of all
LEMMA FzSet ==
  ASSUME FzInv, NEW t \in FzThreads, NEW c, FzCallOK(c), fzCall' = [fzCall EXCEPT ![t] = c],
         \A char \in DOMAIN fzDA' : fzDA'[char] \in Nat
  PROVE  FzInv'
BY DEF FzInv

LEMMA FzBeginOK ==
  ASSUME FzInv, NEW t \in FzThreads, NEW call \in FzCalls, FzBegin(t, call)
  PROVE  FzInv'
<1> DEFINE new == [NoCall EXCEPT !.cword = call.cword, !.match = call.match]
           begun == Table(Lhs(new), Rhs(new))
           table == [new EXCEPT !.at = "table", !.i = 1, !.j = 1, !.d = begun]
           done == [new EXCEPT !.at = "done"]
<1>1. DOMAIN new = FzFields /\ new.cword = call.cword /\ new.match = call.match
  <2>1. DOMAIN NoCall = FzFields BY DEF NoCall, FzFields
  <2> QED BY <2>1 DEF FzFields
<1>2. IsWord(call.cword) /\ IsWord(call.match) BY FzAssumption
<1>3. CASE Shorter(call.cword, call.match) = 0
  <2>1. DOMAIN done = FzFields /\ done.cword = call.cword /\ done.match = call.match /\ done.at = "done"
    <3> HIDE DEF new
    <3> QED BY <1>1 DEF FzFields
  <2>2. fzCall' = [fzCall EXCEPT ![t] = done] /\ fzDA' = fzDA BY <1>3 DEF FzBegin
  <2> HIDE DEF done
  <2>3. FzCallOK(done) BY <1>2, <1>3, <2>1 DEF FzCallOK
  <2> QED BY <2>2, <2>3, FzSet DEF FzInv
<1>4. CASE Shorter(call.cword, call.match) # 0
  <2>1. /\ DOMAIN table = FzFields /\ table.cword = call.cword /\ table.match = call.match /\ table.at = "table"
        /\ table.i = 1 /\ table.j = 1 /\ table.db = 0 /\ table.d = begun
    <3>1. new.db = 0 BY DEF NoCall
    <3> HIDE DEF new, begun
    <3>2. DOMAIN table = DOMAIN new OBVIOUS
    <3>3. table.cword = new.cword /\ table.match = new.match /\ table.db = new.db BY <1>1 DEF FzFields
    <3>4. table.at = "table" /\ table.i = 1 /\ table.j = 1 /\ table.d = begun BY <1>1 DEF FzFields
    <3> QED BY <1>1, <3>1, <3>2, <3>3, <3>4
  <2>2. fzCall' = [fzCall EXCEPT ![t] = table] /\ fzDA' = <<>> BY <1>4 DEF FzBegin
  <2>3. new.cword = call.cword /\ new.match = call.match BY <1>1
  <2> HIDE DEF table, new
  <2>4. table.cword = new.cword /\ table.match = new.match /\ table.at = "table" BY <2>1, <2>3
  <2>5. Lhs(table) = Lhs(new) /\ Rhs(table) = Rhs(new) BY <2>4 DEF Lhs, Rhs, Tail1, Cutoff
  <2>6. Lhs(new) \in Seq(ToSet(new.cword)) /\ Rhs(new) \in Seq(ToSet(new.match)) BY <1>2, <2>3, ComparedIsShort
  <2>7. Len(Lhs(new)) \in Nat /\ Len(Rhs(new)) \in Nat BY <2>6
  <2>8. table.d = Table(Lhs(table), Rhs(table)) BY <2>1, <2>5
  <2>9. FzTableOK(table)
    <3>1. table.i = 1 /\ table.j = 1 /\ table.db = 0 BY <2>1
    <3>2. /\ table.d \in [FzCells(table) -> Int]
          /\ \A x \in 1 .. Len(Lhs(table)) + 1, y \in 1 .. Len(Rhs(table)) + 1 :
               table.d[<<x, y>>] <= x - 1 \/ table.d[<<x, y>>] <= y - 1
      BY <2>5, <2>7, <2>8, TableBegins DEF FzCells
    <3> QED BY <3>1, <3>2 DEF FzTableOK
  <2>10. FzCallOK(table) BY <1>2, <2>1, <2>3, <2>9 DEF FzCallOK
  <2>11. \A char \in DOMAIN fzDA' : fzDA'[char] \in Nat BY <2>2
  <2> QED BY <2>2, <2>10, <2>11, FzSet
<1> QED BY <1>3, <1>4

\* what the words of a call are does not hang on how far its table has come
LEMMA SameWords ==
  ASSUME NEW c, NEW e, e.cword = c.cword, e.match = c.match
  PROVE  Lhs(e) = Lhs(c) /\ Rhs(e) = Rhs(c) /\ FzCells(e) = FzCells(c)
BY DEF Lhs, Rhs, Tail1, Cutoff, FzCells

LEMMA FzCellOK ==
  ASSUME FzInv, NEW t \in FzThreads, FzCell(t)
  PROVE  FzInv'
<1> DEFINE c == fzCall[t]
           lhs == Lhs(c)
           rhs == Rhs(c)
           i1 == IF rhs[c.j] \in DOMAIN fzDA THEN fzDA[rhs[c.j]] ELSE 0
           same == lhs[c.i] = rhs[c.j]
           a == c.d[<<c.i, c.j>>] + (IF same THEN 0 ELSE 1)
           b == c.d[<<c.i + 1, c.j>>] + 1
           e == c.d[<<c.i, c.j + 1>>] + 1
           g == c.d[<<i1, c.db>>] + (c.i - i1 - 1) + 1 + (c.j - c.db - 1)
           least == Min({a, b, e, g})
           raised == [c EXCEPT !.at = "raised"]
           filled == [c EXCEPT !.d[<<c.i + 1, c.j + 1>>] = least, !.j = @ + 1, !.db = IF same THEN c.j ELSE @]
<1>1. FzCallOK(c) /\ c.at = "table" /\ c.i <= Len(lhs) /\ c.j <= Len(rhs) BY DEF FzInv, FzCell, InRows
<1>2. FzTableOK(c) /\ IsWord(c.cword) /\ IsWord(c.match) BY <1>1 DEF FzCallOK
<1>3. Len(lhs) \in Nat /\ Len(rhs) \in Nat
  <2>1. lhs \in Seq(ToSet(c.cword)) /\ rhs \in Seq(ToSet(c.match)) BY <1>2, ComparedIsShort
  <2> QED BY <2>1
<1>4. /\ fzCall' = [fzCall EXCEPT ![t] = IF i1 > Len(lhs) + 1 THEN raised ELSE filled]
      /\ fzDA' = fzDA
  BY DEF FzCell
<1>5. i1 \in Nat BY DEF FzInv
<1>6. DOMAIN c = FzFields BY <1>1 DEF FzCallOK
<1>7. CASE i1 > Len(lhs) + 1
  <2>1. fzCall' = [fzCall EXCEPT ![t] = raised] BY <1>4, <1>7
  <2>2. DOMAIN raised = FzFields /\ raised.at = "raised" /\ raised.cword = c.cword /\ raised.match = c.match
    <3> HIDE DEF c
    <3> QED BY <1>6 DEF FzFields
  <2> HIDE DEF raised
  <2>3. FzCallOK(raised) BY <1>2, <2>2 DEF FzCallOK
  <2> QED BY <1>4, <2>1, <2>3, FzSet DEF FzInv
<1>8. CASE ~(i1 > Len(lhs) + 1)
  <2>1. fzCall' = [fzCall EXCEPT ![t] = filled] BY <1>4, <1>8
  <2>2. /\ c.i \in Nat \ {0} /\ c.j \in Nat \ {0} /\ c.db \in 0 .. c.j - 1 /\ c.d \in [FzCells(c) -> Int]
        /\ \A x \in 1 .. Len(lhs) + 1, y \in 1 .. Len(rhs) + 1 : c.d[<<x, y>>] <= x - 1 \/ c.d[<<x, y>>] <= y - 1
    BY <1>2 DEF FzTableOK
  <2>3. /\ DOMAIN filled = FzFields /\ filled.at = "table" /\ filled.cword = c.cword /\ filled.match = c.match
        /\ filled.i = c.i /\ filled.j = c.j + 1 /\ filled.db = (IF same THEN c.j ELSE c.db)
        /\ filled.d = [c.d EXCEPT ![<<c.i + 1, c.j + 1>>] = least]
    <3>1. c.at = "table" /\ DOMAIN c = FzFields BY <1>1, <1>6
    <3> HIDE DEF c, lhs, rhs, same, least
    <3> QED BY <3>1 DEF FzFields
  <2>4. /\ c.d[<<c.i, c.j>>] \in Int /\ c.d[<<c.i + 1, c.j>>] \in Int /\ c.d[<<c.i, c.j + 1>>] \in Int
        /\ c.d[<<i1, c.db>>] \in Int
    <3>1. /\ c.i \in 0 .. Len(lhs) + 1 /\ c.i + 1 \in 0 .. Len(lhs) + 1 /\ i1 \in 0 .. Len(lhs) + 1
          /\ c.j \in 0 .. Len(rhs) + 1 /\ c.j + 1 \in 0 .. Len(rhs) + 1 /\ c.db \in 0 .. Len(rhs) + 1
      <4>1. i1 <= Len(lhs) + 1 BY <1>3, <1>5, <1>8
      <4>2. /\ c.i \in Nat /\ c.i >= 1 /\ c.i <= Len(lhs) /\ c.j \in Nat /\ c.j >= 1 /\ c.j <= Len(rhs)
            /\ c.db \in Nat /\ c.db <= c.j
        BY <1>1, <2>2
      <4> HIDE DEF c, lhs, rhs, i1
      <4> QED BY <1>3, <1>5, <4>1, <4>2
    <3>2. \A x \in 0 .. Len(lhs) + 1, y \in 0 .. Len(rhs) + 1 : c.d[<<x, y>>] \in Int BY <2>2 DEF FzCells
    <3> HIDE DEF c, lhs, rhs, i1
    <3> QED BY <3>1, <3>2, Zenon
  <2>5. c.d[<<c.i, c.j>>] <= c.i - 1 \/ c.d[<<c.i, c.j>>] <= c.j - 1
    <3> DEFINE x == c.i
               y == c.j
    <3>1. x \in 1 .. Len(lhs) + 1 /\ y \in 1 .. Len(rhs) + 1 BY <1>1, <1>3, <2>2
    <3>2. \A p \in 1 .. Len(lhs) + 1, q \in 1 .. Len(rhs) + 1 : c.d[<<p, q>>] <= p - 1 \/ c.d[<<p, q>>] <= q - 1
      BY <2>2
    <3> HIDE DEF c, lhs, rhs, x, y
    <3>3. c.d[<<x, y>>] <= x - 1 \/ c.d[<<x, y>>] <= y - 1 BY <3>1, <3>2
    <3> QED BY <3>3 DEF x, y
  <2>6. a \in Int /\ b \in Int /\ e \in Int /\ g \in Int /\ (a <= c.i \/ a <= c.j)
    <3>1. c.i \in Int /\ c.j \in Int /\ c.db \in Int /\ i1 \in Int BY <1>5, <2>2
    <3> HIDE DEF c, lhs, rhs, i1, same
    <3>2. b \in Int /\ e \in Int BY <2>4
    <3>3. g \in Int BY <2>4, <3>1
    <3>4. a \in Int /\ (a <= c.i \/ a <= c.j) BY <2>4, <2>5, <3>1
    <3> QED BY <3>2, <3>3, <3>4
  <2>7. least \in Int /\ least <= a
    <3> HIDE DEF a, b, e, g
    <3> QED BY <2>6, MinIsLeast
  <2>8. least <= c.i \/ least <= c.j
    <3> HIDE DEF c, a, least
    <3> QED BY <2>2, <2>6, <2>7
  <2>9. Lhs(filled) = lhs /\ Rhs(filled) = rhs /\ FzCells(filled) = FzCells(c)
    <3> HIDE DEF c, least, same
    <3>1. filled.cword = c.cword /\ filled.match = c.match BY <2>3
    <3> QED BY <3>1, SameWords
  <2>10. FzTableOK(filled)
    <3> HIDE DEF c, lhs, rhs, i1, same, least
    <3>1. /\ filled.i = c.i /\ filled.j = c.j + 1 /\ filled.db = (IF same THEN c.j ELSE c.db)
          /\ filled.d = [c.d EXCEPT ![<<c.i + 1, c.j + 1>>] = least]
      BY <2>3
    <3> HIDE DEF filled
    <3>0. c.db \in 0 .. c.j /\ c.j \in 0 .. c.j /\ c.j + 1 - 1 = c.j BY <2>2
    <3>2. filled.db \in 0 .. filled.j - 1 /\ filled.i \in Nat \ {0} /\ filled.j \in Nat \ {0} BY <2>2, <3>0, <3>1
    <3>3. filled.d \in [FzCells(c) -> Int] BY <2>2, <2>7, <3>1
    <3>4. <<c.i + 1, c.j + 1>> \in FzCells(c)
      <4>1. c.i + 1 \in 0 .. Len(lhs) + 1 /\ c.j + 1 \in 0 .. Len(rhs) + 1 BY <1>1, <1>3, <2>2
      <4> QED BY <4>1, Zenon DEF FzCells, lhs, rhs
    <3>5. ASSUME NEW x \in 1 .. Len(lhs) + 1, NEW y \in 1 .. Len(rhs) + 1
          PROVE  filled.d[<<x, y>>] <= x - 1 \/ filled.d[<<x, y>>] <= y - 1
      <4>1. CASE x = c.i + 1 /\ y = c.j + 1
        <5>1. filled.d[<<x, y>>] = least BY <2>2, <3>1, <3>4, <4>1
        <5> QED BY <2>2, <2>8, <4>1, <5>1
      <4>2. CASE x # c.i + 1 \/ y # c.j + 1
        <5>1. <<x, y>> # <<c.i + 1, c.j + 1>> BY <4>2
        <5>2. <<x, y>> \in FzCells(c) BY <1>3 DEF FzCells, lhs, rhs
        <5>3. filled.d[<<x, y>>] = c.d[<<x, y>>] BY <2>2, <3>1, <5>1, <5>2
        <5> QED BY <2>2, <5>3
      <4> QED BY <4>1, <4>2
    <3> QED BY <2>9, <3>2, <3>3, <3>5 DEF FzTableOK
  <2>11. FzCallOK(filled)
    <3> HIDE DEF c, lhs, rhs, same, least
    <3> HIDE DEF filled
    <3> QED BY <1>2, <2>3, <2>10 DEF FzCallOK
  <2> HIDE DEF filled
  <2> QED BY <1>4, <2>1, <2>11, FzSet DEF FzInv
<1> QED BY <1>7, <1>8

LEMMA FzRowOK ==
  ASSUME FzInv, NEW t \in FzThreads, FzRow(t)
  PROVE  FzInv'
<1> DEFINE c == fzCall[t]
           seen == Lhs(c)[c.i]
           next == [c EXCEPT !.i = @ + 1, !.j = 1, !.db = 0]
<1>1. FzCallOK(c) /\ c.at = "table" BY DEF FzInv, FzRow, InRows
<1>2. FzTableOK(c) /\ IsWord(c.cword) /\ IsWord(c.match)
      /\ DOMAIN c = FzFields
  BY <1>1 DEF FzCallOK
<1>3. /\ fzCall' = [fzCall EXCEPT ![t] = next]
      /\ fzDA' = [char \in DOMAIN fzDA \union {seen} |-> IF char = seen THEN c.i ELSE fzDA[char]]
  BY DEF FzRow
<1>5. c.i \in Nat \ {0} BY <1>2 DEF FzTableOK
<1>6. \A char \in DOMAIN fzDA' : fzDA'[char] \in Nat
  <2> HIDE DEF c, seen
  <2> QED BY <1>3, <1>5 DEF FzInv
<1> HIDE DEF c
<1>7. /\ DOMAIN next = FzFields /\ next.cword = c.cword /\ next.match = c.match /\ next.at = "table"
      /\ next.i = c.i + 1 /\ next.j = 1 /\ next.db = 0 /\ next.d = c.d
  BY <1>1, <1>2 DEF FzFields
<1> HIDE DEF next
<1>8. Lhs(next) = Lhs(c) /\ Rhs(next) = Rhs(c) /\ FzCells(next) = FzCells(c) BY <1>7, SameWords
<1>9. FzTableOK(next) BY <1>2, <1>5, <1>7, <1>8 DEF FzTableOK
<1>10. FzCallOK(next) BY <1>2, <1>7, <1>9 DEF FzCallOK
<1> QED BY <1>3, <1>6, <1>10, FzSet

LEMMA FzReturnOK ==
  ASSUME FzInv, NEW t \in FzThreads, FzReturn(t)
  PROVE  FzInv'
<1> DEFINE c == fzCall[t]
           done == [c EXCEPT !.at = "done", !.dist = c.d[<<Len(Lhs(c)) + 1, Len(Rhs(c)) + 1>>]]
<1>1. FzCallOK(c) /\ c.at = "table" BY DEF FzInv, FzReturn
<1>2. FzTableOK(c) /\ IsWord(c.cword) /\ IsWord(c.match)
      /\ DOMAIN c = FzFields
  BY <1>1 DEF FzCallOK
<1>3. fzCall' = [fzCall EXCEPT ![t] = done] /\ fzDA' = fzDA BY DEF FzReturn
<1> HIDE DEF c
<1>4. /\ DOMAIN done = FzFields /\ done.cword = c.cword /\ done.match = c.match /\ done.at = "done"
      /\ done.dist = c.d[<<Len(Lhs(c)) + 1, Len(Rhs(c)) + 1>>]
  BY <1>2 DEF FzFields
<1> HIDE DEF done
<1>5. Len(Lhs(c)) \in Nat /\ Len(Rhs(c)) \in Nat
  <2>1. Lhs(c) \in Seq(ToSet(c.cword)) /\ Rhs(c) \in Seq(ToSet(c.match)) BY <1>2, ComparedIsShort
  <2> QED BY <2>1
<1>6. done.dist \in Int /\ (done.dist <= Len(Lhs(c)) \/ done.dist <= Len(Rhs(c)))
  <2> DEFINE x == Len(Lhs(c)) + 1
             y == Len(Rhs(c)) + 1
  <2>1. x \in 1 .. Len(Lhs(c)) + 1 /\ y \in 1 .. Len(Rhs(c)) + 1 BY <1>5
  <2>2. <<x, y>> \in FzCells(c) BY <1>5 DEF FzCells
  <2>3. c.d[<<x, y>>] \in Int BY <1>2, <2>2 DEF FzTableOK
  <2>4. c.d[<<x, y>>] <= x - 1 \/ c.d[<<x, y>>] <= y - 1 BY <1>2, <2>1 DEF FzTableOK
  <2>5. done.dist = c.d[<<x, y>>] BY <1>4
  <2> QED BY <1>5, <2>3, <2>4, <2>5
<1>8. FzDistOK(done) BY <1>4, <1>6, SameWords DEF FzDistOK
<1>9. FzCallOK(done) BY <1>2, <1>4, <1>8 DEF FzCallOK
<1> QED BY <1>3, <1>9, FzSet DEF FzInv

LEMMA FzStepOK == FzInv /\ [FzNext]_fzVars => FzInv'
<1> SUFFICES ASSUME FzInv, [FzNext]_fzVars PROVE FzInv' OBVIOUS
<1>1. CASE UNCHANGED fzVars BY <1>1 DEF fzVars, FzInv
<1>2. CASE FzNext
  <2>1. PICK t \in FzThreads : FzThread(t) BY <1>2 DEF FzNext
  <2> QED BY <2>1, FzCellOK, FzRowOK, FzReturnOK, FzBeginOK DEF FzThread
<1> QED BY <1>1, <1>2

\* Whatever row another thread has put into _DA, a distance that is returned is no more than what is compared of
\* the longer word, and so no weight is negative.
THEOREM EditIsNotNegativeCorrect == FzSpec => []EditIsNotNegative
<1>1. FzInit => FzInv BY FzInitOK
<1>2. FzInv /\ [FzNext]_fzVars => FzInv' BY FzStepOK
<1>3. FzInv => EditIsNotNegative
  <2> SUFFICES ASSUME FzInv, NEW t \in FzThreads, Returned(t)
               PROVE  fzCall[t].dist - More(fzCall[t])
                        <= Shorter(fzCall[t].cword, fzCall[t].match) - Matches(fzCall[t].cword, fzCall[t].match)
    BY DEF EditIsNotNegative
  <2> DEFINE c == fzCall[t]
  <2>1. FzCallOK(c) /\ c.at = "done" /\ Shorter(c.cword, c.match) > 0 BY DEF FzInv, Returned
  <2>2. FzDistOK(c) /\ IsWord(c.cword) /\ IsWord(c.match) BY <2>1 DEF FzCallOK
  <2> HIDE DEF c
  <2>3. c.dist \in Int /\ (c.dist <= Len(Lhs(c)) \/ c.dist <= Len(Rhs(c))) BY <2>2 DEF FzDistOK
  <2>4. /\ Lhs(c) \in Seq(ToSet(c.cword)) /\ Rhs(c) \in Seq(ToSet(c.match))
        /\ Cutoff(c) \in Nat /\ More(c) = Cutoff(c) - Shorter(c.cword, c.match)
        /\ Shorter(c.cword, c.match) \in Nat /\ Matches(c.cword, c.match) \in Nat
        /\ Len(Lhs(c)) <= Cutoff(c) - Matches(c.cword, c.match)
        /\ Len(Rhs(c)) <= Cutoff(c) - Matches(c.cword, c.match)
    BY <2>2, ComparedIsShort
  <2>5. Len(Lhs(c)) \in Nat /\ Len(Rhs(c)) \in Nat BY <2>4
  <2>6. c.dist - More(c) <= Shorter(c.cword, c.match) - Matches(c.cword, c.match)
    BY <2>3, <2>4, <2>5
  <2> QED BY <2>6 DEF c
<1> QED BY <1>1, <1>2, <1>3, PTL DEF FzSpec

-----------------------------------------------------------------------------
(* As far as it is filled the table is the reference, while no other thread is in one: of the swaps
   of a cell, the one that is looked at costs least.                          *)

\* the row that _DA has for a character
RowOf(da, char) == IF char \in DOMAIN da THEN da[char] ELSE 0

\* a table that is right as far as it is filled
FzRight(c, da) ==
  LET lhs == Lhs(c)
      rhs == Rhs(c)
  IN  /\ c.i <= Len(lhs) + 1 /\ c.j <= Len(rhs) + 1
      /\ \A x \in 0 .. Len(lhs) + 1, y \in 0 .. Len(rhs) + 1 :
           x = 0 \/ y = 0 => c.d[<<x, y>>] = Len(lhs) + Len(rhs)
      /\ \A x \in 0 .. Len(lhs), y \in 0 .. Len(rhs) :
           x = 0 \/ y = 0 \/ x < c.i \/ (x = c.i /\ y < c.j) => c.d[<<x + 1, y + 1>>] = Distances(lhs, rhs)[<<x, y>>]
      /\ c.i <= Len(lhs) => LastSeen(rhs, lhs[c.i], c.j - 1, c.db)
      /\ \A y \in 1 .. Len(rhs) : LastSeen(lhs, rhs[y], c.i - 1, RowOf(da, rhs[y]))

\* no row is of another thread
OneAtATime == \A t, u \in FzThreads : fzCall[t].at = "table" /\ fzCall[u].at = "table" => t = u

FzExactly(c, da) ==
  /\ c.at # "raised"
  /\ c.at = "table" => FzRight(c, da)
  /\ c.at = "done" /\ Shorter(c.cword, c.match) > 0 => c.dist = Distance(Lhs(c), Rhs(c))

FzExact == \A t \in FzThreads : FzExactly(fzCall[t], fzDA)

LEMMA SeenNext ==
  ASSUME NEW word, NEW char, NEW n \in Nat, NEW at, LastSeen(word, char, n, at)
  PROVE  LastSeen(word, char, n + 1, IF word[n + 1] = char THEN n + 1 ELSE at)
<1>1. at \in 0 .. n /\ (at > 0 => word[at] = char) /\ \A k \in at + 1 .. n : word[k] # char BY DEF LastSeen
<1>2. CASE word[n + 1] = char
  <2>1. n + 1 \in 0 .. n + 1 /\ (n + 1) + 1 .. n + 1 = {} OBVIOUS
  <2> QED BY <1>2, <2>1 DEF LastSeen
<1>3. CASE word[n + 1] # char
  <2>1. at \in 0 .. n + 1 BY <1>1
  <2>2. ASSUME NEW k \in at + 1 .. n + 1 PROVE word[k] # char
    <3>1. k = n + 1 \/ k \in at + 1 .. n BY <1>1
    <3> QED BY <1>1, <1>3, <3>1
  <2> QED BY <1>1, <1>3, <2>1, <2>2 DEF LastSeen
<1> QED BY <1>2, <1>3

LEMMA SeenNothing ==
  ASSUME NEW word, NEW char
  PROVE  LastSeen(word, char, 0, 0)
BY DEF LastSeen

\* the lengths of the words, the cell and the row that are next
LEMMA RightIsTyped ==
  ASSUME NEW c, IsWord(c.cword), IsWord(c.match), FzTableOK(c)
  PROVE  /\ Len(Lhs(c)) \in Nat /\ Len(Rhs(c)) \in Nat
         /\ IsDistances(Distances(Lhs(c), Rhs(c)), Lhs(c), Rhs(c))
         /\ c.i \in Nat /\ c.j \in Nat /\ c.i >= 1 /\ c.j >= 1
<1>1. Lhs(c) \in Seq(ToSet(c.cword)) /\ Rhs(c) \in Seq(ToSet(c.match)) BY ComparedIsShort
<1>2. Len(Lhs(c)) \in Nat /\ Len(Rhs(c)) \in Nat BY <1>1
<1>3. IsDistances(Distances(Lhs(c), Rhs(c)), Lhs(c), Rhs(c)) BY <1>2, DistancesAre
<1> QED BY <1>2, <1>3 DEF FzTableOK

\* the cell that is next gets the distance of what is before it
LEMMA CellIsRight ==
  ASSUME NEW c, NEW da, IsWord(c.cword), IsWord(c.match), FzTableOK(c), FzRight(c, da),
         c.i <= Len(Lhs(c)), c.j <= Len(Rhs(c))
  PROVE  LET i1 == RowOf(da, Rhs(c)[c.j]) IN
         /\ i1 \in 0 .. Len(Lhs(c))
         /\ Min({c.d[<<c.i, c.j>>] + (IF Lhs(c)[c.i] = Rhs(c)[c.j] THEN 0 ELSE 1),
                 c.d[<<c.i + 1, c.j>>] + 1,
                 c.d[<<c.i, c.j + 1>>] + 1,
                 c.d[<<i1, c.db>>] + (c.i - i1 - 1) + 1 + (c.j - c.db - 1)})
              = Distances(Lhs(c), Rhs(c))[<<c.i, c.j>>]
<1> DEFINE lhs == Lhs(c)
           rhs == Rhs(c)
           i == c.i
           j == c.j
           db == c.db
           i1 == RowOf(da, rhs[j])
           D == Distances(lhs, rhs)
           f == c.d[<<i1, db>>]
<1>1. Len(lhs) \in Nat /\ Len(rhs) \in Nat /\ IsDistances(D, lhs, rhs) /\ i \in Nat /\ j \in Nat /\ i >= 1 /\ j >= 1
  BY RightIsTyped
<1>2. i <= Len(lhs) /\ j <= Len(rhs) OBVIOUS
<1>3. LastSeen(rhs, lhs[i], j - 1, db) /\ LastSeen(lhs, rhs[j], i - 1, i1)
  <2>1. j \in 1 .. Len(rhs) BY <1>1, <1>2
  <2> QED BY <1>2, <2>1 DEF FzRight
<1>4. /\ \A x \in 0 .. Len(lhs) + 1, y \in 0 .. Len(rhs) + 1 : x = 0 \/ y = 0 => c.d[<<x, y>>] = Len(lhs) + Len(rhs)
      /\ \A x \in 0 .. Len(lhs), y \in 0 .. Len(rhs) : x < i \/ (x = i /\ y < j) => c.d[<<x + 1, y + 1>>] = D[<<x, y>>]
  BY DEF FzRight
<1>5. i1 \in 0 .. i - 1 /\ db \in 0 .. j - 1 BY <1>3 DEF LastSeen
<1>6. \A x \in 0 .. Len(lhs) + 1, y \in 0 .. Len(rhs) + 1 : c.d[<<x, y>>] \in Int BY DEF FzTableOK, FzCells
<1> HIDE DEF lhs, rhs, i, j, db, i1, D
<1>7. i1 \in Nat /\ db \in Nat /\ i1 <= i - 1 /\ db <= j - 1 BY <1>1, <1>5
<1>8. /\ i1 \in 0 .. Len(lhs) /\ i1 \in 0 .. Len(lhs) + 1 /\ db \in 0 .. Len(rhs) + 1
      /\ i \in 1 .. Len(lhs) /\ j \in 1 .. Len(rhs) /\ i \in 0 .. Len(lhs) /\ j \in 0 .. Len(rhs)
      /\ i - 1 \in 0 .. Len(lhs) /\ j - 1 \in 0 .. Len(rhs)
  BY <1>1, <1>2, <1>7
<1>9. f \in Int BY <1>6, <1>8
<1>10. i1 = 0 \/ db = 0 => f = Len(lhs) + Len(rhs) BY <1>4, <1>8
<1>11. i1 > 0 /\ db > 0 => f = D[<<i1 - 1, db - 1>>]
  <2> SUFFICES ASSUME i1 > 0, db > 0 PROVE f = D[<<i1 - 1, db - 1>>] OBVIOUS
  <2>1. i1 - 1 \in 0 .. Len(lhs) /\ db - 1 \in 0 .. Len(rhs) /\ i1 - 1 < i BY <1>1, <1>2, <1>7
  <2>2. c.d[<<(i1 - 1) + 1, (db - 1) + 1>>] = D[<<i1 - 1, db - 1>>] BY <1>4, <2>1
  <2>3. (i1 - 1) + 1 = i1 /\ (db - 1) + 1 = db BY <1>7
  <2> QED BY <2>2, <2>3
<1>12. /\ c.d[<<i, j>>] = D[<<i - 1, j - 1>>]
       /\ c.d[<<i + 1, j>>] = D[<<i, j - 1>>]
       /\ c.d[<<i, j + 1>>] = D[<<i - 1, j>>]
  <2>1. (i - 1) + 1 = i /\ (j - 1) + 1 = j /\ i - 1 < i /\ j - 1 < j BY <1>1
  <2>2. /\ c.d[<<(i - 1) + 1, (j - 1) + 1>>] = D[<<i - 1, j - 1>>]
        /\ c.d[<<i + 1, (j - 1) + 1>>] = D[<<i, j - 1>>]
        /\ c.d[<<(i - 1) + 1, j + 1>>] = D[<<i - 1, j>>]
    BY <1>4, <1>8, <2>1
  <2> QED BY <2>1, <2>2
<1> HIDE DEF f
<1>13. Min({D[<<i - 1, j - 1>>] + (IF lhs[i] = rhs[j] THEN 0 ELSE 1), D[<<i, j - 1>>] + 1, D[<<i - 1, j>>] + 1,
            f + (i - i1 - 1) + 1 + (j - db - 1)}) = D[<<i, j>>]
  <2>1. KnownAt(D, lhs, rhs, i, j, i1, db, f) BY <1>3, <1>8, <1>9, <1>10, <1>11 DEF KnownAt
  <2>2. Len(lhs) \in Nat /\ Len(rhs) \in Nat /\ IsDistances(D, lhs, rhs) BY <1>1
  <2>3. Looked(D, lhs, rhs, i, j, i1, db, f) = D[<<i, j>>] BY <2>1, <2>2, CellIsApart
  <2> QED BY <2>3, Zenon DEF Looked
<1>14. Min({c.d[<<i, j>>] + (IF lhs[i] = rhs[j] THEN 0 ELSE 1), c.d[<<i + 1, j>>] + 1, c.d[<<i, j + 1>>] + 1,
            f + (i - i1 - 1) + 1 + (j - db - 1)}) = D[<<i, j>>]
  BY <1>12, <1>13, Zenon
<1> QED BY <1>8, <1>14, Zenon DEF lhs, rhs, i, j, db, i1, D, f

LEMMA FzExactInit == FzInit => FzExact
<1> SUFFICES ASSUME FzInit PROVE FzExact OBVIOUS
<1>1. NoCall.at = "idle" BY DEF NoCall
<1> QED BY <1>1 DEF FzInit, FzExact, FzExactly

LEMMA FzExactSet ==
  ASSUME FzInv, FzExact, NEW t \in FzThreads, NEW c, fzCall' = [fzCall EXCEPT ![t] = c], FzExactly(c, fzDA'),
         fzDA' = fzDA \/ \A u \in FzThreads : u # t => fzCall[u].at # "table"
  PROVE  FzExact'
<1> SUFFICES ASSUME NEW u \in FzThreads PROVE FzExactly(fzCall'[u], fzDA') BY DEF FzExact
<1>1. fzCall = [v \in FzThreads |-> fzCall[v]] BY DEF FzInv
<1>2. CASE u = t
  <2>1. fzCall'[u] = c BY <1>1, <1>2
  <2> QED BY <2>1
<1>3. CASE u # t
  <2>1. fzCall'[u] = fzCall[u] BY <1>1, <1>3
  <2>2. FzExactly(fzCall[u], fzDA) BY DEF FzExact
  <2>3. CASE fzDA' = fzDA BY <2>1, <2>2, <2>3
  <2>4. CASE fzCall[u].at # "table" BY <2>1, <2>2, <2>4 DEF FzExactly
  <2> QED BY <1>3, <2>3, <2>4
<1> QED BY <1>2, <1>3

\* the table before its first row is right
LEMMA TableIsRight ==
  ASSUME NEW lhs, NEW rhs, Len(lhs) \in Nat, Len(rhs) \in Nat
  PROVE  /\ \A x \in 0 .. Len(lhs) + 1, y \in 0 .. Len(rhs) + 1 :
              x = 0 \/ y = 0 => Table(lhs, rhs)[<<x, y>>] = Len(lhs) + Len(rhs)
         /\ \A x \in 0 .. Len(lhs), y \in 0 .. Len(rhs) :
              x = 0 \/ y = 0 => Table(lhs, rhs)[<<x + 1, y + 1>>] = Distances(lhs, rhs)[<<x, y>>]
<1> DEFINE Value(cell) == IF cell[1] = 0 \/ cell[2] = 0 THEN Len(lhs) + Len(rhs)
                            ELSE IF cell[2] = 1 THEN cell[1] - 1
                            ELSE IF cell[1] = 1 THEN cell[2] - 1
                            ELSE 0
           D == Distances(lhs, rhs)
<1>1. Table(lhs, rhs) = [cell \in (0 .. Len(lhs) + 1) \X (0 .. Len(rhs) + 1) |-> Value(cell)] BY DEF Table
<1>2. ASSUME NEW x \in 0 .. Len(lhs) + 1, NEW y \in 0 .. Len(rhs) + 1
      PROVE  Table(lhs, rhs)[<<x, y>>] = Value(<<x, y>>)
  <2>1. <<x, y>> \in (0 .. Len(lhs) + 1) \X (0 .. Len(rhs) + 1) OBVIOUS
  <2> HIDE DEF Value
  <2> QED BY <1>1, <2>1
<1>3. ASSUME NEW x \in 0 .. Len(lhs) + 1, NEW y \in 0 .. Len(rhs) + 1, x = 0 \/ y = 0
      PROVE  Value(<<x, y>>) = Len(lhs) + Len(rhs)
  <2>1. <<x, y>>[1] = x /\ <<x, y>>[2] = y OBVIOUS
  <2>2. <<x, y>>[1] = 0 \/ <<x, y>>[2] = 0 BY <1>3, <2>1
  <2>3. \A cell : cell[1] = 0 \/ cell[2] = 0 => Value(cell) = Len(lhs) + Len(rhs) BY Zenon
  <2> HIDE DEF Value
  <2> QED BY <2>2, <2>3, Zenon
<1>4. ASSUME NEW x \in 0 .. Len(lhs), NEW y \in 0 .. Len(rhs), x = 0 \/ y = 0
      PROVE  Table(lhs, rhs)[<<x + 1, y + 1>>] = D[<<x, y>>]
  <2>0. x \in Nat /\ y \in Nat /\ x + 1 \in 0 .. Len(lhs) + 1 /\ y + 1 \in 0 .. Len(rhs) + 1 OBVIOUS
  <2>1. Table(lhs, rhs)[<<x + 1, y + 1>>] = Value(<<x + 1, y + 1>>) BY <1>2, <2>0
  <2>2. Value(<<x + 1, y + 1>>) = IF y = 0 THEN x ELSE y
    <3>1. <<x + 1, y + 1>>[1] = x + 1 /\ <<x + 1, y + 1>>[2] = y + 1 OBVIOUS
    <3>2. CASE y = 0 BY <2>0, <3>1, <3>2
    <3>3. CASE y # 0
      <4>1. x = 0 BY <1>4, <3>3
      <4> QED BY <2>0, <3>1, <3>3, <4>1
    <3> QED BY <3>2, <3>3
  <2>3. IsDistances(D, lhs, rhs) BY DistancesAre
  <2> HIDE DEF D
  <2>4. (x = 0 => D[<<x, y>>] = y) /\ (y = 0 => D[<<x, y>>] = x) BY <2>3, DistancesAtEdge
  <2> QED BY <1>4, <2>1, <2>2, <2>4
<1>5. \A x \in 0 .. Len(lhs) + 1, y \in 0 .. Len(rhs) + 1 : x = 0 \/ y = 0 => Table(lhs, rhs)[<<x, y>>] = Len(lhs) + Len(rhs)
  <2> HIDE DEF Value
  <2> QED BY <1>2, <1>3
<1> QED BY <1>4, <1>5

LEMMA FzExactBegin ==
  ASSUME FzInv, FzExact, OneAtATime', NEW t \in FzThreads, NEW call \in FzCalls, FzBegin(t, call)
  PROVE  FzExact'
<1> DEFINE new == [NoCall EXCEPT !.cword = call.cword, !.match = call.match]
           begun == Table(Lhs(new), Rhs(new))
           table == [new EXCEPT !.at = "table", !.i = 1, !.j = 1, !.d = begun]
           done == [new EXCEPT !.at = "done"]
<1>1. DOMAIN new = FzFields /\ new.cword = call.cword /\ new.match = call.match
  <2>1. DOMAIN NoCall = FzFields BY DEF NoCall, FzFields
  <2> QED BY <2>1 DEF FzFields
<1>2. IsWord(call.cword) /\ IsWord(call.match) BY FzAssumption
<1>3. CASE Shorter(call.cword, call.match) = 0
  <2>1. done.cword = call.cword /\ done.match = call.match /\ done.at = "done"
    <3> HIDE DEF new
    <3> QED BY <1>1 DEF FzFields
  <2>2. fzCall' = [fzCall EXCEPT ![t] = done] /\ fzDA' = fzDA BY <1>3 DEF FzBegin
  <2> HIDE DEF done
  <2>3. FzExactly(done, fzDA') BY <1>3, <2>1 DEF FzExactly
  <2> QED BY <2>2, <2>3, FzExactSet
<1>4. CASE Shorter(call.cword, call.match) # 0
  <2>1. /\ table.cword = call.cword /\ table.match = call.match /\ table.at = "table"
        /\ table.i = 1 /\ table.j = 1 /\ table.db = 0 /\ table.d = begun
    <3>1. new.db = 0 BY DEF NoCall
    <3> HIDE DEF new, begun
    <3>2. table.cword = new.cword /\ table.match = new.match /\ table.db = new.db BY <1>1 DEF FzFields
    <3>3. table.at = "table" /\ table.i = 1 /\ table.j = 1 /\ table.d = begun BY <1>1 DEF FzFields
    <3> QED BY <1>1, <3>1, <3>2, <3>3
  <2>2. fzCall' = [fzCall EXCEPT ![t] = table] /\ fzDA' = <<>> BY <1>4 DEF FzBegin
  <2>3. new.cword = call.cword /\ new.match = call.match BY <1>1
  <2> HIDE DEF table, new
  <2>4. Lhs(table) = Lhs(new) /\ Rhs(table) = Rhs(new)
    <3>1. table.cword = new.cword /\ table.match = new.match BY <2>1, <2>3
    <3> QED BY <3>1, SameWords
  <2> DEFINE lhs == Lhs(table)
             rhs == Rhs(table)
  <2>5. lhs \in Seq(ToSet(table.cword)) /\ rhs \in Seq(ToSet(table.match))
    <3>1. IsWord(table.cword) /\ IsWord(table.match) BY <1>2, <2>1
    <3> QED BY <3>1, ComparedIsShort
  <2>6. Len(lhs) \in Nat /\ Len(rhs) \in Nat BY <2>5
  <2>7. table.d = Table(lhs, rhs) BY <2>1, <2>4
  <2>8. FzRight(table, <<>>)
    <3>1. /\ \A x \in 0 .. Len(lhs) + 1, y \in 0 .. Len(rhs) + 1 :
               x = 0 \/ y = 0 => table.d[<<x, y>>] = Len(lhs) + Len(rhs)
          /\ \A x \in 0 .. Len(lhs), y \in 0 .. Len(rhs) :
               x = 0 \/ y = 0 => table.d[<<x + 1, y + 1>>] = Distances(lhs, rhs)[<<x, y>>]
      BY <2>6, <2>7, TableIsRight
    <3>2. table.i = 1 /\ table.j = 1 /\ table.db = 0 BY <2>1
    <3>3. table.i <= Len(lhs) + 1 /\ table.j <= Len(rhs) + 1 BY <2>6, <3>2
    <3>4. table.i - 1 = 0 /\ table.j - 1 = 0 BY <3>2
    <3>5. \A x \in 0 .. Len(lhs), y \in 0 .. Len(rhs) : x < table.i \/ (x = table.i /\ y < table.j) => x = 0 \/ y = 0
      BY <2>6, <3>2
    <3>6. LastSeen(rhs, lhs[table.i], table.j - 1, table.db) BY <3>2, <3>4, SeenNothing
    <3>7. \A y \in 1 .. Len(rhs) : LastSeen(lhs, rhs[y], table.i - 1, RowOf(<<>>, rhs[y]))
      <4>1. \A char : RowOf(<<>>, char) = 0
        <5>1. DOMAIN <<>> = {} OBVIOUS
        <5> QED BY <5>1 DEF RowOf
      <4> QED BY <3>4, <4>1, SeenNothing
    <3> HIDE DEF lhs, rhs
    <3>8. \A x \in 0 .. Len(lhs), y \in 0 .. Len(rhs) :
            x = 0 \/ y = 0 \/ x < table.i \/ (x = table.i /\ y < table.j)
              => table.d[<<x + 1, y + 1>>] = Distances(lhs, rhs)[<<x, y>>]
      BY <3>1, <3>5, Zenon
    <3> QED BY <3>1, <3>3, <3>6, <3>7, <3>8, Zenon DEF FzRight, lhs, rhs
  <2>9. FzExactly(table, fzDA') BY <2>1, <2>2, <2>8 DEF FzExactly
  <2>10. \A u \in FzThreads : u # t => fzCall[u].at # "table"
    <3> SUFFICES ASSUME NEW u \in FzThreads, u # t, fzCall[u].at = "table" PROVE FALSE OBVIOUS
    <3>1. fzCall = [v \in FzThreads |-> fzCall[v]] BY DEF FzInv
    <3>2. fzCall'[u] = fzCall[u] /\ fzCall'[t] = table BY <2>2, <3>1
    <3>3. fzCall'[u].at = "table" /\ fzCall'[t].at = "table" BY <2>1, <3>2
    <3> QED BY <3>3 DEF OneAtATime
  <2> QED BY <2>2, <2>9, <2>10, FzExactSet
<1> QED BY <1>3, <1>4

LEMMA FzExactCell ==
  ASSUME FzInv, FzExact, NEW t \in FzThreads, FzCell(t)
  PROVE  FzExact'
<1> DEFINE c == fzCall[t]
           lhs == Lhs(c)
           rhs == Rhs(c)
           i1 == IF rhs[c.j] \in DOMAIN fzDA THEN fzDA[rhs[c.j]] ELSE 0
           same == lhs[c.i] = rhs[c.j]
           least == Min({c.d[<<c.i, c.j>>] + (IF same THEN 0 ELSE 1),
                         c.d[<<c.i + 1, c.j>>] + 1,
                         c.d[<<c.i, c.j + 1>>] + 1,
                         c.d[<<i1, c.db>>] + (c.i - i1 - 1) + 1 + (c.j - c.db - 1)})
           raised == [c EXCEPT !.at = "raised"]
           filled == [c EXCEPT !.d[<<c.i + 1, c.j + 1>>] = least, !.j = @ + 1, !.db = IF same THEN c.j ELSE @]
           D == Distances(lhs, rhs)
<1>1. FzCallOK(c) /\ FzExactly(c, fzDA) /\ c.at = "table" /\ c.i <= Len(lhs) /\ c.j <= Len(rhs)
  BY DEF FzInv, FzExact, FzCell, InRows
<1>2. FzTableOK(c) /\ IsWord(c.cword) /\ IsWord(c.match) /\ DOMAIN c = FzFields /\ FzRight(c, fzDA)
  BY <1>1 DEF FzCallOK, FzExactly
<1>3. Len(lhs) \in Nat /\ Len(rhs) \in Nat /\ c.i \in Nat /\ c.j \in Nat /\ c.i >= 1 /\ c.j >= 1
  BY <1>2, RightIsTyped
<1>4. fzCall' = [fzCall EXCEPT ![t] = IF i1 > Len(lhs) + 1 THEN raised ELSE filled] /\ fzDA' = fzDA BY DEF FzCell
<1>5. i1 = RowOf(fzDA, rhs[c.j]) BY DEF RowOf
<1>6. i1 \in 0 .. Len(lhs) /\ least = D[<<c.i, c.j>>]
  <2> HIDE DEF c, lhs, rhs, i1
  <2> QED BY <1>1, <1>2, <1>5, CellIsRight DEF lhs, rhs
<1>7. ~(i1 > Len(lhs) + 1)
  <2> HIDE DEF i1, lhs
  <2> QED BY <1>3, <1>6
<1>8. fzCall' = [fzCall EXCEPT ![t] = filled] BY <1>4, <1>7
<1>9. /\ filled.at = "table" /\ filled.cword = c.cword /\ filled.match = c.match
      /\ filled.i = c.i /\ filled.j = c.j + 1 /\ filled.db = (IF same THEN c.j ELSE c.db)
      /\ filled.d = [c.d EXCEPT ![<<c.i + 1, c.j + 1>>] = least]
  <2>1. c.at = "table" /\ DOMAIN c = FzFields BY <1>1, <1>2
  <2> HIDE DEF c, lhs, rhs, same, least
  <2> QED BY <2>1 DEF FzFields
<1> HIDE DEF filled, raised, least, i1
<1>10. Lhs(filled) = lhs /\ Rhs(filled) = rhs
  <2> HIDE DEF c
  <2> QED BY <1>9, SameWords DEF lhs, rhs
<1>11. FzRight(filled, fzDA)
  <2>1. /\ c.j <= Len(rhs) + 1
        /\ \A x \in 0 .. Len(lhs) + 1, y \in 0 .. Len(rhs) + 1 : x = 0 \/ y = 0 => c.d[<<x, y>>] = Len(lhs) + Len(rhs)
        /\ \A x \in 0 .. Len(lhs), y \in 0 .. Len(rhs) :
             x = 0 \/ y = 0 \/ x < c.i \/ (x = c.i /\ y < c.j) => c.d[<<x + 1, y + 1>>] = D[<<x, y>>]
        /\ LastSeen(rhs, lhs[c.i], c.j - 1, c.db)
        /\ \A y \in 1 .. Len(rhs) : LastSeen(lhs, rhs[y], c.i - 1, RowOf(fzDA, rhs[y]))
    BY <1>1, <1>2 DEF FzRight
  <2>2. c.d \in [FzCells(c) -> Int] BY <1>2 DEF FzTableOK
  <2>3. ASSUME NEW x \in 0 .. Len(lhs) + 1, NEW y \in 0 .. Len(rhs) + 1
        PROVE  filled.d[<<x, y>>] = IF x = c.i + 1 /\ y = c.j + 1 THEN least ELSE c.d[<<x, y>>]
    <3>1. <<x, y>> \in FzCells(c) BY DEF FzCells
    <3>2. <<x, y>> = <<c.i + 1, c.j + 1>> <=> x = c.i + 1 /\ y = c.j + 1 OBVIOUS
    <3> HIDE DEF c, lhs, rhs
    <3> QED BY <1>9, <2>2, <3>1, <3>2
  <2> HIDE DEF c, lhs, rhs, same, D
  <2>4. filled.i <= Len(lhs) + 1 /\ filled.j <= Len(rhs) + 1 BY <1>1, <1>3, <1>9
  <2>5. ASSUME NEW x \in 0 .. Len(lhs) + 1, NEW y \in 0 .. Len(rhs) + 1, x = 0 \/ y = 0
        PROVE  filled.d[<<x, y>>] = Len(lhs) + Len(rhs)
    <3>1. ~(x = c.i + 1 /\ y = c.j + 1) BY <1>3, <2>5
    <3> QED BY <2>1, <2>3, <2>5, <3>1
  <2>6. ASSUME NEW x \in 0 .. Len(lhs), NEW y \in 0 .. Len(rhs),
               x = 0 \/ y = 0 \/ x < filled.i \/ (x = filled.i /\ y < filled.j)
        PROVE  filled.d[<<x + 1, y + 1>>] = D[<<x, y>>]
    <3>1. x + 1 \in 0 .. Len(lhs) + 1 /\ y + 1 \in 0 .. Len(rhs) + 1 /\ x \in Nat /\ y \in Nat BY <1>3
    <3>2. filled.d[<<x + 1, y + 1>>] = IF x + 1 = c.i + 1 /\ y + 1 = c.j + 1 THEN least ELSE c.d[<<x + 1, y + 1>>]
      BY <2>3, <3>1
    <3>3. CASE x = c.i /\ y = c.j BY <1>6, <3>2, <3>3
    <3>4. CASE ~(x = c.i /\ y = c.j)
      <4>1. ~(x + 1 = c.i + 1 /\ y + 1 = c.j + 1) BY <1>3, <3>1, <3>4
      <4>2. filled.d[<<x + 1, y + 1>>] = c.d[<<x + 1, y + 1>>] BY <3>2, <4>1
      <4>3. x = 0 \/ y = 0 \/ x < c.i \/ (x = c.i /\ y < c.j) BY <1>3, <1>9, <2>6, <3>1, <3>4
      <4>4. c.d[<<x + 1, y + 1>>] = D[<<x, y>>] BY <2>1, <4>3
      <4> QED BY <4>2, <4>4
    <3> QED BY <3>3, <3>4
  <2>7. LastSeen(rhs, lhs[filled.i], filled.j - 1, filled.db)
    <3>1. c.j - 1 \in Nat /\ (c.j - 1) + 1 = c.j /\ filled.j - 1 = c.j BY <1>3, <1>9
    <3>2. LastSeen(rhs, lhs[c.i], c.j, IF rhs[c.j] = lhs[c.i] THEN c.j ELSE c.db)
      <4>1. LastSeen(rhs, lhs[c.i], (c.j - 1) + 1, IF rhs[(c.j - 1) + 1] = lhs[c.i] THEN (c.j - 1) + 1 ELSE c.db)
        BY <2>1, <3>1, SeenNext
      <4> QED BY <3>1, <4>1
    <3>3. filled.db = IF rhs[c.j] = lhs[c.i] THEN c.j ELSE c.db BY <1>9 DEF same
    <3> QED BY <1>9, <3>1, <3>2, <3>3
  <2>8. \A y \in 1 .. Len(rhs) : LastSeen(lhs, rhs[y], filled.i - 1, RowOf(fzDA, rhs[y])) BY <1>9, <2>1
  <2> QED BY <1>10, <2>4, <2>5, <2>6, <2>7, <2>8 DEF FzRight, D
<1>12. FzExactly(filled, fzDA') BY <1>4, <1>9, <1>11 DEF FzExactly
<1> QED BY <1>4, <1>8, <1>12, FzExactSet

LEMMA FzExactRow ==
  ASSUME FzInv, FzExact, OneAtATime, NEW t \in FzThreads, FzRow(t)
  PROVE  FzExact'
<1> DEFINE c == fzCall[t]
           lhs == Lhs(c)
           rhs == Rhs(c)
           seen == lhs[c.i]
           next == [c EXCEPT !.i = @ + 1, !.j = 1, !.db = 0]
           D == Distances(lhs, rhs)
<1>1. FzCallOK(c) /\ FzExactly(c, fzDA) /\ c.at = "table" /\ c.i <= Len(lhs) /\ c.j > Len(rhs)
  BY DEF FzInv, FzExact, FzRow, InRows
<1>2. FzTableOK(c) /\ IsWord(c.cword) /\ IsWord(c.match) /\ DOMAIN c = FzFields /\ FzRight(c, fzDA)
  BY <1>1 DEF FzCallOK, FzExactly
<1>3. Len(lhs) \in Nat /\ Len(rhs) \in Nat /\ c.i \in Nat /\ c.j \in Nat /\ c.i >= 1 /\ c.j >= 1
  BY <1>2, RightIsTyped
<1>4. /\ fzCall' = [fzCall EXCEPT ![t] = next]
      /\ fzDA' = [char \in DOMAIN fzDA \union {seen} |-> IF char = seen THEN c.i ELSE fzDA[char]]
  BY DEF FzRow
<1>5. \A u \in FzThreads : u # t => fzCall[u].at # "table" BY <1>1 DEF OneAtATime
<1>6. \A char : RowOf(fzDA', char) = IF seen = char THEN c.i ELSE RowOf(fzDA, char)
  <2> HIDE DEF c, seen
  <2> QED BY <1>4 DEF RowOf
<1>7. /\ c.j <= Len(rhs) + 1
      /\ \A x \in 0 .. Len(lhs) + 1, y \in 0 .. Len(rhs) + 1 : x = 0 \/ y = 0 => c.d[<<x, y>>] = Len(lhs) + Len(rhs)
      /\ \A x \in 0 .. Len(lhs), y \in 0 .. Len(rhs) :
           x = 0 \/ y = 0 \/ x < c.i \/ (x = c.i /\ y < c.j) => c.d[<<x + 1, y + 1>>] = D[<<x, y>>]
      /\ \A y \in 1 .. Len(rhs) : LastSeen(lhs, rhs[y], c.i - 1, RowOf(fzDA, rhs[y]))
  BY <1>2 DEF FzRight
<1> HIDE DEF c
<1>8. /\ next.cword = c.cword /\ next.match = c.match /\ next.at = "table"
      /\ next.i = c.i + 1 /\ next.j = 1 /\ next.db = 0 /\ next.d = c.d
  BY <1>1, <1>2 DEF FzFields
<1> HIDE DEF next
<1>9. Lhs(next) = lhs /\ Rhs(next) = rhs BY <1>8, SameWords
<1>10. FzRight(next, fzDA')
  <2> HIDE DEF lhs, rhs, D
  <2>1. next.i <= Len(lhs) + 1 /\ next.j <= Len(rhs) + 1 BY <1>1, <1>3, <1>8
  <2>2. ASSUME NEW x \in 0 .. Len(lhs), NEW y \in 0 .. Len(rhs),
               x = 0 \/ y = 0 \/ x < next.i \/ (x = next.i /\ y < next.j)
        PROVE  next.d[<<x + 1, y + 1>>] = D[<<x, y>>]
    <3>1. x = 0 \/ y = 0 \/ x < c.i \/ (x = c.i /\ y < c.j) BY <1>1, <1>3, <1>8, <2>2
    <3> QED BY <1>7, <1>8, <3>1
  <2>3. LastSeen(rhs, lhs[next.i], next.j - 1, next.db)
    <3>1. next.j - 1 = 0 /\ next.db = 0 BY <1>8
    <3> QED BY <3>1, SeenNothing
  <2>4. ASSUME NEW y \in 1 .. Len(rhs) PROVE LastSeen(lhs, rhs[y], next.i - 1, RowOf(fzDA', rhs[y]))
    <3>1. c.i - 1 \in Nat /\ (c.i - 1) + 1 = c.i /\ next.i - 1 = c.i BY <1>3, <1>8
    <3>2. LastSeen(lhs, rhs[y], c.i - 1, RowOf(fzDA, rhs[y])) BY <1>7
    <3>3. LastSeen(lhs, rhs[y], (c.i - 1) + 1, IF lhs[(c.i - 1) + 1] = rhs[y] THEN (c.i - 1) + 1 ELSE RowOf(fzDA, rhs[y]))
      BY <3>1, <3>2, SeenNext
    <3>4. RowOf(fzDA', rhs[y]) = IF lhs[c.i] = rhs[y] THEN c.i ELSE RowOf(fzDA, rhs[y]) BY <1>6
    <3> QED BY <3>1, <3>3, <3>4
  <2>5. \A x \in 0 .. Len(lhs) + 1, y \in 0 .. Len(rhs) + 1 : x = 0 \/ y = 0 => next.d[<<x, y>>] = Len(lhs) + Len(rhs)
    BY <1>7, <1>8
  <2> QED BY <1>9, <2>1, <2>2, <2>3, <2>4, <2>5 DEF FzRight, D
<1>11. FzExactly(next, fzDA') BY <1>8, <1>10 DEF FzExactly
<1> QED BY <1>4, <1>5, <1>11, FzExactSet

LEMMA FzExactReturn ==
  ASSUME FzInv, FzExact, NEW t \in FzThreads, FzReturn(t)
  PROVE  FzExact'
<1> DEFINE c == fzCall[t]
           done == [c EXCEPT !.at = "done", !.dist = c.d[<<Len(Lhs(c)) + 1, Len(Rhs(c)) + 1>>]]
<1>1. FzCallOK(c) /\ FzExactly(c, fzDA) /\ c.at = "table" /\ ~(c.i <= Len(Lhs(c)))
  BY DEF FzInv, FzExact, FzReturn, InRows
<1>2. FzTableOK(c) /\ IsWord(c.cword) /\ IsWord(c.match) /\ DOMAIN c = FzFields /\ FzRight(c, fzDA)
  BY <1>1 DEF FzCallOK, FzExactly
<1>3. fzCall' = [fzCall EXCEPT ![t] = done] /\ fzDA' = fzDA BY DEF FzReturn
<1> HIDE DEF c
<1>4. /\ done.cword = c.cword /\ done.match = c.match /\ done.at = "done"
      /\ done.dist = c.d[<<Len(Lhs(c)) + 1, Len(Rhs(c)) + 1>>]
  BY <1>2 DEF FzFields
<1> HIDE DEF done
<1>5. Len(Lhs(c)) \in Nat /\ Len(Rhs(c)) \in Nat /\ c.i \in Nat BY <1>2, RightIsTyped
<1>6. c.d[<<Len(Lhs(c)) + 1, Len(Rhs(c)) + 1>>] = Distance(Lhs(c), Rhs(c))
  <2>1. \A x \in 0 .. Len(Lhs(c)), y \in 0 .. Len(Rhs(c)) :
          x < c.i => c.d[<<x + 1, y + 1>>] = Distances(Lhs(c), Rhs(c))[<<x, y>>]
    BY <1>2 DEF FzRight
  <2>2. Len(Lhs(c)) \in 0 .. Len(Lhs(c)) /\ Len(Rhs(c)) \in 0 .. Len(Rhs(c)) /\ Len(Lhs(c)) < c.i BY <1>1, <1>5
  <2> QED BY <2>1, <2>2 DEF Distance
<1>7. Lhs(done) = Lhs(c) /\ Rhs(done) = Rhs(c) BY <1>4, SameWords
<1>8. FzExactly(done, fzDA') BY <1>4, <1>6, <1>7 DEF FzExactly
<1> QED BY <1>3, <1>8, FzExactSet

LEMMA FzExactStep == FzInv /\ FzExact /\ OneAtATime /\ OneAtATime' /\ [FzNext]_fzVars => FzExact'
<1> SUFFICES ASSUME FzInv, FzExact, OneAtATime, OneAtATime', [FzNext]_fzVars PROVE FzExact' OBVIOUS
<1>1. CASE UNCHANGED fzVars BY <1>1 DEF fzVars, FzExact
<1>2. CASE FzNext
  <2>1. PICK t \in FzThreads : FzThread(t) BY <1>2 DEF FzNext
  <2> QED BY <2>1, FzExactCell, FzExactRow, FzExactReturn, FzExactBegin DEF FzThread
<1> QED BY <1>1, <1>2

\* As long as no two threads are in the table at once, the distance is that of the two words, whatever has been
\* compared before and left in _DA: the code looks at one swap for each cell, and it is the one that costs least.
THEOREM DistanceIsRightCorrect == FzSpec /\ []OneAtATime => []DistanceIsRight
<1>1. FzInit => FzInv BY FzInitOK
<1>2. FzInv /\ [FzNext]_fzVars => FzInv' BY FzStepOK
<1>3. FzInit => FzExact BY FzExactInit
<1>4. FzInv /\ FzExact /\ OneAtATime /\ OneAtATime' /\ [FzNext]_fzVars => FzExact' BY FzExactStep
<1>5. FzExact => DistanceIsRight BY DEF FzExact, FzExactly, DistanceIsRight, Returned
<1> QED BY <1>1, <1>2, <1>3, <1>4, <1>5, PTL DEF FzSpec

-----------------------------------------------------------------------------
(* A distance is as little as the lengths allow just if one word is in the other.              *)

\* one of the ways in which the distance of a cell comes about
ComesFrom(D, lhs, rhs, i, j) ==
  \/ D[<<i, j>>] = D[<<i - 1, j>>] + 1
  \/ D[<<i, j>>] = D[<<i, j - 1>>] + 1
  \/ lhs[i] = rhs[j] /\ D[<<i, j>>] = D[<<i - 1, j - 1>>]
  \/ D[<<i, j>>] = D[<<i - 1, j - 1>>] + 1
  \/ \E a \in 1 .. i - 1, b \in 1 .. j - 1 : D[<<i, j>>] = D[<<a - 1, b - 1>>] + (i - a) + (j - b) - 1

\* what is the same if the words and the rows and columns are exchanged
Stepwise(D, lhs, rhs) ==
  \A i \in 0 .. Len(lhs), j \in 0 .. Len(rhs) :
    /\ D[<<i, j>>] \in Nat
    /\ i = 0 => D[<<i, j>>] = j
    /\ j = 0 => D[<<i, j>>] = i
    /\ i > 0 => D[<<i, j>>] <= D[<<i - 1, j>>] + 1
    /\ j > 0 => D[<<i, j>>] <= D[<<i, j - 1>>] + 1
    /\ i > 0 /\ j > 0 => /\ lhs[i] = rhs[j] => D[<<i, j>>] <= D[<<i - 1, j - 1>>]
                         /\ ComesFrom(D, lhs, rhs, i, j)

LEMMA DistancesAreStepwise ==
  ASSUME NEW lhs, NEW rhs, Len(lhs) \in Nat, Len(rhs) \in Nat, NEW D, IsDistances(D, lhs, rhs)
  PROVE  Stepwise(D, lhs, rhs)
<1> SUFFICES ASSUME NEW i \in 0 .. Len(lhs), NEW j \in 0 .. Len(rhs)
             PROVE  /\ D[<<i, j>>] \in Nat
                    /\ i = 0 => D[<<i, j>>] = j
                    /\ j = 0 => D[<<i, j>>] = i
                    /\ i > 0 => D[<<i, j>>] <= D[<<i - 1, j>>] + 1
                    /\ j > 0 => D[<<i, j>>] <= D[<<i, j - 1>>] + 1
                    /\ i > 0 /\ j > 0 => /\ lhs[i] = rhs[j] => D[<<i, j>>] <= D[<<i - 1, j - 1>>]
                                         /\ ComesFrom(D, lhs, rhs, i, j)
  BY DEF Stepwise
<1>1. /\ D[<<i, j>>] \in Nat
      /\ i > 0 => D[<<i, j>>] <= D[<<i - 1, j>>] + 1
      /\ j > 0 => D[<<i, j>>] <= D[<<i, j - 1>>] + 1
      /\ i > 0 /\ j > 0 => /\ D[<<i, j>>] <= D[<<i - 1, j - 1>>] + (IF lhs[i] = rhs[j] THEN 0 ELSE 1)
                           /\ D[<<i, j>>] \in Ways(D, lhs, rhs, i, j)
  BY DistanceSteps
<1>2. (i = 0 => D[<<i, j>>] = j) /\ (j = 0 => D[<<i, j>>] = i) BY DistancesAtEdge
<1>3. ASSUME i > 0, j > 0
      PROVE  (lhs[i] = rhs[j] => D[<<i, j>>] <= D[<<i - 1, j - 1>>]) /\ ComesFrom(D, lhs, rhs, i, j)
  <2>1. i - 1 \in 0 .. Len(lhs) /\ j - 1 \in 0 .. Len(rhs) BY <1>3
  <2>2. D[<<i - 1, j - 1>>] \in Nat BY <2>1, DistancesAreNatural
  <2>3. D[<<i - 1, j - 1>>] + 0 = D[<<i - 1, j - 1>>] BY <2>2
  <2>4. lhs[i] = rhs[j] => D[<<i, j>>] <= D[<<i - 1, j - 1>>] BY <1>1, <1>3, <2>3
  <2>5. CASE D[<<i, j>>] \in {D[<<i - 1, j>>] + 1, D[<<i, j - 1>>] + 1,
                              D[<<i - 1, j - 1>>] + (IF lhs[i] = rhs[j] THEN 0 ELSE 1)}
    BY <2>3, <2>4, <2>5 DEF ComesFrom
  <2>6. CASE D[<<i, j>>] \in {D[<<p[1] - 1, p[2] - 1>>] + (i - p[1]) + (j - p[2]) - 1 : p \in Swaps(lhs, rhs, i, j)}
    <3>1. PICK p \in Swaps(lhs, rhs, i, j) : D[<<i, j>>] = D[<<p[1] - 1, p[2] - 1>>] + (i - p[1]) + (j - p[2]) - 1
      BY <2>6
    <3>2. p \in (1 .. i - 1) \X (1 .. j - 1) BY DEF Swaps
    <3>3. PICK a \in 1 .. i - 1, b \in 1 .. j - 1 : p = <<a, b>> BY <3>2
    <3>4. p[1] = a /\ p[2] = b BY <3>3
    <3>5. D[<<i, j>>] = D[<<a - 1, b - 1>>] + (i - a) + (j - b) - 1 BY <3>1, <3>4
    <3>6. \E x \in 1 .. i - 1, y \in 1 .. j - 1 : D[<<i, j>>] = D[<<x - 1, y - 1>>] + (i - x) + (j - y) - 1 BY <3>5
    <3> QED BY <2>4, <3>6, Zenon DEF ComesFrom
  <2> QED BY <1>1, <1>3, <2>5, <2>6 DEF Ways
<1> QED BY <1>1, <1>2, <1>3, Zenon

Turned(D, lhs, rhs) == [cell \in PairsOf(rhs, lhs) |-> D[<<cell[2], cell[1]>>]]

LEMMA TurnedIsStepwise ==
  ASSUME NEW lhs, NEW rhs, Len(lhs) \in Nat, Len(rhs) \in Nat, NEW D, Stepwise(D, lhs, rhs)
  PROVE  Stepwise(Turned(D, lhs, rhs), rhs, lhs)
<1> DEFINE T == Turned(D, lhs, rhs)
<1>1. ASSUME NEW j \in 0 .. Len(rhs), NEW i \in 0 .. Len(lhs) PROVE T[<<j, i>>] = D[<<i, j>>]
  BY DEF Turned, PairsOf
<1> HIDE DEF T
<1> SUFFICES ASSUME NEW j \in 0 .. Len(rhs), NEW i \in 0 .. Len(lhs)
             PROVE  /\ T[<<j, i>>] \in Nat
                    /\ j = 0 => T[<<j, i>>] = i
                    /\ i = 0 => T[<<j, i>>] = j
                    /\ j > 0 => T[<<j, i>>] <= T[<<j - 1, i>>] + 1
                    /\ i > 0 => T[<<j, i>>] <= T[<<j, i - 1>>] + 1
                    /\ j > 0 /\ i > 0 => /\ rhs[j] = lhs[i] => T[<<j, i>>] <= T[<<j - 1, i - 1>>]
                                         /\ ComesFrom(T, rhs, lhs, j, i)
  BY DEF Stepwise, T
<1>2. /\ D[<<i, j>>] \in Nat
      /\ i = 0 => D[<<i, j>>] = j
      /\ j = 0 => D[<<i, j>>] = i
      /\ i > 0 => D[<<i, j>>] <= D[<<i - 1, j>>] + 1
      /\ j > 0 => D[<<i, j>>] <= D[<<i, j - 1>>] + 1
      /\ i > 0 /\ j > 0 => /\ lhs[i] = rhs[j] => D[<<i, j>>] <= D[<<i - 1, j - 1>>]
                           /\ ComesFrom(D, lhs, rhs, i, j)
  BY DEF Stepwise
<1>3. i \in Nat /\ j \in Nat /\ (i > 0 => i - 1 \in 0 .. Len(lhs)) /\ (j > 0 => j - 1 \in 0 .. Len(rhs)) OBVIOUS
<1>4. /\ T[<<j, i>>] = D[<<i, j>>]
      /\ j > 0 => T[<<j - 1, i>>] = D[<<i, j - 1>>]
      /\ i > 0 => T[<<j, i - 1>>] = D[<<i - 1, j>>]
      /\ i > 0 /\ j > 0 => T[<<j - 1, i - 1>>] = D[<<i - 1, j - 1>>]
  BY <1>1, <1>3, Zenon
<1>5. ASSUME i > 0, j > 0 PROVE ComesFrom(T, rhs, lhs, j, i)
  <2>1. ComesFrom(D, lhs, rhs, i, j) BY <1>2, <1>5
  <2>2. CASE \E a \in 1 .. i - 1, b \in 1 .. j - 1 : D[<<i, j>>] = D[<<a - 1, b - 1>>] + (i - a) + (j - b) - 1
    <3>1. PICK a \in 1 .. i - 1, b \in 1 .. j - 1 : D[<<i, j>>] = D[<<a - 1, b - 1>>] + (i - a) + (j - b) - 1 BY <2>2
    <3>2. a \in Nat /\ b \in Nat /\ a - 1 \in 0 .. Len(lhs) /\ b - 1 \in 0 .. Len(rhs) BY <1>3
    <3>3. T[<<b - 1, a - 1>>] = D[<<a - 1, b - 1>>] BY <1>1, <3>2
    <3>4. D[<<a - 1, b - 1>>] \in Nat BY <3>2 DEF Stepwise
    <3>5. PICK d \in Nat : d = D[<<a - 1, b - 1>>] BY <3>4
    <3>6. d + (i - a) + (j - b) - 1 = d + (j - b) + (i - a) - 1 BY <1>3, <3>2
    <3>7. T[<<j, i>>] = T[<<b - 1, a - 1>>] + (j - b) + (i - a) - 1 BY <1>4, <3>1, <3>3, <3>5, <3>6
    <3>8. \E x \in 1 .. j - 1, y \in 1 .. i - 1 : T[<<j, i>>] = T[<<x - 1, y - 1>>] + (j - x) + (i - y) - 1 BY <3>7
    <3> QED BY <3>8, Zenon DEF ComesFrom
  <2> QED BY <1>4, <1>5, <2>1, <2>2, Zenon DEF ComesFrom
<1> QED BY <1>2, <1>4, <1>5, Zenon

\* what the first letters of one have in order in the first of the other
Embeds(lhs, rhs, i, j, place) ==
  /\ place \in [1 .. i -> 1 .. j]
  /\ \A k \in 1 .. i : lhs[k] = rhs[place[k]]
  /\ \A k, m \in 1 .. i : k < m => place[k] < place[m]

Embedded(lhs, rhs, i, j) == \E place : Embeds(lhs, rhs, i, j, place)

LEMMA NothingIsEmbedded ==
  ASSUME NEW lhs, NEW rhs, NEW j
  PROVE  Embedded(lhs, rhs, 0, j)
<1> DEFINE place == [k \in 1 .. 0 |-> 1]
<1>1. 1 .. 0 = {} OBVIOUS
<1>2. Embeds(lhs, rhs, 0, j, place) BY <1>1 DEF Embeds
<1> QED BY <1>2, Zenon DEF Embedded

LEMMA EmbeddedFurther ==
  ASSUME NEW lhs, NEW rhs, NEW i \in Nat, NEW j \in Nat, Embedded(lhs, rhs, i, j)
  PROVE  Embedded(lhs, rhs, i, j + 1)
<1>1. PICK place : Embeds(lhs, rhs, i, j, place) BY DEF Embedded
<1>2. place \in [1 .. i -> 1 .. j + 1]
  <2>1. \A k \in 1 .. j : k \in 1 .. j + 1 OBVIOUS
  <2>2. place \in [1 .. i -> 1 .. j] BY <1>1 DEF Embeds
  <2> QED BY <2>1, <2>2
<1>3. Embeds(lhs, rhs, i, j + 1, place) BY <1>1, <1>2 DEF Embeds
<1> QED BY <1>3 DEF Embedded

LEMMA EmbeddedOneMore ==
  ASSUME NEW lhs, NEW rhs, NEW i \in Nat, NEW j \in Nat, Embedded(lhs, rhs, i, j), lhs[i + 1] = rhs[j + 1]
  PROVE  Embedded(lhs, rhs, i + 1, j + 1)
<1>1. PICK place : Embeds(lhs, rhs, i, j, place) BY DEF Embedded
<1> DEFINE more == [k \in 1 .. i + 1 |-> IF k = i + 1 THEN j + 1 ELSE place[k]]
<1>2. place \in [1 .. i -> 1 .. j] BY <1>1 DEF Embeds
<1>3. ASSUME NEW k \in 1 .. i + 1
      PROVE  /\ k = i + 1 => more[k] = j + 1
             /\ k # i + 1 => k \in 1 .. i /\ more[k] = place[k] /\ place[k] \in 1 .. j
  <2>1. k # i + 1 => k \in 1 .. i OBVIOUS
  <2> QED BY <1>2, <2>1
<1>4. more \in [1 .. i + 1 -> 1 .. j + 1]
  <2>1. \A k \in 1 .. i + 1 : (IF k = i + 1 THEN j + 1 ELSE place[k]) \in 1 .. j + 1 BY <1>3
  <2> QED BY <2>1
<1> HIDE DEF more
<1>5. ASSUME NEW k \in 1 .. i + 1 PROVE lhs[k] = rhs[more[k]]
  <2>1. CASE k = i + 1 BY <1>3, <2>1
  <2>2. CASE k # i + 1
    <3>1. k \in 1 .. i /\ more[k] = place[k] BY <1>3, <2>2
    <3>2. lhs[k] = rhs[place[k]] BY <1>1, <3>1 DEF Embeds
    <3> QED BY <3>1, <3>2
  <2> QED BY <2>1, <2>2
<1>6. ASSUME NEW k \in 1 .. i + 1, NEW m \in 1 .. i + 1, k < m PROVE more[k] < more[m]
  <2>1. k # i + 1 /\ k \in 1 .. i /\ more[k] = place[k] /\ place[k] \in 1 .. j
    <3>1. k # i + 1 BY <1>6
    <3> QED BY <1>3, <3>1
  <2>2. CASE m = i + 1
    <3>1. more[m] = j + 1 BY <1>3, <2>2
    <3> QED BY <2>1, <3>1
  <2>3. CASE m # i + 1
    <3>1. m \in 1 .. i /\ more[m] = place[m] BY <1>3, <2>3
    <3>2. place[k] < place[m] BY <1>1, <1>6, <2>1, <3>1 DEF Embeds
    <3> QED BY <2>1, <3>1, <3>2
  <2> QED BY <2>2, <2>3
<1>7. Embeds(lhs, rhs, i + 1, j + 1, more) BY <1>4, <1>5, <1>6 DEF Embeds
<1> QED BY <1>7 DEF Embedded

\* a word that is embedded is so without the last letter of the other, or that is its last
LEMMA EmbeddedBefore ==
  ASSUME NEW lhs, NEW rhs, NEW i \in Nat, NEW j \in Nat, Embedded(lhs, rhs, i + 1, j + 1)
  PROVE  Embedded(lhs, rhs, i + 1, j) \/ (lhs[i + 1] = rhs[j + 1] /\ Embedded(lhs, rhs, i, j))
<1>1. PICK place : Embeds(lhs, rhs, i + 1, j + 1, place) BY DEF Embedded
<1>2. /\ place \in [1 .. i + 1 -> 1 .. j + 1]
      /\ \A k \in 1 .. i + 1 : lhs[k] = rhs[place[k]]
      /\ \A k, m \in 1 .. i + 1 : k < m => place[k] < place[m]
  BY <1>1 DEF Embeds
<1>3. i + 1 \in 1 .. i + 1 /\ \A k \in 1 .. i : k \in 1 .. i + 1 /\ k < i + 1 OBVIOUS
<1>4. place[i + 1] \in 1 .. j + 1 BY <1>2, <1>3
<1>5. CASE place[i + 1] = j + 1
  <2> DEFINE less == [k \in 1 .. i |-> place[k]]
  <2>1. ASSUME NEW k \in 1 .. i PROVE place[k] \in 1 .. j
    <3>1. place[k] \in 1 .. j + 1 /\ place[k] < place[i + 1] BY <1>2, <1>3
    <3> QED BY <1>5, <3>1
  <2>2. less \in [1 .. i -> 1 .. j] BY <2>1
  <2>3. \A k \in 1 .. i : less[k] = place[k] OBVIOUS
  <2> HIDE DEF less
  <2>4. \A k \in 1 .. i : lhs[k] = rhs[less[k]] BY <1>2, <1>3, <2>3
  <2>5. \A k, m \in 1 .. i : k < m => less[k] < less[m] BY <1>2, <1>3, <2>3
  <2>6. Embeds(lhs, rhs, i, j, less) BY <2>2, <2>4, <2>5 DEF Embeds
  <2>7. lhs[i + 1] = rhs[j + 1] BY <1>2, <1>3, <1>5
  <2> QED BY <2>6, <2>7 DEF Embedded
<1>6. CASE place[i + 1] # j + 1
  <2>1. ASSUME NEW k \in 1 .. i + 1 PROVE place[k] \in 1 .. j
    <3>1. place[k] \in 1 .. j + 1 BY <1>2
    <3>2. k = i + 1 \/ k < i + 1 OBVIOUS
    <3>3. k = i + 1 \/ place[k] < place[i + 1] BY <1>2, <1>3, <3>2
    <3> QED BY <1>4, <1>6, <3>1, <3>3
  <2>2. place \in [1 .. i + 1 -> 1 .. j] BY <1>2, <2>1
  <2>3. Embeds(lhs, rhs, i + 1, j, place) BY <1>2, <2>2 DEF Embeds
  <2> QED BY <2>3 DEF Embedded
<1> QED BY <1>5, <1>6

\* a swap costs more than the lengths differ
LEMMA SwapIsFar ==
  ASSUME NEW i \in Nat, NEW j \in Nat, NEW a \in 1 .. i - 1, NEW b \in 1 .. j - 1, NEW d \in Nat, NEW e \in Nat,
         e = d + (i - a) + (j - b) - 1, a - 1 <= d + (b - 1), b - 1 <= d + (a - 1)
  PROVE  i < e + j /\ j < e + i
<1>1. a \in Nat /\ b \in Nat /\ a < i /\ b < j OBVIOUS
<1>2. a <= d + b /\ b <= d + a BY <1>1
<1>3. e + 1 + a + b = d + i + j BY <1>1
<1>4. i < e + j BY <1>1, <1>2, <1>3
<1>5. j < e + i BY <1>1, <1>2, <1>3
<1> QED BY <1>4, <1>5

FarAt(D, i, j) == i <= D[<<i, j>>] + j /\ j <= D[<<i, j>>] + i

FarUpTo(D, lhs, rhs, n) == \A i \in 0 .. Len(lhs), j \in 0 .. Len(rhs) : i + j <= n => FarAt(D, i, j)

\* a distance is no less than the lengths differ
LEMMA DistancesAreFar ==
  ASSUME NEW lhs, NEW rhs, Len(lhs) \in Nat, Len(rhs) \in Nat, NEW D, Stepwise(D, lhs, rhs),
         NEW i0 \in 0 .. Len(lhs), NEW j0 \in 0 .. Len(rhs)
  PROVE  FarAt(D, i0, j0)
<1> DEFINE G == {n \in Nat : FarUpTo(D, lhs, rhs, n)}
<1>1. \A i \in 0 .. Len(lhs), j \in 0 .. Len(rhs) :
        /\ D[<<i, j>>] \in Nat
        /\ i = 0 => D[<<i, j>>] = j
        /\ j = 0 => D[<<i, j>>] = i
        /\ i > 0 /\ j > 0 => ComesFrom(D, lhs, rhs, i, j)
  BY DEF Stepwise
<1>2. ASSUME NEW i \in 0 .. Len(lhs), NEW j \in 0 .. Len(rhs), i = 0 \/ j = 0 PROVE FarAt(D, i, j)
  BY <1>1, <1>2 DEF FarAt
<1>3. FarUpTo(D, lhs, rhs, 0)
  <2> SUFFICES ASSUME NEW i \in 0 .. Len(lhs), NEW j \in 0 .. Len(rhs), i + j <= 0 PROVE FarAt(D, i, j) BY DEF FarUpTo
  <2>1. i = 0 \/ j = 0 OBVIOUS
  <2> QED BY <1>2, <2>1
<1>4. ASSUME NEW n \in Nat, FarUpTo(D, lhs, rhs, n) PROVE FarUpTo(D, lhs, rhs, n + 1)
  <2> SUFFICES ASSUME NEW i \in 0 .. Len(lhs), NEW j \in 0 .. Len(rhs), i + j <= n + 1, i > 0, j > 0
               PROVE  FarAt(D, i, j)
    <3>1. \A i \in 0 .. Len(lhs), j \in 0 .. Len(rhs) : i = 0 \/ j = 0 \/ (i > 0 /\ j > 0) OBVIOUS
    <3> QED BY <1>2, <3>1 DEF FarUpTo
  <2>1. i \in Nat /\ j \in Nat /\ i - 1 \in 0 .. Len(lhs) /\ j - 1 \in 0 .. Len(rhs) OBVIOUS
  <2>2. /\ D[<<i, j>>] \in Nat /\ D[<<i - 1, j>>] \in Nat /\ D[<<i, j - 1>>] \in Nat /\ D[<<i - 1, j - 1>>] \in Nat
        /\ ComesFrom(D, lhs, rhs, i, j)
    BY <1>1, <2>1
  <2>3. (i - 1) + j <= n /\ i + (j - 1) <= n /\ (i - 1) + (j - 1) <= n BY <2>1
  <2>4. /\ i - 1 <= D[<<i - 1, j>>] + j /\ j <= D[<<i - 1, j>>] + (i - 1)
        /\ i <= D[<<i, j - 1>>] + (j - 1) /\ j - 1 <= D[<<i, j - 1>>] + i
        /\ i - 1 <= D[<<i - 1, j - 1>>] + (j - 1) /\ j - 1 <= D[<<i - 1, j - 1>>] + (i - 1)
    BY <1>4, <2>1, <2>3 DEF FarUpTo, FarAt
  <2>5. PICK d0, d1, d2, d3 \in Nat :
          d0 = D[<<i, j>>] /\ d1 = D[<<i - 1, j>>] /\ d2 = D[<<i, j - 1>>] /\ d3 = D[<<i - 1, j - 1>>]
    BY <2>2
  <2>6. i <= d0 + j /\ j <= d0 + i
    <3>1. CASE d0 = d1 + 1 \/ d0 = d2 + 1 \/ d0 = d3 \/ d0 = d3 + 1
      <4>1. /\ i - 1 <= d1 + j /\ j <= d1 + (i - 1)
            /\ i <= d2 + (j - 1) /\ j - 1 <= d2 + i
            /\ i - 1 <= d3 + (j - 1) /\ j - 1 <= d3 + (i - 1)
        BY <2>4, <2>5, Zenon
      <4> QED BY <2>1, <3>1, <4>1
    <3>2. CASE \E a \in 1 .. i - 1, b \in 1 .. j - 1 : D[<<i, j>>] = D[<<a - 1, b - 1>>] + (i - a) + (j - b) - 1
      <4>1. PICK a \in 1 .. i - 1, b \in 1 .. j - 1 : D[<<i, j>>] = D[<<a - 1, b - 1>>] + (i - a) + (j - b) - 1 BY <3>2
      <4>2. a - 1 \in 0 .. Len(lhs) /\ b - 1 \in 0 .. Len(rhs) /\ (a - 1) + (b - 1) <= n BY <2>1
      <4>3. D[<<a - 1, b - 1>>] \in Nat /\ FarAt(D, a - 1, b - 1) BY <1>1, <1>4, <4>2 DEF FarUpTo
      <4>4. PICK d \in Nat : d = D[<<a - 1, b - 1>>] BY <4>3
      <4>5. a - 1 <= d + (b - 1) /\ b - 1 <= d + (a - 1) BY <4>3, <4>4 DEF FarAt
      <4>6. d0 = d + (i - a) + (j - b) - 1 BY <2>5, <4>1, <4>4
      <4>7. i < d0 + j /\ j < d0 + i BY <2>1, <4>5, <4>6, SwapIsFar
      <4> QED BY <2>1, <4>7
    <3> QED BY <2>2, <2>5, <3>1, <3>2, Zenon DEF ComesFrom
  <2> QED BY <2>5, <2>6 DEF FarAt
<1>5. G = Nat
  <2>1. G \in SUBSET Nat /\ 0 \in G /\ \A n \in G : n + 1 \in G BY <1>3, <1>4
  <2> HIDE DEF G
  <2> QED BY <2>1, SetInduction
<1>6. i0 + j0 \in Nat /\ i0 + j0 <= i0 + j0 OBVIOUS
<1>7. FarUpTo(D, lhs, rhs, i0 + j0) BY <1>5, <1>6
<1> QED BY <1>6, <1>7 DEF FarUpTo

NearIs(D, lhs, rhs, i, j) == D[<<i, j>>] + i <= j <=> Embedded(lhs, rhs, i, j)

NearUpTo(D, lhs, rhs, n) == \A i \in 0 .. Len(lhs), j \in 0 .. Len(rhs) : i + j <= n => NearIs(D, lhs, rhs, i, j)

LEMMA NearOneMore ==
  ASSUME NEW lhs, NEW rhs, Len(lhs) \in Nat, Len(rhs) \in Nat, NEW D, Stepwise(D, lhs, rhs),
         NEW i \in 0 .. Len(lhs), NEW j \in 0 .. Len(rhs), i > 0, j > 0,
         NearIs(D, lhs, rhs, i, j - 1), NearIs(D, lhs, rhs, i - 1, j - 1)
  PROVE  NearIs(D, lhs, rhs, i, j)
<1>1. i \in Nat /\ j \in Nat /\ i - 1 \in 0 .. Len(lhs) /\ j - 1 \in 0 .. Len(rhs) /\ i - 1 \in Nat /\ j - 1 \in Nat
      /\ (i - 1) + 1 = i /\ (j - 1) + 1 = j
  OBVIOUS
<1>2. /\ D[<<i, j>>] \in Nat /\ D[<<i - 1, j>>] \in Nat /\ D[<<i, j - 1>>] \in Nat /\ D[<<i - 1, j - 1>>] \in Nat
      /\ D[<<i, j>>] <= D[<<i, j - 1>>] + 1
      /\ lhs[i] = rhs[j] => D[<<i, j>>] <= D[<<i - 1, j - 1>>]
      /\ ComesFrom(D, lhs, rhs, i, j)
  BY <1>1 DEF Stepwise
<1>3. FarAt(D, i - 1, j) /\ FarAt(D, i, j - 1) /\ FarAt(D, i - 1, j - 1) BY <1>1, DistancesAreFar
<1>4. PICK d0, d1, d2, d3 \in Nat :
        d0 = D[<<i, j>>] /\ d1 = D[<<i - 1, j>>] /\ d2 = D[<<i, j - 1>>] /\ d3 = D[<<i - 1, j - 1>>]
  BY <1>2
<1>5. j <= d1 + (i - 1) /\ j - 1 <= d3 + (i - 1) BY <1>3, <1>4 DEF FarAt
<1>6. /\ d2 + i <= j - 1 <=> Embedded(lhs, rhs, i, j - 1)
      /\ d3 + (i - 1) <= j - 1 <=> Embedded(lhs, rhs, i - 1, j - 1)
  BY <1>4, Zenon DEF NearIs
<1>7. d0 <= d2 + 1 /\ (lhs[i] = rhs[j] => d0 <= d3) BY <1>2, <1>4, Zenon
<1>8. ASSUME Embedded(lhs, rhs, i, j) PROVE d0 + i <= j
  <2>1. Embedded(lhs, rhs, i, j - 1) \/ (lhs[i] = rhs[j] /\ Embedded(lhs, rhs, i - 1, j - 1))
    <3>1. Embedded(lhs, rhs, (i - 1) + 1, (j - 1) + 1) BY <1>1, <1>8
    <3>2. Embedded(lhs, rhs, (i - 1) + 1, j - 1) \/ (lhs[(i - 1) + 1] = rhs[(j - 1) + 1] /\ Embedded(lhs, rhs, i - 1, j - 1))
      BY <1>1, <3>1, EmbeddedBefore
    <3> QED BY <1>1, <3>2
  <2>2. (d0 <= d2 + 1 /\ d2 + i <= j - 1) \/ (d0 <= d3 /\ d3 + (i - 1) <= j - 1) BY <1>6, <1>7, <2>1, Zenon
  <2> QED BY <1>1, <2>2
<1>9. ASSUME d0 + i <= j PROVE Embedded(lhs, rhs, i, j)
  <2>1. ~(d0 = d1 + 1) /\ ~(d0 = d3 + 1) BY <1>1, <1>5, <1>9
  <2>2. CASE d0 = d2 + 1
    <3>1. d2 + i <= j - 1 BY <1>1, <1>9, <2>2
    <3>2. Embedded(lhs, rhs, i, j - 1) BY <1>6, <3>1
    <3>3. Embedded(lhs, rhs, i, (j - 1) + 1) BY <1>1, <3>2, EmbeddedFurther
    <3> QED BY <1>1, <3>3
  <2>3. CASE lhs[i] = rhs[j] /\ d0 = d3
    <3>1. d3 + (i - 1) <= j - 1 BY <1>1, <1>9, <2>3
    <3>2. Embedded(lhs, rhs, i - 1, j - 1) BY <1>6, <3>1
    <3>3. lhs[(i - 1) + 1] = rhs[(j - 1) + 1] BY <1>1, <2>3
    <3>4. Embedded(lhs, rhs, (i - 1) + 1, (j - 1) + 1) BY <1>1, <3>2, <3>3, EmbeddedOneMore
    <3> QED BY <1>1, <3>4
  <2>4. CASE \E a \in 1 .. i - 1, b \in 1 .. j - 1 : D[<<i, j>>] = D[<<a - 1, b - 1>>] + (i - a) + (j - b) - 1
    <3>1. PICK a \in 1 .. i - 1, b \in 1 .. j - 1 : D[<<i, j>>] = D[<<a - 1, b - 1>>] + (i - a) + (j - b) - 1 BY <2>4
    <3>2. a - 1 \in 0 .. Len(lhs) /\ b - 1 \in 0 .. Len(rhs) BY <1>1
    <3>3. D[<<a - 1, b - 1>>] \in Nat BY <3>2 DEF Stepwise
    <3>4. PICK d \in Nat : d = D[<<a - 1, b - 1>>] BY <3>3
    <3>5. FarAt(D, a - 1, b - 1) BY <3>2, DistancesAreFar
    <3>6. a - 1 <= d + (b - 1) /\ b - 1 <= d + (a - 1) BY <3>4, <3>5 DEF FarAt
    <3>7. d0 = d + (i - a) + (j - b) - 1 BY <1>4, <3>1, <3>4
    <3>8. j < d0 + i BY <1>1, <3>6, <3>7, SwapIsFar
    <3> QED BY <1>1, <1>9, <3>8
  <2> QED BY <1>2, <1>4, <2>1, <2>2, <2>3, <2>4, Zenon DEF ComesFrom
<1> QED BY <1>4, <1>8, <1>9, Zenon DEF NearIs

\* the distance is as little as the lengths allow just if the one is the other with some letters left out
LEMMA NearIsEmbedded ==
  ASSUME NEW lhs, NEW rhs, Len(lhs) \in Nat, Len(rhs) \in Nat, NEW D, Stepwise(D, lhs, rhs),
         NEW i0 \in 0 .. Len(lhs), NEW j0 \in 0 .. Len(rhs)
  PROVE  NearIs(D, lhs, rhs, i0, j0)
<1> DEFINE G == {n \in Nat : NearUpTo(D, lhs, rhs, n)}
<1>1. ASSUME NEW i \in 0 .. Len(lhs), NEW j \in 0 .. Len(rhs), i = 0 PROVE NearIs(D, lhs, rhs, i, j)
  <2>1. D[<<i, j>>] = j BY <1>1 DEF Stepwise
  <2>2. D[<<i, j>>] + i <= j BY <1>1, <2>1
  <2>3. Embedded(lhs, rhs, i, j) BY <1>1, NothingIsEmbedded
  <2> QED BY <2>2, <2>3 DEF NearIs
<1>2. ASSUME NEW i \in 0 .. Len(lhs), NEW j \in 0 .. Len(rhs), i > 0, j = 0 PROVE NearIs(D, lhs, rhs, i, j)
  <2>1. D[<<i, j>>] = i BY <1>2 DEF Stepwise
  <2>2. ~(D[<<i, j>>] + i <= j) BY <1>2, <2>1
  <2>3. ~Embedded(lhs, rhs, i, j)
    <3>1. 1 \in 1 .. i /\ 1 .. j = {} BY <1>2
    <3> QED BY <3>1 DEF Embedded, Embeds
  <2> QED BY <2>2, <2>3 DEF NearIs
<1>3. NearUpTo(D, lhs, rhs, 0)
  <2> SUFFICES ASSUME NEW i \in 0 .. Len(lhs), NEW j \in 0 .. Len(rhs), i + j <= 0 PROVE NearIs(D, lhs, rhs, i, j)
    BY DEF NearUpTo
  <2>1. i = 0 OBVIOUS
  <2> QED BY <1>1, <2>1
<1>4. ASSUME NEW n \in Nat, NearUpTo(D, lhs, rhs, n) PROVE NearUpTo(D, lhs, rhs, n + 1)
  <2> SUFFICES ASSUME NEW i \in 0 .. Len(lhs), NEW j \in 0 .. Len(rhs), i + j <= n + 1, i > 0, j > 0
               PROVE  NearIs(D, lhs, rhs, i, j)
    <3>1. \A i \in 0 .. Len(lhs), j \in 0 .. Len(rhs) : i = 0 \/ (i > 0 /\ j = 0) \/ (i > 0 /\ j > 0) OBVIOUS
    <3> QED BY <1>1, <1>2, <3>1 DEF NearUpTo
  <2>1. i - 1 \in 0 .. Len(lhs) /\ j - 1 \in 0 .. Len(rhs) /\ i + (j - 1) <= n /\ (i - 1) + (j - 1) <= n OBVIOUS
  <2>2. NearIs(D, lhs, rhs, i, j - 1) /\ NearIs(D, lhs, rhs, i - 1, j - 1) BY <1>4, <2>1 DEF NearUpTo
  <2> QED BY <2>2, NearOneMore
<1>5. G = Nat
  <2>1. G \in SUBSET Nat /\ 0 \in G /\ \A n \in G : n + 1 \in G BY <1>3, <1>4
  <2> HIDE DEF G
  <2> QED BY <2>1, SetInduction
<1>6. i0 + j0 \in Nat /\ i0 + j0 <= i0 + j0 OBVIOUS
<1>7. NearUpTo(D, lhs, rhs, i0 + j0) BY <1>5, <1>6
<1> QED BY <1>6, <1>7 DEF NearUpTo

\* the lengths of what is compared differ by what the longer word is looked at beyond the shorter
LEMMA ComparedDiffer ==
  ASSUME NEW c, IsWord(c.cword), IsWord(c.match)
  PROVE  /\ Len(Lhs(c)) \in Nat /\ Len(Rhs(c)) \in Nat
         /\ Len(Lhs(c)) <= Len(Rhs(c)) => More(c) = Len(Rhs(c)) - Len(Lhs(c))
         /\ Len(Rhs(c)) <= Len(Lhs(c)) => More(c) = Len(Lhs(c)) - Len(Rhs(c))
<1> DEFINE u == c.cword
           v == c.match
           s == Shorter(u, v)
           p == Matches(u, v)
           n == Cutoff(c)
<1>1. u \in Seq(ToSet(u)) /\ v \in Seq(ToSet(v)) BY DEF IsWord
<1>2. /\ s = (IF Len(u) <= Len(v) THEN Len(u) ELSE Len(v))
      /\ Longer(u, v) = (IF Len(u) <= Len(v) THEN Len(v) ELSE Len(u))
      /\ p \in 0 .. s
  BY <1>1, PrefixIsShort
<1>3. Len(u) \in Nat /\ Len(v) \in Nat BY <1>1
<1>4. n = (IF Longer(u, v) <= s + FzLookAhead THEN Longer(u, v) ELSE s + FzLookAhead)
  BY <1>2, <1>3, OfTwo, FzAssumption DEF Cutoff
<1>5. n \in Nat /\ s <= n /\ s \in Nat /\ p \in Nat /\ p <= s /\ n <= Longer(u, v)
  BY <1>2, <1>3, <1>4, FzAssumption
<1>6. ASSUME NEW S, NEW word \in Seq(S), s <= Len(word)
      PROVE  Len(Tail1(c, word)) = (IF n <= Len(word) THEN n ELSE Len(word)) - p
  <2> DEFINE m == Min({n, Len(word)})
  <2>1. Len(word) \in Nat BY <1>6
  <2>2. m = (IF n <= Len(word) THEN n ELSE Len(word))
    <3>1. n \in Int /\ Len(word) \in Int BY <1>5, <2>1
    <3> HIDE DEF n, s, p
    <3> QED BY <3>1, OfTwo
  <2>3. m \in Nat /\ m <= Len(word) /\ p <= m /\ p \in Nat
    <3> HIDE DEF m, n, p, s
    <3> QED BY <1>5, <1>6, <2>1, <2>2
  <2>4. Tail1(c, word) = SubSeq(word, p + 1, m) BY DEF Tail1
  <2> HIDE DEF m, n, p, s
  <2>5. SubSeq(word, p + 1, m) \in Seq(S) /\ Len(SubSeq(word, p + 1, m)) = (IF p + 1 <= m THEN m - (p + 1) + 1 ELSE 0) BY <2>1, <2>3, SubSeqProperties
  <2>6. Len(SubSeq(word, p + 1, m)) = m - p BY <1>5, <2>3, <2>5
  <2> QED BY <2>2, <2>4, <2>6
<1>7. s <= Len(u) /\ s <= Len(v) BY <1>2, <1>3
<1>8. /\ Len(Lhs(c)) = (IF n <= Len(u) THEN n ELSE Len(u)) - p
      /\ Len(Rhs(c)) = (IF n <= Len(v) THEN n ELSE Len(v)) - p
  BY <1>1, <1>6, <1>7 DEF Lhs, Rhs
<1>9. More(c) = n - s BY DEF More
<1>10. PICK x \in Nat, y \in Nat : x = Len(u) /\ y = Len(v) BY <1>3
<1> HIDE DEF u, v, s, p, n
<1>11. CASE Len(u) <= Len(v)
  <2>1. s = x /\ n <= y /\ x <= y BY <1>2, <1>5, <1>10, <1>11
  <2>2. Len(Lhs(c)) = x - p /\ Len(Rhs(c)) = n - p BY <1>5, <1>8, <1>10, <2>1
  <2> QED BY <1>5, <1>9, <2>1, <2>2
<1>12. CASE ~(Len(u) <= Len(v))
  <2>1. s = y /\ n <= x /\ y <= x BY <1>2, <1>5, <1>10, <1>12
  <2>2. Len(Rhs(c)) = y - p /\ Len(Lhs(c)) = n - p BY <1>5, <1>8, <1>10, <2>1
  <2> QED BY <1>5, <1>9, <2>1, <2>2
<1> QED BY <1>11, <1>12

LEMMA SubsequenceIsEmbedded ==
  ASSUME NEW short, NEW long
  PROVE  Subsequence(short, long) <=> Embedded(short, long, Len(short), Len(long))
BY DEF Subsequence, Embedded, Embeds

\* the distance is no less than the lengths differ, and just that of what is embedded
LEMMA DistanceIsLeast ==
  ASSUME NEW lhs, NEW rhs, Len(lhs) \in Nat, Len(rhs) \in Nat
  PROVE  /\ Distance(lhs, rhs) \in Nat
         /\ Len(rhs) - Len(lhs) <= Distance(lhs, rhs)
         /\ Len(lhs) - Len(rhs) <= Distance(lhs, rhs)
         /\ Distance(lhs, rhs) <= Len(rhs) - Len(lhs) <=> Subsequence(lhs, rhs)
         /\ Distance(lhs, rhs) <= Len(lhs) - Len(rhs) <=> Subsequence(rhs, lhs)
<1> DEFINE D == Distances(lhs, rhs)
           T == Turned(D, lhs, rhs)
           L == Len(lhs)
           R == Len(rhs)
<1>1. L \in 0 .. L /\ R \in 0 .. R /\ L \in Nat /\ R \in Nat OBVIOUS
<1>2. Stepwise(D, lhs, rhs)
  <2> HIDE DEF D
  <2> QED BY DistancesAre, DistancesAreStepwise DEF D
<1>3. Stepwise(T, rhs, lhs)
  <2> HIDE DEF D
  <2> QED BY <1>2, TurnedIsStepwise
<1>4. Distance(lhs, rhs) = D[<<L, R>>] BY DEF Distance
<1> HIDE DEF D
<1>5. T[<<R, L>>] = D[<<L, R>>]
  <2>1. <<R, L>> \in PairsOf(rhs, lhs) BY <1>1 DEF PairsOf
  <2> QED BY <2>1 DEF Turned
<1> HIDE DEF T
<1>6. D[<<L, R>>] \in Nat /\ FarAt(D, L, R) BY <1>1, <1>2, DistancesAreFar DEF Stepwise
<1>7. NearIs(D, lhs, rhs, L, R) BY <1>1, <1>2, NearIsEmbedded
<1>8. NearIs(T, rhs, lhs, R, L) BY <1>1, <1>3, NearIsEmbedded
<1>9. PICK d \in Nat : d = D[<<L, R>>] BY <1>6
<1>10. d + L <= R <=> Subsequence(lhs, rhs) BY <1>7, <1>9, SubsequenceIsEmbedded DEF NearIs
<1>11. d + R <= L <=> Subsequence(rhs, lhs) BY <1>5, <1>8, <1>9, SubsequenceIsEmbedded DEF NearIs
<1>12. L <= d + R /\ R <= d + L BY <1>6, <1>9 DEF FarAt
<1>13. Distance(lhs, rhs) = d BY <1>4, <1>9
<1> HIDE DEF L, R
<1>14. R - L <= d /\ L - R <= d /\ (d <= R - L <=> d + L <= R) /\ (d <= L - R <=> d + R <= L) BY <1>1, <1>12
<1> QED BY <1>10, <1>11, <1>13, <1>14, Zenon DEF L, R

\* The weight that the distance gives is at most 1, and is 1 just if the shorter word is the longer one with some
\* letters left out, as long as no two threads are in the table at once.
THEOREM EditIsAtMostOneCorrect == FzSpec /\ []OneAtATime => []EditIsAtMostOne
<1>1. FzInit => FzInv BY FzInitOK
<1>2. FzInv /\ [FzNext]_fzVars => FzInv' BY FzStepOK
<1>3. FzInv => \A t \in FzThreads : IsWord(fzCall[t].cword) /\ IsWord(fzCall[t].match) BY DEF FzInv, FzCallOK
<1>4. FzInv /\ DistanceIsRight => EditIsAtMostOne
  <2> SUFFICES ASSUME FzInv, DistanceIsRight, NEW t \in FzThreads, Returned(t)
               PROVE  LET c == fzCall[t]
                          lhs == Lhs(c)
                          rhs == Rhs(c)
                      IN  /\ More(c) <= c.dist
                          /\ c.dist = More(c) <=> IF Len(lhs) < Len(rhs) THEN Subsequence(lhs, rhs) ELSE Subsequence(rhs, lhs)
    BY DEF EditIsAtMostOne
  <2> DEFINE c == fzCall[t]
             lhs == Lhs(c)
             rhs == Rhs(c)
  <2>1. c.dist = Distance(lhs, rhs) BY DEF DistanceIsRight
  <2>2. IsWord(c.cword) /\ IsWord(c.match) BY <1>3
  <2> HIDE DEF c
  <2>3. /\ Len(lhs) \in Nat /\ Len(rhs) \in Nat
        /\ Len(lhs) <= Len(rhs) => More(c) = Len(rhs) - Len(lhs)
        /\ Len(rhs) <= Len(lhs) => More(c) = Len(lhs) - Len(rhs)
    BY <2>2, ComparedDiffer
  <2> HIDE DEF lhs, rhs
  <2>4. /\ c.dist \in Nat
        /\ Len(rhs) - Len(lhs) <= c.dist
        /\ Len(lhs) - Len(rhs) <= c.dist
        /\ c.dist <= Len(rhs) - Len(lhs) <=> Subsequence(lhs, rhs)
        /\ c.dist <= Len(lhs) - Len(rhs) <=> Subsequence(rhs, lhs)
    BY <2>1, <2>3, DistanceIsLeast
  <2>5. CASE Len(lhs) < Len(rhs)
    <3>1. More(c) = Len(rhs) - Len(lhs) BY <2>3, <2>5
    <3>2. More(c) <= c.dist /\ (c.dist = More(c) <=> Subsequence(lhs, rhs)) BY <2>3, <2>4, <3>1
    <3> QED BY <2>5, <3>2 DEF c, lhs, rhs
  <2>6. CASE ~(Len(lhs) < Len(rhs))
    <3>1. More(c) = Len(lhs) - Len(rhs) BY <2>3, <2>6
    <3>2. More(c) <= c.dist /\ (c.dist = More(c) <=> Subsequence(rhs, lhs)) BY <2>3, <2>4, <3>1
    <3> QED BY <2>6, <3>2 DEF c, lhs, rhs
  <2> QED BY <2>5, <2>6
<1>5. FzSpec /\ []OneAtATime => []DistanceIsRight BY DistanceIsRightCorrect
<1> QED BY <1>1, <1>2, <1>4, <1>5, PTL DEF FzSpec

-----------------------------------------------------------------------------
(* The similarity.  Difference is the sum of the letters that one word has more of than the other, and
   what two words have in common is the same either way.                      *)

Count(word, c) == Cardinality({k \in DOMAIN word : word[k] = c})

Excess(lhs, rhs, c) == Max({0, Count(lhs, c) - Count(rhs, c)})

Rest(X, lhs, rhs, s) ==
  IF s = {} THEN 0 ELSE LET c == CHOOSE c \in s : TRUE IN X[s \ {c}] + Excess(lhs, rhs, c)

Excesses(lhs, rhs) == LET iter[s \in SUBSET ToSet(lhs)] == Rest(iter, lhs, rhs, s) IN iter

LEMMA DifferenceIsSum ==
  ASSUME NEW lhs, NEW rhs
  PROVE  Difference(lhs, rhs) = Excesses(lhs, rhs)[ToSet(lhs)]
BY Zenon DEF Difference, FoldSet, MapThenFoldSet, Excesses, Rest, Excess, Count

LEMMA WordIsFinite ==
  ASSUME NEW word, IsWord(word)
  PROVE  /\ Len(word) \in Nat /\ DOMAIN word = 1 .. Len(word) /\ IsFiniteSet(ToSet(word))
         /\ IsFiniteSet(DOMAIN word) /\ Cardinality(DOMAIN word) = Len(word)
<1>1. word \in Seq(ToSet(word)) BY DEF IsWord
<1>2. Len(word) \in Nat /\ DOMAIN word = 1 .. Len(word) /\ word \in [1 .. Len(word) -> ToSet(word)] BY <1>1
<1>3. IsFiniteSet(1 .. Len(word)) /\ Cardinality(1 .. Len(word)) = Len(word)
  <2>1. Len(word) \in Int /\ 1 \in Int BY <1>2
  <2>2. IsFiniteSet(1 .. Len(word)) /\ Cardinality(1 .. Len(word)) = (IF 1 > Len(word) THEN 0 ELSE Len(word) - 1 + 1)
    BY <2>1, FS_Interval
  <2>3. (IF 1 > Len(word) THEN 0 ELSE Len(word) - 1 + 1) = Len(word) BY <1>2
  <2> QED BY <2>2, <2>3
<1>4. word \in Surjection(1 .. Len(word), ToSet(word)) BY <1>2 DEF Surjection, ToSet
<1>5. IsFiniteSet(ToSet(word)) BY <1>3, <1>4, FS_Surjection
<1> QED BY <1>2, <1>3, <1>5

LEMMA CountIsNatural ==
  ASSUME NEW word, IsWord(word), NEW c
  PROVE  Count(word, c) \in Nat /\ (c \notin ToSet(word) => Count(word, c) = 0)
<1> DEFINE K == {k \in DOMAIN word : word[k] = c}
<1>1. IsFiniteSet(DOMAIN word) BY WordIsFinite
<1>2. K \in SUBSET DOMAIN word OBVIOUS
<1>3. IsFiniteSet(K) BY <1>1, <1>2, FS_Subset
<1>4. c \notin ToSet(word) => K = {} BY DEF ToSet
<1> QED BY <1>3, <1>4, FS_CardinalityType, FS_EmptySet DEF Count

LEMMA ExcessIsNatural ==
  ASSUME NEW lhs, IsWord(lhs), NEW rhs, IsWord(rhs), NEW c
  PROVE  /\ Excess(lhs, rhs, c) \in Nat /\ Excess(lhs, rhs, c) <= Count(lhs, c)
         /\ Excess(lhs, rhs, c) + Count(rhs, c) = Excess(rhs, lhs, c) + Count(lhs, c)
<1>1. PICK m \in Nat, n \in Nat : m = Count(lhs, c) /\ n = Count(rhs, c) BY CountIsNatural
<1>2. Excess(lhs, rhs, c) = (IF 0 <= m - n THEN m - n ELSE 0)
  <2>1. 0 \in Int /\ m - n \in Int OBVIOUS
  <2> QED BY <1>1, <2>1, OfTwo DEF Excess
<1>3. Excess(rhs, lhs, c) = (IF 0 <= n - m THEN n - m ELSE 0)
  <2>1. 0 \in Int /\ n - m \in Int OBVIOUS
  <2> QED BY <1>1, <2>1, OfTwo DEF Excess
<1> QED BY <1>1, <1>2, <1>3

LEMMA SubsetsAreFinite ==
  ASSUME NEW S, IsFiniteSet(S), NEW s \in SUBSET S
  PROVE  /\ IsFiniteSet(s) /\ Cardinality(s) \in Nat
         /\ Cardinality(s) = 0 <=> s = {}
         /\ \A c \in s : s \ {c} \in SUBSET S /\ Cardinality(s \ {c}) + 1 = Cardinality(s) /\ Cardinality(s \ {c}) \in Nat
<1>1. IsFiniteSet(s) BY FS_Subset
<1>2. Cardinality(s) \in Nat BY <1>1, FS_CardinalityType
<1>3. Cardinality(s) = 0 <=> s = {} BY <1>1, FS_EmptySet
<1>4. ASSUME NEW c \in s
      PROVE  s \ {c} \in SUBSET S /\ Cardinality(s \ {c}) + 1 = Cardinality(s) /\ Cardinality(s \ {c}) \in Nat
  <2>1. IsFiniteSet(s \ {c}) /\ Cardinality(s \ {c}) = Cardinality(s) - 1 BY <1>1, FS_RemoveElement
  <2>2. Cardinality(s \ {c}) \in Nat BY <2>1, FS_CardinalityType
  <2>3. Cardinality(s) - 1 + 1 = Cardinality(s) BY <1>2
  <2> QED BY <2>1, <2>2, <2>3
<1> QED BY <1>1, <1>2, <1>3, <1>4

\* a property of all small sets is one of all sets
LEMMA SubsetsBySize ==
  ASSUME NEW S, IsFiniteSet(S), NEW G \in SUBSET SUBSET S,
         ASSUME NEW n \in Nat, \A s \in SUBSET S : Cardinality(s) < n => s \in G
         PROVE  \A s \in SUBSET S : Cardinality(s) = n => s \in G
  PROVE  G = SUBSET S
<1> DEFINE N == {n \in Nat : \A s \in SUBSET S : Cardinality(s) < n => s \in G}
<1>1. \A s \in SUBSET S : Cardinality(s) \in Nat BY SubsetsAreFinite
<1>2. 0 \in N BY <1>1
<1>3. ASSUME NEW n \in N PROVE n + 1 \in N
  <2>1. n \in Nat /\ \A s \in SUBSET S : Cardinality(s) < n => s \in G OBVIOUS
  <2>2. \A s \in SUBSET S : Cardinality(s) = n => s \in G BY <2>1
  <2>3. \A s \in SUBSET S : Cardinality(s) < n + 1 => Cardinality(s) < n \/ Cardinality(s) = n BY <1>1, <2>1
  <2> QED BY <2>1, <2>2, <2>3
<1>4. N = Nat
  <2>1. N \in SUBSET Nat OBVIOUS
  <2> HIDE DEF N
  <2> QED BY <1>2, <1>3, <2>1, SetInduction
<1>5. ASSUME NEW s \in SUBSET S PROVE s \in G
  <2>1. Cardinality(s) + 1 \in N /\ Cardinality(s) < Cardinality(s) + 1 BY <1>1, <1>4
  <2> QED BY <2>1
<1> QED BY <1>5

\* the sums are there for the sets up to every size
SmallSums(X, lhs, rhs, n) ==
  \A s \in SUBSET ToSet(lhs) : Cardinality(s) < n => X[s] = Rest(X, lhs, rhs, s)

LEMMA RestIsLocal ==
  ASSUME NEW lhs, NEW rhs, NEW X, NEW Y, NEW s, \A c \in s : X[s \ {c}] = Y[s \ {c}]
  PROVE  Rest(X, lhs, rhs, s) = Rest(Y, lhs, rhs, s)
<1>1. CASE s = {} BY <1>1 DEF Rest
<1>2. CASE s # {}
  <2> DEFINE c == CHOOSE c \in s : TRUE
  <2>1. c \in s BY <1>2
  <2>2. Rest(X, lhs, rhs, s) = X[s \ {c}] + Excess(lhs, rhs, c) BY <1>2 DEF Rest
  <2>3. Rest(Y, lhs, rhs, s) = Y[s \ {c}] + Excess(lhs, rhs, c) BY <1>2 DEF Rest
  <2> HIDE DEF c
  <2> QED BY <2>1, <2>2, <2>3
<1> QED BY <1>1, <1>2

LEMMA SumsOneMore ==
  ASSUME NEW lhs, IsWord(lhs), NEW rhs, NEW n \in Nat, NEW X, SmallSums(X, lhs, rhs, n)
  PROVE  \E Y : SmallSums(Y, lhs, rhs, n + 1)
<1> DEFINE P == SUBSET ToSet(lhs)
           Y0 == [s \in P |-> IF Cardinality(s) < n THEN X[s] ELSE Rest(X, lhs, rhs, s)]
<1>1. PICK Y : \A s \in P : Y[s] = IF Cardinality(s) < n THEN X[s] ELSE Rest(X, lhs, rhs, s)
  <2>1. \A s \in P : Y0[s] = IF Cardinality(s) < n THEN X[s] ELSE Rest(X, lhs, rhs, s) OBVIOUS
  <2> HIDE DEF Y0
  <2> QED BY <2>1
<1>2. \A s \in P : /\ Cardinality(s) \in Nat
                   /\ \A c \in s : s \ {c} \in P /\ Cardinality(s \ {c}) + 1 = Cardinality(s) /\ Cardinality(s \ {c}) \in Nat
  BY WordIsFinite, SubsetsAreFinite
<1>3. ASSUME NEW s \in P, Cardinality(s) < n + 1 PROVE Y[s] = Rest(Y, lhs, rhs, s)
  <2>1. \A c \in s : X[s \ {c}] = Y[s \ {c}]
    <3> SUFFICES ASSUME NEW c \in s PROVE X[s \ {c}] = Y[s \ {c}] OBVIOUS
    <3>1. s \ {c} \in P /\ Cardinality(s \ {c}) < n BY <1>2, <1>3
    <3> QED BY <1>1, <3>1
  <2>2. Rest(X, lhs, rhs, s) = Rest(Y, lhs, rhs, s) BY <2>1, RestIsLocal
  <2>3. Cardinality(s) < n => X[s] = Rest(X, lhs, rhs, s) BY DEF SmallSums
  <2>4. Y[s] = Rest(X, lhs, rhs, s) BY <1>1, <2>3, Zenon
  <2> QED BY <2>2, <2>4
<1>4. SmallSums(Y, lhs, rhs, n + 1) BY <1>3 DEF SmallSums
<1> QED BY <1>4

LEMMA ExcessesAre ==
  ASSUME NEW lhs, IsWord(lhs), NEW rhs
  PROVE  \A s \in SUBSET ToSet(lhs) : Excesses(lhs, rhs)[s] = Rest(Excesses(lhs, rhs), lhs, rhs, s)
<1> DEFINE P == SUBSET ToSet(lhs)
           G == {n \in Nat : \E X : SmallSums(X, lhs, rhs, n)}
           F == Excesses(lhs, rhs)
<1>1. \A s \in P : Cardinality(s) \in Nat /\ ~(Cardinality(s) < 0) BY WordIsFinite, SubsetsAreFinite
<1>2. 0 \in G BY <1>1 DEF SmallSums
<1>3. ASSUME NEW n \in G PROVE n + 1 \in G
  <2>1. n \in Nat /\ n + 1 \in Nat /\ \E X : SmallSums(X, lhs, rhs, n) OBVIOUS
  <2>2. \E X : SmallSums(X, lhs, rhs, n + 1) BY <2>1, SumsOneMore
  <2> QED BY <2>1, <2>2
<1>4. G = Nat
  <2>1. G \in SUBSET Nat OBVIOUS
  <2> HIDE DEF G
  <2> QED BY <1>2, <1>3, <2>1, SetInduction
<1>5. IsFiniteSet(ToSet(lhs)) /\ Cardinality(ToSet(lhs)) \in Nat BY WordIsFinite, FS_CardinalityType
<1>6. Cardinality(ToSet(lhs)) + 1 \in G BY <1>4, <1>5
<1>7. PICK X : SmallSums(X, lhs, rhs, Cardinality(ToSet(lhs)) + 1) BY <1>6
<1>8. \A s \in P : X[s] = Rest(X, lhs, rhs, s)
  <2> SUFFICES ASSUME NEW s \in P PROVE X[s] = Rest(X, lhs, rhs, s) OBVIOUS
  <2>1. Cardinality(s) <= Cardinality(ToSet(lhs)) BY <1>5, FS_Subset
  <2>2. Cardinality(s) < Cardinality(ToSet(lhs)) + 1 BY <1>1, <1>5, <2>1
  <2> QED BY <1>7, <2>2 DEF SmallSums
<1> DEFINE Z == [s \in P |-> X[s]]
<1>9. Z = [s \in P |-> Rest(Z, lhs, rhs, s)]
  <2>1. ASSUME NEW s \in P PROVE X[s] = Rest(Z, lhs, rhs, s)
    <3>1. \A c \in s : X[s \ {c}] = Z[s \ {c}] OBVIOUS
    <3> HIDE DEF Z
    <3>2. Rest(X, lhs, rhs, s) = Rest(Z, lhs, rhs, s) BY <3>1, RestIsLocal
    <3> QED BY <1>8, <3>2
  <2>2. [s \in P |-> X[s]] = [s \in P |-> Rest(Z, lhs, rhs, s)]
    <3> HIDE DEF Z
    <3> QED BY <2>1
  <2> QED BY <2>2
<1> HIDE DEF Z
<1>10. F = [s \in P |-> Rest(F, lhs, rhs, s)] BY <1>9, Zenon DEF Excesses
<1> HIDE DEF F
<1>11. \A s \in P : F[s] = Rest(F, lhs, rhs, s) BY <1>10
<1> QED BY <1>11 DEF F

\* a sum does not hang on which letter is taken first
LEMMA ExcessesAdd ==
  ASSUME NEW lhs, IsWord(lhs), NEW rhs, IsWord(rhs)
  PROVE  /\ Excesses(lhs, rhs)[{}] = 0
         /\ \A s \in SUBSET ToSet(lhs) :
              /\ Excesses(lhs, rhs)[s] \in Nat
              /\ \A c \in s : Excesses(lhs, rhs)[s] = Excesses(lhs, rhs)[s \ {c}] + Excess(lhs, rhs, c)
<1> DEFINE P == SUBSET ToSet(lhs)
           F == Excesses(lhs, rhs)
           e(c) == Excess(lhs, rhs, c)
           G == {s \in P : F[s] \in Nat /\ \A c \in s : F[s] = F[s \ {c}] + e(c)}
<1>1. \A s \in P : F[s] = Rest(F, lhs, rhs, s) BY ExcessesAre
<1>2. \A c : e(c) \in Nat BY ExcessIsNatural
<1>3. \A s \in P : /\ Cardinality(s) \in Nat
                   /\ \A c \in s : s \ {c} \in P /\ Cardinality(s \ {c}) + 1 = Cardinality(s) /\ Cardinality(s \ {c}) \in Nat
  BY WordIsFinite, SubsetsAreFinite
<1> HIDE DEF F, e
<1>4. F[{}] = 0
  <2>1. {} \in P OBVIOUS
  <2>2. Rest(F, lhs, rhs, {}) = 0 BY DEF Rest
  <2> QED BY <1>1, <2>1, <2>2
<1>5. ASSUME NEW n \in Nat, \A s \in P : Cardinality(s) < n => s \in G,
             NEW s \in P, Cardinality(s) = n
      PROVE  s \in G
  <2>1. CASE s = {} BY <1>4, <2>1
  <2>2. CASE s # {}
    <3>1. PICK d \in s : F[s] = F[s \ {d}] + e(d)
      <4> DEFINE d == CHOOSE c \in s : TRUE
      <4>1. d \in s BY <2>2
      <4>2. Rest(F, lhs, rhs, s) = F[s \ {d}] + e(d) BY <2>2 DEF Rest, e
      <4> HIDE DEF d
      <4> QED BY <1>1, <4>1, <4>2
    <3>2. ASSUME NEW c \in s PROVE s \ {c} \in P /\ s \ {c} \in G
      <4>1. s \ {c} \in P /\ Cardinality(s \ {c}) < n BY <1>3, <1>5
      <4> QED BY <1>5, <4>1
    <3>3. F[s \ {d}] \in Nat BY <3>2
    <3>4. F[s] \in Nat BY <1>2, <3>1, <3>3
    <3>5. ASSUME NEW c \in s, c # d PROVE F[s] = F[s \ {c}] + e(c)
      <4>1. c \in s \ {d} /\ d \in s \ {c} BY <3>5
      <4>2. F[s \ {d}] = F[(s \ {d}) \ {c}] + e(c) BY <3>2, <4>1
      <4>3. F[s \ {c}] = F[(s \ {c}) \ {d}] + e(d) BY <3>2, <4>1
      <4>4. (s \ {d}) \ {c} = (s \ {c}) \ {d} OBVIOUS
      <4>5. (s \ {d}) \ {c} \in P /\ (s \ {d}) \ {c} \in G
        <5>1. (s \ {d}) \ {c} \in P /\ Cardinality((s \ {d}) \ {c}) < n
          <6>1. s \ {d} \in P /\ Cardinality(s \ {d}) + 1 = n /\ Cardinality(s \ {d}) \in Nat BY <1>3, <1>5
          <6>2. (s \ {d}) \ {c} \in P /\ Cardinality((s \ {d}) \ {c}) + 1 = Cardinality(s \ {d})
                /\ Cardinality((s \ {d}) \ {c}) \in Nat
            BY <1>3, <4>1, <6>1
          <6> QED BY <6>1, <6>2
        <5> QED BY <1>5, <5>1
      <4>6. PICK f \in Nat : f = F[(s \ {d}) \ {c}] BY <4>5
      <4>7. F[s] = (f + e(c)) + e(d) /\ F[s \ {c}] = f + e(d) BY <3>1, <4>2, <4>3, <4>4, <4>6
      <4>8. PICK x \in Nat, y \in Nat : x = e(c) /\ y = e(d) BY <1>2
      <4>9. (f + x) + y = (f + y) + x OBVIOUS
      <4> QED BY <4>7, <4>8, <4>9
    <3> QED BY <3>1, <3>4, <3>5
  <2> QED BY <2>1, <2>2
<1>6. G = P
  <2>1. G \in SUBSET P OBVIOUS
  <2>2. IsFiniteSet(ToSet(lhs)) BY WordIsFinite
  <2> HIDE DEF G
  <2> QED BY <1>5, <2>1, <2>2, SubsetsBySize
<1>7. \A s \in P : F[s] \in Nat /\ \A c \in s : F[s] = F[s \ {c}] + e(c) BY <1>6
<1> QED BY <1>4, <1>7 DEF F, e

\* the letters of a word that are of a set
Of(word, s) == Cardinality({k \in DOMAIN word : word[k] \in s})

LEMMA OfAdds ==
  ASSUME NEW word, IsWord(word), NEW s, NEW c \in s
  PROVE  Of(word, s) \in Nat /\ Of(word, s \ {c}) \in Nat /\ Of(word, s) = Of(word, s \ {c}) + Count(word, c)
<1> DEFINE A == {k \in DOMAIN word : word[k] \in s}
           B == {k \in DOMAIN word : word[k] \in s \ {c}}
           K == {k \in DOMAIN word : word[k] = c}
<1>1. IsFiniteSet(DOMAIN word) BY WordIsFinite
<1>2. A \in SUBSET DOMAIN word /\ B \in SUBSET DOMAIN word /\ K \in SUBSET DOMAIN word OBVIOUS
<1>3. A = B \union K /\ B \intersect K = {} OBVIOUS
<1>4. Of(word, s) = Cardinality(A) /\ Of(word, s \ {c}) = Cardinality(B) /\ Count(word, c) = Cardinality(K) BY DEF Of, Count
<1> HIDE DEF A, B, K
<1>5. IsFiniteSet(A) /\ IsFiniteSet(B) /\ IsFiniteSet(K) BY <1>1, <1>2, FS_Subset
<1>6. Cardinality(A) \in Nat /\ Cardinality(B) \in Nat /\ Cardinality(K) \in Nat BY <1>5, FS_CardinalityType
<1>7. Cardinality(B \union K) = Cardinality(B) + Cardinality(K) - Cardinality(B \intersect K) BY <1>5, FS_Union
<1>8. Cardinality(B \intersect K) = 0 BY <1>3, FS_EmptySet
<1>9. Cardinality(A) = Cardinality(B) + Cardinality(K) BY <1>3, <1>6, <1>7, <1>8
<1> QED BY <1>4, <1>6, <1>9

\* the sum over the letters of a set that are in the word
SumOf(lhs, rhs, s) == Excesses(lhs, rhs)[s \intersect ToSet(lhs)]

LEMMA SumAdds ==
  ASSUME NEW lhs, IsWord(lhs), NEW rhs, IsWord(rhs), NEW s, NEW c \in s
  PROVE  /\ SumOf(lhs, rhs, s) \in Nat /\ SumOf(lhs, rhs, s \ {c}) \in Nat
         /\ SumOf(lhs, rhs, s) = SumOf(lhs, rhs, s \ {c}) + Excess(lhs, rhs, c)
<1> DEFINE T == ToSet(lhs)
           X == Excesses(lhs, rhs)
<1>1. s \intersect T \in SUBSET T /\ (s \ {c}) \intersect T \in SUBSET T OBVIOUS
<1>2. \A u \in SUBSET T : X[u] \in Nat /\ \A d \in u : X[u] = X[u \ {d}] + Excess(lhs, rhs, d) BY ExcessesAdd
<1> HIDE DEF X, T
<1>3. X[s \intersect T] \in Nat /\ X[(s \ {c}) \intersect T] \in Nat BY <1>1, <1>2
<1>4. X[s \intersect T] = X[(s \ {c}) \intersect T] + Excess(lhs, rhs, c)
  <2>1. CASE c \in T
    <3>1. c \in s \intersect T /\ (s \intersect T) \ {c} = (s \ {c}) \intersect T BY <2>1
    <3> QED BY <1>1, <1>2, <3>1
  <2>2. CASE c \notin T
    <3>1. s \intersect T = (s \ {c}) \intersect T BY <2>2
    <3>2. Count(lhs, c) = 0 BY <2>2, CountIsNatural DEF T
    <3>3. Excess(lhs, rhs, c) \in Nat /\ Excess(lhs, rhs, c) <= Count(lhs, c) BY ExcessIsNatural
    <3>4. Excess(lhs, rhs, c) = 0 BY <3>2, <3>3
    <3> QED BY <1>3, <3>1, <3>4
  <2> QED BY <2>1, <2>2
<1> QED BY <1>3, <1>4 DEF SumOf, X, T

LEMMA SumOfNothing ==
  ASSUME NEW lhs, IsWord(lhs), NEW rhs, IsWord(rhs)
  PROVE  SumOf(lhs, rhs, {}) = 0 /\ Of(lhs, {}) = 0
<1>1. {} \intersect ToSet(lhs) = {} OBVIOUS
<1>2. SumOf(lhs, rhs, {}) = 0 BY <1>1, ExcessesAdd DEF SumOf
<1>3. {k \in DOMAIN lhs : lhs[k] \in {}} = {} OBVIOUS
<1>4. Of(lhs, {}) = 0 BY <1>3, FS_EmptySet DEF Of
<1> QED BY <1>2, <1>4

Balanced(lhs, rhs, s) ==
  /\ SumOf(lhs, rhs, s) <= Of(lhs, s)
  /\ SumOf(lhs, rhs, s) + Of(rhs, s) = SumOf(rhs, lhs, s) + Of(lhs, s)

LEMMA BalancedOneMore ==
  ASSUME NEW lhs, IsWord(lhs), NEW rhs, IsWord(rhs), NEW s, NEW c \in s, Balanced(lhs, rhs, s \ {c})
  PROVE  Balanced(lhs, rhs, s)
<1>1. PICK a \in Nat, b \in Nat, x \in Nat, y \in Nat :
        a = SumOf(lhs, rhs, s \ {c}) /\ b = SumOf(rhs, lhs, s \ {c}) /\ x = Of(lhs, s \ {c}) /\ y = Of(rhs, s \ {c})
  BY SumAdds, OfAdds
<1>2. PICK e \in Nat, f \in Nat, m \in Nat, n \in Nat :
        e = Excess(lhs, rhs, c) /\ f = Excess(rhs, lhs, c) /\ m = Count(lhs, c) /\ n = Count(rhs, c)
  BY ExcessIsNatural, CountIsNatural
<1>3. e <= m /\ e + n = f + m BY <1>2, ExcessIsNatural
<1>4. a <= x /\ a + y = b + x BY <1>1 DEF Balanced
<1>5. SumOf(lhs, rhs, s) = a + e /\ SumOf(rhs, lhs, s) = b + f BY <1>1, <1>2, SumAdds
<1>6. Of(lhs, s) = x + m /\ Of(rhs, s) = y + n BY <1>1, <1>2, OfAdds
<1>7. a + e <= x + m /\ (a + e) + (y + n) = (b + f) + (x + m) BY <1>3, <1>4
<1> QED BY <1>5, <1>6, <1>7 DEF Balanced

LEMMA DifferenceIs ==
  ASSUME NEW lhs, IsWord(lhs), NEW rhs, IsWord(rhs)
  PROVE  /\ Difference(lhs, rhs) \in Nat /\ Difference(rhs, lhs) \in Nat
         /\ Len(lhs) \in Nat /\ Len(rhs) \in Nat
         /\ Difference(lhs, rhs) <= Len(lhs)
         /\ Difference(lhs, rhs) + Len(rhs) = Difference(rhs, lhs) + Len(lhs)
<1> DEFINE U == ToSet(lhs) \union ToSet(rhs)
           G == {s \in SUBSET U : Balanced(lhs, rhs, s)}
<1>1. IsFiniteSet(U) BY WordIsFinite, FS_Union
<1>2. \A s \in SUBSET U : /\ Cardinality(s) \in Nat
                          /\ \A c \in s : /\ s \ {c} \in SUBSET U /\ Cardinality(s \ {c}) + 1 = Cardinality(s)
                                          /\ Cardinality(s \ {c}) \in Nat
  <2> HIDE DEF U
  <2> QED BY <1>1, SubsetsAreFinite
<1>3. ASSUME NEW n \in Nat, \A s \in SUBSET U : Cardinality(s) < n => s \in G,
             NEW s \in SUBSET U, Cardinality(s) = n
      PROVE  s \in G
  <2>1. CASE s = {}
    <3>1. /\ SumOf(lhs, rhs, {}) = 0 /\ Of(lhs, {}) = 0 /\ SumOf(rhs, lhs, {}) = 0 /\ Of(rhs, {}) = 0 BY SumOfNothing
    <3>2. Balanced(lhs, rhs, {}) BY <3>1 DEF Balanced
    <3> QED BY <2>1, <3>2
  <2>2. CASE s # {}
    <3> HIDE DEF U
    <3>1. PICK c \in s : TRUE BY <2>2
    <3>2. s \ {c} \in SUBSET U /\ Cardinality(s \ {c}) < n BY <1>2, <1>3
    <3>3. Balanced(lhs, rhs, s \ {c}) BY <1>3, <3>2
    <3>4. Balanced(lhs, rhs, s) BY <3>3, BalancedOneMore
    <3> QED BY <3>4
  <2> QED BY <2>1, <2>2
<1>4. G = SUBSET U
  <2>1. G \in SUBSET SUBSET U OBVIOUS
  <2> HIDE DEF G, U
  <2> QED BY <1>1, <1>3, <2>1, SubsetsBySize
<1>5. Balanced(lhs, rhs, U) BY <1>4
<1>6. U \intersect ToSet(lhs) = ToSet(lhs) /\ U \intersect ToSet(rhs) = ToSet(rhs) OBVIOUS
<1>7. SumOf(lhs, rhs, U) = Difference(lhs, rhs) /\ SumOf(rhs, lhs, U) = Difference(rhs, lhs)
  <2> HIDE DEF U
  <2> QED BY <1>6, DifferenceIsSum DEF SumOf
<1>8. ASSUME NEW word, IsWord(word), ToSet(word) \subseteq U PROVE Of(word, U) = Len(word)
  <2>1. {k \in DOMAIN word : word[k] \in U} = DOMAIN word BY <1>8 DEF ToSet
  <2>2. Cardinality(DOMAIN word) = Len(word) BY <1>8, WordIsFinite
  <2> HIDE DEF U
  <2> QED BY <2>1, <2>2 DEF Of
<1>9. Of(lhs, U) = Len(lhs) /\ Of(rhs, U) = Len(rhs)
  <2>1. ToSet(lhs) \subseteq U /\ ToSet(rhs) \subseteq U OBVIOUS
  <2> HIDE DEF U
  <2> QED BY <1>8, <2>1
<1>10. Difference(lhs, rhs) \in Nat /\ Difference(rhs, lhs) \in Nat
  <2>1. ToSet(lhs) \in SUBSET ToSet(lhs) /\ ToSet(rhs) \in SUBSET ToSet(rhs) OBVIOUS
  <2> QED BY <2>1, DifferenceIsSum, ExcessesAdd
<1>11. Len(lhs) \in Nat /\ Len(rhs) \in Nat BY WordIsFinite
<1> HIDE DEF U
<1> QED BY <1>5, <1>7, <1>9, <1>10, <1>11 DEF Balanced

LEMMA SeqIsWord ==
  ASSUME NEW S, NEW word \in Seq(S)
  PROVE  IsWord(word)
<1>1. word \in [1 .. Len(word) -> S] /\ Len(word) \in Nat OBVIOUS
<1>2. word \in [1 .. Len(word) -> ToSet(word)] BY <1>1 DEF ToSet
<1>3. word \in Seq(ToSet(word)) BY <1>1, <1>2
<1> QED BY <1>3 DEF IsWord

LEMMA PartIsWord ==
  ASSUME NEW word, IsWord(word), NEW m \in Int, NEW n \in Int, m >= 1, n <= Len(word)
  PROVE  IsWord(SubSeq(word, m, n)) /\ Len(SubSeq(word, m, n)) = IF m <= n THEN n - m + 1 ELSE 0
<1>1. word \in Seq(ToSet(word)) /\ Len(word) \in Nat BY WordIsFinite DEF IsWord
<1>2. \A i \in m .. n : word[i] \in ToSet(word)
  <2>1. \A i \in m .. n : i \in 1 .. Len(word) BY <1>1
  <2> QED BY <1>1, <2>1
<1>3. SubSeq(word, m, n) \in Seq(ToSet(word)) /\ Len(SubSeq(word, m, n)) = IF m <= n THEN n - m + 1 ELSE 0
  BY <1>2, SubSeqProperties
<1> QED BY <1>3, SeqIsWord

LEMMA WordLengths ==
  ASSUME NEW lhs, IsWord(lhs), NEW rhs, IsWord(rhs)
  PROVE  /\ Len(lhs) \in Nat /\ Len(rhs) \in Nat
         /\ Shorter(lhs, rhs) = (IF Len(lhs) <= Len(rhs) THEN Len(lhs) ELSE Len(rhs))
         /\ Longer(lhs, rhs) = (IF Len(lhs) <= Len(rhs) THEN Len(rhs) ELSE Len(lhs))
         /\ Shorter(lhs, rhs) \in Nat /\ Longer(lhs, rhs) \in Nat
         /\ Shorter(rhs, lhs) = Shorter(lhs, rhs) /\ Longer(rhs, lhs) = Longer(lhs, rhs)
<1>1. Len(lhs) \in Nat /\ Len(rhs) \in Nat BY WordIsFinite
<1>2. Len(lhs) \in Int /\ Len(rhs) \in Int BY <1>1
<1>3. /\ Shorter(lhs, rhs) = (IF Len(lhs) <= Len(rhs) THEN Len(lhs) ELSE Len(rhs))
      /\ Longer(lhs, rhs) = (IF Len(lhs) <= Len(rhs) THEN Len(rhs) ELSE Len(lhs))
  BY <1>2, OfTwo DEF Shorter, Longer
<1>4. {Len(lhs), Len(rhs)} = {Len(rhs), Len(lhs)} OBVIOUS
<1>5. Shorter(rhs, lhs) = Shorter(lhs, rhs) /\ Longer(rhs, lhs) = Longer(lhs, rhs) BY <1>4, Zenon DEF Shorter, Longer
<1> QED BY <1>1, <1>3, <1>5

LEMMA MatchesEitherWay ==
  ASSUME NEW lhs, IsWord(lhs), NEW rhs, IsWord(rhs)
  PROVE  /\ Matches(lhs, rhs) \in Nat /\ Matches(lhs, rhs) <= Shorter(lhs, rhs)
         /\ Matches(rhs, lhs) = Matches(lhs, rhs)
<1>1. lhs \in Seq(ToSet(lhs)) /\ rhs \in Seq(ToSet(rhs)) BY DEF IsWord
<1> DEFINE s == Shorter(lhs, rhs)
           p == Matches(lhs, rhs)
           q == Matches(rhs, lhs)
<1>2. s \in Nat /\ Shorter(rhs, lhs) = s BY WordLengths
<1>3. p \in 0 .. s /\ (\A k \in 1 .. p : lhs[k] = rhs[k]) /\ (p < s => lhs[p + 1] # rhs[p + 1])
  BY <1>1, PrefixIsShort
<1>4. q \in 0 .. s /\ (\A k \in 1 .. q : rhs[k] = lhs[k]) /\ (q < s => rhs[q + 1] # lhs[q + 1])
  BY <1>1, <1>2, PrefixIsShort
<1> HIDE DEF s, p, q
<1>5. p \in Nat /\ q \in Nat /\ p <= s /\ q <= s BY <1>2, <1>3, <1>4
<1>6. ~(p < q)
  <2> SUFFICES ASSUME p < q PROVE FALSE OBVIOUS
  <2>1. p + 1 \in 1 .. q /\ p < s BY <1>2, <1>5
  <2> QED BY <1>3, <1>4, <2>1
<1>7. ~(q < p)
  <2> SUFFICES ASSUME q < p PROVE FALSE OBVIOUS
  <2>1. q + 1 \in 1 .. p /\ q < s BY <1>2, <1>5
  <2> QED BY <1>3, <1>4, <2>1
<1>8. q = p BY <1>5, <1>6, <1>7
<1> QED BY <1>5, <1>8 DEF s, p, q

\* the letters in common are no more than the shorter word has
LEMMA InCommon ==
  ASSUME NEW l, IsWord(l), NEW r, IsWord(r)
  PROVE  LET dif == IF Len(l) > Len(r) THEN Difference(l, r) ELSE Difference(r, l)
             back == IF Len(r) > Len(l) THEN Difference(r, l) ELSE Difference(l, r)
         IN  dif \in Nat /\ dif <= Longer(l, r) /\ Longer(l, r) - dif <= Shorter(l, r) /\ back = dif
<1>1. PICK x \in Nat, y \in Nat, a \in Nat, b \in Nat :
        x = Len(l) /\ y = Len(r) /\ a = Difference(l, r) /\ b = Difference(r, l)
  BY DifferenceIs
<1>2. a <= x /\ b <= y /\ a + y = b + x BY <1>1, DifferenceIs
<1>3. /\ Shorter(l, r) = (IF x <= y THEN x ELSE y)
      /\ Longer(l, r) = (IF x <= y THEN y ELSE x)
  BY <1>1, WordLengths
<1>4. x = y => a = b BY <1>2
<1>5. CASE x > y
  <2>1. Shorter(l, r) = y /\ Longer(l, r) = x /\ ~(y > x) BY <1>3, <1>5
  <2>2. a <= x /\ x - a <= y BY <1>2
  <2> QED BY <1>1, <1>5, <2>1, <2>2
<1>6. CASE ~(x > y)
  <2>1. Shorter(l, r) = x /\ Longer(l, r) = y BY <1>3, <1>6
  <2>2. b <= y /\ y - b <= x BY <1>2
  <2>3. y > x \/ a = b BY <1>4, <1>6
  <2> QED BY <1>1, <1>6, <2>1, <2>2, <2>3
<1> QED BY <1>5, <1>6

LEMMA MultiSetRatioIs ==
  ASSUME NEW lhs, IsWord(lhs), NEW rhs, IsWord(rhs)
  PROVE  /\ Shorter(lhs, rhs) = 0 => MultiSetRatio(lhs, rhs).num = 1 /\ MultiSetRatio(lhs, rhs).den = 1
         /\ Shorter(lhs, rhs) > 0 => /\ MultiSetRatio(lhs, rhs).den = Shorter(lhs, rhs)
                                     /\ MultiSetRatio(lhs, rhs).num \in 0 .. Shorter(lhs, rhs)
         /\ MultiSetRatio(rhs, lhs) = MultiSetRatio(lhs, rhs)
<1> DEFINE s == Shorter(lhs, rhs)
           cutoff == s + FzLookAhead
           m == Min({cutoff, Len(lhs)})
           n == Min({cutoff, Len(rhs)})
           l == SubSeq(lhs, 1, m)
           r == SubSeq(rhs, 1, n)
           dif == IF Len(l) > Len(r) THEN Difference(l, r) ELSE Difference(r, l)
           back == IF Len(r) > Len(l) THEN Difference(r, l) ELSE Difference(l, r)
<1>1. /\ Len(lhs) \in Nat /\ Len(rhs) \in Nat /\ s = (IF Len(lhs) <= Len(rhs) THEN Len(lhs) ELSE Len(rhs))
      /\ s \in Nat /\ Shorter(rhs, lhs) = s
  BY WordLengths
<1>2. cutoff \in Nat /\ s <= cutoff BY <1>1, FzAssumption
<1>3. /\ m = (IF cutoff <= Len(lhs) THEN cutoff ELSE Len(lhs))
      /\ n = (IF cutoff <= Len(rhs) THEN cutoff ELSE Len(rhs))
  <2>1. cutoff \in Int /\ Len(lhs) \in Int /\ Len(rhs) \in Int BY <1>1, <1>2
  <2> HIDE DEF cutoff
  <2> QED BY <2>1, OfTwo
<1>4. /\ MultiSetRatio(lhs, rhs) = (IF s = 0 THEN [num |-> 1, den |-> 1] ELSE [num |-> Longer(l, r) - dif, den |-> s])
      /\ MultiSetRatio(rhs, lhs) = (IF s = 0 THEN [num |-> 1, den |-> 1] ELSE [num |-> Longer(r, l) - back, den |-> s])
  BY <1>1, Zenon DEF MultiSetRatio
<1> HIDE DEF cutoff, m, n, s
<1>5. m \in Nat /\ n \in Nat /\ m <= Len(lhs) /\ n <= Len(rhs) BY <1>1, <1>2, <1>3
<1>6. (IF m <= n THEN m ELSE n) = s BY <1>1, <1>2, <1>3
<1>7. IsWord(l) /\ IsWord(r) /\ Len(l) = m /\ Len(r) = n
  <2>1. IsWord(l) /\ Len(l) = IF 1 <= m THEN m - 1 + 1 ELSE 0 BY <1>5, PartIsWord
  <2>2. IsWord(r) /\ Len(r) = IF 1 <= n THEN n - 1 + 1 ELSE 0 BY <1>5, PartIsWord
  <2> QED BY <1>5, <2>1, <2>2
<1>8. /\ dif \in Nat /\ dif <= Longer(l, r) /\ Longer(l, r) - dif <= Shorter(l, r) /\ back = dif
  <2> HIDE DEF l, r
  <2> QED BY <1>7, InCommon
<1>9. Shorter(l, r) = s /\ Longer(l, r) \in Nat /\ Longer(r, l) = Longer(l, r)
  <2> HIDE DEF l, r
  <2> QED BY <1>6, <1>7, WordLengths
<1> HIDE DEF dif, back, l, r
<1>10. Longer(l, r) - dif \in 0 .. s BY <1>1, <1>8, <1>9
<1>11. MultiSetRatio(rhs, lhs) = MultiSetRatio(lhs, rhs)
  <2>1. Longer(r, l) - back = Longer(l, r) - dif BY <1>8, <1>9
  <2>2. CASE s = 0 BY <1>4, <2>2, Zenon
  <2>3. CASE s # 0 BY <1>4, <2>1, <2>3
  <2> QED BY <2>2, <2>3
<1>12. s = 0 => MultiSetRatio(lhs, rhs).num = 1 /\ MultiSetRatio(lhs, rhs).den = 1 BY <1>4
<1>13. s > 0 => MultiSetRatio(lhs, rhs).num = Longer(l, r) - dif /\ MultiSetRatio(lhs, rhs).den = s BY <1>1, <1>4
<1> QED BY <1>10, <1>11, <1>12, <1>13 DEF s

\* the arithmetic of a prefix that counts in full and a rest that counts half
LEMMA WeighedIsRatio ==
  ASSUME NEW p \in Nat, NEW x \in Nat, x > 0, NEW n \in 0 .. x
  PROVE  /\ 0 <= 2 * p * x + n * x
         /\ 2 * p * x + n * x < 2 * (p + x) * x
<1>1. n \in Nat /\ n < 2 * x OBVIOUS
<1>2. n * x < (2 * x) * x BY <1>1
<1>3. 2 * (p + x) * x = 2 * p * x + (2 * x) * x OBVIOUS
<1>4. p * x \in Nat /\ n * x \in Nat BY <1>1
<1> QED BY <1>2, <1>3, <1>4

\* what quick_ratio is: a ratio, 1 just if nothing is behind the prefix of one of the words
QuickRatioOK(lhs, rhs) ==
  /\ QuickRatio(lhs, rhs).num \in Nat /\ QuickRatio(lhs, rhs).den \in Nat
  /\ QuickRatio(lhs, rhs).num <= QuickRatio(lhs, rhs).den
  /\ QuickRatio(lhs, rhs).num = QuickRatio(lhs, rhs).den <=> Matches(lhs, rhs) = Shorter(lhs, rhs)
  /\ QuickRatio(rhs, lhs) = QuickRatio(lhs, rhs)

LEMMA QuickRatioIs ==
  ASSUME NEW lhs, IsWord(lhs), NEW rhs, IsWord(rhs)
  PROVE  QuickRatioOK(lhs, rhs)
<1> DEFINE s == Shorter(lhs, rhs)
           p == Matches(lhs, rhs)
           l == SubSeq(lhs, p + 1, Len(lhs))
           r == SubSeq(rhs, p + 1, Len(rhs))
           rest == MultiSetRatio(l, r)
           ratio == [num |-> 2 * p * rest.den + rest.num * (s - p), den |-> 2 * s * rest.den]
<1>1. /\ Len(lhs) \in Nat /\ Len(rhs) \in Nat /\ s = (IF Len(lhs) <= Len(rhs) THEN Len(lhs) ELSE Len(rhs))
      /\ s \in Nat /\ Shorter(rhs, lhs) = s
  BY WordLengths
<1>2. p \in Nat /\ p <= s /\ Matches(rhs, lhs) = p BY MatchesEitherWay
<1>3. QuickRatio(lhs, rhs) = IF s = 0 THEN [num |-> 1, den |-> 1] ELSE ratio BY Zenon DEF QuickRatio
<1>4. QuickRatio(rhs, lhs) =
        IF s = 0 THEN [num |-> 1, den |-> 1]
        ELSE [num |-> 2 * p * MultiSetRatio(r, l).den + MultiSetRatio(r, l).num * (s - p),
              den |-> 2 * s * MultiSetRatio(r, l).den]
  BY <1>1, <1>2, Zenon DEF QuickRatio
<1> HIDE DEF s, p
<1>5. /\ IsWord(l) /\ Len(l) = Len(lhs) - p
      /\ IsWord(r) /\ Len(r) = Len(rhs) - p
  <2>1. p + 1 \in Int /\ p + 1 >= 1 /\ p <= Len(lhs) /\ p <= Len(rhs) BY <1>1, <1>2
  <2>2. IsWord(l) /\ Len(l) = IF p + 1 <= Len(lhs) THEN Len(lhs) - (p + 1) + 1 ELSE 0 BY <1>1, <2>1, PartIsWord
  <2>3. IsWord(r) /\ Len(r) = IF p + 1 <= Len(rhs) THEN Len(rhs) - (p + 1) + 1 ELSE 0 BY <1>1, <2>1, PartIsWord
  <2> HIDE DEF l, r
  <2> QED BY <1>1, <1>2, <2>1, <2>2, <2>3
<1> HIDE DEF l, r
<1>6. Shorter(l, r) = s - p
  <2>1. Shorter(l, r) = IF Len(l) <= Len(r) THEN Len(l) ELSE Len(r) BY <1>5, WordLengths
  <2> QED BY <1>1, <1>2, <1>5, <2>1
<1>7. /\ Shorter(l, r) = 0 => rest.num = 1 /\ rest.den = 1
      /\ Shorter(l, r) > 0 => rest.den = Shorter(l, r) /\ rest.num \in 0 .. Shorter(l, r)
      /\ MultiSetRatio(r, l) = rest
  BY <1>5, MultiSetRatioIs
<1>8. QuickRatio(rhs, lhs) = QuickRatio(lhs, rhs)
  <2>1. QuickRatio(rhs, lhs) = IF s = 0 THEN [num |-> 1, den |-> 1] ELSE ratio BY <1>4, <1>7
  <2> QED BY <1>3, <2>1
<1> HIDE DEF rest
<1>9. CASE s = 0
  <2>1. QuickRatio(lhs, rhs).num = 1 /\ QuickRatio(lhs, rhs).den = 1 /\ p = s BY <1>2, <1>3, <1>9
  <2> QED BY <1>8, <2>1 DEF QuickRatioOK, p, s
<1>10. CASE s > 0 /\ p = s
  <2>1. rest.num = 1 /\ rest.den = 1 BY <1>1, <1>6, <1>7, <1>10
  <2>2. QuickRatio(lhs, rhs).num = 2 * p * 1 + 1 * (s - p) /\ QuickRatio(lhs, rhs).den = 2 * s * 1
    BY <1>3, <1>10, <2>1
  <2>3. QuickRatio(lhs, rhs).num = 2 * s /\ QuickRatio(lhs, rhs).den = 2 * s /\ 2 * s \in Nat BY <1>1, <1>10, <2>2
  <2> QED BY <1>8, <1>10, <2>3 DEF QuickRatioOK, p, s
<1>11. CASE s > 0 /\ p # s
  <2> DEFINE x == s - p
             n == rest.num
  <2>1. x \in Nat /\ x > 0 /\ s = p + x BY <1>1, <1>2, <1>11
  <2>2. rest.den = x /\ n \in 0 .. x BY <1>6, <1>7, <2>1
  <2>3. QuickRatio(lhs, rhs).num = 2 * p * rest.den + n * x /\ QuickRatio(lhs, rhs).den = 2 * s * rest.den
    BY <1>3, <1>11
  <2> HIDE DEF x, n
  <2>4. 0 <= 2 * p * x + n * x /\ 2 * p * x + n * x < 2 * (p + x) * x BY <1>2, <2>1, <2>2, WeighedIsRatio
  <2>5. QuickRatio(lhs, rhs).num = 2 * p * x + n * x /\ QuickRatio(lhs, rhs).den = 2 * (p + x) * x
    BY <2>1, <2>2, <2>3
  <2>6. 2 * p * x + n * x \in Int /\ 2 * (p + x) * x \in Int BY <1>2, <2>1, <2>2
  <2>7. QuickRatio(lhs, rhs).num \in Nat /\ QuickRatio(lhs, rhs).den \in Nat
        /\ QuickRatio(lhs, rhs).num < QuickRatio(lhs, rhs).den
    BY <2>4, <2>5, <2>6
  <2> QED BY <1>8, <1>11, <2>7 DEF QuickRatioOK, p, s
<1> QED BY <1>1, <1>9, <1>10, <1>11

\* The similarity that the databases filter by is between 0 and 1, the same either way, and 1 just if one word
\* begins with the other, whatever words are compared.
THEOREM SimilarityIsNormalisedCorrect == FzSpec => []SimilarityIsNormalised
<1>1. FzInit => FzInv BY FzInitOK
<1>2. FzInv /\ [FzNext]_fzVars => FzInv' BY FzStepOK
<1>3. FzInv => SimilarityIsNormalised
  <2> SUFFICES ASSUME FzInv PROVE SimilarityIsNormalised OBVIOUS
  <2>1. \A t \in FzThreads : IsWord(fzCall[t].cword) /\ IsWord(fzCall[t].match) BY DEF FzInv, FzCallOK
  <2>2. \A t \in FzThreads : QuickRatioOK(fzCall[t].cword, fzCall[t].match) BY <2>1, QuickRatioIs
  <2>3. ASSUME NEW ratio, NEW back, ratio.num \in Nat, ratio.den \in Nat, ratio.num <= ratio.den, back = ratio
        PROVE  0 <= ratio.num /\ ratio.num * back.den = back.num * ratio.den
    BY <2>3
  <2> QED BY <2>2, <2>3, Zenon DEF SimilarityIsNormalised, QuickRatioOK
<1> QED BY <1>1, <1>2, <1>3, PTL DEF FzSpec

\* As long as one thread compares at a time, what the ranking takes from the distance and what the filter takes
\* from the letters are ratios.
THEOREM RatiosAreNormalisedCorrect == FzSpec /\ []OneAtATime => []RatiosAreNormalised
<1>1. EditIsNotNegative /\ EditIsAtMostOne /\ SimilarityIsNormalised => RatiosAreNormalised BY DEF RatiosAreNormalised
<1> QED BY <1>1, EditIsNotNegativeCorrect, EditIsAtMostOneCorrect, SimilarityIsNormalisedCorrect, PTL

=============================================================================
