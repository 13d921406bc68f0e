-------------------------- MODULE BufferLines_proofs --------------------------
(* What the statements of set_lines make of the table, for every buffer, every  *)
(* order of inserts and every interrupt.                                        *)
EXTENDS BufferLines, SequenceTheorems, TLAPS

AllRows == [num : Int, line : Lines]
GoodUpdates == {u \in Updates : u.lo <= u.hi}

Unique(R) == \A r, s \in R : r.num = s.num => r = s
Sane(R) == Unique(R) /\ \A r \in R : r.num >= 0

\* the rows out of the range of u: above it, as they are, and below it, once moved
Rest(before, u) == {r \in before : ~InRange(u, r)}
Above(before, u) == {r \in before : r.num < u.lo}
Moved(before, u) == {[r EXCEPT !.num = @ + Shift(u)] : r \in {s \in before : s.num >= u.hi}}
Put(u, I) == {Row(u.lo + i - 1, u.lines[i]) : i \in I}
Table(before, u, I) == Above(before, u) \union Moved(before, u) \union Put(u, I)

-----------------------------------------------------------------------------
(* The table, statement by statement.                                          *)

LEMMA NegatedApart ==
  ASSUME NEW lo \in Nat, NEW hi \in Nat, NEW k \in Nat, lo <= hi, NEW m \in Nat, NEW n \in Nat,
         m < lo \/ m >= hi, n < lo \/ n >= hi,
         (IF m >= lo THEN -(m + (k - (hi - lo))) ELSE m)
           = (IF n >= lo THEN -(n + (k - (hi - lo))) ELSE n)
  PROVE  m = n
  OBVIOUS

LEMMA MovedBelow ==
  ASSUME NEW lo \in Nat, NEW hi \in Nat, NEW k \in Nat, NEW n \in Nat, n >= hi
  PROVE  n + (k - (hi - lo)) >= lo + k /\ n + (k - (hi - lo)) \in Nat
  OBVIOUS

LEMMA UpdateType ==
  ASSUME NEW u \in GoodUpdates
  PROVE  /\ u.lo \in Nat /\ u.hi \in Nat /\ u.lo <= u.hi
         /\ u.lines \in Seq(Lines) /\ Len(u.lines) \in Nat
         /\ Shift(u) = Len(u.lines) - (u.hi - u.lo) /\ Shift(u) \in Int
  BY DEF Shift, GoodUpdates, Updates

LEMMA RowType ==
  ASSUME NEW r \in AllRows, NEW n \in Int
  PROVE  /\ [r EXCEPT !.num = n] \in AllRows
         /\ [r EXCEPT !.num = n].num = n
         /\ [r EXCEPT !.num = n].line = r.line
  BY DEF AllRows

LEMMA RowsEqual ==
  \A r, s \in AllRows : r.num = s.num /\ r.line = s.line => r = s
  BY DEF AllRows

LEMMA RestType ==
  ASSUME NEW before \in SUBSET AllRows, NEW u \in GoodUpdates, Sane(before),
         NEW r \in Rest(before, u)
  PROVE  /\ r \in before /\ r \in AllRows /\ r.num \in Nat
         /\ r.num < u.lo \/ r.num >= u.hi
<1>1. r \in before /\ r \in AllRows /\ r.num \in Int /\ r.num >= 0 /\ ~InRange(u, r)
  BY DEF Rest, Sane, AllRows
<1>2. u.lo \in Nat /\ u.hi \in Nat
  BY UpdateType
<1> QED BY <1>1, <1>2 DEF InRange

LEMMA NegatedType ==
  ASSUME NEW r \in AllRows, NEW u \in GoodUpdates
  PROVE  /\ Negated(u, r) \in AllRows
         /\ Negated(u, r).num = (IF r.num >= u.lo THEN -(r.num + Shift(u)) ELSE r.num)
         /\ Negated(u, r).line = r.line
<1>1. r.num \in Int /\ u.lo \in Nat /\ Shift(u) \in Int
  BY UpdateType DEF AllRows
<1>2. CASE r.num >= u.lo
  <2>1. -(r.num + Shift(u)) \in Int
    BY <1>1
  <2>2. Negated(u, r) = [r EXCEPT !.num = -(r.num + Shift(u))]
    BY <1>2 DEF Negated, AllRows
  <2> QED BY <1>2, <2>1, <2>2, RowType
<1>3. CASE ~(r.num >= u.lo)
  BY <1>3 DEF Negated
<1> QED BY <1>2, <1>3

LEMMA RestoredType ==
  ASSUME NEW r \in AllRows
  PROVE  /\ Restored(r) \in AllRows
         /\ Restored(r).num = (IF r.num < 0 THEN -r.num ELSE r.num)
         /\ Restored(r).line = r.line
<1>1. r.num \in Int /\ -r.num \in Int
  BY DEF AllRows
<1>2. CASE r.num < 0
  <2>1. Restored(r) = [r EXCEPT !.num = -r.num]
    BY <1>2 DEF Restored, AllRows
  <2> QED BY <1>1, <1>2, <2>1, RowType
<1>3. CASE ~(r.num < 0)
  BY <1>3 DEF Restored
<1> QED BY <1>2, <1>3

(* The first UPDATE gives two rows the same number only when they had it before. *)
LEMMA HalfShift ==
  ASSUME NEW before \in SUBSET AllRows, NEW u \in GoodUpdates, Sane(before),
         NEW r \in Rest(before, u), NEW s \in Rest(before, u),
         Negated(u, r).num = Negated(u, s).num
  PROVE  r = s
<1>1. /\ r \in before /\ r \in AllRows /\ r.num \in Nat
      /\ r.num < u.lo \/ r.num >= u.hi
  BY RestType
<1>2. /\ s \in before /\ s \in AllRows /\ s.num \in Nat
      /\ s.num < u.lo \/ s.num >= u.hi
  BY RestType
<1>3. (IF r.num >= u.lo THEN -(r.num + Shift(u)) ELSE r.num)
        = (IF s.num >= u.lo THEN -(s.num + Shift(u)) ELSE s.num)
  BY <1>1, <1>2, NegatedType
<1>4. /\ u.lo \in Nat /\ u.hi \in Nat /\ u.lo <= u.hi /\ Len(u.lines) \in Nat
      /\ Shift(u) = Len(u.lines) - (u.hi - u.lo)
  BY UpdateType
<1>5. (IF r.num >= u.lo THEN -(r.num + (Len(u.lines) - (u.hi - u.lo))) ELSE r.num)
        = (IF s.num >= u.lo THEN -(s.num + (Len(u.lines) - (u.hi - u.lo))) ELSE s.num)
  BY <1>3, <1>4
<1>6. r.num = s.num
  <2> DEFINE k == Len(u.lines)  m == r.num  n == s.num  lo == u.lo  hi == u.hi
  <2>1. /\ lo \in Nat /\ hi \in Nat /\ k \in Nat /\ lo <= hi /\ m \in Nat /\ n \in Nat
        /\ m < lo \/ m >= hi
        /\ n < lo \/ n >= hi
        /\ (IF m >= lo THEN -(m + (k - (hi - lo))) ELSE m)
             = (IF n >= lo THEN -(n + (k - (hi - lo))) ELSE n)
    BY <1>1, <1>2, <1>4, <1>5
  <2> HIDE DEF k, m, n, lo, hi
  <2>2. m = n
    BY <2>1, NegatedApart
  <2> QED BY <2>2 DEF m, n
<1> QED BY <1>1, <1>2, <1>6 DEF Sane, Unique

(* The second one brings each row to where it belongs.                         *)
LEMMA FullShift ==
  ASSUME NEW before \in SUBSET AllRows, NEW u \in GoodUpdates, Sane(before),
         NEW r \in Rest(before, u)
  PROVE  /\ Restored(Negated(u, r)) \in AllRows
         /\ Restored(Negated(u, r)).line = r.line
         /\ r.num < u.lo => Restored(Negated(u, r)) = r
         /\ r.num >= u.lo =>
              /\ r.num >= u.hi
              /\ Restored(Negated(u, r)) = [r EXCEPT !.num = @ + Shift(u)]
              /\ Restored(Negated(u, r)).num = r.num + Shift(u)
              /\ r.num + Shift(u) >= u.lo + Len(u.lines)
<1>1. /\ r \in before /\ r \in AllRows /\ r.num \in Nat
      /\ r.num < u.lo \/ r.num >= u.hi
  BY RestType
<1>2. /\ u.lo \in Nat /\ u.hi \in Nat /\ u.lo <= u.hi /\ Len(u.lines) \in Nat
      /\ Shift(u) = Len(u.lines) - (u.hi - u.lo) /\ Shift(u) \in Int
  BY UpdateType
<1>3. /\ Negated(u, r) \in AllRows
      /\ Negated(u, r).num = (IF r.num >= u.lo THEN -(r.num + Shift(u)) ELSE r.num)
      /\ Negated(u, r).line = r.line
  BY <1>1, NegatedType
<1>4. /\ Restored(Negated(u, r)) \in AllRows
      /\ Restored(Negated(u, r)).num
           = (IF Negated(u, r).num < 0 THEN -Negated(u, r).num ELSE Negated(u, r).num)
      /\ Restored(Negated(u, r)).line = r.line
  BY <1>3, RestoredType
<1>5. CASE r.num < u.lo
  <2>1. ~(r.num >= u.lo) /\ ~(r.num < 0)
    BY <1>1, <1>2, <1>5
  <2>2. Restored(Negated(u, r)) = r
    BY <1>1, <1>3, <1>4, <2>1, RowsEqual
  <2> QED BY <1>4, <2>1, <2>2
<1>6. CASE r.num >= u.lo
  <2>1. r.num >= u.hi
    BY <1>1, <1>2, <1>6
  <2>2. r.num + Shift(u) >= u.lo + Len(u.lines) /\ r.num + Shift(u) \in Nat
    BY <1>1, <1>2, <2>1, MovedBelow
  <2>3. Negated(u, r).num = -(r.num + Shift(u))
    BY <1>3, <1>6
  <2>4. \A n \in Nat : (IF -n < 0 THEN -(-n) ELSE -n) = n
    OBVIOUS
  <2>5. Restored(Negated(u, r)).num = r.num + Shift(u)
    BY <1>4, <2>2, <2>3, <2>4
  <2>6. [r EXCEPT !.num = @ + Shift(u)] = [r EXCEPT !.num = r.num + Shift(u)]
    BY <1>1 DEF AllRows
  <2>7. Restored(Negated(u, r)) = [r EXCEPT !.num = @ + Shift(u)]
    <3> DEFINE m == r.num + Shift(u)
    <3>1. m \in Int
      BY <2>2
    <3> HIDE DEF m
    <3>2. /\ [r EXCEPT !.num = m] \in AllRows
          /\ [r EXCEPT !.num = m].num = m
          /\ [r EXCEPT !.num = m].line = r.line
      BY <1>1, <3>1, RowType
    <3>3. Restored(Negated(u, r)) = [r EXCEPT !.num = m]
      BY <1>4, <2>5, <3>2, RowsEqual DEF m
    <3> QED BY <2>6, <3>3 DEF m
  <2> QED BY <1>1, <1>2, <1>4, <1>6, <2>1, <2>2, <2>5, <2>7
<1> QED BY <1>1, <1>2, <1>5, <1>6

LEMMA PutType ==
  ASSUME NEW u \in GoodUpdates, NEW i \in DOMAIN u.lines
  PROVE  /\ i \in Nat /\ 1 <= i /\ i <= Len(u.lines)
         /\ Row(u.lo + i - 1, u.lines[i]) \in AllRows
         /\ Row(u.lo + i - 1, u.lines[i]).num = u.lo + i - 1
         /\ u.lo + i - 1 >= u.lo /\ u.lo + i - 1 < u.lo + Len(u.lines)
<1>1. u.lo \in Nat /\ u.lines \in Seq(Lines) /\ Len(u.lines) \in Nat
  BY UpdateType
<1>2. i \in Nat /\ 1 <= i /\ i <= Len(u.lines) /\ u.lines[i] \in Lines
  BY <1>1
<1>3. u.lo + i - 1 \in Int /\ u.lo + i - 1 >= u.lo /\ u.lo + i - 1 < u.lo + Len(u.lines)
  BY <1>1, <1>2
<1> QED BY <1>2, <1>3 DEF Row, AllRows

LEMMA MovedType ==
  ASSUME NEW before \in SUBSET AllRows, NEW u \in GoodUpdates, Sane(before),
         NEW s \in before, s.num >= u.hi
  PROVE  /\ [s EXCEPT !.num = @ + Shift(u)] \in AllRows
         /\ [s EXCEPT !.num = @ + Shift(u)].num = s.num + Shift(u)
         /\ [s EXCEPT !.num = @ + Shift(u)].line = s.line
         /\ s.num + Shift(u) >= u.lo + Len(u.lines)
         /\ s.num \in Nat
<1>1. s \in AllRows /\ s.num \in Nat
  BY DEF Sane, AllRows
<1>2. /\ u.lo \in Nat /\ u.hi \in Nat /\ u.lo <= u.hi /\ Len(u.lines) \in Nat
      /\ Shift(u) = Len(u.lines) - (u.hi - u.lo) /\ Shift(u) \in Int
  BY UpdateType
<1>3. s.num + Shift(u) >= u.lo + Len(u.lines) /\ s.num + Shift(u) \in Nat
  BY <1>1, <1>2, MovedBelow
<1>4. [s EXCEPT !.num = @ + Shift(u)] = [s EXCEPT !.num = s.num + Shift(u)]
  BY <1>1 DEF AllRows
<1> DEFINE m == s.num + Shift(u)
<1>5. m \in Int
  BY <1>3
<1> HIDE DEF m
<1>6. /\ [s EXCEPT !.num = m] \in AllRows
      /\ [s EXCEPT !.num = m].num = m
      /\ [s EXCEPT !.num = m].line = s.line
  BY <1>1, <1>5, RowType
<1> QED BY <1>1, <1>3, <1>4, <1>6 DEF m

(* Where the rows of the three parts of the table are.                          *)
LEMMA PartsApart ==
  ASSUME NEW before \in SUBSET AllRows, NEW u \in GoodUpdates, Sane(before),
         NEW I \in SUBSET DOMAIN u.lines
  PROVE  /\ \A r \in Above(before, u) : r \in AllRows /\ r.num \in Nat /\ r.num < u.lo
         /\ \A r \in Moved(before, u) : /\ r \in AllRows /\ r.num \in Nat
                                       /\ r.num >= u.lo + Len(u.lines)
         /\ \A r \in Put(u, I) : /\ r \in AllRows /\ r.num \in Nat
                                 /\ r.num >= u.lo /\ r.num < u.lo + Len(u.lines)
<1>1. u.lo \in Nat /\ u.hi \in Nat /\ Len(u.lines) \in Nat /\ Shift(u) \in Int
  BY UpdateType
<1>2. ASSUME NEW r \in Above(before, u)
      PROVE  r \in AllRows /\ r.num \in Nat /\ r.num < u.lo
  BY <1>2 DEF Above, Sane, AllRows
<1>3. ASSUME NEW r \in Moved(before, u)
      PROVE  r \in AllRows /\ r.num \in Nat /\ r.num >= u.lo + Len(u.lines)
  <2>1. PICK s \in before : s.num >= u.hi /\ r = [s EXCEPT !.num = @ + Shift(u)]
    BY <1>3 DEF Moved
  <2>2. r \in AllRows /\ r.num = s.num + Shift(u) /\ r.num >= u.lo + Len(u.lines) /\ s.num \in Nat
    BY <2>1, MovedType
  <2> QED BY <1>1, <2>2
<1>4. ASSUME NEW r \in Put(u, I)
      PROVE  /\ r \in AllRows /\ r.num \in Nat
             /\ r.num >= u.lo /\ r.num < u.lo + Len(u.lines)
  <2>1. PICK i \in DOMAIN u.lines : r = Row(u.lo + i - 1, u.lines[i])
    BY <1>4 DEF Put
  <2>2. /\ r \in AllRows /\ r.num = u.lo + i - 1 /\ i \in Nat
        /\ r.num >= u.lo /\ r.num < u.lo + Len(u.lines)
    BY <2>1, PutType
  <2> QED BY <1>1, <2>2
<1> QED BY <1>2, <1>3, <1>4

LEMMA MovedOnce ==
  ASSUME NEW before \in SUBSET AllRows, NEW u \in GoodUpdates, Sane(before),
         NEW r \in Moved(before, u), NEW s \in Moved(before, u), r.num = s.num
  PROVE  r = s
<1>1. PICK x \in before : x.num >= u.hi /\ r = [x EXCEPT !.num = @ + Shift(u)]
  BY DEF Moved
<1>2. PICK y \in before : y.num >= u.hi /\ s = [y EXCEPT !.num = @ + Shift(u)]
  BY DEF Moved
<1>3. r.num = x.num + Shift(u) /\ s.num = y.num + Shift(u) /\ x.num \in Nat /\ y.num \in Nat
  BY <1>1, <1>2, MovedType
<1>4. x.num + Shift(u) = y.num + Shift(u) /\ Shift(u) \in Int
  BY <1>3, UpdateType
<1>5. x.num = y.num
  BY <1>3, <1>4
<1> QED BY <1>1, <1>2, <1>5 DEF Sane, Unique

LEMMA TableSane ==
  ASSUME NEW before \in SUBSET AllRows, NEW u \in GoodUpdates, Sane(before),
         NEW I \in SUBSET DOMAIN u.lines
  PROVE  Table(before, u, I) \subseteq AllRows /\ Sane(Table(before, u, I))
<1>1. u.lo \in Nat /\ Len(u.lines) \in Nat
  BY UpdateType
<1>2. /\ \A r \in Above(before, u) : r \in AllRows /\ r.num \in Nat /\ r.num < u.lo
      /\ \A r \in Moved(before, u) : /\ r \in AllRows /\ r.num \in Nat
                                    /\ r.num >= u.lo + Len(u.lines)
      /\ \A r \in Put(u, I) : /\ r \in AllRows /\ r.num \in Nat
                              /\ r.num >= u.lo /\ r.num < u.lo + Len(u.lines)
  BY PartsApart
<1>3. ASSUME NEW r \in Table(before, u, I), NEW s \in Table(before, u, I), r.num = s.num
      PROVE  r = s
  <2>1. CASE r \in Above(before, u)
    <3>1. s \in Above(before, u)
      BY <1>1, <1>2, <1>3, <2>1 DEF Table
    <3> QED BY <1>3, <2>1, <3>1 DEF Above, Sane, Unique
  <2>2. CASE r \in Moved(before, u)
    <3>1. s \in Moved(before, u)
      BY <1>1, <1>2, <1>3, <2>2 DEF Table
    <3> QED BY <1>3, <2>2, <3>1, MovedOnce
  <2>3. CASE r \in Put(u, I)
    <3>1. s \in Put(u, I)
      BY <1>1, <1>2, <1>3, <2>3 DEF Table
    <3>2. PICK i \in DOMAIN u.lines : r = Row(u.lo + i - 1, u.lines[i])
      BY <2>3 DEF Put
    <3>3. PICK j \in DOMAIN u.lines : s = Row(u.lo + j - 1, u.lines[j])
      BY <3>1 DEF Put
    <3>4. r.num = u.lo + i - 1 /\ s.num = u.lo + j - 1 /\ i \in Nat /\ j \in Nat
      BY <3>2, <3>3, PutType
    <3>5. u.lo + i - 1 = u.lo + j - 1
      BY <1>3, <3>4
    <3>6. i = j
      BY <1>1, <3>4, <3>5
    <3> QED BY <3>2, <3>3, <3>6
  <2> QED BY <1>3, <2>1, <2>2, <2>3 DEF Table
<1>4. \A r \in Table(before, u, I) : r \in AllRows /\ r.num >= 0
  BY <1>2 DEF Table
<1> QED BY <1>3, <1>4 DEF Sane, Unique

LEMMA SubsetSane ==
  ASSUME NEW R, Sane(R), NEW S \in SUBSET R
  PROVE  Sane(S)
  BY DEF Sane, Unique

(* The first UPDATE does not fail.                                              *)
LEMMA HalfShiftPasses ==
  ASSUME NEW before \in SUBSET AllRows, NEW u \in GoodUpdates, Sane(before)
  PROVE  ~Clash([r \in Rest(before, u) |-> Negated(u, r)])
<1> DEFINE f == [r \in Rest(before, u) |-> Negated(u, r)]
<1>1. DOMAIN f = Rest(before, u) /\ \A r \in Rest(before, u) : f[r] = Negated(u, r)
  OBVIOUS
<1>2. \A r, s \in Rest(before, u) : Negated(u, r).num = Negated(u, s).num => r = s
  BY HalfShift
<1> HIDE DEF f
<1>3. ~Clash(f)
  BY <1>1, <1>2 DEF Clash
<1> QED BY <1>3 DEF f

(* Nor does the second one, and then the rows are where they belong.            *)
LEMMA FullShiftPasses ==
  ASSUME NEW before \in SUBSET AllRows, NEW u \in GoodUpdates, Sane(before),
         NEW R, R = {Negated(u, r) : r \in Rest(before, u)}
  PROVE  /\ ~Clash([r \in R |-> Restored(r)])
         /\ {Restored(r) : r \in R} = Above(before, u) \union Moved(before, u)
<1>1. /\ u.lo \in Nat /\ u.hi \in Nat /\ u.lo <= u.hi /\ Len(u.lines) \in Nat
      /\ Shift(u) \in Int
  BY UpdateType
<1>2. ASSUME NEW r \in Rest(before, u)
      PROVE  /\ r \in before /\ r \in AllRows /\ r.num \in Nat
             /\ Restored(Negated(u, r)) \in AllRows
             /\ r.num < u.lo => Restored(Negated(u, r)) = r
             /\ r.num >= u.lo =>
                  /\ r.num >= u.hi
                  /\ Restored(Negated(u, r)) = [r EXCEPT !.num = @ + Shift(u)]
                  /\ Restored(Negated(u, r)).num = r.num + Shift(u)
                  /\ r.num + Shift(u) >= u.lo + Len(u.lines)
  BY <1>2, RestType, FullShift
<1>3. ASSUME NEW r \in Rest(before, u), NEW s \in Rest(before, u),
             Restored(Negated(u, r)).num = Restored(Negated(u, s)).num
      PROVE  r = s
  <2>1. r.num < u.lo \/ r.num >= u.lo
    BY <1>1, <1>2
  <2>2. s.num < u.lo \/ s.num >= u.lo
    BY <1>1, <1>2
  <2>3. CASE r.num < u.lo /\ s.num < u.lo
    <3>1. r.num = s.num
      BY <1>2, <1>3, <2>3
    <3> QED BY <1>2, <3>1 DEF Sane, Unique
  <2>4. CASE r.num >= u.lo /\ s.num >= u.lo
    <3>1. r.num + Shift(u) = s.num + Shift(u)
      BY <1>2, <1>3, <2>4
    <3>2. r.num = s.num
      BY <1>1, <1>2, <3>1
    <3> QED BY <1>2, <3>2 DEF Sane, Unique
  <2>5. CASE r.num < u.lo /\ s.num >= u.lo
    <3>1. r.num = s.num + Shift(u) /\ s.num + Shift(u) >= u.lo + Len(u.lines)
      BY <1>2, <1>3, <2>5
    <3> QED BY <1>1, <1>2, <2>5, <3>1
  <2>6. CASE r.num >= u.lo /\ s.num < u.lo
    <3>1. s.num = r.num + Shift(u) /\ r.num + Shift(u) >= u.lo + Len(u.lines)
      BY <1>2, <1>3, <2>6
    <3> QED BY <1>1, <1>2, <2>6, <3>1
  <2> QED BY <2>1, <2>2, <2>3, <2>4, <2>5, <2>6
<1>4. ~Clash([r \in R |-> Restored(r)])
  <2> DEFINE f == [r \in R |-> Restored(r)]
  <2>1. DOMAIN f = R /\ \A x \in R : f[x] = Restored(x)
    OBVIOUS
  <2>2. \A x, y \in R : Restored(x).num = Restored(y).num => x = y
    BY <1>3
  <2> HIDE DEF f
  <2>3. ~Clash(f)
    BY <2>1, <2>2 DEF Clash
  <2> QED BY <2>3 DEF f
<1>5. {Restored(r) : r \in R} = {Restored(Negated(u, r)) : r \in Rest(before, u)}
  OBVIOUS
<1>6. ASSUME NEW r \in Rest(before, u)
      PROVE  Restored(Negated(u, r)) \in Above(before, u) \union Moved(before, u)
  <2>1. CASE r.num < u.lo
    BY <1>2, <2>1 DEF Above
  <2>2. CASE r.num >= u.lo
    BY <1>2, <2>2 DEF Moved
  <2> QED BY <1>1, <1>2, <2>1, <2>2
<1>7. ASSUME NEW x \in Above(before, u)
      PROVE  x \in Rest(before, u) /\ Restored(Negated(u, x)) = x
  <2>1. x \in before /\ x.num < u.lo
    BY <1>7 DEF Above
  <2>2. x \in Rest(before, u)
    <3>1. x.num \in Int
      BY <2>1 DEF AllRows
    <3>2. ~(u.lo <= x.num)
      BY <1>1, <2>1, <3>1
    <3> QED BY <2>1, <3>2 DEF Rest, InRange
  <2> QED BY <1>2, <2>1, <2>2
<1>8. ASSUME NEW x \in Moved(before, u)
      PROVE  \E r \in Rest(before, u) : Restored(Negated(u, r)) = x
  <2>1. PICK r \in before : r.num >= u.hi /\ x = [r EXCEPT !.num = @ + Shift(u)]
    BY <1>8 DEF Moved
  <2>2. r.num \in Int
    BY <2>1 DEF AllRows
  <2>3. r.num >= u.lo /\ ~(r.num < u.hi)
    BY <1>1, <2>1, <2>2
  <2>4. r \in Rest(before, u)
    BY <2>1, <2>3 DEF Rest, InRange
  <2> QED BY <1>2, <2>1, <2>3, <2>4
<1> QED BY <1>4, <1>5, <1>6, <1>7, <1>8

(* The inserts do not fail, in whatever order.                                  *)
LEMMA InsertFits ==
  ASSUME NEW before \in SUBSET AllRows, NEW u \in GoodUpdates, Sane(before),
         NEW I \in SUBSET DOMAIN u.lines, NEW i \in DOMAIN u.lines \ I,
         NEW r \in Table(before, u, I), r.num = u.lo + i - 1
  PROVE  FALSE
<1>1. u.lo \in Nat /\ Len(u.lines) \in Nat
  BY UpdateType
<1>2. /\ i \in Nat /\ u.lo + i - 1 >= u.lo /\ u.lo + i - 1 < u.lo + Len(u.lines)
  BY PutType
<1>3. r \in Put(u, I)
  BY <1>1, <1>2, PartsApart DEF Table
<1>4. PICK j \in I : r = Row(u.lo + j - 1, u.lines[j])
  BY <1>3 DEF Put
<1>5. r.num = u.lo + j - 1 /\ j \in Nat
  BY <1>4, PutType
<1>6. i = j
  BY <1>1, <1>2, <1>5
<1> QED BY <1>4, <1>6

LEMMA InsertPuts ==
  ASSUME NEW before, NEW u, NEW I, NEW i
  PROVE  Table(before, u, I) \union {Row(u.lo + i - 1, u.lines[i])} = Table(before, u, I \union {i})
<1>1. Put(u, I) \union {Row(u.lo + i - 1, u.lines[i])} = Put(u, I \union {i})
  BY DEF Put
<1> QED BY <1>1 DEF Table

-----------------------------------------------------------------------------
(* Types: TypeOK, and that updates replace lo .. hi - 1 with lo <= hi.          *)

OpType(o) == /\ o \in Ops /\ o.u \in GoodUpdates /\ o.left \subseteq DOMAIN o.u.lines
             /\ o.at = "none" => o = NoOp
PollType(q) == q \in [at : PollPoints, count : Nat, u : Updates] /\ q.u \in GoodUpdates

TypeInv ==
  /\ text \in Seq(Lines) /\ text # <<>>
  /\ edits \in Nat
  /\ events \in Seq(GoodUpdates) /\ work \in Seq(GoodUpdates)
  /\ PollType(poll)
  /\ pstop \in BOOLEAN
  /\ rows \subseteq AllRows
  /\ OpType(op)
  /\ torn \in BOOLEAN /\ fresh \in BOOLEAN /\ held \subseteq Nat

LEMMA EmptyUpdate == Update(0, 0, <<>>) \in GoodUpdates
  BY DEF Update, GoodUpdates, Updates

LEMMA NoOpType == OpType(NoOp)
  BY EmptyUpdate DEF OpType, NoOp, Ops, Points, GoodUpdates

LEMMA NoPollType == PollType(NoPoll)
  BY EmptyUpdate DEF PollType, NoPoll, PollPoints, GoodUpdates

LEMMA InitType == Init => TypeInv
<1> SUFFICES ASSUME Init PROVE TypeInv
  OBVIOUS
<1>1. Blank \in Lines
  BY BufferAssumption
<1>2. text \in Seq(Lines) /\ text # <<>>
  BY <1>1 DEF Init
<1>3. events \in Seq(GoodUpdates) /\ work \in Seq(GoodUpdates)
  BY DEF Init
<1> QED BY <1>2, <1>3, NoOpType, NoPollType DEF Init, TypeInv

(* The lines that a window reads are in the buffer, and at least one.           *)
LEMMA WindowType ==
  ASSUME NEW row \in Nat, text \in Seq(Lines), row < Len(text)
  PROVE  LET u == Window(Len(text), row)
         IN  /\ u \in GoodUpdates /\ u.lo < u.hi /\ u.hi <= Len(text)
             /\ u.lines = SubSeq(text, u.lo + 1, u.hi)
<1> DEFINE lo == IF row > Height THEN row - Height ELSE 0
           hi == IF Len(text) < row + Height + 1 THEN Len(text) ELSE row + Height + 1
           u == Window(Len(text), row)
<1>1. Height \in Nat /\ Len(text) \in Nat
  BY BufferAssumption
<1>2. lo \in Nat /\ hi \in Nat /\ lo < hi /\ hi <= Len(text)
  BY <1>1
<1>3. u = [lo |-> lo, hi |-> hi, lines |-> SubSeq(text, lo + 1, hi)]
  BY DEF Window, Update
<1> HIDE DEF lo, hi
<1>4. \A i \in lo + 1 .. hi : text[i] \in Lines
  BY <1>1, <1>2
<1>5. SubSeq(text, lo + 1, hi) \in Seq(Lines)
  BY <1>2, <1>4, SubSeqProperties
<1>6. u \in GoodUpdates
  BY <1>2, <1>3, <1>5 DEF GoodUpdates, Updates
<1> QED BY <1>2, <1>3, <1>6

LEMMA StartType ==
  ASSUME NEW by \in {"poll", "work", "enter"}, NEW at \in {"vacuum", "delete"},
         NEW u \in GoodUpdates, NEW count \in Nat, rows \subseteq AllRows,
         Start(by, at, u, count)
  PROVE  OpType(op')
<1>1. DOMAIN u.lines \subseteq Nat
  BY UpdateType
<1> QED BY <1>1 DEF Start, OpType, Ops, Points, GoodUpdates, AllRows

LEMMA AtType ==
  ASSUME OpType(op), NEW next \in Points \ {"none"}, op' = [op EXCEPT !.at = next]
  PROVE  OpType(op')
  BY DEF OpType, Ops

LEMMA AbortType ==
  ASSUME TypeInv, Abort \/ UNCHANGED <<op, torn, fresh, held>>
  PROVE  OpType(op') /\ torn' \in BOOLEAN /\ fresh' \in BOOLEAN /\ held' \subseteq Nat
<1>1. CASE Abort
  <2>1. torn' \in BOOLEAN /\ fresh' \in BOOLEAN /\ held' \subseteq Nat
    BY <1>1 DEF Abort, TypeInv
  <2>2. CASE op.at = "vacuum"
    BY <1>1, <2>1, <2>2, AtType DEF Abort, TypeInv, Points
  <2>3. CASE op.at # "vacuum"
    BY <1>1, <2>1, <2>3, NoOpType DEF Abort, Over
  <2> QED BY <2>1, <2>2, <2>3
<1>2. CASE UNCHANGED <<op, torn, fresh, held>>
  BY <1>2 DEF TypeInv
<1> QED BY <1>1, <1>2

LEMMA ShiftedType ==
  ASSUME TypeInv, NEW f, DOMAIN f = rows, \A r \in rows : f[r] \in AllRows,
         NEW next \in Points \ {"none"}, Execute(f, next)
  PROVE  OpType(op') /\ rows' \subseteq AllRows
<1>1. CASE Clash(f)
  BY <1>1, NoOpType DEF Execute, Over, TypeInv
<1>2. CASE ~Clash(f)
  <2>1. OpType(op')
    BY <1>2, AtType DEF Execute, TypeInv
  <2>2. rows' \subseteq AllRows
    BY <1>2 DEF Execute
  <2> QED BY <2>1, <2>2
<1> QED BY <1>1, <1>2

LEMMA StepType == TypeInv /\ [Next]_vars => TypeInv'
<1> SUFFICES ASSUME TypeInv, [Next]_vars PROVE TypeInv'
  OBVIOUS
<1> USE DEF TypeInv
<1>1. ASSUME NEW u \in Inputs, Edit(u) PROVE TypeInv'
  <2>1. u \in Updates /\ u.lo <= u.hi
    <3>1. MaxLen \in Nat
      BY BufferAssumption
    <3>2. PICK lo \in 0 .. MaxLen, hi \in 0 .. MaxLen,
               ls \in UNION {[1 .. n -> Lines] : n \in 0 .. MaxLen} : u = Update(lo, hi, ls)
      BY DEF Inputs
    <3>3. PICK n \in 0 .. MaxLen : ls \in [1 .. n -> Lines]
      OBVIOUS
    <3>4. lo \in Nat /\ hi \in Nat /\ ls \in Seq(Lines)
      BY <3>1, <3>3
    <3>5. u \in Updates
      BY <3>2, <3>4 DEF Update, Updates
    <3> QED BY <1>1, <3>5 DEF Edit
  <2>2. u.lo \in Nat /\ u.hi \in Nat /\ u.lines \in Seq(Lines) /\ u \in GoodUpdates
    BY <2>1 DEF Updates, GoodUpdates
  <2>3. u.lo <= u.hi /\ u.hi <= Len(text) /\ Len(text) \in Nat
    BY <1>1 DEF Edit
  <2>4. \A i \in 1 .. u.lo : text[i] \in Lines
    BY <2>2, <2>3
  <2>5. \A i \in u.hi + 1 .. Len(text) : text[i] \in Lines
    BY <2>2, <2>3
  <2>6. SubSeq(text, 1, u.lo) \in Seq(Lines) /\ SubSeq(text, u.hi + 1, Len(text)) \in Seq(Lines)
    BY <2>2, <2>3, <2>4, <2>5, SubSeqProperties
  <2>7. Replaced(text, u) \in Seq(Lines)
    BY <2>2, <2>6, ConcatProperties DEF Replaced
  <2>8. text' \in Seq(Lines) /\ text' # <<>>
    <3>1. Blank \in Lines
      BY BufferAssumption
    <3>2. text' = IF Replaced(text, u) = <<>> THEN <<Blank>> ELSE Replaced(text, u)
      BY <1>1 DEF Edit
    <3>3. <<Blank>> \in Seq(Lines) /\ <<Blank>> # <<>>
      BY <3>1
    <3> QED BY <2>7, <3>2, <3>3
  <2>9. events' \in Seq(GoodUpdates)
    BY <1>1, <2>2, AppendProperties DEF Edit
  <2>10. /\ edits' \in Nat /\ fresh' \in BOOLEAN /\ held' \subseteq Nat
         /\ UNCHANGED <<work, poll, pstop, rows, op, torn>>
    <3>1. /\ edits' = edits + 1 /\ fresh' = FALSE /\ held' = {}
          /\ UNCHANGED <<work, poll, pstop, rows, op, torn>>
      BY <1>1, Zenon DEF Edit
    <3>2. edits' \in Nat
      BY <3>1
    <3>3. fresh' \in BOOLEAN /\ held' \subseteq Nat
      BY <3>1
    <3> QED BY <3>1, <3>2, <3>3, Zenon
  <2> QED BY <2>8, <2>9, <2>10
<1>2. CASE Vacuum
  <2>1. rows' \subseteq AllRows
    BY <1>2 DEF Vacuum
  <2>2. OpType(op')
    BY <1>2, <2>1 DEF Vacuum, OpType, Ops, Points, AllRows
  <2> QED BY <1>2, <2>1, <2>2 DEF Vacuum, outside
<1>3. CASE Delete
  <2>1. OpType(op')
    BY <1>3, AtType DEF Delete, Points
  <2> QED BY <1>3, <2>1 DEF Delete, outside
<1>4. CASE LinesShift1
  <2>1. \A r \in rows : Negated(op.u, r) \in AllRows
    BY NegatedType DEF OpType
  <2> DEFINE f == [r \in rows |-> Negated(op.u, r)]
  <2>2. DOMAIN f = rows /\ \A r \in rows : f[r] \in AllRows
    BY <2>1
  <2>3. Execute(f, "shift_2")
    BY <1>4 DEF LinesShift1
  <2> HIDE DEF f
  <2>4. OpType(op') /\ rows' \subseteq AllRows
    BY <2>2, <2>3, ShiftedType DEF Points
  <2> QED BY <1>4, <2>4 DEF LinesShift1, outside
<1>5. CASE LinesShift2
  <2>1. \A r \in rows : Restored(r) \in AllRows
    BY RestoredType
  <2> DEFINE f == [r \in rows |-> Restored(r)]
  <2>2. DOMAIN f = rows /\ \A r \in rows : f[r] \in AllRows
    BY <2>1
  <2>3. Execute(f, "insert")
    BY <1>5 DEF LinesShift2
  <2> HIDE DEF f
  <2>4. OpType(op') /\ rows' \subseteq AllRows
    BY <2>2, <2>3, ShiftedType DEF Points
  <2> QED BY <1>5, <2>4 DEF LinesShift2, outside
<1>6. ASSUME NEW i \in 1 .. MaxLen, InsertLine(i) PROVE TypeInv'
  <2>1. i \in DOMAIN op.u.lines
    BY <1>6 DEF InsertLine, OpType
  <2>2. Row(op.u.lo + i - 1, op.u.lines[i]) \in AllRows
    BY <2>1, PutType DEF OpType
  <2>3. CASE \E r \in rows : r.num = op.u.lo + i - 1
    <3>1. op' = NoOp /\ UNCHANGED <<outside, rows, torn, fresh, held>>
      BY <1>6, <2>3 DEF InsertLine, Over
    <3> QED BY <3>1, NoOpType DEF outside
  <2>4. CASE ~\E r \in rows : r.num = op.u.lo + i - 1
    <3>1. /\ rows' = rows \union {Row(op.u.lo + i - 1, op.u.lines[i])}
          /\ op' = [op EXCEPT !.left = op.left \ {i}]
          /\ UNCHANGED <<outside, torn, fresh, held>>
      BY <1>6, <2>4 DEF InsertLine
    <3>2. op.at # "none"
      BY <1>6 DEF InsertLine
    <3>3. OpType(op')
      BY <3>1, <3>2 DEF OpType, Ops
    <3> QED BY <2>2, <3>1, <3>3 DEF outside
  <2> QED BY <2>3, <2>4
<1>7. CASE InsertWords
  <2>1. OpType(op')
    BY <1>7, AtType DEF InsertWords, Points
  <2> QED BY <1>7, <2>1 DEF InsertWords, outside
<1>8. CASE EnsureLine
  <2>1. Row(0, Blank) \in AllRows
    BY BufferAssumption DEF Row, AllRows
  <2>2. rows' \subseteq AllRows
    BY <1>8, <2>1 DEF EnsureLine
  <2>3. op.u.lo .. op.u.hi - 1 \subseteq Nat
    <3>1. op.u.lo \in Nat /\ op.u.hi \in Nat
      BY UpdateType DEF OpType
    <3> QED BY <3>1
  <2>4. OpType(op')
    BY <1>8, NoOpType DEF EnsureLine, Over
  <2> QED BY <1>8, <2>2, <2>3, <2>4 DEF EnsureLine, outside
<1>9. CASE Interrupt
  <2>1. OpType(op') /\ torn' \in BOOLEAN /\ fresh' \in BOOLEAN /\ held' \subseteq Nat
    BY <1>9, AbortType DEF Interrupt, Interrupted
  <2> QED BY <1>9, <2>1 DEF Interrupt, Interrupted
<1>10. CASE LinesEvent
  <2>1. OpType(op') /\ torn' \in BOOLEAN /\ fresh' \in BOOLEAN /\ held' \subseteq Nat
    BY <1>10, AbortType DEF LinesEvent, Interrupted
  <2>2. Head(events) \in GoodUpdates /\ Tail(events) \in Seq(GoodUpdates)
    BY <1>10, HeadTailProperties DEF LinesEvent
  <2>3. work' \in Seq(GoodUpdates)
    <3>1. Append(work, Head(events)) \in Seq(GoodUpdates)
      BY <2>2, AppendProperties
    <3> QED BY <1>10, <3>1 DEF LinesEvent
  <2> QED BY <1>10, <2>1, <2>2, <2>3 DEF LinesEvent, Interrupted
<1>11. CASE Cancelled
  <2>1. work' \in Seq(GoodUpdates)
    BY <1>11, HeadTailProperties DEF Cancelled
  <2> QED BY <1>11, <2>1 DEF Cancelled
<1>12. CASE Work
  <2>1. Head(work) \in GoodUpdates /\ work' \in Seq(GoodUpdates)
    BY <1>12, HeadTailProperties DEF Work
  <2>2. OpType(op')
    BY <1>12, <2>1, StartType DEF Work
  <2> QED BY <1>12, <2>1, <2>2 DEF Work
<1>13. CASE Idle
  <2>1. PollType(poll')
    BY <1>13 DEF Idle, PollType, PollPoints
  <2> QED BY <1>13, <2>1 DEF Idle
<1>14. CASE InfoLines
  <2>1. PollType(poll')
    <3>1. CASE poll.u.hi <= Len(text)
      <4> DEFINE ls == SubSeq(text, poll.u.lo + 1, poll.u.hi)
      <4>1. poll.u.lo \in Nat /\ poll.u.hi \in Nat /\ poll.u.lo <= poll.u.hi /\ Len(text) \in Nat
        BY UpdateType DEF PollType
      <4>2. \A i \in poll.u.lo + 1 .. poll.u.hi : text[i] \in Lines
        BY <3>1, <4>1
      <4>3. ls \in Seq(Lines)
        BY <4>1, <4>2, SubSeqProperties
      <4>4. poll' = [at |-> "ready", count |-> poll.count, u |-> [poll.u EXCEPT !.lines = ls]]
        BY <1>14, <3>1 DEF InfoLines
      <4> HIDE DEF ls
      <4>5. [poll.u EXCEPT !.lines = ls] \in GoodUpdates
        BY <4>3 DEF PollType, GoodUpdates, Updates
      <4> QED BY <4>4, <4>5 DEF PollType, PollPoints, GoodUpdates
    <3>2. CASE ~(poll.u.hi <= Len(text))
      BY <1>14, <3>2, NoPollType DEF InfoLines
    <3> QED BY <3>1, <3>2
  <2> QED BY <1>14, <2>1 DEF InfoLines
<1>15. CASE PollSets
  <2>1. poll.u \in GoodUpdates /\ poll.count \in Nat
    BY DEF PollType
  <2>2. OpType(op')
    BY <1>15, <2>1, StartType DEF PollSets
  <2> QED BY <1>15, <2>2, NoPollType DEF PollSets
<1>16. CASE PollStopped
  BY <1>16, NoPollType DEF PollStopped
<1>17. ASSUME NEW row \in 0 .. MaxLen - 1, BufEnter(row) PROVE TypeInv'
  <2>1. row \in Nat
    BY BufferAssumption
  <2>2. Window(Len(text), row) \in GoodUpdates
    BY <1>17, <2>1, WindowType DEF BufEnter
  <2>3. OpType(op')
    BY <1>17, <2>2, StartType DEF BufEnter
  <2> QED BY <1>17, <2>3 DEF BufEnter, outside
<1>18. ASSUME NEW row \in 0 .. MaxLen - 1, InfoCount(row) PROVE TypeInv'
  <2>1. row \in Nat
    BY BufferAssumption
  <2>2. Window(Len(text), row) \in GoodUpdates
    BY <1>18, <2>1, WindowType DEF InfoCount
  <2>3. PollType(poll')
    BY <1>18, <2>2 DEF InfoCount, PollType, PollPoints, GoodUpdates
  <2> QED BY <1>18, <2>3 DEF InfoCount
<1>19. CASE UNCHANGED vars
  BY <1>19 DEF vars
<1> QED BY <1>1, <1>2, <1>3, <1>4, <1>5, <1>6, <1>7, <1>8, <1>9, <1>10, <1>11, <1>12, <1>13,
           <1>14, <1>15, <1>16, <1>17, <1>18, <1>19 DEF Next, Statement

(* The table holds whole rows, what is in flight is an update, and the operation and
   the poll are where they can be, whatever the buffer and the interrupts do.   *)
THEOREM TypeCorrect == Spec => []TypeOK
<1>1. TypeInv => TypeOK
  <2>1. GoodUpdates \subseteq Updates
    BY DEF GoodUpdates
  <2>2. Seq(GoodUpdates) \subseteq Seq(Updates)
    BY <2>1
  <2> QED BY <2>1, <2>2 DEF TypeInv, TypeOK, OpType, PollType, AllRows
<1> QED BY <1>1, InitType, StepType, PTL DEF Spec

-----------------------------------------------------------------------------
(* What an operation has made of the table that it has found, at each of its
   statements, unless a shift was ever aborted between its halves.              *)

Done(o) == DOMAIN o.u.lines \ o.left

TableInv ==
  ~torn =>
    /\ Sane(op.before)
    /\ op.at = "none" => Sane(rows)
    /\ op.at \in {"vacuum", "delete"} => rows = op.before
    /\ op.at = "shift_1" => rows = Rest(op.before, op.u)
    /\ op.at = "shift_2" => rows = {Negated(op.u, r) : r \in Rest(op.before, op.u)}
    /\ op.at \in {"insert", "count"} => rows = Table(op.before, op.u, Done(op))
    /\ op.at = "count" => op.left = {}
    /\ op.at \in {"vacuum", "delete", "shift_1", "shift_2"} => op.left = DOMAIN op.u.lines

LEMMA OpFacts ==
  ASSUME TypeInv
  PROVE  /\ op.u \in GoodUpdates /\ op.before \in SUBSET AllRows /\ op.at \in Points
         /\ op.left \subseteq DOMAIN op.u.lines
         /\ op.at = "none" => op = NoOp
         /\ rows \in SUBSET AllRows
  BY DEF TypeInv, OpType, Ops, AllRows

LEMMA DoneFacts ==
  ASSUME TypeInv
  PROVE  Done(op) \in SUBSET DOMAIN op.u.lines /\ op.left = DOMAIN op.u.lines \ Done(op)
<1>1. op.left \subseteq DOMAIN op.u.lines
  BY OpFacts, Zenon
<1> QED BY <1>1, Zenon DEF Done

LEMMA RestSane ==
  ASSUME NEW before \in SUBSET AllRows, Sane(before), NEW u \in GoodUpdates
  PROVE  Sane(Rest(before, u))
  BY SubsetSane DEF Rest

(* Except between the halves of a shift, the table is sane.                     *)
LEMMA BetweenSane ==
  ASSUME TypeInv, TableInv, ~torn, op.at # "shift_2"
  PROVE  Sane(rows)
<1>1. CASE op.at \in {"none", "vacuum", "delete"}
  BY <1>1 DEF TableInv
<1>2. CASE op.at = "shift_1"
  BY <1>2, OpFacts, RestSane DEF TableInv
<1>3. CASE op.at \in {"insert", "count"}
  <2>1. rows = Table(op.before, op.u, Done(op)) /\ Sane(op.before)
    BY <1>3 DEF TableInv
  <2> QED BY <2>1, OpFacts, DoneFacts, TableSane
<1> QED BY <1>1, <1>2, <1>3, OpFacts DEF Points

(* No statement fails on UNIQUE.                                                *)
LEMMA StatementsPass ==
  ASSUME TypeInv, TableInv, ~torn
  PROVE  ~Clashes
<1>1. CASE op.at = "shift_1"
  <2>1. ~Clash([r \in rows |-> Negated(op.u, r)])
    BY <1>1, OpFacts, HalfShiftPasses DEF TableInv
  <2> QED BY <1>1, <2>1 DEF Clashes
<1>2. CASE op.at = "shift_2"
  <2>1. ~Clash([r \in rows |-> Restored(r)])
    BY <1>2, OpFacts, FullShiftPasses DEF TableInv
  <2> QED BY <1>2, <2>1 DEF Clashes
<1>3. CASE op.at = "insert"
  <2>1. ASSUME NEW i \in op.left, NEW r \in rows, r.num = op.u.lo + i - 1
        PROVE  FALSE
    <3>1. rows = Table(op.before, op.u, Done(op)) /\ Sane(op.before)
      BY <1>3 DEF TableInv
    <3>2. Done(op) \in SUBSET DOMAIN op.u.lines /\ i \in DOMAIN op.u.lines \ Done(op)
      BY DoneFacts
    <3>3. op.before \in SUBSET AllRows /\ op.u \in GoodUpdates
      BY OpFacts
    <3> DEFINE before == op.before  u == op.u  I == Done(op)
    <3>4. /\ before \in SUBSET AllRows /\ u \in GoodUpdates /\ Sane(before)
          /\ I \in SUBSET DOMAIN u.lines /\ i \in DOMAIN u.lines \ I
      BY <3>1, <3>2, <3>3, Zenon
    <3>5. r \in Table(before, u, I) /\ r.num = u.lo + i - 1
      BY <2>1, <3>1, Zenon
    <3> HIDE DEF before, u, I
    <3> QED BY <3>4, <3>5, InsertFits
  <2> QED BY <1>3, <2>1 DEF Clashes
<1>4. CASE op.at \notin {"shift_1", "shift_2", "insert"}
  BY <1>4 DEF Clashes
<1> QED BY <1>1, <1>2, <1>3, <1>4

LEMMA EmptySane == Sane({})
  BY DEF Sane, Unique

LEMMA InitTable == Init => TableInv
  BY EmptySane DEF Init, TableInv, NoOp

LEMMA StartTable ==
  ASSUME TypeInv, TableInv, op = NoOp, NEW by, NEW at \in {"vacuum", "delete"}, NEW u, NEW count,
         Start(by, at, u, count), UNCHANGED <<rows, torn>>
  PROVE  TableInv'
<1>1. ~torn => Sane(rows)
  BY DEF TableInv, NoOp
<1>2. op'.at = at /\ op'.before = rows /\ op'.u = u /\ op'.left = DOMAIN u.lines
  BY DEF Start
<1> QED BY <1>1, <1>2 DEF TableInv

LEMMA OverTable ==
  ASSUME Over, ~torn' => Sane(rows')
  PROVE  TableInv'
  BY EmptySane DEF Over, NoOp, TableInv

LEMMA AbortTable ==
  ASSUME TypeInv, TableInv, Abort \/ UNCHANGED <<op, torn, fresh, held>>, rows' = rows
  PROVE  TableInv'
<1>1. CASE Abort
  <2>1. CASE op.at = "vacuum"
    <3>1. op' = [op EXCEPT !.at = "delete"] /\ (torn' <=> torn)
      BY <1>1, <2>1 DEF Abort
    <3>2. op'.at = "delete" /\ op'.before = op.before /\ op'.u = op.u /\ op'.left = op.left
      BY <3>1 DEF TypeInv, OpType, Ops
    <3> QED BY <2>1, <3>1, <3>2 DEF TableInv
  <2>2. CASE op.at = "shift_2"
    <3>1. Over /\ torn'
      BY <1>1, <2>2 DEF Abort
    <3> QED BY <3>1 DEF TableInv
  <2>3. CASE op.at \notin {"vacuum", "shift_2"}
    <3>1. Over /\ (torn' <=> torn)
      BY <1>1, <2>3 DEF Abort
    <3>2. ~torn' => Sane(rows')
      BY <2>3, <3>1, BetweenSane
    <3> QED BY <3>1, <3>2, OverTable
  <2> QED BY <2>1, <2>2, <2>3
<1>2. CASE UNCHANGED <<op, torn, fresh, held>>
  BY <1>2 DEF TableInv
<1> QED BY <1>1, <1>2

LEMMA SameTable ==
  ASSUME TableInv, UNCHANGED <<rows, op, torn>>
  PROVE  TableInv'
  BY DEF TableInv

LEMMA StepTable == TypeInv /\ TableInv /\ [Next]_vars => TableInv'
<1> SUFFICES ASSUME TypeInv, TableInv, [Next]_vars PROVE TableInv'
  OBVIOUS
<1>1. ASSUME NEW u \in Inputs, Edit(u) PROVE TableInv'
  BY <1>1, SameTable DEF Edit
<1>2. CASE Vacuum
  <2>1. ~torn' => Sane(rows')
    <3>1. rows' \subseteq rows /\ torn' = torn /\ op.at = "vacuum"
      BY <1>2 DEF Vacuum
    <3> QED BY <3>1, BetweenSane, SubsetSane
  <2>2. op'.at = "delete" /\ op'.before = rows' /\ op'.u = op.u /\ op'.left = op.left
    BY <1>2 DEF Vacuum, TypeInv, OpType, Ops
  <2>3. op.at = "vacuum" /\ torn' = torn
    BY <1>2 DEF Vacuum
  <2> QED BY <2>1, <2>2, <2>3 DEF TableInv
<1>3. CASE Delete
  <2>1. op'.at = "shift_1" /\ op'.before = op.before /\ op'.u = op.u /\ op'.left = op.left
    BY <1>3 DEF Delete, TypeInv, OpType, Ops
  <2>2. op.at = "delete" /\ torn' = torn /\ rows' = {r \in rows : ~InRange(op.u, r)}
    BY <1>3 DEF Delete
  <2> QED BY <2>1, <2>2 DEF TableInv, Rest
<1>4. CASE LinesShift1
  <2> DEFINE f == [r \in rows |-> Negated(op.u, r)]
  <2>1. op.at = "shift_1" /\ Execute(f, "shift_2") /\ UNCHANGED torn
    BY <1>4 DEF LinesShift1
  <2>2. CASE torn
    BY <2>1, <2>2 DEF TableInv
  <2>3. CASE ~torn
    <3>1. ~Clash(f)
      BY <2>1, <2>3, StatementsPass DEF Clashes
    <3>2. op' = [op EXCEPT !.at = "shift_2"] /\ rows' = {f[r] : r \in rows}
      BY <2>1, <3>1 DEF Execute
    <3>3. rows' = {Negated(op.u, r) : r \in rows}
      BY <3>2
    <3>4. op'.at = "shift_2" /\ op'.before = op.before /\ op'.u = op.u /\ op'.left = op.left
      BY <3>2 DEF TypeInv, OpType, Ops
    <3>5. rows = Rest(op.before, op.u) /\ Sane(op.before) /\ op.left = DOMAIN op.u.lines
      BY <2>1, <2>3 DEF TableInv
    <3> QED BY <3>3, <3>4, <3>5 DEF TableInv
  <2> QED BY <2>2, <2>3
<1>5. CASE LinesShift2
  <2> DEFINE f == [r \in rows |-> Restored(r)]
  <2>1. op.at = "shift_2" /\ Execute(f, "insert") /\ torn' = (torn \/ op' = NoOp)
    BY <1>5 DEF LinesShift2
  <2>2. CASE torn
    BY <2>1, <2>2 DEF TableInv
  <2>3. CASE ~torn
    <3>1. ~Clash(f)
      BY <2>1, <2>3, StatementsPass DEF Clashes
    <3>2. op' = [op EXCEPT !.at = "insert"] /\ rows' = {f[r] : r \in rows}
      BY <2>1, <3>1 DEF Execute
    <3>3. rows' = {Restored(r) : r \in rows}
      BY <3>2
    <3>4. op'.at = "insert" /\ op'.before = op.before /\ op'.u = op.u /\ op'.left = op.left
      BY <3>2 DEF TypeInv, OpType, Ops
    <3>5. rows = {Negated(op.u, r) : r \in Rest(op.before, op.u)} /\ Sane(op.before)
      BY <2>1, <2>3 DEF TableInv
    <3>6. rows' = Above(op.before, op.u) \union Moved(op.before, op.u)
      BY <3>3, <3>5, OpFacts, FullShiftPasses
    <3>7. op.left = DOMAIN op.u.lines
      BY <2>1, <2>3 DEF TableInv
    <3>8. Done(op') = {}
      BY <3>4, <3>7, Zenon DEF Done
    <3>9. rows' = Table(op.before, op.u, Done(op'))
      BY <3>6, <3>8 DEF Table, Put
    <3> QED BY <3>4, <3>5, <3>9 DEF TableInv
  <2> QED BY <2>2, <2>3
<1>6. ASSUME NEW i \in 1 .. MaxLen, InsertLine(i) PROVE TableInv'
  <2>1. op.at = "insert" /\ i \in op.left /\ UNCHANGED torn
    BY <1>6 DEF InsertLine
  <2>2. CASE torn
    BY <2>1, <2>2 DEF TableInv
  <2>3. CASE ~torn
    <3>1. rows = Table(op.before, op.u, Done(op)) /\ Sane(op.before)
      BY <2>1, <2>3 DEF TableInv
    <3>2. Done(op) \in SUBSET DOMAIN op.u.lines /\ i \in DOMAIN op.u.lines \ Done(op)
      BY <2>1, DoneFacts
    <3>3. ~\E r \in rows : r.num = op.u.lo + i - 1
      BY <2>1, <2>3, StatementsPass DEF Clashes
    <3>4. /\ rows' = rows \union {Row(op.u.lo + i - 1, op.u.lines[i])}
          /\ op' = [op EXCEPT !.left = op.left \ {i}]
      BY <1>6, <3>3 DEF InsertLine
    <3>5. /\ op'.at = "insert" /\ op'.before = op.before /\ op'.u = op.u
          /\ op'.left = op.left \ {i}
      BY <2>1, <3>4 DEF TypeInv, OpType, Ops
    <3>6. Done(op') = Done(op) \union {i}
      BY <2>1, <3>2, <3>5, Zenon DEF Done
    <3>7. rows' = Table(op.before, op.u, Done(op) \union {i})
      BY <3>1, <3>4, InsertPuts
    <3> QED BY <3>1, <3>5, <3>6, <3>7 DEF TableInv
  <2> QED BY <2>2, <2>3
<1>7. CASE InsertWords
  <2>1. op.at = "insert" /\ op.left = {} /\ UNCHANGED <<rows, torn>>
    BY <1>7 DEF InsertWords
  <2>2. op'.at = "count" /\ op'.before = op.before /\ op'.u = op.u /\ op'.left = op.left
    BY <1>7 DEF InsertWords, TypeInv, OpType, Ops
  <2>3. Done(op') = Done(op)
    BY <2>2, Zenon DEF Done
  <2> QED BY <2>1, <2>2, <2>3 DEF TableInv
<1>8. CASE EnsureLine
  <2>1. op.at = "count" /\ Over /\ UNCHANGED torn
    BY <1>8 DEF EnsureLine
  <2>2. ASSUME ~torn' PROVE Sane(rows')
    <3>1. Sane(rows)
      BY <2>1, <2>2, BetweenSane
    <3>2. CASE NoLines
      <4>1. rows = {}
        <5>1. \A r \in rows : r.num \in Int /\ r.num >= 0 /\ r.num < 0
          BY <3>1, <3>2, OpFacts DEF NoLines, Sane, AllRows
        <5> QED BY <5>1
      <4>2. rows' = {Row(0, Blank)}
        BY <1>8, <3>2, <4>1 DEF EnsureLine
      <4>3. Row(0, Blank).num >= 0
        BY DEF Row
      <4> QED BY <4>2, <4>3 DEF Sane, Unique
    <3>3. CASE ~NoLines
      BY <1>8, <3>1, <3>3 DEF EnsureLine
    <3> QED BY <3>2, <3>3
  <2> QED BY <2>1, <2>2, OverTable
<1>9. CASE Interrupt
  BY <1>9, AbortTable DEF Interrupt, Interrupted
<1>10. CASE LinesEvent
  BY <1>10, AbortTable DEF LinesEvent, Interrupted
<1>11. CASE Cancelled
  BY <1>11, SameTable DEF Cancelled
<1>12. CASE Work
  BY <1>12, StartTable DEF Work
<1>13. CASE Idle
  BY <1>13, SameTable DEF Idle
<1>14. CASE InfoLines
  BY <1>14, SameTable DEF InfoLines
<1>15. CASE PollSets
  BY <1>15, StartTable DEF PollSets
<1>16. CASE PollStopped
  BY <1>16, SameTable DEF PollStopped
<1>17. ASSUME NEW row \in 0 .. MaxLen - 1, BufEnter(row) PROVE TableInv'
  BY <1>17, StartTable DEF BufEnter
<1>18. ASSUME NEW row \in 0 .. MaxLen - 1, InfoCount(row) PROVE TableInv'
  BY <1>18, SameTable DEF InfoCount
<1>19. CASE UNCHANGED vars
  BY <1>19, SameTable DEF vars
<1> QED BY <1>1, <1>2, <1>3, <1>4, <1>5, <1>6, <1>7, <1>8, <1>9, <1>10, <1>11, <1>12, <1>13,
           <1>14, <1>15, <1>16, <1>17, <1>18, <1>19 DEF Next, Statement

(* No statement of set_lines fails on UNIQUE(buffer_id, line_num), whatever updates
   were lost or aborted before, unless one was aborted within its shift.         *)
THEOREM StatementsNeverClash == Spec => []NoClash
<1>1. TypeInv /\ TableInv => NoClash
  BY StatementsPass DEF NoClash
<1> QED BY <1>1, InitType, StepType, InitTable, StepTable, PTL DEF Spec

(* _setlines replaces the lines lo .. hi - 1 and moves the others by the difference,
   for every update and every order of the inserts.                             *)
THEOREM UpdatesAreSpliced == Spec => []UpdatesSplice
<1>1. TypeInv /\ TableInv => UpdatesSplice
  <2>1. SUFFICES ASSUME TypeInv, TableInv, op.at = "count", ~torn
                 PROVE  rows = Spliced(op.before, op.u)
    BY DEF UpdatesSplice
  <2>2. rows = Table(op.before, op.u, Done(op)) /\ op.left = {}
    BY <2>1 DEF TableInv
  <2>3. Done(op) = DOMAIN op.u.lines
    BY <2>2, Zenon DEF Done
  <2> QED BY <2>2, <2>3 DEF Table, Above, Moved, Put, Spliced
<1> QED BY <1>1, InitType, StepType, InitTable, StepTable, PTL DEF Spec

-----------------------------------------------------------------------------
(* What an operation may lose.                                                 *)

LEMMA Kept ==
  ASSUME TypeInv, TableInv, ~torn, op.at # "none", NEW r \in op.before, ~InRange(op.u, r)
  PROVE  \E s \in rows : /\ s.line = r.line
                         /\ s.num \in {r.num, r.num + Shift(op.u), -(r.num + Shift(op.u))}
<1>1. /\ op.u \in GoodUpdates /\ op.before \in SUBSET AllRows /\ op.at \in Points
      /\ Sane(op.before)
  BY OpFacts DEF TableInv
<1>2. r \in Rest(op.before, op.u)
  BY DEF Rest
<1>3. r \in AllRows /\ (r.num < op.u.lo \/ r.num >= op.u.hi)
  BY <1>1, <1>2, RestType
<1>4. CASE op.at \in {"vacuum", "delete", "shift_1"}
  <2>1. r \in rows
    BY <1>2, <1>4 DEF TableInv
  <2> QED BY <2>1
<1>5. CASE op.at = "shift_2"
  <2>1. Negated(op.u, r) \in rows
    BY <1>2, <1>5 DEF TableInv
  <2>2. /\ Negated(op.u, r).num = (IF r.num >= op.u.lo THEN -(r.num + Shift(op.u)) ELSE r.num)
        /\ Negated(op.u, r).line = r.line
    BY <1>1, <1>3, NegatedType
  <2>3. Negated(op.u, r).num \in {r.num, r.num + Shift(op.u), -(r.num + Shift(op.u))}
    <3>1. CASE r.num >= op.u.lo
      BY <2>2, <3>1
    <3>2. CASE ~(r.num >= op.u.lo)
      BY <2>2, <3>2
    <3> QED BY <3>1, <3>2
  <2> QED BY <2>1, <2>2, <2>3
<1>6. CASE op.at \in {"insert", "count"}
  <2>1. rows = Table(op.before, op.u, Done(op))
    BY <1>6 DEF TableInv
  <2>2. CASE r.num < op.u.lo
    <3>1. r \in rows
      BY <2>1, <2>2 DEF Table, Above
    <3> QED BY <3>1
  <2>3. CASE r.num >= op.u.hi
    <3> DEFINE s == [r EXCEPT !.num = @ + Shift(op.u)]
    <3>1. s \in rows
      BY <2>1, <2>3 DEF Table, Moved
    <3>2. s.num = r.num + Shift(op.u) /\ s.line = r.line
      BY <1>1, <2>3, MovedType
    <3> HIDE DEF s
    <3> QED BY <3>1, <3>2
  <2> QED BY <1>3, <2>2, <2>3
<1> QED BY <1>1, <1>4, <1>5, <1>6 DEF Points

(* The step that ends an operation takes no row away.                          *)
LEMMA EndKeepsRows ==
  ASSUME TypeInv, [Next]_vars, op # NoOp, op' = NoOp
  PROVE  rows \subseteq rows'
<1>1. op \in Ops /\ op.at # "none" /\ op'.at = "none"
  BY DEF TypeInv, OpType, NoOp
<1>2. ASSUME NEW u \in Inputs, Edit(u) PROVE FALSE
  BY <1>2 DEF Edit
<1>3. ~Vacuum
  BY <1>1 DEF Vacuum, Ops
<1>4. ~Delete
  BY <1>1 DEF Delete, Ops
<1>5. ~InsertWords
  BY <1>1 DEF InsertWords, Ops
<1>6. CASE LinesShift1
  <2>1. Execute([r \in rows |-> Negated(op.u, r)], "shift_2")
    BY <1>6 DEF LinesShift1
  <2>2. [op EXCEPT !.at = "shift_2"].at = "shift_2"
    BY <1>1 DEF Ops
  <2>3. rows' = rows
    BY <1>1, <2>1, <2>2 DEF Execute
  <2> QED BY <2>3
<1>7. CASE LinesShift2
  <2>1. Execute([r \in rows |-> Restored(r)], "insert")
    BY <1>7 DEF LinesShift2
  <2>2. [op EXCEPT !.at = "insert"].at = "insert"
    BY <1>1 DEF Ops
  <2>3. rows' = rows
    BY <1>1, <2>1, <2>2 DEF Execute
  <2> QED BY <2>3
<1>8. ASSUME NEW i \in 1 .. MaxLen, InsertLine(i) PROVE rows \subseteq rows'
  BY <1>8 DEF InsertLine
<1>9. CASE EnsureLine
  BY <1>9 DEF EnsureLine
<1>10. CASE Interrupt
  BY <1>10 DEF Interrupt
<1>11. CASE LinesEvent
  BY <1>11 DEF LinesEvent
<1>12. CASE Cancelled \/ Work \/ Idle \/ InfoLines \/ PollSets \/ PollStopped
  BY <1>12 DEF Cancelled, Work, Idle, InfoLines, PollSets, PollStopped
<1>13. ASSUME NEW row \in 0 .. MaxLen - 1, BufEnter(row) \/ InfoCount(row) PROVE rows \subseteq rows'
  BY <1>13 DEF BufEnter, InfoCount
<1>14. CASE UNCHANGED vars
  BY <1>14 DEF vars
<1> QED BY <1>2, <1>3, <1>4, <1>5, <1>6, <1>7, <1>8, <1>9, <1>10, <1>11, <1>12, <1>13, <1>14
        DEF Next, Statement

(* An operation that ends or is aborted, at any of its statements, loses no line out of the
   range that it replaces.                                                      *)
THEOREM OthersStay == Spec => OthersAreKept
<1>1. TypeInv /\ TableInv /\ [Next]_vars =>
        [op # NoOp /\ op' = NoOp /\ ~torn =>
           \A r \in op.before : ~InRange(op.u, r) =>
             \E s \in rows' :
               /\ s.line = r.line
               /\ s.num \in {r.num, r.num + Shift(op.u), -(r.num + Shift(op.u))}]_vars
  <2> SUFFICES ASSUME TypeInv, TableInv, [Next]_vars, op # NoOp, op' = NoOp, ~torn,
                      NEW r \in op.before, ~InRange(op.u, r)
               PROVE  \E s \in rows' :
                        /\ s.line = r.line
                        /\ s.num \in {r.num, r.num + Shift(op.u), -(r.num + Shift(op.u))}
    OBVIOUS
  <2>1. op.at # "none"
    BY OpFacts
  <2> QED BY <2>1, Kept, EndKeepsRows
<1> QED BY <1>1, InitType, StepType, InitTable, StepTable, PTL DEF Spec, OthersAreKept

-----------------------------------------------------------------------------
(* What a poll leaves.                                                         *)

\* a window that has been read of the buffer as it is
Reads(u) == u.hi <= Len(text) /\ u.lines = SubSeq(text, u.lo + 1, u.hi)

PollInv ==
  /\ op.by = "poll" => poll.at = "idle"
  /\ fresh /\ poll.at \in {"reading", "ready"} => poll.count = Len(text) /\ poll.u.hi <= Len(text)
  /\ fresh /\ poll.at = "ready" => Reads(poll.u)
  /\ fresh /\ op.by = "poll" =>
       /\ op.count = Len(text)
       /\ Reads(op.u)
       /\ op.at # "vacuum" => \A r \in op.before : r.num < Len(text)

HeldInv ==
  /\ held # {} => op = NoOp
  /\ PollRepairs

LEMMA InitPoll == Init => PollInv /\ HeldInv
  BY DEF Init, PollInv, HeldInv, PollRepairs, NoOp, NoPoll

LEMMA AtFields ==
  ASSUME TypeInv, NEW next, op' = [op EXCEPT !.at = next]
  PROVE  /\ op'.at = next /\ op'.by = op.by /\ op'.u = op.u /\ op'.count = op.count
         /\ op'.before = op.before
  BY DEF TypeInv, OpType, Ops

(* A statement of set_lines that only moves on.                                *)
LEMMA MovesOnPoll ==
  ASSUME TypeInv, PollInv, UNCHANGED <<text, poll, fresh>>, op.at # "vacuum",
         \/ op' = NoOp
         \/ /\ op'.at # "vacuum" /\ op'.by = op.by /\ op'.u = op.u /\ op'.count = op.count
            /\ op'.before = op.before
  PROVE  PollInv'
<1>1. CASE op' = NoOp
  <2>1. op'.by # "poll"
    BY <1>1 DEF NoOp
  <2> QED BY <2>1 DEF PollInv, Reads
<1>2. CASE op'.at # "vacuum" /\ op'.by = op.by /\ op'.u = op.u /\ op'.count = op.count
           /\ op'.before = op.before
  BY <1>2 DEF PollInv, Reads
<1> QED BY <1>1, <1>2

LEMMA ExecutePoll ==
  ASSUME TypeInv, NEW f, NEW next \in {"shift_2", "insert"}, Execute(f, next)
  PROVE  \/ op' = NoOp
         \/ /\ op'.at # "vacuum" /\ op'.by = op.by /\ op'.u = op.u /\ op'.count = op.count
            /\ op'.before = op.before
<1>1. CASE Clash(f)
  BY <1>1 DEF Execute, Over
<1>2. CASE ~Clash(f)
  BY <1>2, AtFields DEF Execute
<1> QED BY <1>1, <1>2

LEMMA AbortPoll ==
  ASSUME TypeInv, PollInv, Abort \/ UNCHANGED <<op, torn, fresh, held>>, UNCHANGED <<text, poll>>
  PROVE  PollInv'
<1>1. CASE Abort
  <2>1. fresh' = (fresh /\ op.by # "poll") /\ fresh \in BOOLEAN
    BY <1>1 DEF Abort, TypeInv
  <2>2. op'.by = "poll" => op.by = "poll"
    <3>1. CASE op.at = "vacuum"
      BY <1>1, <3>1, AtFields DEF Abort
    <3>2. CASE op.at # "vacuum"
      BY <1>1, <3>2 DEF Abort, Over, NoOp
    <3> QED BY <3>1, <3>2
  <2> QED BY <2>1, <2>2 DEF PollInv, Reads
<1>2. CASE UNCHANGED <<op, torn, fresh, held>>
  BY <1>2 DEF PollInv, Reads
<1> QED BY <1>1, <1>2

LEMMA StepPoll == TypeInv /\ PollInv /\ [Next]_vars => PollInv'
<1> SUFFICES ASSUME TypeInv, PollInv, [Next]_vars PROVE PollInv'
  OBVIOUS
<1>1. ASSUME NEW u \in Inputs, Edit(u) PROVE PollInv'
  <2>1. fresh' = FALSE /\ UNCHANGED <<poll, op>>
    BY <1>1, Zenon DEF Edit
  <2> QED BY <2>1 DEF PollInv
<1>2. CASE Vacuum
  <2>1. /\ op.at = "vacuum" /\ rows' = {r \in rows : r.num < op.count}
        /\ UNCHANGED <<text, poll, fresh>>
    BY <1>2 DEF Vacuum, outside
  <2>2. op'.by = op.by /\ op'.u = op.u /\ op'.count = op.count /\ op'.before = rows'
    BY <1>2 DEF Vacuum, TypeInv, OpType, Ops
  <2>3. \A r \in rows' : r.num < op.count
    BY <2>1
  <2> QED BY <2>1, <2>2, <2>3 DEF PollInv, Reads
<1>3. CASE Delete
  BY <1>3, AtFields, MovesOnPoll DEF Delete, outside
<1>4. CASE LinesShift1
  <2>1. Execute([r \in rows |-> Negated(op.u, r)], "shift_2")
    BY <1>4 DEF LinesShift1
  <2>2. \/ op' = NoOp
        \/ /\ op'.at # "vacuum" /\ op'.by = op.by /\ op'.u = op.u /\ op'.count = op.count
           /\ op'.before = op.before
    BY <2>1, ExecutePoll
  <2> QED BY <1>4, <2>2, MovesOnPoll DEF LinesShift1, outside
<1>5. CASE LinesShift2
  <2>1. Execute([r \in rows |-> Restored(r)], "insert")
    BY <1>5 DEF LinesShift2
  <2>2. \/ op' = NoOp
        \/ /\ op'.at # "vacuum" /\ op'.by = op.by /\ op'.u = op.u /\ op'.count = op.count
           /\ op'.before = op.before
    BY <2>1, ExecutePoll
  <2> QED BY <1>5, <2>2, MovesOnPoll DEF LinesShift2, outside
<1>6. ASSUME NEW i \in 1 .. MaxLen, InsertLine(i) PROVE PollInv'
  <2>1. op.at = "insert" /\ UNCHANGED <<text, poll, fresh>>
    BY <1>6 DEF InsertLine, outside
  <2>2. op' = NoOp \/ op' = [op EXCEPT !.left = op.left \ {i}]
    BY <1>6 DEF InsertLine, Over
  <2>3. CASE op' = [op EXCEPT !.left = op.left \ {i}]
    <3>1. /\ op'.at = "insert" /\ op'.by = op.by /\ op'.u = op.u /\ op'.count = op.count
          /\ op'.before = op.before
      BY <2>1, <2>3 DEF TypeInv, OpType, Ops
    <3> QED BY <2>1, <3>1, MovesOnPoll
  <2>4. CASE op' = NoOp
    BY <2>1, <2>4, MovesOnPoll
  <2> QED BY <2>2, <2>3, <2>4
<1>7. CASE InsertWords
  BY <1>7, AtFields, MovesOnPoll DEF InsertWords, outside
<1>8. CASE EnsureLine
  <2>1. /\ op'.by = "work" /\ fresh' = (fresh /\ op.by # "poll") /\ fresh \in BOOLEAN
        /\ UNCHANGED <<text, poll>>
    BY <1>8 DEF EnsureLine, Over, NoOp, outside, TypeInv
  <2> QED BY <2>1 DEF PollInv, Reads
<1>9. CASE Interrupt
  BY <1>9, AbortPoll DEF Interrupt, Interrupted
<1>10. CASE LinesEvent
  BY <1>10, AbortPoll DEF LinesEvent, Interrupted
<1>11. CASE Cancelled
  BY <1>11 DEF Cancelled, PollInv, Reads
<1>12. CASE Work
  <2>1. op'.by = "work" /\ UNCHANGED <<text, poll, fresh>>
    BY <1>12 DEF Work, Start
  <2> QED BY <2>1 DEF PollInv, Reads
<1>13. CASE Idle
  <2>1. /\ op.by # "poll" /\ poll.at = "idle" /\ poll' = [poll EXCEPT !.at = "counting"]
        /\ UNCHANGED <<text, op, fresh>>
    BY <1>13 DEF Idle
  <2>2. poll'.at = "counting"
    BY <2>1 DEF TypeInv, PollType
  <2> QED BY <2>1, <2>2 DEF PollInv
<1>14. CASE InfoLines
  <2>1. poll.at = "reading" /\ op.by # "poll" /\ UNCHANGED <<text, op, fresh>>
    BY <1>14 DEF InfoLines, PollInv
  <2>2. CASE poll.u.hi <= Len(text)
    <3> DEFINE ls == SubSeq(text, poll.u.lo + 1, poll.u.hi)
    <3>1. poll' = [at |-> "ready", count |-> poll.count, u |-> [poll.u EXCEPT !.lines = ls]]
      BY <1>14, <2>2 DEF InfoLines
    <3> HIDE DEF ls
    <3>2. poll'.count = poll.count /\ poll'.u = [poll.u EXCEPT !.lines = ls]
      BY <3>1
    <3>3. poll'.u.lo = poll.u.lo /\ poll'.u.hi = poll.u.hi /\ poll'.u.lines = ls
      BY <3>2 DEF TypeInv, PollType, GoodUpdates, Updates
    <3> QED BY <2>1, <2>2, <3>2, <3>3 DEF PollInv, Reads, ls
  <2>3. CASE ~(poll.u.hi <= Len(text))
    <3>1. poll'.at = "idle"
      BY <1>14, <2>3 DEF InfoLines, NoPoll
    <3> QED BY <2>1, <3>1 DEF PollInv
  <2> QED BY <2>2, <2>3
<1>15. CASE PollSets
  <2>1. /\ poll.at = "ready" /\ poll'.at = "idle" /\ UNCHANGED <<text, fresh>>
        /\ op'.by = "poll" /\ op'.at = "vacuum" /\ op'.u = poll.u /\ op'.count = poll.count
    BY <1>15 DEF PollSets, Start, NoPoll
  <2> QED BY <2>1 DEF PollInv, Reads
<1>16. CASE PollStopped
  <2>1. poll'.at = "idle" /\ UNCHANGED <<text, fresh, op>>
    BY <1>16 DEF PollStopped, NoPoll
  <2> QED BY <2>1 DEF PollInv, Reads
<1>17. ASSUME NEW row \in 0 .. MaxLen - 1, BufEnter(row) PROVE PollInv'
  <2>1. op'.by = "enter" /\ UNCHANGED <<text, poll, fresh>>
    BY <1>17 DEF BufEnter, Start, outside
  <2> QED BY <2>1 DEF PollInv, Reads
<1>18. ASSUME NEW row \in 0 .. MaxLen - 1, InfoCount(row) PROVE PollInv'
  <2>1. row \in Nat /\ row < Len(text) /\ text \in Seq(Lines)
    BY <1>18, BufferAssumption DEF InfoCount, TypeInv
  <2>2. Window(Len(text), row).hi <= Len(text)
    BY <2>1, WindowType
  <2>3. /\ poll.at = "counting" /\ poll'.at = "reading" /\ poll'.count = Len(text)
        /\ poll'.u = Window(Len(text), row) /\ UNCHANGED <<text, op>>
    BY <1>18 DEF InfoCount
  <2> QED BY <2>2, <2>3 DEF PollInv
<1>19. CASE UNCHANGED vars
  BY <1>19 DEF vars, PollInv, Reads
<1> QED BY <1>1, <1>2, <1>3, <1>4, <1>5, <1>6, <1>7, <1>8, <1>9, <1>10, <1>11, <1>12, <1>13,
           <1>14, <1>15, <1>16, <1>17, <1>18, <1>19 DEF Next, Statement

LEMMA Offset ==
  ASSUME NEW a \in Nat, NEW b \in Nat, NEW n \in a .. b - 1
  PROVE  /\ n \in Int /\ n - a + 1 \in 1 .. b - a
         /\ a + (n - a + 1) - 1 = n
         /\ (a + 1) + (n - a + 1) - 1 = n + 1
         /\ n - a + 1 \in 1 .. b - (a + 1) + 1
  OBVIOUS

(* A window that is read of the buffer as it is moves no line, and puts every line where
   the buffer has it.                                                           *)
LEMMA ReadWindow ==
  ASSUME TypeInv, NEW u \in GoodUpdates, Reads(u)
  PROVE  /\ Shift(u) = 0
         /\ \A n \in u.lo .. u.hi - 1 : Row(n, text[n + 1]) \in Put(u, DOMAIN u.lines)
<1>1. /\ u.lo \in Nat /\ u.hi \in Nat /\ u.lo <= u.hi /\ Len(u.lines) \in Nat
      /\ u.lines \in Seq(Lines)
      /\ Shift(u) = Len(u.lines) - (u.hi - u.lo)
  BY UpdateType
<1>2. u.hi <= Len(text) /\ u.lines = SubSeq(text, u.lo + 1, u.hi) /\ Len(text) \in Nat
      /\ text \in Seq(Lines)
  BY DEF Reads, TypeInv
<1> DEFINE lo == u.lo + 1
           hi == u.hi
           ls == SubSeq(text, lo, hi)
<1>3. lo \in Int /\ hi \in Int /\ \A i \in lo .. hi : text[i] \in Lines
  BY <1>1, <1>2
<1>4. /\ Len(ls) = IF lo <= hi THEN hi - lo + 1 ELSE 0
      /\ \A i \in 1 .. hi - lo + 1 : ls[i] = text[lo + i - 1]
  <2> HIDE DEF lo, hi
  <2> QED BY <1>3, SubSeqProperties
<1>5. Len(u.lines) = u.hi - u.lo
  BY <1>1, <1>2, <1>4
<1>6. Shift(u) = 0
  BY <1>1, <1>5
<1>7. ASSUME NEW n \in u.lo .. u.hi - 1
      PROVE  Row(n, text[n + 1]) \in Put(u, DOMAIN u.lines)
  <2> DEFINE i == n - u.lo + 1
  <2>1. i \in 1 .. u.hi - u.lo /\ n \in Int /\ u.lo + i - 1 = n /\ lo + i - 1 = n + 1
        /\ i \in 1 .. hi - lo + 1
    BY <1>1, Offset
  <2>2. i \in DOMAIN u.lines
    BY <1>1, <1>5, <2>1
  <2>3. u.lines[i] = text[n + 1]
    <3>1. ls[i] = text[lo + i - 1]
      BY <1>4, <2>1
    <3> QED BY <1>2, <2>1, <3>1
  <2> HIDE DEF i
  <2> QED BY <2>1, <2>2, <2>3 DEF Put
<1> QED BY <1>6, <1>7

(* The last statement of a poll that has read the buffer as it is.              *)
LEMMA PollEnds ==
  ASSUME TypeInv, TableInv, PollInv, EnsureLine, held' # {}, ~torn
  PROVE  /\ \A n \in held' : Row(n, text[n + 1]) \in rows'
         /\ \A r, s \in rows' : r.num = s.num => r = s
         /\ \A r \in rows' : r.num \in 0 .. Len(text) - 1
<1>1. op.at = "count" /\ op.by = "poll" /\ fresh /\ held' = op.u.lo .. op.u.hi - 1
  BY DEF EnsureLine
<1>2. /\ Reads(op.u) /\ \A r \in op.before : r.num < Len(text)
  BY <1>1 DEF PollInv
<1>3. /\ op.u \in GoodUpdates /\ op.before \in SUBSET AllRows /\ Sane(op.before)
      /\ rows \in SUBSET AllRows
  BY OpFacts DEF TableInv
<1>4. Shift(op.u) = 0
      /\ \A n \in held' : Row(n, text[n + 1]) \in Put(op.u, DOMAIN op.u.lines)
  BY <1>1, <1>2, <1>3, ReadWindow
<1>5. rows = Table(op.before, op.u, DOMAIN op.u.lines)
  <2>1. rows = Table(op.before, op.u, Done(op)) /\ op.left = {}
    BY <1>1 DEF TableInv
  <2>2. Done(op) = DOMAIN op.u.lines
    BY <2>1, Zenon DEF Done
  <2> QED BY <2>1, <2>2
<1>6. \A n \in held' : Row(n, text[n + 1]) \in rows
  BY <1>4, <1>5 DEF Table
<1>7. /\ op.u.lo \in Nat /\ op.u.hi \in Nat /\ op.u.lo <= op.u.hi /\ Len(op.u.lines) \in Nat
      /\ Shift(op.u) = Len(op.u.lines) - (op.u.hi - op.u.lo)
      /\ op.u.hi <= Len(text) /\ Len(text) \in Nat
  <2>1. text \in Seq(Lines) /\ op.u.hi <= Len(text)
    BY <1>2 DEF Reads, TypeInv
  <2>2. Len(text) \in Nat
    BY <2>1
  <2>3. /\ op.u.lo \in Nat /\ op.u.hi \in Nat /\ op.u.lo <= op.u.hi /\ Len(op.u.lines) \in Nat
        /\ Shift(op.u) = Len(op.u.lines) - (op.u.hi - op.u.lo)
    BY <1>3, UpdateType
  <2> QED BY <2>1, <2>2, <2>3
<1>8. Sane(rows)
  BY <1>1, BetweenSane
<1>9. ~NoLines
  <2>1. PICK n \in held' : TRUE
    OBVIOUS
  <2>2. Row(n, text[n + 1]) \in rows /\ Row(n, text[n + 1]).num = n /\ n \in Nat
    BY <1>1, <1>6, <1>7 DEF Row
  <2> QED BY <2>2 DEF NoLines
<1>10. rows' = rows
  BY <1>9 DEF EnsureLine
<1>11. ASSUME NEW r \in rows PROVE r.num \in 0 .. Len(text) - 1
  <2>1. r \in AllRows /\ r.num \in Int /\ r.num >= 0
    BY <1>3, <1>8 DEF Sane, AllRows
  <2>2. CASE r \in Above(op.before, op.u)
    <3>1. r.num < Len(text)
      BY <1>2, <2>2 DEF Above
    <3> QED BY <1>7, <2>1, <3>1
  <2>3. CASE r \in Moved(op.before, op.u)
    <3>1. PICK s \in op.before : s.num >= op.u.hi /\ r = [s EXCEPT !.num = @ + Shift(op.u)]
      BY <2>3 DEF Moved
    <3>2. r.num = s.num + Shift(op.u) /\ s.num \in Nat /\ s.num < Len(text)
      BY <1>2, <1>3, <3>1, MovedType
    <3> QED BY <1>4, <1>7, <3>2
  <2>4. CASE r \in Put(op.u, DOMAIN op.u.lines)
    <3>1. PICK i \in DOMAIN op.u.lines : r = Row(op.u.lo + i - 1, op.u.lines[i])
      BY <2>4 DEF Put
    <3>2. r.num = op.u.lo + i - 1 /\ i \in Nat /\ i <= Len(op.u.lines)
      BY <1>3, <3>1, PutType
    <3> QED BY <1>4, <1>7, <2>1, <3>2
  <2> QED BY <1>5, <2>2, <2>3, <2>4 DEF Table
<1> QED BY <1>6, <1>8, <1>10, <1>11 DEF Sane, Unique

LEMMA HeldAlone ==
  ASSUME HeldInv, op # NoOp, held' = held
  PROVE  HeldInv'
  BY DEF HeldInv, PollRepairs

LEMMA NothingHeld ==
  ASSUME held' = {}
  PROVE  HeldInv'
  BY DEF HeldInv, PollRepairs

LEMMA SameHeld ==
  ASSUME HeldInv, UNCHANGED <<text, rows, op, held>>, UNCHANGED torn
  PROVE  HeldInv'
  BY DEF HeldInv, PollRepairs

LEMMA AbortHeld ==
  ASSUME HeldInv, Abort \/ UNCHANGED <<op, torn, fresh, held>>, UNCHANGED <<text, rows>>
  PROVE  HeldInv'
<1>1. CASE Abort
  BY <1>1, HeldAlone DEF Abort
<1>2. CASE UNCHANGED <<op, torn, fresh, held>>
  BY <1>2, SameHeld
<1> QED BY <1>1, <1>2

LEMMA StepHeld == TypeInv /\ TableInv /\ PollInv /\ HeldInv /\ [Next]_vars => HeldInv'
<1> SUFFICES ASSUME TypeInv, TableInv, PollInv, HeldInv, [Next]_vars PROVE HeldInv'
  OBVIOUS
<1>1. NoOp.at = "none"
  BY DEF NoOp
<1>2. ASSUME NEW u \in Inputs, Edit(u) PROVE HeldInv'
  BY <1>2, NothingHeld DEF Edit
<1>3. CASE Vacuum \/ Delete \/ LinesShift1 \/ LinesShift2 \/ InsertWords
  <2>1. op # NoOp /\ held' = held
    BY <1>1, <1>3 DEF Vacuum, Delete, LinesShift1, LinesShift2, InsertWords
  <2> QED BY <2>1, HeldAlone
<1>4. ASSUME NEW i \in 1 .. MaxLen, InsertLine(i) PROVE HeldInv'
  <2>1. op # NoOp /\ held' = held
    BY <1>1, <1>4 DEF InsertLine
  <2> QED BY <2>1, HeldAlone
<1>5. CASE EnsureLine
  <2>1. op' = NoOp /\ text' = text /\ torn' = torn
    BY <1>5 DEF EnsureLine, Over, outside
  <2>2. CASE held' = {}
    BY <2>2, NothingHeld
  <2>3. CASE held' # {}
    BY <1>5, <2>1, <2>3, PollEnds DEF HeldInv, PollRepairs
  <2> QED BY <2>2, <2>3
<1>6. CASE Interrupt
  BY <1>6, AbortHeld DEF Interrupt, Interrupted
<1>7. CASE LinesEvent
  BY <1>7, AbortHeld DEF LinesEvent, Interrupted
<1>8. CASE Work \/ PollSets
  BY <1>8, NothingHeld DEF Work, PollSets
<1>9. CASE Cancelled \/ Idle \/ InfoLines \/ PollStopped
  <2>1. UNCHANGED <<text, rows, op, held>> /\ UNCHANGED torn
    BY <1>9 DEF Cancelled, Idle, InfoLines, PollStopped
  <2> QED BY <2>1, SameHeld
<1>10. ASSUME NEW row \in 0 .. MaxLen - 1, BufEnter(row) PROVE HeldInv'
  BY <1>10, NothingHeld DEF BufEnter
<1>11. ASSUME NEW row \in 0 .. MaxLen - 1, InfoCount(row) PROVE HeldInv'
  BY <1>11, SameHeld DEF InfoCount
<1>12. CASE UNCHANGED vars
  BY <1>12, SameHeld DEF vars
<1> QED BY <1>2, <1>3, <1>4, <1>5, <1>6, <1>7, <1>8, <1>9, <1>10, <1>11, <1>12 DEF Next, Statement

(* A poll that reads the buffer while it does not change brings the window and the end of
   the table to what they are in nvim, whatever has gone wrong before.          *)
THEOREM PollsRepair == Spec => []PollRepairs
<1>1. HeldInv => PollRepairs
  BY DEF HeldInv
<1> QED BY <1>1, InitType, StepType, InitTable, StepTable, InitPoll, StepPoll, StepHeld, PTL DEF Spec
===============================================================================
