--------------------------------- MODULE Fuzzy ---------------------------------
(***************************************************************************)
(* coq/shared/fuzzy.py: how alike two words are.  quick_ratio filters what     *)
(* the databases select; metrics, with dl_distance, ranks what the sources     *)
(* offer, each source on the thread of its worker (reviewer.py:115, called by   *)
(* runtime.py:268).                                                           *)
(*                                                                         *)
(* The table d is of the call: _ARRAY_CACHE is never filled.  _DA is one for     *)
(* all threads, which can be switched between any two accesses to it.          *)
(***************************************************************************)
EXTENDS Integers, Sequences, FiniteSets, SequencesExt

CONSTANTS
  FzThreads,    \* threads of workers
  FzCalls,      \* what metrics is called with: what is typed, and what is offered
  FzLookAhead,  \* match.look_ahead
  MaxFzCalls    \* bound: calls of a thread

IsWord(word) == word \in Seq(ToSet(word))

ASSUME FzAssumption ==
  /\ IsFiniteSet(FzThreads) /\ FzLookAhead \in Nat /\ MaxFzCalls \in Nat
  /\ \A call \in FzCalls : IsWord(call.cword) /\ IsWord(call.match)

VARIABLES
  fzCall,   \* metrics and dl_distance of each thread
  fzCount,  \* calls of each thread
  fzDA      \* _DA: the row in which a character was last seen

fzVars == <<fzCall, fzCount, fzDA>>

NoCall == [at |-> "idle", cword |-> <<>>, match |-> <<>>, i |-> 0, j |-> 0, db |-> 0, d |-> <<>>, dist |-> 0]

FzTypeOK ==
  \A t \in FzThreads :
    /\ fzCount[t] \in 0 .. MaxFzCalls
    /\ fzCall[t].at \in {"idle", "table", "done", "raised"}

FzInit == fzCall = [t \in FzThreads |-> NoCall] /\ fzCount = [t \in FzThreads |-> 0] /\ fzDA = <<>>

-----------------------------------------------------------------------------
(* The filter.                                                                *)

Shorter(lhs, rhs) == Min({Len(lhs), Len(rhs)})
Longer(lhs, rhs) == Max({Len(lhs), Len(rhs)})

\* _p_matches
Matches(lhs, rhs) ==
  CHOOSE p \in 0 .. Shorter(lhs, rhs) :
    /\ \A k \in 1 .. p : lhs[k] = rhs[k]
    /\ p < Shorter(lhs, rhs) => lhs[p + 1] # rhs[p + 1]

\* the sum of the difference of two counters
Difference(lhs, rhs) ==
  LET Count(word, c) == Cardinality({k \in DOMAIN word : word[k] = c})
      Add(sum, c) == sum + Max({0, Count(lhs, c) - Count(rhs, c)})
  IN  FoldSet(LAMBDA c, sum : Add(sum, c), 0, ToSet(lhs))

\* multi_set_ratio, as a fraction
MultiSetRatio(lhs, rhs) ==
  LET cutoff == Shorter(lhs, rhs) + FzLookAhead
      l == SubSeq(lhs, 1, Min({cutoff, Len(lhs)}))
      r == SubSeq(rhs, 1, Min({cutoff, Len(rhs)}))
      dif == IF Len(l) > Len(r) THEN Difference(l, r) ELSE Difference(r, l)
  IN  IF Shorter(lhs, rhs) = 0 THEN [num |-> 1, den |-> 1]
      ELSE [num |-> Longer(l, r) - dif, den |-> Shorter(lhs, rhs)]

\* quick_ratio: the prefix counts in full, what is behind it half
QuickRatio(lhs, rhs) ==
  LET shorter == Shorter(lhs, rhs)
      p == Matches(lhs, rhs)
      rest == MultiSetRatio(SubSeq(lhs, p + 1, Len(lhs)), SubSeq(rhs, p + 1, Len(rhs)))
  IN  IF shorter = 0 THEN [num |-> 1, den |-> 1]
      ELSE [num |-> 2 * p * rest.den + rest.num * (shorter - p), den |-> 2 * shorter * rest.den]

-----------------------------------------------------------------------------
(* metrics and dl_distance.                                                   *)

Cutoff(call) == Min({Longer(call.cword, call.match), Shorter(call.cword, call.match) + FzLookAhead})

\* Mutant: what has been cut off counts as well
MoreUncut(call) == Longer(call.cword, call.match) - Shorter(call.cword, call.match)

More(call) == Cutoff(call) - Shorter(call.cword, call.match)

\* the words behind their common prefix, as far as they are looked at
Tail1(call, word) == SubSeq(word, Matches(call.cword, call.match) + 1, Min({Cutoff(call), Len(word)}))
Lhs(call) == Tail1(call, call.cword)
Rhs(call) == Tail1(call, call.match)

\* the table before its first row, with a row and a column of what is never the least
Table(lhs, rhs) ==
  [cell \in (0 .. Len(lhs) + 1) \X (0 .. Len(rhs) + 1) |->
     IF cell[1] = 0 \/ cell[2] = 0 THEN Len(lhs) + Len(rhs)
     ELSE IF cell[2] = 1 THEN cell[1] - 1
     ELSE IF cell[1] = 1 THEN cell[2] - 1
     ELSE 0]

\* Mutant: the rows are those of the call before
FzBeginStale(t, call) ==
  /\ fzCall[t].at # "table" /\ fzCount[t] < MaxFzCalls
  /\ fzCount' = [fzCount EXCEPT ![t] = @ + 1]
  /\ LET new == [NoCall EXCEPT !.cword = call.cword, !.match = call.match] IN
       IF Shorter(call.cword, call.match) = 0
       THEN fzCall' = [fzCall EXCEPT ![t] = [new EXCEPT !.at = "done"]] /\ UNCHANGED fzDA
       ELSE /\ fzCall' = [fzCall EXCEPT ![t] =
                 [new EXCEPT !.at = "table", !.i = 1, !.j = 1, !.d = Table(Lhs(new), Rhs(new))]]
            /\ UNCHANGED fzDA

FzBegin(t, call) ==
  /\ fzCall[t].at # "table" /\ fzCount[t] < MaxFzCalls
  /\ fzCount' = [fzCount EXCEPT ![t] = @ + 1]
  /\ LET new == [NoCall EXCEPT !.cword = call.cword, !.match = call.match] IN
       IF Shorter(call.cword, call.match) = 0
       THEN fzCall' = [fzCall EXCEPT ![t] = [new EXCEPT !.at = "done"]] /\ UNCHANGED fzDA
       ELSE /\ fzCall' = [fzCall EXCEPT ![t] =
                 [new EXCEPT !.at = "table", !.i = 1, !.j = 1, !.d = Table(Lhs(new), Rhs(new))]]
            /\ fzDA' = <<>>

InRows(call) == call.at = "table" /\ call.i <= Len(Lhs(call))

\* one cell of the table: a change, an insertion, a deletion, or a swap of what is apart; a row of
\* another thread can be outside of it, which is an IndexError
FzCell(t) ==
  /\ InRows(fzCall[t]) /\ fzCall[t].j <= Len(Rhs(fzCall[t]))
  /\ LET c == fzCall[t]
         lhs == Lhs(c)
         rhs == Rhs(c)
         i1 == IF rhs[c.j] \in DOMAIN fzDA THEN fzDA[rhs[c.j]] ELSE 0
         same == lhs[c.i] = rhs[c.j]
         least == Min({c.d[<<c.i, c.j>>] + (IF same THEN 0 ELSE 1),
                       c.d[<<c.i + 1, c.j>>] + 1,
                       c.d[<<c.i, c.j + 1>>] + 1,
                       c.d[<<i1, c.db>>] + (c.i - i1 - 1) + 1 + (c.j - c.db - 1)})
     IN  fzCall' = [fzCall EXCEPT ![t] =
           IF i1 > Len(lhs) + 1 THEN [c EXCEPT !.at = "raised"]
           ELSE [c EXCEPT !.d[<<c.i + 1, c.j + 1>>] = least, !.j = @ + 1, !.db = IF same THEN c.j ELSE @]]
  /\ UNCHANGED <<fzCount, fzDA>>

FzRow(t) ==
  /\ InRows(fzCall[t]) /\ fzCall[t].j > Len(Rhs(fzCall[t]))
  /\ LET c == fzCall[t]
         seen == Lhs(c)[c.i]
     IN  /\ fzDA' = [char \in DOMAIN fzDA \union {seen} |-> IF char = seen THEN c.i ELSE fzDA[char]]
         /\ fzCall' = [fzCall EXCEPT ![t] = [c EXCEPT !.i = @ + 1, !.j = 1, !.db = 0]]
  /\ UNCHANGED fzCount

FzReturn(t) ==
  /\ fzCall[t].at = "table" /\ ~InRows(fzCall[t])
  /\ LET c == fzCall[t] IN
       fzCall' = [fzCall EXCEPT ![t] = [c EXCEPT !.at = "done", !.dist = c.d[<<Len(Lhs(c)) + 1, Len(Rhs(c)) + 1>>]]]
  /\ UNCHANGED <<fzCount, fzDA>>

FzThread(t) == FzCell(t) \/ FzRow(t) \/ FzReturn(t) \/ \E call \in FzCalls : FzBegin(t, call)

FzNext == \E t \in FzThreads : FzThread(t)

FzSpec == FzInit /\ [][FzNext]_fzVars

-----------------------------------------------------------------------------

\* pairs of characters of which one is swapped with the other: they are those at i and j the other way round
Swaps(lhs, rhs, i, j) == {p \in (1 .. i - 1) \X (1 .. j - 1) : lhs[p[1]] = rhs[j] /\ lhs[i] = rhs[p[2]]}

\* what the first i and the first j characters are apart, if D is that of fewer
Apart(D, lhs, rhs, i, j) ==
  IF i = 0 THEN j
  ELSE IF j = 0 THEN i
  ELSE Min({D[<<i - 1, j>>] + 1, D[<<i, j - 1>>] + 1, D[<<i - 1, j - 1>>] + (IF lhs[i] = rhs[j] THEN 0 ELSE 1)}
             \union {D[<<p[1] - 1, p[2] - 1>>] + (i - p[1]) + (j - p[2]) - 1 : p \in Swaps(lhs, rhs, i, j)})

Distances(lhs, rhs) ==
  LET D[cell \in (0 .. Len(lhs)) \X (0 .. Len(rhs))] == Apart(D, lhs, rhs, cell[1], cell[2]) IN D

\* The reference: the least number of changes, insertions, deletions and swaps, where two
\* characters that are swapped may be any that have been apart by what is deleted and inserted.
Distance(lhs, rhs) == Distances(lhs, rhs)[<<Len(lhs), Len(rhs)>>]

\* the short one is the long one with some letters left out
Subsequence(short, long) ==
  \E place \in [1 .. Len(short) -> 1 .. Len(long)] :
    /\ \A k \in 1 .. Len(short) : short[k] = long[place[k]]
    /\ \A k, m \in 1 .. Len(short) : k < m => place[k] < place[m]

Returned(t) == fzCall[t].at = "done" /\ Shorter(fzCall[t].cword, fzCall[t].match) > 0

\* The distance is that of the two words, whatever has been compared before, or is being compared
\* on other threads (fuzzy.py:75, :93, :108; tests/shared/fuzzy.py:88).
DistanceIsRight ==
  \A t \in FzThreads :
    /\ fzCall[t].at # "raised"
    /\ Returned(t) => fzCall[t].dist = Distance(Lhs(fzCall[t]), Rhs(fzCall[t]))

\* edit_distance, which is 1 - (dist - more) / shorter, is at least the share of the common prefix, so that
\* a weight is never negative: whatever row another thread has put into _DA (fuzzy.py:122-129, trans.py:20).
EditIsNotNegative ==
  \A t \in FzThreads : Returned(t) =>
    LET c == fzCall[t] IN c.dist - More(c) <= Shorter(c.cword, c.match) - Matches(c.cword, c.match)

\* It is at most 1, and 1 just if the shorter word is the longer one with some letters left out, as far as they
\* are looked at.
EditIsAtMostOne ==
  \A t \in FzThreads : Returned(t) =>
    LET c == fzCall[t]
        lhs == Lhs(c)
        rhs == Rhs(c)
    IN  /\ More(c) <= c.dist
        /\ c.dist = More(c) <=> IF Len(lhs) < Len(rhs) THEN Subsequence(lhs, rhs) ELSE Subsequence(rhs, lhs)

\* The similarity that the databases filter by is between 0 and 1, the same either way, and 1 just if
\* one word begins with the other (docs/FUZZY.md:15, fuzzy.py:44).
SimilarityIsNormalised ==
  \A t \in FzThreads : fzCall[t].at # "idle" =>
    LET cword == fzCall[t].cword
        match == fzCall[t].match
        ratio == QuickRatio(cword, match)
        back == QuickRatio(match, cword)
    IN  /\ 0 <= ratio.num /\ ratio.num <= ratio.den
        /\ ratio.num * back.den = back.num * ratio.den
        /\ ratio.num = ratio.den <=> Matches(cword, match) = Shorter(cword, match)

\* What the ranking takes from the distance and what the filter takes from the letters are ratios.
RatiosAreNormalised == EditIsNotNegative /\ EditIsAtMostOne /\ SimilarityIsNormalised

=============================================================================
