---------------------------- MODULE WindowsProofs ----------------------------
(***************************************************************************)
(* Proofs about Windows, for every schedule, frame and materialization.    *)
(***************************************************************************)
EXTENDS Windows, WellFoundedInduction, FiniteSetTheorems, TLAPS

-----------------------------------------------------------------------------
(* Arithmetic of the grid                                                  *)

(* No remainder means a multiple.                                          *)
LEMMA ModMeans ==
  ASSUME NEW m \in Nat \ {0}, NEW x \in Int
  PROVE  x % m = 0 <=> \E k \in Int : x = m * k
<1>1. ASSUME x % m = 0 PROVE \E k \in Int : x = m * k
  <2>1. x = m * (x \div m) /\ x \div m \in Int
    BY <1>1
  <2> QED
    BY <2>1
<1>2. ASSUME NEW k \in Int, x = m * k PROVE x % m = 0
  BY <1>2
<1> QED
  BY <1>1, <1>2

(* Multiples add up.                                                       *)
LEMMA ModAdd ==
  ASSUME NEW m \in Nat \ {0}, NEW x \in Int, NEW y \in Int, x % m = 0, y % m = 0
  PROVE  (x + y) % m = 0
<1>1. PICK j \in Int : x = m * j
  BY ModMeans
<1>2. PICK k \in Int : y = m * k
  BY ModMeans
<1>3. x + y = m * (j + k) /\ j + k \in Int
  BY <1>1, <1>2
<1> QED
  BY <1>3, ModMeans

(* The opposite of a multiple is one.                                      *)
LEMMA ModNegate ==
  ASSUME NEW m \in Nat \ {0}, NEW x \in Int, x % m = 0
  PROVE  (0 - x) % m = 0
<1>1. PICK j \in Int : x = m * j
  BY ModMeans
<1> DEFINE y == 0 - x
<1>2. y = m * (0 - j) /\ 0 - j \in Int /\ y \in Int
  BY <1>1
<1> HIDE DEF y
<1>3. y % m = 0
  BY <1>2, ModMeans
<1> QED
  BY <1>3 DEF y

(* A number less its remainder is a multiple.                              *)
LEMMA ModRemainder ==
  ASSUME NEW m \in Nat \ {0}, NEW x \in Int
  PROVE  (x - (x % m)) % m = 0 /\ (x % m) \in 0 .. m - 1
<1>1. x = m * (x \div m) + (x % m) /\ x \div m \in Int /\ (x % m) \in 0 .. m - 1
  OBVIOUS
<1>2. x - (x % m) = m * (x \div m)
  BY <1>1
<1> QED
  BY <1>1, <1>2, ModMeans

(* Multiples of a multiple are multiples.                                  *)
LEMMA ModDivides ==
  ASSUME NEW d \in Nat \ {0}, NEW m \in Nat \ {0}, NEW x \in Int, m % d = 0, x % m = 0
  PROVE  x % d = 0
<1>1. PICK j \in Int : x = m * j
  BY ModMeans
<1>2. PICK k \in Int : m = d * k
  BY ModMeans
<1>3. x = d * (k * j) /\ k * j \in Int
  BY <1>1, <1>2
<1> QED
  BY <1>3, ModMeans

(* Two numbers a multiple away from a third are a multiple apart.          *)
LEMMA ModChain ==
  ASSUME NEW m \in Nat \ {0}, NEW x \in Int, NEW y \in Int, NEW z \in Int,
         (x - y) % m = 0, (y - z) % m = 0
  PROVE  (x - z) % m = 0
<1> DEFINE a == x - y
           b == y - z
<1>1. a \in Int /\ b \in Int /\ a % m = 0 /\ b % m = 0 /\ a + b = x - z
  OBVIOUS
<1> HIDE DEF a, b
<1>2. (a + b) % m = 0
  BY <1>1, ModAdd
<1> QED
  BY <1>1, <1>2

(* Reducing a number moves it by a multiple.                               *)
LEMMA ReducedIsCongruent ==
  ASSUME NEW m \in Nat \ {0}, NEW x \in Int
  PROVE  (x % m) \in Int /\ ((x % m) - x) % m = 0
<1> DEFINE r == x % m
<1>1. r \in Int /\ (x - r) % m = 0
  BY ModRemainder
<1> HIDE DEF r
<1> DEFINE d == x - r
<1>2. d \in Int /\ d % m = 0 /\ 0 - d = r - x
  BY <1>1
<1> HIDE DEF d
<1>3. (0 - d) % m = 0
  BY <1>2, ModNegate
<1> QED
  BY <1>1, <1>2, <1>3 DEF r

(* The first tick at or after a bound is a tick, and no tick lies between  *)
(* the bound and it.                                                       *)
LEMMA FirstTickIsFirst ==
  ASSUME NEW bound \in Int, NEW s, s.emit \in Nat \ {0}, s.anchor \in Int
  PROVE  LET first == FirstTickAtOrAfter(bound, s) IN
         /\ first \in bound .. bound + s.emit - 1
         /\ (first - s.anchor) % s.emit = 0
<1> DEFINE x == s.anchor - bound
           r == x % s.emit
<1>0. x \in Int
  OBVIOUS
<1> HIDE DEF x
<1>1. (x - r) % s.emit = 0 /\ r \in 0 .. s.emit - 1
  BY <1>0, ModRemainder
<1> USE DEF x
<1>2. (0 - (x - r)) % s.emit = 0
  BY <1>1, ModNegate
<1>3. FirstTickAtOrAfter(bound, s) = bound + r
  BY DEF FirstTickAtOrAfter
<1>4. 0 - (x - r) = (bound + r) - s.anchor
  BY <1>1
<1> QED
  BY <1>1, <1>2, <1>3, <1>4

(* So is the last at or before one.                                        *)
LEMMA LastTickIsLast ==
  ASSUME NEW bound \in Int, NEW s, s.emit \in Nat \ {0}, s.anchor \in Int
  PROVE  LET last == LastTickAtOrBefore(bound, s) IN
         /\ last \in bound - s.emit + 1 .. bound
         /\ (last - s.anchor) % s.emit = 0
<1> DEFINE x == bound - s.anchor
           r == x % s.emit
<1>0. x \in Int
  OBVIOUS
<1> HIDE DEF x
<1>1. (x - r) % s.emit = 0 /\ r \in 0 .. s.emit - 1
  BY <1>0, ModRemainder
<1> USE DEF x
<1>2. LastTickAtOrBefore(bound, s) = bound - r
  BY DEF LastTickAtOrBefore
<1>3. x - r = (bound - r) - s.anchor
  BY <1>1
<1> QED
  BY <1>1, <1>2, <1>3

(* Stepping from a tick by the emit cadence stays on the grid.             *)
LEMMA StepsAreTicks ==
  ASSUME NEW s, s.emit \in Nat \ {0}, s.anchor \in Int,
         NEW first \in Int, (first - s.anchor) % s.emit = 0,
         NEW t \in Int, (t - first) % s.emit = 0
  PROVE  (t - s.anchor) % s.emit = 0
  BY ModChain

(* A stated range holds ticks only.                                        *)
LEMMA RangeHoldsTicks ==
  ASSUME NEW s, s.emit \in Nat \ {0}, s.anchor \in Int, NEW start \in Int, NEW end \in Int,
         NEW t \in GridTicks(start, end, s)
  PROVE  t \in Int /\ (t - s.anchor) % s.emit = 0
<1> DEFINE first == FirstTickAtOrAfter(start, s)
<1>1. first \in Int /\ (first - s.anchor) % s.emit = 0
  BY FirstTickIsFirst
<1>2. t \in first .. end - 1 /\ (t - first) % s.emit = 0
  BY DEF GridTicks
<1> QED
  BY <1>1, <1>2, StepsAreTicks

-----------------------------------------------------------------------------
(* Extremes of the candles                                                 *)

(* A finite set of numbers that is not empty has a least element: of the   *)
(* sets of elements below one of its elements, some contains no other.     *)
LEMMA LeastNumber ==
  ASSUME NEW S \in SUBSET Int, IsFiniteSet(S), S # {}
  PROVE  Min(S) \in S /\ \A y \in S : Min(S) <= y
<1> DEFINE Below(x) == {y \in S : y < x}
           T == {Below(x) : x \in S}
           R == StrictSubsetOrdering(S)
<1>1. IsWellFoundedOn(R, FiniteSubsetsOf(S))
  BY FS_StrictSubsetOrderingWellFounded
<1>2. T \subseteq FiniteSubsetsOf(S) /\ T # {}
  <2>1. \A x \in S : Below(x) \in SUBSET S /\ IsFiniteSet(Below(x))
    BY FS_Subset
  <2> QED
    BY <2>1 DEF FiniteSubsetsOf
<1> HIDE DEF R, T
<1>3. PICK B \in T : \A C \in T : <<C, B>> \notin R
  BY <1>1, <1>2, WFMin
<1>4. PICK x \in S : B = Below(x)
  BY <1>3 DEF T
<1>5. ASSUME NEW y \in S, y < x PROVE FALSE
  <2>1. ASSUME NEW z \in Below(y) PROVE z \in Below(x)
    <3>1. x \in Int /\ y \in Int /\ z \in Int /\ z < y /\ z \in S
      BY <2>1
    <3> QED
      BY <3>1, <1>5
  <2>2. y \in Below(x) /\ y \notin Below(y)
    BY <1>5
  <2>3. <<Below(y), B>> \in R
    BY <1>4, <2>1, <2>2 DEF R, StrictSubsetOrdering
  <2>4. Below(y) \in T
    BY DEF T
  <2> QED
    BY <1>3, <2>3, <2>4
<1>6. \A y \in S : x <= y
  BY <1>5
<1> QED
  BY <1>6 DEF Min

(* And a greatest one.                                                     *)
LEMMA GreatestNumber ==
  ASSUME NEW S \in SUBSET Int, IsFiniteSet(S), S # {}
  PROVE  Max(S) \in S /\ \A y \in S : y <= Max(S)
<1> DEFINE Above(x) == {y \in S : y > x}
           T == {Above(x) : x \in S}
           R == StrictSubsetOrdering(S)
<1>1. IsWellFoundedOn(R, FiniteSubsetsOf(S))
  BY FS_StrictSubsetOrderingWellFounded
<1>2. T \subseteq FiniteSubsetsOf(S) /\ T # {}
  <2>1. \A x \in S : Above(x) \in SUBSET S /\ IsFiniteSet(Above(x))
    BY FS_Subset
  <2> QED
    BY <2>1 DEF FiniteSubsetsOf
<1> HIDE DEF R, T
<1>3. PICK B \in T : \A C \in T : <<C, B>> \notin R
  BY <1>1, <1>2, WFMin
<1>4. PICK x \in S : B = Above(x)
  BY <1>3 DEF T
<1>5. ASSUME NEW y \in S, y > x PROVE FALSE
  <2>1. ASSUME NEW z \in Above(y) PROVE z \in Above(x)
    <3>1. x \in Int /\ y \in Int /\ z \in Int /\ z > y /\ z \in S
      BY <2>1
    <3> QED
      BY <3>1, <1>5
  <2>2. y \in Above(x) /\ y \notin Above(y)
    BY <1>5
  <2>3. <<Above(y), B>> \in R
    BY <1>4, <2>1, <2>2 DEF R, StrictSubsetOrdering
  <2>4. Above(y) \in T
    BY DEF T
  <2> QED
    BY <1>3, <2>3, <2>4
<1>6. \A y \in S : y <= x
  BY <1>5
<1> QED
  BY <1>6 DEF Max

(* What a list of candles is, as far as its times go.                      *)
Timed(cs, n) ==
  /\ DOMAIN cs = 1 .. n
  /\ \A i \in 1 .. n : cs[i].open_time \in Int /\ cs[i].close_time \in Int

(* The times of a list of candles have a least and a greatest.             *)
LEMMA TimesHaveExtremes ==
  ASSUME NEW cs, NEW n \in Nat \ {0}, Timed(cs, n)
  PROVE  /\ Min(OpenTimes(cs)) \in Int /\ Max(CloseTimes(cs)) \in Int
         /\ \E i \in 1 .. n : Min(OpenTimes(cs)) = cs[i].open_time
         /\ \A i \in 1 .. n : Min(OpenTimes(cs)) <= cs[i].open_time
         /\ \E i \in 1 .. n : Max(CloseTimes(cs)) = cs[i].close_time
         /\ \A i \in 1 .. n : cs[i].close_time <= Max(CloseTimes(cs))
<1> DEFINE opens == [i \in 1 .. n |-> cs[i].open_time]
           closes == [i \in 1 .. n |-> cs[i].close_time]
<1>1. opens \in Surjection(1 .. n, OpenTimes(cs))
  BY DEF Surjection, OpenTimes, Timed
<1>2. closes \in Surjection(1 .. n, CloseTimes(cs))
  BY DEF Surjection, CloseTimes, Timed
<1>3. IsFiniteSet(1 .. n)
  BY FS_Interval
<1>4. IsFiniteSet(OpenTimes(cs)) /\ IsFiniteSet(CloseTimes(cs))
  BY <1>1, <1>2, <1>3, FS_Surjection
<1>5. /\ OpenTimes(cs) \in SUBSET Int /\ OpenTimes(cs) # {}
      /\ CloseTimes(cs) \in SUBSET Int /\ CloseTimes(cs) # {}
  BY DEF OpenTimes, CloseTimes, Timed
<1>6. /\ Min(OpenTimes(cs)) \in OpenTimes(cs) /\ \A x \in OpenTimes(cs) : Min(OpenTimes(cs)) <= x
      /\ Max(CloseTimes(cs)) \in CloseTimes(cs) /\ \A x \in CloseTimes(cs) : x <= Max(CloseTimes(cs))
  BY <1>4, <1>5, LeastNumber, GreatestNumber
<1>7. /\ \A x : x \in OpenTimes(cs) <=> \E i \in 1 .. n : x = cs[i].open_time
      /\ \A x : x \in CloseTimes(cs) <=> \E i \in 1 .. n : x = cs[i].close_time
  BY DEF OpenTimes, CloseTimes, Timed
<1> QED
  BY <1>5, <1>6, <1>7

(* What skip_warmup scans are ticks.                                       *)
LEMMA CandidatesAreTicks ==
  ASSUME NEW s, s.emit \in Nat \ {0}, s.anchor \in Int, s.window \in Nat,
         NEW cs, NEW n \in Nat \ {0}, Timed(cs, n),
         NEW t \in WarmupCandidates(cs, s)
  PROVE  t \in Int /\ (t - s.anchor) % s.emit = 0
<1> DEFINE bound == Min(OpenTimes(cs)) + s.window
           first == FirstTickAtOrAfter(bound, s)
           last == LastTickAtOrBefore(Max(CloseTimes(cs)), s)
<1>1. bound \in Int /\ Max(CloseTimes(cs)) \in Int
  BY TimesHaveExtremes
<1>2. first \in Int /\ (first - s.anchor) % s.emit = 0 /\ last \in Int
  BY <1>1, FirstTickIsFirst, LastTickIsLast
<1>3. t \in first .. last /\ (t - first) % s.emit = 0
  BY DEF WarmupCandidates
<1> QED
  BY <1>2, <1>3, StepsAreTicks

-----------------------------------------------------------------------------
(* The engine's sort                                                       *)

(* Row j is ahead of row i: an earlier open time, or the same one and an   *)
(* earlier row.                                                            *)
Ahead(cs, j, i) ==
  \/ cs[j].open_time < cs[i].open_time
  \/ cs[j].open_time = cs[i].open_time /\ j < i

(* The rows ahead of a row are finitely many, and the row's place is one   *)
(* more than their number.                                                 *)
LEMMA PlaceCountsRowsAhead ==
  ASSUME NEW cs, NEW n \in Nat, Timed(cs, n), NEW i \in 1 .. n
  PROVE  LET ahead == {j \in 1 .. n : Ahead(cs, j, i)} IN
         /\ IsFiniteSet(ahead)
         /\ Cardinality(ahead) \in 0 .. n - 1
         /\ StablePlace(cs, i) = 1 + Cardinality(ahead)
<1> DEFINE ahead == {j \in 1 .. n : Ahead(cs, j, i)}
<1>1. IsFiniteSet(1 .. n) /\ Cardinality(1 .. n) = n
  BY FS_Interval
<1>2. IsFiniteSet((1 .. n) \ {i}) /\ Cardinality((1 .. n) \ {i}) = n - 1
  BY <1>1, FS_RemoveElement
<1>3. ahead \in SUBSET ((1 .. n) \ {i})
  BY DEF Ahead, Timed
<1>4. IsFiniteSet(ahead) /\ Cardinality(ahead) <= n - 1 /\ Cardinality(ahead) \in Nat
  BY <1>2, <1>3, FS_Subset, FS_CardinalityType
<1>5. StablePlace(cs, i) = 1 + Cardinality(ahead)
  BY DEF StablePlace, Ahead, Timed
<1> QED
  BY <1>4, <1>5

(* Of two rows, the one ahead has the lower place.                         *)
LEMMA PlacesFollowTheOrder ==
  ASSUME NEW cs, NEW n \in Nat, Timed(cs, n), NEW i \in 1 .. n, NEW j \in 1 .. n,
         Ahead(cs, i, j)
  PROVE  StablePlace(cs, i) < StablePlace(cs, j)
<1> DEFINE before(k) == {h \in 1 .. n : Ahead(cs, h, k)}
<1>1. /\ IsFiniteSet(before(i)) /\ Cardinality(before(i)) \in Nat
      /\ IsFiniteSet(before(j)) /\ Cardinality(before(j)) \in Nat
      /\ StablePlace(cs, i) = 1 + Cardinality(before(i))
      /\ StablePlace(cs, j) = 1 + Cardinality(before(j))
  BY PlaceCountsRowsAhead
<1>2. ASSUME NEW h \in 1 .. n, Ahead(cs, h, i) PROVE Ahead(cs, h, j)
  BY <1>2 DEF Ahead, Timed
<1>3. i \in before(j) /\ i \notin before(i)
  BY DEF Ahead, Timed
<1>4. before(i) \subseteq before(j) /\ before(i) # before(j)
  BY <1>2, <1>3
<1> HIDE DEF before
<1>5. Cardinality(before(i)) <= Cardinality(before(j))
         /\ Cardinality(before(i)) # Cardinality(before(j))
  BY <1>1, <1>4, FS_Subset
<1> QED
  BY <1>1, <1>5

(* Every place is taken by one row and no place by two.                    *)
LEMMA PlacesAreAPermutation ==
  ASSUME NEW cs, NEW n \in Nat, Timed(cs, n)
  PROVE  [i \in 1 .. n |-> StablePlace(cs, i)] \in Bijection(1 .. n, 1 .. n)
<1> DEFINE place == [i \in 1 .. n |-> StablePlace(cs, i)]
<1>1. ASSUME NEW i \in 1 .. n PROVE StablePlace(cs, i) \in 1 .. n
  <2> DEFINE c == Cardinality({j \in 1 .. n : Ahead(cs, j, i)})
  <2>1. c \in 0 .. n - 1 /\ StablePlace(cs, i) = 1 + c
    BY PlaceCountsRowsAhead
  <2> HIDE DEF c
  <2> QED
    BY <2>1
<1>2. ASSUME NEW i \in 1 .. n, NEW j \in 1 .. n, i # j
      PROVE  StablePlace(cs, i) # StablePlace(cs, j)
  <2>1. Ahead(cs, i, j) \/ Ahead(cs, j, i)
    BY <1>2 DEF Ahead, Timed
  <2> QED
    BY <1>1, <2>1, PlacesFollowTheOrder
<1>3. place \in Injection(1 .. n, 1 .. n)
  BY <1>1, <1>2 DEF Injection, IsInjective
<1>4. IsFiniteSet(1 .. n)
  BY FS_Interval
<1>5. place \in Surjection(1 .. n, 1 .. n)
  BY <1>3, <1>4, FS_Injection
<1> QED
  BY <1>3, <1>5 DEF Bijection

(* The engine holds a permutation of the candles it was given, in the      *)
(* order of their open times, and rows of the same open time keep theirs:  *)
(* what its binary searches and its tie rule stand on (engine.py:368-375). *)
THEOREM SortIsStable ==
  ASSUME NEW cs, NEW n \in Nat, Timed(cs, n)
  PROVE  \E p \in Bijection(1 .. n, 1 .. n) :
           /\ SortedCandles(cs) = [k \in 1 .. n |-> cs[p[k]]]
           /\ \A a, b \in 1 .. n : a < b => Ahead(cs, p[a], p[b])
<1> DEFINE place == [i \in 1 .. n |-> StablePlace(cs, i)]
           row(k) == CHOOSE i \in 1 .. n : StablePlace(cs, i) = k
           p == [k \in 1 .. n |-> row(k)]
<1>1. /\ \A i \in 1 .. n : StablePlace(cs, i) \in 1 .. n
      /\ \A k \in 1 .. n : \E i \in 1 .. n : StablePlace(cs, i) = k
      /\ \A i, j \in 1 .. n : StablePlace(cs, i) = StablePlace(cs, j) => i = j
  <2>1. place \in Bijection(1 .. n, 1 .. n)
    BY PlacesAreAPermutation
  <2> QED
    BY <2>1 DEF Bijection, Injection, IsInjective, Surjection
<1>2. \A k \in 1 .. n : row(k) \in 1 .. n /\ StablePlace(cs, row(k)) = k
  BY <1>1
<1> HIDE DEF row
<1>3. \A i \in 1 .. n : row(StablePlace(cs, i)) = i
  BY <1>1, <1>2
<1>4. p \in Bijection(1 .. n, 1 .. n)
  <2>1. p \in Injection(1 .. n, 1 .. n)
    BY <1>2 DEF Injection, IsInjective
  <2>2. p \in Surjection(1 .. n, 1 .. n)
    BY <1>1, <1>2, <1>3 DEF Surjection
  <2> QED
    BY <2>1, <2>2 DEF Bijection
<1>5. SortedCandles(cs) = [k \in 1 .. n |-> cs[p[k]]]
  BY DEF SortedCandles, Timed, row
<1>6. ASSUME NEW a \in 1 .. n, NEW b \in 1 .. n, a < b PROVE Ahead(cs, p[a], p[b])
  <2>1. ~ Ahead(cs, row(b), row(a))
    BY <1>2, <1>6, PlacesFollowTheOrder
  <2>2. row(a) # row(b)
    BY <1>2, <1>6
  <2> QED
    BY <1>2, <2>1, <2>2 DEF Ahead, Timed
<1> QED
  BY <1>4, <1>5, <1>6

(* So the sorted candles have times too.                                   *)
LEMMA SortedCandlesAreTimed ==
  ASSUME NEW cs, NEW n \in Nat, Timed(cs, n)
  PROVE  Timed(SortedCandles(cs), n)
<1>1. PICK p \in Bijection(1 .. n, 1 .. n) : SortedCandles(cs) = [k \in 1 .. n |-> cs[p[k]]]
  BY SortIsStable
<1>2. \A k \in 1 .. n : p[k] \in 1 .. n
  BY <1>1 DEF Bijection, Surjection
<1> QED
  BY <1>1, <1>2 DEF Timed

-----------------------------------------------------------------------------
(* The ticks of a call                                                     *)

(* A call's candles, in either order.                                      *)
Held(r) == {Candles(r), SortedCandles(Candles(r))}

(* They are as many as the frame's rows, and their times are numbers.      *)
LEMMA HeldAreTimed ==
  ASSUME NEW r \in Request, NEW cs \in Held(r)
  PROVE  Len(r.frame.rows) \in Nat /\ Timed(cs, Len(r.frame.rows))
<1>1. Len(r.frame.rows) \in Nat /\ Timed(Candles(r), Len(r.frame.rows))
  <2> DEFINE n == Len(r.frame.rows)
  <2>1. /\ n \in Nat /\ DOMAIN r.frame.rows = 1 .. n /\ r.cadence \in Int
        /\ \A i \in 1 .. n : r.frame.rows[i].time \in Int
    BY RequestAssumption
  <2> HIDE DEF n
  <2>2. DOMAIN Candles(r) = 1 .. n
    BY <2>1 DEF Candles
  <2>3. ASSUME NEW i \in 1 .. n
        PROVE  Candles(r)[i].open_time \in Int /\ Candles(r)[i].close_time \in Int
    BY <2>1 DEF Candles, Candle
  <2>4. Timed(Candles(r), n)
    BY <2>2, <2>3 DEF Timed
  <2> QED
    BY <2>1, <2>4 DEF n
<1> QED
  BY <1>1, SortedCandlesAreTimed DEF Held

(* A tick of the reduced grid is one of the caller's grid, and of a legal  *)
(* schedule it is on the source's phase.                                   *)
LEMMA GridIsTheCallers ==
  ASSUME NEW r \in Request, Resolvable(r), NEW t \in Int,
         (t - (r.anchor % r.emit)) % r.emit = 0
  PROVE  (t - r.anchor) % r.emit = 0 /\ (t - r.phase) % r.cadence = 0
<1> DEFINE a == r.anchor % r.emit
<1>1. /\ r.emit \in Nat \ {0} /\ r.cadence \in Nat \ {0}
      /\ r.anchor \in Int /\ r.phase \in Int
      /\ r.emit % r.cadence = 0 /\ (a - r.phase) % r.cadence = 0
  BY RequestAssumption DEF Resolvable
<1>2. a \in Int /\ (a - r.anchor) % r.emit = 0
  BY <1>1, ReducedIsCongruent
<1>3. (t - a) % r.emit = 0
  OBVIOUS
<1> HIDE DEF a
<1>4. (t - r.anchor) % r.emit = 0
  BY <1>1, <1>2, <1>3, ModChain
<1>5. (t - a) % r.cadence = 0
  BY <1>1, <1>2, <1>3, ModDivides
<1>6. (t - r.phase) % r.cadence = 0
  BY <1>1, <1>2, <1>5, ModChain
<1> QED
  BY <1>4, <1>6

(* The schedule of a legal request.                                        *)
LEMMA ScheduleIsGrid ==
  ASSUME NEW r \in Request, Resolvable(r)
  PROVE  LET s == ResolvedSchedule(r) IN
         /\ s.emit \in Nat \ {0} /\ s.window \in Nat /\ s.anchor \in Int
         /\ \A t \in Int : (t - s.anchor) % s.emit = 0 =>
              (t - r.anchor) % r.emit = 0 /\ (t - r.phase) % r.cadence = 0
<1>1. r.emit \in Nat \ {0} /\ r.window \in Nat /\ r.anchor \in Int
  BY RequestAssumption DEF Resolvable
<1>2. (r.anchor % r.emit) \in Int
  BY <1>1, ReducedIsCongruent
<1> QED
  BY <1>1, <1>2, GridIsTheCallers DEF ResolvedSchedule

(* skip_warmup resolves ticks only, in either implementation.              *)
LEMMA WarmupHoldsTicks ==
  ASSUME NEW s, s.emit \in Nat \ {0}, s.anchor \in Int, s.window \in Nat,
         NEW cs, NEW n \in Nat \ {0}, Timed(cs, n), NEW cadence,
         NEW t \in ReferenceWarmupTicks(cs, s) \cup EngineWarmupTicks(cs, s, cadence)
  PROVE  t \in Int /\ (t - s.anchor) % s.emit = 0
<1>1. CASE t \in EngineWarmupTicks(cs, s, cadence)
  BY <1>1, CandidatesAreTicks DEF EngineWarmupTicks
<1>2. CASE t \in ReferenceWarmupTicks(cs, s)
  <2> DEFINE candidates == WarmupCandidates(cs, s)
             full == {u \in candidates : CoverageSeconds(cs, Included(cs, u, s.window)) = s.window}
             bound == Min(OpenTimes(cs)) + s.window
             first == FirstTickAtOrAfter(bound, s)
             last == LastTickAtOrBefore(Max(CloseTimes(cs)), s)
  <2>1. full # {} /\ t \in GridTicks(Min(full), last + 1, s)
    BY <1>2 DEF ReferenceWarmupTicks
  <2>2. bound \in Int /\ Max(CloseTimes(cs)) \in Int
    BY TimesHaveExtremes
  <2>3. first \in Int /\ last \in Int
    BY <2>2, FirstTickIsFirst, LastTickIsLast
  <2>4. full \in SUBSET (first .. last) /\ full \in SUBSET Int
    BY <2>3 DEF WarmupCandidates
  <2>5. IsFiniteSet(full)
    BY <2>3, <2>4, FS_Interval, FS_Subset
  <2> HIDE DEF full, last
  <2>6. Min(full) \in Int
    BY <2>1, <2>4, <2>5, LeastNumber
  <2> QED
    BY <2>1, <2>3, <2>6, RangeHoldsTicks
<1> QED
  BY <1>1, <1>2

(* TicksAreCloses is not inductive by itself: that the ticks resolved next *)
(* are on the grid takes what the steps before have established, that the  *)
(* schedule is legal and that the candles are the frame's, with times.     *)
TicksInvariant ==
  /\ request \in Request
  /\ stage \in {"extract", "ticks", "build"} => Resolvable(request)
  /\ stage = "ticks" => candles \in Held(request)
  /\ ticks \subseteq Int
  /\ TicksAreCloses

LEMMA TicksInit == WindowsInit => TicksInvariant
  BY DEF WindowsInit, TicksInvariant, TicksAreCloses

LEMMA TicksNext == TicksInvariant /\ [WindowsNext]_windows => TicksInvariant'
<1> SUFFICES ASSUME TicksInvariant, [WindowsNext]_windows PROVE TicksInvariant'
  OBVIOUS
<1>1. ASSUME Refuse PROVE TicksInvariant'
  BY <1>1 DEF Refuse, TicksInvariant, TicksAreCloses
<1>2. ASSUME stage = "ticks", NEW T, Emit(T),
             \A t \in T : t \in Int /\ (t - Schedule.anchor) % Schedule.emit = 0
      PROVE  TicksInvariant'
  <2>1. request \in Request /\ Resolvable(request)
    BY <1>2 DEF TicksInvariant
  <2>2. \A t \in T : (t - request.anchor) % request.emit = 0
                       /\ (t - request.phase) % request.cadence = 0
    BY <1>2, <2>1, ScheduleIsGrid DEF Schedule
  <2> QED
    BY <1>2, <2>1, <2>2 DEF Emit, TicksInvariant, TicksAreCloses
<1>3. CASE Resolve
  BY <1>3 DEF Resolve, TicksInvariant, TicksAreCloses
<1>4. CASE ExtractCandles
  BY <1>4 DEF ExtractCandles, TicksInvariant, TicksAreCloses, Held
<1>5. CASE ResolveRange
  <2>1. request \in Request /\ Resolvable(request)
    BY <1>5 DEF ResolveRange, TicksInvariant
  <2>2. /\ Schedule.emit \in Nat \ {0} /\ Schedule.anchor \in Int
        /\ request.materialization.start \in Int /\ request.materialization.end \in Int
    BY <1>5, <2>1, ScheduleIsGrid, RequestAssumption DEF ResolveRange, Schedule
  <2>3. \A t \in GridTicks(request.materialization.start, request.materialization.end, Schedule) :
          t \in Int /\ (t - Schedule.anchor) % Schedule.emit = 0
    BY <2>2, RangeHoldsTicks
  <2> QED
    BY <1>2, <1>5, <2>3 DEF ResolveRange
<1>6. CASE ResolveWarmup
  <2> DEFINE n == Len(request.frame.rows)
  <2>1. request \in Request /\ Resolvable(request) /\ candles \in Held(request)
    BY <1>6 DEF ResolveWarmup, TicksInvariant
  <2>2. Schedule.emit \in Nat \ {0} /\ Schedule.anchor \in Int /\ Schedule.window \in Nat
    BY <2>1, ScheduleIsGrid DEF Schedule
  <2>3. n \in Nat /\ Timed(candles, n)
    BY <2>1, HeldAreTimed
  <2>4. candles # <<>>
    BY <1>6 DEF ResolveWarmup, WarmupTicks
  <2>5. n # 0
    <3>1. ASSUME n = 0 PROVE candles = <<>>
      BY <2>1, <2>3, <3>1 DEF Held, Candles, SortedCandles, Timed
    <3> QED
      BY <2>4, <3>1
  <2>6. WarmupTicks \subseteq ReferenceWarmupTicks(candles, Schedule)
                                \cup EngineWarmupTicks(candles, Schedule, request.cadence)
    BY DEF WarmupTicks
  <2>7. \A t \in WarmupTicks : t \in Int /\ (t - Schedule.anchor) % Schedule.emit = 0
    <3> HIDE DEF n
    <3> QED
      BY <2>2, <2>3, <2>5, <2>6, WarmupHoldsTicks
  <2> QED
    BY <1>2, <1>6, <2>7 DEF ResolveWarmup
<1>7. CASE Build
  BY <1>7 DEF Build, TicksInvariant, TicksAreCloses
<1>8. CASE RaiseOnNull
  BY <1>8 DEF RaiseOnNull, TicksInvariant, TicksAreCloses
<1>9. CASE UNCHANGED windows
  BY <1>9 DEF windows, TicksInvariant, TicksAreCloses
<1> QED
  BY <1>1, <1>3, <1>4, <1>5, <1>6, <1>7, <1>8, <1>9
  DEF WindowsNext, RefuseSchedule, RefuseColumns, RefuseTicks

(* Every tick either implementation resolves, from a stated range or from  *)
(* the data, is on the caller's grid and on the source's, whatever the     *)
(* schedule, the frame and its row order.                                  *)
THEOREM TicksAreOnTheGrid == WindowsSpec => []TicksAreCloses
<1>1. TicksInvariant => TicksAreCloses
  BY DEF TicksInvariant
<1> QED
  BY <1>1, TicksInit, TicksNext, PTL DEF WindowsSpec

-----------------------------------------------------------------------------
(* What the engine's two searches count                                    *)

(* A call's candles are the frame's rows in some order.                    *)
LEMMA HeldAreThePermuted ==
  ASSUME NEW r \in Request, NEW cs \in Held(r)
  PROVE  LET n == Len(r.frame.rows) IN
         \E p \in Bijection(1 .. n, 1 .. n) : cs = [k \in 1 .. n |-> Candles(r)[p[k]]]
<1> DEFINE n == Len(r.frame.rows)
<1>1. n \in Nat /\ Timed(Candles(r), n)
  BY HeldAreTimed DEF Held
<1>2. Candles(r) = [k \in 1 .. n |-> Candles(r)[k]]
  BY RequestAssumption DEF Candles
<1> HIDE DEF n
<1>3. CASE cs = Candles(r)
  <2> DEFINE p == [k \in 1 .. n |-> k]
  <2>1. p \in Bijection(1 .. n, 1 .. n)
    BY DEF Bijection, Injection, Surjection, IsInjective
  <2>2. [k \in 1 .. n |-> Candles(r)[p[k]]] = [k \in 1 .. n |-> Candles(r)[k]]
    OBVIOUS
  <2>3. cs = [k \in 1 .. n |-> Candles(r)[p[k]]]
    BY <1>2, <1>3, <2>2
  <2> HIDE DEF p
  <2> QED
    BY <2>1, <2>3 DEF n
<1>4. CASE cs = SortedCandles(Candles(r))
  BY <1>1, <1>4, SortIsStable DEF n
<1> QED
  BY <1>3, <1>4 DEF Held

(* Reordering rows changes the number of none of their kinds.              *)
LEMMA PermutedCount ==
  ASSUME NEW n \in Nat, NEW p \in Bijection(1 .. n, 1 .. n), NEW S \in SUBSET (1 .. n),
         NEW K, K = {k \in 1 .. n : p[k] \in S}
  PROVE  IsFiniteSet(S) /\ IsFiniteSet(K) /\ Cardinality(K) = Cardinality(S)
<1> DEFINE q == [k \in K |-> p[k]]
<1>1. IsFiniteSet(1 .. n)
  BY FS_Interval
<1>2. IsFiniteSet(S) /\ IsFiniteSet(K)
  BY <1>1, FS_Subset
<1>3. q \in Bijection(K, S)
  <2>1. \A k \in 1 .. n : p[k] \in 1 .. n
    BY DEF Bijection, Injection
  <2>2. \A a, b \in K : q[a] = q[b] => a = b
    BY DEF Bijection, Injection, IsInjective
  <2>3. \A x \in S : \E k \in K : q[k] = x
    BY DEF Bijection, Surjection
  <2> QED
    BY <2>1, <2>2, <2>3 DEF Bijection, Injection, Surjection, IsInjective
<1>4. ExistsBijection(K, S)
  BY <1>3 DEF ExistsBijection
<1> QED
  BY <1>2, <1>4, FS_Bijection

(* Rows that close by the tick, less those that open before the window,    *)
(* are the rows of the window: the one that opens too early has closed.    *)
(* So the slice between the two searches is as long as there are rows in   *)
(* the window, whatever the order, gaps and duplicates of the frame.       *)
LEMMA SliceCountsTheWindow ==
  ASSUME NEW r \in Request, Resolvable(r), NEW cs \in Held(r), NEW t \in Int
  PROVE  LET s == ResolvedSchedule(r)
             inside == Contract!Contained(r, t) IN
         /\ IsFiniteSet(inside)
         /\ Lower(cs, t, s) \in Nat /\ Upper(cs, t, s) \in Nat
         /\ Upper(cs, t, s) - Lower(cs, t, s) = Cardinality(inside)
<1> DEFINE s == ResolvedSchedule(r)
           n == Len(r.frame.rows)
           early == {k \in 1 .. n : cs[k].open_time < t - r.window}
           closed == {k \in 1 .. n : cs[k].close_time <= t}
           inside == {k \in 1 .. n : cs[k].open_time >= t - r.window /\ cs[k].close_time <= t}
           rows == Contract!Contained(r, t)
<1>1. /\ n \in Nat /\ DOMAIN r.frame.rows = 1 .. n /\ Timed(cs, n)
      /\ r.cadence \in Nat /\ r.window \in Nat /\ r.cadence <= r.window
  BY HeldAreTimed, RequestAssumption DEF Resolvable
<1>2. PICK p \in Bijection(1 .. n, 1 .. n) : cs = [k \in 1 .. n |-> Candles(r)[p[k]]]
  BY HeldAreThePermuted
<1>3. \A k \in 1 .. n : /\ p[k] \in 1 .. n
                        /\ cs[k].open_time = r.frame.rows[p[k]].time
                        /\ cs[k].close_time = r.frame.rows[p[k]].time + r.cadence
                        /\ r.frame.rows[p[k]].time \in Int
  <2>1. \A k \in 1 .. n : p[k] \in 1 .. n
    BY DEF Bijection, Injection
  <2> QED
    BY <1>1, <1>2, <2>1, RequestAssumption DEF Candles, Candle
<1>4. Lower(cs, t, s) = Cardinality(early) /\ Upper(cs, t, s) = Cardinality(closed)
  <2>1. s.window = r.window
    BY DEF ResolvedSchedule
  <2>2. /\ OpenTime(cs) = [k \in 1 .. n |-> cs[k].open_time]
        /\ CloseTime(cs) = [k \in 1 .. n |-> cs[k].close_time]
    BY <1>1 DEF OpenTime, CloseTime, Timed
  <2>3. /\ early = {k \in DOMAIN OpenTime(cs) : OpenTime(cs)[k] < t - s.window}
        /\ closed = {k \in DOMAIN CloseTime(cs) : CloseTime(cs)[k] <= t}
    <3> HIDE DEF s, n
    <3> QED
      BY <2>1, <2>2
  <2> QED
    BY <2>3 DEF Lower, Upper, SearchLeft, SearchRight
<1>5. rows \in SUBSET (1 .. n) /\ inside = {k \in 1 .. n : p[k] \in rows}
  <2>1. rows = {i \in 1 .. n : /\ r.frame.rows[i].time >= t - r.window
                              /\ r.frame.rows[i].time + r.cadence <= t}
    BY <1>1 DEF Contract!Contained, Contract!Rows, Contract!Opens, Contract!Closes
  <2> HIDE DEF n, rows
  <2>2. \A i : i \in rows <=> /\ i \in 1 .. n /\ r.frame.rows[i].time >= t - r.window
                              /\ r.frame.rows[i].time + r.cadence <= t
    BY <2>1
  <2>3. ASSUME NEW k \in 1 .. n
        PROVE  cs[k].open_time >= t - r.window /\ cs[k].close_time <= t <=> p[k] \in rows
    BY <1>3, <2>2
  <2> QED
    BY <2>2, <2>3
<1>6. early \subseteq closed /\ inside = closed \ early
  <2>1. ASSUME NEW k \in early PROVE k \in closed
    <3>1. k \in 1 .. n /\ cs[k].open_time < t - r.window
      OBVIOUS
    <3>2. PICK opens \in Int : cs[k].open_time = opens /\ cs[k].close_time = opens + r.cadence
      BY <1>3, <3>1
    <3>3. opens + r.cadence <= t
      BY <1>1, <3>1, <3>2
    <3> QED
      BY <3>1, <3>2, <3>3
  <2>2. ASSUME NEW k \in 1 .. n PROVE k \in inside <=> k \in closed /\ k \notin early
    <3>1. PICK opens \in Int : cs[k].open_time = opens
      BY <1>3
    <3>2. opens >= t - r.window <=> ~(opens < t - r.window)
      BY <1>1
    <3> QED
      BY <3>1, <3>2
  <2> QED
    BY <2>1, <2>2
<1> HIDE DEF n
<1>7. closed \in SUBSET (1 .. n) /\ early \in SUBSET (1 .. n)
  OBVIOUS
<1> HIDE DEF early, closed, inside, rows
<1>8. IsFiniteSet(rows) /\ Cardinality(inside) = Cardinality(rows)
  BY <1>1, <1>5, PermutedCount
<1>9. IsFiniteSet(closed) /\ IsFiniteSet(early)
  <2>1. IsFiniteSet(1 .. n)
    BY <1>1, FS_Interval
  <2> QED
    BY <1>7, <2>1, FS_Subset
<1>10. Cardinality(closed) \in Nat /\ Cardinality(early) \in Nat
  BY <1>9, FS_CardinalityType
<1>11. Cardinality(closed \ early) = Cardinality(closed) - Cardinality(closed \cap early)
  BY <1>9, FS_Difference
<1>12. closed \cap early = early
  BY <1>6
<1> QED
  BY <1>4, <1>6, <1>8, <1>10, <1>11, <1>12 DEF rows

-----------------------------------------------------------------------------
(* Coverage over a validated frame                                         *)

(* Numbers a multiple apart are at least one multiple apart.               *)
LEMMA MultiplesAreApart ==
  ASSUME NEW m \in Nat \ {0}, NEW x \in Int, NEW y \in Int, (y - x) % m = 0, x < y
  PROVE  x + m <= y
<1> DEFINE d == y - x
<1>1. d \in Int /\ d % m = 0 /\ d > 0
  OBVIOUS
<1> HIDE DEF d
<1>2. PICK k \in Int : d = m * k
  BY <1>1, ModMeans
<1>3. k >= 1
  <2>1. ASSUME k <= 0 PROVE m * k <= 0
    BY <2>1
  <2> QED
    BY <1>1, <1>2, <2>1
<1>4. m * k >= m
  BY <1>3
<1> QED
  BY <1>2, <1>4 DEF d

(* Of a validated frame, a close time and a window of a legal schedule,    *)
(* every row is in the window, over before it, or not begun by its end.    *)
LEMMA InOrOut ==
  ASSUME request \in Request, Resolvable(request), Validated,
         NEW t \in Int, (t - request.phase) % request.cadence = 0,
         NEW i \in DOMAIN request.frame.rows
  PROVE  LET time == request.frame.rows[i].time
             d == request.cadence IN
         /\ time \in Int /\ (t - time) % d = 0
         /\ \/ i \in Contract!Contained(request, t)
            \/ time + d <= t - request.window
            \/ t <= time
<1> DEFINE time == request.frame.rows[i].time
           d == request.cadence
           w == request.window
           from == t - w
<1>1. d \in Nat \ {0} /\ w \in Nat /\ time \in Int /\ w % d = 0 /\ request.phase \in Int
  BY RequestAssumption DEF Resolvable
<1>2. (time - request.phase) % d = 0
  <2>1. time % d = request.phase
    BY DEF Validated
  <2> QED
    BY <1>1, <2>1, ModRemainder
<1>3. (t - time) % d = 0
  <2> DEFINE x == time - request.phase
  <2>1. x \in Int /\ x % d = 0
    BY <1>1, <1>2
  <2>2. 0 - x = request.phase - time
    BY <1>1
  <2> HIDE DEF x
  <2>3. (0 - x) % d = 0
    BY <1>1, <2>1, ModNegate
  <2>4. (request.phase - time) % d = 0
    BY <2>2, <2>3
  <2> QED
    BY <1>1, <2>4, ModChain
<1> HIDE DEF time, d, w
<1>4. from \in Int /\ (from - time) % d = 0
  <2>0. w \in Int /\ d \in Nat \ {0} /\ w % d = 0
    BY <1>1
  <2>1. (0 - w) % d = 0
    BY <2>0, ModNegate
  <2>2. from - t = 0 - w /\ from \in Int
    BY <1>1
  <2>3. (from - t) % d = 0
    BY <2>1, <2>2
  <2> QED
    BY <1>1, <1>3, <2>2, <2>3, ModChain
<1>5. time < from => time + d <= from
  BY <1>1, <1>4, MultiplesAreApart
<1>6. time < t => time + d <= t
  BY <1>1, <1>3, MultiplesAreApart
<1>7. time >= from /\ time + d <= t => i \in Contract!Contained(request, t)
  BY DEF Contract!Contained, Contract!Rows, Contract!Opens, Contract!Closes, time, d, w
<1> QED
  BY <1>1, <1>3, <1>4, <1>5, <1>6, <1>7 DEF time, d, w

(* Of two rows of a validated frame, one is over when the other begins.    *)
LEMMA RowsAreApart ==
  ASSUME request \in Request, Validated,
         NEW i \in DOMAIN request.frame.rows, NEW j \in DOMAIN request.frame.rows, i < j
  PROVE  request.frame.rows[i].time + request.cadence <= request.frame.rows[j].time
<1> DEFINE x == request.frame.rows[i].time
           y == request.frame.rows[j].time
           d == request.cadence
           p == request.phase
<1>1. d \in Nat \ {0} /\ x \in Int /\ y \in Int /\ p \in Int /\ x < y /\ x % d = p /\ y % d = p
  BY RequestAssumption DEF Validated
<1> HIDE DEF x, y, d, p
<1>2. (y - p) % d = 0 /\ (x - p) % d = 0
  BY <1>1, ModRemainder
<1>3. (p - x) % d = 0
  <2> DEFINE z == x - p
  <2>1. z \in Int /\ z % d = 0 /\ 0 - z = p - x
    BY <1>1, <1>2
  <2> HIDE DEF z
  <2> QED
    BY <1>1, <2>1, ModNegate
<1>4. (y - x) % d = 0
  BY <1>1, <1>2, <1>3, ModChain
<1>5. x + d <= y
  BY <1>1, <1>4, MultiplesAreApart
<1> QED
  BY <1>5 DEF x, y, d

(* The seconds of a window that some row spans are those of the rows in    *)
(* the window, each row's apart from the others'.                          *)
LEMMA SecondsOfTheWindow ==
  ASSUME request \in Request, Resolvable(request), Validated,
         NEW t \in Int, (t - request.phase) % request.cadence = 0
  PROVE  LET seconds == Second(t - request.window, t) \cap Covered
             inside == Contract!Contained(request, t) IN
         IsFiniteSet(seconds) /\ Cardinality(seconds) = Cardinality(inside) * request.cadence
<1> DEFINE n == Len(request.frame.rows)
           time(i) == request.frame.rows[i].time
           d == request.cadence
           w == request.window
           seconds == Second(t - w, t) \cap Covered
           inside == Contract!Contained(request, t)
           pairs == inside \X (0 .. d - 1)
           second == [q \in pairs |-> time(q[1]) + q[2]]
<1>1. /\ n \in Nat /\ DOMAIN request.frame.rows = 1 .. n /\ d \in Nat \ {0} /\ w \in Nat
      /\ \A i \in 1 .. n : time(i) \in Int
  BY RequestAssumption
<1>2. inside = {i \in 1 .. n : time(i) >= t - w /\ time(i) + d <= t}
  BY <1>1 DEF Contract!Contained, Contract!Rows, Contract!Opens, Contract!Closes
<1>3. Covered = UNION {Second(time(i), time(i) + d) : i \in 1 .. n}
  BY <1>1 DEF Covered
<1>4. \A i \in 1 .. n : i \in inside \/ time(i) + d <= t - w \/ t <= time(i)
  BY <1>1, InOrOut
<1>5. \A i, j \in 1 .. n : i < j => time(i) + d <= time(j)
  BY <1>1, RowsAreApart
<1> HIDE DEF n, time, d, w, inside
<1>6. \A q \in pairs : /\ q[1] \in 1 .. n /\ q[1] \in inside /\ q[2] \in 0 .. d - 1
                       /\ second[q] = time(q[1]) + q[2]
  BY <1>2, SMTT(60)
<1>7. \A q \in pairs : second[q] \in seconds
  <2> TAKE q \in pairs
  <2>1. second[q] \in Second(time(q[1]), time(q[1]) + d)
    BY <1>1, <1>6 DEF Second
  <2>2. second[q] \in Second(t - w, t)
    BY <1>1, <1>2, <1>6, SMTT(60) DEF Second
  <2> QED
    BY <1>3, <1>6, <2>1, <2>2
<1>8. \A x \in seconds : \E q \in pairs : second[q] = x
  <2> TAKE x \in seconds
  <2>1. PICK i \in 1 .. n : x \in Second(time(i), time(i) + d)
    BY <1>3
  <2>2. /\ x \in t - w .. t - 1 /\ x \in time(i) .. time(i) + d - 1
        /\ time(i) \in Int /\ t - w \in Int
    BY <1>1, <2>1 DEF Second
  <2>3. i \in inside
    BY <1>1, <1>4, <2>2
  <2>4. x - time(i) \in 0 .. d - 1
    BY <1>1, <2>2
  <2>5. <<i, x - time(i)>> \in pairs
    BY <2>3, <2>4
  <2>6. second[<<i, x - time(i)>>] = x
    BY <2>2, <2>5
  <2> QED
    BY <2>5, <2>6
<1>9. \A q, u \in pairs : second[q] = second[u] => q = u
  <2> SUFFICES ASSUME NEW q \in pairs, NEW u \in pairs, second[q] = second[u] PROVE q = u
    OBVIOUS
  <2>1. /\ q[1] \in 1 .. n /\ u[1] \in 1 .. n /\ q[2] \in 0 .. d - 1 /\ u[2] \in 0 .. d - 1
        /\ time(q[1]) + q[2] = time(u[1]) + u[2]
        /\ time(q[1]) \in Int /\ time(u[1]) \in Int
    BY <1>1, <1>6
  <2>2. ~(q[1] < u[1]) /\ ~(u[1] < q[1])
    BY <1>1, <1>5, <2>1, SMTT(60)
  <2>3. q[1] = u[1] /\ q[2] = u[2]
    BY <1>1, <2>1, <2>2
  <2> QED
    BY <2>3
<1>10. second \in Bijection(pairs, seconds)
  <2>1. second \in [pairs -> seconds]
    BY <1>7
  <2> HIDE DEF second, pairs, seconds
  <2> QED
    BY <1>8, <1>9, <2>1 DEF Bijection, Injection, Surjection, IsInjective
<1> HIDE DEF second, seconds
<1>11. IsFiniteSet(inside) /\ IsFiniteSet(0 .. d - 1) /\ Cardinality(0 .. d - 1) = d
  <2>1. 0 \in Int /\ d - 1 \in Int /\ ~(0 > d - 1) /\ (d - 1) - 0 + 1 = d
    BY <1>1
  <2>2. IsFiniteSet(0 .. d - 1) /\ Cardinality(0 .. d - 1) = d
    BY <2>1, FS_Interval
  <2>3. IsFiniteSet(1 .. n) /\ inside \in SUBSET (1 .. n)
    BY <1>1, <1>2, FS_Interval
  <2> QED
    BY <2>2, <2>3, FS_Subset
<1>12. IsFiniteSet(pairs) /\ Cardinality(pairs) = Cardinality(inside) * d
  BY <1>11, FS_Product, ZenonT(60)
<1>13. ExistsBijection(pairs, seconds)
  BY <1>10 DEF ExistsBijection
<1>14. IsFiniteSet(seconds) /\ Cardinality(seconds) = Cardinality(pairs)
  <2> HIDE DEF pairs
  <2> QED
    BY <1>12, <1>13, FS_Bijection
<1> QED
  BY <1>12, <1>14 DEF seconds, inside, d, w

-----------------------------------------------------------------------------
(* Where warmup ends                                                       *)

(* No tick lies between a bound and the first tick that is not before it,  *)
(* nor between the last tick that is not after it and the bound.           *)
LEMMA NoTickBetween ==
  ASSUME NEW s, s.emit \in Nat \ {0}, s.anchor \in Int, NEW bound \in Int,
         NEW t \in Int, (t - s.anchor) % s.emit = 0
  PROVE  /\ bound <= t => FirstTickAtOrAfter(bound, s) <= t
         /\ t <= bound => t <= LastTickAtOrBefore(bound, s)
<1> DEFINE first == FirstTickAtOrAfter(bound, s)
           last == LastTickAtOrBefore(bound, s)
           e == s.emit
           a == s.anchor
<1>1. /\ first \in bound .. bound + e - 1 /\ (first - a) % e = 0
      /\ last \in bound - e + 1 .. bound /\ (last - a) % e = 0
      /\ e \in Nat \ {0} /\ a \in Int
  BY FirstTickIsFirst, LastTickIsLast
<1>0. (t - a) % e = 0
  OBVIOUS
<1> HIDE DEF first, last, e, a
<1>2. first \in Int /\ last \in Int
  BY <1>1
<1>3. (a - t) % e = 0 /\ (a - last) % e = 0
  <2> DEFINE x == t - a
             y == last - a
  <2>1. x \in Int /\ y \in Int /\ x % e = 0 /\ y % e = 0 /\ 0 - x = a - t /\ 0 - y = a - last
    BY <1>0, <1>1, <1>2
  <2> HIDE DEF x, y
  <2>2. (0 - x) % e = 0 /\ (0 - y) % e = 0
    BY <1>1, <2>1, ModNegate
  <2> QED
    BY <2>1, <2>2
<1>4. (first - t) % e = 0 /\ (t - last) % e = 0
  <2>1. e \in Nat \ {0} /\ first \in Int /\ last \in Int /\ a \in Int /\ t \in Int
    BY <1>1, <1>2
  <2>2. (first - t) % e = 0
    BY <2>1, <1>1, <1>3, ModChain, ZenonT(60)
  <2>3. (t - last) % e = 0
    BY <2>1, <1>0, <1>3, ModChain
  <2> QED
    BY <2>2, <2>3
<1>5. t < first => t + e <= first
  BY <1>1, <1>2, <1>4, MultiplesAreApart
<1>6. last < t => last + e <= t
  BY <1>1, <1>2, <1>4, MultiplesAreApart
<1>7. bound <= t => first <= t
  BY <1>1, <1>2, <1>5
<1>8. t <= bound => t <= last
  BY <1>1, <1>2, <1>6
<1> QED
  BY <1>7, <1>8 DEF first, last

(* What skip_warmup scans is every tick from a window after the first open *)
(* to the last close.                                                      *)
LEMMA CandidatesAreAll ==
  ASSUME NEW r \in Request, Resolvable(r), NEW cs \in Held(r), cs # <<>>, NEW t
  PROVE  t \in WarmupCandidates(cs, ResolvedSchedule(r)) <=>
           /\ t \in Int /\ (t - r.anchor) % r.emit = 0
           /\ Min(OpenTimes(cs)) + r.window <= t
           /\ t <= Max(CloseTimes(cs))
<1> DEFINE s == ResolvedSchedule(r)
           n == Len(r.frame.rows)
           low == Min(OpenTimes(cs)) + s.window
           high == Max(CloseTimes(cs))
           first == FirstTickAtOrAfter(low, s)
           last == LastTickAtOrBefore(high, s)
<1>1. n \in Nat \ {0} /\ Timed(cs, n)
  <2>1. n \in Nat /\ Timed(cs, n)
    BY HeldAreTimed
  <2>2. n = 0 => cs = <<>>
    BY <2>1 DEF Held, Candles, SortedCandles, Timed
  <2> QED
    BY <2>1, <2>2
<1>2. /\ s.emit \in Nat \ {0} /\ s.window \in Nat /\ s.anchor \in Int
      /\ s.emit = r.emit /\ s.window = r.window
      /\ \A u \in Int : (u - s.anchor) % s.emit = 0 =>
              (u - r.anchor) % r.emit = 0 /\ (u - r.phase) % r.cadence = 0
  BY ScheduleIsGrid DEF ResolvedSchedule
<1>3. \A u \in Int : (u - r.anchor) % r.emit = 0 => (u - s.anchor) % s.emit = 0
  <2> DEFINE a == r.anchor % r.emit
  <2>1. r.anchor \in Int /\ r.emit \in Nat \ {0} /\ s.anchor = a
    BY <1>2, RequestAssumption DEF ResolvedSchedule
  <2>2. a \in Int /\ (r.anchor - a) % r.emit = 0
    BY <2>1, ReducedIsCongruent, ModRemainder
  <2> HIDE DEF a
  <2>3. \A u \in Int : (u - r.anchor) % r.emit = 0 => (u - a) % r.emit = 0
    BY <2>1, <2>2, ModChain, ZenonT(60)
  <2> QED
    BY <1>2, <2>1, <2>3
<1> HIDE DEF n
<1>4. Min(OpenTimes(cs)) \in Int /\ high \in Int /\ low \in Int
  BY <1>1, <1>2, TimesHaveExtremes
<1> HIDE DEF s, low, high
<1>5. /\ first \in low .. low + s.emit - 1 /\ (first - s.anchor) % s.emit = 0
      /\ last \in high - s.emit + 1 .. high
  BY <1>2, <1>4, FirstTickIsFirst, LastTickIsLast
<1>6. first \in Int /\ last \in Int
  BY <1>2, <1>4, <1>5
<1>7. t \in WarmupCandidates(cs, s) <=> t \in first .. last /\ (t - first) % s.emit = 0
  BY DEF WarmupCandidates, low, high
<1>8. \A u \in Int : (u - s.anchor) % s.emit = 0 =>
         (low <= u => first <= u) /\ (u <= high => u <= last)
  BY <1>2, <1>4, NoTickBetween
<1> HIDE DEF first, last
<1>9. \A u \in Int : (u - first) % s.emit = 0 <=> (u - s.anchor) % s.emit = 0
  <2> DEFINE e == s.emit
             a == s.anchor
  <2>0. e \in Nat \ {0} /\ a \in Int /\ first \in Int /\ (first - a) % e = 0
    BY <1>2, <1>5, <1>6
  <2> HIDE DEF e, a
  <2>1. (a - first) % e = 0
    <3> DEFINE x == first - a
    <3>1. x \in Int /\ x % e = 0 /\ 0 - x = a - first
      BY <2>0
    <3> HIDE DEF x
    <3> QED
      BY <2>0, <3>1, ModNegate
  <2>2. ASSUME NEW u \in Int, (u - first) % e = 0 PROVE (u - a) % e = 0
    BY <2>0, <2>2, ModChain
  <2>3. ASSUME NEW u \in Int, (u - a) % e = 0 PROVE (u - first) % e = 0
    BY <2>0, <2>1, <2>3, ModChain
  <2> QED
    BY <2>2, <2>3 DEF e, a
<1>10. ASSUME t \in WarmupCandidates(cs, s)
       PROVE  t \in Int /\ (t - r.anchor) % r.emit = 0 /\ low <= t /\ t <= high
  <2>1. t \in Int /\ first <= t /\ t <= last /\ (t - first) % s.emit = 0
    BY <1>6, <1>7, <1>10
  <2>2. (t - r.anchor) % r.emit = 0
    BY <1>2, <1>9, <2>1
  <2> QED
    BY <1>2, <1>4, <1>5, <1>6, <2>1, <2>2, SMTT(60)
<1>11. ASSUME t \in Int, (t - r.anchor) % r.emit = 0, low <= t, t <= high
       PROVE  t \in WarmupCandidates(cs, s)
  <2>1. (t - s.anchor) % s.emit = 0
    BY <1>3, <1>11
  <2>2. first <= t /\ t <= last /\ (t - first) % s.emit = 0
    BY <1>8, <1>9, <1>11, <2>1
  <2> QED
    BY <1>6, <1>7, <1>11, <2>2
<1>12. low = Min(OpenTimes(cs)) + r.window /\ high = Max(CloseTimes(cs))
  BY <1>2 DEF low, high
<1> QED
  BY <1>10, <1>11, <1>12 DEF s

(* On a validated frame the engine's test for a full slice is that every   *)
(* second of the window is covered.                                        *)
LEMMA FullSliceIsFullWindow ==
  ASSUME request \in Request, Resolvable(request), Validated, NEW cs \in Held(request),
         NEW t \in Int, (t - request.phase) % request.cadence = 0
  PROVE  FullyCovered(cs, t, ResolvedSchedule(request), request.cadence) <=> IsFull(t)
<1> DEFINE s == ResolvedSchedule(request)
           d == request.cadence
           w == request.window
           m == w \div d
           window == Second(t - w, t)
           seconds == window \cap Covered
           count == Cardinality(Contract!Contained(request, t))
<1>1. d \in Nat \ {0} /\ w \in Nat /\ w > 0 /\ w % d = 0
  BY RequestAssumption DEF Resolvable
<1>2. w = d * m /\ m \in Int
  <2> HIDE DEF d, w
  <2> QED
    BY <1>1
<1>3. /\ Upper(cs, t, s) - Lower(cs, t, s) = count /\ s.window = w
      /\ count \in Nat
  BY SliceCountsTheWindow, FS_CardinalityType DEF ResolvedSchedule
<1>4. Cardinality(seconds) = count * d
  BY SecondsOfTheWindow
<1>5. FullyCovered(cs, t, s, d) <=> count = m
  BY <1>3 DEF FullyCovered
<1>6. IsFiniteSet(window) /\ Cardinality(window) = w
  <2> HIDE DEF w
  <2>1. t - w \in Int /\ t - 1 \in Int /\ ~(t - w > t - 1) /\ (t - 1) - (t - w) + 1 = w
    BY <1>1
  <2>2. IsFiniteSet((t - w) .. (t - 1)) /\ Cardinality((t - w) .. (t - 1)) = w
    BY <2>1, FS_Interval
  <2> QED
    BY <2>2 DEF Second
<1>7. IsFull(t) <=> window \subseteq Covered
  BY DEF IsFull
<1> HIDE DEF window, count, m, d, w
<1>8. ASSUME count = m PROVE IsFull(t)
  <2>1. Cardinality(seconds) = Cardinality(window)
    <3>1. count * d = w
      BY <1>1, <1>2, <1>3, <1>8
    <3> QED
      BY <1>4, <1>6, <3>1
  <2>2. seconds = window
    <3>1. seconds \in SUBSET window
      OBVIOUS
    <3> QED
      BY <1>6, <2>1, <3>1, FS_Subset
  <2> QED
    BY <1>7, <2>2
<1>9. ASSUME IsFull(t) PROVE count = m
  <2>1. seconds = window
    BY <1>7, <1>9
  <2>2. count * d = d * m
    BY <1>2, <1>4, <1>6, <2>1
  <2>3. d * (count - m) = 0
    BY <1>1, <1>2, <1>3, <2>2
  <2>4. count - m = 0
    BY <1>1, <1>2, <1>3, <2>3
  <2> QED
    BY <1>2, <1>3, <2>4
<1> QED
  BY <1>5, <1>8, <1>9 DEF d

(* A number that no element exceeds, and is one, is the greatest.          *)
LEMMA GreatestIs ==
  ASSUME NEW S \in SUBSET Int, NEW m \in S, \A x \in S : x <= m
  PROVE  Max(S) = m
<1> DEFINE g == CHOOSE x \in S : \A y \in S : x >= y
<1>1. \A y \in S : m >= y
  OBVIOUS
<1>2. g \in S /\ \A y \in S : g >= y
  BY <1>1
<1>3. Max(S) = g
  BY DEF Max
<1> HIDE DEF g
<1>4. m \in Int /\ g \in Int /\ g <= m /\ m <= g
  BY <1>1, <1>2
<1> QED
  BY <1>3, <1>4

(* The full ticks the engine scans are the ends of all full windows there  *)
(* are on the caller's grid, and the last covered second ends at the last  *)
(* close.                                                                  *)
LEMMA ScannedAreAllFull ==
  ASSUME request \in Request, Resolvable(request), Validated, NEW cs \in Held(request), cs # <<>>
  PROVE  /\ EngineFullTicks(cs, ResolvedSchedule(request), request.cadence) = FullEnds
         /\ Max(Covered) + 1 = Max(CloseTimes(cs))
         /\ FullEnds \in SUBSET Int /\ IsFiniteSet(FullEnds)
<1> DEFINE n == Len(request.frame.rows)
           time(i) == request.frame.rows[i].time
           d == request.cadence
           w == request.window
           s == ResolvedSchedule(request)
           low == Min(OpenTimes(cs))
           high == Max(CloseTimes(cs))
           candidates == WarmupCandidates(cs, s)
<1>1. /\ n \in Nat \ {0} /\ Timed(cs, n) /\ DOMAIN request.frame.rows = 1 .. n
      /\ d \in Nat \ {0} /\ w \in Nat /\ w >= d
      /\ \A i \in 1 .. n : time(i) \in Int
  <2>1. n \in Nat /\ Timed(cs, n)
    BY HeldAreTimed
  <2>2. n = 0 => cs = <<>>
    BY <2>1 DEF Held, Candles, SortedCandles, Timed
  <2> QED
    BY <2>1, <2>2, RequestAssumption DEF Resolvable
<1>2. PICK p \in Bijection(1 .. n, 1 .. n) : cs = [k \in 1 .. n |-> Candles(request)[p[k]]]
  BY HeldAreThePermuted
<1>3. /\ \A k \in 1 .. n : p[k] \in 1 .. n
      /\ \A k \in 1 .. n : cs[k].open_time = time(p[k]) /\ cs[k].close_time = time(p[k]) + d
      /\ \A i \in 1 .. n : \E k \in 1 .. n : p[k] = i
  <2>1. /\ \A k \in 1 .. n : p[k] \in 1 .. n
        /\ \A i \in 1 .. n : \E k \in 1 .. n : p[k] = i
    BY <1>2 DEF Bijection, Injection, Surjection
  <2> QED
    BY <1>1, <1>2, <2>1 DEF Candles, Candle
<1>4. /\ low \in Int /\ high \in Int
      /\ \A i \in 1 .. n : low <= time(i) /\ time(i) + d <= high
      /\ \E i \in 1 .. n : low = time(i)
      /\ \E i \in 1 .. n : high = time(i) + d
  <2>1. /\ low \in Int /\ high \in Int
        /\ \A k \in 1 .. n : low <= cs[k].open_time /\ cs[k].close_time <= high
        /\ \E k \in 1 .. n : low = cs[k].open_time
        /\ \E k \in 1 .. n : high = cs[k].close_time
    BY <1>1, TimesHaveExtremes
  <2> HIDE DEF low, high, n, time
  <2>2. \A i \in 1 .. n : low <= time(i) /\ time(i) + d <= high
    <3> TAKE i \in 1 .. n
    <3>1. PICK k \in 1 .. n : p[k] = i
      BY <1>3
    <3> QED
      BY <1>3, <2>1, <3>1
  <2>3. \E i \in 1 .. n : low = time(i)
    <3>1. PICK k \in 1 .. n : low = cs[k].open_time
      BY <2>1
    <3>2. p[k] \in 1 .. n /\ low = time(p[k])
      BY <1>3, <3>1
    <3> QED
      BY <3>2
  <2>4. \E i \in 1 .. n : high = time(i) + d
    <3>1. PICK k \in 1 .. n : high = cs[k].close_time
      BY <2>1
    <3>2. p[k] \in 1 .. n /\ high = time(p[k]) + d
      BY <1>3, <3>1
    <3> QED
      BY <3>2
  <2> QED
    BY <2>1, <2>2, <2>3, <2>4
<1>5. \A x : x \in Covered <=> \E i \in 1 .. n : x \in time(i) .. time(i) + d - 1
  <2>1. d \in Int /\ \A i \in 1 .. n : time(i) \in Int
    BY <1>1
  <2>2. Covered = UNION {Second(time(i), time(i) + d) : i \in 1 .. n}
    BY <1>1 DEF Covered
  <2> HIDE DEF n, time, d
  <2>3. \A x : x \in Covered <=> \E i \in 1 .. n : x \in Second(time(i), time(i) + d)
    BY <2>2
  <2>4. ASSUME NEW i \in 1 .. n
        PROVE  Second(time(i), time(i) + d) = time(i) .. time(i) + d - 1
    <3>1. PICK opens \in Int, span \in Int : opens = time(i) /\ span = d
      BY <2>1
    <3>2. (opens + span) - 1 = opens + (span - 1)
      OBVIOUS
    <3> QED
      BY <3>1, <3>2 DEF Second
  <2> QED
    BY <2>3, <2>4
<1>6. \A t : t \in candidates <=>
          t \in Int /\ (t - request.anchor) % request.emit = 0 /\ low + w <= t /\ t <= high
  BY CandidatesAreAll
<1>7. \A t \in Int : (t - request.anchor) % request.emit = 0 =>
          (FullyCovered(cs, t, s, d) <=> IsFull(t)) /\ (t - request.phase) % d = 0
  <2> TAKE t \in Int
  <2> HAVE (t - request.anchor) % request.emit = 0
  <2>1. (t - request.phase) % d = 0
    <3> DEFINE e == request.emit
               a == request.anchor % e
    <3>1. e \in Nat \ {0} /\ request.anchor \in Int /\ (t - request.anchor) % e = 0
      BY RequestAssumption DEF Resolvable
    <3> HIDE DEF e
    <3>2. a \in Int /\ (request.anchor - a) % e = 0
      BY <3>1, ReducedIsCongruent, ModRemainder
    <3> HIDE DEF a
    <3>3. (t - a) % e = 0
      BY <3>1, <3>2, ModChain
    <3> QED
      BY <3>3, GridIsTheCallers DEF a, e
  <2> QED
    BY <2>1, FullSliceIsFullWindow
<1>8. FullEnds = {t \in {x + d : x \in {time(i) : i \in 1 .. n}} :
                    (t - request.anchor) % request.emit = 0 /\ IsFull(t)}
  BY <1>1 DEF FullEnds
<1>9. \A t : t \in FullEnds <=> /\ \E i \in 1 .. n : t = time(i) + d
                                /\ (t - request.anchor) % request.emit = 0
                                /\ IsFull(t)
  BY <1>8
<1>10. \A t \in Int : IsFull(t) <=> \A x \in t - w .. t - 1 : x \in Covered
  BY DEF IsFull, Second
<1>11. \A t \in Int : (t - request.phase) % d = 0 => \A i \in 1 .. n : (t - time(i)) % d = 0
  BY <1>1, InOrOut
<1> HIDE DEF n, time, d, w, s, low, high, candidates
<1>12. ASSUME NEW t, t \in FullEnds PROVE t \in candidates /\ FullyCovered(cs, t, s, d)
  <2>1. PICK i \in 1 .. n : t = time(i) + d
    BY <1>9, <1>12
  <2>2. t \in Int /\ t <= high
    BY <1>1, <1>4, <2>1, SMTT(60)
  <2>3. t - w \in Covered
    <3>1. t - w \in t - w .. t - 1
      BY <1>1, <2>2
    <3> QED
      BY <1>9, <1>10, <1>12, <2>2, <3>1
  <2>4. PICK k \in 1 .. n : t - w \in time(k) .. time(k) + d - 1
    BY <1>5, <2>3
  <2>5. low <= t - w
    BY <1>1, <1>4, <2>2, <2>4
  <2>6. low + w <= t
    BY <1>1, <1>4, <2>2, <2>5
  <2> QED
    BY <1>6, <1>7, <1>9, <1>12, <2>2, <2>6
<1>13. ASSUME NEW t, t \in candidates, FullyCovered(cs, t, s, d) PROVE t \in FullEnds
  <2>1. t \in Int /\ IsFull(t) /\ (t - request.anchor) % request.emit = 0 /\ (t - request.phase) % d = 0
    BY <1>6, <1>7, <1>13
  <2>2. t - 1 \in Covered
    <3>1. t - 1 \in t - w .. t - 1
      BY <1>1, <2>1
    <3> QED
      BY <1>10, <2>1, <3>1
  <2>3. PICK i \in 1 .. n : t - 1 \in time(i) .. time(i) + d - 1
    BY <1>5, <2>2
  <2>4. (t - time(i)) % d = 0 /\ time(i) \in Int /\ time(i) < t /\ t <= time(i) + d
    BY <1>1, <1>11, <2>1, <2>3, SMTT(60)
  <2>5. time(i) + d <= t
    BY <1>1, <2>1, <2>4, MultiplesAreApart
  <2>6. t = time(i) + d
    BY <1>1, <2>1, <2>4, <2>5
  <2> QED
    BY <1>9, <2>1, <2>6
<1>14. EngineFullTicks(cs, s, d) = FullEnds
  BY <1>12, <1>13 DEF EngineFullTicks, candidates
<1>15. Max(Covered) + 1 = high
  <2>1. Covered \in SUBSET Int
    BY <1>1, <1>5
  <2>2. high - 1 \in Covered
    <3>1. PICK i \in 1 .. n : high = time(i) + d
      BY <1>4
    <3>2. high - 1 \in time(i) .. time(i) + d - 1
      BY <1>1, <3>1
    <3> QED
      BY <1>5, <3>2
  <2>3. \A x \in Covered : x <= high - 1
    <3> TAKE x \in Covered
    <3>1. PICK i \in 1 .. n : x \in time(i) .. time(i) + d - 1
      BY <1>5
    <3> QED
      BY <1>1, <1>4, <3>1, SMTT(60)
  <2>4. Max(Covered) = high - 1
    BY <2>1, <2>2, <2>3, GreatestIs
  <2> QED
    BY <1>4, <2>4
<1>16. FullEnds \in SUBSET Int /\ IsFiniteSet(FullEnds)
  <2>1. FullEnds \in SUBSET (low + w .. high)
    BY <1>1, <1>4, <1>6, <1>12
  <2>2. low + w \in Int
    BY <1>1, <1>4
  <2>3. IsFiniteSet(low + w .. high)
    BY <1>4, <2>2, FS_Interval
  <2>4. low + w .. high \in SUBSET Int
    BY <1>4, <2>2
  <2>5. FullEnds \in SUBSET Int
    BY <2>1, <2>4
  <2> QED
    BY <2>1, <2>3, <2>5, FS_Subset
<1> QED
  BY <1>14, <1>15, <1>16 DEF s, d, high

-----------------------------------------------------------------------------
(* What the contract calls legal, and the ticks it states                  *)

(* The positive multiples of d up to w, with w among them just when it is  *)
(* one.                                                                    *)
LEMMA ProductsOf ==
  ASSUME NEW d \in Nat \ {0}, NEW w \in Nat
  PROVE  w \in {k * d : k \in 1 .. w} <=> w > 0 /\ w >= d /\ w % d = 0
<1>1. ASSUME NEW k \in 1 .. w, w = k * d PROVE w > 0 /\ w >= d /\ w % d = 0
  <2>1. k \in Int /\ k >= 1 /\ w = d * k
    BY <1>1
  <2>2. d * k >= d
    BY <2>1
  <2>3. w % d = 0
    BY <2>1, ModMeans
  <2> QED
    BY <2>1, <2>2, <2>3
<1>2. ASSUME w > 0, w % d = 0 PROVE \E k \in 1 .. w : w = k * d
  <2>1. PICK k \in Int : w = d * k
    BY <1>2, ModMeans
  <2>2. k >= 1
    <3>1. ASSUME k <= 0 PROVE d * k <= 0
      BY <3>1
    <3> QED
      BY <1>2, <2>1, <3>1
  <2>3. d * k >= k
    BY <2>2
  <2>4. k \in 1 .. w /\ w = k * d
    BY <2>1, <2>2, <2>3
  <2> QED
    BY <2>4
<1> QED
  BY <1>1, <1>2

(* The reduced anchor stands for the whole grid.                           *)
LEMMA AnchorMeans ==
  ASSUME NEW r \in Request, r.emit \in Nat \ {0}, r.emit % r.cadence = 0
  PROVE  ((r.anchor % r.emit) - r.phase) % r.cadence = 0 <=>
           \E t \in 0 .. r.emit * r.cadence : Contract!OnGrid(r, t) /\ (t - r.phase) % r.cadence = 0
<1> DEFINE e == r.emit
           d == r.cadence
           p == r.phase
           c == r.anchor
           a == c % e
<1>1. e \in Nat \ {0} /\ d \in Nat \ {0} /\ p \in Int /\ c \in Int /\ e % d = 0
  BY RequestAssumption
<1>2. \A t : Contract!OnGrid(r, t) <=> (t - c) % e = 0
  BY DEF Contract!OnGrid
<1> HIDE DEF e, d, p, c
<1>3. a \in Int /\ (a - c) % e = 0 /\ (c - a) % e = 0 /\ a \in 0 .. e - 1
  BY <1>1, ReducedIsCongruent, ModRemainder
<1>4. a \in 0 .. e * d
  <2>1. e * d >= e
    BY <1>1
  <2> QED
    BY <1>1, <1>3, <2>1
<1> HIDE DEF a
<1>5. ASSUME NEW t \in 0 .. e * d, (t - c) % e = 0, (t - p) % d = 0
      PROVE  (a - p) % d = 0
  <2>1. t \in Int
    BY <1>1, <1>5
  <2>2. (a - t) % e = 0
    <3> DEFINE x == t - c
    <3>1. x \in Int /\ x % e = 0 /\ 0 - x = c - t
      BY <1>1, <1>5, <2>1
    <3> HIDE DEF x
    <3>2. (c - t) % e = 0
      BY <1>1, <3>1, ModNegate
    <3> QED
      BY <1>1, <1>3, <2>1, <3>2, ModChain
  <2>3. (a - t) % d = 0
    <3>1. a - t \in Int
      BY <1>3, <2>1
    <3> QED
      BY <1>1, <2>2, <3>1, ModDivides
  <2> QED
    BY <1>1, <1>3, <1>5, <2>1, <2>3, ModChain
<1> QED
  BY <1>2, <1>3, <1>4, <1>5 DEF a, c, d, e, p

(* The rules refuse exactly what the contract refuses.                     *)
LEMMA LegalIsResolvable ==
  ASSUME NEW r \in Request
  PROVE  Resolvable(r) <=> Contract!LegalSchedule(r)
<1>1. r.cadence \in Nat \ {0} /\ r.window \in Nat /\ r.emit \in Nat
  BY RequestAssumption
<1>2. /\ r.window \in {k * r.cadence : k \in 1 .. r.window} <=>
           r.window > 0 /\ r.window >= r.cadence /\ r.window % r.cadence = 0
      /\ r.emit \in {k * r.cadence : k \in 1 .. r.emit} <=>
           r.emit > 0 /\ r.emit >= r.cadence /\ r.emit % r.cadence = 0
  BY <1>1, ProductsOf
<1>3. CASE r.emit > 0 /\ r.emit % r.cadence = 0
  BY <1>1, <1>2, <1>3, AnchorMeans DEF Resolvable, Contract!LegalSchedule
<1>4. CASE ~(r.emit > 0 /\ r.emit % r.cadence = 0)
  BY <1>2, <1>4 DEF Resolvable, Contract!LegalSchedule
<1> QED
  BY <1>3, <1>4

(* The contract's own copies of three operators of the library.            *)
LEMMA SameExtremes == \A S : /\ Contract!Min(S) = Min(S) /\ Contract!Max(S) = Max(S)
                             /\ Contract!Cardinality(S) = Cardinality(S)
  BY DEF Contract!Min, Min, Contract!Max, Max, Contract!Cardinality, Cardinality

(* The grid of the schedule is the caller's.                               *)
LEMMA GridOfSchedule ==
  ASSUME NEW r \in Request, Resolvable(r), NEW t \in Int
  PROVE  LET s == ResolvedSchedule(r) IN
         (t - s.anchor) % s.emit = 0 <=> Contract!OnGrid(r, t)
<1> DEFINE e == r.emit
           c == r.anchor
           a == c % e
<1>1. e \in Nat \ {0} /\ c \in Int
  BY RequestAssumption DEF Resolvable
<1> HIDE DEF e, c
<1>2. a \in Int /\ (a - c) % e = 0 /\ (c - a) % e = 0
  BY <1>1, ReducedIsCongruent, ModRemainder
<1> HIDE DEF a
<1>3. (t - a) % e = 0 => (t - c) % e = 0
  BY <1>1, <1>2, ModChain
<1>4. (t - c) % e = 0 => (t - a) % e = 0
  BY <1>1, <1>2, ModChain
<1> QED
  BY <1>3, <1>4 DEF a, c, e, ResolvedSchedule, Contract!OnGrid

(* Stepping by the emit cadence from a tick reaches the ticks and no other *)
(* instant.                                                                *)
LEMMA SteppedIsTheGrid ==
  ASSUME NEW s, s.emit \in Nat \ {0}, s.anchor \in Int,
         NEW first \in Int, (first - s.anchor) % s.emit = 0, NEW t \in Int
  PROVE  (t - first) % s.emit = 0 <=> (t - s.anchor) % s.emit = 0
<1> DEFINE e == s.emit
           a == s.anchor
<1>1. e \in Nat \ {0} /\ a \in Int /\ (first - a) % e = 0
  OBVIOUS
<1> HIDE DEF e, a
<1>2. (a - first) % e = 0
  <2> DEFINE x == first - a
  <2>1. x \in Int /\ x % e = 0 /\ 0 - x = a - first
    BY <1>1
  <2> HIDE DEF x
  <2> QED
    BY <1>1, <2>1, ModNegate
<1>3. (t - first) % e = 0 => (t - a) % e = 0
  BY <1>1, ModChain
<1>4. (t - a) % e = 0 => (t - first) % e = 0
  BY <1>1, <1>2, ModChain
<1> QED
  BY <1>3, <1>4 DEF e, a

(* A stated range resolves to the instants of the grid in it.              *)
LEMMA RangeIsTheGrid ==
  ASSUME NEW r \in Request, Resolvable(r), NEW start \in Int, NEW end \in Int
  PROVE  GridTicks(start, end, ResolvedSchedule(r)) =
           {t \in start .. end - 1 : Contract!OnGrid(r, t)}
<1> DEFINE s == ResolvedSchedule(r)
           first == FirstTickAtOrAfter(start, s)
<1>1. s.emit \in Nat \ {0} /\ s.anchor \in Int
  BY ScheduleIsGrid
<1>2. \A t \in Int : (t - s.anchor) % s.emit = 0 <=> Contract!OnGrid(r, t)
  BY GridOfSchedule
<1> HIDE DEF s
<1>3. /\ first \in Int /\ start <= first /\ (first - s.anchor) % s.emit = 0
      /\ \A t \in Int : (t - s.anchor) % s.emit = 0 /\ start <= t => first <= t
  BY <1>1, FirstTickIsFirst, NoTickBetween
<1>4. GridTicks(start, end, s) = IF end <= start THEN {} ELSE {t \in first .. end - 1 : (t - first) % s.emit = 0}
  BY DEF GridTicks
<1> HIDE DEF first
<1>5. \A t \in Int : (t - first) % s.emit = 0 <=> Contract!OnGrid(r, t)
  BY <1>1, <1>2, <1>3, SteppedIsTheGrid
<1>6. CASE end <= start
  <2>1. start .. end - 1 = {}
    BY <1>6
  <2> QED
    BY <1>4, <1>6, <2>1 DEF s
<1>7. CASE ~(end <= start)
  <2>1. ASSUME NEW t, t \in first .. end - 1, (t - first) % s.emit = 0
        PROVE  t \in start .. end - 1 /\ Contract!OnGrid(r, t)
    BY <1>3, <1>5, <2>1
  <2>2. ASSUME NEW t, t \in start .. end - 1, Contract!OnGrid(r, t)
        PROVE  t \in first .. end - 1 /\ (t - first) % s.emit = 0
    BY <1>2, <1>3, <1>5, <2>2
  <2>3. {t \in first .. end - 1 : (t - first) % s.emit = 0} = {t \in start .. end - 1 : Contract!OnGrid(r, t)}
    BY <2>1, <2>2
  <2> QED
    BY <1>4, <1>7, <2>3 DEF s
<1> QED
  BY <1>6, <1>7

(* The columns of a candle.                                                *)
LEMMA CandleColumns ==
  ASSUME NEW r, NEW i
  PROVE  /\ Candle(r, i).open_time = Contract!Opens(r, i)
         /\ Candle(r, i).close_time = Contract!Closes(r, i)
         /\ Candle(r, i).open = r.frame.rows[i].open
         /\ Candle(r, i).high = r.frame.rows[i].high
         /\ Candle(r, i).low = r.frame.rows[i].low
         /\ Candle(r, i).close = r.frame.rows[i].close
         /\ Candle(r, i).volume = r.frame.rows[i].volume
  BY DEF Candle, Contract!Opens, Contract!Closes

(* How the candles a call holds stand for the rows of its frame.           *)
Arranges(p, cs, r) ==
  LET n == Len(r.frame.rows) IN
  /\ p \in Bijection(1 .. n, 1 .. n)
  /\ cs = [k \in 1 .. n |-> Candles(r)[p[k]]]

(* So each candle is the one of its row, and each row has one candle.      *)
LEMMA ArrangedCells ==
  ASSUME NEW r \in Request, NEW p, NEW cs, Arranges(p, cs, r)
  PROVE  LET n == Len(r.frame.rows) IN
         /\ n \in Nat /\ DOMAIN cs = 1 .. n /\ DOMAIN r.frame.rows = 1 .. n
         /\ \A k \in 1 .. n : p[k] \in 1 .. n /\ cs[k] = Candle(r, p[k])
         /\ \A i \in 1 .. n : \E k \in 1 .. n : p[k] = i
         /\ \A k, m \in 1 .. n : p[k] = p[m] => k = m
<1> DEFINE n == Len(r.frame.rows)
<1>1. n \in Nat /\ DOMAIN r.frame.rows = 1 .. n
  BY RequestAssumption
<1>2. p \in Bijection(1 .. n, 1 .. n) /\ cs = [k \in 1 .. n |-> Candles(r)[p[k]]]
  BY DEF Arranges
<1>3. Candles(r) = [i \in 1 .. n |-> Candle(r, i)]
  BY <1>1 DEF Candles
<1> HIDE DEF n
<1>4. /\ \A k \in 1 .. n : p[k] \in 1 .. n
      /\ \A i \in 1 .. n : \E k \in 1 .. n : p[k] = i
      /\ \A k, m \in 1 .. n : p[k] = p[m] => k = m
  BY <1>2 DEF Bijection, Injection, Surjection, IsInjective
<1>5. \A k \in 1 .. n : cs[k] = Candle(r, p[k])
  BY <1>2, <1>3, <1>4
<1> QED
  BY <1>1, <1>2, <1>4, <1>5 DEF n

(* What either implementation holds arranges the frame.                    *)
LEMMA HeldAreArranged ==
  ASSUME NEW r \in Request, NEW cs \in Held(r)
  PROVE  \E p : Arranges(p, cs, r)
  BY HeldAreThePermuted DEF Arranges

(* Where skip_warmup scans is where the contract says a window can end.    *)
LEMMA CandidatesAreReachable ==
  ASSUME NEW r \in Request, Resolvable(r), NEW cs \in Held(r), cs # <<>>
  PROVE  WarmupCandidates(cs, ResolvedSchedule(r)) = Contract!Reachable(r)
<1> DEFINE n == Len(r.frame.rows)
           opens == {Contract!Opens(r, i) : i \in Contract!Rows(r)}
           closes == {Contract!Closes(r, i) : i \in Contract!Rows(r)}
           low == Min(OpenTimes(cs))
           high == Max(CloseTimes(cs))
<1>1. PICK p : Arranges(p, cs, r)
  BY HeldAreArranged
<1>2. /\ DOMAIN cs = 1 .. n /\ DOMAIN r.frame.rows = 1 .. n /\ n \in Nat
      /\ \A k \in 1 .. n : p[k] \in 1 .. n /\ cs[k] = Candle(r, p[k])
      /\ \A i \in 1 .. n : \E k \in 1 .. n : p[k] = i
  BY <1>1, ArrangedCells
<1> HIDE DEF n
<1>3. \A k \in 1 .. n : /\ cs[k].open_time = Contract!Opens(r, p[k])
                        /\ cs[k].close_time = Contract!Closes(r, p[k])
  <2> TAKE k \in 1 .. n
  <2>1. cs[k] = Candle(r, p[k])
    BY <1>2
  <2>2. Candle(r, p[k]).open_time = Contract!Opens(r, p[k])
    BY CandleColumns
  <2>3. Candle(r, p[k]).close_time = Contract!Closes(r, p[k])
    BY CandleColumns
  <2> QED
    BY <2>1, <2>2, <2>3
<1>4. opens = {Contract!Opens(r, i) : i \in 1 .. n} /\ closes = {Contract!Closes(r, i) : i \in 1 .. n}
  BY <1>2 DEF Contract!Rows
<1>5. OpenTimes(cs) = opens /\ CloseTimes(cs) = closes
  <2>1. OpenTimes(cs) = {cs[k].open_time : k \in 1 .. n} /\ CloseTimes(cs) = {cs[k].close_time : k \in 1 .. n}
    BY <1>2 DEF OpenTimes, CloseTimes
  <2> HIDE DEF opens, closes
  <2>2. ASSUME NEW k \in 1 .. n PROVE cs[k].open_time \in opens /\ cs[k].close_time \in closes
    <3>1. p[k] \in 1 .. n
      BY <1>2
    <3> QED
      BY <1>3, <1>4, <3>1
  <2>3. ASSUME NEW i \in 1 .. n
        PROVE  Contract!Opens(r, i) \in OpenTimes(cs) /\ Contract!Closes(r, i) \in CloseTimes(cs)
    <3>1. PICK k \in 1 .. n : p[k] = i
      BY <1>2
    <3>2. cs[k].open_time = Contract!Opens(r, i) /\ cs[k].close_time = Contract!Closes(r, i)
      BY <1>3, <3>1
    <3> QED
      BY <2>1, <3>2
  <2>4. OpenTimes(cs) = opens
    BY <1>4, <2>1, <2>2, <2>3
  <2>5. CloseTimes(cs) = closes
    BY <1>4, <2>1, <2>2, <2>3
  <2> QED
    BY <2>4, <2>5
<1>6. low = Contract!Min(opens) /\ high = Contract!Max(closes)
  BY <1>5, SameExtremes
<1>7. Contract!Reachable(r) = {t \in low + r.window .. high : Contract!OnGrid(r, t)}
  BY <1>6 DEF Contract!Reachable
<1>8. low \in Int /\ high \in Int /\ r.window \in Int
  <2>1. n \in Nat \ {0} /\ Timed(cs, n)
    <3>1. n \in Nat /\ Timed(cs, n)
      BY HeldAreTimed DEF n
    <3>2. n = 0 => cs = <<>>
      BY <3>1 DEF Held, Candles, SortedCandles, Timed
    <3> QED
      BY <3>1, <3>2
  <2> QED
    BY <2>1, TimesHaveExtremes, RequestAssumption
<1>9. \A t : t \in WarmupCandidates(cs, ResolvedSchedule(r)) <=>
         t \in Int /\ Contract!OnGrid(r, t) /\ low + r.window <= t /\ t <= high
  BY CandidatesAreAll DEF Contract!OnGrid
<1> HIDE DEF low, high
<1>10. low + r.window \in Int
  BY <1>8
<1>11. \A t : t \in Contract!Reachable(r) <=>
         t \in Int /\ Contract!OnGrid(r, t) /\ low + r.window <= t /\ t <= high
  BY <1>7, <1>8, <1>10
<1> QED
  BY <1>9, <1>11

-----------------------------------------------------------------------------
(* The sums of the oracle's loop                                           *)

(* Induction up to n, over the set of the numbers that have a property.    *)
LEMMA UpTo ==
  ASSUME NEW n \in Nat, NEW T, 0 \in T, \A i \in 1 .. n : i - 1 \in T => i \in T
  PROVE  0 .. n \subseteq T
<1> DEFINE bad == {i \in 0 .. n : i \notin T}
<1> SUFFICES ASSUME bad # {} PROVE FALSE
  OBVIOUS
<1>1. bad \in SUBSET Int /\ IsFiniteSet(bad)
  <2>1. IsFiniteSet(0 .. n) /\ bad \in SUBSET (0 .. n)
    BY FS_Interval
  <2> QED
    BY <2>1, FS_Subset
<1> DEFINE k == Min(bad)
<1>2. k \in bad /\ \A j \in bad : k <= j
  <2> HIDE DEF bad
  <2> QED
    BY <1>1, LeastNumber
<1> HIDE DEF k
<1>3. k \in 1 .. n /\ k \notin T
  BY <1>2
<1>4. k - 1 \in 0 .. n /\ ~(k <= k - 1)
  BY <1>3
<1>5. k - 1 \in T
  BY <1>2, <1>4
<1> QED
  BY <1>3, <1>5

(* A recursion on the sum so far.                                          *)
IsSums(sums, values, n) ==
  sums = [k \in 0 .. n |-> IF k = 0 THEN 0 ELSE sums[k - 1] + values[k]]

(* There is such a recursion for any values.                               *)
LEMMA SumsExist ==
  ASSUME NEW values, NEW n \in Nat
  PROVE  \E sums : IsSums(sums, values, n)
<1> DEFINE T == {k \in Nat : \E sums : IsSums(sums, values, k)}
<1>1. 0 \in T
  <2>1. IsSums([i \in 0 .. 0 |-> 0], values, 0)
    BY DEF IsSums
  <2> QED
    BY <2>1
<1>2. ASSUME NEW k \in 1 .. n, k - 1 \in T PROVE k \in T
  <2>1. PICK sums : IsSums(sums, values, k - 1)
    BY <1>2
  <2>2. /\ DOMAIN sums = 0 .. k - 1
        /\ \A i \in 0 .. k - 1 : sums[i] = IF i = 0 THEN 0 ELSE sums[i - 1] + values[i]
    BY <2>1 DEF IsSums
  <2> DEFINE last == sums[k - 1] + values[k]
             longer == [i \in 0 .. k |-> IF i = k THEN last ELSE sums[i]]
  <2>3. ASSUME NEW i \in 0 .. k
        PROVE  longer[i] = IF i = 0 THEN 0 ELSE longer[i - 1] + values[i]
    <3>1. i # k => i \in 0 .. k - 1
      OBVIOUS
    <3>2. i # 0 => i - 1 \in 0 .. k /\ i - 1 # k
      OBVIOUS
    <3> QED
      BY <2>2, <3>1, <3>2
  <2>4. longer = [i \in 0 .. k |-> longer[i]]
    OBVIOUS
  <2> HIDE DEF longer
  <2>5. IsSums(longer, values, k)
    BY <2>3, <2>4 DEF IsSums
  <2> QED
    BY <2>5
<1> HIDE DEF T
<1>3. n \in T
  BY <1>1, <1>2, UpTo
<1> QED
  BY <1>3 DEF T

(* The seconds of the rows in S, and the volume of them, as sums.          *)
IsCoverage(sums, cs, S) ==
  sums = [k \in 0 .. Len(cs) |->
            IF k = 0 THEN 0
            ELSE sums[k - 1] + (IF k \in S THEN cs[k].close_time - cs[k].open_time ELSE 0)]

IsVolume(sums, r, S) ==
  sums = [k \in 0 .. Len(r.frame.rows) |->
            IF k = 0 THEN 0 ELSE sums[k - 1] + (IF k \in S THEN r.frame.rows[k].volume ELSE 0)]

(* The seconds are the last of the sums.                                   *)
LEMMA CoverageIsASum ==
  ASSUME NEW cs, NEW S, Len(cs) \in Nat
  PROVE  \E sums : IsCoverage(sums, cs, S) /\ CoverageSeconds(cs, S) = sums[Len(cs)]
<1> DEFINE n == Len(cs)
           values == [k \in 1 .. n |-> IF k \in S THEN cs[k].close_time - cs[k].open_time ELSE 0]
           sum == CHOOSE f : IsCoverage(f, cs, S)
<1>1. PICK g : IsSums(g, values, n)
  BY SumsExist
<1>2. \A k \in 0 .. n : k # 0 =>
        values[k] = IF k \in S THEN cs[k].close_time - cs[k].open_time ELSE 0
  OBVIOUS
<1> HIDE DEF values
<1>3. IsCoverage(g, cs, S)
  BY <1>1, <1>2 DEF IsSums, IsCoverage
<1>4. IsCoverage(sum, cs, S)
  BY <1>3
<1>5. CoverageSeconds(cs, S) = sum[n]
  BY DEF CoverageSeconds, IsCoverage
<1> QED
  BY <1>4, <1>5

(* And so is the volume.                                                   *)
LEMMA VolumeIsASum ==
  ASSUME NEW r, NEW S, Len(r.frame.rows) \in Nat
  PROVE  \E sums : IsVolume(sums, r, S) /\ Contract!Volume(r, S) = sums[Len(r.frame.rows)]
<1> DEFINE n == Len(r.frame.rows)
           values == [k \in 1 .. n |-> IF k \in S THEN r.frame.rows[k].volume ELSE 0]
           sum == CHOOSE f : IsVolume(f, r, S)
<1>1. PICK g : IsSums(g, values, n)
  BY SumsExist
<1>2. \A k \in 0 .. n : k # 0 => values[k] = IF k \in S THEN r.frame.rows[k].volume ELSE 0
  OBVIOUS
<1> HIDE DEF values
<1>3. IsVolume(g, r, S)
  BY <1>1, <1>2 DEF IsSums, IsVolume
<1>4. IsVolume(sum, r, S)
  BY <1>3
<1>5. Contract!Volume(r, S) = sum[n]
  BY DEF Contract!Volume, IsVolume
<1> QED
  BY <1>4, <1>5

(* Those of S up to k.                                                     *)
First(S, k) == S \cap (1 .. k)

(* Counting them a row at a time.                                          *)
LEMMA CountSteps ==
  ASSUME NEW n \in Nat, NEW S \in SUBSET (1 .. n)
  PROVE  /\ Cardinality(First(S, 0)) = 0 /\ First(S, n) = S
         /\ \A k \in 0 .. n : IsFiniteSet(First(S, k)) /\ Cardinality(First(S, k)) \in Nat
         /\ \A k \in 1 .. n : Cardinality(First(S, k)) =
              IF k \in S THEN Cardinality(First(S, k - 1)) + 1 ELSE Cardinality(First(S, k - 1))
<1>1. First(S, 0) = {} /\ First(S, n) = S
  <2>1. 1 .. 0 = {}
    OBVIOUS
  <2>2. S \cap {} = {} /\ S \cap (1 .. n) = S
    OBVIOUS
  <2> QED
    BY <2>1, <2>2 DEF First
<1>2. \A k \in 0 .. n : IsFiniteSet(First(S, k)) /\ Cardinality(First(S, k)) \in Nat
  <2> TAKE k \in 0 .. n
  <2>1. IsFiniteSet(1 .. k) /\ First(S, k) \in SUBSET (1 .. k)
    BY FS_Interval DEF First
  <2> QED
    BY <2>1, FS_Subset, FS_CardinalityType
<1>3. ASSUME NEW k \in 1 .. n
      PROVE  Cardinality(First(S, k)) =
               IF k \in S THEN Cardinality(First(S, k - 1)) + 1 ELSE Cardinality(First(S, k - 1))
  <2>1. k \notin S => First(S, k) = First(S, k - 1)
    BY DEF First
  <2>2. k \in S => First(S, k) = First(S, k - 1) \cup {k} /\ k \notin First(S, k - 1)
    BY DEF First
  <2>3. k - 1 \in 0 .. n
    OBVIOUS
  <2>4. IsFiniteSet(First(S, k - 1))
    BY <1>2, <2>3
  <2> QED
    BY <2>1, <2>2, <2>4, FS_AddElement
<1> QED
  BY <1>1, <1>2, <1>3, FS_EmptySet

(* What grows by d at each of S is d for each of them in the end.          *)
Grows(f, S, n, d) ==
  /\ f[0] = 0
  /\ \A k \in 1 .. n : k \in S => f[k] = f[k - 1] + d
  /\ \A k \in 1 .. n : k \notin S => f[k] = f[k - 1]

(* By induction on how many have been met.                                 *)
LEMMA GrowsByEach ==
  ASSUME NEW n \in Nat, NEW S \in SUBSET (1 .. n), NEW d \in Int, NEW f, Grows(f, S, n, d)
  PROVE  f[n] = Cardinality(S) * d
<1>8. /\ f[0] = 0
      /\ \A k \in 1 .. n : k \in S => f[k] = f[k - 1] + d
      /\ \A k \in 1 .. n : k \notin S => f[k] = f[k - 1]
  BY DEF Grows
<1> USE <1>8
<1> DEFINE count(k) == Cardinality(First(S, k))
           T == {k \in 0 .. n : f[k] = count(k) * d}
<1>1. /\ count(0) = 0 /\ count(n) = Cardinality(S)
      /\ \A k \in 0 .. n : count(k) \in Nat
      /\ \A k \in 1 .. n : count(k) = IF k \in S THEN count(k - 1) + 1 ELSE count(k - 1)
  BY CountSteps
<1> HIDE DEF count
<1>2. 0 \in T
  BY <1>1
<1>3. ASSUME NEW k \in 1 .. n, k - 1 \in T PROVE k \in T
  <2>1. PICK c \in Int : c = count(k - 1)
    BY <1>1
  <2>2. f[k - 1] = c * d /\ (c + 1) * d = c * d + d
    BY <1>3, <2>1
  <2>3. CASE k \in S
    BY <1>1, <2>1, <2>2, <2>3
  <2>4. CASE k \notin S
    BY <1>1, <2>1, <2>2, <2>4
  <2> QED
    BY <2>3, <2>4
<1> HIDE DEF T
<1>4. 0 .. n \subseteq T
  BY <1>2, <1>3, UpTo
<1>5. n \in T
  BY <1>4
<1> QED
  BY <1>1, <1>5 DEF T

(* Candles of one length cover as many of it as there are.                 *)
LEMMA CoverageCounts ==
  ASSUME NEW cs, NEW n \in Nat, Len(cs) = n, NEW S \in SUBSET (1 .. n), NEW d \in Int,
         \A k \in S : cs[k].close_time - cs[k].open_time = d
  PROVE  CoverageSeconds(cs, S) = Cardinality(S) * d
<1>1. PICK sums : IsCoverage(sums, cs, S) /\ CoverageSeconds(cs, S) = sums[n]
  BY CoverageIsASum
<1>2. /\ sums[0] = 0
      /\ \A k \in 1 .. n : sums[k] = sums[k - 1] + (IF k \in S THEN d ELSE 0)
  <2>1. 0 \in 0 .. n /\ \A k \in 1 .. n : k \in 0 .. n /\ k # 0
    OBVIOUS
  <2> QED
    BY <1>1, <2>1 DEF IsCoverage
<1>3. ASSUME NEW k \in 0 .. n PROVE sums[k] \in Int
  <2> DEFINE T == {i \in 0 .. n : sums[i] \in Int}
  <2>1. 0 \in T /\ \A i \in 1 .. n : i - 1 \in T => i \in T
    BY <1>2, SMTT(60)
  <2> HIDE DEF T
  <2>2. 0 .. n \subseteq T
    BY <2>1, UpTo
  <2> QED
    BY <2>2 DEF T
<1>4. \A k \in 1 .. n : k \in S => sums[k] = sums[k - 1] + d
  BY <1>2
<1>5. \A k \in 1 .. n : k \notin S => sums[k] = sums[k - 1]
  <2>1. \A k \in 1 .. n : k - 1 \in 0 .. n
    OBVIOUS
  <2> QED
    BY <1>2, <1>3, <2>1
<1>6. Grows(sums, S, n, d)
  BY <1>2, <1>4, <1>5 DEF Grows
<1>7. sums[n] = Cardinality(S) * d
  BY <1>6, GrowsByEach
<1> QED
  BY <1>1, <1>7

-----------------------------------------------------------------------------
(* The ticks of skip_warmup                                                *)

(* A function of 1 .. n is a list of n.                                    *)
LEMMA LenOfList ==
  ASSUME NEW n \in Nat, NEW f, f = [k \in 1 .. n |-> f[k]]
  PROVE  Len(f) = n
<1> DEFINE X == {f[k] : k \in 1 .. n}
<1>1. f \in [1 .. n -> X]
  OBVIOUS
<1>2. f \in Seq(X)
  BY <1>1
<1> QED
  BY <1>1, <1>2

(* There are as many candles as rows,                                      *)
LEMMA ArrangedLen ==
  ASSUME NEW r \in Request, NEW cs \in Held(r)
  PROVE  Len(cs) = Len(r.frame.rows)
<1> DEFINE n == Len(r.frame.rows)
<1>1. PICK p : Arranges(p, cs, r)
  BY HeldAreArranged
<1>2. n \in Nat /\ cs = [k \in 1 .. n |-> Candles(r)[p[k]]]
  BY <1>1, RequestAssumption DEF Arranges
<1> HIDE DEF n
<1>3. cs = [k \in 1 .. n |-> cs[k]]
  BY <1>2
<1>4. Len(cs) = n
  BY <1>2, <1>3, LenOfList
<1> QED
  BY <1>4 DEF n

(* so none just when the frame is empty.                                   *)
LEMMA NoCandlesNoRows ==
  ASSUME NEW r \in Request, NEW cs \in Held(r)
  PROVE  cs = <<>> <=> Contract!Rows(r) = {}
<1> DEFINE n == Len(r.frame.rows)
<1>1. n \in Nat /\ DOMAIN r.frame.rows = 1 .. n
  BY RequestAssumption
<1>2. PICK p : Arranges(p, cs, r)
  BY HeldAreArranged
<1>3. cs = [k \in 1 .. n |-> Candles(r)[p[k]]]
  BY <1>2 DEF Arranges
<1> HIDE DEF n
<1>4. n = 0 => cs = <<>>
  BY <1>3
<1>5. cs = <<>> => n = 0
  <2>1. cs = <<>> => DOMAIN cs = {}
    OBVIOUS
  <2>2. DOMAIN cs = 1 .. n
    BY <1>3
  <2> QED
    BY <1>1, <2>1, <2>2
<1> QED
  BY <1>1, <1>4, <1>5 DEF Contract!Rows

(* The rows in a window.                                                   *)
LEMMA ContainedAre ==
  ASSUME NEW r \in Request, NEW t \in Int
  PROVE  LET n == Len(r.frame.rows)
             inside == Contract!Contained(r, t) IN
         /\ n \in Nat /\ r.cadence \in Nat \ {0} /\ r.window \in Nat
         /\ inside \in SUBSET (1 .. n) /\ IsFiniteSet(inside) /\ Cardinality(inside) \in Nat
         /\ \A i \in 1 .. n :
              /\ Contract!Opens(r, i) \in Int
              /\ Contract!Closes(r, i) = Contract!Opens(r, i) + r.cadence
              /\ i \in inside <=> t - r.window <= Contract!Opens(r, i)
                                    /\ Contract!Opens(r, i) + r.cadence <= t
<1> DEFINE n == Len(r.frame.rows)
           inside == Contract!Contained(r, t)
<1>1. /\ n \in Nat /\ DOMAIN r.frame.rows = 1 .. n /\ r.cadence \in Nat \ {0} /\ r.window \in Nat
      /\ \A i \in 1 .. n : r.frame.rows[i].time \in Int
  BY RequestAssumption
<1> HIDE DEF n
<1>2. \A i \in 1 .. n : /\ Contract!Opens(r, i) \in Int
                        /\ Contract!Closes(r, i) = Contract!Opens(r, i) + r.cadence
  BY <1>1 DEF Contract!Opens, Contract!Closes
<1>3. inside = {i \in 1 .. n : Contract!Opens(r, i) >= t - r.window /\ Contract!Closes(r, i) <= t}
  BY <1>1 DEF Contract!Contained, Contract!Rows
<1> HIDE DEF inside
<1>4. IsFiniteSet(1 .. n)
  BY <1>1, FS_Interval
<1>5. inside \in SUBSET (1 .. n)
  BY <1>3
<1>6. IsFiniteSet(inside) /\ Cardinality(inside) \in Nat
  BY <1>4, <1>5, FS_Subset, FS_CardinalityType
<1>7. ASSUME NEW i \in 1 .. n
      PROVE  i \in inside <=> t - r.window <= Contract!Opens(r, i) /\ Contract!Opens(r, i) + r.cadence <= t
  <2>1. PICK opens \in Int : Contract!Opens(r, i) = opens /\ Contract!Closes(r, i) = opens + r.cadence
    BY <1>2
  <2>2. i \in inside <=> opens >= t - r.window /\ opens + r.cadence <= t
    BY <1>3, <2>1
  <2> QED
    BY <1>1, <2>1, <2>2
<1> QED
  BY <1>1, <1>2, <1>5, <1>6, <1>7 DEF n, inside

(* The oracle includes the rows in the window.                             *)
LEMMA IncludedAre ==
  ASSUME NEW r \in Request, NEW t \in Int
  PROVE  Included(Candles(r), t, r.window) = Contract!Contained(r, t)
<1> DEFINE n == Len(r.frame.rows)
<1>1. DOMAIN r.frame.rows = 1 .. n
  BY RequestAssumption
<1> HIDE DEF n
<1>2. /\ DOMAIN Candles(r) = 1 .. n
      /\ \A i \in 1 .. n : Candles(r)[i] = Candle(r, i)
  BY <1>1 DEF Candles
<1>3. ASSUME NEW i \in 1 .. n
      PROVE  Candles(r)[i].open_time = Contract!Opens(r, i) /\ Candles(r)[i].close_time = Contract!Closes(r, i)
  <2>1. Candle(r, i).open_time = Contract!Opens(r, i) /\ Candle(r, i).close_time = Contract!Closes(r, i)
    BY CandleColumns
  <2> QED
    BY <1>2, <2>1
<1>4. Included(Candles(r), t, r.window) =
        {i \in 1 .. n : Candles(r)[i].open_time >= t - r.window /\ Candles(r)[i].close_time <= t}
  BY <1>2 DEF Included
<1>5. Contract!Contained(r, t) =
        {i \in 1 .. n : Contract!Opens(r, i) >= t - r.window /\ Contract!Closes(r, i) <= t}
  BY <1>1 DEF Contract!Contained, Contract!Rows
<1> QED
  BY <1>3, <1>4, <1>5

(* Both tests of a full window are the contract's.                         *)
LEMMA EngineFullIsFull ==
  ASSUME NEW r \in Request, Resolvable(r), NEW cs \in Held(r), NEW t \in Int
  PROVE  FullyCovered(cs, t, ResolvedSchedule(r), r.cadence) <=> Contract!Full(r, t)
<1> DEFINE s == ResolvedSchedule(r)
           d == r.cadence
           w == r.window
           m == w \div d
           count == Cardinality(Contract!Contained(r, t))
<1>1. d \in Nat \ {0} /\ w \in Nat /\ w % d = 0
  BY RequestAssumption DEF Resolvable
<1>2. w = m * d /\ m \in Int
  <2> HIDE DEF d, w
  <2> QED
    BY <1>1
<1>3. Upper(cs, t, s) - Lower(cs, t, s) = count /\ s.window = w /\ count \in Nat
  BY SliceCountsTheWindow, FS_CardinalityType DEF ResolvedSchedule
<1>4. FullyCovered(cs, t, s, d) <=> count = m
  BY <1>3 DEF FullyCovered
<1>5. Contract!Full(r, t) <=> count * d = w
  BY SameExtremes DEF Contract!Full
<1> HIDE DEF m, count, w, d
<1>6. count * d = m * d <=> count = m
  <2>1. ASSUME count * d = m * d PROVE count = m
    <3>1. d * (count - m) = 0
      BY <1>1, <1>2, <1>3, <2>1
    <3>2. count - m = 0
      BY <1>1, <1>2, <1>3, <3>1
    <3> QED
      BY <1>2, <1>3, <3>2
  <2> QED
    BY <2>1
<1> QED
  BY <1>2, <1>4, <1>5, <1>6 DEF d

(* The seconds of what it includes are a whole window when it is full.     *)
LEMMA OracleFullIsFull ==
  ASSUME NEW r \in Request, NEW t \in Int
  PROVE  LET inside == Contract!Contained(r, t) IN
         /\ CoverageSeconds(Candles(r), inside) = Cardinality(inside) * r.cadence
         /\ CoverageSeconds(Candles(r), Included(Candles(r), t, r.window)) = r.window
              <=> Contract!Full(r, t)
<1> DEFINE n == Len(r.frame.rows)
           inside == Contract!Contained(r, t)
<1>1. /\ n \in Nat /\ inside \in SUBSET (1 .. n) /\ r.cadence \in Int /\ DOMAIN r.frame.rows = 1 .. n
      /\ \A i \in 1 .. n : Contract!Opens(r, i) \in Int
                            /\ Contract!Closes(r, i) = Contract!Opens(r, i) + r.cadence
  BY ContainedAre, RequestAssumption
<1>2. Len(Candles(r)) = n
  BY ArrangedLen DEF Held
<1>3. \A i \in 1 .. n : Candles(r)[i] = Candle(r, i)
  BY <1>1 DEF Candles
<1> HIDE DEF n, inside
<1>4. ASSUME NEW i \in inside PROVE Candles(r)[i].close_time - Candles(r)[i].open_time = r.cadence
  <2>1. i \in 1 .. n
    BY <1>1
  <2>2. Candle(r, i).open_time = Contract!Opens(r, i) /\ Candle(r, i).close_time = Contract!Closes(r, i)
    BY CandleColumns
  <2>3. PICK opens \in Int : Contract!Opens(r, i) = opens /\ Contract!Closes(r, i) = opens + r.cadence
    BY <1>1, <2>1
  <2>4. Candles(r)[i].open_time = opens /\ Candles(r)[i].close_time = opens + r.cadence
    BY <1>3, <2>1, <2>2, <2>3
  <2>5. (opens + r.cadence) - opens = r.cadence
    BY <1>1, <2>3
  <2> QED
    BY <2>4, <2>5
<1>5. CoverageSeconds(Candles(r), inside) = Cardinality(inside) * r.cadence
  BY <1>1, <1>2, <1>4, CoverageCounts
<1>6. Included(Candles(r), t, r.window) = inside
  BY IncludedAre DEF inside
<1>7. Contract!Full(r, t) <=> Cardinality(inside) * r.cadence = r.window
  BY SameExtremes DEF Contract!Full, inside
<1> QED
  BY <1>5, <1>6, <1>7 DEF inside

(* Where a window can end: from any such tick every later tick up to the   *)
(* last close.                                                             *)
LEMMA ReachableAre ==
  ASSUME NEW r \in Request, Resolvable(r), NEW cs \in Held(r), cs # <<>>
  PROVE  /\ Max(CloseTimes(cs)) \in Int
         /\ Contract!Reachable(r) \in SUBSET Int /\ IsFiniteSet(Contract!Reachable(r))
         /\ \A t \in Int : \A u \in Contract!Reachable(r) :
              u <= t => (t \in Contract!Reachable(r) <=> Contract!OnGrid(r, t) /\ t <= Max(CloseTimes(cs)))
<1> DEFINE n == Len(r.frame.rows)
           low == Min(OpenTimes(cs))
           high == Max(CloseTimes(cs))
           from == low + r.window
           reachable == Contract!Reachable(r)
<1>1. low \in Int /\ high \in Int /\ r.window \in Int
  <2>1. n \in Nat \ {0} /\ Timed(cs, n)
    <3>1. n \in Nat /\ Timed(cs, n)
      BY HeldAreTimed
    <3>2. n = 0 => cs = <<>>
      BY <3>1 DEF Held, Candles, SortedCandles, Timed
    <3> QED
      BY <3>1, <3>2
  <2> QED
    BY <2>1, TimesHaveExtremes, RequestAssumption
<1>2. \A t : t \in reachable <=> t \in Int /\ Contract!OnGrid(r, t) /\ from <= t /\ t <= high
  BY CandidatesAreReachable, CandidatesAreAll DEF Contract!OnGrid
<1>3. from \in Int
  BY <1>1
<1> HIDE DEF low, high, from, reachable
<1>4. reachable \in SUBSET (from .. high)
  BY <1>1, <1>2, <1>3
<1>5. IsFiniteSet(from .. high) /\ from .. high \in SUBSET Int
  BY <1>1, <1>3, FS_Interval
<1>6. IsFiniteSet(reachable) /\ reachable \in SUBSET Int
  BY <1>4, <1>5, FS_Subset
<1>7. \A t \in Int : \A u \in reachable : u <= t => (t \in reachable <=> Contract!OnGrid(r, t) /\ t <= high)
  BY <1>1, <1>2, <1>3
<1> QED
  BY <1>1, <1>6, <1>7 DEF high, reachable

(* From the first full window on.                                          *)
LEMMA FromTheFirstFull ==
  ASSUME NEW reachable \in SUBSET Int, IsFiniteSet(reachable), NEW full \in SUBSET reachable
  PROVE  /\ full # {} => Min(full) \in full
         /\ \A t \in reachable : (\E u \in full : u <= t) <=> full # {} /\ t >= Min(full)
<1>1. full \in SUBSET Int /\ IsFiniteSet(full)
  BY FS_Subset
<1>2. full # {} => Min(full) \in full /\ \A y \in full : Min(full) <= y
  BY <1>1, LeastNumber
<1>3. ASSUME NEW t \in reachable PROVE (\E u \in full : u <= t) <=> full # {} /\ t >= Min(full)
  <2> DEFINE m == Min(full)
  <2>1. t \in Int /\ full \in SUBSET Int /\ (full # {} => m \in full /\ \A y \in full : m <= y)
    BY <1>1, <1>2
  <2> HIDE DEF m
  <2>2. ASSUME NEW u \in full, u <= t PROVE full # {} /\ t >= m
    <3>1. u \in Int /\ m \in Int /\ m <= u
      BY <2>1
    <3> QED
      BY <2>1, <2>2, <3>1
  <2>3. full # {} /\ t >= m => \E u \in full : u <= t
    BY <2>1
  <2> QED
    BY <2>2, <2>3 DEF m
<1> QED
  BY <1>2, <1>3

(* The ticks at or after a full one.                                       *)
LEMMA WarmTicksAre ==
  ASSUME NEW r
  PROVE  LET full == {t \in Contract!Reachable(r) : Contract!Full(r, t)} IN
         Contract!WarmTicks(r) = {t \in Contract!Reachable(r) : \E u \in full : u <= t}
  BY DEF Contract!WarmTicks

(* The ticks either resolves are those.                                    *)
LEMMA EngineWarmupIsWarm ==
  ASSUME NEW r \in Request, Resolvable(r), NEW cs \in Held(r), cs # <<>>
  PROVE  EngineWarmupTicks(cs, ResolvedSchedule(r), r.cadence) = Contract!WarmTicks(r)
<1> DEFINE s == ResolvedSchedule(r)
           reachable == Contract!Reachable(r)
           full == {t \in reachable : Contract!Full(r, t)}
<1>1. WarmupCandidates(cs, s) = reachable /\ reachable \in SUBSET Int /\ IsFiniteSet(reachable)
  BY CandidatesAreReachable, ReachableAre
<1>2. \A t \in Int : FullyCovered(cs, t, s, r.cadence) <=> Contract!Full(r, t)
  BY EngineFullIsFull
<1>3. Contract!WarmTicks(r) = {t \in reachable : \E u \in full : u <= t}
  BY WarmTicksAre
<1> HIDE DEF s, reachable
<1>4. EngineFullTicks(cs, s, r.cadence) = full
  BY <1>1, <1>2 DEF EngineFullTicks
<1>5. EngineWarmupTicks(cs, s, r.cadence) = {t \in reachable : full # {} /\ t >= Min(full)}
  BY <1>1, <1>4 DEF EngineWarmupTicks
<1>6. full \in SUBSET reachable
  OBVIOUS
<1> HIDE DEF full
<1>7. \A t \in reachable : (\E u \in full : u <= t) <=> full # {} /\ t >= Min(full)
  BY <1>1, <1>6, FromTheFirstFull
<1> QED
  BY <1>3, <1>5, <1>7 DEF s

(* The oracle steps from the first full tick to the last close.            *)
LEMMA OracleWarmupIsWarm ==
  ASSUME NEW r \in Request, Resolvable(r), Candles(r) # <<>>
  PROVE  ReferenceWarmupTicks(Candles(r), ResolvedSchedule(r)) = Contract!WarmTicks(r)
<1> DEFINE s == ResolvedSchedule(r)
           cs == Candles(r)
           reachable == Contract!Reachable(r)
           full == {t \in reachable : Contract!Full(r, t)}
           high == Max(CloseTimes(cs))
           last == LastTickAtOrBefore(high, s)
<1>0. cs \in Held(r) /\ s.window = r.window
  BY DEF Held, ResolvedSchedule
<1>1. /\ WarmupCandidates(cs, s) = reachable /\ reachable \in SUBSET Int /\ IsFiniteSet(reachable)
      /\ high \in Int
      /\ \A t \in Int : \A u \in reachable :
              u <= t => (t \in reachable <=> Contract!OnGrid(r, t) /\ t <= high)
  BY <1>0, CandidatesAreReachable, ReachableAre
<1>2. \A t \in Int : CoverageSeconds(cs, Included(cs, t, s.window)) = s.window <=> Contract!Full(r, t)
  BY <1>0, OracleFullIsFull
<1>3. Contract!WarmTicks(r) = {t \in reachable : \E u \in full : u <= t}
  BY WarmTicksAre
<1>4. /\ last \in Int /\ last <= high
      /\ \A t \in Int : Contract!OnGrid(r, t) /\ t <= high => t <= last
  <2>1. s.emit \in Nat \ {0} /\ s.anchor \in Int
    BY ScheduleIsGrid
  <2>2. last \in high - s.emit + 1 .. high
    BY <1>1, <2>1, LastTickIsLast
  <2>3. \A t \in Int : (t - s.anchor) % s.emit = 0 <=> Contract!OnGrid(r, t)
    BY GridOfSchedule
  <2>4. \A t \in Int : (t - s.anchor) % s.emit = 0 => (t <= high => t <= last)
    BY <1>1, <2>1, NoTickBetween
  <2> QED
    BY <1>1, <2>1, <2>2, <2>3, <2>4
<1>5. {t \in WarmupCandidates(cs, s) : CoverageSeconds(cs, Included(cs, t, s.window)) = s.window} = full
  BY <1>1, <1>2
<1> HIDE DEF reachable
<1>6. full \in SUBSET reachable
  OBVIOUS
<1>7. ReferenceWarmupTicks(cs, s) =
        IF full = {} THEN {} ELSE GridTicks(Min(full), last + 1, s)
  BY <1>5 DEF ReferenceWarmupTicks
<1> HIDE DEF full, s, last, high
<1>8. /\ full # {} => Min(full) \in full
      /\ \A t \in reachable : (\E u \in full : u <= t) <=> full # {} /\ t >= Min(full)
  BY <1>1, <1>6, FromTheFirstFull
<1>9. CASE full = {}
  BY <1>3, <1>7, <1>9 DEF s, cs
<1>10. CASE full # {}
  <2>1. PICK m \in Int : m = Min(full) /\ m \in full /\ m \in reachable
    BY <1>1, <1>6, <1>8, <1>10
  <2>2. GridTicks(m, last + 1, s) = {t \in m .. (last + 1) - 1 : Contract!OnGrid(r, t)}
    BY <1>4, RangeIsTheGrid DEF s
  <2>3. (last + 1) - 1 = last
    BY <1>4
  <2>4. ASSUME NEW t, t \in m .. last, Contract!OnGrid(r, t) PROVE t \in reachable /\ \E u \in full : u <= t
    <3>1. t \in Int /\ m <= t /\ t <= high
      BY <1>1, <1>4, <2>1, <2>4
    <3> QED
      BY <1>1, <2>1, <2>4, <3>1
  <2>5. ASSUME NEW t, t \in reachable, \E u \in full : u <= t PROVE t \in m .. last /\ Contract!OnGrid(r, t)
    <3>1. t \in Int /\ t >= m
      BY <1>1, <1>8, <2>1, <2>5
    <3>2. Contract!OnGrid(r, t) /\ t <= high
      BY <1>1, <2>1, <2>5, <3>1
    <3> QED
      BY <1>4, <2>1, <3>1, <3>2
  <2>6. {t \in m .. last : Contract!OnGrid(r, t)} = {t \in reachable : \E u \in full : u <= t}
    BY <2>4, <2>5
  <2> QED
    BY <1>3, <1>7, <1>10, <2>1, <2>2, <2>3, <2>6 DEF s, cs
<1> QED
  BY <1>9, <1>10

-----------------------------------------------------------------------------
(* The oracle's loop                                                       *)

IsAccount(acc, cs, S, n) ==
  acc = [k \in 0 .. n |->
           IF k = 0 THEN [earliest |-> cs[Min(S)], latest |-> cs[Min(S)],
                          high |-> cs[Min(S)].high, low |-> cs[Min(S)].low,
                          volume |-> 0, coverage |-> 0, traded |-> 0]
           ELSE IF k \in S THEN Account(acc[k - 1], cs[k])
           ELSE acc[k - 1]]

(* The recursion of the loop exists for any rows.                          *)
LEMMA AccountsExist ==
  ASSUME NEW cs, NEW S, NEW n \in Nat
  PROVE  \E acc : IsAccount(acc, cs, S, n)
<1> DEFINE base == [earliest |-> cs[Min(S)], latest |-> cs[Min(S)],
                    high |-> cs[Min(S)].high, low |-> cs[Min(S)].low,
                    volume |-> 0, coverage |-> 0, traded |-> 0]
           T == {k \in Nat : \E acc : IsAccount(acc, cs, S, k)}
<1>0. \A acc, k : IsAccount(acc, cs, S, k) <=>
        acc = [i \in 0 .. k |-> IF i = 0 THEN base
                                ELSE IF i \in S THEN Account(acc[i - 1], cs[i]) ELSE acc[i - 1]]
  BY DEF IsAccount
<1> HIDE DEF base
<1>1. 0 \in T
  <2> DEFINE f == [i \in 0 .. 0 |-> base]
  <2>1. \A i \in 0 .. 0 : i = 0 /\ f[i] = base
    OBVIOUS
  <2>2. f = [i \in 0 .. 0 |-> f[i]]
    OBVIOUS
  <2> HIDE DEF f
  <2>3. f = [i \in 0 .. 0 |-> IF i = 0 THEN base
                             ELSE IF i \in S THEN Account(f[i - 1], cs[i]) ELSE f[i - 1]]
    BY <2>1, <2>2
  <2>4. IsAccount(f, cs, S, 0)
    BY <1>0, <2>3
  <2> QED
    BY <2>4
<1>2. ASSUME NEW k \in 1 .. n, k - 1 \in T PROVE k \in T
  <2>1. PICK acc : IsAccount(acc, cs, S, k - 1)
    BY <1>2
  <2>2. /\ DOMAIN acc = 0 .. k - 1
        /\ \A i \in 0 .. k - 1 :
             acc[i] = IF i = 0 THEN base ELSE IF i \in S THEN Account(acc[i - 1], cs[i]) ELSE acc[i - 1]
    BY <1>0, <2>1
  <2> DEFINE last == IF k \in S THEN Account(acc[k - 1], cs[k]) ELSE acc[k - 1]
             longer == [i \in 0 .. k |-> IF i = k THEN last ELSE acc[i]]
  <2>3. ASSUME NEW i \in 0 .. k
        PROVE  longer[i] = IF i = 0 THEN base
                           ELSE IF i \in S THEN Account(longer[i - 1], cs[i]) ELSE longer[i - 1]
    <3>1. i # k => i \in 0 .. k - 1
      OBVIOUS
    <3>2. i # 0 => i - 1 \in 0 .. k /\ i - 1 # k
      OBVIOUS
    <3> QED
      BY <2>2, <3>1, <3>2
  <2>4. longer = [i \in 0 .. k |-> longer[i]]
    OBVIOUS
  <2> HIDE DEF longer
  <2>5. longer = [i \in 0 .. k |-> IF i = 0 THEN base
                             ELSE IF i \in S THEN Account(longer[i - 1], cs[i]) ELSE longer[i - 1]]
    BY <2>3, <2>4
  <2>6. IsAccount(longer, cs, S, k)
    BY <1>0, <2>5
  <2> QED
    BY <2>6
<1> HIDE DEF T
<1>3. n \in T
  BY <1>1, <1>2, UpTo
<1> QED
  BY <1>3 DEF T

(* The loop, a turn at a time.                                             *)
LEMMA AccountedIs ==
  ASSUME NEW cs, NEW S, Len(cs) \in Nat
  PROVE  \E acc : IsAccount(acc, cs, S, Len(cs)) /\ Accounted(cs, S) = acc[Len(cs)]
<1> DEFINE n == Len(cs)
           account == CHOOSE f : IsAccount(f, cs, S, n)
<1>1. IsAccount(account, cs, S, n)
  <2>1. \E f : IsAccount(f, cs, S, n)
    BY AccountsExist
  <2> QED
    BY <2>1
<1>2. Accounted(cs, S) = account[n]
  BY DEF Accounted, IsAccount
<1> QED
  BY <1>1, <1>2

(* What the loop starts from and does at each row.                         *)
LEMMA AccountTurns ==
  ASSUME NEW cs, NEW S, NEW n \in Nat, Len(cs) = n
  PROVE  \E acc :
           /\ Accounted(cs, S) = acc[n]
           /\ acc[0].earliest = cs[Min(S)] /\ acc[0].latest = cs[Min(S)]
           /\ acc[0].high = cs[Min(S)].high /\ acc[0].low = cs[Min(S)].low
           /\ acc[0].volume = 0 /\ acc[0].coverage = 0 /\ acc[0].traded = 0
           /\ \A k \in 1 .. n : k \in S => acc[k] = Account(acc[k - 1], cs[k])
           /\ \A k \in 1 .. n : k \notin S => acc[k] = acc[k - 1]
<1>1. PICK acc : IsAccount(acc, cs, S, n) /\ Accounted(cs, S) = acc[n]
  BY AccountedIs
<1>2. 0 \in 0 .. n /\ \A k \in 1 .. n : k \in 0 .. n /\ k # 0
  OBVIOUS
<1>3. acc[0] = [earliest |-> cs[Min(S)], latest |-> cs[Min(S)],
                high |-> cs[Min(S)].high, low |-> cs[Min(S)].low,
                volume |-> 0, coverage |-> 0, traded |-> 0]
  BY <1>1, <1>2 DEF IsAccount
<1>4. \A k \in 1 .. n : acc[k] = IF k \in S THEN Account(acc[k - 1], cs[k]) ELSE acc[k - 1]
  BY <1>1, <1>2 DEF IsAccount
<1> QED
  BY <1>1, <1>3, <1>4

(* What one turn does to each column.                                      *)
LEMMA AccountColumns ==
  ASSUME NEW a, NEW c
  PROVE  /\ Account(a, c).earliest = IF c.open_time < a.earliest.open_time THEN c ELSE a.earliest
         /\ Account(a, c).latest = IF c.open_time > a.latest.open_time THEN c ELSE a.latest
         /\ Account(a, c).high = IF Exceeds(c.high, a.high) THEN c.high ELSE a.high
         /\ Account(a, c).low = IF Exceeds(a.low, c.low) THEN c.low ELSE a.low
         /\ Account(a, c).volume = Plus(a.volume, c.volume)
         /\ Account(a, c).coverage = a.coverage + (c.close_time - c.open_time)
         /\ Account(a, c).traded = IF Exceeds(c.volume, 0) THEN a.traded + (c.close_time - c.open_time)
                                   ELSE a.traded
  BY DEF Account

(* Of a row that is kept until one that opens earlier is met, the last is  *)
(* the one ahead of all.                                                   *)
KeepsEarlier(e, cs, S, n, m) ==
  /\ e[0] = cs[m]
  /\ \A x \in S : m <= x /\ cs[x].open_time \in Int
  /\ \A k \in 1 .. n : k \in S =>
       e[k] = IF cs[k].open_time < e[k - 1].open_time THEN cs[k] ELSE e[k - 1]
  /\ \A k \in 1 .. n : k \notin S => e[k] = e[k - 1]

(* By induction on the rows met.                                           *)
LEMMA KeepsTheEarliest ==
  ASSUME NEW n \in Nat, NEW S \in SUBSET (1 .. n), NEW m \in S, NEW cs, NEW e, KeepsEarlier(e, cs, S, n, m)
  PROVE  \E i \in S : e[n] = cs[i] /\ \A j \in S \ {i} : Ahead(cs, i, j)
<1>8. /\ \A x \in S : m <= x
      /\ \A i \in S : cs[i].open_time \in Int
      /\ e[0] = cs[m]
      /\ \A k \in 1 .. n : k \in S => e[k] = IF cs[k].open_time < e[k - 1].open_time THEN cs[k] ELSE e[k - 1]
      /\ \A k \in 1 .. n : k \notin S => e[k] = e[k - 1]
  BY DEF KeepsEarlier
<1> USE <1>8
<1> DEFINE Kept(k, i) == /\ i \in S /\ (i <= k \/ i = m) /\ e[k] = cs[i]
                         /\ \A j \in S : j <= k \/ j = m => j = i \/ Ahead(cs, i, j)
           T == {k \in 0 .. n : \E i \in S : Kept(k, i)}
<1>0. S \subseteq 1 .. n /\ m \in S /\ \A x \in S : x \in Int /\ x >= m
  OBVIOUS
<1>1. 0 \in T
  <2>1. Kept(0, m)
    BY <1>0
  <2> QED
    BY <2>1
<1>2. ASSUME NEW k \in 1 .. n, k - 1 \in T PROVE k \in T
  <2>1. PICK i \in S : Kept(k - 1, i)
    BY <1>2
  <2>0. i \in Int /\ k \in Int /\ k \in 0 .. n /\ k - 1 \in Int
    BY <1>0
  <2>5. /\ i <= k - 1 \/ i = m
        /\ e[k - 1] = cs[i]
        /\ \A j \in S : j <= k - 1 \/ j = m => j = i \/ Ahead(cs, i, j)
    BY <2>1
  <2>6. \A j \in S : j <= k => j <= k - 1 \/ j = k
    BY <1>0, <2>0
  <2> SUFFICES \E h \in S : Kept(k, h)
    BY <2>0
  <2> HIDE DEF T
  <2>2. CASE k \notin S \/ k = m
    <3>1. e[k] = cs[i]
      <4>1. CASE k \notin S
        BY <2>5, <4>1
      <4>2. CASE k = m
        <5>1. i = m
          BY <1>0, <2>0, <2>5, <4>2
        <5> QED
          BY <2>5, <4>2, <5>1
      <4> QED
        BY <2>2, <4>1, <4>2
    <3>2. i <= k \/ i = m
      BY <2>0, <2>5
    <3>3. \A j \in S : j <= k \/ j = m => j <= k - 1 \/ j = m
      BY <2>2, <2>6
    <3>4. Kept(k, i)
      BY <2>5, <3>1, <3>2, <3>3
    <3> QED
      BY <3>4
  <2>3. CASE k \in S /\ k # m
    <3>1. m <= k - 1 /\ i < k
      <4>1. m \in Int /\ k >= m /\ k # m
        BY <1>0, <2>3
      <4>2. m <= k - 1
        BY <2>0, <4>1
      <4> QED
        BY <2>0, <2>5, <4>1, <4>2
    <3>2. e[k] = IF cs[k].open_time < cs[i].open_time THEN cs[k] ELSE cs[i]
      BY <2>3, <2>5
    <3>3. PICK x \in Int, y \in Int : x = cs[k].open_time /\ y = cs[i].open_time
      BY <2>3
    <3>4. CASE x < y
      <4>1. ASSUME NEW j \in S, j <= k \/ j = m PROVE j = k \/ Ahead(cs, k, j)
        <5>1. j = k \/ j <= k - 1 \/ j = m
          BY <2>6, <4>1
        <5>2. j = k \/ j = i \/ Ahead(cs, i, j)
          BY <2>5, <5>1
        <5>3. PICK z \in Int : z = cs[j].open_time
          OBVIOUS
        <5> QED
          BY <3>3, <3>4, <5>2, <5>3 DEF Ahead
      <4>2. e[k] = cs[k] /\ k <= k
        BY <2>0, <3>2, <3>3, <3>4
      <4>3. Kept(k, k)
        BY <2>3, <4>1, <4>2
      <4> QED
        BY <2>3, <4>3
    <3>5. CASE ~(x < y)
      <4>1. Ahead(cs, i, k)
        BY <3>1, <3>3, <3>5 DEF Ahead
      <4>2. ASSUME NEW j \in S, j <= k \/ j = m PROVE j = i \/ Ahead(cs, i, j)
        BY <2>5, <2>6, <4>1, <4>2
      <4>3. e[k] = cs[i] /\ i <= k
        BY <2>0, <3>1, <3>2, <3>3, <3>5
      <4>4. Kept(k, i)
        BY <4>2, <4>3
      <4> QED
        BY <4>4
    <3> QED
      BY <3>4, <3>5
  <2> QED
    BY <2>2, <2>3
<1> HIDE DEF T
<1>4. 0 .. n \subseteq T
  BY <1>1, <1>2, UpTo
<1>5. n \in T
  BY <1>4
<1>6. PICK i \in S : Kept(n, i)
  BY <1>5 DEF T
<1>7. \A j \in S : j <= n
  BY <1>0
<1> QED
  BY <1>6, <1>7

(* And until one that opens later is met, the first of those that open     *)
(* last.                                                                   *)
Outlasts(cs, i, j) ==
  \/ cs[i].open_time > cs[j].open_time
  \/ cs[i].open_time = cs[j].open_time /\ i < j

KeepsLater(e, cs, S, n, m) ==
  /\ e[0] = cs[m]
  /\ \A x \in S : m <= x /\ cs[x].open_time \in Int
  /\ \A k \in 1 .. n : k \in S =>
       e[k] = IF cs[k].open_time > e[k - 1].open_time THEN cs[k] ELSE e[k - 1]
  /\ \A k \in 1 .. n : k \notin S => e[k] = e[k - 1]

(* Likewise of the one that opens later.                                   *)
LEMMA KeepsTheLatest ==
  ASSUME NEW n \in Nat, NEW S \in SUBSET (1 .. n), NEW m \in S, NEW cs, NEW e, KeepsLater(e, cs, S, n, m)
  PROVE  \E i \in S : e[n] = cs[i] /\ \A j \in S \ {i} : Outlasts(cs, i, j)
<1>8. /\ \A x \in S : m <= x
      /\ \A i \in S : cs[i].open_time \in Int
      /\ e[0] = cs[m]
      /\ \A k \in 1 .. n : k \in S => e[k] = IF cs[k].open_time > e[k - 1].open_time THEN cs[k] ELSE e[k - 1]
      /\ \A k \in 1 .. n : k \notin S => e[k] = e[k - 1]
  BY DEF KeepsLater
<1> USE <1>8
<1> DEFINE Kept(k, i) == /\ i \in S /\ (i <= k \/ i = m) /\ e[k] = cs[i]
                         /\ \A j \in S : j <= k \/ j = m => j = i \/ Outlasts(cs, i, j)
           T == {k \in 0 .. n : \E i \in S : Kept(k, i)}
<1>0. S \subseteq 1 .. n /\ m \in S /\ \A x \in S : x \in Int /\ x >= m
  OBVIOUS
<1>1. 0 \in T
  <2>1. Kept(0, m)
    BY <1>0
  <2> QED
    BY <2>1
<1>2. ASSUME NEW k \in 1 .. n, k - 1 \in T PROVE k \in T
  <2>1. PICK i \in S : Kept(k - 1, i)
    BY <1>2
  <2>0. i \in Int /\ k \in Int /\ k \in 0 .. n /\ k - 1 \in Int
    BY <1>0
  <2>5. /\ i <= k - 1 \/ i = m
        /\ e[k - 1] = cs[i]
        /\ \A j \in S : j <= k - 1 \/ j = m => j = i \/ Outlasts(cs, i, j)
    BY <2>1
  <2>6. \A j \in S : j <= k => j <= k - 1 \/ j = k
    BY <1>0, <2>0
  <2> SUFFICES \E h \in S : Kept(k, h)
    BY <2>0
  <2> HIDE DEF T
  <2>2. CASE k \notin S \/ k = m
    <3>1. e[k] = cs[i]
      <4>1. CASE k \notin S
        BY <2>5, <4>1
      <4>2. CASE k = m
        <5>1. i = m
          BY <1>0, <2>0, <2>5, <4>2
        <5> QED
          BY <2>5, <4>2, <5>1
      <4> QED
        BY <2>2, <4>1, <4>2
    <3>2. i <= k \/ i = m
      BY <2>0, <2>5
    <3>3. \A j \in S : j <= k \/ j = m => j <= k - 1 \/ j = m
      BY <2>2, <2>6
    <3>4. Kept(k, i)
      BY <2>5, <3>1, <3>2, <3>3
    <3> QED
      BY <3>4
  <2>3. CASE k \in S /\ k # m
    <3>1. m <= k - 1 /\ i < k
      <4>1. m \in Int /\ k >= m /\ k # m
        BY <1>0, <2>3
      <4>2. m <= k - 1
        BY <2>0, <4>1
      <4> QED
        BY <2>0, <2>5, <4>1, <4>2
    <3>2. e[k] = IF cs[k].open_time > cs[i].open_time THEN cs[k] ELSE cs[i]
      BY <2>3, <2>5
    <3>3. PICK x \in Int, y \in Int : x = cs[k].open_time /\ y = cs[i].open_time
      BY <2>3
    <3>4. CASE x > y
      <4>1. ASSUME NEW j \in S, j <= k \/ j = m PROVE j = k \/ Outlasts(cs, k, j)
        <5>1. j = k \/ j <= k - 1 \/ j = m
          BY <2>6, <4>1
        <5>2. j = k \/ j = i \/ Outlasts(cs, i, j)
          BY <2>5, <5>1
        <5>3. PICK z \in Int : z = cs[j].open_time
          OBVIOUS
        <5> QED
          BY <3>3, <3>4, <5>2, <5>3 DEF Outlasts
      <4>2. e[k] = cs[k] /\ k <= k
        BY <2>0, <3>2, <3>3, <3>4
      <4>3. Kept(k, k)
        BY <2>3, <4>1, <4>2
      <4> QED
        BY <2>3, <4>3
    <3>5. CASE ~(x > y)
      <4>1. Outlasts(cs, i, k)
        BY <3>1, <3>3, <3>5 DEF Outlasts
      <4>2. ASSUME NEW j \in S, j <= k \/ j = m PROVE j = i \/ Outlasts(cs, i, j)
        BY <2>5, <2>6, <4>1, <4>2
      <4>3. e[k] = cs[i] /\ i <= k
        BY <2>0, <3>1, <3>2, <3>3, <3>5
      <4>4. Kept(k, i)
        BY <4>2, <4>3
      <4> QED
        BY <4>4
    <3> QED
      BY <3>4, <3>5
  <2> QED
    BY <2>2, <2>3
<1> HIDE DEF T
<1>4. 0 .. n \subseteq T
  BY <1>1, <1>2, UpTo
<1>5. n \in T
  BY <1>4
<1>6. PICK i \in S : Kept(n, i)
  BY <1>5 DEF T
<1>7. \A j \in S : j <= n
  BY <1>0
<1> QED
  BY <1>6, <1>7

(* Of the extreme cells.                                                   *)
GreatestCell(v, S) == Max({v[i] : i \in S})

KeepsGreater(h, v, S, n, m) ==
  /\ h[0] = v[m]
  /\ \A i \in S : v[i] \in Int
  /\ \A k \in 1 .. n : k \in S => h[k] = IF Exceeds(v[k], h[k - 1]) THEN v[k] ELSE h[k - 1]
  /\ \A k \in 1 .. n : k \notin S => h[k] = h[k - 1]

(* The cell kept is the greatest.                                          *)
LEMMA KeepsTheGreatest ==
  ASSUME NEW n \in Nat, NEW S \in SUBSET (1 .. n), NEW m \in S, NEW v, NEW h, KeepsGreater(h, v, S, n, m)
  PROVE  h[n] = GreatestCell(v, S)
<1>8. /\ h[0] = v[m]
      /\ \A i \in S : v[i] \in Int
      /\ \A k \in 1 .. n : k \in S => h[k] = IF Exceeds(v[k], h[k - 1]) THEN v[k] ELSE h[k - 1]
      /\ \A k \in 1 .. n : k \notin S => h[k] = h[k - 1]
  BY DEF KeepsGreater
<1> USE <1>8
<1> DEFINE T == {k \in 0 .. n : /\ \E i \in S : h[k] = v[i]
                                /\ \A j \in S : j <= k \/ j = m => v[j] <= h[k]}
<1>0. S \subseteq 1 .. n /\ \A j \in S : j \in Int /\ j >= 1
  OBVIOUS
<1>1. 0 \in T
  <2>1. \A j \in S : ~(j <= 0)
    BY <1>0
  <2> QED
    BY <2>1
<1>2. ASSUME NEW k \in 1 .. n, k - 1 \in T PROVE k \in T
  <2>1. PICK i \in S : h[k - 1] = v[i]
    BY <1>2
  <2>2. \A j \in S : j <= k - 1 \/ j = m => v[j] <= v[i]
    BY <1>2, <2>1
  <2>3. \A j \in S : j <= k \/ j = m => j <= k - 1 \/ j = m \/ j = k
    BY <1>0
  <2>4. k \in 0 .. n /\ v[i] \in Int
    OBVIOUS
  <2> SUFFICES (\E g \in S : h[k] = v[g]) /\ \A j \in S : j <= k \/ j = m => v[j] <= h[k]
    BY <2>4
  <2> HIDE DEF T
  <2>5. CASE k \notin S
    BY <2>1, <2>2, <2>3, <2>5
  <2>6. CASE k \in S
    <3>1. PICK x \in Int, y \in Int : x = v[k] /\ y = v[i]
      BY <2>6
    <3>2. Exceeds(x, y) <=> x > y
      BY MakerAssumption DEF Exceeds
    <3>3. h[k] = IF x > y THEN x ELSE y
      BY <2>1, <2>6, <3>1, <3>2
    <3>4. \E g \in S : h[k] = v[g]
      BY <2>6, <3>1, <3>3
    <3>5. ASSUME NEW j \in S, j <= k \/ j = m PROVE v[j] <= h[k]
      <4>1. PICK z \in Int : z = v[j]
        OBVIOUS
      <4>2. z <= y \/ z = x
        BY <2>2, <2>3, <3>1, <3>5, <4>1
      <4>3. z <= (IF x > y THEN x ELSE y)
        BY <4>2
      <4> QED
        BY <3>3, <4>1, <4>3
    <3> QED
      BY <3>4, <3>5
  <2> QED
    BY <2>5, <2>6
<1> HIDE DEF T
<1>3. 0 .. n \subseteq T
  BY <1>1, <1>2, UpTo
<1>4. n \in T
  BY <1>3
<1>5. \A j \in S : j <= n
  BY <1>0
<1> DEFINE cells == {v[i] : i \in S}
<1>6. cells \in SUBSET Int /\ h[n] \in cells /\ \A x \in cells : x <= h[n]
  BY <1>4, <1>5 DEF T
<1> HIDE DEF cells
<1>7. Max(cells) = h[n]
  BY <1>6, GreatestIs
<1> QED
  BY <1>7 DEF cells, GreatestCell

(* A number that exceeds no element, and is one, is the least.             *)
LEMMA LeastIs ==
  ASSUME NEW S \in SUBSET Int, NEW m \in S, \A x \in S : m <= x
  PROVE  Min(S) = m
<1> DEFINE g == CHOOSE x \in S : \A y \in S : x <= y
<1>1. \A y \in S : m <= y
  OBVIOUS
<1>2. g \in S /\ \A y \in S : g <= y
  BY <1>1
<1>3. Min(S) = g
  BY DEF Min
<1> HIDE DEF g
<1>4. m \in Int /\ g \in Int /\ m <= g /\ g <= m
  BY <1>1, <1>2
<1> QED
  BY <1>3, <1>4

LeastCell(v, S) == Min({v[i] : i \in S})

KeepsLess(h, v, S, n, m) ==
  /\ h[0] = v[m]
  /\ \A i \in S : v[i] \in Int
  /\ \A k \in 1 .. n : k \in S => h[k] = IF Exceeds(h[k - 1], v[k]) THEN v[k] ELSE h[k - 1]
  /\ \A k \in 1 .. n : k \notin S => h[k] = h[k - 1]

(* And the one kept by the other comparison the least.                     *)
LEMMA KeepsTheLeast ==
  ASSUME NEW n \in Nat, NEW S \in SUBSET (1 .. n), NEW m \in S, NEW v, NEW h, KeepsLess(h, v, S, n, m)
  PROVE  h[n] = LeastCell(v, S)
<1>8. /\ h[0] = v[m]
      /\ \A i \in S : v[i] \in Int
      /\ \A k \in 1 .. n : k \in S => h[k] = IF Exceeds(h[k - 1], v[k]) THEN v[k] ELSE h[k - 1]
      /\ \A k \in 1 .. n : k \notin S => h[k] = h[k - 1]
  BY DEF KeepsLess
<1> USE <1>8
<1> DEFINE T == {k \in 0 .. n : /\ \E i \in S : h[k] = v[i]
                                /\ \A j \in S : j <= k \/ j = m => h[k] <= v[j]}
<1>0. S \subseteq 1 .. n /\ \A j \in S : j \in Int /\ j >= 1
  OBVIOUS
<1>1. 0 \in T
  <2>1. \A j \in S : ~(j <= 0)
    BY <1>0
  <2> QED
    BY <2>1
<1>2. ASSUME NEW k \in 1 .. n, k - 1 \in T PROVE k \in T
  <2>1. PICK i \in S : h[k - 1] = v[i]
    BY <1>2
  <2>2. \A j \in S : j <= k - 1 \/ j = m => v[i] <= v[j]
    BY <1>2, <2>1
  <2>3. \A j \in S : j <= k \/ j = m => j <= k - 1 \/ j = m \/ j = k
    BY <1>0
  <2>4. k \in 0 .. n /\ v[i] \in Int
    OBVIOUS
  <2> SUFFICES (\E g \in S : h[k] = v[g]) /\ \A j \in S : j <= k \/ j = m => h[k] <= v[j]
    BY <2>4
  <2> HIDE DEF T
  <2>5. CASE k \notin S
    BY <2>1, <2>2, <2>3, <2>5
  <2>6. CASE k \in S
    <3>1. PICK x \in Int, y \in Int : x = v[k] /\ y = v[i]
      BY <2>6
    <3>2. Exceeds(y, x) <=> y > x
      BY MakerAssumption DEF Exceeds
    <3>3. h[k] = IF y > x THEN x ELSE y
      BY <2>1, <2>6, <3>1, <3>2
    <3>4. \E g \in S : h[k] = v[g]
      BY <2>6, <3>1, <3>3
    <3>5. ASSUME NEW j \in S, j <= k \/ j = m PROVE h[k] <= v[j]
      <4>1. PICK z \in Int : z = v[j]
        OBVIOUS
      <4>2. y <= z \/ z = x
        BY <2>2, <2>3, <3>1, <3>5, <4>1
      <4>3. (IF y > x THEN x ELSE y) <= z
        BY <4>2
      <4> QED
        BY <3>3, <4>1, <4>3
    <3> QED
      BY <3>4, <3>5
  <2> QED
    BY <2>5, <2>6
<1> HIDE DEF T
<1>3. 0 .. n \subseteq T
  BY <1>1, <1>2, UpTo
<1>4. n \in T
  BY <1>3
<1>5. \A j \in S : j <= n
  BY <1>0
<1> DEFINE cells == {v[i] : i \in S}
<1>6. cells \in SUBSET Int /\ h[n] \in cells /\ \A x \in cells : h[n] <= x
  BY <1>4, <1>5 DEF T
<1> HIDE DEF cells
<1>7. Min(cells) = h[n]
  BY <1>6, LeastIs
<1> QED
  BY <1>7 DEF cells, LeastCell

(* The volume of a set of rows, a row at a time.                           *)
VolumeSums(sums, r, S, n) ==
  /\ Contract!Volume(r, S) = sums[n] /\ sums[0] = 0
  /\ \A k \in 0 .. n : sums[k] \in Int
  /\ \A k \in 1 .. n : k \in S => sums[k] = sums[k - 1] + r.frame.rows[k].volume
  /\ \A k \in 1 .. n : k \notin S => sums[k] = sums[k - 1]

Voluminous(r, S) == \A i \in S : r.frame.rows[i].volume \in Int

(* The contract's volume, a row at a time.                                 *)
LEMMA VolumeSteps ==
  ASSUME NEW r, NEW n \in Nat, Len(r.frame.rows) = n, NEW S \in SUBSET (1 .. n),
         Voluminous(r, S)
  PROVE  \E sums : VolumeSums(sums, r, S, n)
<1>1. PICK sums : IsVolume(sums, r, S) /\ Contract!Volume(r, S) = sums[n]
  BY VolumeIsASum
<1>2. /\ sums[0] = 0
      /\ \A k \in 1 .. n : sums[k] = sums[k - 1] + (IF k \in S THEN r.frame.rows[k].volume ELSE 0)
  <2>1. 0 \in 0 .. n /\ \A k \in 1 .. n : k \in 0 .. n /\ k # 0
    OBVIOUS
  <2> QED
    BY <1>1, <2>1 DEF IsVolume
<1> DEFINE T == {i \in 0 .. n : sums[i] \in Int}
<1>3. 0 \in T
  BY <1>2
<1>4. ASSUME NEW i \in 1 .. n, i - 1 \in T PROVE i \in T
  <2>1. sums[i - 1] \in Int /\ (IF i \in S THEN r.frame.rows[i].volume ELSE 0) \in Int
    BY <1>4 DEF Voluminous
  <2> QED
    BY <1>2, <2>1
<1> HIDE DEF T
<1>5. 0 .. n \subseteq T
  BY <1>3, <1>4, UpTo
<1>6. \A k \in 0 .. n : sums[k] \in Int
  BY <1>5 DEF T
<1>7. \A k \in 1 .. n : k \in S => sums[k] = sums[k - 1] + r.frame.rows[k].volume
  BY <1>2
<1>8. \A k \in 1 .. n : k \notin S => sums[k] = sums[k - 1]
  <2>1. \A k \in 1 .. n : k - 1 \in 0 .. n
    OBVIOUS
  <2> QED
    BY <1>2, <1>6, <2>1
<1> QED
  BY <1>1, <1>2, <1>6, <1>7, <1>8 DEF VolumeSums

AddsVolume(f, r, S, n) ==
  /\ f[0] = 0
  /\ \A k \in 1 .. n : k \in S => f[k] = Plus(f[k - 1], r.frame.rows[k].volume)
  /\ \A k \in 1 .. n : k \notin S => f[k] = f[k - 1]

(* What adds each volume ends with the sum of them.                        *)
LEMMA AddsTheVolume ==
  ASSUME NEW r, NEW n \in Nat, Len(r.frame.rows) = n, NEW S \in SUBSET (1 .. n),
         Voluminous(r, S),
         NEW f, AddsVolume(f, r, S, n)
  PROVE  f[n] = Contract!Volume(r, S)
<1>8. /\ f[0] = 0
      /\ \A k \in 1 .. n : k \in S => f[k] = Plus(f[k - 1], r.frame.rows[k].volume)
      /\ \A k \in 1 .. n : k \notin S => f[k] = f[k - 1]
  BY DEF AddsVolume
<1> USE <1>8
<1>0. PICK sums : VolumeSums(sums, r, S, n)
  BY VolumeSteps
<1>1. /\ Contract!Volume(r, S) = sums[n] /\ sums[0] = 0
      /\ \A k \in 0 .. n : sums[k] \in Int
      /\ \A k \in 1 .. n : k \in S => sums[k] = sums[k - 1] + r.frame.rows[k].volume
      /\ \A k \in 1 .. n : k \notin S => sums[k] = sums[k - 1]
  BY <1>0 DEF VolumeSums
<1> DEFINE T == {k \in 0 .. n : f[k] = sums[k]}
<1>2. 0 \in T
  BY <1>1
<1>3. ASSUME NEW k \in 1 .. n, k - 1 \in T PROVE k \in T
  <2>1. f[k - 1] = sums[k - 1] /\ sums[k - 1] \in Int
    BY <1>1, <1>3
  <2>2. CASE k \in S
    <3>1. PICK x \in Int : x = r.frame.rows[k].volume
      BY <2>2 DEF Voluminous
    <3>2. PICK y \in Int : y = sums[k - 1]
      BY <2>1
    <3>3. Plus(y, x) = y + x
      BY MakerAssumption DEF Plus
    <3> QED
      BY <1>1, <2>1, <2>2, <3>1, <3>2, <3>3
  <2>3. CASE k \notin S
    BY <1>1, <2>1, <2>3
  <2> QED
    BY <2>2, <2>3
<1> HIDE DEF T
<1>4. 0 .. n \subseteq T
  BY <1>2, <1>3, UpTo
<1>5. n \in T
  BY <1>4
<1> QED
  BY <1>1, <1>5 DEF T

-----------------------------------------------------------------------------
(* The oracle's row                                                        *)

(* Only one row of a set is the earliest, and one the latest.              *)
LEMMA EarliestIs ==
  ASSUME NEW r, NEW S \in SUBSET Int, NEW i \in S, \A j \in S : Contract!Opens(r, j) \in Int,
         \A j \in S \ {i} : \/ Contract!Opens(r, i) < Contract!Opens(r, j)
                            \/ Contract!Opens(r, i) = Contract!Opens(r, j) /\ i < j
  PROVE  Contract!Earliest(r, S) = i
<1> DEFINE First1(k) == \A j \in S \ {k} : \/ Contract!Opens(r, k) < Contract!Opens(r, j)
                                           \/ Contract!Opens(r, k) = Contract!Opens(r, j) /\ k < j
           g == CHOOSE k \in S : First1(k)
<1>1. First1(i)
  OBVIOUS
<1>2. g \in S /\ First1(g)
  BY <1>1
<1>3. Contract!Earliest(r, S) = g
  BY DEF Contract!Earliest
<1> HIDE DEF g
<1>4. g = i
  <2> SUFFICES ASSUME g # i PROVE FALSE
    OBVIOUS
  <2>1. PICK x \in Int, y \in Int : x = Contract!Opens(r, i) /\ y = Contract!Opens(r, g)
    BY <1>2
  <2>2. x < y \/ (x = y /\ i < g)
    BY <1>1, <1>2, <2>1
  <2>3. y < x \/ (x = y /\ g < i)
    BY <1>2, <2>1
  <2>4. g \in Int /\ i \in Int
    BY <1>2
  <2> QED
    BY <2>1, <2>2, <2>3, <2>4
<1> QED
  BY <1>3, <1>4

(* Likewise of the latest.                                                 *)
LEMMA LatestIs ==
  ASSUME NEW r, NEW S \in SUBSET Int, NEW i \in S, \A j \in S : Contract!Opens(r, j) \in Int,
         \A j \in S \ {i} : \/ Contract!Opens(r, i) > Contract!Opens(r, j)
                            \/ Contract!Opens(r, i) = Contract!Opens(r, j) /\ i < j
  PROVE  Contract!Latest(r, S) = i
<1> DEFINE Last1(k) == \A j \in S \ {k} : \/ Contract!Opens(r, k) > Contract!Opens(r, j)
                                          \/ Contract!Opens(r, k) = Contract!Opens(r, j) /\ k < j
           g == CHOOSE k \in S : Last1(k)
<1>1. Last1(i)
  OBVIOUS
<1>2. g \in S /\ Last1(g)
  BY <1>1
<1>3. Contract!Latest(r, S) = g
  BY DEF Contract!Latest
<1> HIDE DEF g
<1>4. g = i
  <2> SUFFICES ASSUME g # i PROVE FALSE
    OBVIOUS
  <2>1. PICK x \in Int, y \in Int : x = Contract!Opens(r, i) /\ y = Contract!Opens(r, g)
    BY <1>2
  <2>2. x > y \/ (x = y /\ i < g)
    BY <1>1, <1>2, <2>1
  <2>3. y > x \/ (x = y /\ g < i)
    BY <1>2, <2>1
  <2>4. g \in Int /\ i \in Int
    BY <1>2
  <2> QED
    BY <2>1, <2>2, <2>3, <2>4
<1> QED
  BY <1>3, <1>4

(* Candles that are the rows of the frame, column by column.               *)
Mirrors(cs, r, n) ==
  /\ n \in Nat /\ Len(cs) = n /\ Len(r.frame.rows) = n /\ DOMAIN r.frame.rows = 1 .. n
  /\ \A i \in 1 .. n : cs[i] = Candle(r, i) /\ Contract!Opens(r, i) \in Int
                         /\ Contract!Closes(r, i) = Contract!Opens(r, i) + r.cadence
  /\ \A i \in 1 .. n : /\ cs[i].open_time = Contract!Opens(r, i)
                       /\ cs[i].close_time = Contract!Closes(r, i)
                       /\ cs[i].open = r.frame.rows[i].open /\ cs[i].close = r.frame.rows[i].close
                       /\ cs[i].high = r.frame.rows[i].high /\ cs[i].low = r.frame.rows[i].low
                       /\ cs[i].volume = r.frame.rows[i].volume

(* The oracle's candles are the frame's rows, in their order.              *)
LEMMA CandlesMirror ==
  ASSUME NEW r \in Request
  PROVE  Mirrors(Candles(r), r, Len(r.frame.rows))
<1> DEFINE n == Len(r.frame.rows)
           cs == Candles(r)
<1>1. n \in Nat /\ DOMAIN r.frame.rows = 1 .. n
  BY RequestAssumption
<1>2. Len(cs) = n
  BY ArrangedLen DEF Held
<1>3. \A i \in 1 .. n : Contract!Opens(r, i) \in Int /\ Contract!Closes(r, i) = Contract!Opens(r, i) + r.cadence
  <2>1. 0 \in Int
    OBVIOUS
  <2> QED
    BY <2>1, ContainedAre
<1>4. \A i \in 1 .. n : cs[i] = Candle(r, i)
  BY <1>1 DEF Candles
<1> HIDE DEF n, cs
<1>5. ASSUME NEW i \in 1 .. n
      PROVE  /\ cs[i].open_time = Contract!Opens(r, i)
             /\ cs[i].close_time = Contract!Closes(r, i)
             /\ cs[i].open = r.frame.rows[i].open /\ cs[i].close = r.frame.rows[i].close
             /\ cs[i].high = r.frame.rows[i].high /\ cs[i].low = r.frame.rows[i].low
             /\ cs[i].volume = r.frame.rows[i].volume
  <2>1. /\ Candle(r, i).open_time = Contract!Opens(r, i)
        /\ Candle(r, i).close_time = Contract!Closes(r, i)
        /\ Candle(r, i).open = r.frame.rows[i].open
        /\ Candle(r, i).high = r.frame.rows[i].high
        /\ Candle(r, i).low = r.frame.rows[i].low
        /\ Candle(r, i).close = r.frame.rows[i].close
        /\ Candle(r, i).volume = r.frame.rows[i].volume
    BY CandleColumns
  <2>2. cs[i] = Candle(r, i)
    BY <1>4
  <2> QED
    BY <2>1, <2>2
<1>6. Len(r.frame.rows) = n
  BY DEF n
<1>7. Mirrors(cs, r, n)
  BY <1>1, <1>2, <1>3, <1>4, <1>5, <1>6 DEF Mirrors
<1> QED
  BY <1>7 DEF n, cs

Turns(acc, cs, S, n) ==
  /\ Accounted(cs, S) = acc[n]
  /\ acc[0].earliest = cs[Min(S)] /\ acc[0].latest = cs[Min(S)]
  /\ acc[0].high = cs[Min(S)].high /\ acc[0].low = cs[Min(S)].low
  /\ acc[0].volume = 0 /\ acc[0].coverage = 0 /\ acc[0].traded = 0
  /\ \A k \in 1 .. n : k \in S => acc[k] = Account(acc[k - 1], cs[k])
  /\ \A k \in 1 .. n : k \notin S => acc[k] = acc[k - 1]

(* The loop over them.                                                     *)
LEMMA TurnsExist ==
  ASSUME NEW cs, NEW S, NEW n \in Nat, Len(cs) = n
  PROVE  \E acc : Turns(acc, cs, S, n)
  BY AccountTurns DEF Turns

(* The rows it takes open and close from.                                  *)
LEMMA OracleSelects ==
  ASSUME NEW cs, NEW r, NEW n, Mirrors(cs, r, n), NEW S \in SUBSET (1 .. n), S # {}
  PROVE  /\ Contract!Earliest(r, S) \in S /\ Contract!Latest(r, S) \in S
         /\ Accounted(cs, S).earliest = cs[Contract!Earliest(r, S)]
         /\ Accounted(cs, S).latest = cs[Contract!Latest(r, S)]
<1>0. n \in Nat /\ Len(cs) = n
  BY DEF Mirrors
<1>1. PICK acc : Turns(acc, cs, S, n)
  BY <1>0, TurnsExist
<1> DEFINE m == Min(S)
           e == [k \in 0 .. n |-> acc[k].earliest]
           l == [k \in 0 .. n |-> acc[k].latest]
<1>2. m \in S /\ \A x \in S : m <= x
  <2>1. S \in SUBSET Int /\ IsFiniteSet(1 .. n)
    BY <1>0, FS_Interval
  <2>2. IsFiniteSet(S)
    BY <2>1, FS_Subset
  <2> QED
    BY <2>1, <2>2, LeastNumber
<1>3. \A i \in S : cs[i].open_time \in Int /\ cs[i].open_time = Contract!Opens(r, i)
  BY DEF Mirrors
<1>4. e[0] = cs[m] /\ l[0] = cs[m]
  BY <1>0, <1>1 DEF Turns
<1>5. ASSUME NEW k \in 1 .. n, k \in S
      PROVE  /\ e[k] = IF cs[k].open_time < e[k - 1].open_time THEN cs[k] ELSE e[k - 1]
             /\ l[k] = IF cs[k].open_time > l[k - 1].open_time THEN cs[k] ELSE l[k - 1]
  <2>1. k \in 0 .. n /\ k - 1 \in 0 .. n
    BY <1>0
  <2>2. acc[k] = Account(acc[k - 1], cs[k])
    BY <1>1, <1>5 DEF Turns
  <2>3. /\ Account(acc[k - 1], cs[k]).earliest =
             IF cs[k].open_time < acc[k - 1].earliest.open_time THEN cs[k] ELSE acc[k - 1].earliest
        /\ Account(acc[k - 1], cs[k]).latest =
             IF cs[k].open_time > acc[k - 1].latest.open_time THEN cs[k] ELSE acc[k - 1].latest
    BY AccountColumns
  <2> QED
    BY <2>1, <2>2, <2>3
<1>6. ASSUME NEW k \in 1 .. n, k \notin S PROVE e[k] = e[k - 1] /\ l[k] = l[k - 1]
  <2>1. k \in 0 .. n /\ k - 1 \in 0 .. n
    BY <1>0
  <2> QED
    BY <1>1, <1>6, <2>1 DEF Turns
<1>7. Accounted(cs, S).earliest = e[n] /\ Accounted(cs, S).latest = l[n]
  BY <1>0, <1>1 DEF Turns
<1> HIDE DEF e, l, m
<1>8. PICK i \in S : e[n] = cs[i] /\ \A j \in S \ {i} : Ahead(cs, i, j)
  <2>1. /\ \A k \in 1 .. n : k \in S => e[k] = IF cs[k].open_time < e[k - 1].open_time THEN cs[k] ELSE e[k - 1]
        /\ \A k \in 1 .. n : k \notin S => e[k] = e[k - 1]
    BY <1>5, <1>6
  <2>2. KeepsEarlier(e, cs, S, n, m)
    BY <1>2, <1>3, <1>4, <2>1 DEF KeepsEarlier
  <2> QED
    BY <1>0, <1>2, <2>2, KeepsTheEarliest
<1>9. PICK h \in S : l[n] = cs[h] /\ \A j \in S \ {h} : Outlasts(cs, h, j)
  <2>1. /\ \A k \in 1 .. n : k \in S => l[k] = IF cs[k].open_time > l[k - 1].open_time THEN cs[k] ELSE l[k - 1]
        /\ \A k \in 1 .. n : k \notin S => l[k] = l[k - 1]
    BY <1>5, <1>6
  <2>2. KeepsLater(l, cs, S, n, m)
    BY <1>2, <1>3, <1>4, <2>1 DEF KeepsLater
  <2> QED
    BY <1>0, <1>2, <2>2, KeepsTheLatest, ZenonT(60)
<1>10. S \in SUBSET Int /\ \A j \in S : Contract!Opens(r, j) \in Int
  BY <1>0, <1>3
<1>11. Contract!Earliest(r, S) = i
  <2>1. ASSUME NEW j \in S \ {i}
        PROVE  \/ Contract!Opens(r, i) < Contract!Opens(r, j)
               \/ Contract!Opens(r, i) = Contract!Opens(r, j) /\ i < j
    BY <1>3, <1>8 DEF Ahead
  <2> QED
    BY <1>10, <2>1, EarliestIs
<1>12. Contract!Latest(r, S) = h
  <2>1. ASSUME NEW j \in S \ {h}
        PROVE  \/ Contract!Opens(r, h) > Contract!Opens(r, j)
               \/ Contract!Opens(r, h) = Contract!Opens(r, j) /\ h < j
    BY <1>3, <1>9 DEF Outlasts
  <2> QED
    BY <1>10, <2>1, LatestIs
<1> QED
  BY <1>7, <1>8, <1>9, <1>11, <1>12

(* The first row of some.                                                  *)
LEMMA FirstOfRows ==
  ASSUME NEW n \in Nat, NEW S \in SUBSET (1 .. n), S # {}
  PROVE  Min(S) \in S /\ \A x \in S : Min(S) <= x
<1>1. S \in SUBSET Int /\ IsFiniteSet(1 .. n)
  BY FS_Interval
<1>2. IsFiniteSet(S)
  BY <1>1, FS_Subset
<1> QED
  BY <1>1, <1>2, LeastNumber

(* Its extremes, where the cells are numbers.                              *)
Extreme(r, S, high, low) ==
  /\ (\A i \in S : r.frame.rows[i].high \in Int) => high = Max({r.frame.rows[i].high : i \in S})
  /\ (\A i \in S : r.frame.rows[i].low \in Int) => low = Min({r.frame.rows[i].low : i \in S})

(* The extreme cells kept are those of the rows.                           *)
LEMMA OracleExtremes ==
  ASSUME NEW cs, NEW r, NEW n, Mirrors(cs, r, n), NEW S \in SUBSET (1 .. n), S # {}
  PROVE  Extreme(r, S, Accounted(cs, S).high, Accounted(cs, S).low)
<1>0. n \in Nat /\ Len(cs) = n
  BY DEF Mirrors
<1>1. PICK acc : Turns(acc, cs, S, n)
  BY <1>0, TurnsExist
<1> DEFINE m == Min(S)
           highs == [i \in 1 .. n |-> r.frame.rows[i].high]
           lows == [i \in 1 .. n |-> r.frame.rows[i].low]
           h == [k \in 0 .. n |-> acc[k].high]
           l == [k \in 0 .. n |-> acc[k].low]
<1>2. m \in S
  BY <1>0, FirstOfRows
<1>3. \A i \in 1 .. n : cs[i].high = highs[i] /\ cs[i].low = lows[i]
  BY DEF Mirrors
<1>4. h[0] = highs[m] /\ l[0] = lows[m]
  <2>1. h[0] = cs[m].high /\ l[0] = cs[m].low
    BY <1>0, <1>1 DEF Turns
  <2>2. m \in 1 .. n
    BY <1>2
  <2> QED
    BY <1>3, <2>1, <2>2
<1>5. ASSUME NEW k \in 1 .. n, k \in S
      PROVE  /\ h[k] = IF Exceeds(highs[k], h[k - 1]) THEN highs[k] ELSE h[k - 1]
             /\ l[k] = IF Exceeds(l[k - 1], lows[k]) THEN lows[k] ELSE l[k - 1]
  <2>1. k \in 0 .. n /\ k - 1 \in 0 .. n
    BY <1>0
  <2>2. acc[k] = Account(acc[k - 1], cs[k])
    BY <1>1, <1>5 DEF Turns
  <2>3. /\ Account(acc[k - 1], cs[k]).high =
             IF Exceeds(cs[k].high, acc[k - 1].high) THEN cs[k].high ELSE acc[k - 1].high
        /\ Account(acc[k - 1], cs[k]).low =
             IF Exceeds(acc[k - 1].low, cs[k].low) THEN cs[k].low ELSE acc[k - 1].low
    BY AccountColumns
  <2>4. cs[k].high = highs[k] /\ cs[k].low = lows[k]
    BY <1>3
  <2>5. /\ h[k] = acc[k].high /\ h[k - 1] = acc[k - 1].high
        /\ l[k] = acc[k].low /\ l[k - 1] = acc[k - 1].low
    BY <2>1
  <2> HIDE DEF h, l, highs, lows
  <2> QED
    BY <2>2, <2>3, <2>4, <2>5
<1>6. ASSUME NEW k \in 1 .. n, k \notin S PROVE h[k] = h[k - 1] /\ l[k] = l[k - 1]
  <2>1. k \in 0 .. n /\ k - 1 \in 0 .. n
    BY <1>0
  <2> QED
    BY <1>1, <1>6, <2>1 DEF Turns
<1>7. Accounted(cs, S).high = h[n] /\ Accounted(cs, S).low = l[n]
  BY <1>0, <1>1 DEF Turns
<1>8. /\ \A i \in S : highs[i] = r.frame.rows[i].high /\ lows[i] = r.frame.rows[i].low
      /\ {highs[i] : i \in S} = {r.frame.rows[i].high : i \in S}
      /\ {lows[i] : i \in S} = {r.frame.rows[i].low : i \in S}
  OBVIOUS
<1> HIDE DEF h, l, highs, lows, m
<1>9. ASSUME \A i \in S : r.frame.rows[i].high \in Int
      PROVE  Accounted(cs, S).high = Max({r.frame.rows[i].high : i \in S})
  <2>1. KeepsGreater(h, highs, S, n, m)
    <3>1. \A i \in S : highs[i] \in Int
      BY <1>8, <1>9
    <3>2. \A k \in 1 .. n : k \in S => h[k] = IF Exceeds(highs[k], h[k - 1]) THEN highs[k] ELSE h[k - 1]
      BY <1>5
    <3>3. \A k \in 1 .. n : k \notin S => h[k] = h[k - 1]
      BY <1>6
    <3>4. h[0] = highs[m]
      BY <1>4
    <3> QED
      BY <3>1, <3>2, <3>3, <3>4 DEF KeepsGreater
  <2>2. h[n] = GreatestCell(highs, S)
    BY <1>0, <1>2, <2>1, KeepsTheGreatest
  <2> QED
    BY <1>7, <1>8, <2>2 DEF GreatestCell
<1>10. ASSUME \A i \in S : r.frame.rows[i].low \in Int
       PROVE  Accounted(cs, S).low = Min({r.frame.rows[i].low : i \in S})
  <2>1. KeepsLess(l, lows, S, n, m)
    <3>1. \A i \in S : lows[i] \in Int
      BY <1>8, <1>10
    <3>2. \A k \in 1 .. n : k \in S => l[k] = IF Exceeds(l[k - 1], lows[k]) THEN lows[k] ELSE l[k - 1]
      BY <1>5
    <3>3. \A k \in 1 .. n : k \notin S => l[k] = l[k - 1]
      BY <1>6
    <3>4. l[0] = lows[m]
      BY <1>4
    <3> QED
      BY <3>1, <3>2, <3>3, <3>4 DEF KeepsLess
  <2>2. l[n] = LeastCell(lows, S)
    BY <1>0, <1>2, <2>1, KeepsTheLeast
  <2> QED
    BY <1>7, <1>8, <2>2 DEF LeastCell
<1> QED
  BY <1>9, <1>10 DEF Extreme

(* And what it adds up.                                                    *)
Trading(r, S) == {i \in S : Exceeds(r.frame.rows[i].volume, 0)}

(* The volume is the sum, and the seconds are one row's for each.          *)
LEMMA OracleAdds ==
  ASSUME NEW cs, NEW r, NEW n, Mirrors(cs, r, n), NEW S \in SUBSET (1 .. n), r.cadence \in Int
  PROVE  /\ Voluminous(r, S) => Accounted(cs, S).volume = Contract!Volume(r, S)
         /\ Accounted(cs, S).coverage = Cardinality(S) * r.cadence
         /\ Accounted(cs, S).traded = Cardinality(Trading(r, S)) * r.cadence
<1>0. n \in Nat /\ Len(cs) = n /\ Len(r.frame.rows) = n
  BY DEF Mirrors
<1>1. PICK acc : Turns(acc, cs, S, n)
  BY <1>0, TurnsExist
<1> DEFINE d == r.cadence
           v == [k \in 0 .. n |-> acc[k].volume]
           c == [k \in 0 .. n |-> acc[k].coverage]
           u == [k \in 0 .. n |-> acc[k].traded]
<1>2. v[0] = 0 /\ c[0] = 0 /\ u[0] = 0
  BY <1>0, <1>1 DEF Turns
<1>3. \A i \in 1 .. n : cs[i].volume = r.frame.rows[i].volume /\ cs[i].close_time - cs[i].open_time = d
  <2> TAKE i \in 1 .. n
  <2>1. PICK opens \in Int : opens = Contract!Opens(r, i) /\ Contract!Closes(r, i) = opens + d
    BY DEF Mirrors
  <2>2. cs[i].volume = r.frame.rows[i].volume /\ cs[i].close_time = opens + d /\ cs[i].open_time = opens
    BY <2>1 DEF Mirrors
  <2>3. (opens + d) - opens = d
    OBVIOUS
  <2> QED
    BY <2>2, <2>3
<1>4. ASSUME NEW k \in 1 .. n, k \in S
      PROVE  /\ v[k] = Plus(v[k - 1], r.frame.rows[k].volume)
             /\ c[k] = c[k - 1] + d
             /\ u[k] = IF k \in Trading(r, S) THEN u[k - 1] + d ELSE u[k - 1]
  <2>1. k \in 0 .. n /\ k - 1 \in 0 .. n
    BY <1>0
  <2>2. acc[k] = Account(acc[k - 1], cs[k])
    BY <1>1, <1>4 DEF Turns
  <2>3. /\ Account(acc[k - 1], cs[k]).volume = Plus(acc[k - 1].volume, cs[k].volume)
        /\ Account(acc[k - 1], cs[k]).coverage = acc[k - 1].coverage + (cs[k].close_time - cs[k].open_time)
        /\ Account(acc[k - 1], cs[k]).traded =
             IF Exceeds(cs[k].volume, 0) THEN acc[k - 1].traded + (cs[k].close_time - cs[k].open_time)
             ELSE acc[k - 1].traded
    BY AccountColumns
  <2>4. cs[k].volume = r.frame.rows[k].volume /\ cs[k].close_time - cs[k].open_time = d
    BY <1>3
  <2>5. /\ v[k] = acc[k].volume /\ v[k - 1] = acc[k - 1].volume
        /\ c[k] = acc[k].coverage /\ c[k - 1] = acc[k - 1].coverage
        /\ u[k] = acc[k].traded /\ u[k - 1] = acc[k - 1].traded
    BY <2>1
  <2>6. k \in Trading(r, S) <=> Exceeds(r.frame.rows[k].volume, 0)
    BY <1>4 DEF Trading
  <2> HIDE DEF v, c, u, d
  <2> QED
    BY <2>2, <2>3, <2>4, <2>5, <2>6
<1>5. ASSUME NEW k \in 1 .. n, k \notin S PROVE v[k] = v[k - 1] /\ c[k] = c[k - 1] /\ u[k] = u[k - 1]
  <2>1. k \in 0 .. n /\ k - 1 \in 0 .. n
    BY <1>0
  <2> QED
    BY <1>1, <1>5, <2>1 DEF Turns
<1>6. /\ Accounted(cs, S).volume = v[n] /\ Accounted(cs, S).coverage = c[n]
      /\ Accounted(cs, S).traded = u[n]
  BY <1>0, <1>1 DEF Turns
<1>7. Trading(r, S) \in SUBSET (1 .. n) /\ d \in Int
  BY DEF Trading
<1> HIDE DEF v, c, u, d
<1>8. ASSUME Voluminous(r, S) PROVE v[n] = Contract!Volume(r, S)
  <2>1. AddsVolume(v, r, S, n)
    BY <1>2, <1>4, <1>5 DEF AddsVolume
  <2> QED
    BY <1>0, <1>8, <2>1, AddsTheVolume
<1>9. c[n] = Cardinality(S) * d
  <2>1. Grows(c, S, n, d)
    BY <1>2, <1>4, <1>5 DEF Grows
  <2> QED
    BY <1>0, <1>7, <2>1, GrowsByEach
<1>10. u[n] = Cardinality(Trading(r, S)) * d
  <2>1. \A k \in 1 .. n : k \in Trading(r, S) => u[k] = u[k - 1] + d
    BY <1>4 DEF Trading
  <2>2. \A k \in 1 .. n : k \notin Trading(r, S) => u[k] = u[k - 1]
    BY <1>4, <1>5
  <2>3. Grows(u, Trading(r, S), n, d)
    BY <1>2, <2>1, <2>2 DEF Grows
  <2> QED
    BY <1>0, <1>7, <2>3, GrowsByEach
<1> QED
  BY <1>6, <1>8, <1>9, <1>10 DEF d

-----------------------------------------------------------------------------
(* A row of the oracle's is the row of its window                          *)

(* Those of the rows in S that trade.                                      *)
Traders(r, S) == {i \in S : r.frame.rows[i].volume # Null /\ Exceeds(r.frame.rows[i].volume, 0)}

(* What a row holds that is the row of a window with some row in it.       *)
Fits(r, t, S, row) ==
  /\ row.open_time = t - r.window /\ row.close_time = t
  /\ row.open = r.frame.rows[Contract!Earliest(r, S)].open
  /\ row.close = r.frame.rows[Contract!Latest(r, S)].close
  /\ Extreme(r, S, row.high, row.low)
  /\ Voluminous(r, S) => row.volume = Contract!Volume(r, S)
  /\ row.src_count = Cardinality(S)
  /\ row.coverage = Cardinality(S) * r.cadence
  /\ row.traded = Cardinality(Traders(r, S)) * r.cadence

(* The columns of a cell's row.                                            *)
LEMMA CellsAre ==
  ASSUME NEW r, NEW S
  PROVE  /\ Contract!Cells(r, S, "high") = {r.frame.rows[i].high : i \in S}
         /\ Contract!Cells(r, S, "low") = {r.frame.rows[i].low : i \in S}
         /\ Contract!Cells(r, S, "volume") = {r.frame.rows[i].volume : i \in S}
  BY DEF Contract!Cells

(* A cell is a number, null or NaN, and the last two are not numbers.      *)
LEMMA CellsOf ==
  ASSUME NEW r \in Request, NEW i \in 1 .. Len(r.frame.rows)
  PROVE  /\ r.frame.rows[i].high \in Int \cup {Null, NaN}
         /\ r.frame.rows[i].low \in Int \cup {Null, NaN}
         /\ r.frame.rows[i].volume \in Int \cup {Null, NaN}
         /\ r.frame.rows[i].high \in Int => NeutralHigh < r.frame.rows[i].high
         /\ r.frame.rows[i].low \in Int => NeutralLow > r.frame.rows[i].low
         /\ NeutralHigh \in Int /\ NeutralLow \in Int
         /\ Null # NaN /\ Null \notin Int /\ NaN \notin Int
<1>1. DOMAIN r.frame.rows = 1 .. Len(r.frame.rows)
  BY RequestAssumption
<1>2. i \in DOMAIN r.frame.rows
  BY <1>1
<1>3. Null # NaN /\ Null \notin Int /\ NaN \notin Int /\ NeutralHigh \in Int /\ NeutralLow \in Int
  BY MakerAssumption
<1>4. /\ {r.frame.rows[i].high, r.frame.rows[i].low, r.frame.rows[i].volume} \subseteq Int \cup {Null, NaN}
      /\ r.frame.rows[i].high \notin {Null, NaN} => NeutralHigh < r.frame.rows[i].high
      /\ r.frame.rows[i].low \notin {Null, NaN} => NeutralLow > r.frame.rows[i].low
  BY <1>2, MakerAssumption
<1> QED
  BY <1>3, <1>4

(* Such a row is the contract's.                                           *)
LEMMA FitsIsWindow ==
  ASSUME NEW r \in Request, NEW t \in Int, NEW row, NEW S,
         S = Contract!Contained(r, t), S # {}, Fits(r, t, S, row)
  PROVE  Contract!IsWindow(r, t, row)
<1> DEFINE n == Len(r.frame.rows)
<1>1. S \in SUBSET (1 .. n)
  BY ContainedAre
<1>2. \A i \in S : /\ r.frame.rows[i].high \in Int \cup {Null, NaN}
                   /\ r.frame.rows[i].low \in Int \cup {Null, NaN}
                   /\ r.frame.rows[i].volume \in Int \cup {Null, NaN}
                   /\ Null # NaN /\ Null \notin Int /\ NaN \notin Int
  BY <1>1, CellsOf
<1>3. Contract!Selected(r, t, row)
  BY DEF Contract!Selected, Fits
<1>4. ASSUME Contract!Numbers(Contract!Cells(r, S, "high"))
      PROVE  row.high = Contract!Max(Contract!Cells(r, S, "high"))
  <2>1. {r.frame.rows[i].high : i \in S} \cap {Null, NaN} = {}
    BY <1>4, CellsAre DEF Contract!Numbers
  <2>2. \A i \in S : r.frame.rows[i].high \in Int
    BY <1>2, <2>1
  <2>3. row.high = Max({r.frame.rows[i].high : i \in S})
    BY <2>2 DEF Fits, Extreme
  <2> QED
    BY <2>3, CellsAre, SameExtremes
<1>5. ASSUME Contract!Numbers(Contract!Cells(r, S, "low"))
      PROVE  row.low = Contract!Min(Contract!Cells(r, S, "low"))
  <2>1. {r.frame.rows[i].low : i \in S} \cap {Null, NaN} = {}
    BY <1>5, CellsAre DEF Contract!Numbers
  <2>2. \A i \in S : r.frame.rows[i].low \in Int
    BY <1>2, <2>1
  <2>3. row.low = Min({r.frame.rows[i].low : i \in S})
    BY <2>2 DEF Fits, Extreme
  <2> QED
    BY <2>3, CellsAre, SameExtremes
<1>6. ASSUME Contract!Numbers(Contract!Cells(r, S, "volume"))
      PROVE  row.volume = Contract!Volume(r, S)
  <2>1. {r.frame.rows[i].volume : i \in S} \cap {Null, NaN} = {}
    BY <1>6, CellsAre DEF Contract!Numbers
  <2>2. \A i \in S : r.frame.rows[i].volume \in Int
    BY <1>2, <2>1
  <2> QED
    BY <2>2 DEF Fits, Voluminous
<1>7. Contract!Combined(r, t, row)
  BY <1>4, <1>5, <1>6 DEF Contract!Combined
<1>8. {i \in S : Contract!Numbers(Contract!Cells(r, {i}, "volume")) /\ r.frame.rows[i].volume > 0}
        = Traders(r, S)
  <2>1. ASSUME NEW i \in S
        PROVE  Contract!Numbers(Contract!Cells(r, {i}, "volume")) <=>
                 r.frame.rows[i].volume \notin {Null, NaN}
    BY CellsAre DEF Contract!Numbers
  <2>2. \A i \in S : (Contract!Numbers(Contract!Cells(r, {i}, "volume")) /\ r.frame.rows[i].volume > 0)
                       <=> (r.frame.rows[i].volume # Null /\ Exceeds(r.frame.rows[i].volume, 0))
    <3> TAKE i \in S
    <3>1. r.frame.rows[i].volume \in Int \cup {Null, NaN} /\ NaN \notin Int
      BY <1>2
    <3>2. NaN # 0
      BY <3>1
    <3>3. NaN \notin {r.frame.rows[i].volume, 0} <=> r.frame.rows[i].volume # NaN
      BY <3>2
    <3> QED
      BY <2>1, <3>3 DEF Exceeds
  <2> HIDE DEF Traders
  <2> QED
    BY <2>2 DEF Traders
<1>9. Contract!Counted(r, t, row)
  BY <1>8, SameExtremes DEF Contract!Counted, Fits
<1> QED
  BY <1>3, <1>7, <1>9 DEF Contract!IsWindow, Fits

(* Nor does the row of an empty window say anything else.                  *)
LEMMA EmptyIsWindow ==
  ASSUME NEW r \in Request, NEW t \in Int, Contract!Contained(r, t) = {}
  PROVE  Contract!IsWindow(r, t, EmptyRow(t, ResolvedSchedule(r)))
<1> DEFINE row == EmptyRow(t, ResolvedSchedule(r))
<1>1. /\ row.open_time = t - r.window /\ row.close_time = t
      /\ row.open = Null /\ row.high = Null /\ row.low = Null /\ row.close = Null /\ row.volume = Null
      /\ row.src_count = 0 /\ row.coverage = 0 /\ row.traded = 0
  BY DEF EmptyRow, ResolvedSchedule
<1> HIDE DEF row
<1>2. Contract!Selected(r, t, row)
  BY <1>1 DEF Contract!Selected
<1>3. Contract!Combined(r, t, row)
  BY DEF Contract!Combined
<1>4. r.cadence \in Int /\ Contract!Cardinality({}) = 0 /\ 0 * r.cadence = 0
  BY RequestAssumption, SameExtremes, FS_EmptySet
<1>5. Contract!Counted(r, t, row)
  <2>1. \A P : {i \in {} : P} = {}
    OBVIOUS
  <2>2. {i \in Contract!Contained(r, t) :
           Contract!Numbers(Contract!Cells(r, {i}, "volume")) /\ r.frame.rows[i].volume > 0} = {}
    OBVIOUS
  <2> QED
    BY <1>1, <1>4, <2>2 DEF Contract!Counted
<1> QED
  BY <1>1, <1>2, <1>3, <1>5 DEF Contract!IsWindow, row

(* The oracle's row, where no null stops its loop.                         *)
THEOREM OracleRowIsTheWindow ==
  ASSUME NEW r \in Request, NEW t \in Int, ~StopsAt(Candles(r), Included(Candles(r), t, r.window))
  PROVE  Contract!IsWindow(r, t, ReferenceRow(Candles(r), t, ResolvedSchedule(r)))
<1> DEFINE n == Len(r.frame.rows)
           cs == Candles(r)
           S == Contract!Contained(r, t)
           row == ReferenceRow(cs, t, ResolvedSchedule(r))
           a == Accounted(cs, S)
<1>1. Mirrors(cs, r, n)
  BY CandlesMirror
<1>2. Included(cs, t, r.window) = S /\ S \in SUBSET (1 .. n) /\ r.cadence \in Int
  BY IncludedAre, ContainedAre
<1>3. ResolvedSchedule(r).window = r.window
  BY DEF ResolvedSchedule
<1>4. CASE S = {}
  <2>1. row = EmptyRow(t, ResolvedSchedule(r))
    BY <1>2, <1>3, <1>4 DEF ReferenceRow
  <2> QED
    BY <1>4, <2>1, EmptyIsWindow
<1>5. CASE S # {}
  <2>1. row = [open_time |-> t - r.window, close_time |-> t,
               open |-> a.earliest.open, high |-> a.high, low |-> a.low,
               close |-> a.latest.close, volume |-> a.volume,
               src_count |-> Cardinality(S), coverage |-> a.coverage, traded |-> a.traded]
    BY <1>2, <1>3, <1>5 DEF ReferenceRow
  <2>2. /\ Contract!Earliest(r, S) \in S /\ Contract!Latest(r, S) \in S
        /\ a.earliest = cs[Contract!Earliest(r, S)]
        /\ a.latest = cs[Contract!Latest(r, S)]
    BY <1>1, <1>2, <1>5, OracleSelects
  <2>3. Extreme(r, S, a.high, a.low)
    BY <1>1, <1>2, <1>5, OracleExtremes
  <2>4. /\ Voluminous(r, S) => a.volume = Contract!Volume(r, S)
        /\ a.coverage = Cardinality(S) * r.cadence
        /\ a.traded = Cardinality(Trading(r, S)) * r.cadence
    BY <1>1, <1>2, OracleAdds
  <2>5. Trading(r, S) = Traders(r, S)
    <3>1. \A i \in S : cs[i].volume # Null
      BY <1>2 DEF StopsAt
    <3>2. \A i \in S : cs[i].volume = r.frame.rows[i].volume
      BY <1>1, <1>2 DEF Mirrors
    <3> QED
      BY <3>1, <3>2 DEF Trading, Traders
  <2>6. /\ a.earliest.open = r.frame.rows[Contract!Earliest(r, S)].open
        /\ a.latest.close = r.frame.rows[Contract!Latest(r, S)].close
    BY <1>1, <1>2, <2>2 DEF Mirrors
  <2>7. /\ row.open_time = t - r.window /\ row.close_time = t
        /\ row.open = a.earliest.open /\ row.high = a.high /\ row.low = a.low
        /\ row.close = a.latest.close /\ row.volume = a.volume
        /\ row.src_count = Cardinality(S) /\ row.coverage = a.coverage /\ row.traded = a.traded
    BY <2>1
  <2> HIDE DEF row, a, S
  <2>8. Fits(r, t, S, row)
    BY <2>3, <2>4, <2>5, <2>6, <2>7 DEF Fits
  <2> QED
    BY <1>5, <2>8, FitsIsWindow DEF row, S
<1> QED
  BY <1>4, <1>5

-----------------------------------------------------------------------------
(* The engine's slice of a window                                          *)

(* The candles in time order, of those that open together the one          *)
(* published first ahead.                                                  *)
InTimeOrder(p, cs, r) ==
  /\ Arranges(p, cs, r)
  /\ \A a, b \in 1 .. Len(r.frame.rows) : a < b => Ahead(Candles(r), p[a], p[b])

(* What the engine holds.                                                  *)
EngineCandles(r) == IF InOpenOrder(Candles(r)) THEN Candles(r) ELSE SortedCandles(Candles(r))

(* The sort is stable, and a list found in order stays as it is.           *)
LEMMA EngineHoldsInOrder ==
  ASSUME NEW r \in Request
  PROVE  EngineCandles(r) \in Held(r) /\ \E p : InTimeOrder(p, EngineCandles(r), r)
<1> DEFINE n == Len(r.frame.rows)
           cs == Candles(r)
<1>1. n \in Nat /\ Timed(cs, n) /\ DOMAIN r.frame.rows = 1 .. n /\ Len(cs) = n
  BY HeldAreTimed, ArrangedLen, RequestAssumption DEF Held
<1>2. CASE ~InOpenOrder(cs)
  <2>1. PICK p \in Bijection(1 .. n, 1 .. n) :
          /\ SortedCandles(cs) = [k \in 1 .. n |-> cs[p[k]]]
          /\ \A a, b \in 1 .. n : a < b => Ahead(cs, p[a], p[b])
    BY <1>1, SortIsStable
  <2>2. EngineCandles(r) = SortedCandles(cs)
    BY <1>2 DEF EngineCandles
  <2>3. InTimeOrder(p, EngineCandles(r), r)
    BY <2>1, <2>2 DEF InTimeOrder, Arranges
  <2> QED
    BY <2>2, <2>3 DEF Held
<1>3. CASE InOpenOrder(cs)
  <2> DEFINE p == [k \in 1 .. n |-> k]
  <2>1. p \in Bijection(1 .. n, 1 .. n) /\ \A k \in 1 .. n : p[k] = k
    BY DEF Bijection, Injection, Surjection, IsInjective
  <2>2. EngineCandles(r) = cs /\ DOMAIN cs = 1 .. n
    BY <1>1, <1>3 DEF EngineCandles, Timed
  <2>3. cs = [k \in 1 .. n |-> cs[p[k]]]
    <3>1. cs = [k \in 1 .. n |-> cs[k]]
      BY <1>1, <2>2 DEF Candles
    <3> HIDE DEF cs, p, n
    <3> QED
      BY <2>1, <3>1
  <2>4. \A a, b \in 1 .. n : a < b => Ahead(cs, p[a], p[b])
    <3>1. Len(OpenTime(cs)) = n /\ OpenTime(cs) = [k \in 1 .. n |-> cs[k].open_time]
      <4>1. OpenTime(cs) = [k \in 1 .. n |-> cs[k].open_time]
        BY <2>2 DEF OpenTime
      <4> HIDE DEF cs, n
      <4>2. OpenTime(cs) = [k \in 1 .. n |-> OpenTime(cs)[k]]
        BY <4>1
      <4> QED
        BY <1>1, <4>1, <4>2, LenOfList
    <3>2. \A i, j \in 1 .. n : i < j => OpenTime(cs)[i] <= OpenTime(cs)[j]
      BY <1>3, <3>1 DEF InOpenOrder, IsSorted
    <3>3. \A i, j \in 1 .. n : i < j => cs[i].open_time <= cs[j].open_time
      BY <3>1, <3>2
    <3>4. \A i \in 1 .. n : cs[i].open_time \in Int
      BY <1>1 DEF Timed
    <3> HIDE DEF cs, p, n
    <3> QED
      BY <1>1, <2>1, <3>3, <3>4 DEF Ahead
  <2>5. InTimeOrder(p, EngineCandles(r), r)
    BY <2>1, <2>2, <2>3, <2>4 DEF InTimeOrder, Arranges
  <2> QED
    BY <2>2, <2>5 DEF Held
<1> QED
  BY <1>2, <1>3

(* What holds of a number when it holds of a greater one holds of the      *)
(* first so many.                                                          *)
LEMMA FirstSoMany ==
  ASSUME NEW n \in Nat, NEW K \in SUBSET (1 .. n),
         \A a, b \in 1 .. n : a < b /\ b \in K => a \in K
  PROVE  Cardinality(K) \in 0 .. n /\ K = 1 .. Cardinality(K)
<1>1. IsFiniteSet(K) /\ K \in SUBSET Int
  <2>1. 1 \in Int /\ n \in Int
    OBVIOUS
  <2>2. IsFiniteSet(1 .. n)
    BY <2>1, FS_Interval
  <2>3. IsFiniteSet(K)
    BY <2>2, FS_Subset
  <2>4. K \in SUBSET Int
    OBVIOUS
  <2> QED
    BY <2>3, <2>4
<1>2. CASE K = {}
  BY <1>2, FS_EmptySet
<1>3. CASE K # {}
  <2>1. PICK m \in K : \A y \in K : y <= m
    BY <1>1, <1>3, GreatestNumber
  <2>2. K = 1 .. m
    <3>1. m \in 1 .. n
      BY <2>1
    <3>2. \A k \in 1 .. m : k \in 1 .. n /\ (k < m \/ k = m)
      BY <3>1
    <3>3. \A k \in 1 .. m : k \in K
      BY <2>1, <3>1, <3>2
    <3>4. \A k \in K : k \in 1 .. n /\ k <= m
      BY <2>1
    <3>5. \A k \in K : k \in 1 .. m
      BY <3>1, <3>4
    <3> QED
      BY <3>3, <3>5
  <2>3. Cardinality(K) = m
    BY <2>1, <2>2, FS_Interval
  <2> QED
    BY <2>1, <2>2, <2>3
<1> QED
  BY <1>2, <1>3

(* The facts of a slice: rows lower + 1 to upper of the candles are the    *)
(* rows in the window.                                                     *)
Places(p, cs, r, n) ==
  /\ n \in Nat /\ Len(r.frame.rows) = n /\ DOMAIN cs = 1 .. n /\ Len(cs) = n
  /\ p \in Bijection(1 .. n, 1 .. n)
  /\ \A k \in 1 .. n : p[k] \in 1 .. n
  /\ \A i \in 1 .. n : \E k \in 1 .. n : p[k] = i
  /\ \A k \in 1 .. n : /\ Contract!Opens(r, p[k]) \in Int
                       /\ cs[k].open_time = Contract!Opens(r, p[k])
                       /\ cs[k].close_time = Contract!Opens(r, p[k]) + r.cadence
                       /\ cs[k].open = r.frame.rows[p[k]].open
                       /\ cs[k].close = r.frame.rows[p[k]].close
                       /\ cs[k].high = r.frame.rows[p[k]].high
                       /\ cs[k].low = r.frame.rows[p[k]].low
                       /\ cs[k].volume = r.frame.rows[p[k]].volume
  /\ \A a, b \in 1 .. n : a < b =>
       \/ Contract!Opens(r, p[a]) < Contract!Opens(r, p[b])
       \/ Contract!Opens(r, p[a]) = Contract!Opens(r, p[b]) /\ p[a] < p[b]

(* They are what the engine holds.                                         *)
LEMMA InOrderPlaces ==
  ASSUME NEW r \in Request, NEW p, NEW cs \in Held(r), InTimeOrder(p, cs, r)
  PROVE  Places(p, cs, r, Len(r.frame.rows))
<1> DEFINE n == Len(r.frame.rows)
<1>1. /\ n \in Nat /\ DOMAIN cs = 1 .. n /\ DOMAIN r.frame.rows = 1 .. n
      /\ \A k \in 1 .. n : p[k] \in 1 .. n /\ cs[k] = Candle(r, p[k])
      /\ \A i \in 1 .. n : \E k \in 1 .. n : p[k] = i
  <2>1. Arranges(p, cs, r)
    BY DEF InTimeOrder
  <2> QED
    BY <2>1, ArrangedCells
<1>2. Len(cs) = n /\ p \in Bijection(1 .. n, 1 .. n)
  BY ArrangedLen DEF InTimeOrder, Arranges
<1>3. \A i \in 1 .. n : Contract!Opens(r, i) \in Int
                        /\ Contract!Closes(r, i) = Contract!Opens(r, i) + r.cadence
  BY <1>1, RequestAssumption DEF Contract!Opens, Contract!Closes
<1>4. \A i \in 1 .. n : /\ Candle(r, i).open_time = Contract!Opens(r, i)
                        /\ Candle(r, i).close_time = Contract!Closes(r, i)
                        /\ Candle(r, i).open = r.frame.rows[i].open
                        /\ Candle(r, i).high = r.frame.rows[i].high
                        /\ Candle(r, i).low = r.frame.rows[i].low
                        /\ Candle(r, i).close = r.frame.rows[i].close
                        /\ Candle(r, i).volume = r.frame.rows[i].volume
  BY CandleColumns
<1>5. \A i \in 1 .. n : Candles(r)[i].open_time = Contract!Opens(r, i)
  BY <1>1, <1>4 DEF Candles
<1>6. \A a, b \in 1 .. n : a < b => Ahead(Candles(r), p[a], p[b])
  BY DEF InTimeOrder
<1> HIDE DEF n
<1>7. \A a, b \in 1 .. n : a < b =>
        \/ Contract!Opens(r, p[a]) < Contract!Opens(r, p[b])
        \/ Contract!Opens(r, p[a]) = Contract!Opens(r, p[b]) /\ p[a] < p[b]
  BY <1>1, <1>5, <1>6, ZenonT(60) DEF Ahead
<1>8. \A k \in 1 .. n : /\ Contract!Opens(r, p[k]) \in Int
                        /\ cs[k].open_time = Contract!Opens(r, p[k])
                        /\ cs[k].close_time = Contract!Opens(r, p[k]) + r.cadence
  <2> TAKE k \in 1 .. n
  <2>1. PICK i \in 1 .. n : i = p[k] /\ cs[k] = Candle(r, i)
    BY <1>1
  <2>2. /\ Contract!Opens(r, i) \in Int /\ Candle(r, i).open_time = Contract!Opens(r, i)
        /\ Candle(r, i).close_time = Contract!Opens(r, i) + r.cadence
    BY <1>3, <1>4
  <2> QED
    BY <2>1, <2>2
<1>9. \A k \in 1 .. n : /\ cs[k].open = r.frame.rows[p[k]].open
                        /\ cs[k].close = r.frame.rows[p[k]].close
                        /\ cs[k].high = r.frame.rows[p[k]].high
                        /\ cs[k].low = r.frame.rows[p[k]].low
                        /\ cs[k].volume = r.frame.rows[p[k]].volume
  <2> TAKE k \in 1 .. n
  <2>1. PICK i \in 1 .. n : i = p[k] /\ cs[k] = Candle(r, i)
    BY <1>1
  <2>2. /\ Candle(r, i).open = r.frame.rows[i].open /\ Candle(r, i).close = r.frame.rows[i].close
        /\ Candle(r, i).high = r.frame.rows[i].high /\ Candle(r, i).low = r.frame.rows[i].low
        /\ Candle(r, i).volume = r.frame.rows[i].volume
    BY <1>4
  <2> QED
    BY <2>1, <2>2
<1> QED
  BY <1>1, <1>2, <1>7, <1>8, <1>9 DEF Places, n

(* Searching the times is counting the candles before a place.             *)
OpenBefore(cs, n, x) == {k \in 1 .. n : cs[k].open_time < x}

CloseBy(cs, n, x) == {k \in 1 .. n : cs[k].close_time <= x}

(* How many there are is where the search ends.                            *)
LEMMA SearchesAre ==
  ASSUME NEW cs, NEW n \in Nat, DOMAIN cs = 1 .. n, NEW x
  PROVE  /\ SearchLeft(OpenTime(cs), x) = Cardinality(OpenBefore(cs, n, x))
         /\ SearchRight(CloseTime(cs), x) = Cardinality(CloseBy(cs, n, x))
         /\ \A k \in 1 .. n : OpenTime(cs)[k] = cs[k].open_time
<1>1. /\ OpenTime(cs) = [k \in 1 .. n |-> cs[k].open_time]
      /\ CloseTime(cs) = [k \in 1 .. n |-> cs[k].close_time]
  BY DEF OpenTime, CloseTime
<1>2. /\ {k \in DOMAIN OpenTime(cs) : OpenTime(cs)[k] < x} = OpenBefore(cs, n, x)
      /\ {k \in DOMAIN CloseTime(cs) : CloseTime(cs)[k] <= x} = CloseBy(cs, n, x)
  BY <1>1 DEF OpenBefore, CloseBy
<1> QED
  BY <1>1, <1>2 DEF SearchLeft, SearchRight

(* The candles that open before an instant come first.                     *)
LEMMA EarlierComeFirst ==
  ASSUME NEW p, NEW cs, NEW r, NEW n, Places(p, cs, r, n), NEW x \in Int
  PROVE  /\ SearchLeft(OpenTime(cs), x) \in 0 .. n
         /\ \A k \in 1 .. n : Contract!Opens(r, p[k]) < x <=> k <= SearchLeft(OpenTime(cs), x)
<1> DEFINE K == OpenBefore(cs, n, x)
<1>1. n \in Nat /\ DOMAIN cs = 1 .. n
  BY DEF Places
<1>2. SearchLeft(OpenTime(cs), x) = Cardinality(K)
  BY <1>1, SearchesAre
<1>3. \A k \in 1 .. n : k \in K <=> Contract!Opens(r, p[k]) < x
  BY DEF Places, OpenBefore
<1>4. \A k \in 1 .. n : Contract!Opens(r, p[k]) \in Int
  BY DEF Places
<1>5. \A a, b \in 1 .. n : a < b => Contract!Opens(r, p[a]) <= Contract!Opens(r, p[b])
  <2>1. \A a, b \in 1 .. n : a < b =>
          \/ Contract!Opens(r, p[a]) < Contract!Opens(r, p[b])
          \/ Contract!Opens(r, p[a]) = Contract!Opens(r, p[b]) /\ p[a] < p[b]
    BY DEF Places
  <2> QED
    BY <1>4, <2>1
<1>6. K \in SUBSET (1 .. n)
  BY DEF OpenBefore, CloseBy
<1> HIDE DEF K
<1>7. \A a, b \in 1 .. n : a < b /\ b \in K => a \in K
  BY <1>3, <1>4, <1>5
<1>8. Cardinality(K) \in 0 .. n /\ K = 1 .. Cardinality(K)
  BY <1>1, <1>6, <1>7, FirstSoMany
<1> QED
  BY <1>1, <1>2, <1>3, <1>8

(* And so do those that close by one.                                      *)
LEMMA ClosedComeFirst ==
  ASSUME NEW p, NEW cs, NEW r, NEW n, Places(p, cs, r, n), NEW x \in Int, r.cadence \in Int
  PROVE  /\ SearchRight(CloseTime(cs), x) \in 0 .. n
         /\ \A k \in 1 .. n : Contract!Opens(r, p[k]) + r.cadence <= x <=>
                                k <= SearchRight(CloseTime(cs), x)
<1> DEFINE K == CloseBy(cs, n, x)
<1>1. n \in Nat /\ DOMAIN cs = 1 .. n
  BY DEF Places
<1>2. SearchRight(CloseTime(cs), x) = Cardinality(K)
  BY <1>1, SearchesAre
<1>3. \A k \in 1 .. n : k \in K <=> Contract!Opens(r, p[k]) + r.cadence <= x
  BY DEF Places, CloseBy
<1>4. \A k \in 1 .. n : Contract!Opens(r, p[k]) \in Int
  BY DEF Places
<1>5. \A a, b \in 1 .. n : a < b => Contract!Opens(r, p[a]) <= Contract!Opens(r, p[b])
  <2>1. \A a, b \in 1 .. n : a < b =>
          \/ Contract!Opens(r, p[a]) < Contract!Opens(r, p[b])
          \/ Contract!Opens(r, p[a]) = Contract!Opens(r, p[b]) /\ p[a] < p[b]
    BY DEF Places
  <2> QED
    BY <1>4, <2>1
<1>6. K \in SUBSET (1 .. n)
  BY DEF OpenBefore, CloseBy
<1> HIDE DEF K
<1>7. \A a, b \in 1 .. n : a < b /\ b \in K => a \in K
  BY <1>3, <1>4, <1>5
<1>8. Cardinality(K) \in 0 .. n /\ K = 1 .. Cardinality(K)
  BY <1>1, <1>6, <1>7, FirstSoMany
<1> QED
  BY <1>1, <1>2, <1>3, <1>8

(* A window's rows are its slice.                                          *)
Slices(p, n, S, l, u) ==
  /\ l \in 0 .. n /\ u \in 0 .. n /\ l <= u
  /\ \A k \in 1 .. n : p[k] \in S <=> l < k /\ k <= u

(* The two searches delimit it.                                            *)
LEMMA SliceIsTheWindow ==
  ASSUME NEW r \in Request, Resolvable(r), NEW p, NEW cs \in Held(r), NEW n, Places(p, cs, r, n), NEW t \in Int
  PROVE  LET s == ResolvedSchedule(r) IN
         Slices(p, n, Contract!Contained(r, t), Lower(cs, t, s), Upper(cs, t, s))
<1> DEFINE s == ResolvedSchedule(r)
           S == Contract!Contained(r, t)
           l == Lower(cs, t, s)
           u == Upper(cs, t, s)
<1>1. s.window = r.window /\ r.window \in Nat /\ r.cadence \in Nat /\ r.cadence <= r.window
  BY RequestAssumption DEF ResolvedSchedule, Resolvable
<1>2. n \in Nat /\ n = Len(r.frame.rows) /\ \A k \in 1 .. n : p[k] \in 1 .. n /\ Contract!Opens(r, p[k]) \in Int
  BY DEF Places
<1>3. l \in 0 .. n /\ \A k \in 1 .. n : Contract!Opens(r, p[k]) < t - r.window <=> k <= l
  <2>1. t - r.window \in Int /\ l = SearchLeft(OpenTime(cs), t - r.window)
    BY <1>1 DEF Lower
  <2> HIDE DEF l
  <2> QED
    BY <2>1, EarlierComeFirst
<1>4. u \in 0 .. n /\ \A k \in 1 .. n : Contract!Opens(r, p[k]) + r.cadence <= t <=> k <= u
  <2>1. r.cadence \in Int /\ u = SearchRight(CloseTime(cs), t)
    BY <1>1 DEF Upper
  <2> HIDE DEF u
  <2> QED
    BY <2>1, ClosedComeFirst
<1>5. \A i \in 1 .. n : i \in S <=> t - r.window <= Contract!Opens(r, i)
                                      /\ Contract!Opens(r, i) + r.cadence <= t
  BY <1>2, ContainedAre
<1> HIDE DEF S, l, u, s
<1>6. \A k \in 1 .. n : p[k] \in S <=> l < k /\ k <= u
  <2> TAKE k \in 1 .. n
  <2>1. PICK opens \in Int : opens = Contract!Opens(r, p[k])
    BY <1>2
  <2>2. opens < t - r.window <=> k <= l
    BY <1>3, <2>1
  <2>3. opens + r.cadence <= t <=> k <= u
    BY <1>4, <2>1
  <2>4. p[k] \in S <=> t - r.window <= opens /\ opens + r.cadence <= t
    BY <1>2, <1>5, <2>1
  <2> QED
    BY <1>1, <1>2, <1>3, <1>4, <2>2, <2>3, <2>4
<1>7. l <= u
  <2>1. ASSUME u < l PROVE FALSE
    <3>1. l \in 1 .. n
      BY <1>2, <1>3, <1>4, <2>1
    <3>2. PICK opens \in Int : opens = Contract!Opens(r, p[l])
      BY <1>2, <3>1
    <3>3. opens < t - r.window
      BY <1>2, <1>3, <3>1, <3>2
    <3>4. ~(opens + r.cadence <= t)
      BY <1>2, <1>3, <1>4, <2>1, <3>1, <3>2
    <3> QED
      BY <1>1, <3>3, <3>4
  <2> QED
    BY <1>2, <1>3, <1>4, <2>1
<1> QED
  BY <1>3, <1>4, <1>6, <1>7 DEF Slices, S, l, u, s

(* A position in the candles is left as it is.                             *)
LEMMA ClipInside ==
  ASSUME NEW cs, NEW n \in Nat, Len(cs) = n, NEW k \in 0 .. n - 1
  PROVE  Clip(k, cs) = k
<1>1. Min({k, n - 1}) = k
  <2>1. {k, n - 1} \in SUBSET Int /\ k \in {k, n - 1} /\ \A x \in {k, n - 1} : k <= x
    OBVIOUS
  <2> QED
    BY <2>1, LeastIs
<1>2. Max({0, k}) = k
  <2>1. {0, k} \in SUBSET Int /\ k \in {0, k} /\ \A x \in {0, k} : x <= k
    OBVIOUS
  <2> QED
    BY <2>1, GreatestIs
<1> QED
  BY <1>1, <1>2 DEF Clip

(* Rows that open together are in a window together.                       *)
Level(r, S, n) ==
  \A i, j \in 1 .. n : Contract!Opens(r, i) = Contract!Opens(r, j) /\ i \in S => j \in S

(* The first row of the slice is the earliest in the window.               *)
LEMMA FirstOfSliceIsEarliest ==
  ASSUME NEW p, NEW cs, NEW r, NEW n, Places(p, cs, r, n),
         NEW S \in SUBSET (1 .. n), S # {}, NEW l, NEW u, Slices(p, n, S, l, u)
  PROVE  /\ l < u
         /\ cs[Clip(l, cs) + 1].open = r.frame.rows[Contract!Earliest(r, S)].open
<1>1. /\ n \in Nat /\ Len(cs) = n /\ \A k \in 1 .. n : p[k] \in 1 .. n /\ Contract!Opens(r, p[k]) \in Int
      /\ \A i \in 1 .. n : \E k \in 1 .. n : p[k] = i
      /\ \A k \in 1 .. n : cs[k].open = r.frame.rows[p[k]].open
  BY DEF Places
<1>2. l \in 0 .. n /\ u \in 0 .. n /\ \A k \in 1 .. n : p[k] \in S <=> l < k /\ k <= u
  BY DEF Slices
<1>3. l < u
  <2>1. PICK i \in S : i \in 1 .. n
    OBVIOUS
  <2>2. PICK k \in 1 .. n : p[k] = i
    BY <1>1, <2>1
  <2>3. l < k /\ k <= u
    BY <1>2, <2>1, <2>2
  <2> QED
    BY <1>1, <1>2, <2>3
<1>4. l + 1 \in 1 .. n /\ Clip(l, cs) = l
  BY <1>1, <1>2, <1>3, ClipInside
<1>5. p[l + 1] \in S
  BY <1>1, <1>2, <1>3, <1>4
<1>6. \A j \in S : Contract!Opens(r, j) \in Int
  BY <1>1
<1>7. \A j \in S \ {p[l + 1]} :
         \/ Contract!Opens(r, p[l + 1]) < Contract!Opens(r, j)
         \/ Contract!Opens(r, p[l + 1]) = Contract!Opens(r, j) /\ p[l + 1] < j
  <2> TAKE j \in S \ {p[l + 1]}
  <2>1. PICK k \in 1 .. n : p[k] = j
    BY <1>1
  <2>2. l + 1 < k
    <3>1. l < k /\ k # l + 1
      BY <1>2, <2>1
    <3> QED
      BY <1>1, <1>2, <3>1
  <2>3. \/ Contract!Opens(r, p[l + 1]) < Contract!Opens(r, p[k])
        \/ Contract!Opens(r, p[l + 1]) = Contract!Opens(r, p[k]) /\ p[l + 1] < p[k]
    BY <1>4, <2>2 DEF Places
  <2> QED
    BY <2>1, <2>3
<1>8. Contract!Earliest(r, S) = p[l + 1]
  <2>1. S \in SUBSET Int
    OBVIOUS
  <2> QED
    BY <1>5, <1>6, <1>7, <2>1, EarliestIs
<1> QED
  BY <1>1, <1>3, <1>4, <1>8

(* The row that starts the last run of equal open times is the latest.     *)
LEMMA TieStartIsLatest ==
  ASSUME NEW p, NEW cs, NEW r, NEW n, Places(p, cs, r, n),
         NEW S \in SUBSET (1 .. n), S # {}, NEW l, NEW u, Slices(p, n, S, l, u), Level(r, S, n)
  PROVE  cs[TieStart(cs, u) + 1].close = r.frame.rows[Contract!Latest(r, S)].close
<1> DEFINE open(k) == Contract!Opens(r, p[k])
           q == TieStart(cs, u)
<1>1. /\ n \in Nat /\ Len(cs) = n /\ DOMAIN cs = 1 .. n
      /\ \A k \in 1 .. n : p[k] \in 1 .. n /\ open(k) \in Int /\ cs[k].open_time = open(k)
      /\ \A i \in 1 .. n : \E k \in 1 .. n : p[k] = i
      /\ \A k \in 1 .. n : cs[k].close = r.frame.rows[p[k]].close
  BY DEF Places
<1>2. l \in 0 .. n /\ u \in 0 .. n /\ \A k \in 1 .. n : p[k] \in S <=> l < k /\ k <= u
  BY DEF Slices
<1>3. l < u
  BY FirstOfSliceIsEarliest
<1>4. u \in 1 .. n /\ u - 1 \in 0 .. n - 1 /\ (u - 1) + 1 = u
  BY <1>1, <1>2, <1>3
<1>5. \A a, b \in 1 .. n : a < b => open(a) < open(b) \/ (open(a) = open(b) /\ p[a] < p[b])
  BY DEF Places
<1>14. \A a, b \in 1 .. n : a < b \/ a = b => open(a) <= open(b)
  <2> TAKE a, b \in 1 .. n
  <2>1. open(a) \in Int /\ open(b) \in Int
    BY <1>1
  <2>2. a < b => open(a) < open(b) \/ open(a) = open(b)
    BY <1>5
  <2> QED
    BY <2>1, <2>2
<1>6. q = SearchLeft(OpenTime(cs), open(u))
  <2>1. Clip(u - 1, cs) = u - 1
    BY <1>1, <1>4, ClipInside
  <2>2. OpenTime(cs)[u] = open(u)
    BY <1>1, <1>4 DEF OpenTime
  <2> QED
    BY <1>4, <2>1, <2>2 DEF TieStart
<1>7. q \in 0 .. n /\ \A k \in 1 .. n : open(k) < open(u) <=> k <= q
  <2>1. open(u) \in Int
    BY <1>1, <1>4
  <2>2. \A x \in Int : /\ SearchLeft(OpenTime(cs), x) \in 0 .. n
                       /\ \A k \in 1 .. n : Contract!Opens(r, p[k]) < x <=> k <= SearchLeft(OpenTime(cs), x)
    BY EarlierComeFirst
  <2> HIDE DEF q
  <2> QED
    BY <1>6, <2>1, <2>2
<1> HIDE DEF q
<1>8. q < u
  <2>1. ~(open(u) < open(u))
    BY <1>1, <1>4
  <2>2. ~(u <= q)
    BY <1>4, <1>7, <2>1
  <2> QED
    BY <1>4, <1>7, <2>2
<1>9. q + 1 \in 1 .. n /\ open(q + 1) = open(u)
  <2>1. q + 1 \in 1 .. n /\ ~(q + 1 <= q) /\ (q + 1 < u \/ q + 1 = u)
    BY <1>1, <1>4, <1>7, <1>8, SMTT(60)
  <2>2. ~(open(q + 1) < open(u))
    BY <1>7, <2>1
  <2>3. open(q + 1) <= open(u)
    BY <1>4, <1>14, <2>1
  <2>4. open(q + 1) \in Int /\ open(u) \in Int
    BY <1>1, <1>4, <2>1
  <2> QED
    BY <2>1, <2>2, <2>3, <2>4
<1>10. p[q + 1] \in S
  <2>1. p[u] \in 1 .. n /\ p[q + 1] \in 1 .. n
    BY <1>1, <1>4, <1>9
  <2>3. p[u] \in S
    <3>1. l < u /\ u <= u
      BY <1>3, <1>4
    <3> QED
      BY <1>2, <1>4, <3>1
  <2>2. Contract!Opens(r, p[u]) = Contract!Opens(r, p[q + 1])
    BY <1>9
  <2> QED
    BY <2>1, <2>2, <2>3 DEF Level
<1>11. \A j \in S : Contract!Opens(r, j) \in Int
  <2> TAKE j \in S
  <2>1. PICK k \in 1 .. n : p[k] = j
    BY <1>1
  <2> QED
    BY <1>1, <2>1
<1>12. \A j \in S \ {p[q + 1]} :
          \/ Contract!Opens(r, p[q + 1]) > Contract!Opens(r, j)
          \/ Contract!Opens(r, p[q + 1]) = Contract!Opens(r, j) /\ p[q + 1] < j
  <2> TAKE j \in S \ {p[q + 1]}
  <2>1. PICK k \in 1 .. n : p[k] = j
    BY <1>1
  <2>2. k <= u /\ k # q + 1
    BY <1>2, <2>1
  <2>3. CASE k <= q
    <3>1. open(k) < open(u) /\ open(k) \in Int /\ open(u) \in Int /\ open(q + 1) = open(u)
      BY <1>1, <1>4, <1>7, <1>9, <2>3
    <3>2. open(q + 1) > open(k)
      BY <3>1
    <3> QED
      BY <2>1, <3>2
  <2>4. CASE ~(k <= q)
    <3>1. q + 1 < k /\ (k < u \/ k = u)
      BY <1>4, <1>7, <2>2, <2>4
    <3>2. open(q + 1) < open(k) \/ (open(q + 1) = open(k) /\ p[q + 1] < p[k])
      BY <1>5, <1>9, <3>1
    <3>3. open(k) <= open(u)
      BY <1>4, <1>14, <3>1
    <3>4. open(q + 1) \in Int /\ open(k) \in Int /\ open(u) \in Int
      BY <1>1, <1>4, <1>9
    <3>5. open(q + 1) = open(k) /\ p[q + 1] < p[k]
      BY <1>9, <3>2, <3>3, <3>4
    <3> QED
      BY <2>1, <3>5
  <2> QED
    BY <2>3, <2>4
<1>13. Contract!Latest(r, S) = p[q + 1]
  <2>1. S \in SUBSET Int
    OBVIOUS
  <2> QED
    BY <1>10, <1>11, <1>12, <2>1, LatestIs
<1> QED
  BY <1>1, <1>9, <1>13, ZenonT(60) DEF q

(* The rolling window of a tick reaches the candles of its slice, and some *)
(* neutral rows.                                                           *)
Spans(reached, r, S) ==
  /\ \A m \in reached : \/ m.high = NeutralHigh /\ m.low = NeutralLow
                        \/ \E i \in S : m.high = r.frame.rows[i].high /\ m.low = r.frame.rows[i].low
  /\ \A i \in S : \E m \in reached : m.high = r.frame.rows[i].high /\ m.low = r.frame.rows[i].low

(* The key of a candle in the slice is in the window of the tick, of no    *)
(* other.                                                                  *)
LEMMA ReachedAre ==
  ASSUME NEW p, NEW cs, NEW r, NEW n, Places(p, cs, r, n), NEW t \in Int, NEW T,
         NEW S \in SUBSET (1 .. n), r.cadence \in Nat, r.window \in Nat,
         \A i \in 1 .. n : i \in S <=> t - r.window <= Contract!Opens(r, i)
                                         /\ Contract!Opens(r, i) + r.cadence <= t
  PROVE  Spans(Reached(cs, T, t, ResolvedSchedule(r), r.cadence), r, S)
<1> DEFINE reached == Reached(cs, T, t, ResolvedSchedule(r), r.cadence)
           d == r.cadence
           w == r.window
<1>1. /\ n \in Nat /\ DOMAIN cs = 1 .. n
      /\ \A k \in 1 .. n : /\ p[k] \in 1 .. n /\ Contract!Opens(r, p[k]) \in Int
                           /\ cs[k].close_time = Contract!Opens(r, p[k]) + d
                           /\ cs[k].high = r.frame.rows[p[k]].high
                           /\ cs[k].low = r.frame.rows[p[k]].low
      /\ \A i \in 1 .. n : \E k \in 1 .. n : p[k] = i
  BY DEF Places
<1>2. ResolvedSchedule(r).window = w
  BY DEF ResolvedSchedule
<1>3. \A m : m \in reached <=> m \in MergedRows(cs, T) /\ m.key > t - (w - d + 1) /\ m.key <= t
  BY <1>2 DEF Reached
<1>4. ASSUME NEW k \in 1 .. n
      PROVE  cs[k].close_time > t - (w - d + 1) /\ cs[k].close_time <= t <=> p[k] \in S
  <2>1. PICK opens \in Int : opens = Contract!Opens(r, p[k]) /\ cs[k].close_time = opens + d
    BY <1>1
  <2>2. opens + d > t - (w - d + 1) <=> t - w <= opens
    OBVIOUS
  <2> QED
    BY <1>1, <2>1, <2>2
<1> HIDE DEF reached
<1>5. ASSUME NEW m \in reached
      PROVE  \/ m.high = NeutralHigh /\ m.low = NeutralLow
             \/ \E i \in S : m.high = r.frame.rows[i].high /\ m.low = r.frame.rows[i].low
  <2>1. \/ \E u \in T : m = [key |-> u, high |-> NeutralHigh, low |-> NeutralLow]
        \/ \E k \in 1 .. n : m = [key |-> cs[k].close_time, high |-> cs[k].high, low |-> cs[k].low]
    <3>1. m \in MergedRows(cs, T)
      BY <1>3, <1>5
    <3> QED
      BY <1>1, <3>1, ZenonT(60) DEF MergedRows
  <2>2. CASE \E u \in T : m = [key |-> u, high |-> NeutralHigh, low |-> NeutralLow]
    BY <2>2
  <2>3. CASE \E k \in 1 .. n : m = [key |-> cs[k].close_time, high |-> cs[k].high, low |-> cs[k].low]
    <3>1. PICK k \in 1 .. n : m = [key |-> cs[k].close_time, high |-> cs[k].high, low |-> cs[k].low]
      BY <2>3
    <3>2. m.key = cs[k].close_time /\ m.high = cs[k].high /\ m.low = cs[k].low
      BY <3>1
    <3>3. p[k] \in S
      BY <1>3, <1>4, <1>5, <3>2
    <3>4. m.high = r.frame.rows[p[k]].high /\ m.low = r.frame.rows[p[k]].low
      BY <1>1, <3>2
    <3> QED
      BY <3>3, <3>4
  <2> QED
    BY <2>1, <2>2, <2>3
<1>6. ASSUME NEW i \in S
      PROVE  \E m \in reached : m.high = r.frame.rows[i].high /\ m.low = r.frame.rows[i].low
  <2>1. PICK k \in 1 .. n : p[k] = i
    BY <1>1
  <2> DEFINE m == [key |-> cs[k].close_time, high |-> cs[k].high, low |-> cs[k].low]
  <2>2. m.key = cs[k].close_time /\ m.high = cs[k].high /\ m.low = cs[k].low
    OBVIOUS
  <2>3. m \in MergedRows(cs, T)
    BY <1>1 DEF MergedRows
  <2> HIDE DEF m
  <2>4. m \in reached
    BY <1>3, <1>4, <2>1, <2>2, <2>3
  <2>5. m.high = r.frame.rows[i].high /\ m.low = r.frame.rows[i].low
    BY <1>1, <2>1, <2>2
  <2> QED
    BY <2>4, <2>5
<1> QED
  BY <1>5, <1>6 DEF reached, Spans

(* The greatest and the least of some cells that are numbers is one.       *)
LEMMA CellsHaveExtremes ==
  ASSUME NEW n \in Nat, NEW S \in SUBSET (1 .. n), S # {}, NEW v, \A i \in S : v[i] \in Int
  PROVE  /\ \E i \in S : GreatestCell(v, S) = v[i] /\ \A j \in S : v[j] <= v[i]
         /\ \E i \in S : LeastCell(v, S) = v[i] /\ \A j \in S : v[i] <= v[j]
<1> DEFINE f == [i \in S |-> v[i]]
           C == {v[i] : i \in S}
<1>1. IsFiniteSet(S)
  <2>1. IsFiniteSet(1 .. n)
    BY FS_Interval
  <2> QED
    BY <2>1, FS_Subset
<1>2. f \in Surjection(S, C)
  BY DEF Surjection
<1>3. C \in SUBSET Int /\ C # {}
  OBVIOUS
<1> HIDE DEF f
<1>4. IsFiniteSet(C)
  BY <1>1, <1>2, FS_Surjection
<1>5. (\A x : x \in C <=> \E i \in S : x = v[i])
  OBVIOUS
<1> HIDE DEF C
<1>6. Max(C) \in C /\ (\A x \in C : x <= Max(C)) /\ Min(C) \in C /\ (\A x \in C : Min(C) <= x)
  BY <1>3, <1>4, LeastNumber, GreatestNumber
<1>7. GreatestCell(v, S) = Max(C) /\ LeastCell(v, S) = Min(C)
  BY DEF GreatestCell, LeastCell, C
<1> QED
  BY <1>5, <1>6, <1>7

(* Neutral cells beside them change neither.                               *)
Beside(cells, v, S, neutral) ==
  /\ \A x \in cells : x = neutral \/ \E i \in S : x = v[i]
  /\ \A i \in S : v[i] \in cells

(* Below the greatest,                                                     *)
LEMMA NeutralIsBelow ==
  ASSUME NEW n \in Nat, NEW S \in SUBSET (1 .. n), S # {}, NEW v, \A i \in S : v[i] \in Int,
         NEW neutral \in Int, \A i \in S : neutral < v[i],
         NEW cells, Beside(cells, v, S, neutral), Null \notin Int, NaN \notin Int
  PROVE  Carried(cells, Max(cells \ {Null})) = GreatestCell(v, S)
<1>1. PICK i \in S : GreatestCell(v, S) = v[i] /\ \A j \in S : v[j] <= v[i]
  BY CellsHaveExtremes
<1>2. cells \in SUBSET Int /\ NaN \notin cells /\ cells \ {Null} = cells
  BY DEF Beside
<1>3. v[i] \in cells /\ v[i] \in Int /\ neutral < v[i]
  BY DEF Beside
<1>4. \A x \in cells : x <= v[i]
  <2> TAKE x \in cells
  <2>1. CASE x = neutral
    BY <1>3, <2>1
  <2>2. CASE \E j \in S : x = v[j]
    BY <1>1, <2>2
  <2> QED
    BY <2>1, <2>2 DEF Beside
<1>5. Max(cells) = v[i]
  BY <1>2, <1>3, <1>4, GreatestIs
<1> QED
  BY <1>1, <1>2, <1>5 DEF Carried

(* above the least.                                                        *)
LEMMA NeutralIsAbove ==
  ASSUME NEW n \in Nat, NEW S \in SUBSET (1 .. n), S # {}, NEW v, \A i \in S : v[i] \in Int,
         NEW neutral \in Int, \A i \in S : neutral > v[i],
         NEW cells, Beside(cells, v, S, neutral), Null \notin Int, NaN \notin Int
  PROVE  Carried(cells, Min(cells \ {Null})) = LeastCell(v, S)
<1>1. PICK i \in S : LeastCell(v, S) = v[i] /\ \A j \in S : v[i] <= v[j]
  BY CellsHaveExtremes
<1>2. cells \in SUBSET Int /\ NaN \notin cells /\ cells \ {Null} = cells
  BY DEF Beside
<1>3. v[i] \in cells /\ v[i] \in Int /\ neutral > v[i]
  BY DEF Beside
<1>4. \A x \in cells : v[i] <= x
  <2> TAKE x \in cells
  <2>1. CASE x = neutral
    BY <1>3, <2>1
  <2>2. CASE \E j \in S : x = v[j]
    BY <1>1, <2>2
  <2> QED
    BY <2>1, <2>2 DEF Beside
<1>5. Min(cells) = v[i]
  BY <1>2, <1>3, <1>4, LeastIs
<1> QED
  BY <1>1, <1>2, <1>5 DEF Carried

(* So the rolling extremes are those of the window.                        *)
LEMMA RollingIsExtreme ==
  ASSUME NEW r \in Request, NEW p, NEW cs, NEW n, Places(p, cs, r, n), NEW t \in Int, NEW T,
         NEW S, S = Contract!Contained(r, t), S # {}
  PROVE  LET s == ResolvedSchedule(r) IN
         Extreme(r, S, RollingHigh(cs, T, t, s, r.cadence), RollingLow(cs, T, t, s, r.cadence))
<1> DEFINE s == ResolvedSchedule(r)
           reached == Reached(cs, T, t, s, r.cadence)
           highs == {m.high : m \in reached}
           lows == {m.low : m \in reached}
           high == [i \in 1 .. n |-> r.frame.rows[i].high]
           low == [i \in 1 .. n |-> r.frame.rows[i].low]
<1>1. n \in Nat /\ n = Len(r.frame.rows) /\ S \in SUBSET (1 .. n)
  BY ContainedAre DEF Places
<1>2. /\ r.cadence \in Nat /\ r.window \in Nat
      /\ \A i \in 1 .. n : i \in S <=> t - r.window <= Contract!Opens(r, i)
                                         /\ Contract!Opens(r, i) + r.cadence <= t
  BY <1>1, ContainedAre
<1>3. /\ \A m \in reached : \/ m.high = NeutralHigh /\ m.low = NeutralLow
                            \/ \E i \in S : m.high = r.frame.rows[i].high /\ m.low = r.frame.rows[i].low
      /\ \A i \in S : \E m \in reached : m.high = r.frame.rows[i].high /\ m.low = r.frame.rows[i].low
  <2>1. Spans(reached, r, S)
    BY <1>1, <1>2, ReachedAre
  <2> QED
    BY <2>1 DEF Spans
<1>4. /\ NeutralHigh \in Int /\ NeutralLow \in Int /\ Null \notin Int /\ NaN \notin Int
      /\ \A i \in S : /\ r.frame.rows[i].high \in Int => NeutralHigh < r.frame.rows[i].high
                      /\ r.frame.rows[i].low \in Int => NeutralLow > r.frame.rows[i].low
  <2>1. \A i \in S : i \in 1 .. Len(r.frame.rows)
    BY <1>1
  <2> QED
    BY <2>1, CellsOf, MakerAssumption
<1>5. /\ RollingHigh(cs, T, t, s, r.cadence) = Carried(highs, Max(highs \ {Null}))
      /\ RollingLow(cs, T, t, s, r.cadence) = Carried(lows, Min(lows \ {Null}))
  BY DEF RollingHigh, RollingLow
<1>6. \A i \in S : high[i] = r.frame.rows[i].high /\ low[i] = r.frame.rows[i].low
  BY <1>1
<1> HIDE DEF reached, s, high, low
<1>7. Beside(highs, high, S, NeutralHigh) /\ Beside(lows, low, S, NeutralLow)
  <2>1. Beside(highs, high, S, NeutralHigh)
    BY <1>3, <1>6 DEF Beside
  <2>2. Beside(lows, low, S, NeutralLow)
    BY <1>3, <1>6 DEF Beside
  <2> QED
    BY <2>1, <2>2
<1>8. /\ GreatestCell(high, S) = Max({r.frame.rows[i].high : i \in S})
      /\ LeastCell(low, S) = Min({r.frame.rows[i].low : i \in S})
  <2>1. /\ {high[i] : i \in S} = {r.frame.rows[i].high : i \in S}
        /\ {low[i] : i \in S} = {r.frame.rows[i].low : i \in S}
    BY <1>6
  <2> QED
    BY <2>1 DEF GreatestCell, LeastCell
<1> HIDE DEF highs, lows
<1>9. ASSUME \A i \in S : r.frame.rows[i].high \in Int
      PROVE  RollingHigh(cs, T, t, s, r.cadence) = Max({r.frame.rows[i].high : i \in S})
  <2>1. \A i \in S : high[i] \in Int /\ NeutralHigh < high[i]
    BY <1>4, <1>6, <1>9
  <2>2. Carried(highs, Max(highs \ {Null})) = GreatestCell(high, S)
    BY <1>1, <1>4, <1>7, <2>1, NeutralIsBelow
  <2> QED
    BY <1>5, <1>8, <2>2
<1>10. ASSUME \A i \in S : r.frame.rows[i].low \in Int
       PROVE  RollingLow(cs, T, t, s, r.cadence) = Min({r.frame.rows[i].low : i \in S})
  <2>1. \A i \in S : low[i] \in Int /\ NeutralLow > low[i]
    BY <1>4, <1>6, <1>10
  <2>2. Carried(lows, Min(lows \ {Null})) = LeastCell(low, S)
    BY <1>1, <1>4, <1>7, <2>1, NeutralIsAbove
  <2> QED
    BY <1>5, <1>8, <2>2
<1> QED
  BY <1>9, <1>10 DEF Extreme, s

(* No row has no volume, and one more row adds its own.                    *)
LEMMA NoVolume ==
  ASSUME NEW r, NEW n \in Nat, Len(r.frame.rows) = n
  PROVE  Contract!Volume(r, {}) = 0
<1>1. Voluminous(r, {}) /\ {} \in SUBSET (1 .. n)
  BY DEF Voluminous
<1>2. PICK sums : VolumeSums(sums, r, {}, n)
  BY <1>1, VolumeSteps
<1>3. /\ Contract!Volume(r, {}) = sums[n] /\ sums[0] = 0
      /\ \A k \in 1 .. n : sums[k] = sums[k - 1]
  BY <1>2 DEF VolumeSums
<1> DEFINE T == {k \in 0 .. n : sums[k] = 0}
<1>4. 0 \in T
  BY <1>3
<1>5. ASSUME NEW k \in 1 .. n, k - 1 \in T PROVE k \in T
  BY <1>3, <1>5
<1> HIDE DEF T
<1>6. 0 .. n \subseteq T
  BY <1>4, <1>5, UpTo
<1>7. n \in T
  BY <1>6
<1> QED
  BY <1>3, <1>7 DEF T

(* It is its own volume that one more row adds.                            *)
LEMMA OneMoreVolume ==
  ASSUME NEW r, NEW n \in Nat, Len(r.frame.rows) = n, NEW S \in SUBSET (1 .. n),
         NEW x \in 1 .. n, x \notin S, Voluminous(r, S), r.frame.rows[x].volume \in Int
  PROVE  /\ Contract!Volume(r, S) \in Int
         /\ Contract!Volume(r, S \cup {x}) = Contract!Volume(r, S) + r.frame.rows[x].volume
<1> DEFINE v == r.frame.rows[x].volume
           S2 == S \cup {x}
<1>1. S2 \in SUBSET (1 .. n) /\ Voluminous(r, S2)
  BY DEF Voluminous
<1>2. PICK a : VolumeSums(a, r, S, n)
  BY VolumeSteps
<1>3. PICK b : VolumeSums(b, r, S2, n)
  BY <1>1, VolumeSteps
<1>4. /\ Contract!Volume(r, S) = a[n] /\ a[0] = 0
      /\ \A k \in 0 .. n : a[k] \in Int
      /\ \A k \in 1 .. n : k \in S => a[k] = a[k - 1] + r.frame.rows[k].volume
      /\ \A k \in 1 .. n : k \notin S => a[k] = a[k - 1]
  BY <1>2 DEF VolumeSums
<1>5. /\ Contract!Volume(r, S2) = b[n] /\ b[0] = 0
      /\ \A k \in 0 .. n : b[k] \in Int
      /\ \A k \in 1 .. n : k \in S2 => b[k] = b[k - 1] + r.frame.rows[k].volume
      /\ \A k \in 1 .. n : k \notin S2 => b[k] = b[k - 1]
  BY <1>3 DEF VolumeSums
<1>6. \A k \in 1 .. n : k \in S2 <=> k \in S \/ k = x
  OBVIOUS
<1>7. v \in Int /\ \A k \in S : r.frame.rows[k].volume \in Int
  BY DEF Voluminous
<1> HIDE DEF S2
<1> DEFINE T == {k \in 0 .. n : IF x <= k THEN b[k] = a[k] + v ELSE b[k] = a[k]}
<1>8. 0 \in T
  BY <1>4, <1>5
<1>9. ASSUME NEW k \in 1 .. n, k - 1 \in T PROVE k \in T
  <2>0. k \in 0 .. n /\ k - 1 \in 0 .. n
    OBVIOUS
  <2>1. a[k] \in Int /\ b[k] \in Int /\ a[k - 1] \in Int /\ b[k - 1] \in Int
    BY <1>4, <1>5, <2>0
  <2>2. CASE k = x
    <3>1. b[k] = b[k - 1] + v /\ a[k] = a[k - 1] /\ b[k - 1] = a[k - 1] /\ x <= k
      BY <1>4, <1>5, <1>6, <1>9, <2>2
    <3>2. b[k] = a[k] + v
      BY <3>1
    <3> QED
      BY <2>0, <3>1, <3>2
  <2>3. CASE k # x
    <3>1. x <= k <=> x <= k - 1
      BY <2>3
    <3>2. PICK add \in Int : a[k] = a[k - 1] + add /\ b[k] = b[k - 1] + add
      <4>1. CASE k \in S
        <5>1. a[k] = a[k - 1] + r.frame.rows[k].volume /\ b[k] = b[k - 1] + r.frame.rows[k].volume
          BY <1>4, <1>5, <1>6, <4>1
        <5> QED
          BY <1>7, <4>1, <5>1
      <4>2. CASE k \notin S
        <5>1. a[k] = a[k - 1] /\ b[k] = b[k - 1]
          BY <1>4, <1>5, <1>6, <2>3, <4>2
        <5>2. a[k] = a[k - 1] + 0 /\ b[k] = b[k - 1] + 0
          BY <2>1, <5>1
        <5> QED
          BY <5>2
      <4> QED
        BY <4>1, <4>2
    <3>3. IF x <= k - 1 THEN b[k - 1] = a[k - 1] + v ELSE b[k - 1] = a[k - 1]
      BY <1>9
    <3>4. IF x <= k THEN b[k] = a[k] + v ELSE b[k] = a[k]
      <4>1. CASE x <= k - 1
        <5>1. b[k - 1] = a[k - 1] + v /\ x <= k
          BY <3>1, <3>3, <4>1
        <5>2. b[k] = (a[k - 1] + v) + add /\ a[k] = a[k - 1] + add
          BY <3>2, <5>1
        <5>3. (a[k - 1] + v) + add = (a[k - 1] + add) + v
          BY <1>7, <2>1
        <5> QED
          BY <5>1, <5>2, <5>3
      <4>2. CASE ~(x <= k - 1)
        <5>1. b[k - 1] = a[k - 1] /\ ~(x <= k)
          BY <3>1, <3>3, <4>2
        <5> QED
          BY <3>2, <5>1
      <4> QED
        BY <4>1, <4>2
    <3> QED
      BY <2>0, <3>4
  <2> QED
    BY <2>2, <2>3
<1> HIDE DEF T
<1>10. 0 .. n \subseteq T
  BY <1>8, <1>9, UpTo
<1>11. n \in T /\ x <= n /\ a[n] \in Int
  BY <1>4, <1>10
<1>12. b[n] = a[n] + v
  BY <1>11 DEF T
<1> QED
  BY <1>4, <1>5, <1>11, <1>12 DEF S2

(* The engine's sum over its slice, a row at a time.                       *)
IsSlice(sums, cs, l, u) ==
  sums = [k \in l .. u |->
            IF k = l THEN 0
            ELSE IF cs[k].volume = Null THEN sums[k - 1]
            ELSE Plus(sums[k - 1], cs[k].volume)]

(* There is such a sum of any slice.                                       *)
LEMMA SliceSumsExist ==
  ASSUME NEW cs, NEW l \in Nat, NEW u \in Nat, l <= u
  PROVE  \E sums : IsSlice(sums, cs, l, u)
<1> DEFINE T == {i \in Nat : \E sums : IsSlice(sums, cs, l, l + i)}
<1>1. 0 \in T
  <2> DEFINE f == [k \in l .. l + 0 |-> 0]
  <2>1. \A k \in l .. l + 0 : k = l /\ f[k] = 0
    OBVIOUS
  <2>2. f = [k \in l .. l + 0 |-> f[k]]
    OBVIOUS
  <2> HIDE DEF f
  <2>3. f = [k \in l .. l + 0 |-> IF k = l THEN 0
                                 ELSE IF cs[k].volume = Null THEN f[k - 1]
                                 ELSE Plus(f[k - 1], cs[k].volume)]
    BY <2>1, <2>2
  <2>4. IsSlice(f, cs, l, l + 0)
    BY <2>3 DEF IsSlice
  <2> QED
    BY <2>4
<1>2. ASSUME NEW i \in 1 .. u - l, i - 1 \in T PROVE i \in T
  <2> DEFINE m == l + i
  <2>0. m - 1 = l + (i - 1) /\ m \in Nat /\ l < m
    OBVIOUS
  <2>1. PICK sums : IsSlice(sums, cs, l, m - 1)
    BY <1>2, <2>0
  <2> HIDE DEF m
  <2>2. \A k \in l .. m - 1 :
          sums[k] = IF k = l THEN 0 ELSE IF cs[k].volume = Null THEN sums[k - 1]
                    ELSE Plus(sums[k - 1], cs[k].volume)
    BY <2>1 DEF IsSlice
  <2> DEFINE last == IF cs[m].volume = Null THEN sums[m - 1] ELSE Plus(sums[m - 1], cs[m].volume)
             longer == [k \in l .. m |-> IF k = m THEN last ELSE sums[k]]
  <2>3. ASSUME NEW k \in l .. m
        PROVE  longer[k] = IF k = l THEN 0 ELSE IF cs[k].volume = Null THEN longer[k - 1]
                           ELSE Plus(longer[k - 1], cs[k].volume)
    <3>1. k # m => k \in l .. m - 1
      BY <2>0
    <3>2. k # l => k - 1 \in l .. m /\ k - 1 # m
      BY <2>0
    <3>3. CASE k = l
      <4>1. longer[k] = 0
        BY <2>0, <2>2, <3>1, <3>3
      <4> QED
        BY <3>3, <4>1
    <3>4. CASE k # l /\ k = m
      <4>1. longer[k] = last /\ longer[k - 1] = sums[k - 1]
        BY <3>2, <3>4
      <4> QED
        BY <3>4, <4>1
    <3>5. CASE k # l /\ k # m
      <4>1. longer[k] = sums[k] /\ longer[k - 1] = sums[k - 1]
        BY <3>2, <3>5
      <4>2. sums[k] = IF cs[k].volume = Null THEN sums[k - 1] ELSE Plus(sums[k - 1], cs[k].volume)
        BY <2>2, <3>1, <3>5
      <4> QED
        BY <3>5, <4>1, <4>2
    <3> QED
      BY <3>3, <3>4, <3>5
  <2>4. longer = [k \in l .. m |-> longer[k]]
    OBVIOUS
  <2> HIDE DEF longer
  <2>5. longer = [k \in l .. m |-> IF k = l THEN 0 ELSE IF cs[k].volume = Null THEN longer[k - 1]
                                  ELSE Plus(longer[k - 1], cs[k].volume)]
    BY <2>3, <2>4
  <2>6. IsSlice(longer, cs, l, l + i)
    BY <2>5 DEF IsSlice, m
  <2> QED
    BY <2>6
<1>3. u - l \in Nat /\ l + (u - l) = u
  OBVIOUS
<1> HIDE DEF T
<1>4. 0 .. u - l \subseteq T
  BY <1>1, <1>2, <1>3, UpTo
<1>5. u - l \in T
  BY <1>3, <1>4
<1> QED
  BY <1>3, <1>5 DEF T

(* The volume of the slice is the last of them.                            *)
LEMMA SliceVolumeIs ==
  ASSUME NEW cs, NEW l \in Nat, NEW u \in Nat, l <= u
  PROVE  \E sums : IsSlice(sums, cs, l, u) /\ SliceVolume(cs, l, u) = sums[u]
<1> DEFINE sum == CHOOSE f : IsSlice(f, cs, l, u)
<1>1. IsSlice(sum, cs, l, u)
  <2>1. \E f : IsSlice(f, cs, l, u)
    BY SliceSumsExist
  <2> QED
    BY <2>1
<1>2. SliceVolume(cs, l, u) = sum[u]
  BY DEF SliceVolume, IsSlice
<1> QED
  BY <1>1, <1>2

(* It is the volume of the rows in the window, where all are numbers.      *)
LEMMA SliceVolumeIsTheWindows ==
  ASSUME NEW p, NEW cs, NEW r, NEW n, Places(p, cs, r, n), NaN \notin Int, Null \notin Int,
         NEW S \in SUBSET (1 .. n), NEW l, NEW u, Slices(p, n, S, l, u), Voluminous(r, S)
  PROVE  SliceVolume(cs, l, u) = Contract!Volume(r, S)
<1>1. /\ n \in Nat /\ Len(r.frame.rows) = n
      /\ \A k \in 1 .. n : p[k] \in 1 .. n /\ cs[k].volume = r.frame.rows[p[k]].volume
      /\ \A i \in 1 .. n : \E k \in 1 .. n : p[k] = i
      /\ \A k, m \in 1 .. n : p[k] = p[m] => k = m
  BY DEF Places, Bijection, Injection, IsInjective
<1>2. /\ l \in Nat /\ u \in Nat /\ l <= u /\ u <= n
      /\ \A k \in 1 .. n : p[k] \in S <=> l < k /\ k <= u
  BY <1>1, SMTT(60) DEF Slices
<1>3. PICK sums : IsSlice(sums, cs, l, u) /\ SliceVolume(cs, l, u) = sums[u]
  BY <1>2, SliceVolumeIs
<1>4. \A k \in l .. u : sums[k] = IF k = l THEN 0 ELSE IF cs[k].volume = Null THEN sums[k - 1]
                                  ELSE Plus(sums[k - 1], cs[k].volume)
  BY <1>3 DEF IsSlice
<1> DEFINE Part(k) == {i \in S : \E m \in l + 1 .. k : p[m] = i}
           T == {i \in 0 .. u - l : sums[l + i] = Contract!Volume(r, Part(l + i))}
<1>5. 0 \in T
  <2>1. Part(l + 0) = {}
    BY <1>2
  <2>2. sums[l + 0] = 0
    BY <1>2, <1>4
  <2> HIDE DEF Part
  <2>3. Contract!Volume(r, Part(l + 0)) = 0
    <3>1. Contract!Volume(r, {}) = 0
      BY <1>1, NoVolume
    <3> QED
      BY <2>1, <3>1
  <2> QED
    BY <1>2, <2>2, <2>3
<1>6. ASSUME NEW i \in 1 .. u - l, i - 1 \in T PROVE i \in T
  <2> DEFINE k == l + i
             x == p[k]
  <2>1. k \in 1 .. n /\ k \in l .. u /\ l < k /\ k <= u /\ k - 1 = l + (i - 1) /\ i \in 0 .. u - l
        /\ k \in Int
    BY <1>1, <1>2
  <2> HIDE DEF k
  <2>2. x \in S /\ x \in 1 .. n /\ cs[k].volume = r.frame.rows[x].volume /\ r.frame.rows[x].volume \in Int
    BY <1>1, <1>2, <2>1 DEF Voluminous
  <2>3. Part(k - 1) \in SUBSET (1 .. n) /\ Voluminous(r, Part(k - 1))
    BY DEF Voluminous
  <2>4. x \notin Part(k - 1)
    <3>1. ASSUME NEW m \in l + 1 .. k - 1, p[m] = x PROVE FALSE
      <4>1. m \in 1 .. n /\ m # k
        BY <1>1, <1>2, <2>1
      <4> QED
        BY <1>1, <2>1, <3>1, <4>1
    <3> QED
      BY <3>1
  <2>5. Part(k) = Part(k - 1) \cup {x}
    <3>1. \A m : m \in l + 1 .. k <=> m \in l + 1 .. k - 1 \/ m = k
      BY <1>2, <2>1
    <3> QED
      BY <2>2, <3>1
  <2>6. sums[k - 1] = Contract!Volume(r, Part(k - 1))
    BY <1>6, <2>1
  <2> HIDE DEF Part, x
  <2>7. /\ Contract!Volume(r, Part(k - 1)) \in Int
        /\ Contract!Volume(r, Part(k)) = Contract!Volume(r, Part(k - 1)) + r.frame.rows[x].volume
    <3> DEFINE Q == Part(k - 1)
    <3>1. Q \in SUBSET (1 .. n) /\ Voluminous(r, Q) /\ x \notin Q /\ Part(k) = Q \cup {x}
      BY <2>3, <2>4, <2>5
    <3>2. x \in 1 .. n /\ r.frame.rows[x].volume \in Int /\ n \in Nat /\ Len(r.frame.rows) = n
      BY <1>1, <2>2
    <3> HIDE DEF Q
    <3>3. /\ Contract!Volume(r, Q) \in Int
          /\ Contract!Volume(r, Q \cup {x}) = Contract!Volume(r, Q) + r.frame.rows[x].volume
      BY <3>1, <3>2, OneMoreVolume, ZenonT(60)
    <3> QED
      BY <3>1, <3>3 DEF Q
  <2>8. k # l /\ cs[k].volume # Null
    BY <1>2, <2>1, <2>2
  <2>9. sums[k] = Plus(sums[k - 1], cs[k].volume)
    BY <1>4, <2>1, <2>8
  <2>10. sums[k] = sums[k - 1] + cs[k].volume
    BY <2>2, <2>6, <2>7, <2>9 DEF Plus
  <2>11. sums[k] = Contract!Volume(r, Part(k))
    BY <2>2, <2>6, <2>7, <2>10
  <2> QED
    BY <2>1, <2>11 DEF k
<1>7. u - l \in Nat /\ l + (u - l) = u
  BY <1>2
<1>8. Part(u) = S
  <2>1. ASSUME NEW i \in S PROVE \E m \in l + 1 .. u : p[m] = i
    <3>1. PICK k \in 1 .. n : p[k] = i
      BY <1>1
    <3>2. p[k] \in S
      BY <3>1
    <3>3. l < k /\ k <= u /\ k \in Int
      BY <1>1, <1>2, <3>2
    <3>4. k \in l + 1 .. u
      BY <1>2, <3>3
    <3> QED
      BY <3>1, <3>4
  <2> QED
    BY <2>1
<1> HIDE DEF T, Part
<1>9. 0 .. u - l \subseteq T
  BY <1>5, <1>6, <1>7, UpTo
<1>10. u - l \in T
  BY <1>7, <1>9
<1>11. sums[u] = Contract!Volume(r, Part(u))
  BY <1>7, <1>10 DEF T
<1> QED
  BY <1>3, <1>8, <1>11

(* The difference of the prefix sums counts the rows that trade.           *)
LEMMA SliceTrades ==
  ASSUME NEW p, NEW cs, NEW r, NEW n, Places(p, cs, r, n),
         NEW S \in SUBSET (1 .. n), NEW l, NEW u, Slices(p, n, S, l, u)
  PROVE  TradedBefore(cs, u) - TradedBefore(cs, l) = Cardinality(Traders(r, S))
<1> DEFINE A == {i \in 1 .. u : cs[i].volume # Null /\ Exceeds(cs[i].volume, 0)}
           B == {i \in 1 .. l : cs[i].volume # Null /\ Exceeds(cs[i].volume, 0)}
           K == {k \in 1 .. n : p[k] \in Traders(r, S)}
<1>1. /\ n \in Nat /\ p \in Bijection(1 .. n, 1 .. n)
      /\ \A k \in 1 .. n : p[k] \in 1 .. n /\ cs[k].volume = r.frame.rows[p[k]].volume
  BY DEF Places
<1>2. l \in 0 .. n /\ u \in 0 .. n /\ l <= u /\ \A k \in 1 .. n : p[k] \in S <=> l < k /\ k <= u
  BY DEF Slices
<1>3. TradedBefore(cs, u) = Cardinality(A) /\ TradedBefore(cs, l) = Cardinality(B)
  BY DEF TradedBefore
<1>4. \A k : k \in K <=> k \in 1 .. n /\ l < k /\ k <= u /\ cs[k].volume # Null /\ Exceeds(cs[k].volume, 0)
  BY <1>1, <1>2 DEF Traders
<1>5. /\ \A k : k \in A <=> k \in 1 .. n /\ k <= u /\ cs[k].volume # Null /\ Exceeds(cs[k].volume, 0)
      /\ \A k : k \in B <=> k \in 1 .. n /\ k <= l /\ cs[k].volume # Null /\ Exceeds(cs[k].volume, 0)
  <2>1. \A k : (k \in 1 .. u <=> k \in 1 .. n /\ k <= u) /\ (k \in 1 .. l <=> k \in 1 .. n /\ k <= l)
    BY <1>1, <1>2
  <2> QED
    BY <2>1
<1>6. Traders(r, S) \in SUBSET (1 .. n)
  BY DEF Traders
<1>7. Cardinality(K) = Cardinality(Traders(r, S))
  BY <1>1, <1>6, PermutedCount
<1> HIDE DEF A, B, K
<1>8. A \ B = K /\ A \cap B = B
  <2>1. \A k \in 1 .. n : (k <= l => k <= u) /\ (l < k <=> ~(k <= l))
    BY <1>1, <1>2
  <2> QED
    BY <1>4, <1>5, <2>1
<1>9. IsFiniteSet(A) /\ IsFiniteSet(B)
  <2>1. IsFiniteSet(1 .. n) /\ A \in SUBSET (1 .. n) /\ B \in SUBSET (1 .. n)
    BY <1>1, <1>5, FS_Interval
  <2> QED
    BY <2>1, FS_Subset
<1>10. Cardinality(A \ B) = Cardinality(A) - Cardinality(A \cap B)
  BY <1>9, FS_Difference
<1> QED
  BY <1>3, <1>7, <1>8, <1>10

(* The engine's row is the row of its window, whatever the frame.          *)
THEOREM EngineRowIsTheWindow ==
  ASSUME NEW r \in Request, Resolvable(r), NEW t \in Int, NEW T
  PROVE  Contract!IsWindow(r, t, EngineRow(EngineCandles(r), T, t, ResolvedSchedule(r), r.cadence))
<1> DEFINE cs == EngineCandles(r)
           n == Len(r.frame.rows)
           s == ResolvedSchedule(r)
           S == Contract!Contained(r, t)
           l == Lower(cs, t, s)
           u == Upper(cs, t, s)
           row == EngineRow(cs, T, t, s, r.cadence)
<1>1. cs \in Held(r)
  BY EngineHoldsInOrder
<1>2. PICK p : InTimeOrder(p, cs, r)
  BY EngineHoldsInOrder
<1>3. Places(p, cs, r, n)
  BY <1>1, <1>2, InOrderPlaces
<1> HIDE DEF cs
<1>4. Slices(p, n, S, l, u)
  BY <1>1, <1>3, SliceIsTheWindow
<1>5. /\ S \in SUBSET (1 .. n) /\ n \in Nat /\ r.cadence \in Nat /\ s.window = r.window
      /\ IsFiniteSet(S) /\ Cardinality(S) \in Nat
      /\ u - l = Cardinality(S) /\ l \in Nat /\ u \in Nat
  BY <1>1, ContainedAre, SliceCountsTheWindow DEF ResolvedSchedule
<1>6. DOMAIN cs = 1 .. n
  BY <1>3 DEF Places
<1> HIDE DEF n, S, l, u, s
<1>7. CASE S = {}
  <2>1. Cardinality(S) = 0
    BY <1>7, FS_EmptySet
  <2>2. ~HasData(l, u)
    BY <1>5, <2>1 DEF HasData
  <2>3. row = EmptyRow(t, s)
    BY <2>2 DEF EngineRow, l, u
  <2> QED
    BY <1>7, <2>3, EmptyIsWindow DEF S, s, cs
<1>8. CASE S # {}
  <2>1. l < u
    BY <1>3, <1>4, <1>5, <1>8, FirstOfSliceIsEarliest
  <2>2. HasData(l, u) /\ cs # <<>>
    <3>1. HasData(l, u)
      BY <1>5, <2>1 DEF HasData
    <3>2. n # 0
      <4>1. PICK i \in S : i \in 1 .. n
        BY <1>5, <1>8
      <4>2. i \in Int /\ 1 <= i /\ i <= n
        BY <1>5, <4>1
      <4> QED
        BY <1>5, <4>2
    <3>3. cs = <<>> => DOMAIN cs = {}
      OBVIOUS
    <3>4. 1 \in 1 .. n
      BY <1>5, <3>2
    <3> QED
      BY <1>6, <3>1, <3>3, <3>4
  <2>3. /\ row.open_time = t - s.window /\ row.close_time = t
        /\ row.open = cs[Clip(l, cs) + 1].open
        /\ row.high = RollingHigh(cs, T, t, s, r.cadence)
        /\ row.low = RollingLow(cs, T, t, s, r.cadence)
        /\ row.close = cs[TieStart(cs, u) + 1].close
        /\ row.volume = SliceVolume(cs, l, u)
        /\ row.src_count = u - l
        /\ row.coverage = (u - l) * r.cadence
        /\ row.traded = (TradedBefore(cs, u) - TradedBefore(cs, l)) * r.cadence
    BY <2>2 DEF EngineRow, l, u
  <2> HIDE DEF row
  <2>4. Level(r, S, n)
    <3>1. \A i \in 1 .. n : i \in S <=> t - r.window <= Contract!Opens(r, i)
                                          /\ Contract!Opens(r, i) + r.cadence <= t
      BY ContainedAre DEF n, S
    <3> QED
      BY <3>1 DEF Level
  <2>5. row.open = r.frame.rows[Contract!Earliest(r, S)].open
    BY <1>3, <1>4, <1>5, <1>8, <2>3, FirstOfSliceIsEarliest
  <2>6. row.close = r.frame.rows[Contract!Latest(r, S)].close
    BY <1>3, <1>4, <1>5, <1>8, <2>3, <2>4, TieStartIsLatest
  <2>7. Extreme(r, S, row.high, row.low)
    <3>1. Extreme(r, S, RollingHigh(cs, T, t, s, r.cadence), RollingLow(cs, T, t, s, r.cadence))
      BY <1>3, <1>8, RollingIsExtreme DEF S, s
    <3> QED
      BY <2>3, <3>1
  <2>8. Voluminous(r, S) => row.volume = Contract!Volume(r, S)
    <3>1. NaN \notin Int /\ Null \notin Int
      BY MakerAssumption
    <3> QED
      BY <1>3, <1>4, <1>5, <2>3, <3>1, SliceVolumeIsTheWindows
  <2>9. row.traded = Cardinality(Traders(r, S)) * r.cadence
    <3>1. TradedBefore(cs, u) - TradedBefore(cs, l) = Cardinality(Traders(r, S))
      BY <1>3, <1>4, <1>5, SliceTrades
    <3> QED
      BY <2>3, <3>1
  <2>10. Fits(r, t, S, row)
    BY <1>5, <2>3, <2>5, <2>6, <2>7, <2>8, <2>9 DEF Fits
  <2> QED
    BY <1>8, <2>10, FitsIsWindow DEF S, row, cs, s
<1> QED
  BY <1>7, <1>8

-----------------------------------------------------------------------------
(* Both implementations implement the contract                             *)

(* What each of the two holds of the frame once it has read it.            *)
HoldsTheFrame ==
  candles = IF maker = "engine" THEN EngineCandles(request) ELSE Candles(request)

(* What the contract says of an answer, by the request alone.              *)
Promised ==
  \/ answer = Refused /\ ~Contract!Answerable(request)
  \/ answer = Raised /\ Contract!Answerable(request) /\ Contract!MayRaise(request)
  \/ /\ Contract!Answerable(request)
     /\ "rows" \in DOMAIN answer /\ DOMAIN answer.rows = Contract!Ticks(request)
     /\ \A t \in Contract!Ticks(request) : Contract!IsWindow(request, t, answer.rows[t])

CallSoFar ==
  /\ maker \in {"engine", "reference"}
  /\ stage \in {"resolve", "extract", "ticks", "build", "done"}
  /\ stage \in {"ticks", "build"} => request.frame.complete /\ HoldsTheFrame
  /\ stage = "build" => Contract!Answerable(request) /\ ticks = Contract!Ticks(request)
  /\ stage # "done" => answer = Pending
  /\ stage = "done" => Promised

(* Either is an arrangement of the frame.                                  *)
LEMMA HeldByMaker ==
  ASSUME request \in Request, HoldsTheFrame
  PROVE  candles \in Held(request)
  BY EngineHoldsInOrder DEF HoldsTheFrame, Held

(* The ticks of both are the contract's.                                   *)
LEMMA WarmupIsTheContracts ==
  ASSUME request \in Request, Resolvable(request), HoldsTheFrame, maker \in {"engine", "reference"},
         request.materialization.kind = "skip_warmup"
  PROVE  WarmupTicks = Contract!Ticks(request)
<1>1. candles \in Held(request) /\ (candles = <<>> <=> Contract!Rows(request) = {})
  BY HeldByMaker, NoCandlesNoRows
<1>2. Contract!Ticks(request) = IF Contract!Rows(request) = {} THEN {} ELSE Contract!WarmTicks(request)
  BY DEF Contract!Ticks
<1>3. CASE candles = <<>>
  BY <1>1, <1>2, <1>3 DEF WarmupTicks
<1>4. CASE candles # <<>> /\ maker = "engine"
  <2>1. WarmupTicks = EngineWarmupTicks(candles, ResolvedSchedule(request), request.cadence)
    BY <1>4 DEF WarmupTicks, Schedule
  <2> QED
    BY <1>1, <1>2, <1>4, <2>1, EngineWarmupIsWarm
<1>5. CASE candles # <<>> /\ maker = "reference"
  <2>1. candles = Candles(request)
    BY <1>5 DEF HoldsTheFrame
  <2>2. WarmupTicks = ReferenceWarmupTicks(Candles(request), ResolvedSchedule(request))
    BY <1>5, <2>1 DEF WarmupTicks, Schedule
  <2> QED
    BY <1>1, <1>2, <1>5, <2>1, <2>2, OracleWarmupIsWarm
<1> QED
  BY <1>3, <1>4, <1>5

(* A null stops the oracle only where the contract lets it.                *)
LEMMA StopsMayRaise ==
  ASSUME NEW r \in Request, NEW t \in Int, t \in Contract!Ticks(r),
         StopsAt(Candles(r), Included(Candles(r), t, r.window))
  PROVE  Contract!MayRaise(r)
<1> DEFINE n == Len(r.frame.rows)
           S == Contract!Contained(r, t)
<1>1. Mirrors(Candles(r), r, n) /\ Included(Candles(r), t, r.window) = S /\ S \in SUBSET (1 .. n)
  BY CandlesMirror, IncludedAre, ContainedAre
<1> HIDE DEF n, S
<1>2. PICK i \in S : Null \in {Candles(r)[i].high, Candles(r)[i].low, Candles(r)[i].volume}
  BY <1>1 DEF StopsAt
<1>3. \/ Null = r.frame.rows[i].high \/ Null = r.frame.rows[i].low \/ Null = r.frame.rows[i].volume
  BY <1>1, <1>2 DEF Mirrors
<1>4. \/ Null \in Contract!Cells(r, S, "high") \/ Null \in Contract!Cells(r, S, "low")
      \/ Null \in Contract!Cells(r, S, "volume")
  BY <1>3, CellsAre
<1> QED
  BY <1>4 DEF Contract!MayRaise, S

(* A request whose answer takes rows.                                      *)
LEMMA RequestIsAnswerable ==
  ASSUME request \in Request, Resolvable(request), request.frame.complete,
         \/ request.materialization.kind = "range"
         \/ request.materialization.kind = "skip_warmup" /\ Contract!Ticks(request) # {}
  PROVE  Contract!Answerable(request)
  BY LegalIsResolvable DEF Contract!Answerable

(* Each step leaves the call as it is or answers it as promised.           *)
LEMMA StepsKeepThePromise ==
  ASSUME TicksInvariant, CallSoFar, WindowsNext
  PROVE  \/ UNCHANGED <<request, answer>> /\ stage' # "done"
         \/ answer = Pending /\ UNCHANGED request /\ Promised' /\ stage' = "done"
<1>0. request \in Request
  BY DEF TicksInvariant
<1>1. CASE Resolve
  BY <1>1 DEF Resolve
<1>2. CASE RefuseSchedule
  <2>1. answer = Pending /\ UNCHANGED request /\ answer' = Refused /\ ~Contract!Answerable(request) /\ stage' = "done"
    BY <1>0, <1>2, LegalIsResolvable DEF RefuseSchedule, Refuse, CallSoFar, Contract!Answerable
  <2> QED
    BY <2>1 DEF Promised, Refused
<1>3. CASE ExtractCandles
  BY <1>3 DEF ExtractCandles
<1>4. CASE RefuseColumns
  <2>1. answer = Pending /\ UNCHANGED request /\ answer' = Refused /\ ~Contract!Answerable(request) /\ stage' = "done"
    BY <1>4 DEF RefuseColumns, Refuse, CallSoFar, Contract!Answerable
  <2> QED
    BY <2>1 DEF Promised, Refused
<1>5. CASE ResolveRange
  BY <1>5 DEF ResolveRange, Emit
<1>6. CASE ResolveWarmup
  BY <1>6 DEF ResolveWarmup, Emit
<1>7. CASE RefuseTicks
  <2>1. answer = Pending /\ UNCHANGED request /\ answer' = Refused /\ stage' = "done"
    BY <1>7 DEF RefuseTicks, Refuse, CallSoFar
  <2>2. ~Contract!Answerable(request)
    <3>1. CASE request.materialization.kind = "skip_warmup" /\ WarmupTicks = {}
      <4>1. Contract!Ticks(request) = {}
        BY <1>0, <1>7, <3>1, WarmupIsTheContracts DEF RefuseTicks, TicksInvariant, CallSoFar
      <4> QED
        BY <3>1, <4>1 DEF Contract!Answerable
    <3>2. CASE request.materialization.kind \notin {"range", "skip_warmup"}
      BY <3>2 DEF Contract!Answerable
    <3> QED
      BY <1>7, <3>1, <3>2 DEF RefuseTicks
  <2> QED
    BY <2>1, <2>2 DEF Promised, Refused
<1>8. CASE Build
  <2>1. /\ answer = Pending /\ UNCHANGED request /\ Contract!Answerable(request) /\ stage' = "done"
        /\ ticks = Contract!Ticks(request) /\ HoldsTheFrame /\ Resolvable(request) /\ ~Stops
        /\ ticks \subseteq Int /\ maker \in {"engine", "reference"}
        /\ answer' = [rows |-> [t \in ticks |-> Row(t)]]
    BY <1>8 DEF Build, CallSoFar, TicksInvariant
  <2>2. ASSUME NEW t \in ticks PROVE Contract!IsWindow(request, t, Row(t))
    <3>1. t \in Int
      BY <2>1
    <3>2. CASE maker = "engine"
      <4>1. Row(t) = EngineRow(EngineCandles(request), ticks, t, ResolvedSchedule(request), request.cadence)
        BY <2>1, <3>2 DEF Row, Schedule, HoldsTheFrame
      <4> QED
        BY <1>0, <2>1, <3>1, <4>1, EngineRowIsTheWindow
    <3>3. CASE maker = "reference"
      <4>1. candles = Candles(request)
        BY <2>1, <3>3 DEF HoldsTheFrame
      <4>2. Row(t) = ReferenceRow(Candles(request), t, ResolvedSchedule(request))
        BY <3>3, <4>1 DEF Row, Schedule
      <4>3. ~StopsAt(Candles(request), Included(Candles(request), t, request.window))
        BY <2>1, <2>2, <3>3, <4>1 DEF Stops, Schedule, ResolvedSchedule
      <4> QED
        BY <1>0, <3>1, <4>2, <4>3, OracleRowIsTheWindow
    <3> QED
      BY <2>1, <3>2, <3>3
  <2>3. /\ "rows" \in DOMAIN answer' /\ DOMAIN answer'.rows = Contract!Ticks(request)
        /\ \A t \in Contract!Ticks(request) : answer'.rows[t] = Row(t)
    BY <2>1
  <2>4. \A t \in Contract!Ticks(request) : Contract!IsWindow(request, t, answer'.rows[t])
    BY <2>1, <2>2, <2>3
  <2> QED
    BY <2>1, <2>3, <2>4 DEF Promised
<1>9. CASE RaiseOnNull
  <2>1. /\ answer = Pending /\ UNCHANGED request /\ Contract!Answerable(request) /\ stage' = "done"
        /\ ticks = Contract!Ticks(request) /\ HoldsTheFrame /\ Stops /\ ticks \subseteq Int
        /\ answer' = Raised
    BY <1>9 DEF RaiseOnNull, CallSoFar, TicksInvariant
  <2>2. candles = Candles(request) /\ Schedule.window = request.window
    BY <2>1 DEF Stops, HoldsTheFrame, Schedule, ResolvedSchedule
  <2>3. PICK t \in ticks : StopsAt(Candles(request), Included(Candles(request), t, request.window))
    BY <2>1, <2>2 DEF Stops
  <2>4. Contract!MayRaise(request)
    BY <1>0, <2>1, <2>3, StopsMayRaise
  <2> QED
    BY <2>1, <2>4 DEF Promised, Raised
<1> QED
  BY <1>1, <1>2, <1>3, <1>4, <1>5, <1>6, <1>7, <1>8, <1>9 DEF WindowsNext

(* A call starts so,                                                       *)
LEMMA CallInit == WindowsInit => CallSoFar
  BY MakerAssumption DEF WindowsInit, CallSoFar

(* and each step keeps it so.                                              *)
LEMMA CallNext == TicksInvariant /\ CallSoFar /\ [WindowsNext]_windows => CallSoFar'
<1> SUFFICES ASSUME TicksInvariant, CallSoFar, [WindowsNext]_windows PROVE CallSoFar'
  OBVIOUS
<1>0. request \in Request
  BY DEF TicksInvariant
<1>1. CASE Resolve
  BY <1>1 DEF Resolve, CallSoFar
<1>2. CASE ExtractCandles
  <2>1. candles' = IF maker = "engine" THEN EngineCandles(request) ELSE Candles(request)
    BY <1>2 DEF ExtractCandles, EngineCandles
  <2>2. HoldsTheFrame'
    BY <1>2, <2>1 DEF ExtractCandles, HoldsTheFrame
  <2> QED
    BY <1>2, <2>2 DEF ExtractCandles, CallSoFar
<1>3. CASE ResolveRange \/ ResolveWarmup
  <2>1. /\ stage = "ticks" /\ stage' = "build" /\ UNCHANGED <<maker, request, candles, answer>>
        /\ request.frame.complete /\ HoldsTheFrame /\ Resolvable(request)
        /\ maker \in {"engine", "reference"} /\ answer = Pending
    BY <1>3 DEF ResolveRange, ResolveWarmup, Emit, CallSoFar, TicksInvariant
  <2>2. HoldsTheFrame'
    BY <2>1 DEF HoldsTheFrame
  <2>3. Contract!Answerable(request) /\ ticks' = Contract!Ticks(request)
    <3>1. CASE ResolveRange
      <4>1. /\ request.materialization.kind = "range"
            /\ request.materialization.start \in Int /\ request.materialization.end \in Int
            /\ ticks' = GridTicks(request.materialization.start, request.materialization.end,
                                  ResolvedSchedule(request))
        BY <1>0, <3>1, RequestAssumption DEF ResolveRange, Emit, Schedule
      <4>2. ticks' = {t \in request.materialization.start .. request.materialization.end - 1 :
                        Contract!OnGrid(request, t)}
        BY <1>0, <2>1, <4>1, RangeIsTheGrid
      <4>3. ticks' = Contract!Ticks(request)
        BY <4>1, <4>2 DEF Contract!Ticks
      <4> QED
        BY <1>0, <2>1, <4>1, <4>3, RequestIsAnswerable
    <3>2. CASE ResolveWarmup
      <4>1. request.materialization.kind = "skip_warmup" /\ WarmupTicks # {} /\ ticks' = WarmupTicks
        BY <3>2 DEF ResolveWarmup, Emit
      <4>2. WarmupTicks = Contract!Ticks(request)
        BY <1>0, <2>1, <4>1, WarmupIsTheContracts
      <4> QED
        BY <1>0, <2>1, <4>1, <4>2, RequestIsAnswerable
    <3> QED
      BY <1>3, <3>1, <3>2
  <2> QED
    BY <2>1, <2>2, <2>3 DEF CallSoFar
<1>4. CASE RefuseSchedule \/ RefuseColumns \/ RefuseTicks \/ Build \/ RaiseOnNull
  <2>1. stage' = "done" /\ maker' = maker
    BY <1>4 DEF RefuseSchedule, RefuseColumns, RefuseTicks, Refuse, Build, RaiseOnNull
  <2>2. Promised'
    BY <1>4, <2>1, StepsKeepThePromise DEF WindowsNext
  <2> QED
    BY <2>1, <2>2 DEF CallSoFar
<1>5. CASE UNCHANGED windows
  BY <1>5 DEF windows, CallSoFar, HoldsTheFrame, Promised
<1> QED
  BY <1>1, <1>2, <1>3, <1>4, <1>5 DEF WindowsNext

(* Each call answers as promised.                                          *)
LEMMA CallsAnswer == WindowsSpec => [](TicksInvariant /\ CallSoFar)
  BY TicksInit, TicksNext, CallInit, CallNext, PTL DEF WindowsSpec

(* compute_windows and compute_reference_windows both implement the        *)
(* contract: on every request, sorted or not, duplicated, off the phase or *)
(* gapped, with cells that are numbers or not, each refuses exactly when   *)
(* there is no answer, and else returns the row of each window at each     *)
(* tick, or stops at a null where the contract lets it.                    *)
THEOREM BothImplementTheContract == WindowsSpec => ImplementsContract
<1>1. WindowsInit => Contract!ContractInit
  BY DEF WindowsInit, Contract!ContractInit, Pending, Contract!Pending
<1>2. TicksInvariant /\ CallSoFar /\ [WindowsNext]_windows => [Contract!Answer]_(Contract!contract)
  <2> SUFFICES ASSUME TicksInvariant, CallSoFar, [WindowsNext]_windows
               PROVE  Contract!Answer \/ UNCHANGED <<request, answer>>
    BY DEF Contract!contract
  <2>1. CASE WindowsNext
    <3>1. CASE UNCHANGED <<request, answer>>
      BY <3>1
    <3>2. CASE answer = Pending /\ UNCHANGED request /\ Promised'
      <4>1. \/ answer' = Refused /\ ~Contract!Answerable(request)
            \/ answer' = Raised /\ Contract!Answerable(request) /\ Contract!MayRaise(request)
            \/ /\ Contract!Answerable(request)
               /\ "rows" \in DOMAIN answer' /\ DOMAIN answer'.rows = Contract!Ticks(request)
               /\ \A t \in Contract!Ticks(request) : Contract!IsWindow(request, t, answer'.rows[t])
        BY <3>2 DEF Promised, Refused, Raised
      <4> QED
        BY <3>2, <4>1 DEF Contract!Answer, Pending, Contract!Pending, Refused, Contract!Refused,
                          Raised, Contract!Raised
    <3> QED
      BY <2>1, <3>1, <3>2, StepsKeepThePromise
  <2>2. CASE UNCHANGED windows
    BY <2>2 DEF windows
  <2> QED
    BY <2>1, <2>2
<1> QED
  BY <1>1, <1>2, CallsAnswer, PTL DEF WindowsSpec, ImplementsContract, Contract!ContractSpec

-----------------------------------------------------------------------------
(* What follows from the contract over a validated frame                   *)

(* Every tick the contract states is the close of a source candle.         *)
LEMMA TicksOfTheContract ==
  ASSUME NEW r \in Request, Contract!Answerable(r), NEW t \in Contract!Ticks(r)
  PROVE  /\ Resolvable(r) /\ t \in Int /\ Contract!OnGrid(r, t)
         /\ (t - r.phase) % r.cadence = 0
<1>1. Resolvable(r)
  BY LegalIsResolvable DEF Contract!Answerable
<1>2. t \in Int /\ Contract!OnGrid(r, t)
  <2>1. CASE r.materialization.kind = "range"
    <3>1. r.materialization.start \in Int /\ r.materialization.end \in Int
      BY <2>1, RequestAssumption
    <3>2. t \in r.materialization.start .. r.materialization.end - 1 /\ Contract!OnGrid(r, t)
      BY <2>1 DEF Contract!Ticks
    <3> QED
      BY <3>1, <3>2
  <2>2. CASE r.materialization.kind # "range"
    <3>1. Contract!Rows(r) # {} /\ t \in Contract!WarmTicks(r)
      BY <2>2 DEF Contract!Ticks
    <3>2. t \in Contract!Reachable(r)
      BY <3>1 DEF Contract!WarmTicks
    <3>3. Candles(r) \in Held(r) /\ Candles(r) # <<>>
      BY <3>1, NoCandlesNoRows DEF Held
    <3>4. Contract!Reachable(r) \in SUBSET Int
      BY <1>1, <3>3, ReachableAre
    <3>5. Contract!OnGrid(r, t)
      BY <3>2 DEF Contract!Reachable
    <3> QED
      BY <3>2, <3>4, <3>5
  <2> QED
    BY <2>1, <2>2
<1>3. (t - r.phase) % r.cadence = 0
  BY <1>1, <1>2, GridOfSchedule, ScheduleIsGrid
<1> QED
  BY <1>1, <1>2, <1>3

(* Over a validated frame the coverage of a window is the seconds of it    *)
(* some candle spans, whichever implementation answers, for every          *)
(* schedule, range and frame.                                              *)
THEOREM CoverageIsMeasured == WindowsSpec => []CoverageIsTime
<1>1. TicksInvariant /\ CallSoFar => CoverageIsTime
  <2> SUFFICES ASSUME TicksInvariant, CallSoFar, Answered, Validated, NEW t \in DOMAIN answer.rows
               PROVE  answer.rows[t].coverage = Cardinality(Second(t - request.window, t) \cap Covered)
    BY DEF CoverageIsTime
  <2>1. request \in Request /\ Promised /\ answer # Refused /\ answer # Raised
    BY DEF TicksInvariant, CallSoFar, Answered, Pending, Refused, Raised
  <2>2. /\ Contract!Answerable(request) /\ t \in Contract!Ticks(request)
        /\ Contract!IsWindow(request, t, answer.rows[t])
    BY <2>1 DEF Promised
  <2>3. Resolvable(request) /\ t \in Int /\ (t - request.phase) % request.cadence = 0
    BY <2>1, <2>2, TicksOfTheContract
  <2>4. answer.rows[t].coverage = Contract!Cardinality(Contract!Contained(request, t)) * request.cadence
    BY <2>2 DEF Contract!IsWindow, Contract!Counted
  <2>5. Contract!Cardinality(Contract!Contained(request, t)) = Cardinality(Contract!Contained(request, t))
    BY SameExtremes
  <2>6. Cardinality(Second(t - request.window, t) \cap Covered) =
          Cardinality(Contract!Contained(request, t)) * request.cadence
    BY <2>1, <2>3, SecondsOfTheWindow
  <2> QED
    BY <2>4, <2>5, <2>6
<1> QED
  BY <1>1, CallsAnswer, PTL

(* The ends of full windows are the reachable ticks the contract calls     *)
(* full.                                                                   *)
LEMMA FullEndsAreFull ==
  ASSUME request \in Request, Resolvable(request), Validated, Candles(request) # <<>>
  PROVE  /\ FullEnds = {t \in Contract!Reachable(request) : Contract!Full(request, t)}
         /\ Max(Covered) + 1 = Max(CloseTimes(Candles(request)))
         /\ FullEnds \in SUBSET Int /\ IsFiniteSet(FullEnds)
<1> DEFINE cs == Candles(request)
           s == ResolvedSchedule(request)
<1>1. cs \in Held(request)
  BY DEF Held
<1>2. /\ EngineFullTicks(cs, s, request.cadence) = FullEnds
      /\ Max(Covered) + 1 = Max(CloseTimes(cs))
      /\ FullEnds \in SUBSET Int /\ IsFiniteSet(FullEnds)
  BY <1>1, ScannedAreAllFull
<1>3. WarmupCandidates(cs, s) = Contract!Reachable(request)
  BY <1>1, CandidatesAreReachable
<1>4. Contract!Reachable(request) \in SUBSET Int
  BY <1>1, ReachableAre
<1>5. \A t \in Int : FullyCovered(cs, t, s, request.cadence) <=> Contract!Full(request, t)
  BY <1>1, EngineFullIsFull
<1> HIDE DEF cs, s
<1>6. EngineFullTicks(cs, s, request.cadence) =
        {t \in Contract!Reachable(request) : Contract!Full(request, t)}
  BY <1>3, <1>4, <1>5 DEF EngineFullTicks
<1> QED
  BY <1>2, <1>6 DEF cs

(* And over a validated frame skip_warmup emits, whichever implementation  *)
(* answers, from the first full window there is to the last close, and     *)
(* refuses only if no window is full.                                      *)
THEOREM WarmupEndsWhereItCan == WindowsSpec => []WarmupEndsAtTheFirstFullWindow
<1>1. TicksInvariant /\ CallSoFar => WarmupEndsAtTheFirstFullWindow
  <2> SUFFICES ASSUME TicksInvariant, CallSoFar, stage = "done", answer # Raised,
                      Validated, Resolvable(request), request.frame.complete,
                      request.materialization.kind = "skip_warmup"
               PROVE  IF FullEnds = {} THEN answer = Refused
                      ELSE /\ Answered
                           /\ DOMAIN answer.rows =
                                {t \in Min(FullEnds) .. Max(Covered) + 1 :
                                   (t - request.anchor) % request.emit = 0}
    BY DEF WarmupEndsAtTheFirstFullWindow
  <2> DEFINE reachable == Contract!Reachable(request)
             emitted == Contract!Ticks(request)
             high == Max(CloseTimes(Candles(request)))
             m == Min(FullEnds)
  <2>1. request \in Request /\ Promised
    BY DEF TicksInvariant, CallSoFar
  <2>2. /\ emitted = {} => answer = Refused
        /\ emitted # {} => Answered /\ DOMAIN answer.rows = emitted
    <3>1. emitted = {} => ~Contract!Answerable(request)
      BY DEF Contract!Answerable
    <3>2. emitted # {} => Contract!Answerable(request)
      BY <2>1, RequestIsAnswerable
    <3> QED
      BY <2>1, <3>1, <3>2 DEF Promised, Answered
  <2>3. CASE Candles(request) = <<>>
    <3>1. Contract!Rows(request) = {}
      BY <2>1, <2>3, NoCandlesNoRows DEF Held
    <3>2. emitted = {} /\ FullEnds = {}
      BY <3>1 DEF Contract!Ticks, Contract!Rows, FullEnds
    <3> QED
      BY <2>2, <3>2
  <2>4. CASE Candles(request) # <<>>
    <3>0. Candles(request) \in Held(request)
      BY DEF Held
    <3>1. /\ FullEnds = {t \in reachable : Contract!Full(request, t)}
          /\ Max(Covered) + 1 = high
          /\ FullEnds \in SUBSET Int /\ IsFiniteSet(FullEnds)
      BY <2>1, <2>4, FullEndsAreFull
    <3>2. /\ high \in Int /\ reachable \in SUBSET Int /\ IsFiniteSet(reachable)
          /\ \A t \in Int : \A u \in reachable :
               u <= t => (t \in reachable <=> Contract!OnGrid(request, t) /\ t <= high)
      BY <2>1, <2>4, <3>0, ReachableAre
    <3>3. emitted = {t \in reachable : \E u \in FullEnds : u <= t}
      <4>1. Contract!Rows(request) # {}
        BY <2>1, <2>4, <3>0, NoCandlesNoRows
      <4>2. emitted = Contract!WarmTicks(request)
        BY <4>1 DEF Contract!Ticks
      <4> QED
        BY <3>1, <4>2, WarmTicksAre
    <3>4. FullEnds \in SUBSET reachable
      BY <3>1
    <3> HIDE DEF reachable, emitted, high
    <3>5. /\ FullEnds # {} => m \in FullEnds
          /\ \A t \in reachable : (\E u \in FullEnds : u <= t) <=> FullEnds # {} /\ t >= m
      BY <3>2, <3>4, FromTheFirstFull
    <3>6. CASE FullEnds = {}
      <4>1. emitted = {}
        BY <3>3, <3>6
      <4> QED
        BY <2>2, <3>6, <4>1
    <3>7. CASE FullEnds # {}
      <4>1. m \in FullEnds /\ m \in reachable /\ m \in Int
        BY <3>1, <3>4, <3>5, <3>7
      <4>2. emitted = {t \in reachable : t >= m}
        BY <3>3, <3>5, <3>7
      <4>3. m \in emitted
        BY <4>1, <4>2
      <4> HIDE DEF m
      <4>4. \A t \in Int : t >= m => (t \in reachable <=> Contract!OnGrid(request, t) /\ t <= high)
        BY <3>2, <4>1
      <4>5. emitted = {t \in m .. high : (t - request.anchor) % request.emit = 0}
        <5>1. \A t : t \in emitted <=> t \in reachable /\ t >= m
          BY <4>2
        <5>2. \A t \in Int : Contract!OnGrid(request, t) <=> (t - request.anchor) % request.emit = 0
          BY DEF Contract!OnGrid
        <5>3. \A t : t \in m .. high <=> t \in Int /\ t >= m /\ t <= high
          BY <3>2, <4>1
        <5>4. \A t : t \in emitted <=> t \in m .. high /\ (t - request.anchor) % request.emit = 0
          BY <3>2, <4>4, <5>1, <5>2, <5>3
        <5> QED
          BY <5>4
      <4> QED
        BY <2>2, <3>1, <3>7, <4>3, <4>5 DEF m, high
    <3> QED
      BY <3>6, <3>7
  <2> QED
    BY <2>3, <2>4
<1> QED
  BY <1>1, CallsAnswer, PTL

=============================================================================
