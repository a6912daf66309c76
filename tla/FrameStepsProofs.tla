-------------------------- MODULE FrameStepsProofs --------------------------
(***************************************************************************)
(* What is proved of the steps a caller composes over a frame: the         *)
(* threshold of a policy is exact, the rows kept are those that pass, a    *)
(* report states the verdict, every value is the history's, none looks     *)
(* ahead, and an annotation counts the union of its intervals.             *)
(***************************************************************************)
EXTENDS FrameSteps, FiniteSetTheorems, TLAPS

(* Division rounds down, for a negative dividend too.                      *)
LEMMA DivisionRoundsDown ==
  ASSUME NEW n \in Int, NEW d \in Nat \ {0}
  PROVE  /\ n \div d \in Int
         /\ (n \div d) * d <= n
         /\ n < ((n \div d) + 1) * d
  BY Z3

(* An order between integers is kept by a positive factor.                 *)
LEMMA FactorKeepsOrder ==
  ASSUME NEW a \in Int, NEW b \in Int, NEW d \in Nat \ {0}, a <= b
  PROVE  a * d <= b * d
<1>1. PICK k \in Nat : b = a + k
  <2>1. b - a \in Nat /\ b = a + (b - a)
    OBVIOUS
  <2>2. QED
    BY <2>1
<1>2. k * d \in Nat
  OBVIOUS
<1>3. b * d = a * d + k * d
  BY <1>1
<1>4. QED
  BY <1>2, <1>3

(* "For an integer c, c * q >= p holds exactly when c is at least the      *)
(* least integer at or above p / q" (quality.py:647): a whole second       *)
(* reaches the least passing one just when it reaches the share itself.    *)
THEOREM LeastPassingIsExact ==
  ASSUME NEW policy, policy.part \in Nat, policy.whole \in Nat \ {0},
         NEW window \in Nat, NEW c \in Int
  PROVE  c >= LeastPassing(policy, window) <=> c * policy.whole >= policy.part * window
<1> DEFINE p == policy.part * window
           q == policy.whole
           r == (-p) \div q
<1>1. p \in Int /\ q \in Nat \ {0}
  OBVIOUS
<1>2. LeastPassing(policy, window) = -r
  BY DEF LeastPassing
<1> HIDE DEF p, q
<1>3. r \in Int /\ r * q <= -p /\ -p < (r + 1) * q
  <2>1. -p \in Int
    BY <1>1
  <2>2. QED
    BY <1>1, <2>1, DivisionRoundsDown
<1> HIDE DEF r
<1>4. ASSUME c >= -r PROVE c * q >= p
  <2>1. (-r) * q <= c * q
    BY <1>1, <1>3, <1>4, FactorKeepsOrder
  <2>2. (-r) * q = -(r * q)
    BY <1>1, <1>3
  <2>3. r * q \in Int /\ c * q \in Int
    BY <1>1, <1>3
  <2>4. QED
    BY <1>1, <1>3, <2>1, <2>2, <2>3
<1>5. ASSUME c < -r PROVE c * q < p
  <2>1. c * q <= (-(r + 1)) * q
    BY <1>1, <1>3, <1>5, FactorKeepsOrder
  <2>2. (-(r + 1)) * q = -((r + 1) * q)
    BY <1>1, <1>3
  <2>3. (r + 1) * q \in Int /\ c * q \in Int
    BY <1>1, <1>3
  <2>4. QED
    BY <1>1, <1>3, <2>1, <2>2, <2>3
<1>6. c * q \in Int
  BY <1>1
<1>7. c >= LeastPassing(policy, window) <=> c * q >= p
  BY <1>1, <1>2, <1>3, <1>4, <1>5, <1>6
<1>8. QED
  BY <1>7 DEF p, q

(* What a filter drops, a strict gate refuses and a report counts are      *)
(* exactly the rows that do not state, for either bar, a measure that      *)
(* reaches it; for every policy, window and frame in any row order.        *)
THEOREM OffendersMissABar ==
  ASSUME NEW policy, policy.part \in Nat, policy.whole \in Nat \ {0},
         policy.min_traded_seconds \in Nat,
         NEW window \in Nat, NEW f, Null \notin Int,
         \A i \in DOMAIN f.rows :
           {f.rows[i].coverage_seconds, f.rows[i].traded_seconds} \subseteq Int \cup {Null}
  PROVE  Offending(f, policy, window) =
           {i \in DOMAIN f.rows :
              ~ /\ f.rows[i].coverage_seconds # Null
                /\ f.rows[i].coverage_seconds * policy.whole >= policy.part * window
                /\ f.rows[i].traded_seconds # Null
                /\ f.rows[i].traded_seconds >= policy.min_traded_seconds}
<1>1. LeastPassing(policy, window) \in Int
  <2>1. -(policy.part * window) \in Int
    OBVIOUS
  <2>2. (-(policy.part * window)) \div policy.whole \in Int
    BY <2>1, DivisionRoundsDown
  <2>3. QED
    BY <2>2 DEF LeastPassing
<1>2. ASSUME NEW i \in DOMAIN f.rows
      PROVE  Below(f.rows[i].coverage_seconds, LeastPassing(policy, window)) <=>
               ~ /\ f.rows[i].coverage_seconds # Null
                 /\ f.rows[i].coverage_seconds * policy.whole >= policy.part * window
  <2>1. CASE f.rows[i].coverage_seconds = Null
    BY <2>1 DEF Below
  <2>2. CASE f.rows[i].coverage_seconds \in Int
    <3>1. f.rows[i].coverage_seconds >= LeastPassing(policy, window) <=>
            f.rows[i].coverage_seconds * policy.whole >= policy.part * window
      BY <2>2, LeastPassingIsExact
    <3>2. f.rows[i].coverage_seconds # Null
      BY <2>2
    <3>3. QED
      BY <1>1, <2>2, <3>1, <3>2 DEF Below
  <2>3. QED
    BY <2>1, <2>2
<1>3. ASSUME NEW i \in DOMAIN f.rows
      PROVE  Below(f.rows[i].traded_seconds, policy.min_traded_seconds) <=>
               ~ /\ f.rows[i].traded_seconds # Null
                 /\ f.rows[i].traded_seconds >= policy.min_traded_seconds
  <2>1. CASE f.rows[i].traded_seconds = Null
    BY <2>1 DEF Below
  <2>2. CASE f.rows[i].traded_seconds \in Int
    BY <2>2 DEF Below
  <2>3. QED
    BY <2>1, <2>2
<1>4. QED
  BY <1>2, <1>3 DEF Offending, LowCoverage, LowTraded

-----------------------------------------------------------------------------
(* Lists of numbers, upwards                                               *)

(* A set of numbers that is not empty has a least one.                     *)
LEMMA LeastOfNat ==
  ASSUME NEW T \in SUBSET Nat, T # {}
  PROVE  \E x \in T : \A y \in T : x <= y
<1> DEFINE R == OpToRel(<, Nat)
<1>1. IsWellFoundedOn(R, Nat)
  BY NatLessThanWellFounded
<1> HIDE DEF R
<1>2. PICK x \in T : \A y \in T : <<y, x>> \notin R
  BY <1>1, WFMin
<1>3. \A y \in T : ~(y < x)
  BY <1>2 DEF R, OpToRel
<1> QED
  BY <1>3

(* Of positions, some come first. *)
LEMMA FirstIsTheLeast ==
  ASSUME NEW n \in Nat, NEW S \in SUBSET (1 .. n), S # {}
  PROVE  First(S) \in S /\ \A j \in S : First(S) <= j
<1>1. S \in SUBSET Nat
  OBVIOUS
<1>2. \E i \in S : \A j \in S : i <= j
  BY <1>1, LeastOfNat
<1> QED
  BY <1>2 DEF First

(* e lists S upwards, n of them *)
Lists(e, n, S) ==
  /\ n \in Nat /\ DOMAIN e = 1 .. n
  /\ \A k \in 1 .. n : e[k] \in S
  /\ \A k, l \in 1 .. n : k < l => e[k] < e[l]
  /\ \A j \in S : \E k \in 1 .. n : e[k] = j

(* What comes before i in S.                                               *)
Before(S, i) == {j \in S : j < i}

(* Among finitely many, what comes before one is finite.                   *)
LEMMA BeforeIsFinite ==
  ASSUME NEW n \in Nat, NEW S \in SUBSET (1 .. n), NEW i
  PROVE  /\ IsFiniteSet(S) /\ Cardinality(S) \in Nat
         /\ IsFiniteSet(Before(S, i)) /\ Cardinality(Before(S, i)) \in Nat
<1>1. IsFiniteSet(1 .. n)
  BY FS_Interval
<1>2. S \in SUBSET (1 .. n) /\ Before(S, i) \in SUBSET (1 .. n)
  BY DEF Before
<1>3. IsFiniteSet(S) /\ IsFiniteSet(Before(S, i))
  BY <1>1, <1>2, FS_Subset
<1> QED
  BY <1>3, FS_CardinalityType

(* A list has as many entries as there are, and each stands after as many  *)
(* as there are before it.                                                 *)
LEMMA ListCounts ==
  ASSUME NEW S \in SUBSET Int, NEW n, NEW e, Lists(e, n, S)
  PROVE  /\ Cardinality(S) = n
         /\ \A k \in 1 .. n : Cardinality(Before(S, e[k])) = k - 1
<1>0. /\ n \in Nat /\ \A k \in 1 .. n : e[k] \in S /\ e[k] \in Int
      /\ \A k, l \in 1 .. n : k < l => e[k] < e[l]
      /\ \A j \in S : \E k \in 1 .. n : e[k] = j
  <2>1. \A s \in S : s \in Int
    OBVIOUS
  <2> QED
    BY <2>1 DEF Lists
<1>1. ASSUME NEW T, NEW l \in 0 .. n, T = {e[k] : k \in 1 .. l}
      PROVE  Cardinality(T) = l
  <2> DEFINE g == [k \in 1 .. l |-> e[k]]
  <2>1. \A k \in 1 .. l : k \in 1 .. n /\ e[k] \in Int
    BY <1>0
  <2>2. g \in [1 .. l -> T] /\ (\A t \in T : \E k \in 1 .. l : g[k] = t)
    BY <1>1
  <2>3. ASSUME NEW k \in 1 .. l, NEW j \in 1 .. l, g[k] = g[j] PROVE k = j
    <3>1. e[k] = e[j] /\ k \in 1 .. n /\ j \in 1 .. n /\ e[k] \in Int
      BY <2>1, <2>3
    <3>2. ~(k < j) /\ ~(j < k)
      BY <3>1 DEF Lists
    <3> QED
      BY <3>2
  <2>4. g \in Bijection(1 .. l, T)
    BY <2>2, <2>3 DEF Bijection, Injection, Surjection, IsInjective
  <2>5. ExistsBijection(1 .. l, T) /\ l \in Nat
    BY <2>4 DEF ExistsBijection
  <2> QED
    BY <2>5, FS_CountingElements
<1>2. Cardinality(S) = n
  <2>1. n \in 0 .. n
    BY <1>0
  <2>2. \A s \in S : s \in {e[k] : k \in 1 .. n}
    BY <1>0
  <2>3. S = {e[k] : k \in 1 .. n}
    BY <1>0, <2>2
  <2> QED
    BY <1>1, <2>1, <2>3
<1>3. ASSUME NEW k \in 1 .. n PROVE Cardinality(Before(S, e[k])) = k - 1
  <2>1. k - 1 \in 0 .. n
    BY <1>0
  <2>2. \A j \in 1 .. n : e[j] \in Int /\ (j \in 1 .. k - 1 <=> j < k)
    BY <1>0
  <2>3. \A j \in 1 .. n : (j < k => e[j] < e[k]) /\ (k < j => e[k] < e[j])
    BY <1>0
  <2>4. \A j \in 1 .. n : e[j] < e[k] <=> j \in 1 .. k - 1
    BY <2>2, <2>3
  <2>5. \A j \in 1 .. k - 1 : j \in 1 .. n
    BY <1>0
  <2>6. Before(S, e[k]) = {e[j] : j \in 1 .. k - 1}
    <3>1. ASSUME NEW s \in Before(S, e[k]) PROVE s \in {e[j] : j \in 1 .. k - 1}
      <4>1. PICK j \in 1 .. n : e[j] = s
        BY <1>0, <3>1 DEF Before
      <4>2. e[j] < e[k]
        BY <3>1, <4>1 DEF Before
      <4> QED
        BY <2>4, <4>1, <4>2
    <3>2. ASSUME NEW j \in 1 .. k - 1 PROVE e[j] \in Before(S, e[k])
      BY <2>4, <1>0, <2>5, <3>2 DEF Before
    <3> QED
      BY <3>1, <3>2
  <2> QED
    BY <1>1, <2>1, <2>6
<1> QED
  BY <1>2, <1>3

(* More of a set comes before a later number than before one of its own.   *)
LEMMA MoreBeforeTheLater ==
  ASSUME NEW n \in Nat, NEW S \in SUBSET (1 .. n), NEW i \in S, NEW j \in Int, i < j
  PROVE  Cardinality(Before(S, i)) < Cardinality(Before(S, j))
<1>1. /\ IsFiniteSet(Before(S, i)) /\ Cardinality(Before(S, i)) \in Nat
      /\ IsFiniteSet(Before(S, j)) /\ Cardinality(Before(S, j)) \in Nat
  BY BeforeIsFinite
<1>2. i \in Int /\ \A s \in S : s \in Int
  OBVIOUS
<1>3. Before(S, i) \in SUBSET Before(S, j) /\ i \in Before(S, j) /\ i \notin Before(S, i)
  <2>1. \A s \in S : s < i => s < j
    BY <1>2
  <2>2. ~(i < i)
    BY <1>2
  <2> QED
    BY <2>1, <2>2 DEF Before
<1> QED
  BY <1>1, <1>3, FS_Subset

(* So there is one after k - 1 others for every k.                         *)
LEMMA PlacesAreTaken ==
  ASSUME NEW n \in Nat, NEW S \in SUBSET (1 .. n), NEW k \in 1 .. Cardinality(S)
  PROVE  \E i \in S : Cardinality(Before(S, i)) = k - 1
<1> DEFINE c == Cardinality(S)
           r == [i \in S |-> 1 + Cardinality(Before(S, i))]
<1>1. IsFiniteSet(S) /\ c \in Nat
  BY BeforeIsFinite
<1>2. ASSUME NEW i \in S PROVE r[i] \in 1 .. c
  <2>1. IsFiniteSet(Before(S, i)) /\ Cardinality(Before(S, i)) \in Nat
    BY BeforeIsFinite
  <2>2. Before(S, i) \in SUBSET S /\ Before(S, i) # S
    BY DEF Before
  <2> QED
    BY <1>1, <2>1, <2>2, FS_Subset
<1>3. ASSUME NEW i \in S, NEW j \in S, r[i] = r[j] PROVE i = j
  <2>1. Cardinality(Before(S, i)) \in Nat /\ Cardinality(Before(S, j)) \in Nat
    BY BeforeIsFinite
  <2>2. ~(i < j) /\ ~(j < i)
    BY <1>3, <2>1, MoreBeforeTheLater, SMTT(60)
  <2> QED
    BY <2>2
<1>4. IsFiniteSet(1 .. c) /\ Cardinality(1 .. c) = c
  BY <1>1, FS_Interval
<1>5. r \in Injection(S, 1 .. c)
  <2>1. r \in [S -> 1 .. c]
    BY <1>2
  <2> QED
    BY <1>3, <2>1 DEF Injection, IsInjective
<1>6. r \in Surjection(S, 1 .. c)
  BY <1>4, <1>5, FS_Injection
<1>7. PICK i \in S : r[i] = k
  BY <1>6 DEF Surjection
<1>8. Cardinality(Before(S, i)) \in Nat
  BY BeforeIsFinite
<1> QED
  BY <1>7, <1>8

(* The k-th of S.                                                          *)
Place(S, k) == CHOOSE i \in S : Cardinality({j \in S : j < i}) = k - 1

(* The places of a set list it upwards.                                    *)
LEMMA PlacesList ==
  ASSUME NEW n \in Nat, NEW S \in SUBSET (1 .. n)
  PROVE  Lists([k \in 1 .. Cardinality(S) |-> Place(S, k)], Cardinality(S), S)
<1> DEFINE c == Cardinality(S)
<1>1. c \in Nat
  BY BeforeIsFinite
<1>2. ASSUME NEW k \in 1 .. c
      PROVE  Place(S, k) \in S /\ Cardinality(Before(S, Place(S, k))) = k - 1
  BY PlacesAreTaken DEF Place, Before
<1>3. ASSUME NEW k \in 1 .. c, NEW l \in 1 .. c, k < l PROVE Place(S, k) < Place(S, l)
  <2>1. /\ Place(S, k) \in S /\ Cardinality(Before(S, Place(S, k))) = k - 1
        /\ Place(S, l) \in S /\ Cardinality(Before(S, Place(S, l))) = l - 1
    BY <1>2
  <2> DEFINE i == Place(S, k)
             j == Place(S, l)
  <2>2. i \in Int /\ j \in Int
    <3>1. \A s \in S : s \in Int
      OBVIOUS
    <3> QED
      BY <2>1, <3>1
  <2>3. ~(j < i)
    <3> SUFFICES ASSUME j < i PROVE FALSE
      OBVIOUS
    <3>1. j \in S /\ i \in Int /\ j < i
      BY <2>1, <2>2
    <3>2. Cardinality(Before(S, j)) < Cardinality(Before(S, i))
      BY <3>1, MoreBeforeTheLater
    <3> QED
      BY <1>1, <1>3, <2>1, <3>2
  <2>4. i # j
    BY <1>1, <1>3, <2>1
  <2> QED
    BY <2>2, <2>3, <2>4
<1>4. ASSUME NEW i \in S PROVE \E k \in 1 .. c : Place(S, k) = i
  <2> DEFINE k == 1 + Cardinality(Before(S, i))
  <2>1. IsFiniteSet(S) /\ Cardinality(Before(S, i)) \in Nat
    BY BeforeIsFinite
  <2>2. Before(S, i) \in SUBSET S /\ Before(S, i) # S
    BY DEF Before
  <2>3. k \in 1 .. c
    BY <1>1, <2>1, <2>2, FS_Subset
  <2>4. Place(S, k) \in S /\ Cardinality(Before(S, Place(S, k))) = Cardinality(Before(S, i))
    BY <1>2, <2>1, <2>3
  <2>5. Place(S, k) \in Int /\ i \in Int
    <3>1. \A s \in S : s \in Int
      OBVIOUS
    <3> QED
      BY <2>4, <3>1
  <2>6. ~(Place(S, k) < i) /\ ~(i < Place(S, k))
    <3>1. ASSUME Place(S, k) < i PROVE FALSE
      <4>1. Cardinality(Before(S, Place(S, k))) < Cardinality(Before(S, i))
        BY <2>4, <2>5, <3>1, MoreBeforeTheLater
      <4> QED
        BY <2>1, <2>4, <4>1
    <3>2. ASSUME i < Place(S, k) PROVE FALSE
      <4>1. Cardinality(Before(S, i)) < Cardinality(Before(S, Place(S, k)))
        BY <2>5, <3>2, MoreBeforeTheLater
      <4> QED
        BY <2>1, <2>4, <4>1
    <3> QED
      BY <3>1, <3>2
  <2> QED
    BY <2>3, <2>5, <2>6
<1> QED
  BY <1>1, <1>2, <1>3, <1>4 DEF Lists

(* A frame has three parts, and its rows are a list.                       *)
IsFrame(f) == f = [have |-> f.have, added |-> f.added, rows |-> f.rows]

(* A list has n entries.                                                   *)
IsList(rows, n) == n \in Nat /\ rows = [k \in 1 .. n |-> rows[k]]

(* g has the rows of f at S, in their order.                               *)
PickedFrom(g, f, S) ==
  \E e, m : /\ Lists(e, m, S)
            /\ IsList(g.rows, m)
            /\ \A k \in 1 .. m : g.rows[k] = f.rows[e[k]]

(* Without keeps the other rows as they are, in their order.               *)
LEMMA WithoutKeepsTheOthers ==
  ASSUME NEW f, IsFrame(f), NEW n, IsList(f.rows, n), NEW offending,
         NEW g, g = Without(f, offending)
  PROVE  /\ IsFrame(g) /\ g.have = f.have /\ g.added = f.added
         /\ PickedFrom(g, f, (1 .. n) \ offending)
<1> DEFINE kept == (1 .. n) \ offending
           m == Cardinality(kept)
           e == [k \in 1 .. m |-> Place(kept, k)]
<1>1. n \in Nat /\ DOMAIN f.rows = 1 .. n
  BY DEF IsList
<1>2. g = [f EXCEPT !.rows = [k \in 1 .. m |-> f.rows[Place(kept, k)]]]
  BY <1>1 DEF Without, Place
<1>3. kept \in SUBSET (1 .. n)
  OBVIOUS
<1>4. Lists(e, m, kept) /\ m \in Nat
  <2>1. Lists(e, m, kept)
    BY <1>1, <1>3, PlacesList
  <2> QED
    BY <2>1 DEF Lists
<1>5. /\ IsFrame(g) /\ g.have = f.have /\ g.added = f.added
      /\ g.rows = [k \in 1 .. m |-> f.rows[e[k]]]
  BY <1>2 DEF IsFrame
<1>6. IsList(g.rows, m) /\ \A k \in 1 .. m : g.rows[k] = f.rows[e[k]]
  BY <1>4, <1>5 DEF IsList
<1>7. Lists(e, m, (1 .. n) \ offending)
  BY <1>4
<1> HIDE DEF kept, m, e
<1> QED
  BY <1>5, <1>6, <1>7, ZenonT(60) DEF PickedFrom

(* A list of some of a list.                                               *)
LEMMA ListsOfLists ==
  ASSUME NEW e, NEW n, NEW S \in SUBSET Int, Lists(e, n, S),
         NEW d, NEW m, NEW T \in SUBSET (1 .. n), Lists(d, m, T)
  PROVE  Lists([k \in 1 .. m |-> e[d[k]]], m, {e[k] : k \in T})
<1>1. /\ m \in Nat /\ \A k \in 1 .. m : d[k] \in T /\ d[k] \in 1 .. n
      /\ \A k, l \in 1 .. m : k < l => d[k] < d[l]
      /\ \A j \in T : \E k \in 1 .. m : d[k] = j
  BY DEF Lists
<1>2. \A k, l \in 1 .. n : k < l => e[k] < e[l]
  BY DEF Lists
<1>3. \A j \in {e[k] : k \in T} : \E k \in 1 .. m : e[d[k]] = j
  BY <1>1
<1> QED
  BY <1>1, <1>2, <1>3 DEF Lists

-----------------------------------------------------------------------------
(* Which rows of the history a frame shows                                 *)

(* The row is the history's j-th, but for what steps added to it.          *)
IsRow(row, j) == row = [history.rows[j] EXCEPT !.added = row.added]

(* The frame's rows are the history's at S, in its order.                  *)
Shows(f, S) ==
  /\ IsFrame(f) /\ f.have = history.have
  /\ \E e, n :
       /\ Lists(e, n, S)
       /\ IsList(f.rows, n)
       /\ \A k \in 1 .. n : IsRow(f.rows[k], e[k])

(* The rows of the history that passed and had closed by Now.              *)
KnownPassing ==
  {j \in Passing : history.rows[j].close_time # Null /\ history.rows[j].close_time <= Now}

(* The inductive invariant of the rows: the frame shows the history's rows *)
(* that passed, and known those of them that had closed.                   *)
RowsSoFar ==
  /\ history \in History
  /\ \A written \in bars : written \in Policy /\ LegalPolicy(PolicyFromDict(written))
  /\ Shows(frame, Passing)
  /\ Shows(known, KnownPassing)

(* A frame no step has worked on.                                          *)
LEMMA HistoryRows ==
  ASSUME history \in History
  PROVE  /\ history = [have |-> history.have, added |-> {}, rows |-> history.rows]
         /\ Len(history.rows) \in Nat /\ DOMAIN history.rows = 1 .. Len(history.rows)
         /\ history.rows = [j \in 1 .. Len(history.rows) |-> history.rows[j]]
         /\ \A j \in DOMAIN history.rows : history.rows[j] \in WindowRow
<1>1. /\ history = [have |-> history.have, added |-> {}, rows |-> history.rows]
      /\ history.rows \in Seq(WindowRow)
  BY HistoryAssumption
<1> QED
  BY <1>1

(* A row that shows one of the history has its cells.                      *)
LEMMA ShownRow ==
  ASSUME history \in History, NEW j \in DOMAIN history.rows, NEW row, IsRow(row, j)
  PROVE  /\ history.rows[j] \in WindowRow
         /\ row.open_time = history.rows[j].open_time
         /\ row.close_time = history.rows[j].close_time
         /\ row.close = history.rows[j].close
         /\ row.high = history.rows[j].high
         /\ row.low = history.rows[j].low
         /\ row.coverage_seconds = history.rows[j].coverage_seconds
         /\ row.traded_seconds = history.rows[j].traded_seconds
         /\ Bare(row) = history.rows[j]
<1> DEFINE h == history.rows[j]
           a == row.added
<1>1. h \in WindowRow /\ row = [h EXCEPT !.added = a]
  BY HistoryRows DEF IsRow
<1> HIDE DEF h, a
<1>2. /\ row.open_time = h.open_time /\ row.close_time = h.close_time /\ row.close = h.close
      /\ row.high = h.high /\ row.low = h.low
      /\ row.coverage_seconds = h.coverage_seconds /\ row.traded_seconds = h.traded_seconds
  BY <1>1 DEF WindowRow
<1>3. Bare(row) = h
  <2>1. h.added = <<>> /\ Bare(row) = [h EXCEPT !.added = <<>>]
    BY <1>1 DEF WindowRow, Bare
  <2> QED
    BY <1>1, <2>1 DEF WindowRow
<1> QED
  BY <1>1, <1>2, <1>3 DEF h

(* The cells of a row.                                                     *)
LEMMA WindowRowCells ==
  ASSUME NEW row \in WindowRow
  PROVE  /\ row.close_time = Null \/ row.close_time \in Int64
         /\ row.close \in Int \cup {Null, NaN}
         /\ row.high \in Int \cup {Null, NaN}
         /\ row.low \in Int \cup {Null, NaN}
         /\ row.coverage_seconds \in Int \cup {Null}
         /\ row.traded_seconds \in Int \cup {Null}
         /\ row.added = <<>>
BY DEF WindowRow

(* What a list of a set lists.                                             *)
LEMMA ListedAre ==
  ASSUME NEW e, NEW n, NEW S, Lists(e, n, S)
  PROVE  /\ n \in Nat
         /\ \A k \in 1 .. n : e[k] \in S
         /\ \A j \in S : \E k \in 1 .. n : e[k] = j
         /\ \A k, l \in 1 .. n : k < l => e[k] < e[l]
BY DEF Lists

(* Every row of g is a row of f.                                           *)
RowsAmong(g, f) == \A k \in DOMAIN g.rows : \E i \in DOMAIN f.rows : g.rows[k] = f.rows[i]

(* Dropping rows by their cells leaves those that have the others.         *)
LEMMA WithoutShows ==
  ASSUME NEW f, NEW S \in SUBSET DOMAIN history.rows, history \in History, Shows(f, S),
         NEW T, NEW offending,
         \A k \in DOMAIN f.rows, j \in S : IsRow(f.rows[k], j) => (k \in offending <=> j \notin T),
         NEW g, g = Without(f, offending)
  PROVE  /\ Shows(g, S \cap T)
         /\ g.added = f.added
         /\ RowsAmong(g, f)
<1>1. PICK e, n : /\ Lists(e, n, S)
                  /\ IsList(f.rows, n)
                  /\ \A k \in 1 .. n : IsRow(f.rows[k], e[k])
  BY DEF Shows
<1>2. IsFrame(f) /\ f.have = history.have /\ DOMAIN f.rows = 1 .. n /\ n \in Nat
  BY <1>1 DEF Shows, IsList
<1> DEFINE kept == (1 .. n) \ offending
<1>3. IsFrame(g) /\ g.have = f.have /\ g.added = f.added /\ PickedFrom(g, f, kept)
  BY <1>1, <1>2, WithoutKeepsTheOthers
<1>4. PICK d, m : /\ Lists(d, m, kept)
                  /\ IsList(g.rows, m)
                  /\ \A k \in 1 .. m : g.rows[k] = f.rows[d[k]]
  BY <1>3 DEF PickedFrom
<1> DEFINE b == [k \in 1 .. m |-> e[d[k]]]
<1>5. S \in SUBSET Int /\ kept \in SUBSET (1 .. n)
  BY HistoryRows
<1>6. Lists(b, m, {e[k] : k \in kept})
  BY <1>1, <1>4, <1>5, ListsOfLists
<1>7. {e[k] : k \in kept} = S \cap T
  <2>1. \A k \in 1 .. n : e[k] \in S /\ (k \in offending <=> e[k] \notin T)
    BY <1>1, <1>2, ListedAre
  <2>2. \A j \in S : \E k \in 1 .. n : e[k] = j
    BY <1>1, ListedAre
  <2> QED
    BY <2>1, <2>2
<1>8. m \in Nat /\ \A k \in 1 .. m : d[k] \in 1 .. n
  BY <1>4, ListedAre
<1>9. \A k \in 1 .. m : b[k] = e[d[k]]
  OBVIOUS
<1> HIDE DEF b, kept
<1>10. \A k \in 1 .. m : IsRow(g.rows[k], b[k])
  BY <1>1, <1>4, <1>8, <1>9
<1>11. Lists(b, m, S \cap T)
  BY <1>6, <1>7
<1>12. Shows(g, S \cap T)
  BY <1>2, <1>3, <1>4, <1>10, <1>11 DEF Shows
<1>13. RowsAmong(g, f)
  BY <1>2, <1>4, <1>8 DEF IsList, RowsAmong
<1> QED
  BY <1>3, <1>12, <1>13

(* g has the columns of f and those, and its rows otherwise.               *)
Widens(g, f, values) ==
  \A k \in DOMAIN f.rows :
    /\ g.rows[k] = [f.rows[k] EXCEPT !.added = g.rows[k].added]
    /\ \A c \in DOMAIN values : g.rows[k].added[c] = values[c][k]
    /\ \A c \in f.added \ DOMAIN values : g.rows[k].added[c] = f.rows[k].added[c]

(* Every row has a place for what steps add.                               *)
MayGain(f, n) == \A k \in 1 .. n : "added" \in DOMAIN f.rows[k]

(* Columns added to a frame leave its rows what they were.                 *)
LEMMA WithColumnsAdds ==
  ASSUME NEW f, IsFrame(f), NEW n, IsList(f.rows, n), NEW values,
         MayGain(f, n),
         NEW g, g = WithColumns(f, values)
  PROVE  /\ IsFrame(g) /\ g.have = f.have /\ g.added = f.added \cup DOMAIN values
         /\ IsList(g.rows, n)
         /\ Widens(g, f, values)
<1> DEFINE more(i) == [c \in f.added \cup DOMAIN values |->
                         IF c \in DOMAIN values THEN values[c][i] ELSE f.rows[i].added[c]]
           rows == [i \in DOMAIN f.rows |-> [f.rows[i] EXCEPT !.added = more(i)]]
<1>1. g = [f EXCEPT !.added = f.added \cup DOMAIN values, !.rows = rows]
  BY DEF WithColumns
<1>2. f = [have |-> f.have, added |-> f.added, rows |-> f.rows] /\ DOMAIN f.rows = 1 .. n /\ n \in Nat
  BY DEF IsFrame, IsList
<1> HIDE DEF rows
<1>3. g = [have |-> f.have, added |-> f.added \cup DOMAIN values, rows |-> rows]
  BY <1>1, <1>2
<1>4. IsFrame(g) /\ g.have = f.have /\ g.added = f.added \cup DOMAIN values /\ g.rows = rows
  BY <1>3 DEF IsFrame
<1>5. IsList(g.rows, n)
  BY <1>2, <1>4 DEF IsList, rows
<1>6. ASSUME NEW k \in 1 .. n
      PROVE  /\ g.rows[k] = [f.rows[k] EXCEPT !.added = g.rows[k].added]
             /\ g.rows[k].added = more(k)
  <2>1. g.rows[k] = [f.rows[k] EXCEPT !.added = more(k)] /\ "added" \in DOMAIN f.rows[k]
    BY <1>2, <1>4 DEF rows, MayGain
  <2> HIDE DEF more
  <2> QED
    BY <2>1
<1>7. Widens(g, f, values)
  <2>1. ASSUME NEW k \in 1 .. n, NEW c \in f.added \cup DOMAIN values
        PROVE  g.rows[k].added[c] = IF c \in DOMAIN values THEN values[c][k] ELSE f.rows[k].added[c]
    BY <1>6
  <2>2. \A k \in 1 .. n : g.rows[k] = [f.rows[k] EXCEPT !.added = g.rows[k].added]
    BY <1>6
  <2> HIDE DEF more
  <2>3. ASSUME NEW k \in 1 .. n
        PROVE  /\ \A c \in DOMAIN values : g.rows[k].added[c] = values[c][k]
               /\ \A c \in f.added \ DOMAIN values : g.rows[k].added[c] = f.rows[k].added[c]
    BY <2>1
  <2> QED
    BY <1>2, <2>2, <2>3 DEF Widens
<1> QED
  BY <1>4, <1>5, <1>7

(* Nor do they change which rows a frame shows.                            *)
LEMMA WithColumnsShows ==
  ASSUME NEW f, NEW S \in SUBSET DOMAIN history.rows, history \in History, Shows(f, S),
         NEW values, NEW g, g = WithColumns(f, values)
  PROVE  /\ Shows(g, S) /\ g.added = f.added \cup DOMAIN values
         /\ DOMAIN g.rows = DOMAIN f.rows
         /\ Widens(g, f, values)
<1>1. PICK e, n : /\ Lists(e, n, S)
                  /\ IsList(f.rows, n)
                  /\ \A k \in 1 .. n : IsRow(f.rows[k], e[k])
  BY DEF Shows
<1>2. IsFrame(f) /\ f.have = history.have /\ DOMAIN f.rows = 1 .. n /\ n \in Nat
  BY <1>1 DEF Shows, IsList
<1>3. \A k \in 1 .. n : e[k] \in DOMAIN history.rows
  BY <1>1, ListedAre
<1>4. MayGain(f, n)
  <2> SUFFICES ASSUME NEW k \in 1 .. n PROVE "added" \in DOMAIN f.rows[k]
    BY DEF MayGain
  <2>1. history.rows[e[k]] \in WindowRow
    BY <1>3, HistoryRows
  <2>2. "added" \in DOMAIN history.rows[e[k]]
    BY <2>1 DEF WindowRow
  <2>3. DOMAIN f.rows[k] = DOMAIN history.rows[e[k]]
    BY <1>1 DEF IsRow
  <2> QED
    BY <2>2, <2>3
<1>5. /\ IsFrame(g) /\ g.have = f.have /\ g.added = f.added \cup DOMAIN values
      /\ IsList(g.rows, n)
      /\ Widens(g, f, values)
  BY <1>1, <1>2, <1>4, WithColumnsAdds
<1>6. ASSUME NEW k \in 1 .. n PROVE IsRow(g.rows[k], e[k])
  <2>1. /\ IsRow(f.rows[k], e[k])
        /\ g.rows[k] = [f.rows[k] EXCEPT !.added = g.rows[k].added]
    BY <1>1, <1>2, <1>5 DEF Widens
  <2> QED
    BY <1>2, <2>1 DEF IsRow
<1>7. Shows(g, S)
  BY <1>1, <1>2, <1>5, <1>6 DEF Shows
<1>8. DOMAIN g.rows = 1 .. n
  BY <1>5 DEF IsList
<1> QED
  BY <1>2, <1>5, <1>7, <1>8

-----------------------------------------------------------------------------
(* What steps do to the rows                                               *)

(* g is f, or f with columns added.                                        *)
Grown(f, g) == g = f \/ \E values : g = WithColumns(f, values)

(* A policy, as it was written, has dropped its offenders from both.       *)
Filtered(written) ==
  LET policy == PolicyFromDict(written) IN
  /\ LegalPolicy(policy)
  /\ frame' = Without(frame, Offending(frame, policy, Window))
  /\ known' = Without(known, Offending(known, policy, Window))
  /\ bars' = bars \cup {written}

(* A policy drops rows, or nothing happens to the frames.                  *)
LEMMA PoliciesDo ==
  ASSUME ApplyQualityPolicy
  PROVE  /\ history' = history
         /\ \/ bars' = bars /\ frame' = frame /\ known' = known
            \/ \E written \in Policy : Filtered(written)
<1> DEFINE Stays == history' = history /\ bars' = bars /\ frame' = frame /\ known' = known
<1>1. CASE RefuseUnmeasured
  BY <1>1 DEF RefuseUnmeasured, Call
<1>2. ASSUME NEW written \in Policy,
             LET policy == PolicyFromDict(written) IN
             \/ RefusePolicy(policy)
             \/ /\ LegalPolicy(policy)
                /\ \/ CannotReport(policy)
                   \/ MeasureOnly(policy) \/ FilterWindows(policy, written) \/ StrictGate(policy)
      PROVE  history' = history /\ (Stays \/ Filtered(written))
  <2> DEFINE policy == PolicyFromDict(written)
  <2>1. CASE RefusePolicy(policy)
    BY <2>1 DEF RefusePolicy, Call
  <2>2. CASE CannotReport(policy)
    BY <2>2 DEF CannotReport, Call
  <2>3. CASE MeasureOnly(policy)
    BY <2>3 DEF MeasureOnly, Call
  <2>4. CASE LegalPolicy(policy) /\ FilterWindows(policy, written)
    BY <2>4 DEF FilterWindows, Call, Filtered
  <2>5. CASE StrictGate(policy)
    BY <2>5 DEF StrictGate, Call
  <2> QED
    BY <1>2, <2>1, <2>2, <2>3, <2>4, <2>5
<1> QED
  BY <1>1, <1>2 DEF ApplyQualityPolicy

(* A step adds columns, or drops rows, or leaves the frames as they were.  *)
LEMMA StepsDo ==
  ASSUME StepsNext
  PROVE  /\ history' = history
         /\ \/ bars' = bars /\ Grown(frame, frame') /\ Grown(known, known')
            \/ \E written \in Policy : Filtered(written)
<1> DEFINE Grows == history' = history /\ bars' = bars /\ Grown(frame, frame') /\ Grown(known, known')
<1>1. CASE ApplyQualityPolicy
  BY <1>1, PoliciesDo DEF Grown
<1>2. ASSUME NEW file \in SidecarFile, NEW cap \in RowCap, ReadAnnotations(file, cap) PROVE Grows
  BY <1>2 DEF ReadAnnotations, Call, Grown
<1>3. ASSUME NEW s \in Joinable, AnnotateWindows(s.read, s.file) PROVE Grows
  BY <1>3 DEF AnnotateWindows, Compose, Call, Grown
<1>4. ASSUME NEW s \in Joinable, RefuseSidecar(s.read) PROVE Grows
  BY <1>4 DEF RefuseSidecar, Call, Grown
<1>5. ASSUME NEW c \in ReturnCall, AddBackwardReturns(c) PROVE Grows
  BY <1>5 DEF AddBackwardReturns, Compose, Call, Grown
<1>6. ASSUME NEW c \in ReturnCall, AddForwardReturns(c) PROVE Grows
  BY <1>6 DEF AddForwardReturns, Compose, Call, Grown
<1>7. ASSUME NEW c \in ReturnCall, AddForwardExcursions(c) PROVE Grows
  BY <1>7 DEF AddForwardExcursions, Compose, Call, Grown
<1> QED
  BY <1>1, <1>2, <1>3, <1>4, <1>5, <1>6, <1>7 DEF StepsNext

(* Every row of a frame shows a row of the history.                        *)
LEMMA ShownRows ==
  ASSUME history \in History, NEW f, NEW S \in SUBSET DOMAIN history.rows, Shows(f, S),
         NEW k \in DOMAIN f.rows
  PROVE  \E j \in S : IsRow(f.rows[k], j)
<1>1. PICK e, n : /\ Lists(e, n, S)
                  /\ IsList(f.rows, n)
                  /\ \A i \in 1 .. n : IsRow(f.rows[i], e[i])
  BY DEF Shows
<1>2. DOMAIN f.rows = 1 .. n
  BY <1>1 DEF IsList
<1>3. e[k] \in S /\ IsRow(f.rows[k], e[k])
  BY <1>1, <1>2, ListedAre
<1> QED
  BY <1>3

(* The mask of a policy is of the rows below its bar as it was written.    *)
LEMMA OffendersMissTheBar ==
  ASSUME history \in History, NEW f, NEW S \in SUBSET DOMAIN history.rows, Shows(f, S),
         NEW written \in Policy, NEW policy, policy = PolicyFromDict(written), LegalPolicy(policy)
  PROVE  \A k \in DOMAIN f.rows :
           k \in Offending(f, policy, Window) <=> ~MeetsBar(f.rows[k], written)
<1>1. /\ policy.part = written.part /\ policy.whole = written.whole
      /\ policy.min_traded_seconds = TradedDemand(written)
  BY DEF PolicyFromDict
<1>2. /\ policy.part \in Nat /\ policy.whole \in Nat \ {0} /\ policy.min_traded_seconds \in Nat
  BY <1>1, StepsAssumption DEF LegalPolicy
<1>3. \A i \in DOMAIN f.rows :
        {f.rows[i].coverage_seconds, f.rows[i].traded_seconds} \subseteq Int \cup {Null}
  <2> TAKE i \in DOMAIN f.rows
  <2>1. PICK j \in S : IsRow(f.rows[i], j)
    BY ShownRows
  <2>2. /\ history.rows[j] \in WindowRow
        /\ f.rows[i].coverage_seconds = history.rows[j].coverage_seconds
        /\ f.rows[i].traded_seconds = history.rows[j].traded_seconds
    BY <2>1, ShownRow
  <2> QED
    BY <2>2, WindowRowCells
<1>4. Window \in Nat /\ Null \notin Int
  BY StepsAssumption, CellAssumption
<1>5. Offending(f, policy, Window) =
        {i \in DOMAIN f.rows :
           ~ /\ f.rows[i].coverage_seconds # Null
             /\ f.rows[i].coverage_seconds * policy.whole >= policy.part * Window
             /\ f.rows[i].traded_seconds # Null
             /\ f.rows[i].traded_seconds >= policy.min_traded_seconds}
  BY <1>2, <1>3, <1>4, OffendersMissABar
<1> QED
  BY <1>1, <1>5 DEF MeetsBar, Meets, TradedDemand

(* The rows that passed are rows of the history.                           *)
LEMMA PassingRows == Passing \in SUBSET DOMAIN history.rows /\ KnownPassing \in SUBSET DOMAIN history.rows
BY DEF Passing, KnownPassing

(* It holds at first.                                                      *)
LEMMA InitRows == StepsInit => RowsSoFar
<1> SUFFICES ASSUME StepsInit PROVE RowsSoFar
  OBVIOUS
<1> DEFINE n == Len(history.rows)
           e == [k \in 1 .. n |-> k]
<1>1. history \in History /\ frame = history /\ bars = {} /\ known = ClosedBy(history, Now)
  BY DEF StepsInit
<1>2. /\ history = [have |-> history.have, added |-> {}, rows |-> history.rows]
      /\ n \in Nat /\ DOMAIN history.rows = 1 .. n
      /\ history.rows = [j \in 1 .. n |-> history.rows[j]]
      /\ \A j \in 1 .. n : history.rows[j] \in WindowRow
  BY <1>1, HistoryRows
<1>3. Passing = 1 .. n
  BY <1>1, <1>2 DEF Passing
<1>4. Shows(history, 1 .. n)
  <2>1. Lists(e, n, 1 .. n)
    BY <1>2 DEF Lists
  <2>2. ASSUME NEW k \in 1 .. n PROVE IsRow(history.rows[k], e[k])
    <3> DEFINE row == history.rows[k]
    <3>1. row \in WindowRow
      BY <1>2
    <3> HIDE DEF row
    <3>2. row = [row EXCEPT !.added = row.added]
      BY <3>1 DEF WindowRow
    <3> QED
      BY <3>2 DEF IsRow, row
  <2>3. IsFrame(history)
    <3>1. history.added = {}
      BY <1>2
    <3> QED
      BY <1>2, <3>1 DEF IsFrame
  <2>4. IsList(history.rows, n)
    BY <1>2 DEF IsList
  <2> HIDE DEF e, n
  <2> QED
    BY <2>1, <2>2, <2>3, <2>4 DEF Shows
<1>5. Shows(known, KnownPassing)
  <2> DEFINE open == {i \in DOMAIN history.rows :
                        history.rows[i].close_time = Null \/ history.rows[i].close_time > Now}
             T == {j \in DOMAIN history.rows :
                     ~(history.rows[j].close_time = Null \/ history.rows[j].close_time > Now)}
  <2>1. known = Without(history, open)
    BY <1>1 DEF ClosedBy
  <2>2. \A k \in DOMAIN history.rows, j \in 1 .. n :
          IsRow(history.rows[k], j) => (k \in open <=> j \notin T)
    <3> TAKE k \in DOMAIN history.rows, j \in 1 .. n
    <3> HAVE IsRow(history.rows[k], j)
    <3>1. history.rows[k].close_time = history.rows[j].close_time
      BY <1>1, <1>2, ShownRow
    <3> QED
      BY <1>2, <3>1
  <2> HIDE DEF open, T, n
  <2>3. Shows(known, (1 .. n) \cap T)
    <3>1. (1 .. n) \in SUBSET DOMAIN history.rows
      BY <1>2
    <3> QED
      BY <1>1, <1>4, <2>1, <2>2, <3>1, WithoutShows
  <2>4. ASSUME NEW j \in 1 .. n
        PROVE  j \in T <=> history.rows[j].close_time # Null /\ history.rows[j].close_time <= Now
    <3> DEFINE t == history.rows[j].close_time
    <3>1. t = Null \/ t \in Int
      <4>1. t = Null \/ t \in Int64
        BY <1>2, WindowRowCells
      <4> QED
        BY <4>1 DEF Int64
    <3>2. j \in T <=> ~(t = Null \/ t > Now)
      BY <1>2 DEF T
    <3> HIDE DEF t
    <3>3. j \in T <=> t # Null /\ t <= Now
      BY <3>1, <3>2, StepsAssumption
    <3> QED
      BY <3>3 DEF t
  <2>5. KnownPassing = (1 .. n) \cap T
    BY <1>3, <2>4 DEF KnownPassing
  <2> QED
    BY <2>3, <2>5
<1> QED
  BY <1>1, <1>3, <1>4, <1>5 DEF RowsSoFar

(* Columns leave the rows a frame shows what they were.                    *)
LEMMA GrownShows ==
  ASSUME history \in History, NEW f, NEW S \in SUBSET DOMAIN history.rows, Shows(f, S),
         NEW g, Grown(f, g)
  PROVE  Shows(g, S)
<1>1. CASE g = f
  BY <1>1
<1>2. ASSUME NEW values, g = WithColumns(f, values) PROVE Shows(g, S)
  BY <1>2, WithColumnsShows
<1> QED
  BY <1>1, <1>2 DEF Grown

(* A policy leaves the rows that meet its bar.                             *)
LEMMA FilteredShows ==
  ASSUME history \in History, NEW f, NEW S \in SUBSET DOMAIN history.rows, Shows(f, S),
         NEW written \in Policy, NEW policy, policy = PolicyFromDict(written), LegalPolicy(policy),
         NEW g, g = Without(f, Offending(f, policy, Window))
  PROVE  /\ Shows(g, {j \in S : MeetsBar(history.rows[j], written)})
         /\ g.added = f.added
         /\ RowsAmong(g, f)
<1> DEFINE T == {j \in S : MeetsBar(history.rows[j], written)}
           offending == Offending(f, policy, Window)
<1>1. \A k \in DOMAIN f.rows, j \in S :
        IsRow(f.rows[k], j) => (k \in offending <=> j \notin T)
  <2> TAKE k \in DOMAIN f.rows, j \in S
  <2> HAVE IsRow(f.rows[k], j)
  <2>1. k \in offending <=> ~MeetsBar(f.rows[k], written)
    BY OffendersMissTheBar
  <2>2. /\ f.rows[k].coverage_seconds = history.rows[j].coverage_seconds
        /\ f.rows[k].traded_seconds = history.rows[j].traded_seconds
    BY ShownRow
  <2> QED
    BY <2>1, <2>2 DEF MeetsBar, Meets
<1> HIDE DEF offending, T
<1>2. g = Without(f, offending)
  BY DEF offending
<1>3. /\ Shows(g, S \cap T)
      /\ g.added = f.added
      /\ RowsAmong(g, f)
  BY <1>1, <1>2, WithoutShows
<1>4. S \cap T = T
  BY DEF T
<1> QED
  BY <1>3, <1>4 DEF T

(* A frame made by a step shows rows of the history the step began with.   *)
LEMMA ShownNext ==
  ASSUME history' = history, Shows(frame', Passing'), Shows(known', KnownPassing')
  PROVE  Shows(frame, Passing)' /\ Shows(known, KnownPassing)'
<1>2. Shows(frame, Passing)'
  <2>1. PICK e, n : /\ Lists(e, n, Passing')
                    /\ IsList(frame'.rows, n)
                    /\ \A k \in 1 .. n : IsRow(frame'.rows[k], e[k])
    BY DEF Shows
  <2>2. \A k \in 1 .. n : IsRow(frame.rows[k], e[k])'
    BY <2>1 DEF IsRow
  <2>3. IsFrame(frame)' /\ (frame.have = history.have)'
    BY DEF Shows, IsFrame
  <2>4. Lists(e, n, Passing)' /\ IsList(frame.rows, n)'
    BY <2>1 DEF Lists, IsList
  <2> QED
    BY <2>2, <2>3, <2>4 DEF Shows
<1>3. Shows(known, KnownPassing)'
  <2>1. PICK e, n : /\ Lists(e, n, KnownPassing')
                    /\ IsList(known'.rows, n)
                    /\ \A k \in 1 .. n : IsRow(known'.rows[k], e[k])
    BY DEF Shows
  <2>2. \A k \in 1 .. n : IsRow(known.rows[k], e[k])'
    BY <2>1 DEF IsRow
  <2>3. IsFrame(known)' /\ (known.have = history.have)'
    BY DEF Shows, IsFrame
  <2>4. Lists(e, n, KnownPassing)' /\ IsList(known.rows, n)'
    BY <2>1 DEF Lists, IsList
  <2> QED
    BY <2>2, <2>3, <2>4 DEF Shows
<1> QED
  BY <1>2, <1>3

(* Every step preserves it: columns leave the rows be, and a policy drops  *)
(* the rows that miss its bar, which are those that no longer pass.        *)
LEMMA NextRows == RowsSoFar /\ [StepsNext]_steps_vars => RowsSoFar'
<1> SUFFICES ASSUME RowsSoFar, [StepsNext]_steps_vars PROVE RowsSoFar'
  OBVIOUS
<1>1. /\ history \in History
      /\ \A written \in bars : written \in Policy /\ LegalPolicy(PolicyFromDict(written))
      /\ Shows(frame, Passing) /\ Shows(known, KnownPassing)
  BY DEF RowsSoFar
<1>3. ASSUME history' = history, bars' = bars, Grown(frame, frame'), Grown(known, known')
      PROVE  RowsSoFar'
  <2>1. Passing' = Passing /\ KnownPassing' = KnownPassing
    BY <1>3 DEF Passing, KnownPassing
  <2>2. Shows(frame', Passing) /\ Shows(known', KnownPassing)
    BY <1>1, <1>3, GrownShows, PassingRows
  <2>3. Shows(frame, Passing)' /\ Shows(known, KnownPassing)'
    BY <1>3, <2>1, <2>2, ShownNext
  <2> QED
    BY <1>1, <1>3, <2>3 DEF RowsSoFar
<1>4. ASSUME history' = history, NEW written \in Policy, Filtered(written)
      PROVE  RowsSoFar'
  <2>1. LegalPolicy(PolicyFromDict(written)) /\ bars' = bars \cup {written}
    BY <1>4 DEF Filtered
  <2>2. /\ Shows(frame', {j \in Passing : MeetsBar(history.rows[j], written)})
        /\ Shows(known', {j \in KnownPassing : MeetsBar(history.rows[j], written)})
    <3>1. PICK policy : policy = PolicyFromDict(written)
      OBVIOUS
    <3>2. /\ frame' = Without(frame, Offending(frame, policy, Window))
          /\ known' = Without(known, Offending(known, policy, Window))
          /\ LegalPolicy(policy)
      BY <1>4, <3>1 DEF Filtered
    <3> QED
      BY <1>1, <3>1, <3>2, FilteredShows, PassingRows
  <2>3. /\ Passing' = {j \in Passing : MeetsBar(history.rows[j], written)}
        /\ KnownPassing' = {j \in KnownPassing : MeetsBar(history.rows[j], written)}
    BY <1>4, <2>1 DEF Passing, KnownPassing
  <2>4. Shows(frame, Passing)' /\ Shows(known, KnownPassing)'
    BY <1>4, <2>2, <2>3, ShownNext
  <2> QED
    BY <1>1, <1>4, <2>1, <2>4 DEF RowsSoFar
<1>5. CASE UNCHANGED steps_vars
  <2>1. history' = history /\ bars' = bars /\ Grown(frame, frame') /\ Grown(known, known')
    BY <1>5 DEF steps_vars, Grown
  <2> QED
    BY <1>3, <2>1
<1> QED
  BY <1>3, <1>4, <1>5, StepsDo

(* So it always holds.                                                     *)
LEMMA RowsInvariant == StepsSpec => []RowsSoFar
BY InitRows, NextRows, PTL DEF StepsSpec

(* After any calls, in any order, a frame has just the rows of the history *)
(* that meet the bars of every policy that filtered, exactly and in their  *)
(* order, with their cells as they were (apply_quality_policy,             *)
(* with_columns): by the invariant, the rank of a row among those that     *)
(* passed is its place in the frame.                                       *)
THEOREM PoliciesKeepThePassing == StepsSpec => []KeptRowsAreThePassing
<1>1. RowsSoFar => KeptRowsAreThePassing
  <2> SUFFICES ASSUME RowsSoFar PROVE KeptRowsAreThePassing
    OBVIOUS
  <2>1. history \in History /\ Shows(frame, Passing)
    BY DEF RowsSoFar
  <2>2. PICK e, n : /\ Lists(e, n, Passing)
                    /\ IsList(frame.rows, n)
                    /\ \A k \in 1 .. n : IsRow(frame.rows[k], e[k])
    BY <2>1 DEF Shows
  <2>3. n \in Nat /\ Len(frame.rows) = n
    BY <2>2 DEF IsList
  <2>4. Passing \in SUBSET (1 .. Len(history.rows)) /\ Len(history.rows) \in Nat
    BY <2>1, PassingRows, HistoryRows
  <2>5. /\ Cardinality(Passing) = n
        /\ \A k \in 1 .. n : Cardinality(Before(Passing, e[k])) = k - 1
    <3>1. Passing \in SUBSET Int
      BY <2>4
    <3> QED
      BY <2>2, <3>1, ListCounts
  <2>6. ASSUME NEW j \in Passing
        PROVE  Bare(frame.rows[1 + Cardinality({i \in Passing : i < j})]) = history.rows[j]
    <3>1. PICK k \in 1 .. n : e[k] = j
      BY <2>2, ListedAre
    <3>2. Cardinality({i \in Passing : i < j}) = k - 1
      BY <2>5, <3>1 DEF Before
    <3>3. 1 + (k - 1) = k
      BY <2>3
    <3>4. IsRow(frame.rows[k], j) /\ j \in DOMAIN history.rows
      BY <2>2, <3>1, PassingRows
    <3>5. Bare(frame.rows[k]) = history.rows[j]
      BY <2>1, <3>4, ShownRow
    <3> QED
      BY <3>2, <3>3, <3>5
  <2> QED
    BY <2>3, <2>5, <2>6 DEF KeptRowsAreThePassing
<1> QED
  BY <1>1, RowsInvariant, PTL

-----------------------------------------------------------------------------
(* What is reported                                                        *)

(* What a policy reports, of the bars it states.                           *)
LEMMA ReportedVerdict ==
  ASSUME RowsSoFar, NEW written \in Policy, NEW policy, policy = PolicyFromDict(written),
         LegalPolicy(policy), NEW r, r = QualityReport(frame, policy, Window)
  PROVE  StatesItsVerdict(r, frame) /\ r.offending \in Nat
<1> DEFINE offending == Offending(frame, policy, Window)
           missing == {i \in DOMAIN frame.rows :
                         ~Meets(frame.rows[i], r.threshold_seconds[1], r.threshold_seconds[2],
                                r.traded_threshold_seconds)}
<1>1. /\ history \in History /\ Shows(frame, Passing) /\ Passing \in SUBSET DOMAIN history.rows
  BY PassingRows DEF RowsSoFar
<1>2. /\ r.threshold_seconds[1] = policy.part * Window
      /\ r.threshold_seconds[2] = policy.whole
      /\ r.traded_threshold_seconds = policy.min_traded_seconds
      /\ r.offending = Cardinality(offending)
      /\ r.first = IF offending = {} THEN Null ELSE frame.rows[First(offending)].close_time
  BY DEF QualityReport
<1>3. /\ policy.part = written.part /\ policy.whole = written.whole
      /\ policy.min_traded_seconds = TradedDemand(written)
  BY DEF PolicyFromDict
<1>4. \A k \in DOMAIN frame.rows : k \in offending <=> ~MeetsBar(frame.rows[k], written)
  BY <1>1, OffendersMissTheBar
<1>5. offending \in SUBSET DOMAIN frame.rows
  BY DEF Offending, LowCoverage, LowTraded
<1>6. missing = offending
  BY <1>2, <1>3, <1>4, <1>5 DEF MeetsBar, TradedDemand
<1>7. PICK n \in Nat : DOMAIN frame.rows = 1 .. n
  <2>1. PICK e, n : Lists(e, n, Passing) /\ IsList(frame.rows, n)
    BY <1>1 DEF Shows
  <2> QED
    BY <2>1 DEF IsList
<1> HIDE DEF offending
<1>8. missing # {} => First(missing) \in missing /\ \A j \in missing : First(missing) <= j
  BY <1>5, <1>6, <1>7, FirstIsTheLeast
<1>9. missing # {} => r.first = frame.rows[First(missing)].close_time
  BY <1>2, <1>6
<1>10. Cardinality(offending) \in Nat
  BY <1>5, <1>7, BeforeIsFinite
<1>11. r.offending = Cardinality(missing)
  BY <1>2, <1>6
<1>12. StatesItsVerdict(r, frame)
  BY <1>8, <1>9, <1>11 DEF StatesItsVerdict
<1> QED
  BY <1>2, <1>10, <1>12

(* The report a policy makes is made of the frame it was called on.        *)
Reports(policy) ==
  /\ LegalPolicy(policy)
  /\ report' = QualityReport(frame, policy, Window)
  /\ outcome' = "coverage_error" => report'.offending # 0

(* Only a policy reports.                                                  *)
LEMMA ReportsAreOfTheFrame ==
  ASSUME StepsNext, report' # report
  PROVE  \E written \in Policy : Reports(PolicyFromDict(written))
<1>1. CASE ApplyQualityPolicy
  <2>1. ~RefuseUnmeasured
    BY DEF RefuseUnmeasured
  <2>2. ASSUME NEW written \in Policy,
               LET policy == PolicyFromDict(written) IN
               \/ RefusePolicy(policy)
               \/ /\ LegalPolicy(policy)
                  /\ \/ CannotReport(policy)
                     \/ MeasureOnly(policy) \/ FilterWindows(policy, written) \/ StrictGate(policy)
        PROVE  Reports(PolicyFromDict(written))
    <3> DEFINE policy == PolicyFromDict(written)
    <3>1. ~RefusePolicy(policy) /\ ~CannotReport(policy)
      BY DEF RefusePolicy, CannotReport
    <3>2. CASE LegalPolicy(policy) /\ MeasureOnly(policy)
      BY <3>2 DEF MeasureOnly, Reported, Call, Reports
    <3>3. CASE LegalPolicy(policy) /\ FilterWindows(policy, written)
      BY <3>3 DEF FilterWindows, Reported, Call, Reports
    <3>4. CASE LegalPolicy(policy) /\ StrictGate(policy)
      BY <3>4 DEF StrictGate, Reported, Call, Reports
    <3> QED
      BY <2>2, <3>1, <3>2, <3>3, <3>4
  <2>3. PICK written \in Policy :
               LET policy == PolicyFromDict(written) IN
               \/ RefusePolicy(policy)
               \/ /\ LegalPolicy(policy)
                  /\ \/ CannotReport(policy)
                     \/ MeasureOnly(policy) \/ FilterWindows(policy, written) \/ StrictGate(policy)
    BY <1>1, <2>1 DEF ApplyQualityPolicy
  <2> QED
    BY <2>2, <2>3
<1>2. ASSUME NEW file \in SidecarFile, NEW cap \in RowCap PROVE ~ReadAnnotations(file, cap)
  BY DEF ReadAnnotations
<1>3. ASSUME NEW s \in Joinable PROVE ~AnnotateWindows(s.read, s.file) /\ ~RefuseSidecar(s.read)
  BY DEF AnnotateWindows, Compose, RefuseSidecar
<1>4. ASSUME NEW c \in ReturnCall
      PROVE  ~AddBackwardReturns(c) /\ ~AddForwardReturns(c) /\ ~AddForwardExcursions(c)
  BY DEF AddBackwardReturns, AddForwardReturns, AddForwardExcursions, Compose
<1> QED
  BY <1>1, <1>2, <1>3, <1>4 DEF StepsNext

(* What a policy reports of a frame is what a caller who compares the      *)
(* frame's rows with the bars it states finds, and a strict gate refuses   *)
(* only over a row that misses one (_build_report, _offending_mask).       *)
THEOREM ReportsStateTheirVerdict == StepsSpec => ReportStatesTheVerdict
<1>1. ASSUME RowsSoFar, StepsNext, report' # report
      PROVE  /\ StatesItsVerdict(report', frame)
             /\ outcome' = "coverage_error" => report'.offending > 0
  <2>1. PICK written \in Policy : Reports(PolicyFromDict(written))
    BY <1>1, ReportsAreOfTheFrame
  <2>2. StatesItsVerdict(report', frame) /\ report'.offending \in Nat
    BY <1>1, <2>1, ReportedVerdict DEF Reports
  <2> QED
    BY <2>1, <2>2 DEF Reports
<1>2. RowsSoFar /\ [StepsNext]_steps_vars =>
        [report' # report =>
           /\ StatesItsVerdict(report', frame)
           /\ outcome' = "coverage_error" => report'.offending > 0]_steps_vars
  BY <1>1
<1> QED
  BY <1>2, RowsInvariant, PTL DEF StepsSpec, ReportStatesTheVerdict

-----------------------------------------------------------------------------
(* Numbers of a width                                                      *)

(* Of finitely many integers one is the greatest, and one the least.       *)
LEMMA GreatestOfSome ==
  ASSUME NEW n \in Nat \ {0}, NEW p, \A k \in 1 .. n : p[k] \in Int
  PROVE  \E k \in 1 .. n : \A j \in 1 .. n : p[j] <= p[k]
<1> DEFINE has(m) == \E k \in 1 .. m : \A j \in 1 .. m : p[j] <= p[k]
           bad == {m \in 1 .. n : ~has(m)}
<1> SUFFICES ASSUME bad # {} PROVE FALSE
  <2>1. n \in 1 .. n
    OBVIOUS
  <2> QED
    BY <2>1
<1>1. PICK m \in bad : \A l \in bad : m <= l
  <2>1. bad \in SUBSET Nat
    OBVIOUS
  <2> HIDE DEF bad
  <2> QED
    BY <2>1, LeastOfNat
<1>2. m \in 1 .. n /\ ~has(m)
  BY <1>1
<1>3. m # 1
  <2>1. has(1)
    OBVIOUS
  <2> QED
    BY <1>2, <2>1
<1>4. m - 1 \in 1 .. n /\ has(m - 1)
  <2>1. m - 1 \in 1 .. n /\ ~(m <= m - 1)
    BY <1>2, <1>3
  <2> HIDE DEF has
  <2> QED
    BY <1>1, <2>1
<1>5. PICK k \in 1 .. m - 1 : \A j \in 1 .. m - 1 : p[j] <= p[k]
  BY <1>4
<1>6. /\ k \in 1 .. m /\ m \in 1 .. m /\ p[k] \in Int /\ p[m] \in Int
      /\ \A j \in 1 .. m : j \in 1 .. m - 1 \/ j = m
      /\ \A j \in 1 .. m : p[j] \in Int
  BY <1>2
<1>7. CASE p[m] <= p[k]
  <2>1. \A j \in 1 .. m : p[j] <= p[k]
    BY <1>5, <1>6, <1>7
  <2> QED
    BY <1>2, <1>6, <2>1
<1>8. CASE p[k] <= p[m]
  <2>1. \A j \in 1 .. m : p[j] <= p[m]
    BY <1>5, <1>6, <1>8
  <2> QED
    BY <1>2, <1>6, <2>1
<1> QED
  BY <1>6, <1>7, <1>8

(* And one is the least.                                                   *)
LEMMA LeastOfSome ==
  ASSUME NEW n \in Nat \ {0}, NEW p, \A k \in 1 .. n : p[k] \in Int
  PROVE  \E k \in 1 .. n : \A j \in 1 .. n : p[k] <= p[j]
<1> DEFINE q == [k \in 1 .. n |-> -p[k]]
<1>1. \A k \in 1 .. n : q[k] \in Int /\ q[k] = -p[k]
  OBVIOUS
<1> HIDE DEF q
<1>2. PICK k \in 1 .. n : \A j \in 1 .. n : q[j] <= q[k]
  BY <1>1, GreatestOfSome
<1>3. \A j \in 1 .. n : p[k] <= p[j]
  BY <1>1, <1>2
<1> QED
  BY <1>3

(* A number below the divisor is its own remainder.                        *)
LEMMA RemainderOfTheSmall ==
  ASSUME NEW x \in Nat, NEW w \in Nat \ {0}, x < w
  PROVE  x % w = x
OBVIOUS

(* Int64 is as many numbers below zero as from it.                         *)
LEMMA HalfWord ==
  \E half \in Nat \ {0} : Word = 2 * half /\ Word \div 2 = half /\ Int64 = -half .. half - 1
<1> DEFINE half == Word \div 2
<1>1. Word \in Nat \ {0} /\ Word % 2 = 0
  BY CellAssumption
<1>2. half \in Nat \ {0} /\ Word = 2 * half
  BY <1>1
<1> QED
  BY <1>2 DEF Int64

(* What Int64 can hold it holds.                                           *)
LEMMA WrappedIsItself ==
  ASSUME NEW x \in Int64
  PROVE  Wrapped(x) = x
<1>1. PICK half \in Nat \ {0} : Word = 2 * half /\ Word \div 2 = half /\ Int64 = -half .. half - 1
  BY HalfWord
<1>2. x \in Int /\ x + half \in Nat /\ x + half < Word
  BY <1>1
<1>3. (x + half) % Word = x + half
  BY <1>1, <1>2, RemainderOfTheSmall
<1> QED
  BY <1>1, <1>2, <1>3 DEF Wrapped

(* Between two times that may be moved so far, every time may be.          *)
LEMMA ShiftsAreExact ==
  ASSUME history \in History, NEW f, NEW S \in SUBSET DOMAIN history.rows, Shows(f, S),
         NEW offset, Alignable(f, offset)
  PROVE  /\ offset \in Int
         /\ \A k \in DOMAIN f.rows :
              /\ f.rows[k].close_time \in Int64
              /\ f.rows[k].close_time + offset \in Int64
              /\ Shifted(f.rows[k], offset) = f.rows[k].close_time + offset
<1>1. PICK half \in Nat \ {0} : Word = 2 * half /\ Word \div 2 = half /\ Int64 = -half .. half - 1
  BY HalfWord
<1>2. PICK n \in Nat : DOMAIN f.rows = 1 .. n
  <2>1. PICK e, n : Lists(e, n, S) /\ IsList(f.rows, n)
    BY DEF Shows
  <2> QED
    BY <2>1 DEF IsList
<1> DEFINE time == [k \in 1 .. n |-> f.rows[k].close_time]
<1>3. \A k \in 1 .. n : time[k] \in Int64 /\ time[k] \in Int
  <2> TAKE k \in 1 .. n
  <2>1. PICK j \in S : IsRow(f.rows[k], j)
    BY <1>2, ShownRows
  <2>2. f.rows[k].close_time = history.rows[j].close_time /\ history.rows[j] \in WindowRow
    BY <2>1, ShownRow
  <2>3. f.rows[k].close_time = Null \/ f.rows[k].close_time \in Int64
    BY <2>2, WindowRowCells
  <2>4. f.rows[k].close_time # Null
    BY <1>2 DEF Alignable, Keyed, CloseTimes
  <2> QED
    BY <1>1, <2>3, <2>4
<1>4. /\ offset \in Int64 /\ offset \in Int
      /\ \A t \in Extremes(CloseTimes(f)) : t + offset \in Int64
  BY <1>1 DEF Alignable, RepresentableShift
<1>5. \A k \in 1 .. n : time[k] \in CloseTimes(f)
  BY <1>2 DEF CloseTimes
<1>6. \A t \in CloseTimes(f) : \E k \in 1 .. n : t = time[k]
  BY <1>2 DEF CloseTimes
<1>7. ASSUME NEW k \in 1 .. n PROVE time[k] + offset \in Int64
  <2>1. n \in Nat \ {0}
    OBVIOUS
  <2> HIDE DEF time
  <2>2. PICK g \in 1 .. n : \A j \in 1 .. n : time[j] <= time[g]
    BY <1>3, <2>1, GreatestOfSome
  <2>3. PICK l \in 1 .. n : \A j \in 1 .. n : time[l] <= time[j]
    BY <1>3, <2>1, LeastOfSome
  <2>4. time[g] \in Extremes(CloseTimes(f))
    <3>1. \A t \in CloseTimes(f) : time[g] >= t
      BY <1>3, <1>6, <2>2
    <3> QED
      BY <1>5, <3>1 DEF Extremes
  <2>5. time[l] \in Extremes(CloseTimes(f))
    <3>1. \A t \in CloseTimes(f) : time[l] <= t
      BY <1>3, <1>6, <2>3
    <3> QED
      BY <1>5, <3>1 DEF Extremes
  <2>6. time[g] + offset \in Int64 /\ time[l] + offset \in Int64
    BY <1>4, <2>4, <2>5
  <2> QED
    BY <1>1, <1>3, <1>4, <2>2, <2>3, <2>6, SMTT(60)
<1>8. ASSUME NEW k \in 1 .. n PROVE Shifted(f.rows[k], offset) = f.rows[k].close_time + offset
  BY <1>7, WrappedIsItself DEF Shifted
<1> QED
  BY <1>2, <1>3, <1>4, <1>7, <1>8

-----------------------------------------------------------------------------
(* Values of returns                                                       *)

(* The counterpart of a row is the close of the one row at that time.      *)
LEMMA CounterpartIs ==
  ASSUME history \in History, NEW f, NEW S \in SUBSET DOMAIN history.rows, Shows(f, S),
         NEW offset, Alignable(f, offset), NEW k \in DOMAIN f.rows
  PROVE  /\ \A j \in DOMAIN f.rows :
              f.rows[j].close_time = f.rows[k].close_time + offset =>
                Counterpart(f, k, offset) = f.rows[j].close
         /\ (\A j \in DOMAIN f.rows : f.rows[j].close_time # f.rows[k].close_time + offset) =>
              Counterpart(f, k, offset) = Null
<1> DEFINE at == f.rows[k].close_time + offset
           matching == {j \in DOMAIN f.rows : f.rows[j].close_time = at}
<1>1. Counterpart(f, k, offset) =
        IF matching = {} THEN Null ELSE f.rows[CHOOSE j \in matching : TRUE].close
  <2>1. Shifted(f.rows[k], offset) = at
    BY ShiftsAreExact
  <2> QED
    BY <2>1 DEF Counterpart
<1>2. \A i, j \in DOMAIN f.rows : f.rows[i].close_time = f.rows[j].close_time => i = j
  BY DEF Alignable, Keyed
<1>3. ASSUME NEW j \in DOMAIN f.rows, f.rows[j].close_time = at
      PROVE  Counterpart(f, k, offset) = f.rows[j].close
  <2>1. j \in matching /\ \A i \in matching : i = j
    BY <1>2, <1>3
  <2>2. (CHOOSE i \in matching : TRUE) = j
    BY <2>1
  <2> QED
    BY <1>1, <2>1, <2>2
<1> QED
  BY <1>1, <1>3

(* A return that is not null is of two prices.                             *)
LEMMA ReturnIsOf ==
  ASSUME NEW later, NEW earlier, NEW method, ReturnOf(later, earlier, method) # Null
  PROVE  /\ ReturnOf(later, earlier, method) = <<later, earlier>>
         /\ later # Null /\ earlier # Null /\ later # NaN /\ earlier # NaN
BY DEF ReturnOf, Unusable

(* In a history without two rows of one time, At names the row of a time.  *)
LEMMA HistoryAt ==
  ASSUME Keyed(history), NEW j \in DOMAIN history.rows, NEW t \in Int,
         history.rows[j].close_time = t
  PROVE  At(t) = history.rows[j] /\ Between(t, t) # {}
<1>1. \A i \in DOMAIN history.rows : history.rows[i].close_time = t => i = j
  BY DEF Keyed
<1>2. (CHOOSE i \in DOMAIN history.rows : history.rows[i].close_time = t) = j
  BY <1>1
<1>3. t \in t .. t
  OBVIOUS
<1>4. j \in Between(t, t)
  BY <1>3 DEF Between
<1> QED
  BY <1>2, <1>4 DEF At

(* A counterpart found in a frame is the close the history has then.       *)
LEMMA CounterpartIsTheHistorys ==
  ASSUME history \in History, NEW f, NEW S \in SUBSET DOMAIN history.rows, Shows(f, S),
         NEW offset, Alignable(f, offset), Keyed(history), NEW k \in DOMAIN f.rows,
         Counterpart(f, k, offset) # Null,
         NEW at, at = f.rows[k].close_time + offset
  PROVE  Between(at, at) # {} /\ Counterpart(f, k, offset) = At(at).close
<1>1. PICK i \in DOMAIN f.rows : f.rows[i].close_time = at
  BY CounterpartIs
<1>2. Counterpart(f, k, offset) = f.rows[i].close
  BY <1>1, CounterpartIs
<1>3. PICK j \in S : IsRow(f.rows[i], j)
  BY ShownRows
<1>4. history.rows[j].close_time = at /\ history.rows[j].close = f.rows[i].close
  BY <1>1, <1>3, ShownRow
<1>5. at \in Int
  <2>1. f.rows[i].close_time \in Int64
    BY ShiftsAreExact
  <2> QED
    BY <1>1, <2>1 DEF Int64
<1>6. j \in DOMAIN history.rows
  OBVIOUS
<1> QED
  BY <1>2, <1>4, <1>5, <1>6, HistoryAt

(* The columns of a row that a step did not add mean what they did.        *)
SameColumn(row, columns, old, oldColumns, column) ==
  /\ column \in columns <=> column \in oldColumns
  /\ column \in columns => row.added[column] = old.added[column]

(* So the returns are the history's if they were.                          *)
LEMMA SameReturns ==
  ASSUME NEW row, NEW columns, NEW old, NEW oldColumns, NEW c,
         row.close_time = old.close_time, row.close = old.close,
         SameColumn(row, columns, old, oldColumns, Column("backward", c)),
         SameColumn(row, columns, old, oldColumns, Column("forward", c)),
         ReturnsAreTheHistorys(old, oldColumns, c)
  PROVE  ReturnsAreTheHistorys(row, columns, c)
BY DEF SameColumn, ReturnsAreTheHistorys, StatesPair, Stated

(* And the excursions.                                                     *)
LEMMA SameExcursions ==
  ASSUME NEW row, NEW columns, NEW old, NEW oldColumns, NEW c,
         row.close_time = old.close_time, row.close = old.close,
         SameColumn(row, columns, old, oldColumns, Column("mfe", c)),
         SameColumn(row, columns, old, oldColumns, Column("mae", c)),
         ExcursionsAreTheHistorys(old, oldColumns, c)
  PROVE  ExcursionsAreTheHistorys(row, columns, c)
<1> DEFINE favorable == Column("mfe", c)
           adverse == Column("mae", c)
<1>1. /\ Stated(row, columns, favorable) <=> Stated(old, oldColumns, favorable)
      /\ Stated(row, columns, favorable) => row.added[favorable] = old.added[favorable]
  BY DEF SameColumn, Stated
<1>2. /\ Stated(row, columns, adverse) <=> Stated(old, oldColumns, adverse)
      /\ Stated(row, columns, adverse) => row.added[adverse] = old.added[adverse]
  BY DEF SameColumn, Stated
<1> HIDE DEF favorable, adverse
<1> QED
  BY <1>1, <1>2 DEF ExcursionsAreTheHistorys, favorable, adverse

-----------------------------------------------------------------------------
(* Total grids and extremes                                                *)

(* A little below zero, a number is the divisor short of its remainder.    *)
LEMMA RemainderOfTheNegative ==
  ASSUME NEW x \in Int, NEW w \in Nat \ {0}, -w <= x, x < 0
  PROVE  x % w = x + w
OBVIOUS

(* And from the divisor on, past it.                                       *)
LEMMA RemainderOfTheLarge ==
  ASSUME NEW x \in Int, NEW w \in Nat \ {0}, w <= x, x < 2 * w
  PROVE  x % w = x - w
OBVIOUS

(* A horizon in whole cadences is some number of them, and at least one.   *)
LEMMA WholeSteps ==
  ASSUME NEW h \in Nat \ {0}, NEW e \in Nat \ {0}, h % e = 0
  PROVE  /\ h \div e \in Nat \ {0}
         /\ (h \div e) * e = h
         /\ e <= h
<1>1. PICK q \in Nat : q = h \div e /\ q * e = h
  OBVIOUS
<1>2. q # 0
  <2>1. 0 * e = 0
    OBVIOUS
  <2> QED
    BY <1>1, <2>1
<1>3. e <= q * e
  BY <1>2
<1> QED
  BY <1>1, <1>2, <1>3

(* On a total grid each row is a cadence after the one before: a           *)
(* difference that wraps around to one would leave no room for the shift.  *)
LEMMA GridSteps ==
  ASSUME history \in History, NEW f, NEW S \in SUBSET DOMAIN history.rows, Shows(f, S),
         NEW horizon \in Nat, Alignable(f, horizon), NEW cadence \in Nat \ {0},
         cadence <= horizon, TotalGrid(f, cadence)
  PROVE  \A i \in DOMAIN f.rows : i > 1 =>
           i - 1 \in DOMAIN f.rows /\ f.rows[i].close_time = f.rows[i - 1].close_time + cadence
<1>1. PICK half \in Nat \ {0} : Word = 2 * half /\ Word \div 2 = half /\ Int64 = -half .. half - 1
  BY HalfWord
<1>2. PICK n \in Nat : DOMAIN f.rows = 1 .. n /\ Len(f.rows) = n
  <2>1. PICK e, n : Lists(e, n, S) /\ IsList(f.rows, n)
    BY DEF Shows
  <2> QED
    BY <2>1 DEF IsList
<1>3. ASSUME NEW i \in 1 .. n, i > 1
      PROVE  f.rows[i].close_time = f.rows[i - 1].close_time + cadence
  <2> DEFINE t == f.rows[i].close_time
             u == f.rows[i - 1].close_time
             d == t - u
  <2>1. i \in 2 .. n /\ i - 1 \in 1 .. n
    BY <1>3
  <2>2. Wrapped(d) = cadence
    BY <1>2, <2>1 DEF TotalGrid
  <2>3. t \in Int64 /\ u \in Int64 /\ u + horizon \in Int64
    BY <1>2, <2>1, ShiftsAreExact
  <2> HIDE DEF t, u
  <2>4. t \in Int /\ u \in Int /\ -half <= t /\ t <= half - 1 /\ -half <= u /\ u + cadence <= half - 1
    BY <1>1, <2>3
  <2>5. Wrapped(d) = ((d + half) % Word) - half
    BY <1>1 DEF Wrapped
  <2> HIDE DEF d
  <2>6. d \in Int /\ d = t - u
    BY <2>4 DEF d
  <2>7. d < half
    <3> SUFFICES ASSUME d >= half PROVE FALSE
      BY <2>6
    <3>1. Word <= d + half /\ d + half < 2 * Word /\ d + half \in Int /\ Word \in Nat \ {0}
      BY <1>1, <2>4, <2>6
    <3>2. (d + half) % Word = (d + half) - Word
      <4> DEFINE x == d + half
      <4>1. x \in Int /\ Word \in Nat \ {0} /\ Word <= x /\ x < 2 * Word
        BY <3>1
      <4> HIDE DEF x
      <4>2. x % Word = x - Word
        BY <4>1, RemainderOfTheLarge
      <4> QED
        BY <4>2 DEF x
    <3> QED
      BY <1>1, <2>2, <2>4, <2>5, <2>6, <3>2
  <2>8. -half <= d
    <3> SUFFICES ASSUME d < -half PROVE FALSE
      BY <2>6
    <3>1. -Word <= d + half /\ d + half < 0 /\ d + half \in Int /\ Word \in Nat \ {0}
      BY <1>1, <2>4, <2>6
    <3>2. (d + half) % Word = d + half + Word
      <4> DEFINE x == d + half
      <4>1. x \in Int /\ Word \in Nat \ {0} /\ -Word <= x /\ x < 0
        BY <3>1
      <4> HIDE DEF x
      <4>2. x % Word = x + Word
        BY <4>1, RemainderOfTheNegative
      <4> QED
        BY <4>2 DEF x
    <3> QED
      BY <1>1, <2>2, <2>4, <2>5, <2>6, <3>2
  <2>9. d \in Int64
    BY <1>1, <2>6, <2>7, <2>8
  <2>10. d = cadence
    BY <2>2, <2>9, WrappedIsItself
  <2> QED
    BY <2>4, <2>6, <2>10 DEF t, u
<1> QED
  BY <1>2, <1>3

(* So m rows on it is m cadences later.                                    *)
LEMMA GridTimes ==
  ASSUME history \in History, NEW f, NEW S \in SUBSET DOMAIN history.rows, Shows(f, S),
         NEW horizon \in Nat, Alignable(f, horizon), NEW cadence \in Nat \ {0},
         cadence <= horizon, TotalGrid(f, cadence),
         NEW i \in DOMAIN f.rows, NEW m \in Nat, i + m \in DOMAIN f.rows
  PROVE  f.rows[i + m].close_time = f.rows[i].close_time + m * cadence
<1>1. PICK n \in Nat : DOMAIN f.rows = 1 .. n
  <2>1. PICK e, n : Lists(e, n, S) /\ IsList(f.rows, n)
    BY DEF Shows
  <2> QED
    BY <2>1 DEF IsList
<1> DEFINE time == [k \in 1 .. n |-> f.rows[k].close_time]
           bad == {l \in Nat : i + l \in 1 .. n /\ time[i + l] # time[i] + l * cadence}
<1>2. \A k \in 1 .. n : time[k] \in Int
  <2>1. \A k \in 1 .. n : time[k] \in Int64
    BY <1>1, ShiftsAreExact
  <2> QED
    BY <2>1 DEF Int64
<1>3. \A k \in 1 .. n : k > 1 => k - 1 \in 1 .. n /\ time[k] = time[k - 1] + cadence
  BY <1>1, GridSteps
<1> HIDE DEF time
<1>4. bad = {}
  <2> SUFFICES ASSUME bad # {} PROVE FALSE
    OBVIOUS
  <2>1. PICK l \in bad : \A j \in bad : l <= j
    <3>1. bad \in SUBSET Nat
      OBVIOUS
    <3> HIDE DEF bad
    <3> QED
      BY <3>1, LeastOfNat
  <2>2. l \in Nat /\ i + l \in 1 .. n /\ time[i + l] # time[i] + l * cadence /\ i \in 1 .. n
    BY <1>1, <2>1
  <2>3. l # 0
    <3> SUFFICES ASSUME l = 0 PROVE FALSE
      OBVIOUS
    <3>1. i + l = i /\ l * cadence = 0 /\ time[i] \in Int
      BY <1>2, <2>2
    <3> QED
      BY <2>2, <3>1
  <2>4. /\ l - 1 \in Nat /\ (i + l) - 1 = i + (l - 1) /\ i + l > 1
        /\ i + (l - 1) \in 1 .. n
    BY <2>2, <2>3
  <2>5. time[i + (l - 1)] = time[i] + (l - 1) * cadence
    <3>1. l - 1 \notin bad
      BY <2>1, <2>2, <2>4
    <3> QED
      BY <2>4, <3>1
  <2>6. time[i + l] = time[i + (l - 1)] + cadence
    BY <1>3, <2>2, <2>4
  <2>7. l * cadence = (l - 1) * cadence + cadence
    BY <2>2
  <2> QED
    BY <1>2, <2>2, <2>5, <2>6, <2>7
<1>5. time[i + m] = time[i] + m * cadence
  BY <1>1, <1>4
<1> QED
  BY <1>1, <1>5 DEF time

(* An extremum that is not null is the greatest, or the least, of the      *)
(* prices of the rows that follow, and every one of them has both.         *)
LEMMA GreatestFollowing ==
  ASSUME history \in History, NEW f, NEW S \in SUBSET DOMAIN history.rows, Shows(f, S),
         NEW i \in DOMAIN f.rows, NEW n \in Nat \ {0},
         i + 1 .. i + n \subseteq DOMAIN f.rows, \A k \in i + 1 .. i + n : ~Masked(f.rows[k])
  PROVE  \E k \in i + 1 .. i + n :
           /\ ForwardExtremum(f, i, n, "high", TRUE) = f.rows[k].high
           /\ \A j \in i + 1 .. i + n : f.rows[k].high >= f.rows[j].high
           /\ f.rows[k].high \in Int
<1> DEFINE interval == i + 1 .. i + n
           p == [m \in 1 .. n |-> f.rows[i + m].high]
           prices == {f.rows[k].high : k \in interval}
           best(x) == x \in prices /\ \A y \in prices : x >= y
<1>0. i \in Nat
  <2>1. PICK e, m : Lists(e, m, S) /\ IsList(f.rows, m)
    BY DEF Shows
  <2> QED
    BY <2>1 DEF IsList
<1>1. \A k \in interval : f.rows[k].high \in Int
  <2> TAKE k \in interval
  <2>1. PICK j \in S : IsRow(f.rows[k], j)
    BY ShownRows
  <2>2. f.rows[k].high \in Int \cup {Null, NaN}
    BY <2>1, ShownRow, WindowRowCells
  <2> QED
    BY <2>2 DEF Masked, Unusable
<1>2. \A m \in 1 .. n : i + m \in interval /\ p[m] = f.rows[i + m].high
  BY <1>0
<1>3. \A k \in interval : k - i \in 1 .. n /\ i + (k - i) = k
  BY <1>0
<1>4. PICK m \in 1 .. n : \A j \in 1 .. n : p[j] <= p[m]
  <2>1. \A j \in 1 .. n : p[j] \in Int
    BY <1>1, <1>2
  <2> HIDE DEF p
  <2> QED
    BY <2>1, GreatestOfSome
<1> DEFINE k == i + m
<1>5. k \in interval /\ \A j \in interval : f.rows[k].high >= f.rows[j].high
  <2>1. k \in interval /\ f.rows[k].high = p[m]
    BY <1>2
  <2>2. ASSUME NEW j \in interval PROVE f.rows[j].high <= f.rows[k].high
    <3>1. j - i \in 1 .. n /\ p[j - i] = f.rows[j].high
      BY <1>2, <1>3
    <3> HIDE DEF p
    <3> QED
      BY <1>4, <2>1, <3>1
  <2> QED
    BY <1>1, <2>1, <2>2
<1> HIDE DEF k
<1>6. best(f.rows[k].high) /\ \A x \in prices : best(x) => x = f.rows[k].high
  BY <1>1, <1>5
<1>7. ForwardExtremum(f, i, n, "high", TRUE) = CHOOSE x \in prices : \A y \in prices : x >= y
  BY DEF ForwardExtremum, Following
<1>8. (CHOOSE x \in prices : \A y \in prices : x >= y) = f.rows[k].high
  <2> HIDE DEF prices
  <2> QED
    BY <1>6
<1> QED
  BY <1>1, <1>5, <1>7, <1>8

(* The same of the least low.                                              *)
LEMMA LeastFollowing ==
  ASSUME history \in History, NEW f, NEW S \in SUBSET DOMAIN history.rows, Shows(f, S),
         NEW i \in DOMAIN f.rows, NEW n \in Nat \ {0},
         i + 1 .. i + n \subseteq DOMAIN f.rows, \A k \in i + 1 .. i + n : ~Masked(f.rows[k])
  PROVE  \E k \in i + 1 .. i + n :
           /\ ForwardExtremum(f, i, n, "low", FALSE) = f.rows[k].low
           /\ \A j \in i + 1 .. i + n : f.rows[k].low <= f.rows[j].low
           /\ f.rows[k].low \in Int
<1> DEFINE interval == i + 1 .. i + n
           p == [m \in 1 .. n |-> f.rows[i + m].low]
           prices == {f.rows[k].low : k \in interval}
           best(x) == x \in prices /\ \A y \in prices : x <= y
<1>0. i \in Nat
  <2>1. PICK e, m : Lists(e, m, S) /\ IsList(f.rows, m)
    BY DEF Shows
  <2> QED
    BY <2>1 DEF IsList
<1>1. \A k \in interval : f.rows[k].low \in Int
  <2> TAKE k \in interval
  <2>1. PICK j \in S : IsRow(f.rows[k], j)
    BY ShownRows
  <2>2. f.rows[k].low \in Int \cup {Null, NaN}
    BY <2>1, ShownRow, WindowRowCells
  <2> QED
    BY <2>2 DEF Masked, Unusable
<1>2. \A m \in 1 .. n : i + m \in interval /\ p[m] = f.rows[i + m].low
  BY <1>0
<1>3. \A k \in interval : k - i \in 1 .. n /\ i + (k - i) = k
  BY <1>0
<1>4. PICK m \in 1 .. n : \A j \in 1 .. n : p[m] <= p[j]
  <2>1. \A j \in 1 .. n : p[j] \in Int
    BY <1>1, <1>2
  <2> HIDE DEF p
  <2> QED
    BY <2>1, LeastOfSome
<1> DEFINE k == i + m
<1>5. k \in interval /\ \A j \in interval : f.rows[k].low <= f.rows[j].low
  <2>1. k \in interval /\ f.rows[k].low = p[m]
    BY <1>2
  <2>2. ASSUME NEW j \in interval PROVE f.rows[k].low <= f.rows[j].low
    <3>1. j - i \in 1 .. n /\ p[j - i] = f.rows[j].low
      BY <1>2, <1>3
    <3> HIDE DEF p
    <3> QED
      BY <1>4, <2>1, <3>1
  <2> QED
    BY <1>1, <2>1, <2>2
<1> HIDE DEF k
<1>6. best(f.rows[k].low) /\ \A x \in prices : best(x) => x = f.rows[k].low
  BY <1>1, <1>5, SMTT(60)
<1>7. ForwardExtremum(f, i, n, "low", FALSE) = CHOOSE x \in prices : \A y \in prices : x <= y
  BY DEF ForwardExtremum, Following
<1>8. (CHOOSE x \in prices : \A y \in prices : x <= y) = f.rows[k].low
  <2> HIDE DEF prices
  <2> QED
    BY <1>6
<1> QED
  BY <1>1, <1>5, <1>7, <1>8

-----------------------------------------------------------------------------
(* What calls add                                                          *)

(* Every value of a row is the history's.                                  *)
RightAt(row, columns) ==
  \A c \in ReturnCall :
    ReturnsAreTheHistorys(row, columns, c) /\ ExcursionsAreTheHistorys(row, columns, c)

(* Columns are told apart by what they are of, by method and by horizon.   *)
LEMMA ColumnsDiffer ==
  ASSUME NEW kind, NEW other, NEW c, NEW d
  PROVE  /\ Column(kind, c) = Column(other, d) =>
              kind = other /\ c.method = d.method /\ c.horizon = d.horizon
         /\ Column(kind, c) = FlagsColumn \/ Column(kind, c) = OverlapColumn => kind = "annotation"
<1>1. Column(kind, c)[1] = kind /\ Column(kind, c)[2] = c.method /\ Column(kind, c)[3] = c.horizon
  BY DEF Column
<1>2. Column(other, d)[1] = other /\ Column(other, d)[2] = d.method /\ Column(other, d)[3] = d.horizon
  BY DEF Column
<1>3. FlagsColumn[1] = "annotation" /\ OverlapColumn[1] = "annotation"
  BY DEF FlagsColumn, OverlapColumn
<1> QED
  BY <1>1, <1>2, <1>3

(* A row of g is that of f, but for the values added to it.                *)
RowGains(g, f, values, i) ==
  /\ g.rows[i].close_time = f.rows[i].close_time
  /\ g.rows[i].close = f.rows[i].close
  /\ \A column : column \notin DOMAIN values =>
       SameColumn(g.rows[i], g.added, f.rows[i], f.added, column)
  /\ \A column \in DOMAIN values :
       column \in g.added /\ g.rows[i].added[column] = values[column][i]

(* What a call adds to a row of a frame.                                   *)
LEMMA RowWidens ==
  ASSUME history \in History, NEW f, NEW S \in SUBSET DOMAIN history.rows, Shows(f, S),
         NEW values, NEW g, g = WithColumns(f, values), NEW i \in DOMAIN f.rows
  PROVE  RowGains(g, f, values, i)
<1>1. /\ Shows(g, S) /\ g.added = f.added \cup DOMAIN values
      /\ Widens(g, f, values)
  BY WithColumnsShows
<1>2. /\ g.rows[i] = [f.rows[i] EXCEPT !.added = g.rows[i].added]
      /\ \A c \in DOMAIN values : g.rows[i].added[c] = values[c][i]
      /\ \A c \in f.added \ DOMAIN values : g.rows[i].added[c] = f.rows[i].added[c]
  BY <1>1 DEF Widens
<1>3. PICK j \in S : IsRow(f.rows[i], j)
  BY ShownRows
<1>4. IsRow(g.rows[i], j)
  BY <1>2, <1>3 DEF IsRow
<1>5. j \in DOMAIN history.rows
  OBVIOUS
<1>6. g.rows[i].close_time = f.rows[i].close_time /\ g.rows[i].close = f.rows[i].close
  BY <1>3, <1>4, <1>5, ShownRow
<1>7. \A column : column \notin DOMAIN values =>
        SameColumn(g.rows[i], g.added, f.rows[i], f.added, column)
  BY <1>1, <1>2 DEF SameColumn
<1> QED
  BY <1>1, <1>2, <1>6, <1>7 DEF RowGains

(* An annotation adds no value of a return.                                *)
LEMMA AnnotationsKeepValues ==
  ASSUME history \in History, NEW f, NEW S \in SUBSET DOMAIN history.rows, Shows(f, S),
         NEW annotations, NEW g, g = WithColumns(f, Annotations(f, annotations)),
         NEW i \in DOMAIN f.rows, RightAt(f.rows[i], f.added)
  PROVE  RightAt(g.rows[i], g.added)
<1>1. PICK values : values = Annotations(f, annotations)
  OBVIOUS
<1>2. DOMAIN values = {FlagsColumn, OverlapColumn}
  BY <1>1 DEF Annotations
<1>3. g = WithColumns(f, values)
  BY <1>1
<1>4. ASSUME NEW c \in ReturnCall
      PROVE  /\ Column("backward", c) \notin DOMAIN values /\ Column("forward", c) \notin DOMAIN values
             /\ Column("mfe", c) \notin DOMAIN values /\ Column("mae", c) \notin DOMAIN values
  BY <1>2, ColumnsDiffer
<1>5. RowGains(g, f, values, i)
  BY <1>3, RowWidens
<1> QED
  BY <1>4, <1>5, SameReturns, SameExcursions DEF RightAt, RowGains

(* A backward return is of the history's close a horizon before.           *)
LEMMA BackwardIsTheHistorys ==
  ASSUME history \in History, Keyed(history),
         NEW f, NEW S \in SUBSET DOMAIN history.rows, Shows(f, S),
         NEW d \in ReturnCall, Alignable(f, -d.horizon),
         NEW g, g = WithColumns(f, [x \in {Column("backward", d)} |-> [i \in DOMAIN f.rows |->
                      ReturnOf(f.rows[i].close, Counterpart(f, i, -d.horizon), d.method)]]),
         NEW i \in DOMAIN f.rows, RightAt(f.rows[i], f.added)
  PROVE  RightAt(g.rows[i], g.added)
<1> DEFINE column == Column("backward", d)
           value(k) == ReturnOf(f.rows[k].close, Counterpart(f, k, -d.horizon), d.method)
<1>1. PICK values : values = [x \in {column} |-> [k \in DOMAIN f.rows |-> value(k)]]
  OBVIOUS
<1>2. DOMAIN values = {column} /\ values[column][i] = value(i)
  BY <1>1
<1>3. g = WithColumns(f, values)
  BY <1>1
<1>4. /\ g.rows[i].close_time = f.rows[i].close_time
      /\ g.rows[i].close = f.rows[i].close
      /\ \A x : x \notin DOMAIN values => SameColumn(g.rows[i], g.added, f.rows[i], f.added, x)
      /\ \A x \in DOMAIN values : x \in g.added /\ g.rows[i].added[x] = values[x][i]
  <2>1. RowGains(g, f, values, i)
    BY <1>3, RowWidens
  <2> QED
    BY <2>1 DEF RowGains
<1> HIDE DEF column, value
<1>5. ASSUME NEW c \in ReturnCall
      PROVE  /\ Column("forward", c) \notin DOMAIN values
             /\ Column("mfe", c) \notin DOMAIN values /\ Column("mae", c) \notin DOMAIN values
             /\ Column("backward", c) = column => c.horizon = d.horizon /\ c.method = d.method
  BY <1>2, ColumnsDiffer DEF column
<1>6. ASSUME NEW c \in ReturnCall
      PROVE  ReturnsAreTheHistorys(g.rows[i], g.added, c)
  <2>1. CASE Column("backward", c) # column
    BY <1>2, <1>4, <1>5, <2>1, SameReturns DEF RightAt
  <2>2. CASE Column("backward", c) = column
    <3> DEFINE t == f.rows[i].close_time
               at == t - d.horizon
               other == Column("forward", c)
    <3>1. StatesPair(g.rows[i], g.added, column, at, <<g.rows[i].close, At(at).close>>)
      <4> SUFFICES ASSUME Stated(g.rows[i], g.added, column)
                   PROVE  /\ Between(at, at) # {}
                          /\ g.rows[i].added[column] = <<g.rows[i].close, At(at).close>>
        BY DEF StatesPair
      <4>1. value(i) # Null /\ g.rows[i].added[column] = value(i)
        BY <1>2, <1>4 DEF Stated
      <4>2. value(i) = <<f.rows[i].close, Counterpart(f, i, -d.horizon)>>
            /\ Counterpart(f, i, -d.horizon) # Null
        BY <4>1, ReturnIsOf DEF value
      <4>3. at = f.rows[i].close_time + (-d.horizon)
        <5>1. t \in Int64
          BY ShiftsAreExact
        <5>2. t \in Int /\ d.horizon \in Nat
          BY <5>1, StepsAssumption DEF Int64
        <5> QED
          BY <5>2
      <4> HIDE DEF at
      <4>4. Between(at, at) # {} /\ Counterpart(f, i, -d.horizon) = At(at).close
        BY <4>2, <4>3, CounterpartIsTheHistorys
      <4> QED
        BY <1>4, <4>1, <4>2, <4>4
    <3>2. StatesPair(g.rows[i], g.added, other, t + c.horizon, <<At(t + c.horizon).close, g.rows[i].close>>)
      <4>1. StatesPair(f.rows[i], f.added, other, t + c.horizon, <<At(t + c.horizon).close, f.rows[i].close>>)
        BY DEF RightAt, ReturnsAreTheHistorys
      <4>2. SameColumn(g.rows[i], g.added, f.rows[i], f.added, other)
        BY <1>4, <1>5
      <4> QED
        BY <1>4, <4>1, <4>2 DEF StatesPair, Stated, SameColumn
    <3>3. g.rows[i].close_time = t /\ c.horizon = d.horizon
      BY <1>4, <1>5, <2>2
    <3> QED
      BY <2>2, <3>1, <3>2, <3>3 DEF ReturnsAreTheHistorys
  <2> QED
    BY <2>1, <2>2
<1>7. ASSUME NEW c \in ReturnCall
      PROVE  ExcursionsAreTheHistorys(g.rows[i], g.added, c)
  BY <1>4, <1>5, SameExcursions DEF RightAt
<1> QED
  BY <1>6, <1>7 DEF RightAt

(* The values of a forward return, one per row.                            *)
HasForward(f, d, values, column) ==
  \A i \in DOMAIN f.rows :
    values[column][i] = ReturnOf(Counterpart(f, i, d.horizon), f.rows[i].close, d.method)

(* A forward return is of the history's close a horizon after.             *)
LEMMA ForwardIsTheHistorys ==
  ASSUME history \in History, Keyed(history),
         NEW f, NEW S \in SUBSET DOMAIN history.rows, Shows(f, S),
         NEW d \in ReturnCall, Alignable(f, d.horizon),
         NEW column, column = Column("forward", d),
         NEW available, available = Column("forward_available_at", d),
         NEW values, DOMAIN values = {column, available},
         HasForward(f, d, values, column),
         NEW g, g = WithColumns(f, values),
         NEW i \in DOMAIN f.rows, RightAt(f.rows[i], f.added)
  PROVE  RightAt(g.rows[i], g.added)
<1> DEFINE value(k) == ReturnOf(Counterpart(f, k, d.horizon), f.rows[k].close, d.method)
<1>2. DOMAIN values = {column, available} /\ values[column][i] = value(i)
  BY DEF HasForward
<1> HIDE DEF value
<1>4. /\ g.rows[i].close_time = f.rows[i].close_time
      /\ g.rows[i].close = f.rows[i].close
      /\ \A x : x \notin DOMAIN values => SameColumn(g.rows[i], g.added, f.rows[i], f.added, x)
      /\ \A x \in DOMAIN values : x \in g.added /\ g.rows[i].added[x] = values[x][i]
  <2>1. RowGains(g, f, values, i)
    BY RowWidens
  <2> QED
    BY <2>1 DEF RowGains
<1>5. ASSUME NEW c \in ReturnCall
      PROVE  /\ Column("backward", c) \notin DOMAIN values
             /\ Column("forward", c) # available
             /\ Column("mfe", c) \notin DOMAIN values /\ Column("mae", c) \notin DOMAIN values
             /\ Column("forward", c) = column => c.horizon = d.horizon /\ c.method = d.method
  BY <1>2, ColumnsDiffer
<1>6. ASSUME NEW c \in ReturnCall
      PROVE  ReturnsAreTheHistorys(g.rows[i], g.added, c)
  <2>1. CASE Column("forward", c) # column
    BY <1>2, <1>4, <1>5, <2>1, SameReturns DEF RightAt
  <2>2. CASE Column("forward", c) = column
    <3> DEFINE t == f.rows[i].close_time
               at == t + d.horizon
               other == Column("backward", c)
    <3>1. StatesPair(g.rows[i], g.added, column, at, <<At(at).close, g.rows[i].close>>)
      <4> SUFFICES ASSUME Stated(g.rows[i], g.added, column)
                   PROVE  /\ Between(at, at) # {}
                          /\ g.rows[i].added[column] = <<At(at).close, g.rows[i].close>>
        BY DEF StatesPair
      <4>1. value(i) # Null /\ g.rows[i].added[column] = value(i)
        BY <1>2, <1>4 DEF Stated
      <4>2. value(i) = <<Counterpart(f, i, d.horizon), f.rows[i].close>>
            /\ Counterpart(f, i, d.horizon) # Null
        BY <4>1, ReturnIsOf DEF value
      <4>4. Between(at, at) # {} /\ Counterpart(f, i, d.horizon) = At(at).close
        BY <4>2, CounterpartIsTheHistorys
      <4> QED
        BY <1>4, <4>1, <4>2, <4>4
    <3>2. StatesPair(g.rows[i], g.added, other, t - c.horizon, <<g.rows[i].close, At(t - c.horizon).close>>)
      <4>1. StatesPair(f.rows[i], f.added, other, t - c.horizon, <<f.rows[i].close, At(t - c.horizon).close>>)
        BY DEF RightAt, ReturnsAreTheHistorys
      <4>2. SameColumn(g.rows[i], g.added, f.rows[i], f.added, other)
        BY <1>4, <1>5
      <4> QED
        BY <1>4, <4>1, <4>2 DEF StatesPair, Stated, SameColumn
    <3>3. g.rows[i].close_time = t /\ c.horizon = d.horizon
      BY <1>4, <1>5, <2>2
    <3> QED
      BY <2>2, <3>1, <3>2, <3>3 DEF ReturnsAreTheHistorys
  <2> QED
    BY <2>1, <2>2
<1>7. ASSUME NEW c \in ReturnCall
      PROVE  ExcursionsAreTheHistorys(g.rows[i], g.added, c)
  BY <1>4, <1>5, SameExcursions DEF RightAt
<1> QED
  BY <1>6, <1>7 DEF RightAt

(* On the history's grid, the rows up to a horizon ahead of one are its    *)
(* bars of the interval, every one of them.                                *)
IsTheInterval(f, i, n, interval) ==
  /\ Cardinality(interval) = n
  /\ \A k \in i + 1 .. i + n : \E j \in interval : IsRow(f.rows[k], j)
  /\ \A j \in interval : \E k \in i + 1 .. i + n : IsRow(f.rows[k], j)

(* They are listed by the rows that follow: their times are the multiples  *)
(* of the cadence up to the horizon, as the history's own in between are.  *)
LEMMA IntervalIsFollowing ==
  ASSUME history \in History, Keyed(history), OnItsGrid(history),
         NEW f, NEW S \in SUBSET DOMAIN history.rows, Shows(f, S),
         NEW horizon \in Nat, Alignable(f, horizon), TotalGrid(f, Cadence),
         NEW n \in Nat \ {0}, n * Cadence = horizon,
         NEW i \in DOMAIN f.rows, i + 1 .. i + n \subseteq DOMAIN f.rows,
         NEW t, t = f.rows[i].close_time
  PROVE  IsTheInterval(f, i, n, Between(t + 1, t + horizon))
<1> DEFINE interval == Between(t + 1, t + horizon)
<1>1. PICK e, r : /\ Lists(e, r, S)
                  /\ IsList(f.rows, r)
                  /\ \A k \in 1 .. r : IsRow(f.rows[k], e[k])
  BY DEF Shows
<1>2. DOMAIN f.rows = 1 .. r /\ r \in Nat /\ i \in 1 .. r
  BY <1>1 DEF IsList
<1>3. t \in Int /\ Cadence \in Nat \ {0} /\ Cadence <= horizon
  <2>1. t \in Int64
    BY ShiftsAreExact
  <2>2. t \in Int /\ Cadence \in Nat \ {0}
    BY <2>1, StepsAssumption DEF Int64
  <2>3. Cadence <= n * Cadence
    BY <2>2
  <2> QED
    BY <2>2, <2>3
<1>4. \A m \in 1 .. n : i + m \in 1 .. r /\ i + m \in i + 1 .. i + n
  BY <1>2
<1>5. \A m \in 1 .. n : f.rows[i + m].close_time = t + m * Cadence
  <2> TAKE m \in 1 .. n
  <2>1. m \in Nat /\ i + m \in DOMAIN f.rows
    BY <1>2, <1>4
  <2>2. f.rows[i + m].close_time = f.rows[i].close_time + m * Cadence
    BY <1>3, <2>1, GridTimes
  <2> QED
    BY <2>2
<1>6. ASSUME NEW k \in 1 .. r
      PROVE  /\ e[k] \in S /\ e[k] \in DOMAIN history.rows
             /\ IsRow(f.rows[k], e[k])
             /\ history.rows[e[k]].close_time = f.rows[k].close_time
  <2>1. e[k] \in S /\ e[k] \in DOMAIN history.rows /\ IsRow(f.rows[k], e[k])
    BY <1>1, ListedAre
  <2> QED
    BY <2>1, ShownRow
<1> DEFINE b == [m \in 1 .. n |-> e[i + m]]
<1>7. ASSUME NEW m \in 1 .. n PROVE b[m] \in interval
  <2>1. 1 <= m /\ m <= n /\ m * Cadence >= 1 /\ m * Cadence <= n * Cadence /\ m * Cadence \in Int
    BY <1>3
  <2>2. t + m * Cadence \in t + 1 .. t + horizon
    BY <1>3, <2>1
  <2>3. history.rows[e[i + m]].close_time = t + m * Cadence /\ e[i + m] \in DOMAIN history.rows
    BY <1>4, <1>5, <1>6
  <2> QED
    BY <2>2, <2>3 DEF Between
<1>8. ASSUME NEW j \in interval PROVE \E m \in 1 .. n : b[m] = j
  <2> DEFINE d == history.rows[j].close_time - t
  <2>1. j \in DOMAIN history.rows /\ history.rows[j].close_time \in t + 1 .. t + horizon
    BY DEF Between
  <2>2. d \in Int /\ 1 <= d /\ d <= horizon /\ history.rows[j].close_time = t + d
    BY <1>3, <2>1
  <2>3. d % Cadence = 0
    <3>1. history.rows[e[i]].close_time = t /\ e[i] \in DOMAIN history.rows
      BY <1>2, <1>6
    <3> QED
      BY <2>1, <3>1 DEF OnItsGrid
  <2> DEFINE m == d \div Cadence
  <2>4. m \in Int /\ d = m * Cadence
    <3> HIDE DEF d
    <3> QED
      BY <1>3, <2>2, <2>3
  <2> HIDE DEF d, m
  <2>5. m \in 1 .. n
    <3>1. m >= 1
      <4> SUFFICES ASSUME m <= 0 PROVE FALSE
        BY <2>4
      <4>1. m * Cadence <= 0
        BY <1>3, <2>4
      <4> QED
        BY <2>2, <2>4, <4>1
    <3>2. m <= n
      <4> SUFFICES ASSUME n + 1 <= m PROVE FALSE
        BY <2>4
      <4>1. (n + 1) * Cadence <= m * Cadence
        BY <1>3, <2>4
      <4>2. (n + 1) * Cadence = horizon + Cadence
        BY <1>3
      <4> QED
        BY <1>3, <2>2, <2>4, <4>1, <4>2
    <3> QED
      BY <2>4, <3>1, <3>2
  <2>6. history.rows[e[i + m]].close_time = t + d /\ e[i + m] \in DOMAIN history.rows
    BY <1>4, <1>5, <1>6, <2>4, <2>5
  <2>7. e[i + m] = j
    BY <2>1, <2>2, <2>6 DEF Keyed
  <2> QED
    BY <2>5, <2>7
<1>9. ASSUME NEW k \in 1 .. n, NEW l \in 1 .. n, k < l PROVE b[k] < b[l]
  <2>1. i + k \in 1 .. r /\ i + l \in 1 .. r /\ i + k < i + l
    BY <1>2, <1>4, <1>9
  <2> QED
    BY <1>1, <2>1, ListedAre
<1>10. b = [m \in 1 .. n |-> b[m]]
  OBVIOUS
<1>11. \A m \in 1 .. n : b[m] = e[i + m]
  OBVIOUS
<1> HIDE DEF b, interval
<1>12. Lists(b, n, interval)
  BY <1>7, <1>8, <1>9, <1>10 DEF Lists
<1>13. Cardinality(interval) = n
  <2>1. interval \in SUBSET Int
    <3>1. interval \in SUBSET DOMAIN history.rows
      BY DEF interval, Between
    <3> QED
      BY <3>1, HistoryRows
  <2> QED
    BY <1>12, <2>1, ListCounts
<1>14. ASSUME NEW k \in i + 1 .. i + n PROVE \E j \in interval : IsRow(f.rows[k], j)
  <2>1. k - i \in 1 .. n /\ i + (k - i) = k
    BY <1>2
  <2>2. b[k - i] = e[k] /\ k \in 1 .. r
    BY <1>4, <1>11, <2>1
  <2> QED
    BY <1>6, <1>7, <2>1, <2>2
<1>15. ASSUME NEW j \in interval PROVE \E k \in i + 1 .. i + n : IsRow(f.rows[k], j)
  <2>1. PICK m \in 1 .. n : e[i + m] = j
    BY <1>8, <1>11
  <2> QED
    BY <1>4, <1>6, <2>1
<1>16. IsTheInterval(f, i, n, interval)
  BY <1>13, <1>14, <1>15 DEF IsTheInterval
<1> QED
  BY <1>16 DEF interval

(* Whether there is a simple return of two prices is a matter of neither   *)
(* method nor order.                                                       *)
LEMMA SimpleIsStated ==
  ASSUME NEW x \in Int \cup {Null}, NEW close \in Int \cup {Null, NaN}
  PROVE  ReturnOf(x, close, "simple") # Null <=> x # Null /\ close \in Int /\ close # 0
<1>1. Null \notin Int /\ NaN \notin Int /\ NaN # Null
  BY CellAssumption
<1>2. CASE x # Null /\ close \in Int /\ close # 0
  <2>1. x \in Int
    BY <1>2
  <2>2. ReturnOf(x, close, "simple") = <<x, close>>
    BY <1>1, <1>2, <2>1 DEF ReturnOf, Unusable
  <2>3. <<x, close>> \in Int \X Int
    BY <1>2, <2>1
  <2>4. <<x, close>> # Null
    BY <2>3, CellAssumption
  <2> QED
    BY <1>2, <2>2, <2>4
<1>3. CASE ~(x # Null /\ close \in Int /\ close # 0)
  <2>1. ReturnOf(x, close, "simple") = Null
    BY <1>3 DEF ReturnOf, Unusable
  <2> QED
    BY <1>3, <2>1
<1> QED
  BY <1>2, <1>3

(* The rows an extremum is of are all there, and priced.                   *)
Complete(f, i, n) ==
  /\ i + 1 .. i + n \subseteq DOMAIN f.rows
  /\ \A k \in i + 1 .. i + n : ~Masked(f.rows[k])

(* An extremum is null just if one is missing or not priced.               *)
LEMMA ExtremaOfTheComplete ==
  ASSUME history \in History, NEW f, NEW S \in SUBSET DOMAIN history.rows, Shows(f, S),
         NEW i \in DOMAIN f.rows, NEW n \in Nat \ {0},
         NEW high, high = ForwardExtremum(f, i, n, "high", TRUE),
         NEW low, low = ForwardExtremum(f, i, n, "low", FALSE)
  PROVE  /\ Complete(f, i, n) => high \in Int /\ low \in Int
         /\ ~Complete(f, i, n) => high = Null /\ low = Null
<1>1. ASSUME Complete(f, i, n) PROVE high \in Int /\ low \in Int
  <2>1. i + 1 .. i + n \subseteq DOMAIN f.rows /\ \A k \in i + 1 .. i + n : ~Masked(f.rows[k])
    BY <1>1 DEF Complete
  <2>2. \E k \in i + 1 .. i + n : high = f.rows[k].high /\ f.rows[k].high \in Int
    BY <2>1, GreatestFollowing
  <2>3. \E k \in i + 1 .. i + n : low = f.rows[k].low /\ f.rows[k].low \in Int
    BY <2>1, LeastFollowing
  <2> QED
    BY <2>2, <2>3
<1>2. ASSUME ~Complete(f, i, n) PROVE high = Null /\ low = Null
  BY <1>2 DEF Complete, ForwardExtremum, Following
<1> QED
  BY <1>1, <1>2

(* Excursions computed from such rows are the history's.                   *)
LEMMA ExcursionIsTheHistorys ==
  ASSUME history \in History, Keyed(history),
         NEW f, NEW S \in SUBSET DOMAIN history.rows, Shows(f, S),
         NEW c \in ReturnCall, c.cadence = Cadence, ResolvableHorizon(c.horizon, Cadence),
         Alignable(f, c.horizon), TotalGrid(f, Cadence),
         NEW n, n = c.horizon \div Cadence, NEW i \in DOMAIN f.rows,
         NEW row, NEW columns,
         row.close_time = f.rows[i].close_time, row.close = f.rows[i].close,
         row.added[Column("mfe", c)] =
           ReturnOf(ForwardExtremum(f, i, n, "high", TRUE), row.close, c.method),
         row.added[Column("mae", c)] =
           ReturnOf(ForwardExtremum(f, i, n, "low", FALSE), row.close, c.method),
         Column("mfe", c) \in columns, Column("mae", c) \in columns
  PROVE  ExcursionsAreTheHistorys(row, columns, c)
<1> DEFINE favorable == Column("mfe", c)
           adverse == Column("mae", c)
           t == row.close_time
           interval == Between(t + 1, t + c.horizon)
           high == ForwardExtremum(f, i, n, "high", TRUE)
           low == ForwardExtremum(f, i, n, "low", FALSE)
<1>1. n \in Nat \ {0} /\ n * Cadence = c.horizon /\ c.horizon \in Nat
  <2>1. PICK h, e : h = c.horizon /\ e = Cadence
    OBVIOUS
  <2>2. h \in Nat \ {0} /\ e \in Nat \ {0} /\ h % e = 0
    BY <2>1, StepsAssumption DEF ResolvableHorizon
  <2>3. h \div e \in Nat \ {0} /\ (h \div e) * e = h
    BY <2>2, WholeSteps
  <2> QED
    BY <2>1, <2>2, <2>3
<1>2. /\ Stated(row, columns, favorable) <=> ReturnOf(high, row.close, c.method) # Null
      /\ Stated(row, columns, adverse) <=> ReturnOf(low, row.close, c.method) # Null
  BY DEF Stated
<1>3. /\ Complete(f, i, n) => high \in Int /\ low \in Int
      /\ ~Complete(f, i, n) => high = Null /\ low = Null
  BY <1>1, ExtremaOfTheComplete
<1>4. ASSUME OnItsGrid(history), Complete(f, i, n)
      PROVE  IsTheInterval(f, i, n, interval)
  <2>1. i + 1 .. i + n \subseteq DOMAIN f.rows
    BY <1>4 DEF Complete
  <2> QED
    BY <1>1, <1>4, <2>1, IntervalIsFollowing
<1>5. ASSUME NEW k \in DOMAIN f.rows, NEW j \in interval, IsRow(f.rows[k], j)
      PROVE  history.rows[j].high = f.rows[k].high /\ history.rows[j].low = f.rows[k].low
  <2>1. j \in DOMAIN history.rows
    BY DEF Between
  <2> QED
    BY <1>5, <2>1, ShownRow
<1> HIDE DEF favorable, adverse, t, interval, high, low
<1>6. ASSUME Stated(row, columns, favorable), OnItsGrid(history)
      PROVE  /\ Cardinality(interval) * Cadence = c.horizon
             /\ \E x \in {history.rows[j].high : j \in interval} :
                  /\ row.added[favorable] = <<x, row.close>>
                  /\ \A y \in {history.rows[j].high : j \in interval} : x >= y
  <2>1. ReturnOf(high, row.close, c.method) # Null
    BY <1>2, <1>6
  <2>2. ReturnOf(high, row.close, c.method) = <<high, row.close>> /\ high # Null
    BY <2>1, ReturnIsOf
  <2>3. Complete(f, i, n)
    BY <1>3, <2>2
  <2>4. IsTheInterval(f, i, n, interval)
    BY <1>4, <1>6, <2>3
  <2>5. PICK k \in i + 1 .. i + n :
          /\ high = f.rows[k].high
          /\ \A j \in i + 1 .. i + n : f.rows[k].high >= f.rows[j].high
    BY <1>1, <2>3, GreatestFollowing DEF Complete, high
  <2>6. PICK j \in interval : IsRow(f.rows[k], j)
    BY <2>4 DEF IsTheInterval
  <2>7. high = history.rows[j].high
    BY <1>5, <2>3, <2>5, <2>6 DEF Complete
  <2>8. ASSUME NEW l \in interval PROVE high >= history.rows[l].high
    <3>1. PICK m \in i + 1 .. i + n : IsRow(f.rows[m], l)
      BY <2>4 DEF IsTheInterval
    <3>2. history.rows[l].high = f.rows[m].high
      BY <1>5, <2>3, <3>1 DEF Complete
    <3> QED
      BY <2>5, <3>2
  <2>9. row.added[favorable] = <<high, row.close>>
    BY <2>2 DEF high, favorable
  <2>10. Cardinality(interval) = n
    BY <2>4 DEF IsTheInterval
  <2> QED
    BY <1>1, <2>6, <2>7, <2>8, <2>9, <2>10
<1>7. ASSUME Stated(row, columns, adverse), OnItsGrid(history)
      PROVE  /\ Cardinality(interval) * Cadence = c.horizon
             /\ \E x \in {history.rows[j].low : j \in interval} :
                  /\ row.added[adverse] = <<x, row.close>>
                  /\ \A y \in {history.rows[j].low : j \in interval} : x <= y
  <2>1. ReturnOf(low, row.close, c.method) # Null
    BY <1>2, <1>7
  <2>2. ReturnOf(low, row.close, c.method) = <<low, row.close>> /\ low # Null
    BY <2>1, ReturnIsOf
  <2>3. Complete(f, i, n)
    BY <1>3, <2>2
  <2>4. IsTheInterval(f, i, n, interval)
    BY <1>4, <1>7, <2>3
  <2>5. PICK k \in i + 1 .. i + n :
          /\ low = f.rows[k].low
          /\ \A j \in i + 1 .. i + n : f.rows[k].low <= f.rows[j].low
    BY <1>1, <2>3, LeastFollowing DEF Complete, low
  <2>6. PICK j \in interval : IsRow(f.rows[k], j)
    BY <2>4 DEF IsTheInterval
  <2>7. low = history.rows[j].low
    BY <1>5, <2>3, <2>5, <2>6 DEF Complete
  <2>8. ASSUME NEW l \in interval PROVE low <= history.rows[l].low
    <3>1. PICK m \in i + 1 .. i + n : IsRow(f.rows[m], l)
      BY <2>4 DEF IsTheInterval
    <3>2. history.rows[l].low = f.rows[m].low
      BY <1>5, <2>3, <3>1 DEF Complete
    <3> QED
      BY <2>5, <3>2
  <2>9. row.added[adverse] = <<low, row.close>>
    BY <2>2 DEF low, adverse
  <2>10. Cardinality(interval) = n
    BY <2>4 DEF IsTheInterval
  <2> QED
    BY <1>1, <2>6, <2>7, <2>8, <2>9, <2>10
<1>8. ASSUME c.method = "simple"
      PROVE  Stated(row, columns, favorable) <=> Stated(row, columns, adverse)
  <2>1. PICK j \in S : IsRow(f.rows[i], j)
    BY ShownRows
  <2>2. row.close \in Int \cup {Null, NaN}
    BY <2>1, ShownRow, WindowRowCells
  <2>3. /\ high \in Int \cup {Null} /\ low \in Int \cup {Null}
        /\ high # Null <=> low # Null
    BY <1>3, CellAssumption
  <2>4. /\ Stated(row, columns, favorable) <=> ReturnOf(high, row.close, "simple") # Null
        /\ Stated(row, columns, adverse) <=> ReturnOf(low, row.close, "simple") # Null
    BY <1>2, <1>8
  <2> QED
    BY <2>2, <2>3, <2>4, SimpleIsStated
<1> QED
  BY <1>6, <1>7, <1>8 DEF ExcursionsAreTheHistorys, favorable, adverse, interval, t

-----------------------------------------------------------------------------
(* Every value is the history's                                            *)

(* The values of excursions, one of each per row.                          *)
HasExcursions(f, d, values, n, favorable, adverse) ==
  \A i \in DOMAIN f.rows :
    /\ values[favorable][i] =
         ReturnOf(ForwardExtremum(f, i, n, "high", TRUE), f.rows[i].close, d.method)
    /\ values[adverse][i] =
         ReturnOf(ForwardExtremum(f, i, n, "low", FALSE), f.rows[i].close, d.method)

(* So are all the values of a row they are added to.                       *)
LEMMA ExcursionsAreTheHistorysToo ==
  ASSUME history \in History, Keyed(history),
         NEW f, NEW S \in SUBSET DOMAIN history.rows, Shows(f, S),
         NEW d \in ReturnCall, d.cadence = Cadence, ResolvableHorizon(d.horizon, Cadence),
         Alignable(f, d.horizon), TotalGrid(f, Cadence),
         NEW n, n = d.horizon \div Cadence,
         NEW favorable, favorable = Column("mfe", d),
         NEW adverse, adverse = Column("mae", d),
         NEW available, available = Column("excursion_available_at", d),
         NEW values, DOMAIN values = {favorable, adverse, available},
         HasExcursions(f, d, values, n, favorable, adverse),
         NEW g, g = WithColumns(f, values),
         NEW i \in DOMAIN f.rows, RightAt(f.rows[i], f.added)
  PROVE  RightAt(g.rows[i], g.added)
<1>1. /\ g.rows[i].close_time = f.rows[i].close_time
      /\ g.rows[i].close = f.rows[i].close
      /\ \A x : x \notin DOMAIN values => SameColumn(g.rows[i], g.added, f.rows[i], f.added, x)
      /\ \A x \in DOMAIN values : x \in g.added /\ g.rows[i].added[x] = values[x][i]
  <2>1. RowGains(g, f, values, i)
    BY RowWidens
  <2> QED
    BY <2>1 DEF RowGains
<1>2. ASSUME NEW c \in ReturnCall
      PROVE  /\ Column("backward", c) \notin DOMAIN values /\ Column("forward", c) \notin DOMAIN values
             /\ Column("mfe", c) # adverse /\ Column("mfe", c) # available
             /\ Column("mae", c) # favorable /\ Column("mae", c) # available
             /\ Column("mfe", c) = favorable => c.horizon = d.horizon /\ c.method = d.method
             /\ Column("mae", c) = adverse => c.horizon = d.horizon /\ c.method = d.method
  BY ColumnsDiffer
<1>3. ASSUME NEW c \in ReturnCall PROVE ReturnsAreTheHistorys(g.rows[i], g.added, c)
  BY <1>1, <1>2, SameReturns DEF RightAt
<1>4. ASSUME NEW c \in ReturnCall PROVE ExcursionsAreTheHistorys(g.rows[i], g.added, c)
  <2>1. CASE c.horizon = d.horizon /\ c.method = d.method
    <3>1. Column("mfe", c) = favorable /\ Column("mae", c) = adverse
      BY <2>1 DEF Column
    <3>2. /\ g.rows[i].added[favorable] =
               ReturnOf(ForwardExtremum(f, i, n, "high", TRUE), g.rows[i].close, d.method)
          /\ g.rows[i].added[adverse] =
               ReturnOf(ForwardExtremum(f, i, n, "low", FALSE), g.rows[i].close, d.method)
          /\ favorable \in g.added /\ adverse \in g.added
      BY <1>1 DEF HasExcursions
    <3>3. PICK row : row = g.rows[i]
      OBVIOUS
    <3>4. /\ row.added[Column("mfe", d)] =
               ReturnOf(ForwardExtremum(f, i, n, "high", TRUE), row.close, d.method)
          /\ row.added[Column("mae", d)] =
               ReturnOf(ForwardExtremum(f, i, n, "low", FALSE), row.close, d.method)
          /\ Column("mfe", d) \in g.added /\ Column("mae", d) \in g.added
          /\ row.close_time = f.rows[i].close_time /\ row.close = f.rows[i].close
      BY <1>1, <3>2, <3>3
    <3>5. ExcursionsAreTheHistorys(row, g.added, d)
      BY <3>4, ExcursionIsTheHistorys
    <3> QED
      BY <2>1, <3>1, <3>3, <3>5 DEF ExcursionsAreTheHistorys, Column
  <2>2. CASE ~(c.horizon = d.horizon /\ c.method = d.method)
    <3>1. Column("mfe", c) \notin DOMAIN values /\ Column("mae", c) \notin DOMAIN values
      BY <1>2, <2>2
    <3> QED
      BY <1>1, <3>1, SameExcursions DEF RightAt
  <2> QED
    BY <2>1, <2>2
<1> QED
  BY <1>3, <1>4 DEF RightAt

(* Calls state the cadence the frame was emitted at.                       *)
CallsStateTheCadence == \A c \in ReturnCall : c.cadence = Cadence

(* Every value of a frame is the history's.                                *)
ValuesIn(f) == \A i \in DOMAIN f.rows : RightAt(f.rows[i], f.added)

(* The rows that are left keep their values.                               *)
LEMMA FilteredValues ==
  ASSUME NEW f, ValuesIn(f), NEW g, RowsAmong(g, f), g.added = f.added
  PROVE  ValuesIn(g)
BY DEF ValuesIn, RowsAmong

(* Every call leaves a frame whose values are the history's.               *)
LEMMA StepValues ==
  ASSUME RowsSoFar, Keyed(history), CallsStateTheCadence, ValuesIn(frame), StepsNext
  PROVE  ValuesIn(frame')
<1>1. /\ history \in History /\ Shows(frame, Passing) /\ Passing \in SUBSET DOMAIN history.rows
  BY PassingRows DEF RowsSoFar
<1>2. ASSUME NEW values, frame' = WithColumns(frame, values) PROVE DOMAIN frame'.rows = DOMAIN frame.rows
  BY <1>1, <1>2, WithColumnsShows
<1>3. CASE ApplyQualityPolicy
  <2>1. CASE frame' = frame
    BY <2>1
  <2>2. ASSUME NEW written \in Policy, Filtered(written) PROVE ValuesIn(frame')
    <3>1. PICK policy : policy = PolicyFromDict(written)
      OBVIOUS
    <3>2. frame' = Without(frame, Offending(frame, policy, Window)) /\ LegalPolicy(policy)
      BY <2>2, <3>1 DEF Filtered
    <3>3. frame'.added = frame.added /\ RowsAmong(frame', frame)
      BY <1>1, <3>1, <3>2, FilteredShows
    <3> QED
      BY <3>3, FilteredValues
  <2>3. frame' = frame \/ \E written \in Policy : Filtered(written)
    BY <1>3, PoliciesDo
  <2> QED
    BY <2>1, <2>2, <2>3
<1>4. ASSUME NEW file \in SidecarFile, NEW cap \in RowCap, ReadAnnotations(file, cap)
      PROVE  ValuesIn(frame')
  <2>1. frame' = frame
    BY <1>4 DEF ReadAnnotations, Call
  <2> QED
    BY <2>1
<1>5. ASSUME NEW s \in Joinable, AnnotateWindows(s.read, s.file) PROVE ValuesIn(frame')
  <2>1. frame' = frame \/ frame' = WithColumns(frame, Annotations(frame, s.read))
    BY <1>5 DEF AnnotateWindows, Compose, Call
  <2>2. CASE frame' = WithColumns(frame, Annotations(frame, s.read))
    BY <1>1, <1>2, <2>2, AnnotationsKeepValues DEF ValuesIn
  <2> QED
    BY <2>1, <2>2
<1>6. ASSUME NEW s \in Joinable, RefuseSidecar(s.read) PROVE ValuesIn(frame')
  <2>1. frame' = frame
    BY <1>6 DEF RefuseSidecar, Call
  <2> QED
    BY <2>1
<1>7. ASSUME NEW d \in ReturnCall, AddBackwardReturns(d) PROVE ValuesIn(frame')
  <2>1. CASE frame' = frame
    BY <2>1
  <2>2. CASE frame' # frame
    <3>1. /\ Alignable(frame, -d.horizon)
          /\ frame' = WithColumns(frame,
               [x \in {Column("backward", d)} |-> [i \in DOMAIN frame.rows |->
                  ReturnOf(frame.rows[i].close, Counterpart(frame, i, -d.horizon), d.method)]])
      BY <1>7, <2>2 DEF AddBackwardReturns, Compose, Call
    <3> QED
      BY <1>1, <1>2, <3>1, BackwardIsTheHistorys DEF ValuesIn
  <2> QED
    BY <2>1, <2>2
<1>8. ASSUME NEW d \in ReturnCall, AddForwardReturns(d) PROVE ValuesIn(frame')
  <2>1. CASE frame' = frame
    BY <2>1
  <2>2. CASE frame' # frame
    <3>1. PICK column, available :
            column = Column("forward", d) /\ available = Column("forward_available_at", d)
      OBVIOUS
    <3>2. /\ Alignable(frame, d.horizon)
          /\ frame' = WithColumns(frame,
               [x \in {column, available} |-> [i \in DOMAIN frame.rows |->
                  IF x = column
                  THEN ReturnOf(Counterpart(frame, i, d.horizon), frame.rows[i].close, d.method)
                  ELSE Shifted(frame.rows[i], d.horizon)]])
      BY <1>8, <2>2, <3>1 DEF AddForwardReturns, Compose, Call
    <3>3. PICK values :
            values = [x \in {column, available} |-> [i \in DOMAIN frame.rows |->
                        IF x = column
                        THEN ReturnOf(Counterpart(frame, i, d.horizon), frame.rows[i].close, d.method)
                        ELSE Shifted(frame.rows[i], d.horizon)]]
      OBVIOUS
    <3>4. /\ DOMAIN values = {column, available}
          /\ HasForward(frame, d, values, column)
      BY <3>3 DEF HasForward
    <3>5. frame' = WithColumns(frame, values)
      BY <3>2, <3>3
    <3>6. ASSUME NEW i \in DOMAIN frame.rows PROVE RightAt(frame'.rows[i], frame'.added)
      <4>1. RightAt(frame.rows[i], frame.added)
        BY DEF ValuesIn
      <4>2. PICK g : g = frame'
        OBVIOUS
      <4>3. g = WithColumns(frame, values)
        BY <3>5, <4>2
      <4>4. RightAt(g.rows[i], g.added)
        BY <1>1, <3>1, <3>2, <3>4, <4>1, <4>3, ForwardIsTheHistorys
      <4> QED
        BY <4>2, <4>4
    <3> QED
      BY <1>2, <3>5, <3>6 DEF ValuesIn
  <2> QED
    BY <2>1, <2>2
<1>9. ASSUME NEW d \in ReturnCall, AddForwardExcursions(d) PROVE ValuesIn(frame')
  <2>1. CASE frame' = frame
    BY <2>1
  <2>2. CASE frame' # frame
    <3> DEFINE favorable == Column("mfe", d)
               adverse == Column("mae", d)
               available == Column("excursion_available_at", d)
               n == d.horizon \div d.cadence
               value(i, x) ==
                 CASE x = favorable -> ReturnOf(ForwardExtremum(frame, i, n, "high", TRUE),
                                                frame.rows[i].close, d.method)
                   [] x = adverse   -> ReturnOf(ForwardExtremum(frame, i, n, "low", FALSE),
                                                frame.rows[i].close, d.method)
                   [] x = available -> Shifted(frame.rows[i], d.horizon)
    <3>2. d.cadence = Cadence
      BY DEF CallsStateTheCadence
    <3>3. /\ ResolvableHorizon(d.horizon, d.cadence) /\ Alignable(frame, d.horizon)
          /\ TotalGrid(frame, d.cadence)
          /\ frame' = WithColumns(frame,
               [x \in {favorable, adverse, available} |-> [i \in DOMAIN frame.rows |-> value(i, x)]])
      BY <1>9, <2>2 DEF AddForwardExcursions, Compose, Call
    <3>4. favorable # adverse /\ favorable # available /\ adverse # available
      BY ColumnsDiffer
    <3>10. /\ favorable = Column("mfe", d) /\ adverse = Column("mae", d)
           /\ available = Column("excursion_available_at", d)
           /\ n = d.horizon \div Cadence
      BY <3>2
    <3> HIDE DEF favorable, adverse, available, n
    <3>5. ASSUME NEW i \in DOMAIN frame.rows
          PROVE  /\ value(i, favorable) = ReturnOf(ForwardExtremum(frame, i, n, "high", TRUE),
                                                   frame.rows[i].close, d.method)
                 /\ value(i, adverse) = ReturnOf(ForwardExtremum(frame, i, n, "low", FALSE),
                                                 frame.rows[i].close, d.method)
      BY <3>4
    <3>6. PICK values :
            values = [x \in {favorable, adverse, available} |-> [i \in DOMAIN frame.rows |-> value(i, x)]]
      OBVIOUS
    <3> HIDE DEF value
    <3>7. /\ DOMAIN values = {favorable, adverse, available}
          /\ HasExcursions(frame, d, values, n, favorable, adverse)
      BY <3>5, <3>6 DEF HasExcursions
    <3>8. frame' = WithColumns(frame, values)
      BY <3>3, <3>6
    <3>9. ASSUME NEW i \in DOMAIN frame.rows PROVE RightAt(frame'.rows[i], frame'.added)
      <4>1. RightAt(frame.rows[i], frame.added)
        BY DEF ValuesIn
      <4>2. PICK g : g = frame'
        OBVIOUS
      <4>3. g = WithColumns(frame, values)
        BY <3>8, <4>2
      <4>4. RightAt(g.rows[i], g.added)
        BY <1>1, <3>2, <3>3, <3>7, <3>10, <4>1, <4>3, ExcursionsAreTheHistorysToo
      <4> QED
        BY <4>2, <4>4
    <3> QED
      BY <1>2, <3>8, <3>9 DEF ValuesIn
  <2> QED
    BY <2>1, <2>2
<1> QED
  BY <1>3, <1>4, <1>5, <1>6, <1>7, <1>8, <1>9 DEF StepsNext

(* A step does not change the history, nor what it gives.                  *)
LEMMA ReturnsNext ==
  ASSUME NEW row, NEW columns, NEW c, history' = history
  PROVE  /\ ReturnsAreTheHistorys(row, columns, c)' <=> ReturnsAreTheHistorys(row, columns, c)
         /\ ExcursionsAreTheHistorys(row, columns, c)' <=> ExcursionsAreTheHistorys(row, columns, c)
BY DEF ReturnsAreTheHistorys, ExcursionsAreTheHistorys, StatesPair, Stated, At, Between, OnItsGrid

(* The inductive invariant of the values.                                  *)
ValuesSoFar == RowsSoFar /\ (Keyed(history) => ValuesIn(frame))

(* There are none at first.                                                *)
LEMMA InitValues == StepsInit => ValuesSoFar
<1> SUFFICES ASSUME StepsInit PROVE ValuesSoFar
  OBVIOUS
<1>1. RowsSoFar
  BY InitRows
<1>2. frame = history /\ history.added = {}
  BY HistoryRows DEF StepsInit
<1>3. ASSUME NEW row PROVE RightAt(row, {})
  <2>1. \A column : ~Stated(row, {}, column)
    BY DEF Stated
  <2> QED
    BY <2>1 DEF RightAt, ReturnsAreTheHistorys, StatesPair, ExcursionsAreTheHistorys
<1> QED
  BY <1>1, <1>2, <1>3 DEF ValuesSoFar, ValuesIn

(* It is what is to be shown, with the rows.                               *)
LEMMA ValuesAsStated ==
  (Keyed(history) => ValuesIn(frame)) <=> ValuesAreTheHistorys
BY DEF ValuesIn, RightAt, ValuesAreTheHistorys

(* And every step preserves it.                                            *)
LEMMA NextValues ==
  ASSUME CallsStateTheCadence
  PROVE  ValuesSoFar /\ [StepsNext]_steps_vars => ValuesSoFar'
<1> SUFFICES ASSUME ValuesSoFar, [StepsNext]_steps_vars PROVE ValuesSoFar'
  OBVIOUS
<1>1. RowsSoFar /\ RowsSoFar'
  BY NextRows DEF ValuesSoFar
<1>2. history' = history
  BY StepsDo DEF steps_vars
<1>3. Keyed(history') => Keyed(history)
  BY <1>2
<1>4. Keyed(history) => ValuesIn(frame')
  <2>1. CASE StepsNext
    BY <1>1, <2>1, StepValues DEF ValuesSoFar
  <2>2. CASE UNCHANGED steps_vars
    BY <2>2 DEF steps_vars, ValuesSoFar
  <2> QED
    BY <2>1, <2>2
<1>5. (Keyed(history) => ValuesIn(frame))'
  <2> SUFFICES ASSUME Keyed(history)' PROVE ValuesIn(frame)'
    OBVIOUS
  <2>1. Keyed(history)
    BY <1>2 DEF Keyed, CloseTimes
  <2>2. ASSUME NEW i \in DOMAIN frame'.rows, NEW c \in ReturnCall
        PROVE  /\ ReturnsAreTheHistorys(frame.rows[i], frame.added, c)'
               /\ ExcursionsAreTheHistorys(frame.rows[i], frame.added, c)'
    <3>1. PICK row, columns : row = frame'.rows[i] /\ columns = frame'.added
      OBVIOUS
    <3>2. ReturnsAreTheHistorys(row, columns, c) /\ ExcursionsAreTheHistorys(row, columns, c)
      BY <1>4, <2>1, <3>1 DEF ValuesIn, RightAt
    <3>3. ReturnsAreTheHistorys(row, columns, c)' /\ ExcursionsAreTheHistorys(row, columns, c)'
      BY <1>2, <3>2, ReturnsNext
    <3> QED
      BY <3>1, <3>3
         DEF ReturnsAreTheHistorys, ExcursionsAreTheHistorys, StatesPair, Stated, At, Between, OnItsGrid
  <2> QED
    BY <2>2 DEF ValuesIn, RightAt
<1> QED
  BY <1>1, <1>5 DEF ValuesSoFar

(* In a history without two rows of one close time, a value that is stated *)
(* is the one the history gives, whatever was filtered out of the frame    *)
(* first: a return is of the two closes exactly a horizon apart            *)
(* (counterpart_closes), an excursion of the extreme of every bar in       *)
(* between, if the history is emitted at the cadence the calls state       *)
(* (require_total_grid, _forward_extremum).                                *)
THEOREM ValuesStayTheHistorys ==
  ASSUME CallsStateTheCadence
  PROVE  StepsSpec => []ValuesAreTheHistorys
<1>1. StepsInit => ValuesSoFar
  BY InitValues
<1>2. ValuesSoFar /\ [StepsNext]_steps_vars => ValuesSoFar'
  BY NextValues
<1>3. ValuesSoFar => ValuesAreTheHistorys
  BY ValuesAsStated DEF ValuesSoFar
<1> QED
  BY <1>1, <1>2, <1>3, PTL DEF StepsSpec

-----------------------------------------------------------------------------
(* What was known of a frame                                               *)

(* A row shows the cells of a row of the history, and those are the same   *)
(* of rows that are the same.                                              *)
LEMMA SameCells ==
  ASSUME history \in History, NEW f, NEW S \in SUBSET DOMAIN history.rows, Shows(f, S),
         NEW g, NEW T \in SUBSET DOMAIN history.rows, Shows(g, T),
         NEW i \in DOMAIN f.rows, NEW j \in DOMAIN g.rows, Bare(f.rows[i]) = Bare(g.rows[j])
  PROVE  /\ f.rows[i].open_time = g.rows[j].open_time
         /\ f.rows[i].close_time = g.rows[j].close_time
         /\ f.rows[i].close = g.rows[j].close
         /\ f.rows[i].high = g.rows[j].high
         /\ f.rows[i].low = g.rows[j].low
<1>1. PICK k \in S : IsRow(f.rows[i], k)
  BY ShownRows
<1>2. PICK l \in T : IsRow(g.rows[j], l)
  BY ShownRows
<1>3. k \in DOMAIN history.rows /\ l \in DOMAIN history.rows
  OBVIOUS
<1>4. history.rows[k] = Bare(f.rows[i]) /\ history.rows[l] = Bare(g.rows[j])
  BY <1>1, <1>2, <1>3, ShownRow
<1>5. history.rows[k] = history.rows[l]
  BY <1>4
<1> QED
  BY <1>1, <1>2, <1>3, <1>5, ShownRow

(* What is known of the frame: every row of it that had closed, no other.  *)
LEMMA KnownRows ==
  ASSUME RowsSoFar
  PROVE  /\ \A j \in DOMAIN known.rows :
              /\ known.rows[j].close_time # Null /\ known.rows[j].close_time <= Now
              /\ \E i \in DOMAIN frame.rows : Bare(frame.rows[i]) = Bare(known.rows[j])
         /\ \A i \in DOMAIN frame.rows :
              frame.rows[i].close_time # Null /\ frame.rows[i].close_time <= Now =>
                \E j \in DOMAIN known.rows : Bare(frame.rows[i]) = Bare(known.rows[j])
<1>1. /\ history \in History /\ Shows(frame, Passing) /\ Shows(known, KnownPassing)
      /\ Passing \in SUBSET DOMAIN history.rows /\ KnownPassing \in SUBSET DOMAIN history.rows
      /\ KnownPassing \in SUBSET Passing
  BY PassingRows DEF RowsSoFar, KnownPassing
<1>2. PICK e, n : /\ Lists(e, n, Passing)
                  /\ IsList(frame.rows, n)
                  /\ \A k \in 1 .. n : IsRow(frame.rows[k], e[k])
  BY <1>1 DEF Shows
<1>3. PICK d, m : /\ Lists(d, m, KnownPassing)
                  /\ IsList(known.rows, m)
                  /\ \A k \in 1 .. m : IsRow(known.rows[k], d[k])
  BY <1>1 DEF Shows
<1>4. DOMAIN frame.rows = 1 .. n /\ DOMAIN known.rows = 1 .. m
  BY <1>2, <1>3 DEF IsList
<1>5. ASSUME NEW j \in 1 .. m
      PROVE  /\ known.rows[j].close_time # Null /\ known.rows[j].close_time <= Now
             /\ \E i \in 1 .. n : Bare(frame.rows[i]) = Bare(known.rows[j])
  <2>1. d[j] \in KnownPassing /\ IsRow(known.rows[j], d[j]) /\ d[j] \in Passing
    BY <1>1, <1>3, ListedAre
  <2>2. PICK i \in 1 .. n : e[i] = d[j]
    BY <1>2, <2>1, ListedAre
  <2>3. d[j] \in DOMAIN history.rows
    BY <1>1, <2>1
  <2>4. /\ Bare(known.rows[j]) = history.rows[d[j]] /\ Bare(frame.rows[i]) = history.rows[d[j]]
        /\ known.rows[j].close_time = history.rows[d[j]].close_time
    BY <1>1, <1>2, <2>1, <2>2, <2>3, ShownRow
  <2> QED
    BY <2>1, <2>4 DEF KnownPassing
<1>6. ASSUME NEW i \in 1 .. n, frame.rows[i].close_time # Null, frame.rows[i].close_time <= Now
      PROVE  \E j \in 1 .. m : Bare(frame.rows[i]) = Bare(known.rows[j])
  <2>1. e[i] \in Passing /\ IsRow(frame.rows[i], e[i])
    BY <1>2, ListedAre
  <2>2. e[i] \in DOMAIN history.rows
    BY <1>1, <2>1
  <2>3. Bare(frame.rows[i]) = history.rows[e[i]]
        /\ frame.rows[i].close_time = history.rows[e[i]].close_time
    BY <1>1, <2>1, <2>2, ShownRow
  <2>4. e[i] \in KnownPassing
    BY <1>6, <2>1, <2>3 DEF KnownPassing
  <2>5. PICK j \in 1 .. m : d[j] = e[i]
    BY <1>3, <2>4, ListedAre
  <2>6. Bare(known.rows[j]) = history.rows[e[i]]
    BY <1>1, <1>3, <2>2, <2>5, ShownRow
  <2> QED
    BY <2>3, <2>6
<1> QED
  BY <1>4, <1>5, <1>6

(* What may be aligned may be of what was known.                           *)
LEMMA KnownIsAlignable ==
  ASSUME RowsSoFar, NEW offset, Alignable(frame, offset)
  PROVE  Alignable(known, offset)
<1>1. /\ history \in History /\ Shows(frame, Passing) /\ Shows(known, KnownPassing)
      /\ Passing \in SUBSET DOMAIN history.rows /\ KnownPassing \in SUBSET DOMAIN history.rows
      /\ KnownPassing \in SUBSET Passing
  BY PassingRows DEF RowsSoFar, KnownPassing
<1>2. PICK e, n : /\ Lists(e, n, Passing)
                  /\ IsList(frame.rows, n)
                  /\ \A k \in 1 .. n : IsRow(frame.rows[k], e[k])
  BY <1>1 DEF Shows
<1>3. PICK d, m : /\ Lists(d, m, KnownPassing)
                  /\ IsList(known.rows, m)
                  /\ \A k \in 1 .. m : IsRow(known.rows[k], d[k])
  BY <1>1 DEF Shows
<1>4. DOMAIN frame.rows = 1 .. n /\ DOMAIN known.rows = 1 .. m
  BY <1>2, <1>3 DEF IsList
<1>5. ASSUME NEW j \in 1 .. m
      PROVE  \E i \in 1 .. n : e[i] = d[j] /\ frame.rows[i].close_time = known.rows[j].close_time
  <2>1. d[j] \in Passing /\ IsRow(known.rows[j], d[j])
    BY <1>1, <1>3, ListedAre
  <2>2. PICK i \in 1 .. n : e[i] = d[j]
    BY <1>2, <2>1, ListedAre
  <2>3. d[j] \in DOMAIN history.rows /\ IsRow(frame.rows[i], d[j])
    BY <1>1, <1>2, <2>1, <2>2
  <2> QED
    BY <1>1, <2>1, <2>2, <2>3, ShownRow
<1>6. Keyed(known)
  <2>1. Null \notin CloseTimes(known)
    BY KnownRows DEF CloseTimes
  <2>2. ASSUME NEW i \in 1 .. m, NEW j \in 1 .. m, known.rows[i].close_time = known.rows[j].close_time
        PROVE  i = j
    <3>1. PICK p \in 1 .. n : e[p] = d[i] /\ frame.rows[p].close_time = known.rows[i].close_time
      BY <1>5
    <3>2. PICK q \in 1 .. n : e[q] = d[j] /\ frame.rows[q].close_time = known.rows[j].close_time
      BY <1>5
    <3>3. p = q
      BY <1>4, <2>2, <3>1, <3>2 DEF Alignable, Keyed
    <3>4. d[i] = d[j]
      BY <3>1, <3>2, <3>3
    <3>5. d[i] \in Int /\ d[j] \in Int
      <4>1. d[i] \in DOMAIN history.rows /\ d[j] \in DOMAIN history.rows
        BY <1>1, <1>3, ListedAre
      <4> QED
        BY <1>1, <4>1, HistoryRows
    <3>6. \A k, l \in 1 .. m : k < l => d[k] < d[l]
      BY <1>3, ListedAre
    <3> QED
      BY <3>4, <3>5, <3>6
  <2> QED
    BY <1>4, <2>1, <2>2 DEF Keyed
<1>7. RepresentableShift(known, offset)
  <2>1. ASSUME NEW t \in Extremes(CloseTimes(known)) PROVE t + offset \in Int64
    <3>1. PICK j \in 1 .. m : t = known.rows[j].close_time
      BY <1>4 DEF Extremes, CloseTimes
    <3>2. PICK i \in 1 .. n : frame.rows[i].close_time = t
      BY <1>5, <3>1
    <3> QED
      BY <1>1, <1>4, <3>2, ShiftsAreExact
  <2> QED
    BY <2>1 DEF RepresentableShift, Alignable
<1>8. known.have = frame.have
  BY <1>1 DEF Shows
<1> QED
  BY <1>6, <1>7, <1>8 DEF Alignable

(* The close a row is compared with was known by the time it closed.       *)
LEMMA CounterpartsAgree ==
  ASSUME RowsSoFar, NEW offset, Alignable(frame, offset),
         NEW i \in DOMAIN frame.rows, NEW j \in DOMAIN known.rows,
         Bare(frame.rows[i]) = Bare(known.rows[j]),
         frame.rows[i].close_time + offset <= Now
  PROVE  Counterpart(frame, i, offset) = Counterpart(known, j, offset)
<1>1. /\ history \in History /\ Shows(frame, Passing) /\ Shows(known, KnownPassing)
      /\ Passing \in SUBSET DOMAIN history.rows /\ KnownPassing \in SUBSET DOMAIN history.rows
  BY PassingRows DEF RowsSoFar
<1>2. Alignable(known, offset)
  BY KnownIsAlignable
<1> DEFINE at == frame.rows[i].close_time + offset
<1>3. at = known.rows[j].close_time + offset /\ at <= Now
  BY <1>1, SameCells
<1> HIDE DEF at
<1>4. CASE \E k \in DOMAIN frame.rows : frame.rows[k].close_time = at
  <2>1. PICK k \in DOMAIN frame.rows : frame.rows[k].close_time = at
    BY <1>4
  <2>2. frame.rows[k].close_time # Null
    BY DEF Alignable, Keyed, CloseTimes
  <2>3. PICK l \in DOMAIN known.rows : Bare(frame.rows[k]) = Bare(known.rows[l])
    BY <1>3, <2>1, <2>2, KnownRows
  <2>4. known.rows[l].close_time = at /\ known.rows[l].close = frame.rows[k].close
    BY <1>1, <2>1, <2>3, SameCells
  <2>5. Counterpart(frame, i, offset) = frame.rows[k].close
    BY <1>1, <2>1, CounterpartIs DEF at
  <2>6. Counterpart(known, j, offset) = known.rows[l].close
    BY <1>1, <1>2, <1>3, <2>4, CounterpartIs
  <2> QED
    BY <2>4, <2>5, <2>6
<1>5. CASE ~\E k \in DOMAIN frame.rows : frame.rows[k].close_time = at
  <2>1. \A l \in DOMAIN known.rows : known.rows[l].close_time # at
    <3> SUFFICES ASSUME NEW l \in DOMAIN known.rows, known.rows[l].close_time = at PROVE FALSE
      OBVIOUS
    <3>1. PICK k \in DOMAIN frame.rows : Bare(frame.rows[k]) = Bare(known.rows[l])
      BY KnownRows
    <3>2. frame.rows[k].close_time = at
      BY <1>1, <3>1, SameCells
    <3> QED
      BY <1>5, <3>2
  <2>2. Counterpart(frame, i, offset) = Null
    BY <1>1, <1>5, CounterpartIs DEF at
  <2>3. Counterpart(known, j, offset) = Null
    BY <1>1, <1>2, <1>3, <2>1, CounterpartIs
  <2> QED
    BY <2>2, <2>3
<1> QED
  BY <1>4, <1>5

(* What was known is how the frame begins.                                 *)
KnownIsThePrefix ==
  /\ \A k \in DOMAIN known.rows : k \in DOMAIN frame.rows /\ Bare(frame.rows[k]) = Bare(known.rows[k])
  /\ \A k \in DOMAIN frame.rows : frame.rows[k].close_time <= Now => k \in DOMAIN known.rows

(* On a total grid it is: rows that close later come later, so as many     *)
(* come before a row among what was known as in the frame.                 *)
LEMMA KnownIsFirst ==
  ASSUME RowsSoFar, NEW horizon \in Nat, Alignable(frame, horizon),
         NEW cadence \in Nat \ {0}, cadence <= horizon, TotalGrid(frame, cadence)
  PROVE  KnownIsThePrefix
<1>1. /\ history \in History /\ Shows(frame, Passing) /\ Shows(known, KnownPassing)
      /\ Passing \in SUBSET DOMAIN history.rows /\ KnownPassing \in SUBSET DOMAIN history.rows
      /\ KnownPassing \in SUBSET Passing
  BY PassingRows DEF RowsSoFar, KnownPassing
<1>2. PICK e, n : /\ Lists(e, n, Passing)
                  /\ IsList(frame.rows, n)
                  /\ \A k \in 1 .. n : IsRow(frame.rows[k], e[k])
  BY <1>1 DEF Shows
<1>3. PICK d, m : /\ Lists(d, m, KnownPassing)
                  /\ IsList(known.rows, m)
                  /\ \A k \in 1 .. m : IsRow(known.rows[k], d[k])
  BY <1>1 DEF Shows
<1>4. DOMAIN frame.rows = 1 .. n /\ DOMAIN known.rows = 1 .. m /\ n \in Nat /\ m \in Nat
  BY <1>2, <1>3 DEF IsList
<1>5. Passing \in SUBSET Int /\ KnownPassing \in SUBSET Int
  BY <1>1, HistoryRows
<1>6. ASSUME NEW k \in 1 .. n
      PROVE  /\ e[k] \in Passing /\ e[k] \in Int
             /\ frame.rows[k].close_time = history.rows[e[k]].close_time
             /\ Bare(frame.rows[k]) = history.rows[e[k]]
             /\ frame.rows[k].close_time \in Int
             /\ frame.rows[k].close_time # Null
  <2>1. e[k] \in Passing /\ IsRow(frame.rows[k], e[k])
    BY <1>2, ListedAre
  <2>2. e[k] \in DOMAIN history.rows /\ e[k] \in Int
    BY <1>1, <1>5, <2>1
  <2>3. frame.rows[k].close_time \in Int64
    BY <1>1, <1>4, ShiftsAreExact
  <2>4. frame.rows[k].close_time # Null
    BY <1>4 DEF Alignable, Keyed, CloseTimes
  <2> QED
    BY <1>1, <2>1, <2>2, <2>3, <2>4, ShownRow DEF Int64
(* The later of two rows closes later.                                     *)
<1>7. ASSUME NEW k \in 1 .. n, NEW l \in 1 .. n, k < l
      PROVE  frame.rows[k].close_time < frame.rows[l].close_time
  <2>1. l - k \in Nat \ {0} /\ k + (l - k) = l
    BY <1>4, <1>7
  <2>2. PICK p \in Nat \ {0} : k + p = l
    BY <2>1
  <2>3. frame.rows[k + p].close_time = frame.rows[k].close_time + p * cadence
    <3>1. k \in DOMAIN frame.rows /\ k + p \in DOMAIN frame.rows /\ p \in Nat
      BY <1>4, <2>2
    <3> QED
      BY <1>1, <3>1, GridTimes
  <2>4. p * cadence \in Int /\ p * cadence > 0
    OBVIOUS
  <2> QED
    BY <1>6, <2>2, <2>3, <2>4
<1>8. ASSUME NEW j \in KnownPassing PROVE Before(KnownPassing, j) = Before(Passing, j)
  <2>1. PICK q \in 1 .. n : e[q] = j
    BY <1>1, <1>2, ListedAre
  <2>2. frame.rows[q].close_time <= Now
    BY <1>6, <2>1 DEF KnownPassing
  <2>3. ASSUME NEW i \in Passing, i < j PROVE i \in KnownPassing
    <3>1. PICK p \in 1 .. n : e[p] = i
      BY <1>2, ListedAre
    <3>2. p < q
      <4>1. p # q /\ p \in Int /\ q \in Int
        BY <1>6, <2>1, <2>3, <3>1
      <4>2. ~(q < p)
        <5> SUFFICES ASSUME q < p PROVE FALSE
          OBVIOUS
        <5>1. e[q] < e[p]
          BY <1>2, ListedAre
        <5> QED
          BY <1>6, <2>1, <2>3, <3>1, <5>1
      <4> QED
        BY <4>1, <4>2
    <3>3. frame.rows[p].close_time < frame.rows[q].close_time
      BY <1>7, <3>2
    <3>4. frame.rows[p].close_time <= Now /\ frame.rows[p].close_time # Null
      BY <1>6, <2>2, <3>3, StepsAssumption
    <3> QED
      BY <1>6, <3>1, <3>4 DEF KnownPassing
  <2> QED
    BY <1>1, <2>3 DEF Before
<1>9. ASSUME NEW k \in 1 .. m PROVE k \in 1 .. n /\ e[k] = d[k]
  <2>1. d[k] \in KnownPassing /\ d[k] \in Passing
    BY <1>1, <1>3, ListedAre
  <2>2. PICK q \in 1 .. n : e[q] = d[k]
    BY <1>2, <2>1, ListedAre
  <2>3. Cardinality(Before(KnownPassing, d[k])) = k - 1
    BY <1>3, <1>5, ListCounts
  <2>4. Cardinality(Before(Passing, e[q])) = q - 1
    BY <1>2, <1>5, ListCounts
  <2>5. k - 1 = q - 1
    BY <1>8, <2>1, <2>2, <2>3, <2>4
  <2>6. k = q
    BY <1>4, <2>5
  <2> QED
    BY <2>2, <2>6
<1>10. ASSUME NEW k \in 1 .. m PROVE k \in 1 .. n /\ Bare(frame.rows[k]) = Bare(known.rows[k])
  <2>1. d[k] \in DOMAIN history.rows /\ IsRow(known.rows[k], d[k])
    BY <1>1, <1>3, ListedAre
  <2>2. Bare(known.rows[k]) = history.rows[d[k]]
    BY <1>1, <2>1, ShownRow
  <2> QED
    BY <1>6, <1>9, <2>2
<1>11. ASSUME NEW k \in 1 .. n, frame.rows[k].close_time <= Now PROVE k \in 1 .. m
  <2>1. e[k] \in KnownPassing
    BY <1>6, <1>11 DEF KnownPassing
  <2>2. PICK q \in 1 .. m : d[q] = e[k]
    BY <1>3, <2>1, ListedAre
  <2>3. q \in 1 .. n /\ e[q] = e[k]
    BY <1>9, <2>2
  <2>4. ~(q < k) /\ ~(k < q)
    <3>1. q < k => e[q] < e[k]
      BY <1>2, <2>3, ListedAre
    <3>2. k < q => e[k] < e[q]
      BY <1>2, <2>3, ListedAre
    <3> QED
      BY <1>6, <2>3, <3>1, <3>2
  <2> QED
    BY <1>4, <2>3, <2>4
<1> QED
  BY <1>4, <1>10, <1>11 DEF KnownIsThePrefix

(* So what was known is a total grid too.                                  *)
LEMMA KnownIsTotal ==
  ASSUME RowsSoFar, NEW cadence, KnownIsThePrefix, TotalGrid(frame, cadence)
  PROVE  TotalGrid(known, cadence)
<1>1. /\ history \in History /\ Shows(frame, Passing) /\ Shows(known, KnownPassing)
      /\ Passing \in SUBSET DOMAIN history.rows /\ KnownPassing \in SUBSET DOMAIN history.rows
  BY PassingRows DEF RowsSoFar
<1>2. PICK n \in Nat : DOMAIN frame.rows = 1 .. n /\ Len(frame.rows) = n
  <2>1. PICK e, n : Lists(e, n, Passing) /\ IsList(frame.rows, n)
    BY <1>1 DEF Shows
  <2> QED
    BY <2>1 DEF IsList
<1>3. PICK m \in Nat : DOMAIN known.rows = 1 .. m /\ Len(known.rows) = m
  <2>1. PICK e, m : Lists(e, m, KnownPassing) /\ IsList(known.rows, m)
    BY <1>1 DEF Shows
  <2> QED
    BY <2>1 DEF IsList
<1>4. ASSUME NEW k \in 1 .. m
      PROVE  k \in 1 .. n /\ frame.rows[k].close_time = known.rows[k].close_time
  <2>1. k \in DOMAIN frame.rows /\ Bare(frame.rows[k]) = Bare(known.rows[k])
    BY <1>3 DEF KnownIsThePrefix
  <2> QED
    BY <1>1, <1>2, <1>3, <2>1, SameCells
<1>5. ASSUME NEW k \in 2 .. m
      PROVE  Wrapped(known.rows[k].close_time - known.rows[k - 1].close_time) = cadence
  <2>1. k \in 1 .. m /\ k - 1 \in 1 .. m /\ k \in 2 .. n
    BY <1>4
  <2> QED
    BY <1>2, <1>4, <2>1 DEF TotalGrid
<1> QED
  BY <1>3, <1>5 DEF TotalGrid

(* A horizon is so many cadences.                                          *)
CadencesTo(n, cadence, horizon) ==
  /\ horizon \in Nat /\ cadence \in Nat \ {0} /\ cadence <= horizon
  /\ n \in Nat /\ n * cadence = horizon

(* The bars an extremum is of were known when the last of them had closed. *)
LEMMA ExtremaAgree ==
  ASSUME RowsSoFar, NEW horizon, NEW cadence, NEW n, CadencesTo(n, cadence, horizon),
         Alignable(frame, horizon), TotalGrid(frame, cadence),
         NEW i \in DOMAIN frame.rows, NEW j \in DOMAIN known.rows,
         Bare(frame.rows[i]) = Bare(known.rows[j]),
         frame.rows[i].close_time + horizon <= Now
  PROVE  /\ ForwardExtremum(frame, i, n, "high", TRUE) = ForwardExtremum(known, j, n, "high", TRUE)
         /\ ForwardExtremum(frame, i, n, "low", FALSE) = ForwardExtremum(known, j, n, "low", FALSE)
<1>0. /\ horizon \in Nat /\ cadence \in Nat \ {0} /\ cadence <= horizon
      /\ n \in Nat /\ n * cadence = horizon
  BY DEF CadencesTo
<1>1. /\ history \in History /\ Shows(frame, Passing) /\ Shows(known, KnownPassing)
      /\ Passing \in SUBSET DOMAIN history.rows /\ KnownPassing \in SUBSET DOMAIN history.rows
  BY PassingRows DEF RowsSoFar
<1>2. KnownIsThePrefix
  BY <1>0, KnownIsFirst
<1>3. j = i
  <2>1. j \in DOMAIN frame.rows /\ Bare(frame.rows[j]) = Bare(known.rows[j])
    BY <1>2 DEF KnownIsThePrefix
  <2>2. frame.rows[i].close_time = known.rows[j].close_time
        /\ frame.rows[j].close_time = known.rows[j].close_time
    BY <1>1, <2>1, SameCells
  <2> QED
    BY <2>1, <2>2 DEF Alignable, Keyed
<1> DEFINE interval == i + 1 .. i + n
<1>4. PICK r \in Nat : DOMAIN frame.rows = 1 .. r
  <2>1. PICK e, r : Lists(e, r, Passing) /\ IsList(frame.rows, r)
    BY <1>1 DEF Shows
  <2> QED
    BY <2>1 DEF IsList
<1>5. interval \subseteq DOMAIN frame.rows <=> interval \subseteq DOMAIN known.rows
  <2>1. ASSUME interval \subseteq DOMAIN frame.rows, NEW k \in interval PROVE k \in DOMAIN known.rows
    <3>1. PICK p \in 1 .. n : k = i + p
      <4>1. k - i \in 1 .. n /\ k = i + (k - i)
        BY <1>0, <1>4, SMTT(60)
      <4> QED
        BY <4>1
    <3>2. p \in Nat /\ i + p \in DOMAIN frame.rows
      BY <1>0, <2>1, <3>1
    <3>3. frame.rows[i + p].close_time = frame.rows[i].close_time + p * cadence
      BY <1>0, <1>1, <3>2, GridTimes
    <3>4. p * cadence \in Int /\ p * cadence <= n * cadence
      BY <1>0
    <3>5. frame.rows[i].close_time \in Int
      <4>1. frame.rows[i].close_time \in Int64
        BY <1>0, <1>1, ShiftsAreExact
      <4> QED
        BY <4>1 DEF Int64
    <3>6. frame.rows[k].close_time <= Now
      BY <1>0, <3>1, <3>3, <3>4, <3>5, StepsAssumption
    <3> QED
      BY <1>2, <2>1, <3>6 DEF KnownIsThePrefix
  <2>2. ASSUME interval \subseteq DOMAIN known.rows PROVE interval \subseteq DOMAIN frame.rows
    BY <1>2, <2>2 DEF KnownIsThePrefix
  <2> QED
    BY <2>1, <2>2
<1>6. ASSUME interval \subseteq DOMAIN known.rows, NEW k \in interval
      PROVE  frame.rows[k].high = known.rows[k].high /\ frame.rows[k].low = known.rows[k].low
  <2>1. k \in DOMAIN known.rows /\ k \in DOMAIN frame.rows /\ Bare(frame.rows[k]) = Bare(known.rows[k])
    BY <1>2, <1>6 DEF KnownIsThePrefix
  <2> QED
    BY <1>1, <2>1, SameCells
<1> HIDE DEF interval
<1>7. CASE ~(interval \subseteq DOMAIN known.rows)
  BY <1>3, <1>5, <1>7 DEF ForwardExtremum, Following, interval
<1>8. CASE interval \subseteq DOMAIN known.rows
  <2>1. \A k \in interval : Masked(frame.rows[k]) <=> Masked(known.rows[k])
    BY <1>6, <1>8 DEF Masked
  <2>2. {frame.rows[k].high : k \in interval} = {known.rows[k].high : k \in interval}
    BY <1>6, <1>8
  <2>3. {frame.rows[k].low : k \in interval} = {known.rows[k].low : k \in interval}
    BY <1>6, <1>8
  <2>4. (\E k \in interval : Masked(frame.rows[k])) <=> (\E k \in interval : Masked(known.rows[k]))
    BY <2>1
  <2>5. ForwardExtremum(frame, i, n, "high", TRUE) = ForwardExtremum(known, i, n, "high", TRUE)
    <3> DEFINE best(prices) == CHOOSE x \in prices : \A y \in prices : x >= y
    <3>1. ForwardExtremum(frame, i, n, "high", TRUE) =
            IF ~(interval \subseteq DOMAIN frame.rows) \/ (\E k \in interval : Masked(frame.rows[k]))
            THEN Null ELSE best({frame.rows[k].high : k \in interval})
      BY DEF ForwardExtremum, Following, interval
    <3>2. ForwardExtremum(known, i, n, "high", TRUE) =
            IF ~(interval \subseteq DOMAIN known.rows) \/ (\E k \in interval : Masked(known.rows[k]))
            THEN Null ELSE best({known.rows[k].high : k \in interval})
      BY DEF ForwardExtremum, Following, interval
    <3>3. best({frame.rows[k].high : k \in interval}) = best({known.rows[k].high : k \in interval})
      BY <2>2
    <3> HIDE DEF best
    <3>4. interval \subseteq DOMAIN frame.rows
      BY <1>5, <1>8
    <3>5. CASE \E k \in interval : Masked(frame.rows[k])
      BY <2>4, <3>1, <3>2, <3>5
    <3>6. CASE ~\E k \in interval : Masked(frame.rows[k])
      <4>1. ForwardExtremum(frame, i, n, "high", TRUE) = best({frame.rows[k].high : k \in interval})
        BY <3>1, <3>4, <3>6
      <4>2. ForwardExtremum(known, i, n, "high", TRUE) = best({known.rows[k].high : k \in interval})
        BY <1>8, <2>4, <3>2, <3>6
      <4> QED
        BY <3>3, <4>1, <4>2
    <3> QED
      BY <3>5, <3>6
  <2>6. ForwardExtremum(frame, i, n, "low", FALSE) = ForwardExtremum(known, i, n, "low", FALSE)
    <3> DEFINE best(prices) == CHOOSE x \in prices : \A y \in prices : x <= y
    <3>1. ForwardExtremum(frame, i, n, "low", FALSE) =
            IF ~(interval \subseteq DOMAIN frame.rows) \/ (\E k \in interval : Masked(frame.rows[k]))
            THEN Null ELSE best({frame.rows[k].low : k \in interval})
      BY DEF ForwardExtremum, Following, interval
    <3>2. ForwardExtremum(known, i, n, "low", FALSE) =
            IF ~(interval \subseteq DOMAIN known.rows) \/ (\E k \in interval : Masked(known.rows[k]))
            THEN Null ELSE best({known.rows[k].low : k \in interval})
      BY DEF ForwardExtremum, Following, interval
    <3>3. best({frame.rows[k].low : k \in interval}) = best({known.rows[k].low : k \in interval})
      BY <2>3
    <3> HIDE DEF best
    <3>4. interval \subseteq DOMAIN frame.rows
      BY <1>5, <1>8
    <3>5. CASE \E k \in interval : Masked(frame.rows[k])
      BY <2>4, <3>1, <3>2, <3>5
    <3>6. CASE ~\E k \in interval : Masked(frame.rows[k])
      <4>1. ForwardExtremum(frame, i, n, "low", FALSE) = best({frame.rows[k].low : k \in interval})
        BY <3>1, <3>4, <3>6
      <4>2. ForwardExtremum(known, i, n, "low", FALSE) = best({known.rows[k].low : k \in interval})
        BY <1>8, <2>4, <3>2, <3>6
      <4> QED
        BY <3>3, <4>1, <4>2
    <3> QED
      BY <3>5, <3>6
  <2> QED
    BY <1>3, <2>5, <2>6
<1> QED
  BY <1>7, <1>8

-----------------------------------------------------------------------------
(* Columns that are added together                                         *)

(* The columns a call adds, which are added together or not at all.        *)
BackwardGroup(c) == {Column("backward", c)}

(* A forward return, and when it may be used.                              *)
ForwardGroup(c) == {Column("forward", c), Column("forward_available_at", c)}

(* Two excursions, and when they may be used.                              *)
ExcursionGroup(c) == {Column("mfe", c), Column("mae", c), Column("excursion_available_at", c)}

(* What a join adds.                                                       *)
AnnotationGroup == {FlagsColumn, OverlapColumn}

(* The columns of one call.                                                *)
IsGroup(G) ==
  \/ G = AnnotationGroup
  \/ \E c \in ReturnCall : G = BackwardGroup(c) \/ G = ForwardGroup(c) \/ G = ExcursionGroup(c)

(* Of each group, all were added or none.                                  *)
Together(added) == \A G : IsGroup(G) => G \cap added = {} \/ G \subseteq added

(* Two groups share no column.                                             *)
LEMMA GroupsAreApart ==
  ASSUME NEW G, NEW H, IsGroup(G), IsGroup(H), NEW x \in G, x \in H
  PROVE  G = H
<1> DEFINE Of(K, c) == K = BackwardGroup(c) \/ K = ForwardGroup(c) \/ K = ExcursionGroup(c)
<1>1. ASSUME NEW c \in ReturnCall, Of(G, c) PROVE G # AnnotationGroup /\ x \notin AnnotationGroup
  <2>1. x \notin AnnotationGroup
    BY <1>1, ColumnsDiffer DEF BackwardGroup, ForwardGroup, ExcursionGroup, AnnotationGroup
  <2> QED
    BY <2>1
<1>2. ASSUME NEW c \in ReturnCall, Of(H, c) PROVE H # AnnotationGroup /\ x \notin AnnotationGroup
  <2>1. x \notin AnnotationGroup
    BY <1>2, ColumnsDiffer DEF BackwardGroup, ForwardGroup, ExcursionGroup, AnnotationGroup
  <2> QED
    BY <2>1
<1>3. ASSUME NEW c \in ReturnCall, Of(G, c), NEW d \in ReturnCall, Of(H, d) PROVE G = H
  <2>1. c.method = d.method /\ c.horizon = d.horizon
    BY <1>3, ColumnsDiffer DEF BackwardGroup, ForwardGroup, ExcursionGroup
  <2>2. /\ BackwardGroup(c) = BackwardGroup(d) /\ ForwardGroup(c) = ForwardGroup(d)
        /\ ExcursionGroup(c) = ExcursionGroup(d)
    BY <2>1 DEF BackwardGroup, ForwardGroup, ExcursionGroup, Column
  <2>3. CASE G = BackwardGroup(c)
    BY <1>3, <2>2, <2>3, ColumnsDiffer DEF BackwardGroup, ForwardGroup, ExcursionGroup
  <2>4. CASE G = ForwardGroup(c)
    BY <1>3, <2>2, <2>4, ColumnsDiffer DEF BackwardGroup, ForwardGroup, ExcursionGroup
  <2>5. CASE G = ExcursionGroup(c)
    BY <1>3, <2>2, <2>5, ColumnsDiffer DEF BackwardGroup, ForwardGroup, ExcursionGroup
  <2> QED
    BY <1>3, <2>3, <2>4, <2>5
<1>4. G = AnnotationGroup \/ \E c \in ReturnCall : Of(G, c)
  BY DEF IsGroup
<1>5. H = AnnotationGroup \/ \E c \in ReturnCall : Of(H, c)
  BY DEF IsGroup
<1> HIDE DEF Of
<1> QED
  BY <1>1, <1>2, <1>3, <1>4, <1>5

(* So a group may be added.                                                *)
LEMMA TogetherStays ==
  ASSUME NEW added, Together(added), NEW G, IsGroup(G)
  PROVE  Together(added \cup G)
<1> SUFFICES ASSUME NEW H, IsGroup(H) PROVE H \cap (added \cup G) = {} \/ H \subseteq added \cup G
  BY DEF Together
<1>1. H \cap added = {} \/ H \subseteq added
  BY DEF Together
<1>2. H \cap G = {} \/ H = G
  BY GroupsAreApart
<1> QED
  BY <1>1, <1>2

(* What a call computes for a column is the same from the frame and from   *)
(* what was known, where it was available by Now.                          *)
AgreeByNow(G, values, knownValues) ==
  \A column \in G, i \in DOMAIN frame.rows, j \in DOMAIN known.rows :
    /\ Bare(frame.rows[i]) = Bare(known.rows[j])
    /\ AvailableAt(column, frame.rows[i].close_time) <= Now
    => values[column][i] = knownValues[column][j]

(* What NoLookAhead says of a step.                                        *)
ColumnsAgree ==
  \A column \in frame'.added \ frame.added :
    /\ column \in known'.added
    /\ column \notin known.added =>
         \A i \in DOMAIN frame'.rows, j \in DOMAIN known'.rows :
           SameByNow(column, frame'.rows[i], known'.rows[j])

(* A column added to a frame leaves its rows' own cells.                   *)
LEMMA BareStays ==
  ASSUME history \in History, NEW f, NEW S \in SUBSET DOMAIN history.rows, Shows(f, S),
         NEW values, NEW g, g = WithColumns(f, values), NEW i \in DOMAIN g.rows
  PROVE  /\ i \in DOMAIN f.rows
         /\ Bare(g.rows[i]) = Bare(f.rows[i])
         /\ g.rows[i].close_time = f.rows[i].close_time
<1>1. DOMAIN g.rows = DOMAIN f.rows /\ Widens(g, f, values)
  BY WithColumnsShows
<1>2. g.rows[i] = [f.rows[i] EXCEPT !.added = g.rows[i].added]
  BY <1>1 DEF Widens
<1>3. PICK j \in S : IsRow(f.rows[i], j)
  BY <1>1, ShownRows
<1>4. IsRow(g.rows[i], j) /\ j \in DOMAIN history.rows
  BY <1>2, <1>3 DEF IsRow
<1> QED
  BY <1>1, <1>3, <1>4, ShownRow

(* A call that computes the same of both frames does not look ahead: if    *)
(* what was known had a column of the group it had all of it.              *)
LEMMA AgreementLooksNotAhead ==
  ASSUME RowsSoFar, Together(known.added), NEW G, IsGroup(G),
         NEW values, DOMAIN values = G, NEW knownValues, DOMAIN knownValues = G,
         AgreeByNow(G, values, knownValues),
         AbsentColumns(frame, G), frame' = WithColumns(frame, values),
         known' = IF AbsentColumns(known, G) THEN WithColumns(known, knownValues) ELSE known
  PROVE  ColumnsAgree
<1>1. /\ history \in History /\ Shows(frame, Passing) /\ Shows(known, KnownPassing)
      /\ Passing \in SUBSET DOMAIN history.rows /\ KnownPassing \in SUBSET DOMAIN history.rows
  BY PassingRows DEF RowsSoFar
<1>2. frame'.added = frame.added \cup G
  BY <1>1, WithColumnsShows
<1>3. CASE AbsentColumns(known, G)
  <2>1. known' = WithColumns(known, knownValues)
    BY <1>3
  <2>2. known'.added = known.added \cup G
    BY <1>1, <2>1, WithColumnsShows
  <2>3. ASSUME NEW column \in G, NEW i \in DOMAIN frame'.rows, NEW j \in DOMAIN known'.rows
        PROVE  SameByNow(column, frame'.rows[i], known'.rows[j])
    <3>1. PICK f, g : f = frame' /\ g = known'
      OBVIOUS
    <3>2. /\ i \in DOMAIN frame.rows /\ Bare(f.rows[i]) = Bare(frame.rows[i])
          /\ f.rows[i].close_time = frame.rows[i].close_time
      BY <1>1, <3>1, BareStays
    <3>3. j \in DOMAIN known.rows /\ Bare(g.rows[j]) = Bare(known.rows[j])
      BY <1>1, <2>1, <3>1, BareStays
    <3>4. f.rows[i].added[column] = values[column][i]
      <4>1. RowGains(f, frame, values, i)
        BY <1>1, <3>1, <3>2, RowWidens
      <4> QED
        BY <4>1 DEF RowGains
    <3>5. g.rows[j].added[column] = knownValues[column][j]
      <4>1. RowGains(g, known, knownValues, j)
        BY <1>1, <2>1, <3>1, <3>3, RowWidens
      <4> QED
        BY <4>1 DEF RowGains
    <3>6. SameByNow(column, f.rows[i], g.rows[j])
      BY <3>2, <3>3, <3>4, <3>5 DEF SameByNow, AgreeByNow
    <3> QED
      BY <3>1, <3>6
  <2> QED
    BY <1>2, <2>2, <2>3 DEF ColumnsAgree
<1>4. CASE ~AbsentColumns(known, G)
  <2>1. G \subseteq known.added /\ known' = known
    BY <1>4 DEF AbsentColumns, Together
  <2> QED
    BY <1>2, <2>1 DEF ColumnsAgree
<1> QED
  BY <1>3, <1>4

-----------------------------------------------------------------------------
(* What was known gives the same values                                    *)

(* An annotation is a matter of the window's bounds.                       *)
LEMMA AnnotationsAgree ==
  ASSUME RowsSoFar, NEW annotations,
         NEW values, values = Annotations(frame, annotations),
         NEW knownValues, knownValues = Annotations(known, annotations)
  PROVE  /\ DOMAIN values = AnnotationGroup /\ DOMAIN knownValues = AnnotationGroup
         /\ AgreeByNow(AnnotationGroup, values, knownValues)
<1>1. /\ history \in History /\ Shows(frame, Passing) /\ Shows(known, KnownPassing)
      /\ Passing \in SUBSET DOMAIN history.rows /\ KnownPassing \in SUBSET DOMAIN history.rows
  BY PassingRows DEF RowsSoFar
<1>2. DOMAIN values = AnnotationGroup /\ DOMAIN knownValues = AnnotationGroup
  BY DEF Annotations, AnnotationGroup
<1>3. ASSUME NEW column \in AnnotationGroup, NEW i \in DOMAIN frame.rows, NEW j \in DOMAIN known.rows,
             Bare(frame.rows[i]) = Bare(known.rows[j])
      PROVE  values[column][i] = knownValues[column][j]
  <2>1. frame.rows[i].open_time = known.rows[j].open_time
        /\ frame.rows[i].close_time = known.rows[j].close_time
    BY <1>1, <1>3, SameCells
  <2>2. \A start, end : Touches(frame.rows[i], start, end) <=> Touches(known.rows[j], start, end)
    BY <2>1 DEF Touches
  <2>3. Flags(frame.rows[i], annotations) = Flags(known.rows[j], annotations)
    BY <2>2 DEF Flags
  <2>4. \A span : Overlap(frame.rows[i], span) = Overlap(known.rows[j], span)
    BY <2>1, <2>2 DEF Overlap
  <2>5. OverlapSeconds(frame.rows[i], annotations) = OverlapSeconds(known.rows[j], annotations)
    <3> DEFINE spans == Merged(annotations)
    <3>1. [k \in DOMAIN spans |-> Overlap(frame.rows[i], spans[k])] =
            [k \in DOMAIN spans |-> Overlap(known.rows[j], spans[k])]
      BY <2>4
    <3> QED
      BY <3>1 DEF OverlapSeconds
  <2>6. values[column][i] = (IF column = FlagsColumn THEN Flags(frame.rows[i], annotations)
                                                     ELSE OverlapSeconds(frame.rows[i], annotations))
    BY DEF Annotations, AnnotationGroup
  <2>7. knownValues[column][j] = (IF column = FlagsColumn THEN Flags(known.rows[j], annotations)
                                                     ELSE OverlapSeconds(known.rows[j], annotations))
    BY DEF Annotations, AnnotationGroup
  <2> QED
    BY <2>3, <2>5, <2>6, <2>7
<1> QED
  BY <1>2, <1>3 DEF AgreeByNow

(* When a value of a column may be used.                                   *)
LEMMA Kinds ==
  ASSUME NEW kind, NEW c, NEW t
  PROVE  AvailableAt(Column(kind, c), t) =
           IF kind \in {"forward", "mfe", "mae"} THEN t + c.horizon ELSE t
BY DEF AvailableAt, Column

(* The values of a backward return, one per row.                           *)
HasBackward(f, d, values) ==
  \A i \in DOMAIN f.rows : values[Column("backward", d)][i] =
    ReturnOf(f.rows[i].close, Counterpart(f, i, -d.horizon), d.method)

(* The close a horizon before was known when the row closed.               *)
LEMMA BackwardsAgree ==
  ASSUME RowsSoFar, NEW d \in ReturnCall, Alignable(frame, -d.horizon),
         NEW values, HasBackward(frame, d, values),
         NEW knownValues, HasBackward(known, d, knownValues)
  PROVE  AgreeByNow(BackwardGroup(d), values, knownValues)
<1>1. /\ history \in History /\ Shows(frame, Passing) /\ Shows(known, KnownPassing)
      /\ Passing \in SUBSET DOMAIN history.rows /\ KnownPassing \in SUBSET DOMAIN history.rows
  BY PassingRows DEF RowsSoFar
<1> DEFINE column == Column("backward", d)
<1>2. ASSUME NEW i \in DOMAIN frame.rows, NEW j \in DOMAIN known.rows,
             Bare(frame.rows[i]) = Bare(known.rows[j]),
             AvailableAt(column, frame.rows[i].close_time) <= Now
      PROVE  values[column][i] = knownValues[column][j]
  <2>1. frame.rows[i].close = known.rows[j].close
    BY <1>1, <1>2, SameCells
  <2>2. frame.rows[i].close_time <= Now
    BY <1>2, Kinds
  <2>3. frame.rows[i].close_time \in Int
    <3>1. frame.rows[i].close_time \in Int64
      BY <1>1, ShiftsAreExact
    <3> QED
      BY <3>1 DEF Int64
  <2>4. frame.rows[i].close_time + (-d.horizon) <= Now
    BY <2>2, <2>3, StepsAssumption
  <2>5. Counterpart(frame, i, -d.horizon) = Counterpart(known, j, -d.horizon)
    BY <1>2, <2>4, CounterpartsAgree
  <2> QED
    BY <2>1, <2>5 DEF HasBackward
<1> QED
  BY <1>2 DEF AgreeByNow, BackwardGroup

(* When each value may be used, one per row.                               *)
HasAvailable(f, d, values, kind) ==
  \A i \in DOMAIN f.rows : values[Column(kind, d)][i] = Shifted(f.rows[i], d.horizon)

(* That is a matter of the row's close time.                               *)
LEMMA AvailabilityAgrees ==
  ASSUME RowsSoFar, NEW d, NEW kind, NEW values, HasAvailable(frame, d, values, kind),
         NEW knownValues, HasAvailable(known, d, knownValues, kind),
         NEW i \in DOMAIN frame.rows, NEW j \in DOMAIN known.rows,
         Bare(frame.rows[i]) = Bare(known.rows[j])
  PROVE  values[Column(kind, d)][i] = knownValues[Column(kind, d)][j]
<1>1. /\ history \in History /\ Shows(frame, Passing) /\ Shows(known, KnownPassing)
      /\ Passing \in SUBSET DOMAIN history.rows /\ KnownPassing \in SUBSET DOMAIN history.rows
  BY PassingRows DEF RowsSoFar
<1>2. frame.rows[i].close_time = known.rows[j].close_time
  BY <1>1, SameCells
<1> QED
  BY <1>2 DEF HasAvailable, Shifted

(* The close a horizon after was known when the value may be used.         *)
LEMMA ForwardsAgree ==
  ASSUME RowsSoFar, NEW d \in ReturnCall, Alignable(frame, d.horizon),
         NEW values, HasForward(frame, d, values, Column("forward", d)),
         HasAvailable(frame, d, values, "forward_available_at"),
         NEW knownValues, HasForward(known, d, knownValues, Column("forward", d)),
         HasAvailable(known, d, knownValues, "forward_available_at")
  PROVE  AgreeByNow(ForwardGroup(d), values, knownValues)
<1>1. /\ history \in History /\ Shows(frame, Passing) /\ Shows(known, KnownPassing)
      /\ Passing \in SUBSET DOMAIN history.rows /\ KnownPassing \in SUBSET DOMAIN history.rows
  BY PassingRows DEF RowsSoFar
<1> DEFINE column == Column("forward", d)
<1>2. ASSUME NEW i \in DOMAIN frame.rows, NEW j \in DOMAIN known.rows,
             Bare(frame.rows[i]) = Bare(known.rows[j])
      PROVE  /\ AvailableAt(column, frame.rows[i].close_time) <= Now =>
                  values[column][i] = knownValues[column][j]
             /\ values[Column("forward_available_at", d)][i] =
                  knownValues[Column("forward_available_at", d)][j]
  <2>1. frame.rows[i].close = known.rows[j].close
    BY <1>1, <1>2, SameCells
  <2>2. ASSUME AvailableAt(column, frame.rows[i].close_time) <= Now
        PROVE  values[column][i] = knownValues[column][j]
    <3>1. frame.rows[i].close_time + d.horizon <= Now
      BY <2>2, Kinds
    <3>2. Counterpart(frame, i, d.horizon) = Counterpart(known, j, d.horizon)
      BY <1>2, <3>1, CounterpartsAgree
    <3> QED
      BY <2>1, <3>2 DEF HasForward
  <2> QED
    BY <1>2, <2>2, AvailabilityAgrees
<1> QED
  BY <1>2 DEF AgreeByNow, ForwardGroup

(* And every bar in between.                                               *)
LEMMA ExcursionsAgree ==
  ASSUME RowsSoFar, NEW d \in ReturnCall, ResolvableHorizon(d.horizon, d.cadence),
         Alignable(frame, d.horizon), TotalGrid(frame, d.cadence),
         NEW n, n = d.horizon \div d.cadence,
         NEW values, HasExcursions(frame, d, values, n, Column("mfe", d), Column("mae", d)),
         HasAvailable(frame, d, values, "excursion_available_at"),
         NEW knownValues, HasExcursions(known, d, knownValues, n, Column("mfe", d), Column("mae", d)),
         HasAvailable(known, d, knownValues, "excursion_available_at")
  PROVE  AgreeByNow(ExcursionGroup(d), values, knownValues)
<1>1. /\ history \in History /\ Shows(frame, Passing) /\ Shows(known, KnownPassing)
      /\ Passing \in SUBSET DOMAIN history.rows /\ KnownPassing \in SUBSET DOMAIN history.rows
  BY PassingRows DEF RowsSoFar
<1>2. /\ d.horizon \in Nat /\ d.cadence \in Nat \ {0} /\ d.cadence <= d.horizon
      /\ n \in Nat /\ n * d.cadence = d.horizon
  <2>1. PICK h, e : h = d.horizon /\ e = d.cadence
    OBVIOUS
  <2>2. h \in Nat \ {0} /\ e \in Nat \ {0} /\ h % e = 0
    BY <2>1, StepsAssumption DEF ResolvableHorizon
  <2>3. h \div e \in Nat \ {0} /\ (h \div e) * e = h /\ e <= h
    BY <2>2, WholeSteps
  <2> QED
    BY <2>1, <2>2, <2>3
<1> DEFINE favorable == Column("mfe", d)
           adverse == Column("mae", d)
<1>3. ASSUME NEW i \in DOMAIN frame.rows, NEW j \in DOMAIN known.rows,
             Bare(frame.rows[i]) = Bare(known.rows[j])
      PROVE  /\ AvailableAt(favorable, frame.rows[i].close_time) <= Now =>
                  values[favorable][i] = knownValues[favorable][j]
             /\ AvailableAt(adverse, frame.rows[i].close_time) <= Now =>
                  values[adverse][i] = knownValues[adverse][j]
             /\ values[Column("excursion_available_at", d)][i] =
                  knownValues[Column("excursion_available_at", d)][j]
  <2>1. frame.rows[i].close = known.rows[j].close
    BY <1>1, <1>3, SameCells
  <2>2. ASSUME frame.rows[i].close_time + d.horizon <= Now
        PROVE  /\ values[favorable][i] = knownValues[favorable][j]
               /\ values[adverse][i] = knownValues[adverse][j]
    <3>1. /\ ForwardExtremum(frame, i, n, "high", TRUE) = ForwardExtremum(known, j, n, "high", TRUE)
          /\ ForwardExtremum(frame, i, n, "low", FALSE) = ForwardExtremum(known, j, n, "low", FALSE)
      <4>1. CadencesTo(n, d.cadence, d.horizon)
        BY <1>2 DEF CadencesTo
      <4> QED
        BY <1>3, <2>2, <4>1, ExtremaAgree, ZenonT(60)
    <3> QED
      BY <2>1, <3>1 DEF HasExcursions
  <2>3. /\ AvailableAt(favorable, frame.rows[i].close_time) = frame.rows[i].close_time + d.horizon
        /\ AvailableAt(adverse, frame.rows[i].close_time) = frame.rows[i].close_time + d.horizon
    BY Kinds
  <2> QED
    BY <1>3, <2>2, <2>3, AvailabilityAgrees
<1> QED
  BY <1>3 DEF AgreeByNow, ExcursionGroup

(* A step either adds a group of columns to the frame, the same to what    *)
(* was known, or adds none to the frame.                                   *)
AddsTogether ==
  \E G, values, knownValues :
    /\ IsGroup(G) /\ DOMAIN values = G /\ DOMAIN knownValues = G
    /\ AgreeByNow(G, values, knownValues)
    /\ AbsentColumns(frame, G)
    /\ frame' = WithColumns(frame, values)
    /\ known' = IF AbsentColumns(known, G) THEN WithColumns(known, knownValues) ELSE known

(* So does a join.                                                         *)
LEMMA AnnotateAdds ==
  ASSUME RowsSoFar, NEW s, AnnotateWindows(s.read, s.file)
  PROVE  frame'.added = frame.added \/ AddsTogether
<1>1. PICK values, knownValues :
        values = Annotations(frame, s.read) /\ knownValues = Annotations(known, s.read)
  OBVIOUS
<1>2. CASE frame' = frame
  BY <1>2
<1>3. CASE frame' # frame
  <2>1. /\ frame' = WithColumns(frame, values)
        /\ AbsentColumns(frame, AnnotationGroup)
        /\ Bounded(frame) /\ s.read.usable
    BY <1>1, <1>3 DEF AnnotateWindows, Compose, Call, AnnotationGroup
  <2>2. Bounded(known)
    BY <2>1 DEF RowsSoFar, Shows, Bounded
  <2>3. known' = IF AbsentColumns(known, AnnotationGroup) THEN WithColumns(known, knownValues) ELSE known
    BY <1>1, <2>1, <2>2 DEF AnnotateWindows, Compose, Call, AnnotationGroup
  <2>4. /\ DOMAIN values = AnnotationGroup /\ DOMAIN knownValues = AnnotationGroup
        /\ AgreeByNow(AnnotationGroup, values, knownValues)
    BY <1>1, AnnotationsAgree
  <2> QED
    BY <2>1, <2>3, <2>4 DEF AddsTogether, IsGroup
<1> QED
  BY <1>2, <1>3

(* And each of the calls of returns, where it is accepted of the frame:    *)
(* then it is of what was known, but for columns that are there.           *)
LEMMA BackwardAdds ==
  ASSUME RowsSoFar, NEW d \in ReturnCall, AddBackwardReturns(d)
  PROVE  frame'.added = frame.added \/ AddsTogether
<1> DEFINE column == Column("backward", d)
           Makes(f) == [x \in {column} |-> [i \in DOMAIN f.rows |->
                          ReturnOf(f.rows[i].close, Counterpart(f, i, -d.horizon), d.method)]]
<1>1. PICK values, knownValues : values = Makes(frame) /\ knownValues = Makes(known)
  OBVIOUS
<1>2. CASE frame' = frame
  BY <1>2
<1>3. CASE frame' # frame
  <2>1. /\ frame' = WithColumns(frame, Makes(frame))
        /\ AbsentColumns(frame, {column})
        /\ ResolvableHorizon(d.horizon, d.cadence)
        /\ Alignable(frame, -d.horizon)
    BY <1>3 DEF AddBackwardReturns, Compose, Call
  <2>2. Alignable(known, -d.horizon)
    BY <2>1, KnownIsAlignable
  <2>3. known' = IF AbsentColumns(known, {column}) THEN WithColumns(known, Makes(known)) ELSE known
    BY <2>1, <2>2 DEF AddBackwardReturns, Compose, Call
  <2>4. /\ DOMAIN values = BackwardGroup(d) /\ DOMAIN knownValues = BackwardGroup(d)
        /\ HasBackward(frame, d, values) /\ HasBackward(known, d, knownValues)
    BY <1>1 DEF BackwardGroup, HasBackward
  <2>5. AgreeByNow(BackwardGroup(d), values, knownValues)
    BY <2>1, <2>4, BackwardsAgree
  <2>6. {column} = BackwardGroup(d) /\ IsGroup(BackwardGroup(d))
    BY DEF BackwardGroup, IsGroup
  <2> HIDE DEF column, Makes
  <2> QED
    BY <1>1, <2>1, <2>3, <2>4, <2>5, <2>6 DEF AddsTogether
<1> QED
  BY <1>2, <1>3

(* Of forward returns.                                                     *)
LEMMA ForwardAdds ==
  ASSUME RowsSoFar, NEW d \in ReturnCall, AddForwardReturns(d)
  PROVE  frame'.added = frame.added \/ AddsTogether
<1> DEFINE column == Column("forward", d)
           available == Column("forward_available_at", d)
           Makes(f) == [x \in {column, available} |-> [i \in DOMAIN f.rows |->
                          IF x = column
                          THEN ReturnOf(Counterpart(f, i, d.horizon), f.rows[i].close, d.method)
                          ELSE Shifted(f.rows[i], d.horizon)]]
<1>1. PICK values, knownValues : values = Makes(frame) /\ knownValues = Makes(known)
  OBVIOUS
<1>2. CASE frame' = frame
  BY <1>2
<1>3. CASE frame' # frame
  <2>1. /\ frame' = WithColumns(frame, Makes(frame))
        /\ AbsentColumns(frame, {column, available})
        /\ ResolvableHorizon(d.horizon, d.cadence)
        /\ Alignable(frame, d.horizon)
    BY <1>3 DEF AddForwardReturns, Compose, Call
  <2>2. Alignable(known, d.horizon)
    BY <2>1, KnownIsAlignable
  <2>3. known' = IF AbsentColumns(known, {column, available})
                 THEN WithColumns(known, Makes(known)) ELSE known
    BY <2>1, <2>2 DEF AddForwardReturns, Compose, Call
  <2>4. column # available
    BY ColumnsDiffer
  <2>5. /\ DOMAIN values = ForwardGroup(d) /\ DOMAIN knownValues = ForwardGroup(d)
        /\ HasForward(frame, d, values, column) /\ HasForward(known, d, knownValues, column)
        /\ HasAvailable(frame, d, values, "forward_available_at")
        /\ HasAvailable(known, d, knownValues, "forward_available_at")
    BY <1>1, <2>4 DEF ForwardGroup, HasForward, HasAvailable
  <2>6. AgreeByNow(ForwardGroup(d), values, knownValues)
    BY <2>1, <2>5, ForwardsAgree
  <2>7. {column, available} = ForwardGroup(d) /\ IsGroup(ForwardGroup(d))
    BY DEF ForwardGroup, IsGroup
  <2> HIDE DEF column, available, Makes
  <2> QED
    BY <1>1, <2>1, <2>3, <2>5, <2>6, <2>7 DEF AddsTogether
<1> QED
  BY <1>2, <1>3

(* Of excursions.                                                          *)
LEMMA ExcursionAdds ==
  ASSUME RowsSoFar, NEW d \in ReturnCall, AddForwardExcursions(d)
  PROVE  frame'.added = frame.added \/ AddsTogether
<1> DEFINE favorable == Column("mfe", d)
           adverse == Column("mae", d)
           available == Column("excursion_available_at", d)
           n == d.horizon \div d.cadence
           value(f, i, x) ==
             CASE x = favorable ->
                    ReturnOf(ForwardExtremum(f, i, n, "high", TRUE), f.rows[i].close, d.method)
               [] x = adverse   ->
                    ReturnOf(ForwardExtremum(f, i, n, "low", FALSE), f.rows[i].close, d.method)
               [] x = available -> Shifted(f.rows[i], d.horizon)
           Makes(f) ==
             [x \in {favorable, adverse, available} |-> [i \in DOMAIN f.rows |-> value(f, i, x)]]
<1>1. PICK values, knownValues : values = Makes(frame) /\ knownValues = Makes(known)
  OBVIOUS
<1>2. CASE frame' = frame
  BY <1>2
<1>3. CASE frame' # frame
  <2>1. /\ frame' = WithColumns(frame, Makes(frame))
        /\ AbsentColumns(frame, {favorable, adverse, available})
        /\ ResolvableHorizon(d.horizon, d.cadence)
        /\ Alignable(frame, d.horizon)
        /\ {"high", "low"} \subseteq frame.have
        /\ TotalGrid(frame, d.cadence)
    BY <1>3 DEF AddForwardExcursions, Compose, Call
  <2>2. /\ Alignable(known, d.horizon) /\ {"high", "low"} \subseteq known.have
        /\ TotalGrid(known, d.cadence)
    <3>1. Alignable(known, d.horizon)
      BY <2>1, KnownIsAlignable
    <3>2. {"high", "low"} \subseteq known.have
      BY <2>1 DEF RowsSoFar, Shows
    <3>3. PICK h, e : h = d.horizon /\ e = d.cadence
      OBVIOUS
    <3>4. /\ h \in Nat /\ e \in Nat \ {0} /\ e <= h /\ Alignable(frame, h) /\ TotalGrid(frame, e)
      <4>1. h \in Nat /\ e \in Nat \ {0} /\ h > 0 /\ h % e = 0
        BY <2>1, <3>3, StepsAssumption DEF ResolvableHorizon
      <4>2. ~(h < e)
        <5> SUFFICES ASSUME h < e PROVE FALSE
          OBVIOUS
        <5>1. h % e = h
          BY <4>1, RemainderOfTheSmall
        <5> QED
          BY <4>1, <5>1
      <4> QED
        BY <2>1, <3>3, <4>1, <4>2
    <3>5. KnownIsThePrefix
      BY <3>4, KnownIsFirst
    <3>6. TotalGrid(known, d.cadence)
      BY <2>1, <3>5, KnownIsTotal
    <3> QED
      BY <3>1, <3>2, <3>6
  <2>3. known' = IF AbsentColumns(known, {favorable, adverse, available})
                 THEN WithColumns(known, Makes(known)) ELSE known
    BY <2>1, <2>2 DEF AddForwardExcursions, Compose, Call
  <2>4. favorable # adverse /\ favorable # available /\ adverse # available
    BY ColumnsDiffer
  <2>5. /\ DOMAIN values = ExcursionGroup(d) /\ DOMAIN knownValues = ExcursionGroup(d)
        /\ HasExcursions(frame, d, values, n, favorable, adverse)
        /\ HasExcursions(known, d, knownValues, n, favorable, adverse)
        /\ HasAvailable(frame, d, values, "excursion_available_at")
        /\ HasAvailable(known, d, knownValues, "excursion_available_at")
    <3>1. DOMAIN values = ExcursionGroup(d) /\ DOMAIN knownValues = ExcursionGroup(d)
      BY <1>1 DEF ExcursionGroup
    <3>2. available = Column("excursion_available_at", d)
      OBVIOUS
    <3> HIDE DEF favorable, adverse, available, n
    <3>3. \A f, i :
            /\ value(f, i, favorable) =
                 ReturnOf(ForwardExtremum(f, i, n, "high", TRUE), f.rows[i].close, d.method)
            /\ value(f, i, adverse) =
                 ReturnOf(ForwardExtremum(f, i, n, "low", FALSE), f.rows[i].close, d.method)
            /\ value(f, i, available) = Shifted(f.rows[i], d.horizon)
      BY <2>4
    <3> HIDE DEF value
    <3> QED
      BY <1>1, <3>1, <3>2, <3>3 DEF HasExcursions, HasAvailable
  <2>6. AgreeByNow(ExcursionGroup(d), values, knownValues)
    BY <2>1, <2>5, ExcursionsAgree
  <2>7. {favorable, adverse, available} = ExcursionGroup(d) /\ IsGroup(ExcursionGroup(d))
    BY DEF ExcursionGroup, IsGroup
  <2> HIDE DEF favorable, adverse, available, Makes
  <2> QED
    BY <1>1, <2>1, <2>3, <2>5, <2>6, <2>7 DEF AddsTogether
<1> QED
  BY <1>2, <1>3

(* What a step makes of what was known has the columns of one more group.  *)
LEMMA StepsKeepTogether ==
  ASSUME RowsSoFar, Together(known.added), StepsNext
  PROVE  Together(known'.added)
<1>1. /\ history \in History /\ Shows(known, KnownPassing)
      /\ KnownPassing \in SUBSET DOMAIN history.rows
  BY PassingRows DEF RowsSoFar
<1>2. ASSUME NEW G, IsGroup(G), NEW values, DOMAIN values = G, known' = WithColumns(known, values)
      PROVE  Together(known'.added)
  <2>1. known'.added = known.added \cup G
    BY <1>1, <1>2, WithColumnsShows
  <2> QED
    BY <1>2, <2>1, TogetherStays
<1>3. ASSUME known'.added = known.added PROVE Together(known'.added)
  BY <1>3
<1>4. CASE ApplyQualityPolicy
  <2>1. known' = known \/ \E written \in Policy : Filtered(written)
    BY <1>4, PoliciesDo
  <2>2. ASSUME NEW written \in Policy, Filtered(written) PROVE known'.added = known.added
    <3>1. PICK policy : policy = PolicyFromDict(written)
      OBVIOUS
    <3>2. known' = Without(known, Offending(known, policy, Window)) /\ LegalPolicy(policy)
      BY <2>2, <3>1 DEF Filtered
    <3> QED
      BY <1>1, <3>1, <3>2, FilteredShows
  <2> QED
    BY <1>3, <2>1, <2>2
<1>5. ASSUME NEW file \in SidecarFile, NEW cap \in RowCap, ReadAnnotations(file, cap)
      PROVE  known' = known
  BY <1>5 DEF ReadAnnotations, Call
<1>6. ASSUME NEW s \in Joinable, AnnotateWindows(s.read, s.file) PROVE Together(known'.added)
  <2>1. PICK values : values = Annotations(known, s.read)
    OBVIOUS
  <2>2. known' = known \/ known' = WithColumns(known, values)
    BY <1>6, <2>1 DEF AnnotateWindows, Compose, Call
  <2>3. IsGroup(AnnotationGroup) /\ DOMAIN values = AnnotationGroup
    BY <2>1 DEF IsGroup, AnnotationGroup, Annotations
  <2> QED
    BY <1>2, <1>3, <2>2, <2>3
<1>7. ASSUME NEW s \in Joinable, RefuseSidecar(s.read) PROVE known' = known
  BY <1>7 DEF RefuseSidecar, Call
<1>8. ASSUME NEW d \in ReturnCall, AddBackwardReturns(d) PROVE Together(known'.added)
  <2>1. PICK values : values =
          [x \in {Column("backward", d)} |-> [i \in DOMAIN known.rows |->
             ReturnOf(known.rows[i].close, Counterpart(known, i, -d.horizon), d.method)]]
    OBVIOUS
  <2>2. known' = known \/ known' = WithColumns(known, values)
    BY <1>8, <2>1 DEF AddBackwardReturns, Compose, Call
  <2>3. IsGroup(BackwardGroup(d)) /\ DOMAIN values = BackwardGroup(d)
    BY <2>1 DEF IsGroup, BackwardGroup
  <2> QED
    BY <1>2, <1>3, <2>2, <2>3
<1>9. ASSUME NEW d \in ReturnCall, AddForwardReturns(d) PROVE Together(known'.added)
  <2>1. PICK values : values =
          [x \in {Column("forward", d), Column("forward_available_at", d)} |->
             [i \in DOMAIN known.rows |->
                IF x = Column("forward", d)
                THEN ReturnOf(Counterpart(known, i, d.horizon), known.rows[i].close, d.method)
                ELSE Shifted(known.rows[i], d.horizon)]]
    OBVIOUS
  <2>2. known' = known \/ known' = WithColumns(known, values)
    BY <1>9, <2>1 DEF AddForwardReturns, Compose, Call
  <2>3. IsGroup(ForwardGroup(d)) /\ DOMAIN values = ForwardGroup(d)
    BY <2>1 DEF IsGroup, ForwardGroup
  <2> QED
    BY <1>2, <1>3, <2>2, <2>3
<1>10. ASSUME NEW d \in ReturnCall, AddForwardExcursions(d) PROVE Together(known'.added)
  <2> DEFINE n == d.horizon \div d.cadence
             value(f, i, x) ==
               CASE x = Column("mfe", d) ->
                      ReturnOf(ForwardExtremum(f, i, n, "high", TRUE), f.rows[i].close, d.method)
                 [] x = Column("mae", d) ->
                      ReturnOf(ForwardExtremum(f, i, n, "low", FALSE), f.rows[i].close, d.method)
                 [] x = Column("excursion_available_at", d) -> Shifted(f.rows[i], d.horizon)
  <2>1. PICK values : values =
          [x \in {Column("mfe", d), Column("mae", d), Column("excursion_available_at", d)} |->
             [i \in DOMAIN known.rows |-> value(known, i, x)]]
    OBVIOUS
  <2>2. known' = known \/ known' = WithColumns(known, values)
    BY <1>10, <2>1 DEF AddForwardExcursions, Compose, Call
  <2>3. IsGroup(ExcursionGroup(d)) /\ DOMAIN values = ExcursionGroup(d)
    BY <2>1 DEF IsGroup, ExcursionGroup
  <2> QED
    BY <1>2, <1>3, <2>2, <2>3
<1> QED
  BY <1>3, <1>4, <1>5, <1>6, <1>7, <1>8, <1>9, <1>10 DEF StepsNext

(* No step looks ahead.                                                    *)
LEMMA StepsLookNotAhead ==
  ASSUME RowsSoFar, Together(known.added), StepsNext
  PROVE  ColumnsAgree
<1>1. frame'.added = frame.added \/ AddsTogether
  <2>1. /\ history \in History /\ Shows(frame, Passing) /\ Passing \in SUBSET DOMAIN history.rows
    BY PassingRows DEF RowsSoFar
  <2>2. CASE ApplyQualityPolicy
    <3>1. ASSUME NEW written \in Policy, Filtered(written) PROVE frame'.added = frame.added
      <4>1. PICK policy : policy = PolicyFromDict(written)
        OBVIOUS
      <4>2. frame' = Without(frame, Offending(frame, policy, Window)) /\ LegalPolicy(policy)
        BY <3>1, <4>1 DEF Filtered
      <4> QED
        BY <2>1, <4>1, <4>2, FilteredShows
    <3> QED
      BY <2>2, <3>1, PoliciesDo
  <2>3. ASSUME NEW file \in SidecarFile, NEW cap \in RowCap, ReadAnnotations(file, cap)
        PROVE  frame' = frame
    BY <2>3 DEF ReadAnnotations, Call
  <2>4. ASSUME NEW s \in Joinable, RefuseSidecar(s.read) PROVE frame' = frame
    BY <2>4 DEF RefuseSidecar, Call
  <2> QED
    BY <2>2, <2>3, <2>4, AnnotateAdds, BackwardAdds, ForwardAdds, ExcursionAdds DEF StepsNext
<1>2. CASE frame'.added = frame.added
  BY <1>2 DEF ColumnsAgree
<1>3. CASE AddsTogether
  BY <1>3, AgreementLooksNotAhead DEF AddsTogether
<1> QED
  BY <1>1, <1>2, <1>3

(* The inductive invariant of the columns.                                 *)
ColumnsSoFar == RowsSoFar /\ Together(known.added)

(* It always holds.                                                        *)
LEMMA ColumnsInvariant == StepsSpec => []ColumnsSoFar
<1>1. StepsInit => ColumnsSoFar
  <2> SUFFICES ASSUME StepsInit PROVE ColumnsSoFar
    OBVIOUS
  <2>1. history \in History /\ known = ClosedBy(history, Now) /\ history.added = {}
    BY HistoryRows DEF StepsInit
  <2>2. known.added = history.added
    <3>1. PICK open : known = Without(history, open)
      BY <2>1 DEF ClosedBy
    <3>2. IsFrame(history) /\ IsList(history.rows, Len(history.rows))
      BY <2>1, HistoryRows DEF IsFrame, IsList
    <3> QED
      BY <3>1, <3>2, WithoutKeepsTheOthers
  <2> QED
    BY <2>1, <2>2, InitRows DEF ColumnsSoFar, Together
<1>2. ColumnsSoFar /\ [StepsNext]_steps_vars => ColumnsSoFar'
  <2> SUFFICES ASSUME ColumnsSoFar, [StepsNext]_steps_vars PROVE ColumnsSoFar'
    OBVIOUS
  <2>1. RowsSoFar'
    BY NextRows DEF ColumnsSoFar
  <2>2. Together(known'.added)
    <3>1. CASE StepsNext
      BY <3>1, StepsKeepTogether DEF ColumnsSoFar
    <3>2. CASE UNCHANGED steps_vars
      BY <3>2 DEF steps_vars, ColumnsSoFar
    <3> QED
      BY <3>1, <3>2
  <2>3. Together(known.added)'
    BY <2>2 DEF Together, IsGroup, AnnotationGroup, BackwardGroup, ForwardGroup, ExcursionGroup
  <2> QED
    BY <2>1, <2>3 DEF ColumnsSoFar
<1> QED
  BY <1>1, <1>2, PTL DEF StepsSpec

(* A value depends on nothing that had not happened when it may first be   *)
(* used: a column a call adds to the history it also adds to what was      *)
(* known at Now, with the same value, or the same null, in every row whose *)
(* value had become available by then (add_backward_returns,               *)
(* add_forward_returns, add_forward_excursions, annotate_windows).         *)
THEOREM NothingIsReadAhead == StepsSpec => NoLookAhead
<1>1. ColumnsSoFar /\ [StepsNext]_steps_vars =>
        [\A column \in frame'.added \ frame.added :
           /\ column \in known'.added
           /\ column \notin known.added =>
                \A i \in DOMAIN frame'.rows, j \in DOMAIN known'.rows :
                  SameByNow(column, frame'.rows[i], known'.rows[j])]_steps_vars
  BY StepsLookNotAhead DEF ColumnsSoFar, ColumnsAgree
<1> QED
  BY <1>1, ColumnsInvariant, PTL DEF StepsSpec, NoLookAhead

-----------------------------------------------------------------------------
(* Sums and merges over a list, from its first entry up.                   *)

(* Induction up to n, over the set of the numbers that have a property.    *)
LEMMA UpTo ==
  ASSUME NEW n \in Nat, NEW T, 0 \in T, \A i \in 1 .. n : i - 1 \in T => i \in T
  PROVE  0 .. n \subseteq T
<1> DEFINE bad == {i \in 0 .. n : i \notin T}
<1> SUFFICES ASSUME bad # {} PROVE FALSE
  OBVIOUS
<1>1. PICK k \in bad : \A j \in bad : k <= j
  <2>1. bad \in SUBSET Nat
    OBVIOUS
  <2> HIDE DEF bad
  <2> QED
    BY <2>1, LeastOfNat
<1>2. k \in 1 .. n /\ k \notin T
  BY <1>1
<1>3. k - 1 \in 0 .. n /\ ~(k <= k - 1)
  BY <1>2
<1>4. k - 1 \in T
  BY <1>1, <1>3
<1> QED
  BY <1>2, <1>4

(* A recursion on the sum so far.                                          *)
IsSums(sums, values, n) ==
  sums = [k \in 0 .. n |-> IF k = 0 THEN 0 ELSE sums[k - 1] + values[k]]

LEMMA SumsExist ==
  ASSUME NEW values, NEW n \in Nat
  PROVE  \E sums : IsSums(sums, values, n)
<1> DEFINE T == {k \in Nat : \E sums : IsSums(sums, values, k)}
<1>1. 0 \in T
  <2>1. IsSums([i \in 0 .. 0 |-> 0], values, 0)
    BY DEF IsSums
  <2> QED
    BY <2>1
<1>2. ASSUME NEW k \in 1 .. n, k - 1 \in T PROVE k \in T
  <2>1. PICK sums : IsSums(sums, values, k - 1)
    BY <1>2
  <2>2. /\ DOMAIN sums = 0 .. k - 1
        /\ \A i \in 0 .. k - 1 : sums[i] = IF i = 0 THEN 0 ELSE sums[i - 1] + values[i]
    BY <2>1 DEF IsSums
  <2> DEFINE last == sums[k - 1] + values[k]
             longer == [i \in 0 .. k |-> IF i = k THEN last ELSE sums[i]]
  <2>3. ASSUME NEW i \in 0 .. k
        PROVE  longer[i] = IF i = 0 THEN 0 ELSE longer[i - 1] + values[i]
    <3>1. i # k => i \in 0 .. k - 1
      OBVIOUS
    <3>2. i # 0 => i - 1 \in 0 .. k /\ i - 1 # k
      OBVIOUS
    <3> QED
      BY <2>2, <3>1, <3>2
  <2>4. longer = [i \in 0 .. k |-> longer[i]]
    OBVIOUS
  <2> HIDE DEF longer
  <2>5. IsSums(longer, values, k)
    BY <2>3, <2>4 DEF IsSums
  <2> QED
    BY <2>5
<1> HIDE DEF T
<1>3. n \in T
  BY <1>1, <1>2, UpTo
<1> QED
  BY <1>3 DEF T

LEMMA TotalIs ==
  ASSUME NEW values, Len(values) \in Nat
  PROVE  \E sums : IsSums(sums, values, Len(values)) /\ Total(values) = sums[Len(values)]
<1> DEFINE n == Len(values)
           total == CHOOSE f : IsSums(f, values, n)
<1>1. IsSums(total, values, n)
  <2>1. \E f : IsSums(f, values, n)
    BY SumsExist
  <2> QED
    BY <2>1
<1>2. Total(values) = total[n]
  BY DEF Total, IsSums
<1> QED
  BY <1>1, <1>2

(* And on the spans merged so far.                                         *)
IsMerging(merged, spans, n) ==
  merged = [k \in 0 .. n |-> IF k = 0 THEN <<>> ELSE Extend(merged[k - 1], spans[k])]

LEMMA MergingExists ==
  ASSUME NEW spans, NEW n \in Nat
  PROVE  \E merged : IsMerging(merged, spans, n)
<1> DEFINE T == {k \in Nat : \E merged : IsMerging(merged, spans, k)}
<1>1. 0 \in T
  <2>1. IsMerging([i \in 0 .. 0 |-> <<>>], spans, 0)
    BY DEF IsMerging
  <2> QED
    BY <2>1
<1>2. ASSUME NEW k \in 1 .. n, k - 1 \in T PROVE k \in T
  <2>1. PICK merged : IsMerging(merged, spans, k - 1)
    BY <1>2
  <2>2. /\ DOMAIN merged = 0 .. k - 1
        /\ \A i \in 0 .. k - 1 :
             merged[i] = IF i = 0 THEN <<>> ELSE Extend(merged[i - 1], spans[i])
    BY <2>1 DEF IsMerging
  <2> DEFINE last == Extend(merged[k - 1], spans[k])
             longer == [i \in 0 .. k |-> IF i = k THEN last ELSE merged[i]]
  <2>3. ASSUME NEW i \in 0 .. k
        PROVE  longer[i] = IF i = 0 THEN <<>> ELSE Extend(longer[i - 1], spans[i])
    <3>1. i # k => i \in 0 .. k - 1
      OBVIOUS
    <3>2. i # 0 => i - 1 \in 0 .. k /\ i - 1 # k
      OBVIOUS
    <3> QED
      BY <2>2, <3>1, <3>2
  <2>4. longer = [i \in 0 .. k |-> longer[i]]
    OBVIOUS
  <2> HIDE DEF longer
  <2>5. IsMerging(longer, spans, k)
    BY <2>3, <2>4 DEF IsMerging
  <2> QED
    BY <2>5
<1> HIDE DEF T
<1>3. n \in T
  BY <1>1, <1>2, UpTo
<1> QED
  BY <1>3 DEF T

LEMMA MergedInTurnIs ==
  ASSUME NEW spans, Len(spans) \in Nat
  PROVE  \E merged : IsMerging(merged, spans, Len(spans))
                     /\ MergedInTurn(spans) = merged[Len(spans)]
<1> DEFINE n == Len(spans)
           chosen == CHOOSE f : IsMerging(f, spans, n)
<1>1. IsMerging(chosen, spans, n)
  <2>1. \E f : IsMerging(f, spans, n)
    BY MergingExists
  <2> QED
    BY <2>1
<1>2. MergedInTurn(spans) = chosen[n]
  BY DEF MergedInTurn, IsMerging
<1> QED
  BY <1>1, <1>2

-----------------------------------------------------------------------------
(* Spans in start order.                                                   *)

SpanSet == {s \in Int \X Int : s[1] < s[2]}

(* Those of a set that come ahead of one.                                  *)
AheadOf(S, a) == {b \in S : Ahead(b, a)}

LEMMA AheadIsAnOrder ==
  /\ \A a \in SpanSet : ~Ahead(a, a)
  /\ \A a, b, c \in SpanSet : Ahead(a, b) /\ Ahead(b, c) => Ahead(a, c)
  /\ \A a, b \in SpanSet : Ahead(a, b) \/ Ahead(b, a) \/ a = b
  /\ \A a, b \in SpanSet : Ahead(a, b) => a[1] <= b[1]
<1>1. \A a \in SpanSet : a = <<a[1], a[2]>> /\ a[1] \in Int /\ a[2] \in Int
  BY DEF SpanSet
<1> QED
  BY <1>1 DEF Ahead

LEMMA StartOrder ==
  ASSUME NEW S \in SUBSET SpanSet, IsFiniteSet(S)
  PROVE  LET list == InStartOrder(S)
             n == Cardinality(S) IN
         /\ n \in Nat /\ list \in [1 .. n -> S] /\ Len(list) = n
         /\ \A a \in S : \E i \in 1 .. n : list[i] = a
         /\ \A i, j \in 1 .. n : i < j => list[i][1] <= list[j][1]
<1> DEFINE n == Cardinality(S)
           rank == [a \in S |-> Cardinality(AheadOf(S, a)) + 1]
<1>1. n \in Nat
  BY FS_CardinalityType
<1>2. ASSUME NEW a \in S PROVE Cardinality(AheadOf(S, a)) \in 0 .. n - 1
  <2>1. AheadOf(S, a) \in SUBSET S /\ AheadOf(S, a) # S
    BY AheadIsAnOrder DEF AheadOf
  <2>2. /\ IsFiniteSet(AheadOf(S, a)) /\ Cardinality(AheadOf(S, a)) <= n
        /\ (n = Cardinality(AheadOf(S, a)) => S = AheadOf(S, a))
    BY <2>1, FS_Subset
  <2>3. Cardinality(AheadOf(S, a)) \in Nat
    BY <2>2, FS_CardinalityType
  <2> QED
    BY <1>1, <2>1, <2>2, <2>3
<1>3. ASSUME NEW a \in S, NEW b \in S, Ahead(a, b)
      PROVE  Cardinality(AheadOf(S, a)) < Cardinality(AheadOf(S, b))
  <2>1. AheadOf(S, a) \in SUBSET AheadOf(S, b)
        /\ a \in AheadOf(S, b) /\ a \notin AheadOf(S, a)
    <3>1. \A c \in S : Ahead(c, a) => Ahead(c, b)
      BY <1>3, AheadIsAnOrder
    <3>2. ~Ahead(a, a)
      BY AheadIsAnOrder
    <3> QED
      BY <1>3, <3>1, <3>2 DEF AheadOf
  <2>2. IsFiniteSet(AheadOf(S, b))
    <3>1. AheadOf(S, b) \in SUBSET S
      BY DEF AheadOf
    <3> QED
      BY <3>1, FS_Subset
  <2>3. /\ Cardinality(AheadOf(S, a)) <= Cardinality(AheadOf(S, b))
        /\ Cardinality(AheadOf(S, b)) = Cardinality(AheadOf(S, a)) =>
             AheadOf(S, b) = AheadOf(S, a)
    BY <2>1, <2>2, FS_Subset
  <2> QED
    BY <1>2, <2>1, <2>3
<1>4. \A a, b \in S : Cardinality(AheadOf(S, a)) = Cardinality(AheadOf(S, b)) => a = b
  <2>1. \A a, b \in S : Ahead(a, b) \/ Ahead(b, a) \/ a = b
    BY AheadIsAnOrder
  <2> QED
    BY <1>2, <1>3, <2>1
<1>5. rank \in [S -> 1 .. n]
  <2>1. \A a \in S : Cardinality(AheadOf(S, a)) + 1 \in 1 .. n
    BY <1>1, <1>2
  <2> QED
    BY <2>1
<1>6. \A a, b \in S : rank[a] = rank[b] => a = b
  <2>1. \A a, b \in S :
          rank[a] = rank[b] => Cardinality(AheadOf(S, a)) = Cardinality(AheadOf(S, b))
    BY <1>2
  <2> QED
    BY <1>4, <2>1
<1>7. rank \in Injection(S, 1 .. n)
  BY <1>5, <1>6 DEF Injection, IsInjective
<1>8. IsFiniteSet(1 .. n) /\ Cardinality(1 .. n) = n
  BY <1>1, FS_Interval
<1>9. rank \in Surjection(S, 1 .. n)
  <2> HIDE DEF rank, n
  <2>1. Cardinality(S) = Cardinality(1 .. n)
    BY <1>8 DEF n
  <2> QED
    BY <1>7, <1>8, <2>1, FS_Injection
<1>10. \A i \in 1 .. n : \E a \in S : rank[a] = i
  BY <1>9 DEF Surjection
<1> DEFINE chosen(i) == CHOOSE a \in S : Cardinality(AheadOf(S, a)) = i - 1
<1>11. ASSUME NEW i \in 1 .. n
       PROVE  chosen(i) \in S /\ Cardinality(AheadOf(S, chosen(i))) = i - 1
  <2>1. PICK a \in S : rank[a] = i
    BY <1>10
  <2>2. Cardinality(AheadOf(S, a)) = i - 1
    BY <1>1, <1>2, <2>1
  <2> QED
    BY <2>2
<1>12. InStartOrder(S) = [i \in 1 .. n |-> chosen(i)]
  BY DEF InStartOrder, AheadOf
<1> HIDE DEF chosen, rank, n
<1>13. InStartOrder(S) \in [1 .. n -> S]
  BY <1>11, <1>12
<1>14. \A a \in S : \E i \in 1 .. n : InStartOrder(S)[i] = a
  <2> SUFFICES ASSUME NEW a \in S PROVE \E i \in 1 .. n : InStartOrder(S)[i] = a
    OBVIOUS
  <2> DEFINE i == Cardinality(AheadOf(S, a)) + 1
  <2>1. i \in 1 .. n /\ i - 1 = Cardinality(AheadOf(S, a))
    BY <1>1, <1>2
  <2> HIDE DEF i
  <2>2. chosen(i) \in S /\ Cardinality(AheadOf(S, chosen(i))) = Cardinality(AheadOf(S, a))
    BY <1>11, <2>1
  <2>3. chosen(i) = a
    BY <1>4, <2>2
  <2> QED
    BY <1>12, <2>1, <2>3
<1>15. ASSUME NEW i \in 1 .. n, NEW j \in 1 .. n, i < j
       PROVE  InStartOrder(S)[i][1] <= InStartOrder(S)[j][1]
  <2>1. /\ chosen(i) \in S /\ Cardinality(AheadOf(S, chosen(i))) = i - 1
        /\ chosen(j) \in S /\ Cardinality(AheadOf(S, chosen(j))) = j - 1
    BY <1>11
  <2> DEFINE a == chosen(i)
             b == chosen(j)
  <2> HIDE DEF a, b
  <2>2. /\ a \in S /\ Cardinality(AheadOf(S, a)) = i - 1
        /\ b \in S /\ Cardinality(AheadOf(S, b)) = j - 1
    BY <2>1 DEF a, b
  <2>3. ~Ahead(b, a) /\ a # b
    BY <1>1, <1>3, <1>15, <2>2
  <2>4. a[1] <= b[1]
    BY <2>2, <2>3, AheadIsAnOrder
  <2> QED
    BY <1>12, <2>4 DEF a, b
<1>16. Len(InStartOrder(S)) = n
  <2> DEFINE list == InStartOrder(S)
  <2> HIDE DEF list
  <2>1. list \in [1 .. n -> S]
    BY <1>13 DEF list
  <2>2. Len(list) = n
    BY <1>1, <2>1
  <2> QED
    BY <2>2 DEF list
<1> QED
  BY <1>1, <1>13, <1>14, <1>15, <1>16 DEF n

-----------------------------------------------------------------------------
(* What a merge covers.                                                    *)

(* A list of n spans.                                                      *)
SpanList(m, n) == n \in Nat /\ Len(m) = n /\ m \in [1 .. n -> SpanSet]

(* An instant lies inside one of the first n spans.                        *)
Covers(m, n, x) == \E i \in 1 .. n : m[i][1] <= x /\ x < m[i][2]

(* Spans that do not touch, in start order.                                *)
Apart(m, n) == \A i, j \in 1 .. n : i < j => m[i][2] < m[j][1]

(* What is merged so far covers what it was made of, and no span of it     *)
(* starts after the last that was merged.                                  *)
MergedSoFar(m, spans, k) ==
  \E l : /\ SpanList(m, l) /\ Apart(m, l)
         /\ (k = 0 <=> l = 0)
         /\ k # 0 => m[l][1] <= spans[k][1]
         /\ \A x \in Int : Covers(m, l, x) <=> Covers(spans, k, x)

LEMMA SpanIs ==
  ASSUME NEW s \in SpanSet
  PROVE  s = <<s[1], s[2]>> /\ s[1] \in Int /\ s[2] \in Int /\ s[1] < s[2]
BY DEF SpanSet

LEMMA EmptyIsNoSpans ==
  ASSUME NEW m, NEW l, SpanList(m, l)
  PROVE  m = <<>> <=> l = 0
BY DEF SpanList

LEMMA ListIsFunction ==
  ASSUME NEW X, NEW q \in Seq(X)
  PROVE  Len(q) \in Nat /\ q \in [1 .. Len(q) -> X]
OBVIOUS

(* One span more, in start order.                                          *)
LEMMA ExtendMerges ==
  ASSUME NEW spans, NEW k \in Nat \ {0}, \A i \in 1 .. k : spans[i] \in SpanSet,
         k # 1 => spans[k - 1][1] <= spans[k][1],
         NEW m, MergedSoFar(m, spans, k - 1)
  PROVE  MergedSoFar(Extend(m, spans[k]), spans, k)
<1>1. PICK l : /\ SpanList(m, l) /\ Apart(m, l)
               /\ (k - 1 = 0 <=> l = 0)
               /\ k - 1 # 0 => m[l][1] <= spans[k - 1][1]
               /\ \A x \in Int : Covers(m, l, x) <=> Covers(spans, k - 1, x)
  BY DEF MergedSoFar
<1>2. PICK s : s = spans[k]
  OBVIOUS
<1>3. s \in SpanSet /\ s = <<s[1], s[2]>> /\ s[1] \in Int /\ s[2] \in Int /\ s[1] < s[2]
  BY <1>2, SpanIs
<1>4. /\ l \in Nat /\ Len(m) = l /\ m \in [1 .. l -> SpanSet] /\ (m = <<>> <=> l = 0)
      /\ \A i \in 1 .. l : m[i][1] \in Int /\ m[i][2] \in Int /\ m[i][1] < m[i][2]
  BY <1>1, EmptyIsNoSpans, SpanIs DEF SpanList
<1>5. l # 0 => m[l][1] <= s[1]
  <2>1. ASSUME l # 0 PROVE m[l][1] <= s[1]
    <3>1. k # 1 /\ k - 1 \in 1 .. k /\ k - 1 # 0
      BY <1>1, <2>1
    <3>2. m[l][1] <= spans[k - 1][1] /\ spans[k - 1][1] <= s[1] /\ spans[k - 1][1] \in Int
      BY <1>1, <1>2, <3>1, SpanIs
    <3>3. m[l][1] \in Int
      BY <1>4, <2>1
    <3> QED
      BY <1>3, <3>2, <3>3
  <2> QED
    BY <2>1
<1>6. ASSUME NEW x \in Int
      PROVE  Covers(spans, k, x) <=> Covers(m, l, x) \/ (s[1] <= x /\ x < s[2])
  <2>1. 1 .. k = (1 .. k - 1) \cup {k}
    OBVIOUS
  <2>2. Covers(spans, k, x) <=> Covers(spans, k - 1, x) \/ (s[1] <= x /\ x < s[2])
    BY <1>2, <2>1 DEF Covers
  <2> QED
    BY <1>1, <2>2
<1>7. CASE m # <<>> /\ s[1] <= m[l][2]
  <2>1. l \in 1 .. l /\ l # 0
    BY <1>4, <1>7
  <2> DEFINE last == <<m[l][1], Greater(m[l][2], s[2])>>
             g == [m EXCEPT ![l] = last]
  <2>2. Extend(m, spans[k]) = g
    BY <1>2, <1>4, <1>7 DEF Extend
  <2>3. /\ m[l][1] \in Int /\ m[l][2] \in Int /\ m[l][1] < m[l][2]
        /\ m[l][1] <= s[1]
    BY <1>4, <1>5, <2>1
  <2>4. PICK end : end = Greater(m[l][2], s[2])
    OBVIOUS
  <2>5. /\ end \in Int /\ end >= m[l][2] /\ end >= s[2] /\ (end = m[l][2] \/ end = s[2])
    BY <1>3, <2>3, <2>4 DEF Greater
  <2>6. last \in SpanSet /\ last[1] = m[l][1] /\ last[2] = end
    BY <2>3, <2>4, <2>5 DEF SpanSet
  <2> HIDE DEF last
  <2>7. /\ g \in [1 .. l -> SpanSet] /\ g[l] = last
        /\ \A i \in 1 .. l : i # l => g[i] = m[i]
    BY <1>4, <2>1, <2>6
  <2> HIDE DEF g
  <2>8. Len(g) = l
    BY <1>4, <2>7
  <2>9. Apart(g, l)
    <3> SUFFICES ASSUME NEW i \in 1 .. l, NEW j \in 1 .. l, i < j PROVE g[i][2] < g[j][1]
      BY DEF Apart
    <3>1. g[i] = m[i] /\ g[j][1] = m[j][1]
      BY <2>6, <2>7
    <3> QED
      BY <1>1, <3>1 DEF Apart
  <2>10. ASSUME NEW x \in Int
         PROVE  Covers(g, l, x) <=> Covers(m, l, x) \/ (s[1] <= x /\ x < s[2])
    <3>1. (g[l][1] <= x /\ x < g[l][2]) <=>
            (m[l][1] <= x /\ x < m[l][2]) \/ (s[1] <= x /\ x < s[2])
      BY <1>3, <1>7, <2>3, <2>5, <2>6, <2>7
    <3>2. \A i \in 1 .. l : i # l =>
            ((g[i][1] <= x /\ x < g[i][2]) <=> (m[i][1] <= x /\ x < m[i][2]))
      BY <2>7
    <3> QED
      BY <2>1, <3>1, <3>2 DEF Covers
  <2>11. SpanList(g, l)
    BY <1>4, <2>7, <2>8 DEF SpanList
  <2>12. g[l][1] <= spans[k][1] /\ k # 0
    BY <1>2, <2>3, <2>6, <2>7
  <2>13. \A x \in Int : Covers(g, l, x) <=> Covers(spans, k, x)
    BY <1>6, <2>10
  <2> QED
    BY <2>1, <2>2, <2>9, <2>11, <2>12, <2>13 DEF MergedSoFar
<1>8. CASE ~(m # <<>> /\ s[1] <= m[l][2])
  <2> DEFINE g == Append(m, s)
  <2>1. Extend(m, spans[k]) = g
    BY <1>2, <1>4, <1>8 DEF Extend
  <2>2. m \in Seq(SpanSet)
    BY <1>4
  <2>3. /\ Len(g) = l + 1 /\ g \in [1 .. l + 1 -> SpanSet] /\ g[l + 1] = s
        /\ \A i \in 1 .. l : g[i] = m[i]
    <3>1. Len(g) = l + 1 /\ g \in Seq(SpanSet)
      BY <1>3, <1>4, <2>2
    <3>2. \A i \in 1 .. Len(m) : g[i] = m[i]
      BY <2>2
    <3>3. g[Len(m) + 1] = s
      BY <2>2
    <3>4. g \in [1 .. Len(g) -> SpanSet]
      BY <3>1, ListIsFunction
    <3> QED
      BY <1>4, <3>1, <3>2, <3>3, <3>4
  <2> HIDE DEF g
  <2>4. SpanList(g, l + 1)
    BY <1>4, <2>3 DEF SpanList
  <2>5. ASSUME NEW i \in 1 .. l PROVE m[i][2] < s[1]
    <3>1. l \in 1 .. l /\ l # 0 /\ ~(s[1] <= m[l][2])
      BY <1>4, <1>8
    <3>2. m[l][2] < s[1] /\ m[l][1] < m[l][2] /\ m[l][1] \in Int /\ m[l][2] \in Int
      BY <1>3, <1>4, <3>1
    <3>3. i # l => m[i][2] < m[l][1]
      BY <1>1, <1>4, <3>1 DEF Apart
    <3>4. m[i][2] \in Int
      BY <1>4
    <3> QED
      BY <1>3, <3>2, <3>3, <3>4
  <2>6. Apart(g, l + 1)
    <3> SUFFICES ASSUME NEW i \in 1 .. l + 1, NEW j \in 1 .. l + 1, i < j
                 PROVE  g[i][2] < g[j][1]
      BY DEF Apart
    <3>1. i \in 1 .. l /\ g[i] = m[i] /\ (j \in 1 .. l \/ j = l + 1)
      BY <1>4, <2>3
    <3>2. CASE j \in 1 .. l
      BY <1>1, <2>3, <3>1, <3>2 DEF Apart
    <3>3. CASE j = l + 1
      BY <2>3, <2>5, <3>1, <3>3
    <3> QED
      BY <3>1, <3>2, <3>3
  <2>7. ASSUME NEW x \in Int
        PROVE  Covers(g, l + 1, x) <=> Covers(m, l, x) \/ (s[1] <= x /\ x < s[2])
    <3>1. 1 .. l + 1 = (1 .. l) \cup {l + 1}
      BY <1>4
    <3> QED
      BY <2>3, <3>1 DEF Covers
  <2>8. g[l + 1][1] <= spans[k][1] /\ k # 0 /\ l + 1 # 0
    BY <1>2, <1>3, <1>4, <2>3
  <2>9. \A x \in Int : Covers(g, l + 1, x) <=> Covers(spans, k, x)
    BY <1>6, <2>7
  <2> QED
    BY <2>1, <2>4, <2>6, <2>8, <2>9 DEF MergedSoFar
<1> QED
  BY <1>7, <1>8

(* _merged: spans in start order become spans apart from each other that   *)
(* cover the same instants.                                                *)
LEMMA MergeCoversTheSame ==
  ASSUME NEW spans, NEW n, SpanList(spans, n),
         \A i, j \in 1 .. n : i < j => spans[i][1] <= spans[j][1]
  PROVE  MergedSoFar(MergedInTurn(spans), spans, n)
<1>1. n \in Nat /\ Len(spans) = n /\ \A i \in 1 .. n : spans[i] \in SpanSet
  BY DEF SpanList
<1>2. PICK merged : IsMerging(merged, spans, n) /\ MergedInTurn(spans) = merged[n]
  BY <1>1, MergedInTurnIs
<1> DEFINE T == {k \in 0 .. n : MergedSoFar(merged[k], spans, k)}
<1>3. /\ merged[0] = <<>>
      /\ \A k \in 1 .. n : merged[k] = Extend(merged[k - 1], spans[k])
  <2>1. 0 \in 0 .. n /\ \A k \in 1 .. n : k \in 0 .. n /\ k # 0
    BY <1>1
  <2> QED
    BY <1>2, <2>1 DEF IsMerging
<1>4. 0 \in T
  <2>1. SpanList(<<>>, 0) /\ Apart(<<>>, 0)
    BY DEF SpanList, Apart
  <2>2. \A x \in Int : Covers(<<>>, 0, x) <=> Covers(spans, 0, x)
    BY DEF Covers
  <2> QED
    BY <1>1, <1>3, <2>1, <2>2 DEF MergedSoFar
<1>5. ASSUME NEW k \in 1 .. n, k - 1 \in T PROVE k \in T
  <2>1. k \in Nat \ {0} /\ (\A i \in 1 .. k : spans[i] \in SpanSet) /\ k \in 0 .. n
    BY <1>1
  <2>2. k # 1 => spans[k - 1][1] <= spans[k][1]
    BY <1>1
  <2>3. MergedSoFar(merged[k - 1], spans, k - 1)
    BY <1>5
  <2> QED
    BY <1>3, <2>1, <2>2, <2>3, ExtendMerges
<1> HIDE DEF T
<1>6. 0 .. n \subseteq T
  BY <1>1, <1>4, <1>5, UpTo
<1>7. n \in T
  BY <1>1, <1>6
<1> QED
  BY <1>2, <1>7 DEF T

-----------------------------------------------------------------------------
(* What a window shares with spans.                                        *)

(* The instants of a window.                                               *)
Within(row) == Seconds(row.open_time, row.close_time)

(* Its bounds are instants, or not known.                                  *)
HasBounds(row) == {row.open_time, row.close_time} \subseteq Int \cup {Null}

(* Those inside one of the first n spans.                                  *)
Shared(row, m, n) == {x \in Within(row) : Covers(m, n, x)}

LEMMA WithinIs ==
  ASSUME NEW row, HasBounds(row)
  PROVE  /\ IsFiniteSet(Within(row))
         /\ \A x : x \in Within(row) <=>
              /\ row.open_time # Null /\ row.close_time # Null
              /\ x \in Int /\ row.open_time <= x /\ x < row.close_time
<1>1. CASE Null \in {row.open_time, row.close_time}
  <2>1. Within(row) = {}
    BY <1>1 DEF Within, Seconds
  <2> QED
    BY <1>1, <2>1, FS_EmptySet
<1>2. CASE Null \notin {row.open_time, row.close_time}
  <2>1. row.open_time \in Int /\ row.close_time \in Int /\ row.close_time - 1 \in Int
    BY <1>2 DEF HasBounds
  <2>2. Within(row) = row.open_time .. row.close_time - 1
    BY <1>2 DEF Within, Seconds
  <2>3. IsFiniteSet(Within(row))
    BY <2>1, <2>2, FS_Interval
  <2> QED
    BY <1>2, <2>1, <2>2, <2>3
<1> QED
  BY <1>1, <1>2

(* _overlap: what a window shares with a span, counted by its bounds.      *)
LEMMA OverlapIsShared ==
  ASSUME NEW row, HasBounds(row), NEW span \in SpanSet
  PROVE  Overlap(row, span) =
           Cardinality({x \in Within(row) : span[1] <= x /\ x < span[2]})
<1> DEFINE both == {x \in Within(row) : span[1] <= x /\ x < span[2]}
<1>1. span[1] \in Int /\ span[2] \in Int /\ span[1] < span[2]
  BY SpanIs
<1>2. CASE ~Touches(row, span[1], span[2])
  <2>1. both = {}
    <3> SUFFICES ASSUME NEW x \in both PROVE FALSE
      OBVIOUS
    <3>1. /\ row.open_time # Null /\ row.close_time # Null
          /\ x \in Int /\ row.open_time <= x /\ x < row.close_time
          /\ span[1] <= x /\ x < span[2]
      BY WithinIs
    <3>2. row.open_time \in Int /\ row.close_time \in Int
      BY <3>1 DEF HasBounds
    <3> QED
      BY <1>1, <1>2, <3>1, <3>2 DEF Touches
  <2> QED
    BY <1>2, <2>1, FS_EmptySet DEF Overlap
<1>3. CASE Touches(row, span[1], span[2])
  <2>1. PICK a, b : a = row.open_time /\ b = row.close_time
    OBVIOUS
  <2>2. /\ a \in Int /\ b \in Int /\ a < span[2] /\ b > span[1]
        /\ row.open_time # Null /\ row.close_time # Null
    BY <1>3, <2>1 DEF Touches, HasBounds
  <2>3. PICK from, to : from = Greater(a, span[1]) /\ to = Lesser(b, span[2])
    OBVIOUS
  <2>4. /\ from \in Int /\ to \in Int
        /\ \A x \in Int : from <= x <=> a <= x /\ span[1] <= x
        /\ \A x \in Int : x < to <=> x < b /\ x < span[2]
    BY <1>1, <2>2, <2>3 DEF Greater, Lesser
  <2>5. \A x : x \in both <=> x \in Int /\ from <= x /\ x < to
    BY <2>1, <2>2, <2>4, WithinIs
  <2>6. both = from .. to - 1
    <3> HIDE DEF both
    <3>1. \A x : x \in both <=> x \in from .. to - 1
      BY <2>4, <2>5
    <3> QED
      BY <3>1
  <2>7. Cardinality(from .. to - 1) = IF from > to - 1 THEN 0 ELSE ((to - 1) - from) + 1
    BY <2>4, FS_Interval
  <2>8. Cardinality(from .. to - 1) = Greater(0, to - from)
    BY <2>4, <2>7 DEF Greater
  <2>9. Overlap(row, span) = Greater(0, to - from)
    BY <1>3, <2>1, <2>3 DEF Overlap
  <2> QED
    BY <2>6, <2>8, <2>9
<1> QED
  BY <1>2, <1>3

(* sum_horizontal: over spans that are apart, the shares add up to the     *)
(* number of seconds in any of them.                                       *)
LEMMA SharesAddUp ==
  ASSUME NEW row, HasBounds(row), NEW m, NEW n, SpanList(m, n), Apart(m, n)
  PROVE  Total([k \in DOMAIN m |-> Overlap(row, m[k])]) = Cardinality(Shared(row, m, n))
<1> DEFINE values == [k \in DOMAIN m |-> Overlap(row, m[k])]
<1>1. /\ n \in Nat /\ DOMAIN m = 1 .. n /\ \A k \in 1 .. n : m[k] \in SpanSet
      /\ \A k \in 1 .. n : m[k][1] \in Int /\ m[k][2] \in Int /\ m[k][1] < m[k][2]
  BY SpanIs DEF SpanList
<1>2. Len(values) = n
  BY <1>1
<1>3. PICK sums : IsSums(sums, values, n) /\ Total(values) = sums[n]
  BY <1>1, <1>2, TotalIs
<1>4. /\ sums[0] = 0
      /\ \A k \in 1 .. n : sums[k] = sums[k - 1] + Overlap(row, m[k])
  <2>1. 0 \in 0 .. n /\ \A k \in 1 .. n : k \in 0 .. n /\ k # 0
    BY <1>1
  <2>2. \A k \in 1 .. n : values[k] = Overlap(row, m[k])
    BY <1>1
  <2> HIDE DEF values
  <2> QED
    BY <1>3, <2>1, <2>2 DEF IsSums
<1> DEFINE T == {k \in 0 .. n : sums[k] = Cardinality(Shared(row, m, k))}
<1>5. 0 \in T
  <2>1. Shared(row, m, 0) = {}
    BY DEF Shared, Covers
  <2>2. sums[0] = Cardinality(Shared(row, m, 0))
    BY <1>4, <2>1, FS_EmptySet
  <2> QED
    BY <1>1, <2>2
<1>6. ASSUME NEW k \in 1 .. n, k - 1 \in T PROVE k \in T
  <2> HIDE DEF values
  <2> DEFINE before == Shared(row, m, k - 1)
             more == {x \in Within(row) : m[k][1] <= x /\ x < m[k][2]}
             now == Shared(row, m, k)
  <2>1. now = before \cup more
    <3>1. 1 .. k = (1 .. k - 1) \cup {k}
      OBVIOUS
    <3>2. \A x : Covers(m, k, x) <=> Covers(m, k - 1, x) \/ (m[k][1] <= x /\ x < m[k][2])
      BY <3>1 DEF Covers
    <3> QED
      BY <3>2 DEF Shared
  <2>2. before \cap more = {}
    <3> SUFFICES ASSUME NEW x \in before, x \in more PROVE FALSE
      OBVIOUS
    <3>1. PICK i \in 1 .. k - 1 : m[i][1] <= x /\ x < m[i][2]
      BY DEF Shared, Covers
    <3>2. x \in Int /\ m[k][1] <= x
      BY WithinIs DEF Shared
    <3>3. i \in 1 .. n /\ i < k
      BY <1>1
    <3>4. m[i][2] < m[k][1]
      BY <3>3 DEF Apart
    <3> QED
      BY <1>1, <3>1, <3>2, <3>3, <3>4
  <2>3. IsFiniteSet(before) /\ IsFiniteSet(more)
    <3>1. before \in SUBSET Within(row) /\ more \in SUBSET Within(row)
      BY DEF Shared
    <3> QED
      BY <3>1, WithinIs, FS_Subset
  <2> HIDE DEF before, more, now
  <2>4. Cardinality(now) = Cardinality(before) + Cardinality(more)
    <3>1. Cardinality(before \cup more) =
            Cardinality(before) + Cardinality(more) - Cardinality(before \cap more)
      BY <2>3, FS_Union
    <3>2. Cardinality(before \cap more) = 0
      BY <2>2, FS_EmptySet
    <3>3. Cardinality(before) \in Nat /\ Cardinality(more) \in Nat
      BY <2>3, FS_CardinalityType
    <3> QED
      BY <2>1, <3>1, <3>2, <3>3
  <2>5. Overlap(row, m[k]) = Cardinality(more)
    BY <1>1, OverlapIsShared DEF more
  <2>6. sums[k - 1] = Cardinality(before)
    BY <1>6 DEF before
  <2> QED
    BY <1>1, <1>4, <2>4, <2>5, <2>6 DEF now
<1> HIDE DEF T
<1>7. 0 .. n \subseteq T
  BY <1>1, <1>5, <1>6, UpTo
<1>8. n \in T
  BY <1>1, <1>7
<1> HIDE DEF values
<1>9. Total(values) = Cardinality(Shared(row, m, n))
  BY <1>3, <1>8 DEF T
<1> QED
  BY <1>9 DEF values

-----------------------------------------------------------------------------
(* Annotations.                                                            *)

(* Intervals in file order, their bounds instants or null.                 *)
IsSidecar(s) ==
  /\ Len(s.rows) \in Nat /\ DOMAIN s.rows = 1 .. Len(s.rows)
  /\ \A k \in DOMAIN s.rows : {s.rows[k].start, s.rows[k].end} \subseteq Int \cup {Null}

LEMMA SoundIntervals ==
  ASSUME NEW s, IsSidecar(s), SoundSidecar(s), NEW k \in DOMAIN s.rows
  PROVE  /\ s.rows[k].start \in Int /\ s.rows[k].end \in Int
         /\ s.rows[k].start < s.rows[k].end
         /\ s.rows[k].start # Null /\ s.rows[k].end # Null
BY DEF IsSidecar, SoundSidecar, Sound

LEMMA SpansAreSpans ==
  ASSUME NEW s, IsSidecar(s), SoundSidecar(s)
  PROVE  Spans(s) \in SUBSET SpanSet /\ IsFiniteSet(Spans(s))
<1>1. \A k \in DOMAIN s.rows : <<s.rows[k].start, s.rows[k].end>> \in SpanSet
  BY SoundIntervals DEF SpanSet
<1> DEFINE g == [k \in DOMAIN s.rows |-> <<s.rows[k].start, s.rows[k].end>>]
<1>2. g \in Surjection(DOMAIN s.rows, Spans(s))
  BY DEF Surjection, Spans
<1>3. IsFiniteSet(DOMAIN s.rows)
  BY FS_Interval DEF IsSidecar
<1> QED
  BY <1>1, <1>2, <1>3, FS_Surjection DEF Spans

(* _overlap_seconds: the instants of a window inside any interval, each    *)
(* counted once.                                                           *)
LEMMA OverlapCountsTheUnion ==
  ASSUME NEW s, IsSidecar(s), SoundSidecar(s), NEW row, HasBounds(row)
  PROVE  OverlapSeconds(row, s) =
           Cardinality(UNION {Within(row) \cap Seconds(s.rows[k].start, s.rows[k].end) :
                                k \in DOMAIN s.rows})
<1> DEFINE list == InStartOrder(Spans(s))
           n == Cardinality(Spans(s))
           inside(k) == Within(row) \cap Seconds(s.rows[k].start, s.rows[k].end)
<1>1. /\ n \in Nat /\ list \in [1 .. n -> Spans(s)] /\ Len(list) = n
      /\ \A a \in Spans(s) : \E i \in 1 .. n : list[i] = a
      /\ \A i, j \in 1 .. n : i < j => list[i][1] <= list[j][1]
  BY SpansAreSpans, StartOrder
<1> HIDE DEF list, n
<1>2. SpanList(list, n)
  BY <1>1, SpansAreSpans DEF SpanList
<1>3. PICK m : m = Merged(s)
  OBVIOUS
<1>4. MergedSoFar(m, list, n)
  <2>1. m = MergedInTurn(list)
    BY <1>3 DEF Merged, list
  <2> QED
    BY <1>1, <1>2, <2>1, MergeCoversTheSame
<1>5. PICK l : /\ SpanList(m, l) /\ Apart(m, l)
               /\ \A x \in Int : Covers(m, l, x) <=> Covers(list, n, x)
  BY <1>4 DEF MergedSoFar
<1>6. OverlapSeconds(row, s) = Cardinality(Shared(row, m, l))
  <2>1. OverlapSeconds(row, s) = Total([k \in DOMAIN m |-> Overlap(row, m[k])])
    BY <1>3 DEF OverlapSeconds
  <2> QED
    BY <1>5, <2>1, SharesAddUp
<1>7. \A x \in Int : Covers(list, n, x) <=>
        \E k \in DOMAIN s.rows : s.rows[k].start <= x /\ x < s.rows[k].end
  <2> TAKE x \in Int
  <2>1. ASSUME NEW i \in 1 .. n, list[i][1] <= x, x < list[i][2]
        PROVE  \E k \in DOMAIN s.rows : s.rows[k].start <= x /\ x < s.rows[k].end
    <3>1. PICK k \in DOMAIN s.rows : list[i] = <<s.rows[k].start, s.rows[k].end>>
      BY <1>1 DEF Spans
    <3> QED
      BY <2>1, <3>1
  <2>2. ASSUME NEW k \in DOMAIN s.rows, s.rows[k].start <= x, x < s.rows[k].end
        PROVE  Covers(list, n, x)
    <3>1. <<s.rows[k].start, s.rows[k].end>> \in Spans(s)
      BY DEF Spans
    <3>2. PICK i \in 1 .. n : list[i] = <<s.rows[k].start, s.rows[k].end>>
      BY <1>1, <3>1
    <3> QED
      BY <2>2, <3>2 DEF Covers
  <2> QED
    BY <2>1, <2>2 DEF Covers
<1>8. ASSUME NEW k \in DOMAIN s.rows, NEW x
      PROVE  x \in inside(k) <=>
               x \in Within(row) /\ s.rows[k].start <= x /\ x < s.rows[k].end
  <2>1. /\ s.rows[k].start \in Int /\ s.rows[k].end \in Int
        /\ s.rows[k].start # Null /\ s.rows[k].end # Null
    BY SoundIntervals
  <2>2. x \in Within(row) => x \in Int
    BY WithinIs
  <2>3. Seconds(s.rows[k].start, s.rows[k].end) = s.rows[k].start .. s.rows[k].end - 1
    BY <2>1 DEF Seconds
  <2> QED
    BY <2>1, <2>2, <2>3
<1>9. Shared(row, m, l) = UNION {inside(k) : k \in DOMAIN s.rows}
  <2>1. \A x : x \in Shared(row, m, l) <=> x \in Within(row) /\ Covers(m, l, x)
    BY DEF Shared
  <2>2. \A x : x \in Within(row) => x \in Int
    BY WithinIs
  <2>3. \A x : x \in Shared(row, m, l) <=> \E k \in DOMAIN s.rows : x \in inside(k)
    BY <1>5, <1>7, <1>8, <2>1, <2>2
  <2> HIDE DEF inside
  <2> QED
    BY <2>3
<1> QED
  BY <1>6, <1>9

(* _touches: intervals that share an instant with a window that has any.   *)
LEMMA FlagsAreOfTheShared ==
  ASSUME NEW s, IsSidecar(s), SoundSidecar(s), NEW row, HasBounds(row), Within(row) # {}
  PROVE  Flags(row, s) =
           {s.rows[k].flag : k \in {k \in DOMAIN s.rows :
              Within(row) \cap Seconds(s.rows[k].start, s.rows[k].end) # {}}}
<1>1. ASSUME NEW k \in DOMAIN s.rows
      PROVE  Touches(row, s.rows[k].start, s.rows[k].end) <=>
               Within(row) \cap Seconds(s.rows[k].start, s.rows[k].end) # {}
  <2>1. PICK a, b : a = row.open_time /\ b = row.close_time
    OBVIOUS
  <2>2. PICK y : y \in Within(row)
    OBVIOUS
  <2>3. a # Null /\ b # Null /\ y \in Int /\ a <= y /\ y < b
    BY <2>1, <2>2, WithinIs
  <2>4. a \in Int /\ b \in Int /\ a < b
    BY <2>1, <2>3 DEF HasBounds
  <2>5. PICK from, to : from = s.rows[k].start /\ to = s.rows[k].end
    OBVIOUS
  <2>6. from \in Int /\ to \in Int /\ from < to /\ from # Null /\ to # Null
    BY <2>5, SoundIntervals
  <2>7. \A x : x \in Within(row) <=> x \in Int /\ a <= x /\ x < b
    BY <2>1, <2>3, WithinIs
  <2>8. \A x : x \in Seconds(from, to) <=> x \in Int /\ from <= x /\ x < to
    BY <2>6 DEF Seconds
  <2>9. Touches(row, from, to) <=> a < to /\ b > from
    BY <2>1, <2>3 DEF Touches
  <2>10. ASSUME a < to, b > from PROVE Within(row) \cap Seconds(from, to) # {}
    <3>1. Greater(a, from) \in Int /\ a <= Greater(a, from) /\ from <= Greater(a, from)
          /\ Greater(a, from) < b /\ Greater(a, from) < to
      BY <2>4, <2>6, <2>10 DEF Greater
    <3> QED
      BY <2>7, <2>8, <3>1
  <2>11. ASSUME NEW x \in Within(row), x \in Seconds(from, to) PROVE a < to /\ b > from
    BY <2>4, <2>6, <2>7, <2>8, <2>11
  <2>12. Touches(row, from, to) <=> Within(row) \cap Seconds(from, to) # {}
    BY <2>9, <2>10, <2>11
  <2> QED
    BY <2>5, <2>12
<1> QED
  BY <1>1 DEF Flags

(* Two lists of intervals with the same entries.                           *)
SameIntervals(s, t) ==
  /\ DOMAIN s.rows = DOMAIN t.rows
  /\ \A k \in DOMAIN s.rows : s.rows[k] = t.rows[k]

LEMMA TablesAreSidecars ==
  ASSUME NEW s, s.rows \in Seq({s.rows[k] : k \in DOMAIN s.rows}),
         \A k \in DOMAIN s.rows : {s.rows[k].start, s.rows[k].end} \subseteq Int64 \cup {Null}
  PROVE  IsSidecar(s)
<1>1. Len(s.rows) \in Nat /\ DOMAIN s.rows = 1 .. Len(s.rows)
  OBVIOUS
<1>2. \A x \in Int64 : x \in Int
  BY DEF Int64
<1> QED
  BY <1>1, <1>2 DEF IsSidecar

LEMMA FirstOfAList ==
  ASSUME NEW X, NEW q \in Seq(X), NEW n \in 0 .. Len(q)
  PROVE  /\ Len(SubSeq(q, 1, n)) = n /\ DOMAIN SubSeq(q, 1, n) = 1 .. n
         /\ \A k \in 1 .. n : SubSeq(q, 1, n)[k] = q[k]
<1>1. \A k \in 1 .. n : k \in 1 .. Len(q)
  OBVIOUS
<1> QED
  BY <1>1

(* read_annotations: what is read of a file is all of it.                  *)
LEMMA ReadIsTheFile ==
  ASSUME NEW file \in SidecarFile, NEW cap \in RowCap, ReadVerdict(file, cap) = "ok",
         NEW read, read = [usable |-> TRUE, rows |-> Table(file, cap)]
  PROVE  IsSidecar(read) /\ SoundSidecar(read) /\ SameIntervals(read, file)
<1>1. /\ file.typed /\ file.named /\ SoundSidecar(read)
      /\ cap # Null => Len(Table(file, cap)) <= cap /\ cap >= 1
  BY StepsAssumption, CellAssumption DEF ReadVerdict
<1>2. /\ file.rows \in Seq({file.rows[k] : k \in DOMAIN file.rows})
      /\ \A k \in DOMAIN file.rows :
           {file.rows[k].start, file.rows[k].end} \subseteq Int64 \cup {Null}
  BY <1>1, SidecarAssumption
<1>3. PICK rows : rows = file.rows
  OBVIOUS
<1>4. PICK n : n = Len(rows)
  OBVIOUS
<1>5. n \in Nat /\ DOMAIN rows = 1 .. n /\ rows \in Seq({rows[k] : k \in DOMAIN rows})
  BY <1>2, <1>3, <1>4
<1>6. PICK table : table = Table(file, cap)
  OBVIOUS
<1>7. DOMAIN table = 1 .. n /\ Len(table) = n /\ \A k \in 1 .. n : table[k] = rows[k]
  <2>1. CASE cap = Null
    BY <1>3, <1>4, <1>5, <1>6, <2>1 DEF Table
  <2>2. CASE cap # Null
    <3>1. cap \in Int /\ cap >= 1 /\ Len(table) <= cap
      BY <1>1, <1>6, <2>2, StepsAssumption
    <3>2. PICK m : m = Lesser(cap + 1, n)
      OBVIOUS
    <3>3. m \in 0 .. n /\ (m = n \/ m = cap + 1)
      BY <1>5, <3>1, <3>2 DEF Lesser
    <3>4. table = SubSeq(rows, 1, m)
      BY <1>3, <1>4, <1>6, <2>2, <3>2 DEF Table
    <3>5. /\ Len(table) = m /\ DOMAIN table = 1 .. m
          /\ \A k \in 1 .. m : table[k] = rows[k]
      BY <1>4, <1>5, <3>3, <3>4, FirstOfAList
    <3>6. m = n
      BY <1>5, <3>1, <3>3, <3>5
    <3> QED
      BY <1>4, <3>5, <3>6
  <2> QED
    BY <2>1, <2>2
<1>8. SameIntervals(read, file)
  BY <1>3, <1>5, <1>6, <1>7 DEF SameIntervals
<1>9. IsSidecar(read)
  <2>1. \A k \in 1 .. n : {rows[k].start, rows[k].end} \subseteq Int64 \cup {Null}
    BY <1>2, <1>3, <1>5
  <2>2. \A x \in Int64 : x \in Int
    BY DEF Int64
  <2>3. \A k \in 1 .. n : {table[k].start, table[k].end} \subseteq Int \cup {Null}
    BY <1>7, <2>1, <2>2
  <2> QED
    BY <1>5, <1>6, <1>7, <2>3 DEF IsSidecar
<1> QED
  BY <1>1, <1>8, <1>9

(* A row states the overlap of its window with those intervals, and their  *)
(* flags.                                                                  *)
Annotated(row, s) ==
  LET inside(k) == Within(row) \cap Seconds(s.rows[k].start, s.rows[k].end) IN
  /\ row.added[OverlapColumn] = Cardinality(UNION {inside(k) : k \in DOMAIN s.rows})
  /\ Within(row) # {} =>
       row.added[FlagsColumn] = {s.rows[k].flag : k \in {k \in DOMAIN s.rows : inside(k) # {}}}

LEMMA AnnotatedByTheSame ==
  ASSUME NEW row, NEW s, NEW t, SameIntervals(s, t), Annotated(row, s)
  PROVE  Annotated(row, t)
<1>1. DOMAIN s.rows = DOMAIN t.rows /\ \A k \in DOMAIN s.rows : s.rows[k] = t.rows[k]
  BY DEF SameIntervals
<1> DEFINE inside(u, k) == Within(row) \cap Seconds(u.rows[k].start, u.rows[k].end)
<1>2. \A k \in DOMAIN s.rows : inside(s, k) = inside(t, k) /\ s.rows[k].flag = t.rows[k].flag
  BY <1>1
<1>3. /\ row.added[OverlapColumn] = Cardinality(UNION {inside(s, k) : k \in DOMAIN s.rows})
      /\ Within(row) # {} =>
           row.added[FlagsColumn] =
             {s.rows[k].flag : k \in {k \in DOMAIN s.rows : inside(s, k) # {}}}
  BY DEF Annotated
<1> HIDE DEF inside
<1>4. {inside(s, k) : k \in DOMAIN s.rows} = {inside(t, k) : k \in DOMAIN t.rows}
  BY <1>1, <1>2
<1>5. {k \in DOMAIN s.rows : inside(s, k) # {}} = {k \in DOMAIN t.rows : inside(t, k) # {}}
  BY <1>1, <1>2
<1>6. {s.rows[k].flag : k \in {k \in DOMAIN s.rows : inside(s, k) # {}}} =
        {t.rows[k].flag : k \in {k \in DOMAIN t.rows : inside(t, k) # {}}}
  <2>1. PICK K : K = {k \in DOMAIN s.rows : inside(s, k) # {}}
    OBVIOUS
  <2>2. K = {k \in DOMAIN t.rows : inside(t, k) # {}} /\ \A k \in K : s.rows[k].flag = t.rows[k].flag
    BY <1>2, <1>5, <2>1
  <2>3. {s.rows[k].flag : k \in K} = {t.rows[k].flag : k \in K}
    BY <2>2
  <2> QED
    BY <2>1, <2>2, <2>3
<1>7. /\ row.added[OverlapColumn] = Cardinality(UNION {inside(t, k) : k \in DOMAIN t.rows})
      /\ Within(row) # {} =>
           row.added[FlagsColumn] =
             {t.rows[k].flag : k \in {k \in DOMAIN t.rows : inside(t, k) # {}}}
  BY <1>3, <1>4, <1>6
<1> QED
  BY <1>7 DEF Annotated, inside

(* The cells a row is annotated by.                                        *)
LEMMA AnnotatedAlike ==
  ASSUME NEW row, NEW s, Annotated(row, s), NEW other,
         other.open_time = row.open_time, other.close_time = row.close_time,
         other.added[OverlapColumn] = row.added[OverlapColumn],
         other.added[FlagsColumn] = row.added[FlagsColumn]
  PROVE  Annotated(other, s)
<1>1. Within(other) = Within(row)
  BY DEF Within
<1> QED
  BY <1>1 DEF Annotated

-----------------------------------------------------------------------------
(* The annotations of a frame, through any calls.                          *)

(* Whatever annotates a frame is of these intervals.                       *)
AnnotatedBy(f, s) ==
  OverlapColumn \in f.added =>
    /\ FlagsColumn \in f.added
    /\ \A i \in DOMAIN f.rows : Annotated(f.rows[i], s)

(* What may be joined is sound, and all of what it was read from.          *)
IsReadOf(read, file) == IsSidecar(read) /\ SoundSidecar(read) /\ SameIntervals(read, file)

(* The inductive invariant of the annotations.                             *)
AnnotationsSoFar ==
  /\ RowsSoFar
  /\ sidecar # Null => IsReadOf(sidecar.read, sidecar.file)
  /\ AnnotatedBy(frame, joined)

(* The rows of a frame have bounds, and keep them when they gain columns.  *)
LEMMA ShownBounds ==
  ASSUME history \in History, NEW f, NEW S \in SUBSET DOMAIN history.rows, Shows(f, S),
         NEW i \in DOMAIN f.rows
  PROVE  HasBounds(f.rows[i])
<1>1. PICK j \in S : IsRow(f.rows[i], j)
  BY ShownRows
<1>2. /\ history.rows[j] \in WindowRow
      /\ f.rows[i].open_time = history.rows[j].open_time
      /\ f.rows[i].close_time = history.rows[j].close_time
  BY <1>1, ShownRow
<1>3. \A x \in Int64 : x \in Int
  BY DEF Int64
<1> QED
  BY <1>2, <1>3 DEF WindowRow, HasBounds

LEMMA GainedBounds ==
  ASSUME history \in History, NEW f, NEW S \in SUBSET DOMAIN history.rows, Shows(f, S),
         NEW values, NEW g, g = WithColumns(f, values), NEW i \in DOMAIN f.rows
  PROVE  g.rows[i].open_time = f.rows[i].open_time /\ g.rows[i].close_time = f.rows[i].close_time
<1>1. Shows(g, S) /\ Widens(g, f, values)
  BY WithColumnsShows
<1>2. g.rows[i] = [f.rows[i] EXCEPT !.added = g.rows[i].added]
  BY <1>1 DEF Widens
<1>3. PICK j \in S : IsRow(f.rows[i], j)
  BY ShownRows
<1>4. IsRow(g.rows[i], j) /\ j \in DOMAIN history.rows
  BY <1>2, <1>3 DEF IsRow
<1> QED
  BY <1>3, <1>4, ShownRow

(* Other columns leave the annotations.                                    *)
LEMMA OthersKeepAnnotations ==
  ASSUME history \in History, NEW f, NEW S \in SUBSET DOMAIN history.rows, Shows(f, S),
         NEW values, AnnotationGroup \cap DOMAIN values = {},
         NEW g, g = WithColumns(f, values), NEW s, AnnotatedBy(f, s)
  PROVE  AnnotatedBy(g, s)
<1>1. /\ g.added = f.added \cup DOMAIN values /\ DOMAIN g.rows = DOMAIN f.rows
      /\ Widens(g, f, values)
  BY WithColumnsShows
<1>2. FlagsColumn \notin DOMAIN values /\ OverlapColumn \notin DOMAIN values
  BY DEF AnnotationGroup
<1>3. SUFFICES ASSUME OverlapColumn \in g.added
               PROVE  /\ FlagsColumn \in g.added
                      /\ \A i \in DOMAIN g.rows : Annotated(g.rows[i], s)
  BY DEF AnnotatedBy
<1>4. /\ OverlapColumn \in f.added /\ FlagsColumn \in f.added
      /\ \A i \in DOMAIN f.rows : Annotated(f.rows[i], s)
  BY <1>1, <1>2, <1>3 DEF AnnotatedBy
<1>5. ASSUME NEW i \in DOMAIN f.rows PROVE Annotated(g.rows[i], s)
  <2>1. \A c \in f.added \ DOMAIN values : g.rows[i].added[c] = f.rows[i].added[c]
    BY <1>1 DEF Widens
  <2>2. /\ g.rows[i].added[OverlapColumn] = f.rows[i].added[OverlapColumn]
        /\ g.rows[i].added[FlagsColumn] = f.rows[i].added[FlagsColumn]
    BY <1>2, <1>4, <2>1
  <2>3. g.rows[i].open_time = f.rows[i].open_time /\ g.rows[i].close_time = f.rows[i].close_time
    BY GainedBounds
  <2> QED
    BY <1>4, <2>2, <2>3, AnnotatedAlike
<1> QED
  BY <1>1, <1>4, <1>5

(* annotate_windows                                                        *)
LEMMA JoiningAnnotates ==
  ASSUME history \in History, NEW f, NEW S \in SUBSET DOMAIN history.rows, Shows(f, S),
         NEW read, NEW file, IsReadOf(read, file),
         NEW g, g = WithColumns(f, Annotations(f, read))
  PROVE  AnnotatedBy(g, file)
<1>1. PICK values : values = Annotations(f, read)
  OBVIOUS
<1>2. /\ DOMAIN values = {FlagsColumn, OverlapColumn}
      /\ \A i \in DOMAIN f.rows : values[FlagsColumn][i] = Flags(f.rows[i], read)
      /\ \A i \in DOMAIN f.rows : values[OverlapColumn][i] = OverlapSeconds(f.rows[i], read)
  <2>1. FlagsColumn # OverlapColumn
    BY DEF FlagsColumn, OverlapColumn
  <2> QED
    BY <1>1, <2>1 DEF Annotations
<1>3. /\ g.added = f.added \cup DOMAIN values /\ DOMAIN g.rows = DOMAIN f.rows
      /\ Widens(g, f, values)
  BY <1>1, WithColumnsShows
<1>4. ASSUME NEW i \in DOMAIN f.rows PROVE Annotated(g.rows[i], file)
  <2>1. PICK row : row = g.rows[i]
    OBVIOUS
  <2>2. /\ row.open_time = f.rows[i].open_time /\ row.close_time = f.rows[i].close_time
    BY <2>1, GainedBounds
  <2>3. HasBounds(f.rows[i])
    BY ShownBounds
  <2>4. HasBounds(row) /\ Within(row) = Within(f.rows[i])
    BY <2>2, <2>3 DEF HasBounds, Within
  <2>5. /\ row.added[OverlapColumn] = OverlapSeconds(f.rows[i], read)
        /\ row.added[FlagsColumn] = Flags(f.rows[i], read)
    <3>1. /\ row.added[OverlapColumn] = values[OverlapColumn][i]
          /\ row.added[FlagsColumn] = values[FlagsColumn][i]
      <4>1. \A c \in DOMAIN values : row.added[c] = values[c][i]
        BY <1>3, <2>1 DEF Widens
      <4> QED
        BY <1>2, <4>1
    <3> QED
      BY <1>2, <3>1
  <2>6. OverlapSeconds(f.rows[i], read) =
          Cardinality(UNION {Within(f.rows[i]) \cap Seconds(read.rows[k].start, read.rows[k].end) :
                               k \in DOMAIN read.rows})
    BY <2>3, OverlapCountsTheUnion DEF IsReadOf
  <2>7. Within(f.rows[i]) # {} =>
          Flags(f.rows[i], read) =
            {read.rows[k].flag : k \in {k \in DOMAIN read.rows :
               Within(f.rows[i]) \cap Seconds(read.rows[k].start, read.rows[k].end) # {}}}
    BY <2>3, FlagsAreOfTheShared DEF IsReadOf
  <2>8. Annotated(row, read)
    BY <2>4, <2>5, <2>6, <2>7 DEF Annotated
  <2> QED
    BY <2>1, <2>8, AnnotatedByTheSame DEF IsReadOf
<1> QED
  BY <1>2, <1>3, <1>4 DEF AnnotatedBy

(* A policy joins nothing.                                                 *)
LEMMA PoliciesJoinNothing ==
  ASSUME ApplyQualityPolicy
  PROVE  sidecar' = sidecar /\ joined' = joined
<1>1. CASE RefuseUnmeasured
  BY <1>1 DEF RefuseUnmeasured
<1>2. ASSUME NEW policy, NEW written,
             \/ RefusePolicy(policy)
             \/ CannotReport(policy)
             \/ MeasureOnly(policy) \/ FilterWindows(policy, written) \/ StrictGate(policy)
      PROVE  sidecar' = sidecar /\ joined' = joined
  BY <1>2 DEF RefusePolicy, CannotReport, MeasureOnly, FilterWindows, StrictGate, Reported
<1> QED
  BY <1>1, <1>2 DEF ApplyQualityPolicy

(* The columns of returns are no annotations.                              *)
LEMMA ReturnsAnnotateNothing ==
  ASSUME NEW c \in ReturnCall
  PROVE  /\ AnnotationGroup \cap BackwardGroup(c) = {}
         /\ AnnotationGroup \cap ForwardGroup(c) = {}
         /\ AnnotationGroup \cap ExcursionGroup(c) = {}
BY ColumnsDiffer DEF AnnotationGroup, BackwardGroup, ForwardGroup, ExcursionGroup

(* What may be joined.                                                     *)
LEMMA JoinableAreRead ==
  ASSUME AnnotationsSoFar, NEW s \in Joinable, s.read.usable, SoundSidecar(s.read)
  PROVE  IsReadOf(s.read, s.file)
<1>1. CASE sidecar # Null /\ s = sidecar
  BY <1>1 DEF AnnotationsSoFar
<1>2. ASSUME NEW own \in Sidecar, s = [read |-> own, file |-> own]
      PROVE  IsReadOf(s.read, s.file)
  <2>1. s.read = own /\ s.file = own
    BY <1>2
  <2>2. own.usable
    BY <2>1
  <2>3. /\ own.rows \in Seq({own.rows[k] : k \in DOMAIN own.rows})
        /\ \A k \in DOMAIN own.rows : {own.rows[k].start, own.rows[k].end} \subseteq Int64 \cup {Null}
    BY <2>2, SidecarAssumption
  <2>4. IsSidecar(own)
    BY <2>3, TablesAreSidecars
  <2> QED
    BY <2>1, <2>4 DEF IsReadOf, SameIntervals
<1> QED
  BY <1>1, <1>2 DEF Joinable

(* Every call leaves the annotations right.                                *)
LEMMA NextAnnotations ==
  ASSUME AnnotationsSoFar, StepsNext
  PROVE  /\ sidecar' # Null => IsReadOf(sidecar'.read, sidecar'.file)
         /\ AnnotatedBy(frame', joined')
<1>1. /\ history \in History /\ Shows(frame, Passing) /\ Passing \in SUBSET DOMAIN history.rows
      /\ sidecar # Null => IsReadOf(sidecar.read, sidecar.file)
      /\ AnnotatedBy(frame, joined)
  BY PassingRows DEF AnnotationsSoFar, RowsSoFar
<1>2. ASSUME frame' = frame, joined' = joined PROVE AnnotatedBy(frame', joined')
  BY <1>1, <1>2
<1>3. CASE ApplyQualityPolicy
  <2>1. sidecar' = sidecar /\ joined' = joined
    BY <1>3, PoliciesJoinNothing
  <2>2. ASSUME NEW written \in Policy, Filtered(written) PROVE AnnotatedBy(frame', joined')
    <3>1. PICK policy : policy = PolicyFromDict(written)
      OBVIOUS
    <3>2. frame' = Without(frame, Offending(frame, policy, Window)) /\ LegalPolicy(policy)
      BY <2>2, <3>1 DEF Filtered
    <3>3. frame'.added = frame.added /\ RowsAmong(frame', frame)
      BY <1>1, <3>1, <3>2, FilteredShows
    <3> QED
      BY <1>1, <2>1, <3>3 DEF AnnotatedBy, RowsAmong
  <2>3. frame' = frame \/ \E written \in Policy : Filtered(written)
    BY <1>3, PoliciesDo
  <2> QED
    BY <1>1, <1>2, <2>1, <2>2, <2>3
<1>4. ASSUME NEW file \in SidecarFile, NEW cap \in RowCap, ReadAnnotations(file, cap)
      PROVE  /\ sidecar' # Null => IsReadOf(sidecar'.read, sidecar'.file)
             /\ frame' = frame /\ joined' = joined
  <2>1. frame' = frame /\ joined' = joined /\ outcome' = ReadVerdict(file, cap)
    BY <1>4 DEF ReadAnnotations, Call
  <2>2. PICK read : read = [usable |-> TRUE, rows |-> Table(file, cap)]
    OBVIOUS
  <2>3. sidecar' = IF outcome' # "ok" THEN Null ELSE [read |-> read, file |-> file]
    BY <1>4, <2>2 DEF ReadAnnotations
  <2>4. sidecar' # Null => IsReadOf(sidecar'.read, sidecar'.file)
    <3>1. ASSUME sidecar' # Null PROVE IsReadOf(sidecar'.read, sidecar'.file)
      <4>1. ReadVerdict(file, cap) = "ok" /\ sidecar' = [read |-> read, file |-> file]
        BY <2>1, <2>3, <3>1
      <4>2. IsReadOf(read, file)
        BY <2>2, <4>1, ReadIsTheFile DEF IsReadOf
      <4> QED
        BY <4>1, <4>2
    <3> QED
      BY <3>1
  <2> QED
    BY <2>1, <2>4
<1>5. ASSUME NEW s \in Joinable, AnnotateWindows(s.read, s.file)
      PROVE  sidecar' = sidecar /\ AnnotatedBy(frame', joined')
  <2>1. PICK read, file : read = s.read /\ file = s.file
    OBVIOUS
  <2>2. AnnotateWindows(read, file)
    BY <1>5, <2>1
  <2> DEFINE accepted == /\ Bounded(frame) /\ read.usable
                         /\ AbsentColumns(frame, {FlagsColumn, OverlapColumn})
  <2>3. /\ sidecar' = sidecar
        /\ read.usable => SoundSidecar(read)
        /\ frame' = IF accepted THEN WithColumns(frame, Annotations(frame, read)) ELSE frame
        /\ joined' = IF accepted THEN file ELSE joined
    BY <2>2 DEF AnnotateWindows, Compose, Call
  <2>4. CASE accepted
    <3>1. IsReadOf(read, file)
      BY <2>1, <2>3, <2>4, JoinableAreRead
    <3> QED
      BY <1>1, <2>3, <2>4, <3>1, JoiningAnnotates
  <2>5. CASE ~accepted
    BY <1>2, <2>3, <2>5
  <2> QED
    BY <2>3, <2>4, <2>5
<1>6. ASSUME NEW s \in Joinable, RefuseSidecar(s.read)
      PROVE  sidecar' = sidecar /\ frame' = frame /\ joined' = joined
  BY <1>6 DEF RefuseSidecar, Call
<1>7. ASSUME NEW values, AnnotationGroup \cap DOMAIN values = {},
             frame' = frame \/ frame' = WithColumns(frame, values), joined' = joined
      PROVE  AnnotatedBy(frame', joined')
  <2>1. CASE frame' = frame
    BY <1>2, <1>7, <2>1
  <2>2. CASE frame' = WithColumns(frame, values)
    <3>1. AnnotatedBy(frame', joined)
      BY <1>1, <1>7, <2>2, OthersKeepAnnotations
    <3> QED
      BY <1>7, <3>1
  <2> QED
    BY <1>7, <2>1, <2>2
<1>8. ASSUME NEW d \in ReturnCall, AddBackwardReturns(d)
      PROVE  sidecar' = sidecar /\ AnnotatedBy(frame', joined')
  <2>1. PICK values : values =
          [x \in {Column("backward", d)} |-> [i \in DOMAIN frame.rows |->
             ReturnOf(frame.rows[i].close, Counterpart(frame, i, -d.horizon), d.method)]]
    OBVIOUS
  <2>2. /\ frame' = frame \/ frame' = WithColumns(frame, values)
        /\ sidecar' = sidecar /\ joined' = joined
    BY <1>8, <2>1 DEF AddBackwardReturns, Compose, Call
  <2>3. DOMAIN values = BackwardGroup(d)
    BY <2>1 DEF BackwardGroup
  <2> QED
    BY <1>7, <2>2, <2>3, ReturnsAnnotateNothing
<1>9. ASSUME NEW d \in ReturnCall, AddForwardReturns(d)
      PROVE  sidecar' = sidecar /\ AnnotatedBy(frame', joined')
  <2>1. PICK values : values =
          [x \in {Column("forward", d), Column("forward_available_at", d)} |->
             [i \in DOMAIN frame.rows |->
                IF x = Column("forward", d)
                THEN ReturnOf(Counterpart(frame, i, d.horizon), frame.rows[i].close, d.method)
                ELSE Shifted(frame.rows[i], d.horizon)]]
    OBVIOUS
  <2>2. /\ frame' = frame \/ frame' = WithColumns(frame, values)
        /\ sidecar' = sidecar /\ joined' = joined
    BY <1>9, <2>1 DEF AddForwardReturns, Compose, Call
  <2>3. DOMAIN values = ForwardGroup(d)
    BY <2>1 DEF ForwardGroup
  <2> QED
    BY <1>7, <2>2, <2>3, ReturnsAnnotateNothing
<1>10. ASSUME NEW d \in ReturnCall, AddForwardExcursions(d)
       PROVE  sidecar' = sidecar /\ AnnotatedBy(frame', joined')
  <2> DEFINE n == d.horizon \div d.cadence
             value(f, i, x) ==
               CASE x = Column("mfe", d) ->
                      ReturnOf(ForwardExtremum(f, i, n, "high", TRUE), f.rows[i].close, d.method)
                 [] x = Column("mae", d) ->
                      ReturnOf(ForwardExtremum(f, i, n, "low", FALSE), f.rows[i].close, d.method)
                 [] x = Column("excursion_available_at", d) -> Shifted(f.rows[i], d.horizon)
  <2>1. PICK values : values =
          [x \in {Column("mfe", d), Column("mae", d), Column("excursion_available_at", d)} |->
             [i \in DOMAIN frame.rows |-> value(frame, i, x)]]
    OBVIOUS
  <2>2. /\ frame' = frame \/ frame' = WithColumns(frame, values)
        /\ sidecar' = sidecar /\ joined' = joined
    BY <1>10, <2>1 DEF AddForwardExcursions, Compose, Call
  <2>3. DOMAIN values = ExcursionGroup(d)
    BY <2>1 DEF ExcursionGroup
  <2> QED
    BY <1>7, <2>2, <2>3, ReturnsAnnotateNothing
<1> QED
  BY <1>1, <1>2, <1>3, <1>4, <1>5, <1>6, <1>8, <1>9, <1>10 DEF StepsNext

(* The overlap an annotation states is the number of the window's seconds  *)
(* inside any of the intervals, however the sidecar orders, nests or       *)
(* repeats them, and its flags are those of the intervals that share a     *)
(* second with it; of a sidecar read from a file, all of the file's        *)
(* (annotate_windows, _merged, read_annotations).  Nothing that is called  *)
(* after changes it.                                                       *)
THEOREM AnnotationsCountTheUnion == StepsSpec => []OverlapIsTheUnion
<1>1. StepsInit => AnnotationsSoFar
  <2> SUFFICES ASSUME StepsInit PROVE AnnotationsSoFar
    OBVIOUS
  <2>1. frame = history /\ history \in History /\ sidecar = Null
    BY DEF StepsInit
  <2>2. frame.added = {}
    <3>1. history = [have |-> history.have, added |-> {}, rows |-> history.rows]
      BY <2>1, HistoryRows
    <3> QED
      BY <2>1, <3>1
  <2> QED
    BY <2>1, <2>2, InitRows DEF AnnotationsSoFar, AnnotatedBy
<1>2. AnnotationsSoFar /\ [StepsNext]_steps_vars => AnnotationsSoFar'
  <2> SUFFICES ASSUME AnnotationsSoFar, [StepsNext]_steps_vars PROVE AnnotationsSoFar'
    OBVIOUS
  <2>1. RowsSoFar'
    BY NextRows DEF AnnotationsSoFar
  <2>2. /\ sidecar' # Null => IsReadOf(sidecar'.read, sidecar'.file)
        /\ AnnotatedBy(frame', joined')
    <3>1. CASE StepsNext
      BY <3>1, NextAnnotations
    <3>2. CASE UNCHANGED steps_vars
      BY <3>2 DEF steps_vars, AnnotationsSoFar
    <3> QED
      BY <3>1, <3>2
  <2> QED
    BY <2>1, <2>2 DEF AnnotationsSoFar
<1>3. AnnotationsSoFar => OverlapIsTheUnion
  <2> SUFFICES ASSUME AnnotationsSoFar, OverlapColumn \in frame.added, NEW i \in DOMAIN frame.rows
               PROVE  Annotated(frame.rows[i], joined)
    BY DEF OverlapIsTheUnion, Annotated, Within
  <2> QED
    BY DEF AnnotationsSoFar, AnnotatedBy
<1> QED
  BY <1>1, <1>2, <1>3, PTL DEF StepsSpec

=============================================================================
