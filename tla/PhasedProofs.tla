----------------------------- MODULE PhasedProofs -----------------------------
(***************************************************************************)
(* Proofs about PhasedIndicators, for every set of frames, requests and    *)
(* records and any bound on a lookback, with cells that are exact numbers. *)
(***************************************************************************)
EXTENDS PhasedIndicators, FiniteSetTheorems, WellFoundedInduction, TLAPS

-----------------------------------------------------------------------------
(* Arithmetic                                                              *)

(* No remainder means a multiple.                                          *)
LEMMA ModMeans ==
  ASSUME NEW m \in Nat \ {0}, NEW x \in Int
  PROVE  x % m = 0 <=> \E k \in Int : x = m * k
<1>1. ASSUME x % m = 0 PROVE \E k \in Int : x = m * k
  <2>1. x = m * (x \div m) /\ x \div m \in Int
    BY <1>1
  <2> QED
    BY <2>1
<1>2. ASSUME NEW k \in Int, x = m * k PROVE x % m = 0
  BY <1>2
<1> QED
  BY <1>1, <1>2

(* Multiples add up.                                                       *)
LEMMA ModAdd ==
  ASSUME NEW m \in Nat \ {0}, NEW x \in Int, NEW y \in Int, x % m = 0, y % m = 0
  PROVE  (x + y) % m = 0 /\ (x - y) % m = 0
<1>1. PICK j \in Int : x = m * j
  BY ModMeans
<1>2. PICK k \in Int : y = m * k
  BY ModMeans
<1> DEFINE sum == x + y
           rest == x - y
<1>3. /\ sum = m * (j + k) /\ j + k \in Int /\ sum \in Int
      /\ rest = m * (j - k) /\ j - k \in Int /\ rest \in Int
  BY <1>1, <1>2
<1> HIDE DEF sum, rest
<1>4. sum % m = 0 /\ rest % m = 0
  BY <1>3, ModMeans
<1> QED
  BY <1>4 DEF sum, rest

(* What divides a divisor divides its multiples.                           *)
LEMMA ModThrough ==
  ASSUME NEW m \in Nat \ {0}, NEW e \in Nat \ {0}, NEW x \in Int, e % m = 0, x % e = 0
  PROVE  x % m = 0
<1>1. PICK k \in Int : e = m * k
  BY ModMeans
<1>2. PICK j \in Int : x = e * j
  BY ModMeans
<1>3. x = m * (k * j) /\ k * j \in Int
  BY <1>1, <1>2
<1> QED
  BY <1>3, ModMeans

(* A positive multiple is not below what it is a multiple of.              *)
LEMMA MultipleIsNotBelow ==
  ASSUME NEW m \in Nat \ {0}, NEW x \in Int, x % m = 0, x > 0
  PROVE  x >= m
<1>1. PICK k \in Int : x = m * k
  BY ModMeans
<1>2. k >= 1
  <2>1. ASSUME k <= 0 PROVE m * k <= 0
    BY <2>1
  <2> QED
    BY <1>1, <2>1
<1>3. m * k >= m
  BY <1>2
<1> QED
  BY <1>1, <1>3

(* Two numbers leave the same remainder when they are a multiple apart.    *)
LEMMA SameRemainder ==
  ASSUME NEW m \in Nat \ {0}, NEW x \in Int, NEW y \in Int
  PROVE  x % m = y % m <=> (x - y) % m = 0
<1> DEFINE r == x % m
           s == y % m
           p == x \div m
           q == y \div m
           gap == x - y
<1>1. /\ r \in 0 .. m - 1 /\ p \in Int /\ x = m * p + r
      /\ s \in 0 .. m - 1 /\ q \in Int /\ y = m * q + s
      /\ gap \in Int /\ gap = x - y
  OBVIOUS
<1> HIDE DEF r, s, p, q, gap
<1>2. ASSUME r = s PROVE gap % m = 0
  <2>1. gap = m * (p - q) /\ p - q \in Int
    BY <1>1, <1>2
  <2> QED
    BY <1>1, <2>1, ModMeans
<1>3. ASSUME gap % m = 0 PROVE r = s
  <2>1. PICK k \in Int : gap = m * k
    BY <1>1, <1>3, ModMeans
  <2> DEFINE l == k - p + q
  <2>2. l \in Int /\ r - s = m * l
    BY <1>1, <2>1
  <2> HIDE DEF l
  <2>3. -m < m * l /\ m * l < m
    BY <1>1, <2>2
  <2>4. l = 0
    <3>1. ASSUME l >= 1 PROVE FALSE
      <4>1. m * l >= m
        BY <2>2, <3>1
      <4> QED
        BY <2>2, <2>3, <4>1
    <3>2. ASSUME l <= -1 PROVE FALSE
      <4>1. m * (-l) >= m
        BY <2>2, <3>2
      <4>2. m * (-l) = -(m * l) /\ m * l \in Int
        BY <2>2
      <4> QED
        BY <2>3, <4>1, <4>2
    <3> QED
      BY <2>2, <3>1, <3>2
  <2> QED
    BY <1>1, <2>2, <2>4
<1> QED
  BY <1>2, <1>3 DEF r, s, gap

(* The least element of a set of naturals, by the order's being            *)
(* well-founded.                                                           *)
LEMMA LeastOfNat ==
  ASSUME NEW T \in SUBSET Nat, T # {}
  PROVE  \E x \in T : \A y \in T : x <= y
<1> DEFINE R == OpToRel(<, Nat)
<1>1. IsWellFoundedOn(R, Nat)
  BY NatLessThanWellFounded
<1> HIDE DEF R
<1>2. PICK x \in T : \A y \in T : <<y, x>> \notin R
  BY <1>1, WFMin
<1>3. \A y \in T : ~(y < x)
  BY <1>2 DEF R, OpToRel
<1> QED
  BY <1>3

(* The greatest element of a bounded one.                                  *)
LEMMA GreatestOfBounded ==
  ASSUME NEW T \in SUBSET Nat, T # {}, NEW n \in Nat, \A y \in T : y <= n
  PROVE  \E x \in T : \A y \in T : y <= x
<1> DEFINE U == {n - y : y \in T}
<1>1. U \in SUBSET Nat /\ U # {}
  <2>1. PICK y \in T : TRUE
    OBVIOUS
  <2>2. n - y \in U
    BY <2>1
  <2>3. \A z \in T : n - z \in Nat
    OBVIOUS
  <2> QED
    BY <2>2, <2>3
<1>2. PICK u \in U : \A v \in U : u <= v
  BY <1>1, LeastOfNat
<1>3. PICK x \in T : u = n - x
  BY <1>2
<1>4. ASSUME NEW y \in T PROVE y <= x
  <2>1. n - x <= n - y /\ x \in Nat /\ y \in Nat
    BY <1>2, <1>3
  <2> QED
    BY <2>1
<1> QED
  BY <1>4

(* An element below all others is the least, and one above all the         *)
(* greatest.                                                               *)
LEMMA LeastIs ==
  ASSUME NEW S \in SUBSET Int, NEW m \in S, \A x \in S : m <= x
  PROVE  LeastOf(S) = m
<1>1. LeastOf(S) \in S /\ \A y \in S : LeastOf(S) <= y
  BY DEF LeastOf
<1>2. LeastOf(S) \in Int /\ m \in Int /\ LeastOf(S) <= m /\ m <= LeastOf(S)
  BY <1>1
<1> QED
  BY <1>2

LEMMA GreatestIs ==
  ASSUME NEW S \in SUBSET Int, NEW m \in S, \A x \in S : x <= m
  PROVE  (CHOOSE x \in S : \A y \in S : x >= y) = m
<1> DEFINE g == CHOOSE x \in S : \A y \in S : x >= y
<1>1. g \in S /\ \A y \in S : g >= y
  OBVIOUS
<1> HIDE DEF g
<1>2. m \in Int /\ g \in Int /\ g <= m /\ m <= g
  BY <1>1
<1> QED
  BY <1>2 DEF g

-----------------------------------------------------------------------------
(* A grid of closes                                                        *)

(* A frame whose rows state when they close.                               *)
Timed(f) ==
  /\ Len(f.rows) \in Nat /\ Len(f.rows) >= 2 /\ DOMAIN f.rows = 1 .. Len(f.rows)
  /\ \A i \in DOMAIN f.rows : f.rows[i].close_time \in Int

Closes(f) == {f.rows[i].close_time : i \in DOMAIN f.rows}

(* The steps no other is commoner than.                                    *)
Commonest(f) ==
  {s \in StepSizes(f) : \A u \in StepSizes(f) : Occurrences(f, u) <= Occurrences(f, s)}

(* The steps are those from one row to the next.                           *)
LEMMA StepsAre ==
  ASSUME NEW f, Timed(f)
  PROVE  /\ StepSizes(f) \in SUBSET Int /\ StepSizes(f) # {}
         /\ \A i \in 1 .. Len(f.rows) - 1 :
              f.rows[i + 1].close_time - f.rows[i].close_time \in StepSizes(f)
         /\ \A s \in StepSizes(f) : \E i \in 1 .. Len(f.rows) - 1 :
              s = f.rows[i + 1].close_time - f.rows[i].close_time
<1> DEFINE n == Len(f.rows)
           step(i) == f.rows[i + 1].close_time - f.rows[i].close_time
<1>1. /\ n \in Nat /\ n >= 2
      /\ DOMAIN Steps(f) = 1 .. n - 1 /\ \A i \in 1 .. n - 1 : Steps(f)[i] = step(i)
  BY DEF Timed, Steps
<1>2. \A i \in 1 .. n - 1 : step(i) \in Int
  BY <1>1, SMTT(60) DEF Timed
<1> HIDE DEF n, step
<1>3. \A s : s \in StepSizes(f) <=> \E i \in 1 .. n - 1 : s = step(i)
  BY <1>1 DEF StepSizes
<1>4. step(1) \in StepSizes(f)
  BY <1>1, <1>3
<1> QED
  BY <1>2, <1>3, <1>4 DEF n, step

(* Some step is commonest, and the cadence is the least of those.          *)
LEMMA CadenceIsCommonest ==
  ASSUME NEW f, Timed(f), \A s \in StepSizes(f) : s > 0
  PROVE  /\ Commonest(f) \in SUBSET (Nat \ {0})
         /\ Cadence(f) \in Commonest(f)
         /\ \A s \in Commonest(f) : Cadence(f) <= s
<1> DEFINE n == Len(f.rows)
           places(s) == {i \in DOMAIN Steps(f) : Steps(f)[i] = s}
           counts == {Occurrences(f, s) : s \in StepSizes(f)}
<1>1. n \in Nat /\ n >= 1 /\ DOMAIN Steps(f) = 1 .. n - 1
  BY DEF Timed, Steps
<1> HIDE DEF n
<1>2. StepSizes(f) \in SUBSET (Nat \ {0}) /\ StepSizes(f) # {}
  BY StepsAre
<1>3. \A s : Occurrences(f, s) \in Nat /\ Occurrences(f, s) <= n
  <2> TAKE s
  <2>1. IsFiniteSet(1 .. n) /\ Cardinality(1 .. n) = n
    <3>1. Cardinality(1 .. n) = n - 1 + 1
      BY <1>1, FS_Interval
    <3> QED
      BY <1>1, <3>1, FS_Interval
  <2>2. places(s) \in SUBSET (1 .. n)
    BY <1>1
  <2>3. Cardinality(places(s)) \in Nat /\ Cardinality(places(s)) <= n
    BY <2>1, <2>2, FS_Subset, FS_CardinalityType
  <2> QED
    BY <2>3 DEF Occurrences
<1>4. counts \in SUBSET Nat /\ counts # {} /\ \A c \in counts : c <= n
  BY <1>2, <1>3
<1>5. PICK most \in counts : \A c \in counts : c <= most
  BY <1>1, <1>4, GreatestOfBounded
<1>6. PICK s \in StepSizes(f) : most = Occurrences(f, s)
  BY <1>5
<1>7. s \in Commonest(f)
  BY <1>5, <1>6 DEF Commonest
<1>8. Commonest(f) \in SUBSET (Nat \ {0})
  BY <1>2 DEF Commonest
<1>9. \E x \in Commonest(f) : \A y \in Commonest(f) : x <= y
  BY <1>7, <1>8, LeastOfNat
<1>10. Cadence(f) = LeastOf(Commonest(f))
  BY DEF Cadence, Commonest
<1> QED
  BY <1>8, <1>9, <1>10 DEF LeastOf

(* Steps forward put the whole frame in order: of the later rows that      *)
(* close no later, the first would step back.                              *)
LEMMA RowsAscend ==
  ASSUME NEW f, Timed(f), \A s \in StepSizes(f) : s > 0
  PROVE  \A i, j \in DOMAIN f.rows : i < j => f.rows[i].close_time < f.rows[j].close_time
<1> DEFINE n == Len(f.rows)
           close(i) == f.rows[i].close_time
<1>1. n \in Nat /\ DOMAIN f.rows = 1 .. n /\ \A i \in 1 .. n : close(i) \in Int
  BY DEF Timed
<1>2. \A i \in 1 .. n - 1 : close(i + 1) > close(i)
  <2> TAKE i \in 1 .. n - 1
  <2>1. close(i + 1) - close(i) > 0 /\ i \in 1 .. n /\ i + 1 \in 1 .. n
    BY <1>1, StepsAre
  <2> QED
    BY <1>1, <2>1
<1> HIDE DEF n, close
<1> SUFFICES ASSUME NEW i \in 1 .. n, NEW j \in 1 .. n, i < j, close(j) <= close(i)
             PROVE  FALSE
  BY <1>1 DEF close
<1> DEFINE back == {k \in i + 1 .. n : close(k) <= close(i)}
<1>3. j \in back /\ back \in SUBSET Nat
  BY <1>1
<1>4. PICK k \in back : \A l \in back : k <= l
  BY <1>3, LeastOfNat
<1>5. k \in Nat /\ i < k /\ k <= n /\ close(k) <= close(i) /\ k - 1 \in 1 .. n - 1
  BY <1>1, <1>4
<1>6. close(k - 1) < close(k)
  BY <1>2, <1>5
<1>7. CASE k = i + 1
  BY <1>1, <1>5, <1>6, <1>7
<1>8. CASE k > i + 1
  <2>1. k - 1 \in back
    BY <1>1, <1>5, <1>6, <1>8
  <2> QED
    BY <1>4, <1>5, <2>1
<1> QED
  BY <1>5, <1>7, <1>8

(* Steps of whole units keep every close on one residue.                   *)
LEMMA RowsAreOnOneResidue ==
  ASSUME NEW f, Timed(f), NEW d \in Nat \ {0}, \A s \in StepSizes(f) : s % d = 0
  PROVE  \A i \in DOMAIN f.rows : (f.rows[i].close_time - f.rows[1].close_time) % d = 0
<1> DEFINE n == Len(f.rows)
           close(i) == f.rows[i].close_time
           off == {k \in 1 .. n : (close(k) - close(1)) % d # 0}
<1>1. n \in Nat /\ DOMAIN f.rows = 1 .. n /\ \A i \in 1 .. n : close(i) \in Int
  BY DEF Timed
<1>2. \A i \in 1 .. n - 1 : (close(i + 1) - close(i)) % d = 0
  BY StepsAre
<1> HIDE DEF n, close
<1> SUFFICES ASSUME off # {} PROVE FALSE
  BY <1>1 DEF close
<1>3. PICK k \in off : \A l \in off : k <= l
  <2>1. off \in SUBSET Nat
    BY <1>1
  <2> HIDE DEF off
  <2> QED
    BY <2>1, LeastOfNat
<1>4. k # 1
  <2>1. k = 1 => close(k) - close(1) = 0
    BY <1>1, <1>3
  <2>2. 0 % d = 0
    OBVIOUS
  <2> QED
    BY <1>3, <2>1, <2>2
<1>5. k \in 1 .. n /\ k - 1 \in 1 .. n - 1 /\ k - 1 \notin off
  BY <1>1, <1>3, <1>4
<1> DEFINE before == close(k - 1) - close(1)
           step == close(k) - close(k - 1)
<1>6. before \in Int /\ before % d = 0
  BY <1>1, <1>5
<1>7. step \in Int /\ step % d = 0
  BY <1>1, <1>2, <1>5
<1>8. step + before = close(k) - close(1)
  BY <1>1, <1>5
<1> HIDE DEF before, step
<1>9. (step + before) % d = 0
  BY <1>6, <1>7, ModAdd
<1> QED
  BY <1>3, <1>8, <1>9

-----------------------------------------------------------------------------
(* What is let through                                                     *)

(* What a usable request and a whole frame are made of.                    *)
LEMMA UsableTypes ==
  ASSUME source \in Source, request \in Request, UsableRequest(request), source.complete
  PROVE  /\ request.window \in Nat \ {0} /\ request.emit_every \in Nat \ {0}
         /\ request.lookback \in Nat \ {0} /\ request.min_traded_seconds \in Nat
         /\ request.anchor \in Int
         /\ Len(source.rows) \in Nat /\ DOMAIN source.rows = 1 .. Len(source.rows)
         /\ \A i \in DOMAIN source.rows :
              /\ source.rows[i].open_time \in Int \cup {Null}
              /\ source.rows[i].close_time \in Int \cup {Null}
              /\ source.rows[i].cells["traded_seconds"] \in Int \cup {Null}
         /\ Null \notin Int /\ Null \notin Seq(CellsOf(source))
BY LookbackAssumption, GridAssumption DEF UsableRequest

(* One span for all rows is the window's.                                  *)
LEMMA OneSpan ==
  ASSUME Timed(source), NEW w \in Int, Null \notin Int,
         \A i \in DOMAIN source.rows : source.rows[i].open_time \in Int \cup {Null}
  PROVE  Spans(source) = {w} <=>
           \A i \in DOMAIN source.rows : /\ source.rows[i].open_time # Null
                                         /\ source.rows[i].close_time = source.rows[i].open_time + w
<1> DEFINE span(i) == IF source.rows[i].open_time = Null THEN Null
                      ELSE source.rows[i].close_time - source.rows[i].open_time
<1>1. Spans(source) = {span(i) : i \in DOMAIN source.rows}
  BY DEF Spans
<1>2. \A i \in DOMAIN source.rows :
        span(i) = w <=> /\ source.rows[i].open_time # Null
                        /\ source.rows[i].close_time = source.rows[i].open_time + w
  BY DEF Timed
<1>3. 1 \in DOMAIN source.rows
  BY DEF Timed
<1> HIDE DEF span
<1>4. Spans(source) = {w} <=> \A i \in DOMAIN source.rows : span(i) = w
  BY <1>1, <1>3
<1> QED
  BY <1>2, <1>4

(* The checks of a request against its frame let through exactly the       *)
(* lawful: that the cadence is the least of the commonest steps, and not   *)
(* some other of them, excludes none.                                      *)
LEMMA LawfulIsResolvable ==
  ASSUME source \in Source, request \in Request
  PROVE  ResolvableGrid(source, request) <=> Lawful
<1> SUFFICES ASSUME UsableRequest(request), source.complete
             PROVE  ResolvableGrid(source, request) <=> Lawful
  BY DEF ResolvableGrid, Lawful
<1> DEFINE rows == source.rows
           n == Len(rows)
           w == request.window
           e == request.emit_every
           steps == StepSizes(source)
           gap == rows[1].close_time - request.anchor
<1>1. /\ w \in Nat \ {0} /\ e \in Nat \ {0} /\ request.anchor \in Int
      /\ n \in Nat /\ DOMAIN rows = 1 .. n
      /\ \A i \in 1 .. n : rows[i].open_time \in Int \cup {Null}
      /\ \A i \in 1 .. n : rows[i].close_time \in Int \cup {Null}
      /\ Null \notin Int
  BY UsableTypes
<1>2. Lawful <=>
        /\ \A i \in 1 .. n : Null \notin {rows[i].open_time, rows[i].close_time}
        /\ n > 1
        /\ \A i, j \in 1 .. n : i < j => rows[i].close_time < rows[j].close_time
        /\ \A i \in 1 .. n : rows[i].close_time = rows[i].open_time + w
        /\ \E d \in Commonest(source) : \A x \in steps \cup {w, e, gap} : x % d = 0
  BY <1>1 DEF Lawful, Commonest
<1>3. ResolvableGrid(source, request) <=>
        /\ RegularGrid(source)
        /\ Spans(source) = {w}
        /\ w % Cadence(source) = 0
        /\ e % Cadence(source) = 0
        /\ AnchorOnTheGrid(source, request)
  BY DEF ResolvableGrid, CadenceDividesWindow
<1>4. ASSUME Timed(source), NEW d \in Nat \ {0}
      PROVE  /\ gap \in Int
             /\ rows[1].close_time % d = request.anchor % d <=> gap % d = 0
  <2> DEFINE c == source.rows[1].close_time
             a == request.anchor
  <2>1. c \in Int /\ a \in Int /\ gap = c - a
    BY <1>1, <1>4 DEF Timed
  <2> HIDE DEF c, a, gap
  <2>2. c % d = a % d <=> (c - a) % d = 0
    BY <2>1, SameRemainder
  <2>3. gap \in Int /\ (c % d = a % d <=> gap % d = 0)
    BY <2>1, <2>2
  <2> QED
    BY <2>3 DEF c, a
<1>5. Timed(source) => (Spans(source) = {w} <=>
        \A i \in 1 .. n : rows[i].open_time # Null /\ rows[i].close_time = rows[i].open_time + w)
  <2>1. /\ w \in Int /\ DOMAIN source.rows = 1 .. n
        /\ \A i \in DOMAIN source.rows : source.rows[i].open_time \in Int \cup {Null}
    BY <1>1
  <2> HIDE DEF w
  <2> QED
    BY <1>1, <2>1, OneSpan
<1>6. ASSUME ResolvableGrid(source, request) PROVE Lawful
  <2>1. Timed(source)
    BY <1>1, <1>3, <1>6 DEF Timed, RegularGrid
  <2>2. \A s \in steps : s > 0 /\ s % Cadence(source) = 0
    BY <1>3, <1>6 DEF RegularGrid
  <2>3. Cadence(source) \in Commonest(source) /\ Cadence(source) \in Nat \ {0}
    BY <2>1, <2>2, CadenceIsCommonest
  <2>4. \A i, j \in 1 .. n : i < j => rows[i].close_time < rows[j].close_time
    BY <1>1, <2>1, <2>2, RowsAscend
  <2>5. \A i \in 1 .. n : rows[i].open_time # Null /\ rows[i].close_time = rows[i].open_time + w
    BY <1>3, <1>6, <1>5, <2>1
  <2>6. gap % Cadence(source) = 0
    BY <1>3, <1>4, <1>6, <2>1, <2>3 DEF AnchorOnTheGrid
  <2>7. \A x \in steps \cup {w, e, gap} : x % Cadence(source) = 0
    BY <1>3, <1>6, <2>2, <2>6
  <2>8. n > 1 /\ \A i \in 1 .. n : rows[i].close_time # Null
    BY <1>1, <2>1 DEF Timed
  <2> HIDE DEF n, rows, w, e, gap, steps
  <2> QED
    BY <1>2, <2>3, <2>4, <2>5, <2>7, <2>8
<1>7. ASSUME Lawful PROVE ResolvableGrid(source, request)
  <2>1. Timed(source)
    BY <1>1, <1>2, <1>7 DEF Timed
  <2>2. \A s \in steps : s > 0
    <3> TAKE s \in steps
    <3>1. PICK i \in 1 .. n - 1 : s = rows[i + 1].close_time - rows[i].close_time
      BY <2>1, StepsAre
    <3>2. i \in 1 .. n /\ i + 1 \in 1 .. n
      BY <1>1, <3>1
    <3>3. rows[i].close_time < rows[i + 1].close_time
      BY <1>2, <1>7, <3>2
    <3> QED
      BY <2>1, <3>1, <3>2, <3>3 DEF Timed
  <2>3. PICK d \in Commonest(source) : \A x \in steps \cup {w, e, gap} : x % d = 0
    BY <1>2, <1>7
  <2>4. Commonest(source) \in SUBSET (Nat \ {0}) /\ Commonest(source) \subseteq steps
        /\ Cadence(source) \in Commonest(source) /\ Cadence(source) <= d
    BY <2>1, <2>2, CadenceIsCommonest DEF Commonest
  <2>5. Cadence(source) >= d
    BY <2>3, <2>4, MultipleIsNotBelow
  <2>6. Cadence(source) = d
    BY <2>4, <2>5
  <2>7. RegularGrid(source)
    BY <1>1, <1>2, <1>7, <2>2, <2>3, <2>6 DEF RegularGrid
  <2>8. Spans(source) = {w}
    BY <1>1, <1>2, <1>7, <1>5, <2>1
  <2>9. AnchorOnTheGrid(source, request)
    BY <1>4, <2>1, <2>3, <2>4, <2>6 DEF AnchorOnTheGrid
  <2> QED
    BY <1>3, <2>3, <2>6, <2>7, <2>8, <2>9
<1> QED
  BY <1>6, <1>7

(* What there is to know of a request that is let through.                 *)
LEMMA ResolvableMeans ==
  ASSUME source \in Source, request \in Request, ResolvableGrid(source, request)
  PROVE  /\ Timed(source)
         /\ request.window \in Nat \ {0} /\ request.emit_every \in Nat \ {0}
         /\ request.lookback \in Nat \ {0} /\ request.min_traded_seconds \in Nat
         /\ request.anchor \in Int
         /\ \A i, j \in DOMAIN source.rows :
              i < j => source.rows[i].close_time < source.rows[j].close_time
         /\ \A i \in DOMAIN source.rows :
              source.rows[i].cells["traded_seconds"] \in Int \cup {Null}
         /\ Cadence(source) \in Nat \ {0} /\ Cadence(source) \in StepSizes(source)
         /\ \A x \in StepSizes(source) \cup {request.window, request.emit_every} :
              x % Cadence(source) = 0
         /\ (source.rows[1].close_time - request.anchor) % Cadence(source) = 0
<1>1. UsableRequest(request) /\ source.complete /\ RegularGrid(source)
  BY DEF ResolvableGrid
<1>2. Timed(source)
  BY <1>1, UsableTypes DEF Timed, RegularGrid
<1>3. \A s \in StepSizes(source) : s > 0
  BY <1>1 DEF RegularGrid
<1>4. \A i, j \in DOMAIN source.rows :
        i < j => source.rows[i].close_time < source.rows[j].close_time
  BY <1>2, <1>3, RowsAscend
<1>5. Cadence(source) \in Nat \ {0} /\ Cadence(source) \in StepSizes(source)
  BY <1>2, <1>3, CadenceIsCommonest DEF Commonest
<1>6. source.rows[1].close_time \in Int /\ request.anchor \in Int
  BY <1>1, <1>2, UsableTypes DEF Timed
<1>7. (source.rows[1].close_time - request.anchor) % Cadence(source) = 0
  <2>1. source.rows[1].close_time % Cadence(source) = request.anchor % Cadence(source)
    BY DEF ResolvableGrid, AnchorOnTheGrid
  <2> QED
    BY <1>5, <1>6, <2>1, SameRemainder
<1>8. \A x \in StepSizes(source) \cup {request.window, request.emit_every} :
        x % Cadence(source) = 0
  BY <1>1 DEF RegularGrid, ResolvableGrid, CadenceDividesWindow
<1> QED
  BY <1>1, <1>2, <1>4, <1>5, <1>7, <1>8, UsableTypes

-----------------------------------------------------------------------------
(* The emit grid                                                           *)

(* The first instant of a grid at or after a bound.                        *)
LEMMA FirstOfGrid ==
  ASSUME NEW lowest \in Int, NEW anchor \in Int, NEW e \in Nat \ {0}
  PROVE  LET offset == (lowest - anchor) % e
             first == IF offset = 0 THEN lowest ELSE lowest + e - offset IN
         first \in lowest .. lowest + e - 1 /\ (first - anchor) % e = 0
<1> DEFINE x == lowest - anchor
           offset == x % e
           first == IF offset = 0 THEN lowest ELSE lowest + e - offset
<1>1. x \in Int /\ x = lowest - anchor
  OBVIOUS
<1> HIDE DEF x
<1>2. offset \in 0 .. e - 1 /\ \E k \in Int : x = e * k + offset
  <2>1. x = e * (x \div e) + (x % e) /\ x \div e \in Int /\ (x % e) \in 0 .. e - 1
    BY <1>1
  <2> QED
    BY <2>1
<1> HIDE DEF offset
<1>3. PICK k \in Int : x = e * k + offset
  BY <1>2
<1>4. first \in lowest .. lowest + e - 1
  BY <1>2
<1>5. \E j \in Int : first - anchor = e * j
  <2>1. CASE offset = 0
    BY <1>1, <1>3, <2>1
  <2>2. CASE offset # 0
    <3>1. first - anchor = e * (k + 1)
      BY <1>1, <1>2, <1>3, <2>2
    <3> QED
      BY <3>1
  <2> QED
    BY <2>1, <2>2
<1>6. first - anchor \in Int
  BY <1>4
<1> DEFINE y == first - anchor
<1>7. y % e = 0
  <2>1. y \in Int /\ \E j \in Int : y = e * j
    BY <1>5, <1>6
  <2> HIDE DEF y
  <2> QED
    BY <2>1, ModMeans
<1> QED
  BY <1>1, <1>4, <1>7 DEF offset, x

OnGrid(t, anchor, e) == (t - anchor) % e = 0

CountFrom(first, highest, e) == IF first > highest THEN 0 ELSE (highest - first) \div e + 1

Counted(t, first, count, e) == \E n \in 1 .. count : t = first + (n - 1) * e

(* Counting on from it by whole steps reaches every instant of the grid up *)
(* to the other bound, and none beyond.                                    *)
LEMMA GridIsCounted ==
  ASSUME NEW lowest \in Int, NEW highest \in Int, NEW anchor \in Int, NEW e \in Nat \ {0},
         NEW first \in lowest .. lowest + e - 1, OnGrid(first, anchor, e),
         NEW count, count = CountFrom(first, highest, e)
  PROVE  /\ count \in Nat
         /\ \A t \in Int : t \in lowest .. highest /\ OnGrid(t, anchor, e) <=>
                             Counted(t, first, count, e)
<1> DEFINE q == (highest - first) \div e
           y == first - anchor
<1>0. count = IF first > highest THEN 0 ELSE q + 1
  BY DEF CountFrom
<1>1. first \in Int /\ lowest <= first /\ first < lowest + e /\ y \in Int /\ y = first - anchor
  OBVIOUS
<1>2. q \in Int /\ e * q <= highest - first /\ highest - first < e * q + e
  <2> DEFINE z == highest - first
  <2>1. z \in Int
    BY <1>1
  <2> HIDE DEF z
  <2>2. z = e * (z \div e) + (z % e) /\ z \div e \in Int /\ (z % e) \in 0 .. e - 1
    BY <2>1
  <2>3. z \div e \in Int /\ e * (z \div e) <= z /\ z < e * (z \div e) + e
    BY <2>1, <2>2
  <2> QED
    BY <2>3 DEF z
<1>3. y % e = 0
  BY DEF OnGrid
<1> HIDE DEF q, y
<1>4. first <= highest => q >= 0
  <2> SUFFICES ASSUME first <= highest, q <= -1 PROVE FALSE
    BY <1>2
  <2>1. e * (q + 1) <= 0
    BY <1>2
  <2> QED
    BY <1>1, <1>2, <2>1
<1>5. count \in Nat
  BY <1>0, <1>1, <1>2, <1>4
<1>6. ASSUME NEW n \in 1 .. count
      PROVE  first + (n - 1) * e \in lowest .. highest /\ OnGrid(first + (n - 1) * e, anchor, e)
  <2>1. first <= highest /\ count = q + 1 /\ n - 1 \in Nat /\ n - 1 <= q
    BY <1>0, <1>1, <1>2, <1>5, <1>6
  <2> DEFINE k == n - 1
  <2>2. k \in Nat /\ k <= q
    BY <2>1
  <2> HIDE DEF k
  <2>3. k * e \in Nat /\ k * e <= e * q
    <3>1. e * (q - k) >= 0
      BY <1>2, <2>2
    <3>2. e * (q - k) = e * q - k * e
      BY <1>2, <2>2
    <3> QED
      BY <1>2, <2>2, <3>1, <3>2
  <2>4. first + k * e \in lowest .. highest
    BY <1>1, <1>2, <2>3
  <2> DEFINE m == k * e
  <2>5. m \in Int /\ m % e = 0 /\ y + m = (first + m) - anchor
    <3>1. m \in Int /\ m = e * k
      BY <2>2
    <3> HIDE DEF m
    <3>2. m % e = 0
      BY <2>2, <3>1, ModMeans
    <3> QED
      BY <1>1, <3>1, <3>2
  <2> HIDE DEF m
  <2>6. (y + m) % e = 0
    BY <1>1, <1>3, <2>5, ModAdd
  <2> QED
    BY <2>4, <2>5, <2>6 DEF k, m, OnGrid
<1>7. ASSUME NEW t \in lowest .. highest, OnGrid(t, anchor, e)
      PROVE  \E n \in 1 .. count : t = first + (n - 1) * e
  <2> DEFINE x == t - anchor
  <2>1. x \in Int /\ x % e = 0 /\ t \in Int /\ x - y = t - first
    BY <1>1, <1>7 DEF OnGrid
  <2> HIDE DEF x
  <2>2. (x - y) % e = 0 /\ x - y \in Int
    <3>1. y \in Int /\ x \in Int /\ x - y \in Int
      BY <1>1, <2>1
    <3>2. (x - y) % e = 0
      BY <1>3, <2>1, <3>1, ModAdd
    <3> QED
      BY <3>1, <3>2
  <2>3. PICK k \in Int : x - y = e * k
    BY <2>2, ModMeans
  <2>4. t = first + e * k
    BY <1>1, <2>1, <2>3
  <2>5. k >= 0
    <3> SUFFICES ASSUME k <= -1 PROVE FALSE
      BY <2>3
    <3>1. e * (k + 1) <= 0
      BY <2>3
    <3> QED
      BY <1>1, <2>1, <2>3, <2>4, <3>1
  <2>6. k <= q /\ first <= highest
    <3>1. e * k >= 0
      BY <2>5
    <3>2. first <= highest /\ e * k <= highest - first
      BY <1>1, <1>7, <2>1, <2>4, <3>1
    <3>3. e * k < e * q + e
      BY <1>1, <1>2, <2>3, <3>2
    <3>4. ASSUME k >= q + 1 PROVE FALSE
      <4>1. e * (k - q - 1) >= 0
        BY <1>2, <2>3, <3>4
      <4> QED
        BY <1>2, <2>3, <3>3, <4>1
    <3> QED
      BY <1>2, <2>3, <3>2, <3>4
  <2>7. k + 1 \in 1 .. count /\ t = first + ((k + 1) - 1) * e
    BY <1>0, <1>1, <1>2, <2>4, <2>5, <2>6
  <2> QED
    BY <2>7
<1>8. \A t \in Int : t \in lowest .. highest /\ OnGrid(t, anchor, e) <=>
                       Counted(t, first, count, e)
  <2> TAKE t \in Int
  <2>1. ASSUME t \in lowest .. highest /\ OnGrid(t, anchor, e)
        PROVE  \E n \in 1 .. count : t = first + (n - 1) * e
    BY <1>7, <2>1
  <2>2. ASSUME NEW n \in 1 .. count, t = first + (n - 1) * e
        PROVE  t \in lowest .. highest /\ OnGrid(t, anchor, e)
    BY <1>6, <2>2, Zenon
  <2> QED
    BY <2>1, <2>2 DEF Counted
<1> QED
  BY <1>5, <1>8

(* So the ticks of a call that is let through are exactly the instants of  *)
(* the emit grid that the frame spans, in order.                           *)
LEMMA TicksAreTheGrid ==
  ASSUME source \in Source, request \in Request, ResolvableGrid(source, request)
  PROVE  LET lowest == source.rows[1].close_time
             highest == source.rows[Len(source.rows)].close_time IN
         /\ LeastOf(Closes(source)) = lowest
         /\ lowest \in Int /\ highest \in Int
         /\ Len(Ticks) \in Nat /\ DOMAIN Ticks = 1 .. Len(Ticks)
         /\ \A n \in DOMAIN Ticks : Ticks[n] \in Int
         /\ {Ticks[n] : n \in DOMAIN Ticks} =
              {t \in lowest .. highest : (t - request.anchor) % request.emit_every = 0}
         /\ \A m, n \in DOMAIN Ticks : m < n => Ticks[m] < Ticks[n]
<1> DEFINE rows == source.rows
           last == Len(rows)
           lowest == rows[1].close_time
           highest == rows[last].close_time
           anchor == request.anchor
           e == request.emit_every
           offset == (lowest - anchor) % e
           first == IF offset = 0 THEN lowest ELSE lowest + e - offset
           count == CountFrom(first, highest, e)
<1>1. /\ last \in Nat /\ last >= 2 /\ DOMAIN rows = 1 .. last
      /\ \A i \in 1 .. last : rows[i].close_time \in Int
      /\ \A i, j \in 1 .. last : i < j => rows[i].close_time < rows[j].close_time
      /\ anchor \in Int /\ e \in Nat \ {0}
  BY ResolvableMeans DEF Timed
<1>2. \A i \in 1 .. last : lowest <= rows[i].close_time /\ rows[i].close_time <= highest
  <2> TAKE i \in 1 .. last
  <2>1. 1 \in 1 .. last /\ last \in 1 .. last /\ (i = 1 \/ 1 < i) /\ (i = last \/ i < last)
    BY <1>1
  <2> QED
    BY <1>1, <2>1, SMTT(60)
<1>3. lowest \in Int /\ highest \in Int /\ lowest \in Closes(source) /\ highest \in Closes(source)
      /\ Closes(source) \in SUBSET Int
  BY <1>1 DEF Closes
<1>4. \A x \in Closes(source) : lowest <= x /\ x <= highest
  BY <1>1, <1>2 DEF Closes
<1> HIDE DEF lowest, highest
<1>5. LeastOf(Closes(source)) = lowest
      /\ (CHOOSE x \in Closes(source) : \A y \in Closes(source) : x >= y) = highest
  BY <1>3, <1>4, LeastIs, GreatestIs
<1>6. Ticks = [n \in 1 .. count |-> first + (n - 1) * e]
  BY <1>5 DEF Ticks, EmitTicks, Closes, CountFrom
<1>7. first \in lowest .. lowest + e - 1 /\ OnGrid(first, anchor, e)
  BY <1>1, <1>3, FirstOfGrid, ZenonT(60) DEF OnGrid
<1> HIDE DEF anchor, e, offset, first
<1>8. /\ count \in Nat
      /\ \A t \in Int : t \in lowest .. highest /\ OnGrid(t, anchor, e) <=>
                          Counted(t, first, count, e)
  <2>1. lowest \in Int /\ highest \in Int /\ anchor \in Int /\ e \in Nat \ {0}
    BY <1>1, <1>3
  <2>2. count = CountFrom(first, highest, e)
    OBVIOUS
  <2> HIDE DEF count
  <2> QED
    BY <1>7, <2>1, <2>2, GridIsCounted
<1> HIDE DEF count
<1>9. first \in Int /\ \A n \in 1 .. count : first + (n - 1) * e \in Int
  BY <1>1, <1>3, <1>7, <1>8
<1>10. Len(Ticks) = count /\ DOMAIN Ticks = 1 .. count
  BY <1>6, <1>8
<1>11. {Ticks[n] : n \in DOMAIN Ticks} = {t \in lowest .. highest : OnGrid(t, anchor, e)}
  <2>1. \A t : t \in {Ticks[n] : n \in DOMAIN Ticks} <=> \E n \in 1 .. count : t = first + (n - 1) * e
    BY <1>6, <1>10
  <2>2. \A t \in lowest .. highest : t \in Int
    BY <1>3
  <2> QED
    BY <1>8, <1>9, <2>1, <2>2 DEF Counted
<1>12. ASSUME NEW m \in 1 .. count, NEW n \in 1 .. count, m < n PROVE Ticks[m] < Ticks[n]
  <2>1. m \in Int /\ n \in Int /\ n - m >= 1
    BY <1>8, <1>12
  <2>2. e * (n - m) >= e
    BY <1>1, <2>1
  <2>3. (n - 1) * e = (m - 1) * e + e * (n - m) /\ (m - 1) * e \in Int
    BY <1>1, <2>1
  <2>4. first + (m - 1) * e < first + (n - 1) * e
    BY <1>1, <1>9, <2>1, <2>2, <2>3
  <2> QED
    BY <1>6, <2>4
<1> QED
  BY <1>3, <1>5, <1>6, <1>8, <1>9, <1>10, <1>11, <1>12
     DEF lowest, highest, anchor, e, OnGrid

-----------------------------------------------------------------------------
(* What a tick is answered, by either implementation                       *)

TheWindow(t, k) == CHOOSE i \in WindowsAt(Instant(t, k)) : TRUE

PromisedOf(t) ==
  IF FullyPresent(t)
  THEN [x \in Field |-> [k \in 1 .. request.lookback |-> source.rows[TheWindow(t, k)].cells[x]]]
  ELSE NoLists

(* Of a grid, at most one window closes at an instant.                     *)
LEMMA OneWindow ==
  ASSUME source \in Source, request \in Request, ResolvableGrid(source, request),
         NEW instant, NEW i \in WindowsAt(instant)
  PROVE  WindowsAt(instant) = {i}
<1>1. /\ \A a \in DOMAIN source.rows : a \in Int /\ source.rows[a].close_time \in Int
      /\ \A a, b \in DOMAIN source.rows :
           a < b => source.rows[a].close_time < source.rows[b].close_time
  BY ResolvableMeans DEF Timed
<1>2. ASSUME NEW j \in WindowsAt(instant) PROVE j = i
  <2>1. /\ i \in DOMAIN source.rows /\ j \in DOMAIN source.rows
        /\ source.rows[i].close_time = source.rows[j].close_time
    BY <1>2 DEF WindowsAt
  <2> QED
    BY <1>1, <2>1
<1> QED
  BY <1>2

LEMMA WindowsAreCounted ==
  ASSUME source \in Source, request \in Request, ResolvableGrid(source, request), NEW instant
  PROVE  /\ Cardinality(WindowsAt(instant)) = 1 <=> WindowsAt(instant) # {}
         /\ WindowsAt(instant) # {} =>
              WindowsAt(instant) = {CHOOSE i \in WindowsAt(instant) : TRUE}
<1>1. CASE WindowsAt(instant) = {}
  BY <1>1, FS_EmptySet
<1>2. CASE WindowsAt(instant) # {}
  <2> DEFINE i == CHOOSE i \in WindowsAt(instant) : TRUE
  <2>1. i \in WindowsAt(instant)
    BY <1>2
  <2>2. WindowsAt(instant) = {i}
    BY <2>1, OneWindow
  <2>3. Cardinality({i}) = 1
    BY FS_Singleton
  <2> QED
    BY <1>2, <2>2, <2>3
<1> QED
  BY <1>1, <1>2

(* The two implementations refuse a row, and the one that joins drops it   *)
(* before it looks at the other cells, just when it is not present.        *)
LEMMA RefusedIsNotPresent ==
  ASSUME source \in Source, request \in Request, ResolvableGrid(source, request),
         NEW i \in DOMAIN source.rows
  PROVE  /\ Refused(source.rows[i]) <=> ~Present(source.rows[i])
         /\ Present(source.rows[i]) <=>
              i \in Admitted(source, request) /\ \A x \in Field : source.rows[i].cells[x] # Null
<1> DEFINE traded == source.rows[i].cells["traded_seconds"]
<1>1. traded \in Int \cup {Null} /\ request.min_traded_seconds \in Nat
  BY ResolvableMeans
<1>2. "traded_seconds" \in Field
  BY GridAssumption
<1> QED
  BY <1>1, <1>2 DEF Refused, Present, Admitted

(* The scans.                                                              *)
LEMMA AssembledIsPromised ==
  ASSUME source \in Source, request \in Request, ResolvableGrid(source, request), NEW t \in Int
  PROVE  Assemble(t) = PromisedOf(t)
<1> DEFINE l == request.lookback
           found(phase) == source.rows[CHOOSE i \in Matched(t, phase) : TRUE]
           fails(phase) == Cardinality(Matched(t, phase)) # 1 \/ Refused(found(phase))
<1>1. l \in Nat \ {0} /\ request.window \in Int
  BY ResolvableMeans
<1>2. \A k \in 1 .. l : Matched(t, k - 1) = WindowsAt(Instant(t, k))
  BY DEF Matched, WindowsAt, Instant
<1>3. ASSUME NEW k \in 1 .. l
      PROVE  /\ found(k - 1) = source.rows[TheWindow(t, k)]
             /\ fails(k - 1) <=> ~ \E i \in WindowsAt(Instant(t, k)) : Present(source.rows[i])
  <2>1. Matched(t, k - 1) = WindowsAt(Instant(t, k))
    BY <1>2
  <2>2. found(k - 1) = source.rows[TheWindow(t, k)]
    BY <2>1 DEF TheWindow
  <2>3. CASE WindowsAt(Instant(t, k)) = {}
    <3>1. Cardinality(Matched(t, k - 1)) # 1
      BY <2>1, <2>3, WindowsAreCounted
    <3>2. fails(k - 1)
      BY <3>1
    <3> QED
      BY <2>2, <2>3, <3>2
  <2>4. CASE WindowsAt(Instant(t, k)) # {}
    <3>1. /\ Cardinality(Matched(t, k - 1)) = 1
          /\ WindowsAt(Instant(t, k)) = {TheWindow(t, k)}
      BY <2>1, <2>4, WindowsAreCounted DEF TheWindow
    <3>2. TheWindow(t, k) \in DOMAIN source.rows
      BY <3>1 DEF WindowsAt
    <3>3. Refused(source.rows[TheWindow(t, k)]) <=> ~Present(source.rows[TheWindow(t, k)])
      BY <3>2, RefusedIsNotPresent
    <3> QED
      BY <2>2, <3>1, <3>3
  <2> QED
    BY <2>2, <2>3, <2>4
<1>4. (\E phase \in 0 .. l - 1 : fails(phase)) <=> \E k \in 1 .. l : fails(k - 1)
  <2>1. ASSUME NEW phase \in 0 .. l - 1, fails(phase) PROVE \E k \in 1 .. l : fails(k - 1)
    <3>1. phase + 1 \in 1 .. l /\ (phase + 1) - 1 = phase
      BY <1>1
    <3> HIDE DEF fails
    <3>2. fails((phase + 1) - 1)
      BY <2>1, <3>1
    <3> QED
      BY <3>1, <3>2
  <2>2. ASSUME NEW k \in 1 .. l, fails(k - 1) PROVE \E phase \in 0 .. l - 1 : fails(phase)
    <3>1. k - 1 \in 0 .. l - 1
      BY <1>1
    <3> HIDE DEF fails
    <3> QED
      BY <2>2, <3>1
  <2> HIDE DEF fails
  <2> QED
    BY <2>1, <2>2
<1>5. Assemble(t) = IF \E phase \in 0 .. l - 1 : fails(phase) THEN NoLists
                    ELSE [x \in Field |-> [k \in 1 .. l |-> found(k - 1).cells[x]]]
  BY DEF Assemble
<1> HIDE DEF fails, found
<1>6. (\E phase \in 0 .. l - 1 : fails(phase)) <=> ~FullyPresent(t)
  BY <1>3, <1>4 DEF FullyPresent
<1>7. [x \in Field |-> [k \in 1 .. l |-> found(k - 1).cells[x]]]
        = [x \in Field |-> [k \in 1 .. l |-> source.rows[TheWindow(t, k)].cells[x]]]
  BY <1>3
<1> QED
  BY <1>5, <1>6, <1>7 DEF PromisedOf

(* One phase of the joins.                                                 *)
LEMMA JoinedIs ==
  ASSUME source \in Source, request \in Request, ResolvableGrid(source, request), NEW t \in Int,
         NEW k \in 1 .. request.lookback
  PROVE  LET cells == Joined(source, request, k - 1, t)
             present == \E i \in WindowsAt(Instant(t, k)) : Present(source.rows[i]) IN
         /\ (\E x \in Field : cells[x] = Null) <=> ~present
         /\ present => cells = source.rows[TheWindow(t, k)].cells
<1> DEFINE rows == source.rows
           at == WindowsAt(Instant(t, k))
           matching == {i \in Admitted(source, request) :
                          rows[i].close_time + (k - 1) * request.window = t}
           cells == Joined(source, request, k - 1, t)
<1>1. cells = IF matching = {} THEN NoCells ELSE rows[CHOOSE i \in matching : TRUE].cells
  BY DEF Joined
<1>2. matching = {i \in at : i \in Admitted(source, request)}
  <2>1. request.window \in Int /\ \A i \in DOMAIN rows : rows[i].close_time \in Int
    BY ResolvableMeans DEF Timed
  <2>2. request.lookback \in Nat /\ (k - 1) * request.window \in Int
    BY <2>1, ResolvableMeans
  <2>3. Admitted(source, request) \subseteq DOMAIN rows
    BY DEF Admitted
  <2> DEFINE offset == (k - 1) * request.window
  <2> HIDE DEF offset
  <2>4. \A i \in DOMAIN rows : rows[i].close_time + offset = t <=> rows[i].close_time = t - offset
    BY <2>1, <2>2 DEF offset
  <2>5. at = {i \in DOMAIN rows : rows[i].close_time = t - offset}
    BY DEF WindowsAt, Instant, offset
  <2>6. matching = {i \in Admitted(source, request) : rows[i].close_time + offset = t}
    BY DEF offset
  <2> QED
    BY <2>3, <2>4, <2>5, <2>6
<1> HIDE DEF cells, matching, at
<1>3. ASSUME NEW i \in at PROVE at = {i} /\ i = TheWindow(t, k) /\ i \in DOMAIN rows
  BY <1>3, OneWindow DEF TheWindow, at, WindowsAt
<1>4. "traded_seconds" \in Field
  BY GridAssumption
<1>5. CASE matching = {}
  <2>1. cells = [x \in Field |-> Null]
    BY <1>1, <1>5 DEF NoCells
  <2>2. \A i \in at : ~Present(rows[i])
    BY <1>2, <1>3, <1>5, RefusedIsNotPresent
  <2> QED
    BY <1>4, <2>1, <2>2 DEF at, cells
<1>6. ASSUME NEW i \in matching
      PROVE  /\ cells = rows[TheWindow(t, k)].cells
             /\ (\E x \in Field : cells[x] = Null) <=> ~ \E j \in at : Present(rows[j])
  <2>1. i \in at /\ i \in Admitted(source, request)
    BY <1>2, <1>6
  <2>2. at = {i} /\ i = TheWindow(t, k) /\ i \in DOMAIN rows
    BY <1>3, <2>1
  <2>3. matching = {i}
    BY <1>2, <2>1, <2>2
  <2>4. cells = rows[i].cells
    BY <1>1, <2>3
  <2>5. Present(rows[i]) <=> \A x \in Field : rows[i].cells[x] # Null
    BY <2>1, <2>2, RefusedIsNotPresent
  <2> QED
    BY <2>2, <2>4, <2>5
<1> QED
  BY <1>5, <1>6 DEF at, cells

(* The joins, all phases together.                                         *)
LEMMA MaskedIsPromised ==
  ASSUME source \in Source, request \in Request, ResolvableGrid(source, request),
         DOMAIN gathered = 1 .. request.lookback,
         NEW n \in DOMAIN Ticks, Ticks[n] \in Int,
         \A k \in 1 .. request.lookback :
           gathered[k][n] = Joined(source, request, k - 1, Ticks[n])
  PROVE  (IF Incomplete(n) THEN NoLists
          ELSE [x \in Field |-> [k \in DOMAIN gathered |-> gathered[k][n][x]]])
           = PromisedOf(Ticks[n])
<1> DEFINE l == request.lookback
           t == Ticks[n]
           present(k) == \E i \in WindowsAt(Instant(t, k)) : Present(source.rows[i])
<1>1. \A k \in 1 .. l :
        /\ (\E x \in Field : gathered[k][n][x] = Null) <=> ~present(k)
        /\ present(k) => gathered[k][n] = source.rows[TheWindow(t, k)].cells
  BY JoinedIs
<1> HIDE DEF present
<1>2. Incomplete(n) <=> \E k \in 1 .. l : ~present(k)
  BY <1>1 DEF Incomplete
<1>3. FullyPresent(t) <=> \A k \in 1 .. l : present(k)
  BY DEF FullyPresent, present
<1>4. ASSUME FullyPresent(t)
      PROVE  [x \in Field |-> [k \in DOMAIN gathered |-> gathered[k][n][x]]]
               = [x \in Field |-> [k \in 1 .. l |-> source.rows[TheWindow(t, k)].cells[x]]]
  BY <1>1, <1>3, <1>4
<1> QED
  BY <1>2, <1>3, <1>4 DEF PromisedOf

(* The lists of a tick whose windows are all there.                        *)
LEMMA PromisedLists ==
  ASSUME source \in Source, request \in Request, ResolvableGrid(source, request),
         NEW t \in Int, FullyPresent(t), NEW x \in Field
  PROVE  LET list == PromisedOf(t)[x] IN
         /\ list # Null
         /\ Len(list) = request.lookback /\ DOMAIN list = 1 .. request.lookback
         /\ \A k \in 1 .. request.lookback :
              /\ TheWindow(t, k) \in WindowsAt(Instant(t, k))
              /\ list[k] = source.rows[TheWindow(t, k)].cells[x]
              /\ list[k] # Null
<1> DEFINE l == request.lookback
           list == PromisedOf(t)[x]
<1>1. l \in Nat
  BY ResolvableMeans
<1>2. list = [k \in 1 .. l |-> source.rows[TheWindow(t, k)].cells[x]]
  BY DEF PromisedOf
<1>3. ASSUME NEW k \in 1 .. l
      PROVE  /\ TheWindow(t, k) \in WindowsAt(Instant(t, k))
             /\ source.rows[TheWindow(t, k)].cells[x] \in CellsOf(source)
             /\ source.rows[TheWindow(t, k)].cells[x] # Null
  <2>1. PICK i \in WindowsAt(Instant(t, k)) : Present(source.rows[i])
    BY DEF FullyPresent
  <2>2. TheWindow(t, k) = i
    BY OneWindow DEF TheWindow
  <2>3. i \in DOMAIN source.rows
    BY DEF WindowsAt
  <2> QED
    BY <2>1, <2>2, <2>3 DEF CellsOf, Present
<1>4. list \in Seq(CellsOf(source))
  <2> DEFINE cell(k) == source.rows[TheWindow(t, k)].cells[x]
             S == CellsOf(source)
  <2>1. \A k \in 1 .. l : cell(k) \in S
    BY <1>3
  <2>2. list = [k \in 1 .. l |-> cell(k)]
    BY <1>2
  <2> HIDE DEF cell, list, S
  <2>3. list \in Seq(S)
    BY <1>1, <2>1, <2>2
  <2> QED
    BY <2>3 DEF S
<1>5. list # Null
  <2>1. Null \notin Seq(CellsOf(source))
    BY UsableTypes DEF ResolvableGrid
  <2> QED
    BY <1>4, <2>1
<1>6. Len(list) = l /\ DOMAIN list = 1 .. l
  BY <1>1, <1>2
<1> QED
  BY <1>2, <1>3, <1>5, <1>6

-----------------------------------------------------------------------------
(* The invariant of a lookback                                             *)

JoinRow(f, c, phase) ==
  [n \in DOMAIN EmitTicks(f, c) |-> Joined(f, c, phase, EmitTicks(f, c)[n])]

(* One row of cells for every phase so far,                                *)
JoinsSoFar ==
  /\ gathered \in Seq({JoinRow(source, request, phase) : phase \in Nat})
  /\ Len(gathered) <= request.lookback
  /\ \A k \in DOMAIN gathered : gathered[k] = JoinRow(source, request, k - 1)

(* and one set of lists for every tick so far.                             *)
ScansSoFar ==
  /\ gathered \in Seq({Assemble(t) : t \in Int})
  /\ Len(gathered) <= Len(Ticks)
  /\ \A n \in DOMAIN gathered : gathered[n] = Assemble(Ticks[n])

Promised == [n \in DOMAIN Ticks |-> [tick |-> Ticks[n], lists |-> PromisedOf(Ticks[n])]]

LookbackSoFar ==
  /\ stage \in {"none", "resolve", "gather", "done"}
  /\ stage # "none" => source \in Source /\ request \in Request /\ impl \in {"joins", "scans"}
  /\ stage = "resolve" => gathered = <<>>
  /\ stage = "gather" =>
       /\ ResolvableGrid(source, request)
       /\ impl = "joins" => JoinsSoFar
       /\ impl = "scans" => ScansSoFar
  /\ stage = "done" =>
       /\ answer.outcome = "ok" <=> ResolvableGrid(source, request)
       /\ answer.outcome = "ok" => answer.rows = Promised

LEMMA InitLookback == LookbackInit => LookbackSoFar
BY DEF LookbackInit, LookbackSoFar

(* What depends on the call alone is the same after a step of it.          *)
LEMMA SameCall ==
  ASSUME UNCHANGED <<source, request>>
  PROVE  /\ Ticks' = Ticks /\ Promised' = Promised
         /\ \A t : Assemble(t)' = Assemble(t)
<1>1. source' = source /\ request' = request
  OBVIOUS
<1>2. Ticks' = Ticks
  BY <1>1 DEF Ticks
<1>3. ASSUME NEW t PROVE Assemble(t)' = Assemble(t)
  BY <1>1 DEF Assemble, Matched, Refused
<1>4. ASSUME NEW t PROVE PromisedOf(t)' = PromisedOf(t)
  BY <1>1 DEF PromisedOf, FullyPresent, TheWindow, WindowsAt, Instant, Present
<1>5. Promised' = Promised
  BY <1>2, <1>4 DEF Promised
<1> QED
  BY <1>2, <1>3, <1>5

LEMMA StutterLookback == LookbackSoFar /\ UNCHANGED lookback_vars => LookbackSoFar'
<1> SUFFICES ASSUME LookbackSoFar, UNCHANGED lookback_vars PROVE LookbackSoFar'
  OBVIOUS
<1>1. /\ source' = source /\ request' = request /\ impl' = impl /\ stage' = stage
      /\ gathered' = gathered /\ answer' = answer
  BY DEF lookback_vars
<1>2. Ticks' = Ticks /\ Promised' = Promised /\ \A t : Assemble(t)' = Assemble(t)
  BY <1>1, SameCall
<1> QED
  BY <1>1, <1>2 DEF LookbackSoFar, JoinsSoFar, ScansSoFar

(* A step that ends a call with the promised rows, or as it should.        *)
LEMMA EndsLookback ==
  ASSUME LookbackSoFar, stage # "none", NEW outcome, NEW rows, Ended(outcome, rows),
         outcome = "ok" <=> ResolvableGrid(source, request),
         outcome = "ok" => rows = Promised
  PROVE  LookbackSoFar'
<1>1. /\ answer' = [outcome |-> outcome, rows |-> rows] /\ stage' = "done"
      /\ source' = source /\ request' = request /\ impl' = impl
  BY DEF Ended
<1>2. Promised' = Promised
  BY <1>1, SameCall
<1> QED
  BY <1>1, <1>2 DEF LookbackSoFar

LEMMA JoinLookback == LookbackSoFar /\ JoinPhase => LookbackSoFar'
<1> SUFFICES ASSUME LookbackSoFar, JoinPhase PROVE LookbackSoFar'
  OBVIOUS
<1> DEFINE row == JoinRow(source, request, Len(gathered))
           S == {JoinRow(source, request, phase) : phase \in Nat}
<1>1. /\ stage = "gather" /\ impl = "joins" /\ Len(gathered) < request.lookback
      /\ gathered' = Append(gathered, row)
      /\ source' = source /\ request' = request /\ impl' = impl /\ stage' = stage
      /\ answer' = answer
  BY DEF JoinPhase, JoinRow, Ticks
<1>2. /\ source \in Source /\ request \in Request /\ ResolvableGrid(source, request)
      /\ gathered \in Seq(S) /\ \A k \in DOMAIN gathered : gathered[k] = JoinRow(source, request, k - 1)
  BY <1>1 DEF LookbackSoFar, JoinsSoFar
<1>3. Len(gathered) \in Nat /\ row \in S
  BY <1>2
<1>4. request.lookback \in Nat
  BY <1>2, ResolvableMeans
<1> HIDE DEF S
<1>5. /\ gathered' \in Seq(S) /\ Len(gathered') = Len(gathered) + 1
      /\ \A k \in DOMAIN gathered : gathered'[k] = gathered[k]
      /\ gathered'[Len(gathered) + 1] = row
      /\ DOMAIN gathered' = 1 .. Len(gathered) + 1 /\ DOMAIN gathered = 1 .. Len(gathered)
  BY <1>1, <1>2, <1>3
<1>6. \A k \in DOMAIN gathered' : gathered'[k] = JoinRow(source, request, k - 1)
  <2> TAKE k \in DOMAIN gathered'
  <2>1. k \in DOMAIN gathered \/ k = Len(gathered) + 1
    BY <1>3, <1>5
  <2>2. (Len(gathered) + 1) - 1 = Len(gathered)
    BY <1>3
  <2> QED
    BY <1>2, <1>5, <2>1, <2>2
<1>7. Len(gathered') <= request.lookback
  BY <1>1, <1>3, <1>4, <1>5
<1> QED
  BY <1>1, <1>2, <1>5, <1>6, <1>7 DEF LookbackSoFar, JoinsSoFar, S

LEMMA ScanLookback == LookbackSoFar /\ AssembleTick => LookbackSoFar'
<1> SUFFICES ASSUME LookbackSoFar, AssembleTick PROVE LookbackSoFar'
  OBVIOUS
<1> DEFINE lists == Assemble(Ticks[Len(gathered) + 1])
           S == {Assemble(t) : t \in Int}
<1>1. /\ stage = "gather" /\ impl = "scans" /\ Len(gathered) < Len(Ticks)
      /\ gathered' = Append(gathered, lists)
      /\ source' = source /\ request' = request /\ impl' = impl /\ stage' = stage
      /\ answer' = answer
  BY DEF AssembleTick
<1>2. /\ source \in Source /\ request \in Request /\ ResolvableGrid(source, request)
      /\ gathered \in Seq(S) /\ \A n \in DOMAIN gathered : gathered[n] = Assemble(Ticks[n])
  BY <1>1 DEF LookbackSoFar, ScansSoFar
<1>3. /\ Len(Ticks) \in Nat /\ DOMAIN Ticks = 1 .. Len(Ticks)
      /\ \A n \in DOMAIN Ticks : Ticks[n] \in Int
  BY <1>2, TicksAreTheGrid
<1>4. Len(gathered) \in Nat /\ lists \in S
  <2>1. Len(gathered) + 1 \in DOMAIN Ticks
    BY <1>1, <1>2, <1>3
  <2> QED
    BY <1>2, <1>3, <2>1
<1>5. Ticks' = Ticks /\ \A t : Assemble(t)' = Assemble(t)
  BY <1>1, SameCall
<1>6. S' = S
  BY <1>5
<1> HIDE DEF S
<1>7. /\ gathered' \in Seq(S) /\ Len(gathered') = Len(gathered) + 1
      /\ \A n \in DOMAIN gathered : gathered'[n] = gathered[n]
      /\ gathered'[Len(gathered) + 1] = lists
      /\ DOMAIN gathered' = 1 .. Len(gathered) + 1 /\ DOMAIN gathered = 1 .. Len(gathered)
  BY <1>1, <1>2, <1>4
<1>8. \A n \in DOMAIN gathered' : gathered'[n] = Assemble(Ticks[n])
  <2> TAKE n \in DOMAIN gathered'
  <2>1. n \in DOMAIN gathered \/ n = Len(gathered) + 1
    BY <1>4, <1>7
  <2> QED
    BY <1>2, <1>7, <2>1
<1>9. Len(gathered') <= Len(Ticks)
  BY <1>1, <1>3, <1>4, <1>7
<1>10. ScansSoFar'
  <2>1. gathered' \in Seq(S')
    BY <1>6, <1>7
  <2> QED
    BY <1>5, <1>8, <1>9, <2>1 DEF ScansSoFar, S
<1> QED
  BY <1>1, <1>2, <1>10 DEF LookbackSoFar

LEMMA NextLookback == LookbackSoFar /\ LookbackNext => LookbackSoFar'
<1> SUFFICES ASSUME LookbackSoFar, LookbackNext PROVE LookbackSoFar'
  OBVIOUS
<1>1. CASE RefuseGrid
  <2> DEFINE outcome == IF UnsortableSpans(source, request) THEN "type_error" ELSE "config_error"
  <2>1. stage = "resolve" /\ ~ResolvableGrid(source, request) /\ Ended(outcome, <<>>)
    BY <1>1 DEF RefuseGrid
  <2>2. outcome # "ok"
    OBVIOUS
  <2> HIDE DEF outcome
  <2> QED
    BY <2>1, <2>2, EndsLookback
<1>2. CASE ResolveGrid
  <2>1. /\ stage = "resolve" /\ ResolvableGrid(source, request) /\ stage' = "gather"
        /\ source' = source /\ request' = request /\ impl' = impl /\ gathered' = gathered
    BY <1>2 DEF ResolveGrid
  <2>2. gathered = <<>> /\ source \in Source /\ request \in Request /\ impl \in {"joins", "scans"}
    BY <2>1 DEF LookbackSoFar
  <2>3. request.lookback \in Nat /\ Len(Ticks) \in Nat
    BY <2>1, <2>2, ResolvableMeans, TicksAreTheGrid
  <2>4. Ticks' = Ticks
    BY <2>1, SameCall
  <2>5. gathered' = <<>> /\ Len(gathered') = 0 /\ DOMAIN gathered' = {}
    BY <2>1, <2>2
  <2>6. JoinsSoFar' /\ ScansSoFar'
    BY <2>1, <2>3, <2>4, <2>5 DEF JoinsSoFar, ScansSoFar
  <2> QED
    BY <2>1, <2>2, <2>6 DEF LookbackSoFar
<1>3. CASE JoinPhase
  BY <1>3, JoinLookback
<1>4. CASE MaskIncomplete
  <2> DEFINE lists(n) == IF Incomplete(n) THEN NoLists
                         ELSE [x \in Field |-> [k \in DOMAIN gathered |-> gathered[k][n][x]]]
             all == [n \in DOMAIN Ticks |-> lists(n)]
  <2>1. /\ stage = "gather" /\ impl = "joins" /\ Len(gathered) = request.lookback
        /\ Ended("ok", Answered(all))
    BY <1>4 DEF MaskIncomplete
  <2>2. /\ source \in Source /\ request \in Request /\ ResolvableGrid(source, request)
        /\ JoinsSoFar
    BY <2>1 DEF LookbackSoFar
  <2>3. DOMAIN gathered = 1 .. request.lookback
    BY <2>1, <2>2 DEF JoinsSoFar
  <2>4. \A n \in DOMAIN Ticks : Ticks[n] \in Int
    BY <2>2, TicksAreTheGrid
  <2>5. ASSUME NEW n \in DOMAIN Ticks PROVE lists(n) = PromisedOf(Ticks[n])
    <3>1. \A k \in 1 .. request.lookback : gathered[k][n] = Joined(source, request, k - 1, Ticks[n])
      BY <2>2, <2>3 DEF JoinsSoFar, JoinRow, Ticks
    <3> QED
      BY <2>2, <2>3, <2>4, <3>1, MaskedIsPromised
  <2> HIDE DEF lists
  <2>6. Answered(all) = Promised
    BY <2>5 DEF Answered, Promised
  <2> QED
    BY <2>1, <2>2, <2>6, EndsLookback
<1>5. CASE AssembleTick
  BY <1>5, ScanLookback
<1>6. CASE AssembleFrame
  <2>1. /\ stage = "gather" /\ impl = "scans" /\ Len(gathered) = Len(Ticks)
        /\ Ended("ok", Answered(gathered))
    BY <1>6 DEF AssembleFrame
  <2>2. /\ source \in Source /\ request \in Request /\ ResolvableGrid(source, request)
        /\ ScansSoFar
    BY <2>1 DEF LookbackSoFar
  <2>3. DOMAIN Ticks = 1 .. Len(Ticks) /\ \A n \in DOMAIN Ticks : Ticks[n] \in Int
    BY <2>2, TicksAreTheGrid
  <2>4. DOMAIN gathered = DOMAIN Ticks
    BY <2>1, <2>2, <2>3 DEF ScansSoFar
  <2>5. \A n \in DOMAIN Ticks : gathered[n] = PromisedOf(Ticks[n])
    BY <2>2, <2>3, <2>4, AssembledIsPromised DEF ScansSoFar
  <2>6. Answered(gathered) = Promised
    BY <2>5 DEF Answered, Promised
  <2> QED
    BY <2>1, <2>2, <2>6, EndsLookback
<1> QED
  BY <1>1, <1>2, <1>3, <1>4, <1>5, <1>6 DEF LookbackNext

-----------------------------------------------------------------------------
(* The invariant of a chain of indicators                                  *)

(* A record that was not built by hand is the answer of the one lookback,  *)
(* and every column added was demanded of its record and its values.       *)
RecordSoFar ==
  /\ stage = "none" => answer = Null /\ record \in HandBuilt
  /\ stage # "none" /\ record # Null =>
       /\ stage = "done" /\ answer.outcome = "ok"
       /\ record.lookback = request.lookback /\ record.fields = Field
       /\ record.rows = answer.rows

ReadingsSoFar ==
  /\ record = Null => readings = <<>>
  /\ \A column \in DOMAIN readings :
       /\ column[1] \in Indicator /\ column[2] \in Period
       /\ PhasedInputs(column[1], column[2]) /\ PositiveInputs(column[1])
       /\ readings[column] =
            [n \in DOMAIN record.rows |-> Reading(column[1], column[2], record.rows[n])]

ChainSoFar == LookbackSoFar /\ RecordSoFar /\ ReadingsSoFar

LEMMA InitChain == ChainInit => ChainSoFar
<1> SUFFICES ASSUME ChainInit PROVE ChainSoFar
  OBVIOUS
<1>1. readings = <<>> /\ DOMAIN readings = {}
  BY DEF ChainInit
<1>2. CASE LookbackInit /\ record = Null
  <2>1. LookbackSoFar /\ stage = "resolve"
    BY <1>2, InitLookback DEF LookbackInit
  <2> QED
    BY <1>1, <1>2, <2>1 DEF ChainSoFar, RecordSoFar, ReadingsSoFar
<1>3. CASE BuiltByHand
  <2>1. stage = "none" /\ answer = Null /\ record \in HandBuilt
    BY <1>3 DEF BuiltByHand
  <2> QED
    BY <1>1, <2>1 DEF ChainSoFar, LookbackSoFar, RecordSoFar, ReadingsSoFar
<1> QED
  BY <1>2, <1>3 DEF ChainInit

LEMMA AddChain ==
  ASSUME ChainSoFar, NEW indicator \in Indicator, NEW period \in Period,
         AddIndicator(indicator, period)
  PROVE  ChainSoFar'
<1> DEFINE column == <<indicator, period>>
           values == [n \in DOMAIN record.rows |-> Reading(indicator, period, record.rows[n])]
<1>1. /\ record # Null /\ record' = record /\ UNCHANGED lookback_vars
      /\ reply' = "ok" => PhasedInputs(indicator, period) /\ PositiveInputs(indicator)
      /\ readings' = IF reply' # "ok" THEN readings
                     ELSE [c \in DOMAIN readings \cup {column} |->
                             IF c = column THEN values ELSE readings[c]]
  BY DEF AddIndicator
<1>2. LookbackSoFar'
  BY <1>1, StutterLookback DEF ChainSoFar
<1>3. RecordSoFar'
  BY <1>1 DEF ChainSoFar, RecordSoFar, lookback_vars
<1>4. \A i, p : /\ PhasedInputs(i, p)' <=> PhasedInputs(i, p)
               /\ PositiveInputs(i)' <=> PositiveInputs(i)
  BY <1>1 DEF PhasedInputs, PositiveInputs, Lists
<1>5. ASSUME NEW c \in DOMAIN readings'
      PROVE  /\ c[1] \in Indicator /\ c[2] \in Period
             /\ PhasedInputs(c[1], c[2]) /\ PositiveInputs(c[1])
             /\ readings'[c] = [n \in DOMAIN record.rows |-> Reading(c[1], c[2], record.rows[n])]
  <2>1. CASE c \in DOMAIN readings /\ readings'[c] = readings[c]
    BY <2>1 DEF ChainSoFar, ReadingsSoFar
  <2>2. CASE c = column /\ reply' = "ok" /\ readings'[c] = values
    <3>1. c[1] = indicator /\ c[2] = period
      BY <2>2
    <3> HIDE DEF column
    <3> QED
      BY <1>1, <2>2, <3>1
  <2> QED
    BY <1>1, <1>5, <2>1, <2>2
<1>6. ReadingsSoFar'
  BY <1>1, <1>4, <1>5, ZenonT(120) DEF ReadingsSoFar
<1> QED
  BY <1>2, <1>3, <1>6 DEF ChainSoFar

LEMMA NextChain == ChainSoFar /\ [ChainNext]_chain_vars => ChainSoFar'
<1> SUFFICES ASSUME ChainSoFar, [ChainNext]_chain_vars PROVE ChainSoFar'
  OBVIOUS
<1>1. ASSUME record = Null, LookbackNext, record' = record, readings' = readings PROVE ChainSoFar'
  <2>1. LookbackSoFar'
    BY <1>1, NextLookback DEF ChainSoFar
  <2>2. readings' = <<>> /\ DOMAIN readings' = {}
    BY <1>1 DEF ChainSoFar, ReadingsSoFar
  <2>3. ReadingsSoFar'
    BY <1>1, <2>2 DEF ReadingsSoFar
  <2>4. stage' \in {"gather", "done"}
    BY <1>1 DEF LookbackNext, RefuseGrid, ResolveGrid, JoinPhase, MaskIncomplete, AssembleTick,
                AssembleFrame, Ended
  <2>5. RecordSoFar'
    BY <1>1, <2>4 DEF RecordSoFar
  <2> QED
    BY <2>1, <2>3, <2>5 DEF ChainSoFar
<1>2. CASE KeepAnswer
  <2>1. /\ stage = "done" /\ record = Null /\ answer.outcome = "ok"
        /\ record' = [lookback |-> request.lookback, fields |-> Field, rows |-> answer.rows]
        /\ UNCHANGED lookback_vars /\ readings' = readings
    BY <1>2 DEF KeepAnswer
  <2>2. LookbackSoFar'
    BY <2>1, StutterLookback DEF ChainSoFar
  <2>3. readings' = <<>> /\ DOMAIN readings' = {}
    BY <2>1 DEF ChainSoFar, ReadingsSoFar
  <2>4. ReadingsSoFar'
    BY <2>3 DEF ReadingsSoFar
  <2>5. RecordSoFar'
    BY <2>1 DEF RecordSoFar, lookback_vars
  <2> QED
    BY <2>2, <2>4, <2>5 DEF ChainSoFar
<1>3. ASSUME NEW indicator \in Indicator, NEW period \in Period, AddIndicator(indicator, period)
      PROVE  ChainSoFar'
  BY <1>3, AddChain
<1>4. CASE UNCHANGED chain_vars
  <2>1. UNCHANGED lookback_vars /\ record' = record /\ readings' = readings
    BY <1>4 DEF chain_vars
  <2>2. LookbackSoFar'
    BY <2>1, StutterLookback DEF ChainSoFar
  <2>3. RecordSoFar'
    BY <2>1 DEF ChainSoFar, RecordSoFar, lookback_vars
  <2>4. \A i, p : /\ PhasedInputs(i, p)' <=> PhasedInputs(i, p)
                 /\ PositiveInputs(i)' <=> PositiveInputs(i)
    BY <2>1 DEF PhasedInputs, PositiveInputs, Lists
  <2>5. ReadingsSoFar'
    BY <2>1, <2>4 DEF ChainSoFar, ReadingsSoFar
  <2> QED
    BY <2>2, <2>3, <2>5 DEF ChainSoFar
<1> QED
  BY <1>1, <1>2, <1>3, <1>4 DEF ChainNext

LEMMA ChainInvariant == ChainSpec => []ChainSoFar
BY InitChain, NextChain, PTL DEF ChainSpec

-----------------------------------------------------------------------------
(* What a lookback answers                                                 *)

(* Both implementations of a phased lookback keep one promise, for every   *)
(* frame in any row order and with any cells and every request: they       *)
(* accept exactly the lawful, answer at every instant of the emit grid in  *)
(* range and nowhere else, and give each the windows it looks back on, or  *)
(* nulls in every column.                                                  *)
THEOREM LookbackKeepsItsPromise == ChainSpec => []PhasedAnswerIsPromised
<1>1. ChainSoFar => PhasedAnswerIsPromised
  <2> SUFFICES ASSUME LookbackSoFar, stage = "done"
               PROVE  PhasedAnswerIsPromised
    BY DEF ChainSoFar, PhasedAnswerIsPromised
  <2>1. /\ source \in Source /\ request \in Request
        /\ answer.outcome = "ok" <=> ResolvableGrid(source, request)
        /\ answer.outcome = "ok" => answer.rows = Promised
    BY DEF LookbackSoFar
  <2>2. answer.outcome = "ok" <=> Lawful
    BY <2>1, LawfulIsResolvable
  <2> SUFFICES ASSUME answer.outcome = "ok"
               PROVE  LET rows == answer.rows
                          closes == {source.rows[i].close_time : i \in DOMAIN source.rows} IN
         /\ {rows[n].tick : n \in DOMAIN rows} =
              {t \in LeastOf(closes) .. source.rows[Len(source.rows)].close_time :
                 (t - request.anchor) % request.emit_every = 0}
         /\ \A m, n \in DOMAIN rows : m < n => rows[m].tick < rows[n].tick
         /\ \A n \in DOMAIN rows, x \in Field :
              LET t == rows[n].tick IN
              IF FullyPresent(t)
              THEN /\ DOMAIN rows[n].lists[x] = 1 .. request.lookback
                   /\ \A k \in 1 .. request.lookback : \E i \in WindowsAt(Instant(t, k)) :
                        rows[n].lists[x][k] = source.rows[i].cells[x]
              ELSE rows[n].lists[x] = Null
    BY <2>2 DEF PhasedAnswerIsPromised
  <2> DEFINE rows == answer.rows
             grid == {t \in LeastOf(Closes(source)) .. source.rows[Len(source.rows)].close_time :
                        (t - request.anchor) % request.emit_every = 0}
  <2>3. /\ DOMAIN rows = DOMAIN Ticks
        /\ \A n \in DOMAIN Ticks : rows[n].tick = Ticks[n] /\ rows[n].lists = PromisedOf(Ticks[n])
    BY <2>1 DEF Promised
  <2>4. /\ \A n \in DOMAIN Ticks : Ticks[n] \in Int
        /\ {Ticks[n] : n \in DOMAIN Ticks} = grid
        /\ \A m, n \in DOMAIN Ticks : m < n => Ticks[m] < Ticks[n]
    BY <2>1, TicksAreTheGrid
  <2> HIDE DEF grid, rows
  <2>5. {rows[n].tick : n \in DOMAIN rows} = grid
    BY <2>3, <2>4
  <2>6. \A m, n \in DOMAIN rows : m < n => rows[m].tick < rows[n].tick
    BY <2>3, <2>4
  <2>7. ASSUME NEW n \in DOMAIN rows, NEW x \in Field, FullyPresent(rows[n].tick)
        PROVE  /\ DOMAIN rows[n].lists[x] = 1 .. request.lookback
               /\ \A k \in 1 .. request.lookback : \E i \in WindowsAt(Instant(rows[n].tick, k)) :
                    rows[n].lists[x][k] = source.rows[i].cells[x]
    BY <2>1, <2>3, <2>4, <2>7, PromisedLists
  <2>8. ASSUME NEW n \in DOMAIN rows, NEW x \in Field, ~FullyPresent(rows[n].tick)
        PROVE  rows[n].lists[x] = Null
    BY <2>3, <2>8, ZenonT(60) DEF PromisedOf, NoLists
  <2> QED
    BY <2>5, <2>6, <2>7, <2>8 DEF grid, rows, Closes
<1> QED
  BY <1>1, ChainInvariant, PTL


-----------------------------------------------------------------------------
(* Why an answer is null                                                   *)

(* The commonest step of a grid that is let through is its least.          *)
LEMMA LeastStepIsCadence ==
  ASSUME source \in Source, request \in Request, ResolvableGrid(source, request)
  PROVE  LeastOf(StepSizes(source)) = Cadence(source)
<1> DEFINE S == StepSizes(source)
           d == Cadence(source)
<1>1. S \in SUBSET Int /\ d \in S /\ d \in Nat \ {0} /\ \A s \in S : s % d = 0
  BY ResolvableMeans, StepsAre
<1>2. \A s \in S : s > 0
  BY DEF ResolvableGrid, RegularGrid
<1> HIDE DEF S, d
<1>3. \A s \in S : d <= s
  BY <1>1, <1>2, MultipleIsNotBelow
<1>4. LeastOf(S) = d
  BY <1>1, <1>3, LeastIs
<1> QED
  BY <1>4 DEF S, d

(* Every instant a tick looks back to is whole steps from every row.       *)
LEMMA LookedBackIsOnTheGrid ==
  ASSUME source \in Source, request \in Request, ResolvableGrid(source, request),
         NEW t \in Int, OnGrid(t, request.anchor, request.emit_every),
         NEW k \in Int, NEW i \in DOMAIN source.rows
  PROVE  (Instant(t, k) - source.rows[i].close_time) % Cadence(source) = 0
<1> DEFINE d == Cadence(source)
           w == request.window
           e == request.emit_every
           a == request.anchor
           c == source.rows[1].close_time
           ci == source.rows[i].close_time
           j == k - 1
           back == w * j
           x == t - a
<1>1. /\ d \in Nat \ {0} /\ w \in Nat \ {0} /\ e \in Nat \ {0} /\ a \in Int
      /\ w % d = 0 /\ e % d = 0 /\ (c - a) % d = 0
      /\ c \in Int /\ ci \in Int
  BY ResolvableMeans, SMTT(60) DEF Timed
<1>2. (ci - c) % d = 0
  BY ResolvableMeans, RowsAreOnOneResidue
<1>3. x % e = 0
  BY DEF OnGrid
<1>4. Instant(t, k) = t - back /\ back \in Int /\ x \in Int /\ x = t - a
  BY <1>1 DEF Instant
<1>5. j \in Int
  OBVIOUS
<1> HIDE DEF d, w, e, a, c, ci, x, j
<1>6. back % d = 0
  <2>1. back \in Int /\ \E m \in Int : back = w * m
    BY <1>1, <1>5
  <2> HIDE DEF back
  <2>2. back % w = 0
    BY <1>1, <2>1, ModMeans
  <2> QED
    BY <1>1, <2>1, <2>2, ModThrough
<1>7. x % d = 0
  BY <1>1, <1>3, <1>4, ModThrough
<1> HIDE DEF back
<1>8. (x - back) % d = 0 /\ x - back \in Int
  BY <1>1, <1>4, <1>6, <1>7, ModAdd
<1> DEFINE y == x - back
           z == c - a
           g == ci - c
<1>9. y \in Int /\ z \in Int /\ g \in Int /\ y % d = 0 /\ z % d = 0 /\ g % d = 0
  BY <1>1, <1>2, <1>8
<1>10. Instant(t, k) - ci = (y - z) - g
  BY <1>1, <1>4
<1> HIDE DEF y, z, g
<1>11. (y - z) % d = 0 /\ y - z \in Int
  BY <1>1, <1>9, ModAdd
<1>12. ((y - z) - g) % d = 0
  BY <1>1, <1>9, <1>11, ModAdd
<1> QED
  BY <1>10, <1>12 DEF d, ci

(* So where a tick finds no window after the first, rows are missing: the  *)
(* last row before the instant is followed by one after it.                *)
LEMMA MissIsInAHole ==
  ASSUME source \in Source, request \in Request, ResolvableGrid(source, request),
         NEW t \in Int, OnGrid(t, request.anchor, request.emit_every),
         t <= source.rows[Len(source.rows)].close_time,
         NEW k \in 1 .. request.lookback, WindowsAt(Instant(t, k)) = {},
         source.rows[1].close_time <= Instant(t, k)
  PROVE  InAHole(Instant(t, k))
<1> DEFINE n == Len(source.rows)
           close(i) == source.rows[i].close_time
           instant == Instant(t, k)
           passed == {i \in 1 .. n : close(i) <= instant}
<1>1. /\ n \in Nat /\ n >= 2 /\ DOMAIN source.rows = 1 .. n
      /\ \A i \in 1 .. n : close(i) \in Int
      /\ request.window \in Nat \ {0} /\ request.lookback \in Nat
  BY ResolvableMeans DEF Timed
<1>2. instant \in Int /\ instant <= t
  <2>1. k - 1 \in Nat /\ (k - 1) * request.window \in Nat
    BY <1>1, SMTT(60)
  <2> QED
    BY <2>1 DEF Instant
<1>3. \A i \in 1 .. n : close(i) # instant
  BY <1>1 DEF WindowsAt
<1>4. \A i \in 1 .. n : (instant - close(i)) % Cadence(source) = 0
  <2> TAKE i \in 1 .. n
  <2>1. i \in DOMAIN source.rows /\ k \in Int
    BY <1>1
  <2> HIDE DEF n
  <2> QED
    BY <2>1, LookedBackIsOnTheGrid
<1>5. close(1) <= instant /\ t <= close(n)
  OBVIOUS
<1> HIDE DEF n, close, instant
<1>6. passed \in SUBSET Nat /\ 1 \in passed /\ \A i \in passed : i <= n
  BY <1>1, <1>5
<1>7. PICK i \in passed : \A j \in passed : j <= i
  BY <1>1, <1>6, GreatestOfBounded
<1>8. i \in 1 .. n /\ close(i) < instant
  BY <1>1, <1>2, <1>3, <1>7
<1>9. i # n
  BY <1>1, <1>2, <1>5, <1>8
<1>10. i \in 1 .. n - 1 /\ i + 1 \in 1 .. n /\ i + 1 \notin passed
  BY <1>1, <1>7, <1>8, <1>9
<1>11. instant < close(i + 1)
  BY <1>1, <1>2, <1>10
<1> QED
  BY <1>4, <1>8, <1>10, <1>11, LeastStepIsCadence DEF InAHole, n, close, instant

(* A null is never the answer of a misaligned grid, for any frame and any  *)
(* request that is let through: history had not begun, or a row of the     *)
(* grid is missing, or a window is there and is not present.               *)
THEOREM NullsComeFromTheHistory == ChainSpec => []NullsAreOfTheHistory
<1>1. ChainSoFar => NullsAreOfTheHistory
  <2> SUFFICES ASSUME LookbackSoFar, stage = "done", answer.outcome = "ok",
                      NEW n \in DOMAIN answer.rows, NEW x \in Field,
                      answer.rows[n].lists[x] = Null
               PROVE  \E k \in 1 .. request.lookback :
                        LET instant == Instant(answer.rows[n].tick, k) IN
                        \/ instant < source.rows[1].close_time
                        \/ InAHole(instant)
                        \/ \E i \in WindowsAt(instant) : ~Present(source.rows[i])
    BY DEF ChainSoFar, NullsAreOfTheHistory
  <2> DEFINE t == answer.rows[n].tick
  <2>1. /\ source \in Source /\ request \in Request /\ ResolvableGrid(source, request)
        /\ answer.rows = Promised
    BY DEF LookbackSoFar
  <2>2. n \in DOMAIN Ticks /\ t = Ticks[n] /\ answer.rows[n].lists = PromisedOf(t)
    BY <2>1 DEF Promised
  <2>3. /\ t \in Int /\ source.rows[1].close_time \in Int
        /\ t <= source.rows[Len(source.rows)].close_time
        /\ OnGrid(t, request.anchor, request.emit_every)
    <3>1. Ticks[n] \in {Ticks[m] : m \in DOMAIN Ticks}
      BY <2>2
    <3>2. Ticks[n] \in {s \in source.rows[1].close_time .. source.rows[Len(source.rows)].close_time :
                          (s - request.anchor) % request.emit_every = 0}
      BY <2>1, <3>1, TicksAreTheGrid
    <3>3. source.rows[1].close_time \in Int /\ source.rows[Len(source.rows)].close_time \in Int
      BY <2>1, TicksAreTheGrid
    <3> QED
      BY <2>2, <3>2, <3>3 DEF OnGrid
  <2> HIDE DEF t
  <2>4. ~FullyPresent(t)
    BY <2>1, <2>2, <2>3, PromisedLists
  <2>5. PICK k \in 1 .. request.lookback :
          \A i \in WindowsAt(Instant(t, k)) : ~Present(source.rows[i])
    BY <2>4 DEF FullyPresent
  <2>6. CASE WindowsAt(Instant(t, k)) # {}
    BY <2>5, <2>6 DEF t
  <2>7. CASE WindowsAt(Instant(t, k)) = {}
    <3>1. k \in Int /\ Instant(t, k) \in Int
      <4>1. request.lookback \in Nat /\ request.window \in Int
        BY <2>1, ResolvableMeans
      <4> QED
        BY <2>3, <4>1 DEF Instant
    <3>2. Instant(t, k) < source.rows[1].close_time \/ source.rows[1].close_time <= Instant(t, k)
      BY <2>3, <3>1
    <3>3. Instant(t, k) < source.rows[1].close_time \/ InAHole(Instant(t, k))
      BY <2>1, <2>3, <2>7, <3>2, MissIsInAHole
    <3> QED
      BY <3>3 DEF t
  <2> QED
    BY <2>6, <2>7
<1> QED
  BY <1>1, ChainInvariant, PTL


-----------------------------------------------------------------------------
(* What a reading is of                                                    *)

(* The lookback an indicator demands of a grid is what its definition      *)
(* reads.                                                                  *)
LEMMA LookbackIsRead ==
  ASSUME NEW indicator \in Indicator, NEW period \in Int
  PROVE  WindowsRead(indicator, period) = LookbackOf(indicator, period)
BY DEF Indicator, WindowsRead, LookbackOf

LEMMA IndicatorsReadFields == \A indicator \in Indicator : FieldsOf(indicator) # {}
BY DEF Indicator, FieldsOf

(* A reading is null just where an input is, and keeps the lists it is of. *)
LEMMA ReadingIs ==
  ASSUME NEW indicator, NEW period, NEW row
  PROVE  LET reading == Reading(indicator, period, row) IN
         /\ reading.null <=> HasMissingInput(indicator, row)
         /\ ~reading.null => /\ DOMAIN reading.lists = FieldsOf(indicator)
                             /\ \A x \in FieldsOf(indicator) : reading.lists[x] = row.lists[x]
<1>1. CASE HasMissingInput(indicator, row)
  BY <1>1 DEF Reading, NoReading
<1>2. CASE ~HasMissingInput(indicator, row)
  <2> DEFINE lists == [x \in FieldsOf(indicator) |-> row.lists[x]]
             value == Arithmetic!ReadingOf(indicator, lists, period)
  <2>1. Reading(indicator, period, row) = [null |-> FALSE, lists |-> lists, value |-> value]
    BY <1>2 DEF Reading
  <2>2. DOMAIN lists = FieldsOf(indicator) /\ \A x \in FieldsOf(indicator) : lists[x] = row.lists[x]
    OBVIOUS
  <2> HIDE DEF lists, value
  <2> QED
    BY <1>2, <2>1, <2>2
<1> QED
  BY <1>1, <1>2

(* A row of a lookback's answer.                                           *)
LEMMA AnsweredRow ==
  ASSUME LookbackSoFar, RecordSoFar, record # Null, stage # "none", NEW n \in DOMAIN record.rows
  PROVE  LET t == record.rows[n].tick IN
         /\ source \in Source /\ request \in Request /\ ResolvableGrid(source, request)
         /\ t \in Int /\ record.rows[n].lists = PromisedOf(t)
<1>1. /\ source \in Source /\ request \in Request /\ ResolvableGrid(source, request)
      /\ record.rows = Promised
  BY DEF LookbackSoFar, RecordSoFar
<1>2. /\ n \in DOMAIN Ticks /\ record.rows[n].tick = Ticks[n]
      /\ record.rows[n].lists = PromisedOf(Ticks[n])
  BY <1>1 DEF Promised
<1>3. Ticks[n] \in Int
  BY <1>1, <1>2, TicksAreTheGrid
<1> QED
  BY <1>1, <1>2, <1>3

(* The lists of a record are sequences where they are there, whoever made  *)
(* it.                                                                     *)
LEMMA ListsAreSequences ==
  ASSUME LookbackSoFar, RecordSoFar, record # Null,
         NEW n \in DOMAIN record.rows, NEW x \in record.fields
  PROVE  LET list == record.rows[n].lists[x] IN
         list = Null \/ (Len(list) \in Nat /\ DOMAIN list = 1 .. Len(list))
<1>1. CASE stage = "none"
  BY <1>1, ChainAssumption DEF RecordSoFar
<1>2. CASE stage # "none"
  <2> DEFINE t == record.rows[n].tick
  <2>1. /\ source \in Source /\ request \in Request /\ ResolvableGrid(source, request)
        /\ t \in Int /\ record.rows[n].lists = PromisedOf(t)
    BY <1>2, AnsweredRow
  <2>2. x \in Field /\ request.lookback \in Nat
    BY <1>2, <2>1, ResolvableMeans DEF RecordSoFar
  <2> HIDE DEF t
  <2>3. CASE FullyPresent(t)
    BY <2>1, <2>2, <2>3, PromisedLists
  <2>4. CASE ~FullyPresent(t)
    BY <2>1, <2>2, <2>4 DEF PromisedOf, NoLists
  <2> QED
    BY <2>3, <2>4
<1> QED
  BY <1>1, <1>2

(* A tick's inputs are missing just when one of its windows is not there.  *)
LEMMA MissingIsNotPresent ==
  ASSUME source \in Source, request \in Request, ResolvableGrid(source, request),
         NEW t \in Int, NEW row, row.lists = PromisedOf(t),
         NEW indicator \in Indicator, FieldsOf(indicator) \subseteq Field
  PROVE  HasMissingInput(indicator, row) <=> ~FullyPresent(t)
<1>1. CASE FullyPresent(t)
  <2>1. ASSUME NEW x \in FieldsOf(indicator)
        PROVE  row.lists[x] # Null /\ \A k \in DOMAIN row.lists[x] : row.lists[x][k] # Null
    BY <1>1, PromisedLists
  <2> QED
    BY <1>1, <2>1 DEF HasMissingInput
<1>2. CASE ~FullyPresent(t)
  <2>1. PICK x \in FieldsOf(indicator) : TRUE
    BY IndicatorsReadFields
  <2>2. row.lists[x] = Null
    BY <1>2 DEF PromisedOf, NoLists
  <2> QED
    BY <1>2, <2>2 DEF HasMissingInput
<1> QED
  BY <1>1, <1>2

(* Whatever was added before it and whoever made its record, a reading is  *)
(* of whole windows; of a lookback's answer it is there just when the      *)
(* frame has all of them, and is of their cells.                           *)
THEOREM IndicatorsReadWholeWindows == ChainSpec => []ReadingsReadWholeWindows
<1>1. ChainSoFar => ReadingsReadWholeWindows
  <2> SUFFICES ASSUME ChainSoFar, NEW column \in DOMAIN readings, NEW n \in DOMAIN record.rows
               PROVE  LET reading == readings[column][n]
                          count == WindowsRead(column[1], column[2])
                          t == record.rows[n].tick IN
                      /\ ~reading.null =>
                           \A x \in DOMAIN reading.lists :
                             /\ Len(reading.lists[x]) = count
                             /\ \A k \in 1 .. count : reading.lists[x][k] # Null
                      /\ answer # Null =>
                           /\ ~reading.null <=> FullyPresent(t)
                           /\ ~reading.null =>
                                \A k \in 1 .. count : \E i \in WindowsAt(Instant(t, k)) :
                                  \A x \in DOMAIN reading.lists :
                                    reading.lists[x][k] = source.rows[i].cells[x]
    BY DEF ReadingsReadWholeWindows
  <2> DEFINE indicator == column[1]
             row == record.rows[n]
             reading == readings[column][n]
             count == WindowsRead(column[1], column[2])
             t == record.rows[n].tick
  <2>1. LookbackSoFar /\ RecordSoFar /\ ReadingsSoFar
    BY DEF ChainSoFar
  <2>2. record # Null
    <3>1. DOMAIN <<>> = {}
      OBVIOUS
    <3> QED
      BY <2>1, <3>1 DEF ReadingsSoFar
  <2>3. /\ indicator \in Indicator /\ PhasedInputs(indicator, column[2]) /\ column[2] \in Int
        /\ reading = Reading(indicator, column[2], row)
    BY <2>1, ChainAssumption DEF ReadingsSoFar
  <2>4. /\ FieldsOf(indicator) \subseteq record.fields
        /\ count = record.lookback
        /\ \A x \in FieldsOf(indicator) : row.lists[x] # Null => Len(row.lists[x]) = count
    BY <2>3, LookbackIsRead DEF PhasedInputs, Lists
  <2>5. /\ reading.null <=> HasMissingInput(indicator, row)
        /\ ~reading.null => /\ DOMAIN reading.lists = FieldsOf(indicator)
                            /\ \A x \in FieldsOf(indicator) : reading.lists[x] = row.lists[x]
    BY <2>3, ReadingIs
  <2>6. \A x \in FieldsOf(indicator) :
          row.lists[x] = Null \/ DOMAIN row.lists[x] = 1 .. Len(row.lists[x])
    BY <2>1, <2>2, <2>4, ListsAreSequences
  <2>7. ASSUME answer # Null
        PROVE  /\ source \in Source /\ request \in Request /\ ResolvableGrid(source, request)
               /\ t \in Int /\ row.lists = PromisedOf(t)
               /\ FieldsOf(indicator) \subseteq Field /\ count = request.lookback
    <3>1. stage # "none"
      BY <2>1, <2>7 DEF RecordSoFar
    <3> QED
      BY <2>1, <2>2, <2>4, <3>1, AnsweredRow DEF RecordSoFar
  <2> HIDE DEF indicator, row, reading, count, t
  <2>8. ASSUME ~reading.null, NEW x \in DOMAIN reading.lists
        PROVE  Len(reading.lists[x]) = count /\ \A k \in 1 .. count : reading.lists[x][k] # Null
    BY <2>4, <2>5, <2>6, <2>8 DEF HasMissingInput
  <2>9. ASSUME answer # Null
        PROVE  /\ ~reading.null <=> FullyPresent(t)
               /\ ~reading.null =>
                    \A k \in 1 .. count : \E i \in WindowsAt(Instant(t, k)) :
                      \A x \in DOMAIN reading.lists :
                        reading.lists[x][k] = source.rows[i].cells[x]
    <3>1. /\ source \in Source /\ request \in Request /\ ResolvableGrid(source, request)
          /\ t \in Int /\ row.lists = PromisedOf(t)
          /\ FieldsOf(indicator) \subseteq Field /\ count = request.lookback
      BY <2>7, <2>9
    <3>2. ~reading.null <=> FullyPresent(t)
      BY <2>3, <2>5, <3>1, MissingIsNotPresent
    <3>3. ASSUME ~reading.null, NEW k \in 1 .. count
          PROVE  \E i \in WindowsAt(Instant(t, k)) :
                   \A x \in DOMAIN reading.lists : reading.lists[x][k] = source.rows[i].cells[x]
      <4>1. ASSUME NEW x \in DOMAIN reading.lists
            PROVE  /\ TheWindow(t, k) \in WindowsAt(Instant(t, k))
                   /\ reading.lists[x][k] = source.rows[TheWindow(t, k)].cells[x]
        <5>1. x \in Field /\ reading.lists[x] = PromisedOf(t)[x]
          BY <2>5, <3>1, <3>3, <4>1
        <5> QED
          BY <3>1, <3>2, <3>3, <5>1, PromisedLists
      <4>2. PICK x \in DOMAIN reading.lists : TRUE
        BY <2>3, <2>5, <3>3, IndicatorsReadFields
      <4> QED
        BY <4>1, <4>2
    <3> QED
      BY <3>2, <3>3
  <2> QED
    BY <2>8, <2>9 DEF reading, count, t
<1> QED
  BY <1>1, ChainInvariant, PTL

-----------------------------------------------------------------------------
(* Sums over a list, from its first entry up.                              *)

(* Induction up to n, over the set of the numbers that have a property.    *)
LEMMA UpTo ==
  ASSUME NEW n \in Nat, NEW T, 0 \in T, \A i \in 1 .. n : i - 1 \in T => i \in T
  PROVE  0 .. n \subseteq T
<1> DEFINE bad == {i \in 0 .. n : i \notin T}
<1> SUFFICES ASSUME bad # {} PROVE FALSE
  OBVIOUS
<1>1. PICK k \in bad : \A j \in bad : k <= j
  <2>1. bad \in SUBSET Nat
    OBVIOUS
  <2> HIDE DEF bad
  <2> QED
    BY <2>1, LeastOfNat
<1>2. k \in 1 .. n /\ k \notin T
  BY <1>1
<1>3. k - 1 \in 0 .. n /\ ~(k <= k - 1)
  BY <1>2
<1>4. k - 1 \in T
  BY <1>1, <1>3
<1> QED
  BY <1>2, <1>4

(* A recursion on the sum so far.                                          *)
IsSums(sums, values, n) ==
  sums = [k \in 0 .. n |-> IF k = 0 THEN 0 ELSE sums[k - 1] + values[k]]

LEMMA SumsExist ==
  ASSUME NEW values, NEW n \in Nat
  PROVE  \E sums : IsSums(sums, values, n)
<1> DEFINE T == {k \in Nat : \E sums : IsSums(sums, values, k)}
<1>1. 0 \in T
  <2>1. IsSums([i \in 0 .. 0 |-> 0], values, 0)
    BY DEF IsSums
  <2> QED
    BY <2>1
<1>2. ASSUME NEW k \in 1 .. n, k - 1 \in T PROVE k \in T
  <2>1. PICK sums : IsSums(sums, values, k - 1)
    BY <1>2
  <2>2. /\ DOMAIN sums = 0 .. k - 1
        /\ \A i \in 0 .. k - 1 : sums[i] = IF i = 0 THEN 0 ELSE sums[i - 1] + values[i]
    BY <2>1 DEF IsSums
  <2> DEFINE last == sums[k - 1] + values[k]
             longer == [i \in 0 .. k |-> IF i = k THEN last ELSE sums[i]]
  <2>3. ASSUME NEW i \in 0 .. k
        PROVE  longer[i] = IF i = 0 THEN 0 ELSE longer[i - 1] + values[i]
    <3>1. i # k => i \in 0 .. k - 1
      OBVIOUS
    <3>2. i # 0 => i - 1 \in 0 .. k /\ i - 1 # k
      OBVIOUS
    <3> QED
      BY <2>2, <3>1, <3>2
  <2>4. longer = [i \in 0 .. k |-> longer[i]]
    OBVIOUS
  <2> HIDE DEF longer
  <2>5. IsSums(longer, values, k)
    BY <2>3, <2>4 DEF IsSums
  <2> QED
    BY <2>5
<1> HIDE DEF T
<1>3. n \in T
  BY <1>1, <1>2, UpTo
<1> QED
  BY <1>3 DEF T

LEMMA SumOfIs ==
  ASSUME NEW terms, Len(terms) \in Nat
  PROVE  \E sums : IsSums(sums, terms, Len(terms)) /\ SumOf(terms) = sums[Len(terms)]
<1> DEFINE n == Len(terms)
           sum == CHOOSE f : IsSums(f, terms, n)
<1>1. IsSums(sum, terms, n)
  <2>1. \E f : IsSums(f, terms, n)
    BY SumsExist
  <2> QED
    BY <2>1
<1>2. SumOf(terms) = sum[n]
  BY DEF SumOf, IsSums
<1> QED
  BY <1>1, <1>2

(* n numbers.                                                              *)
Numbers(v, n) == n \in Nat /\ Len(v) = n /\ v \in [1 .. n -> Int]

(* Such a sum, a term at a time.                                           *)
LEMMA SumSteps ==
  ASSUME NEW v, NEW n, Numbers(v, n)
  PROVE  \E sums : /\ sums[0] = 0 /\ SumOf(v) = sums[n]
                   /\ \A k \in 1 .. n : sums[k] = sums[k - 1] + v[k]
                   /\ \A k \in 0 .. n : sums[k] \in Int
<1>1. n \in Nat /\ Len(v) = n /\ \A k \in 1 .. n : v[k] \in Int
  BY DEF Numbers
<1>2. PICK sums : IsSums(sums, v, n) /\ SumOf(v) = sums[n]
  BY <1>1, SumOfIs
<1>3. sums[0] = 0 /\ \A k \in 1 .. n : sums[k] = sums[k - 1] + v[k]
  <2>1. 0 \in 0 .. n /\ \A k \in 1 .. n : k \in 0 .. n /\ k # 0
    BY <1>1
  <2> QED
    BY <1>2, <2>1 DEF IsSums
<1> DEFINE T == {k \in 0 .. n : sums[k] \in Int}
<1>4. 0 \in T
  BY <1>1, <1>3
<1>5. \A k \in 1 .. n : k - 1 \in T => k \in T
  BY <1>1, <1>3
<1> HIDE DEF T
<1>6. 0 .. n \subseteq T
  BY <1>1, <1>4, <1>5, UpTo
<1> QED
  BY <1>2, <1>3, <1>6 DEF T

LEMMA SumIsANumber ==
  ASSUME NEW v, NEW n, Numbers(v, n)
  PROVE  SumOf(v) \in Int
<1>1. n \in 0 .. n
  BY DEF Numbers
<1> QED
  BY <1>1, SumSteps

LEMMA SumIsNotNegative ==
  ASSUME NEW v, NEW n, Numbers(v, n), \A k \in 1 .. n : v[k] >= 0
  PROVE  SumOf(v) >= 0
<1>1. n \in Nat /\ \A k \in 1 .. n : v[k] \in Int
  BY DEF Numbers
<1>2. PICK sums : /\ sums[0] = 0 /\ SumOf(v) = sums[n]
                  /\ \A k \in 1 .. n : sums[k] = sums[k - 1] + v[k]
                  /\ \A k \in 0 .. n : sums[k] \in Int
  BY SumSteps
<1> DEFINE T == {k \in 0 .. n : sums[k] >= 0}
<1>3. 0 \in T
  BY <1>1, <1>2
<1>4. \A k \in 1 .. n : k - 1 \in T => k \in T
  <2>1. \A k \in 1 .. n : k \in 0 .. n /\ k - 1 \in 0 .. n /\ sums[k - 1] \in Int /\ v[k] \in Int
    BY <1>1, <1>2
  <2> QED
    BY <1>2, <2>1
<1> HIDE DEF T
<1>5. 0 .. n \subseteq T /\ n \in 0 .. n
  BY <1>1, <1>3, <1>4, UpTo
<1> QED
  BY <1>2, <1>5 DEF T

LEMMA SumIsPositive ==
  ASSUME NEW v, NEW n, Numbers(v, n), n > 0, \A k \in 1 .. n : v[k] > 0
  PROVE  SumOf(v) > 0
<1>1. n \in Nat \ {0} /\ \A k \in 1 .. n : v[k] \in Int
  BY DEF Numbers
<1>2. PICK sums : /\ sums[0] = 0 /\ SumOf(v) = sums[n]
                  /\ \A k \in 1 .. n : sums[k] = sums[k - 1] + v[k]
                  /\ \A k \in 0 .. n : sums[k] \in Int
  BY SumSteps
<1> DEFINE T == {k \in 0 .. n : sums[k] >= k}
<1>3. 0 \in T
  BY <1>1, <1>2
<1>4. \A k \in 1 .. n : k - 1 \in T => k \in T
  <2>1. \A k \in 1 .. n : k \in 0 .. n /\ k - 1 \in 0 .. n /\ sums[k - 1] \in Int /\ v[k] \in Int
    BY <1>1, <1>2
  <2> QED
    BY <1>2, <2>1
<1> HIDE DEF T
<1>5. 0 .. n \subseteq T /\ n \in 0 .. n
  BY <1>1, <1>3, <1>4, UpTo
<1>6. sums[n] >= n
  BY <1>5 DEF T
<1> QED
  BY <1>1, <1>2, <1>5, <1>6

(* Backwards the sum is the same.                                          *)
LEMMA SumOfTheReversed ==
  ASSUME NEW v, NEW n, Numbers(v, n), NEW w, Numbers(w, n),
         \A k \in 1 .. n : w[k] = v[(n + 1) - k]
  PROVE  SumOf(w) = SumOf(v)
<1>1. n \in Nat /\ (\A k \in 1 .. n : v[k] \in Int /\ w[k] \in Int)
  BY DEF Numbers
<1>2. PICK sums : /\ sums[0] = 0 /\ SumOf(v) = sums[n]
                  /\ \A k \in 1 .. n : sums[k] = sums[k - 1] + v[k]
                  /\ \A k \in 0 .. n : sums[k] \in Int
  BY SumSteps
<1>3. PICK backs : /\ backs[0] = 0 /\ SumOf(w) = backs[n]
                   /\ \A k \in 1 .. n : backs[k] = backs[k - 1] + w[k]
                   /\ \A k \in 0 .. n : backs[k] \in Int
  BY SumSteps
<1> DEFINE T == {k \in 0 .. n : sums[k] = backs[n] - backs[n - k]}
<1>4. 0 \in T
  <2>1. 0 \in 0 .. n /\ n \in 0 .. n /\ n - 0 = n
    BY <1>1
  <2> QED
    BY <1>2, <1>3, <2>1
<1>5. ASSUME NEW k \in 1 .. n, k - 1 \in T PROVE k \in T
  <2>1. PICK j : j = n - k
    OBVIOUS
  <2>2. /\ k \in 0 .. n /\ k - 1 \in 0 .. n /\ j \in 0 .. n /\ j + 1 \in 1 .. n /\ j + 1 \in 0 .. n
        /\ n \in 0 .. n
        /\ n - (k - 1) = j + 1 /\ (j + 1) - 1 = j /\ (n + 1) - (j + 1) = k
    BY <1>1, <2>1
  <2>3. sums[k - 1] = backs[n] - backs[j + 1]
    BY <1>5, <2>2
  <2>4. sums[k] = sums[k - 1] + v[k]
    BY <1>2
  <2>5. backs[j + 1] = backs[j] + w[j + 1] /\ w[j + 1] = v[k]
    BY <1>3, <2>2
  <2>6. v[k] \in Int /\ backs[n] \in Int /\ backs[j] \in Int /\ sums[k - 1] \in Int
    BY <1>1, <1>2, <1>3, <2>2
  <2>7. sums[k] = backs[n] - backs[j]
    BY <2>3, <2>4, <2>5, <2>6
  <2> QED
    BY <2>1, <2>2, <2>7
<1> HIDE DEF T
<1>6. 0 .. n \subseteq T /\ n \in 0 .. n
  BY <1>1, <1>4, <1>5, UpTo
<1>7. sums[n] = backs[n] - backs[0]
  <2>1. n - n = 0
    BY <1>1
  <2> QED
    BY <1>6, <2>1 DEF T
<1> QED
  BY <1>1, <1>2, <1>3, <1>6, <1>7

LEMMA CountOfFirst ==
  ASSUME NEW n \in Nat
  PROVE  Cardinality(1 .. n) = n
BY FS_Interval

LEMMA SameCount == \A S : Arithmetic!Cardinality(S) = Cardinality(S)
BY DEF Arithmetic!Cardinality, Cardinality

(* Of numbers that are all there none is dropped.                          *)
LEMMA StatedAreAll ==
  ASSUME NEW v, NEW n, Numbers(v, n)
  PROVE  Arithmetic!Stated(v) = v
<1>1. n \in Nat /\ DOMAIN v = 1 .. n /\ v = [k \in 1 .. n |-> v[k]] /\ \A k \in 1 .. n : v[k] # Null
  BY LookbackAssumption DEF Numbers
<1> DEFINE stated == {k \in DOMAIN v : v[k] # Null}
           place(m) == CHOOSE k \in stated : Arithmetic!Cardinality({j \in stated : j < k}) = m - 1
<1>2. stated = 1 .. n
  BY <1>1
<1>3. ASSUME NEW k \in 1 .. n PROVE Arithmetic!Cardinality({j \in stated : j < k}) = k - 1
  <2>1. {j \in stated : j < k} = 1 .. k - 1
    BY <1>1, <1>2
  <2>2. k - 1 \in Nat
    BY <1>1
  <2>3. Cardinality(1 .. k - 1) = k - 1
    BY <2>2, CountOfFirst
  <2> QED
    BY <2>1, <2>3, SameCount
<1>4. Arithmetic!Cardinality(stated) = n
  BY <1>1, <1>2, CountOfFirst, SameCount
<1>5. ASSUME NEW m \in 1 .. n PROVE place(m) = m
  <2>1. m \in stated /\ Arithmetic!Cardinality({j \in stated : j < m}) = m - 1
    BY <1>2, <1>3
  <2>2. PICK p : p = place(m)
    OBVIOUS
  <2>3. p \in stated /\ Arithmetic!Cardinality({j \in stated : j < p}) = m - 1
    BY <2>1, <2>2
  <2>4. p \in 1 .. n /\ p - 1 = m - 1
    BY <1>2, <1>3, <2>3
  <2>5. p = m
    BY <1>1, <2>4
  <2> QED
    BY <2>2, <2>5
<1>6. Arithmetic!Stated(v) = [m \in 1 .. Arithmetic!Cardinality(stated) |-> v[place(m)]]
  BY DEF Arithmetic!Stated
<1> HIDE DEF stated, place
<1>7. Arithmetic!Stated(v) = [m \in 1 .. n |-> v[m]]
  BY <1>4, <1>5, <1>6
<1> QED
  BY <1>1, <1>7

LEMMA TotalIsTheSum ==
  ASSUME NEW v, NEW n, Numbers(v, n)
  PROVE  Arithmetic!Total(v) = SumOf(v)
BY StatedAreAll DEF Arithmetic!Total, SumOf

-----------------------------------------------------------------------------
(* The indicators, of lists without a null                                 *)

LEMMA GreatestOfTwo ==
  ASSUME NEW a \in Int, NEW b \in Int
  PROVE  GreatestIn({a, b}) = IF a > b THEN a ELSE b
<1>1. PICK g : g = IF a > b THEN a ELSE b
  OBVIOUS
<1>2. g \in {a, b} /\ \A y \in {a, b} : g >= y
  BY <1>1
<1>3. \A x \in {a, b} : (\A y \in {a, b} : x >= y) => x = g
  BY <1>1
<1> QED
  BY <1>1, <1>2, <1>3 DEF GreatestIn

LEMMA GreatestOfThree ==
  ASSUME NEW a \in Int, NEW b \in Int, NEW c \in Int, NEW g \in {a, b, c},
         g >= a, g >= b, g >= c
  PROVE  GreatestIn({a, b, c}) = g
<1>1. \A y \in {a, b, c} : g >= y
  OBVIOUS
<1>2. \A x \in {a, b, c} : (\A y \in {a, b, c} : x >= y) => x = g
  OBVIOUS
<1> QED
  BY <1>1, <1>2 DEF GreatestIn

LEMMA NullIsNoNumber == \A x \in Int : x # Null
BY LookbackAssumption

LEMMA HigherOfNumbers ==
  ASSUME NEW a \in Int, NEW b \in Int
  PROVE  /\ Arithmetic!Higher(a, b) = IF a > b THEN a ELSE b
         /\ Arithmetic!Lower(a, b) = IF a < b THEN a ELSE b
         /\ Arithmetic!Minus(a, b) = a - b
<1>1. a # Null /\ b # Null /\ Null \notin {a, b}
  BY NullIsNoNumber
<1> QED
  BY <1>1 DEF Arithmetic!Higher, Arithmetic!Lower, Arithmetic!Minus

LEMMA ListOf ==
  ASSUME NEW n \in Nat, NEW v, v = [k \in 1 .. n |-> v[k]], \A k \in 1 .. n : v[k] \in Int
  PROVE  Numbers(v, n)
<1>1. v \in [1 .. n -> Int]
  OBVIOUS
<1>2. Len(v) = n
  BY <1>1
<1> QED
  BY <1>1, <1>2 DEF Numbers

LEMMA NumbersAre ==
  ASSUME NEW v, NEW n, Numbers(v, n)
  PROVE  n \in Nat /\ Len(v) = n /\ DOMAIN v = 1 .. n /\ \A k \in 1 .. n : v[k] \in Int
BY DEF Numbers

(* CutlersRSI.values: changes oldest first, so their halves are summed     *)
(* backwards.                                                              *)
LEMMA ChangesAre ==
  ASSUME NEW P \in Nat, NEW c, Numbers(c, P + 1)
  PROVE  /\ Numbers(Arithmetic!Changes(c), P)
         /\ \A k \in 1 .. P : Arithmetic!Changes(c)[k] = c[(P + 1) - k] - c[(P + 2) - k]
<1>1. Len(c) = P + 1 /\ DOMAIN c = 1 .. P + 1 /\ \A k \in 1 .. P + 1 : c[k] \in Int
  BY NumbersAre
<1> DEFINE b == [k \in DOMAIN c |-> c[Len(c) + 1 - k]]
           d == [k \in 1 .. Len(b) - 1 |-> Arithmetic!Minus(b[k + 1], b[k])]
<1>2. /\ b = [k \in 1 .. P + 1 |-> b[k]]
      /\ \A k \in 1 .. P + 1 : b[k] = c[(P + 2) - k] /\ b[k] \in Int
  <2>1. \A k \in 1 .. P + 1 : (Len(c) + 1) - k = (P + 2) - k /\ (P + 2) - k \in 1 .. P + 1
    BY <1>1
  <2> QED
    BY <1>1, <2>1
<1> HIDE DEF b
<1>3. Len(b) = P + 1
  BY <1>2, ListOf, NumbersAre
<1>4. /\ d = [k \in 1 .. P |-> d[k]]
      /\ \A k \in 1 .. P : d[k] = Arithmetic!Minus(b[k + 1], b[k])
  BY <1>3
<1>5. Arithmetic!Changes(c) = Arithmetic!Stated(d)
  BY DEF Arithmetic!Changes, Arithmetic!Differences, b
<1> HIDE DEF d
<1>6. ASSUME NEW k \in 1 .. P PROVE d[k] = c[(P + 1) - k] - c[(P + 2) - k] /\ d[k] \in Int
  <2>1. k \in 1 .. P + 1 /\ k + 1 \in 1 .. P + 1 /\ (P + 2) - (k + 1) = (P + 1) - k
    OBVIOUS
  <2>2. b[k] \in Int /\ b[k + 1] \in Int
    BY <1>2, <2>1
  <2>3. d[k] = b[k + 1] - b[k]
    BY <1>4, <2>2, HigherOfNumbers
  <2> QED
    BY <1>2, <2>1, <2>2, <2>3
<1>7. Numbers(d, P)
  BY <1>4, <1>6, ListOf
<1> QED
  BY <1>5, <1>6, <1>7, StatedAreAll

LEMMA RSIIsDefined ==
  ASSUME NEW P \in Nat, NEW c, Numbers(c, P + 1), NEW value, value = Arithmetic!CutlersRSI(c)
  PROVE  IsRSI(value, c, P) /\ 0 <= value[1] /\ value[1] <= 100 * value[2]
<1> DEFINE d == Arithmetic!Changes(c)
           ups == [k \in DOMAIN d |-> Arithmetic!Higher(d[k], 0)]
           downs == [k \in DOMAIN d |-> Arithmetic!Higher(-d[k], 0)]
           gains == [k \in 1 .. P |-> GreatestIn({c[k] - c[k + 1], 0})]
           losses == [k \in 1 .. P |-> GreatestIn({c[k + 1] - c[k], 0})]
<1>1. /\ DOMAIN d = 1 .. P
      /\ \A k \in 1 .. P : d[k] \in Int /\ d[k] = c[(P + 1) - k] - c[(P + 2) - k]
  BY ChangesAre, NumbersAre
<1>2. \A k \in 1 .. P + 1 : c[k] \in Int
  BY NumbersAre
<1> HIDE DEF d
<1>3. ASSUME NEW k \in 1 .. P
      PROVE  /\ ups[k] = (IF d[k] > 0 THEN d[k] ELSE 0) /\ ups[k] \in Int
             /\ downs[k] = (IF d[k] < 0 THEN -d[k] ELSE 0) /\ downs[k] \in Int
  <2>1. d[k] \in Int /\ -d[k] \in Int
    BY <1>1
  <2>2. /\ Arithmetic!Higher(d[k], 0) = IF d[k] > 0 THEN d[k] ELSE 0
        /\ Arithmetic!Higher(-d[k], 0) = IF -d[k] > 0 THEN -d[k] ELSE 0
    <3>1. 0 \in Int
      OBVIOUS
    <3>2. \A a, b \in Int : Arithmetic!Higher(a, b) = IF a > b THEN a ELSE b
      BY HigherOfNumbers
    <3> QED
      BY <2>1, <3>1, <3>2, Zenon
  <2> QED
    BY <1>1, <2>1, <2>2
<1>4. ASSUME NEW k \in 1 .. P
      PROVE  /\ gains[k] = (IF c[k] - c[k + 1] > 0 THEN c[k] - c[k + 1] ELSE 0)
             /\ losses[k] = (IF c[k + 1] - c[k] > 0 THEN c[k + 1] - c[k] ELSE 0)
             /\ gains[k] \in Int /\ gains[k] >= 0 /\ losses[k] \in Int /\ losses[k] >= 0
  <2>1. c[k] - c[k + 1] \in Int /\ c[k + 1] - c[k] \in Int
    <3>1. k \in 1 .. P + 1 /\ k + 1 \in 1 .. P + 1
      OBVIOUS
    <3> QED
      BY <1>2, <3>1
  <2> QED
    BY <2>1, GreatestOfTwo
<1>5. /\ ups = [k \in 1 .. P |-> ups[k]] /\ downs = [k \in 1 .. P |-> downs[k]]
      /\ gains = [k \in 1 .. P |-> gains[k]] /\ losses = [k \in 1 .. P |-> losses[k]]
  BY <1>1
<1>6. Arithmetic!CutlersRSI(c) =
        LET up == Arithmetic!Total(ups)
            down == Arithmetic!Total(downs) IN
        IF up + down = 0 THEN <<50, 1>> ELSE <<100 * up, up + down>>
  BY DEF Arithmetic!CutlersRSI, d
<1>7. Gains(c, P) = SumOf(gains) /\ Losses(c, P) = SumOf(losses)
  BY DEF Gains, Losses
<1> HIDE DEF ups, downs, gains, losses
<1>8. Numbers(ups, P) /\ Numbers(downs, P) /\ Numbers(gains, P) /\ Numbers(losses, P)
  BY <1>3, <1>4, <1>5, ListOf
<1>9. ASSUME NEW k \in 1 .. P
      PROVE  ups[k] = gains[(P + 1) - k] /\ downs[k] = losses[(P + 1) - k]
  <2>1. PICK j : j = (P + 1) - k
    OBVIOUS
  <2>2. j \in 1 .. P /\ j \in 1 .. P + 1 /\ j + 1 \in 1 .. P + 1 /\ (P + 2) - k = j + 1
    BY <2>1
  <2>3. d[k] = c[j] - c[j + 1] /\ c[j] \in Int /\ c[j + 1] \in Int
    BY <1>1, <1>2, <2>1, <2>2
  <2>4. ups[k] = gains[j] /\ downs[k] = losses[j]
    BY <1>3, <1>4, <2>2, <2>3
  <2> QED
    BY <2>1, <2>4
<1>10. PICK g, l : g = SumOf(gains) /\ l = SumOf(losses)
  OBVIOUS
<1>11. Arithmetic!Total(ups) = g /\ Arithmetic!Total(downs) = l
  <2>1. SumOf(ups) = SumOf(gains) /\ SumOf(downs) = SumOf(losses)
    BY <1>8, <1>9, SumOfTheReversed
  <2> QED
    BY <1>8, <1>10, <2>1, TotalIsTheSum
<1>12. g \in Int /\ l \in Int /\ g >= 0 /\ l >= 0
  BY <1>4, <1>8, <1>10, SumIsANumber, SumIsNotNegative
<1>13. value = IF g + l = 0 THEN <<50, 1>> ELSE <<100 * g, g + l>>
  BY <1>6, <1>11
<1>14. CASE g + l = 0
  BY <1>7, <1>10, <1>12, <1>13, <1>14 DEF IsRSI, SameFraction
<1>15. CASE g + l # 0 /\ l > 0
  <2>1. value[1] = 100 * g /\ value[2] = g + l /\ 100 * (l + g) - 100 * l = 100 * g /\ l + g = g + l
    BY <1>12, <1>13, <1>15
  <2>2. SameFraction(value, <<100 * (l + g) - 100 * l, l + g>>)
    BY <1>15, <2>1 DEF SameFraction
  <2> QED
    BY <1>7, <1>10, <1>12, <1>15, <2>1, <2>2 DEF IsRSI
<1>16. CASE g + l # 0 /\ ~(l > 0)
  <2>1. value[1] = 100 * g /\ value[2] = g /\ g > 0 /\ l = 0
    BY <1>12, <1>13, <1>16
  <2>2. SameFraction(value, <<100, 1>>)
    BY <1>12, <2>1 DEF SameFraction
  <2> QED
    BY <1>7, <1>10, <1>12, <1>16, <2>1, <2>2 DEF IsRSI
<1> QED
  BY <1>14, <1>15, <1>16

(* PriceToMovingAverage.values                                             *)
LEMMA MovingAverageIsDefined ==
  ASSUME NEW P \in Nat \ {0}, NEW c, Numbers(c, P), \A k \in 1 .. P : c[k] > 0,
         NEW value, value = Arithmetic!PriceToMovingAverage(c)
  PROVE  /\ SameFraction(value, <<P * c[1], SumOf([k \in 1 .. P |-> c[k]])>>)
         /\ value[1] > 0 /\ value[2] > 0
<1>1. /\ Len(c) = P /\ DOMAIN c = 1 .. P /\ \A k \in 1 .. P : c[k] \in Int
      /\ 1 \in 1 .. P /\ c[1] \in Int /\ c[1] > 0
  BY NumbersAre
<1>2. c = [k \in 1 .. P |-> c[k]]
  BY DEF Numbers
<1>3. PICK s : s = SumOf(c)
  OBVIOUS
<1>4. s \in Int /\ s > 0 /\ Arithmetic!Total(c) = s /\ Arithmetic!Stated(c) = c
  BY <1>3, SumIsANumber, SumIsPositive, TotalIsTheSum, StatedAreAll
<1>5. c[1] # Null
  BY <1>1, NullIsNoNumber
<1>6. value = <<c[1] * P, s>>
  BY <1>1, <1>4, <1>5 DEF Arithmetic!PriceToMovingAverage, Arithmetic!OverMean
<1>7. c[1] * P \in Int /\ c[1] * P > 0 /\ P * c[1] = c[1] * P
  BY <1>1
<1>8. SameFraction(value, <<P * c[1], s>>)
  BY <1>4, <1>6, <1>7 DEF SameFraction
<1>9. SumOf([k \in 1 .. P |-> c[k]]) = s
  <2>1. PICK r : r = [k \in 1 .. P |-> c[k]]
    OBVIOUS
  <2>2. SumOf(r) = s
    BY <1>2, <1>3, <2>1
  <2> QED
    BY <2>1, <2>2
<1>10. value[1] > 0 /\ value[2] > 0
  BY <1>4, <1>6, <1>7
<1> QED
  BY <1>8, <1>9, <1>10, Zenon

(* list.slice of lists that were concatenated                              *)
LEMMA FunctionIsList ==
  ASSUME NEW n \in Nat, NEW S, NEW v \in [1 .. n -> S]
  PROVE  v \in Seq(S) /\ Len(v) = n
OBVIOUS

LEMMA NumbersAreAList ==
  ASSUME NEW v, NEW n, Numbers(v, n)
  PROVE  v \in Seq(Int) /\ Len(v) = n
BY FunctionIsList DEF Numbers

LEMMA SliceIs ==
  ASSUME NEW q \in Seq(Int), NEW a \in Nat, NEW n \in Nat, a + n <= Len(q)
  PROVE  /\ SubSeq(q, a + 1, a + n) \in Seq(Int) /\ Len(SubSeq(q, a + 1, a + n)) = n
         /\ \A k \in 1 .. n : SubSeq(q, a + 1, a + n)[k] = q[a + k]
<1>1. PICK first, last : first = a + 1 /\ last = a + n
  OBVIOUS
<1>2. first \in Nat \ {0} /\ last \in Nat /\ last <= Len(q) /\ (last - first) + 1 = n
  BY <1>1
<1>3. SubSeq(q, first, last) = [k \in 1 .. (last - first) + 1 |-> q[(k + first) - 1]]
  BY <1>2
<1>4. ASSUME NEW k \in 1 .. n
      PROVE  (k + first) - 1 = a + k /\ a + k \in 1 .. Len(q) /\ q[a + k] \in Int
  <2>1. (k + first) - 1 = a + k /\ a + k \in 1 .. Len(q)
    BY <1>1
  <2> QED
    BY <2>1
<1> DEFINE cut == [k \in 1 .. n |-> q[a + k]]
<1>5. SubSeq(q, first, last) = cut
  BY <1>2, <1>3, <1>4
<1>6. cut \in [1 .. n -> Int] /\ \A k \in 1 .. n : cut[k] = q[a + k]
  BY <1>4
<1> HIDE DEF cut
<1>7. cut \in Seq(Int) /\ Len(cut) = n
  BY <1>6, FunctionIsList
<1> QED
  BY <1>1, <1>5, <1>6, <1>7

LEMMA ConcatIs ==
  ASSUME NEW q \in Seq(Int), NEW r \in Seq(Int)
  PROVE  /\ q \o r \in Seq(Int) /\ Len(q \o r) = Len(q) + Len(r)
         /\ \A k \in 1 .. Len(q) : (q \o r)[k] = q[k]
         /\ \A k \in 1 .. Len(r) : (q \o r)[Len(q) + k] = r[k]
OBVIOUS

LEMMA TailIs ==
  ASSUME NEW q \in Seq(Int), NEW n \in Nat, Len(q) = n + 1
  PROVE  Tail(q) \in Seq(Int) /\ Len(Tail(q)) = n /\ \A k \in 1 .. n : Tail(q)[k] = q[k + 1]
<1>1. q # <<>>
  OBVIOUS
<1> QED
  BY <1>1

(* RelativeRange._decomposed: cut again, the three are aligned.            *)
LEMMA RangesAre ==
  ASSUME NEW P \in Nat, NEW h, Numbers(h, P + 1), NEW l, Numbers(l, P + 1),
         NEW c, Numbers(c, P + 1)
  PROVE  Arithmetic!TrueRanges(h, l, c, P) =
           [k \in 1 .. P |-> Arithmetic!Minus(Arithmetic!Higher(h[k], c[k + 1]),
                                              Arithmetic!Lower(l[k], c[k + 1]))]
<1> DEFINE q1 == SubSeq(h, 1, P)
           q2 == SubSeq(l, 1, P)
           q3 == SubSeq(Tail(c), 1, P)
           packed == q1 \o q2 \o q3
           slice(offset) == SubSeq(packed, offset + 1, offset + P)
<1>1. /\ h \in Seq(Int) /\ Len(h) = P + 1 /\ l \in Seq(Int) /\ Len(l) = P + 1
      /\ c \in Seq(Int) /\ Len(c) = P + 1
  BY NumbersAreAList
<1>2. Tail(c) \in Seq(Int) /\ Len(Tail(c)) = P /\ \A k \in 1 .. P : Tail(c)[k] = c[k + 1]
  BY <1>1, TailIs
<1>3. ASSUME NEW q \in Seq(Int), P <= Len(q)
      PROVE  /\ SubSeq(q, 1, P) \in Seq(Int) /\ Len(SubSeq(q, 1, P)) = P
             /\ \A k \in 1 .. P : SubSeq(q, 1, P)[k] = q[k]
  <2>1. 0 \in Nat /\ 0 + P <= Len(q) /\ 0 + 1 = 1 /\ 0 + P = P
    BY <1>3
  <2>2. \A k \in 1 .. P : 0 + k = k
    OBVIOUS
  <2>3. /\ SubSeq(q, 0 + 1, 0 + P) \in Seq(Int) /\ Len(SubSeq(q, 0 + 1, 0 + P)) = P
        /\ \A k \in 1 .. P : SubSeq(q, 0 + 1, 0 + P)[k] = q[0 + k]
    BY <2>1, SliceIs
  <2> QED
    BY <2>1, <2>2, <2>3
<1>4. /\ q1 \in Seq(Int) /\ Len(q1) = P /\ \A k \in 1 .. P : q1[k] = h[k]
      /\ q2 \in Seq(Int) /\ Len(q2) = P /\ \A k \in 1 .. P : q2[k] = l[k]
      /\ q3 \in Seq(Int) /\ Len(q3) = P /\ \A k \in 1 .. P : q3[k] = c[k + 1]
  <2>1. P <= P + 1 /\ P <= P
    OBVIOUS
  <2> QED
    BY <1>1, <1>2, <1>3, <2>1
<1>5. Arithmetic!TrueRanges(h, l, c, P) =
        [k \in 1 .. P |-> Arithmetic!Minus(Arithmetic!Higher(slice(0)[k], slice(2 * P)[k]),
                                           Arithmetic!Lower(slice(P)[k], slice(2 * P)[k]))]
  BY DEF Arithmetic!TrueRanges
<1> HIDE DEF q1, q2, q3
<1> DEFINE q12 == q1 \o q2
<1>6. /\ q12 \in Seq(Int) /\ Len(q12) = P + P
      /\ \A k \in 1 .. P : q12[k] = h[k] /\ q12[P + k] = l[k]
  <2>1. /\ q12 \in Seq(Int) /\ Len(q12) = Len(q1) + Len(q2)
        /\ \A k \in 1 .. Len(q1) : q12[k] = q1[k]
        /\ \A k \in 1 .. Len(q2) : q12[Len(q1) + k] = q2[k]
    BY <1>4, ConcatIs
  <2> HIDE DEF q12
  <2> QED
    BY <1>4, <2>1
<1>7. packed = q12 \o q3
  OBVIOUS
<1> HIDE DEF q12, packed
<1>8. /\ packed \in Seq(Int) /\ Len(packed) = (P + P) + P
      /\ \A k \in 1 .. P + P : packed[k] = q12[k]
      /\ \A k \in 1 .. P : packed[(P + P) + k] = q3[k]
  <2>1. /\ packed \in Seq(Int) /\ Len(packed) = Len(q12) + Len(q3)
        /\ \A k \in 1 .. Len(q12) : packed[k] = q12[k]
        /\ \A k \in 1 .. Len(q3) : packed[Len(q12) + k] = q3[k]
    BY <1>4, <1>6, <1>7, ConcatIs, ZenonT(60)
  <2> QED
    BY <1>4, <1>6, <2>1
<1>9. ASSUME NEW k \in 1 .. P
      PROVE  slice(0)[k] = h[k] /\ slice(P)[k] = l[k] /\ slice(2 * P)[k] = c[k + 1]
  <2>1. /\ 0 \in Nat /\ 2 * P \in Nat /\ 0 + P <= Len(packed) /\ P + P <= Len(packed)
        /\ 2 * P + P <= Len(packed) /\ 2 * P = P + P
    BY <1>8
  <2>2. slice(0)[k] = packed[0 + k]
    BY <1>8, <2>1, SliceIs
  <2>3. slice(P)[k] = packed[P + k]
    BY <1>8, <2>1, SliceIs
  <2>4. slice(2 * P)[k] = packed[2 * P + k]
    BY <1>8, <2>1, SliceIs
  <2>5. 0 + k = k /\ k \in 1 .. P + P /\ P + k \in 1 .. P + P
    OBVIOUS
  <2>6. q12[k] = h[k] /\ q12[P + k] = l[k]
    BY <1>6
  <2> HIDE DEF slice
  <2>7. packed[0 + k] = h[k] /\ packed[P + k] = l[k]
    BY <1>8, <2>5, <2>6
  <2>8. packed[2 * P + k] = c[k + 1]
    BY <1>4, <1>8, <2>1
  <2> QED
    BY <2>2, <2>3, <2>4, <2>7, <2>8
<1> HIDE DEF slice
<1> QED
  BY <1>5, <1>9

LEMMA RelativeRangeIsDefined ==
  ASSUME NEW P \in Nat \ {0}, NEW lists,
         Numbers(lists.high, P + 1), Numbers(lists.low, P + 1), Numbers(lists.close, P + 1),
         lists.close[1] > 0,
         \A k \in 1 .. P : lists.low[k] <= lists.high[k],
         NEW value, value = Arithmetic!RelativeRange(lists.high, lists.low, lists.close, P)
  PROVE  SameFraction(value, <<SumOf([k \in 1 .. P |-> TrueRange(lists, k)]), P * lists.close[1]>>)
<1>1. PICK h, l, c : h = lists.high /\ l = lists.low /\ c = lists.close
  OBVIOUS
<1>2. /\ Numbers(h, P + 1) /\ Numbers(l, P + 1) /\ Numbers(c, P + 1)
      /\ \A k \in 1 .. P + 1 : h[k] \in Int /\ l[k] \in Int /\ c[k] \in Int
  BY <1>1, NumbersAre
<1> DEFINE ranges == [k \in 1 .. P |-> Arithmetic!Minus(Arithmetic!Higher(h[k], c[k + 1]),
                                                       Arithmetic!Lower(l[k], c[k + 1]))]
           documented == [k \in 1 .. P |-> TrueRange(lists, k)]
<1>3. Arithmetic!TrueRanges(h, l, c, P) = ranges
  BY <1>2, RangesAre
<1>4. ASSUME NEW k \in 1 .. P PROVE ranges[k] = documented[k] /\ ranges[k] \in Int
  <2>1. PICK x, y, z : x = h[k] /\ y = l[k] /\ z = c[k + 1]
    OBVIOUS
  <2>2. x \in Int /\ y \in Int /\ z \in Int /\ y <= x
    <3>1. k \in 1 .. P + 1 /\ k + 1 \in 1 .. P + 1
      OBVIOUS
    <3> QED
      BY <1>1, <1>2, <2>1, <3>1
  <2>3. PICK top, bottom : top = (IF x > z THEN x ELSE z) /\ bottom = (IF y < z THEN y ELSE z)
    OBVIOUS
  <2>4. top \in Int /\ bottom \in Int
    BY <2>2, <2>3
  <2>5. Arithmetic!Higher(x, z) = top /\ Arithmetic!Lower(y, z) = bottom
    BY <2>2, <2>3, HigherOfNumbers
  <2>6. Arithmetic!Minus(top, bottom) = top - bottom
    BY <2>4, HigherOfNumbers
  <2>7. ranges[k] = top - bottom
    BY <2>1, <2>5, <2>6
  <2>8. PICK a, b : a = Magnitude(x - z) /\ b = Magnitude(y - z)
    OBVIOUS
  <2>9. /\ a \in Int /\ b \in Int /\ x - y \in Int /\ top - bottom \in Int
        /\ top - bottom >= x - y /\ top - bottom >= a /\ top - bottom >= b
        /\ top - bottom \in {x - y, a, b}
    <3>1. a = (IF x - z < 0 THEN -(x - z) ELSE x - z) /\ b = (IF y - z < 0 THEN -(y - z) ELSE y - z)
      BY <2>8 DEF Magnitude
    <3> QED
      BY <2>2, <2>3, <2>4, <3>1
  <2>10. GreatestIn({x - y, a, b}) = top - bottom
    BY <2>9, GreatestOfThree
  <2>11. TrueRange(lists, k) = GreatestIn({x - y, a, b})
    BY <1>1, <2>1, <2>8 DEF TrueRange
  <2>12. documented[k] = TrueRange(lists, k)
    OBVIOUS
  <2> QED
    BY <2>7, <2>9, <2>10, <2>11, <2>12
<1>5. ranges = [k \in 1 .. P |-> ranges[k]] /\ documented = [k \in 1 .. P |-> documented[k]]
  OBVIOUS
<1> HIDE DEF ranges, documented
<1>6. Numbers(ranges, P) /\ ranges = documented
  <2>1. Numbers(ranges, P)
    BY <1>4, <1>5, ListOf
  <2> QED
    BY <1>4, <1>5, <2>1
<1>7. PICK s : s = SumOf(ranges)
  OBVIOUS
<1>8. /\ s \in Int /\ Arithmetic!Total(ranges) = s /\ Arithmetic!Stated(ranges) = ranges
      /\ Len(ranges) = P
  BY <1>6, <1>7, SumIsANumber, TotalIsTheSum, StatedAreAll, NumbersAre
<1>9. c[1] \in Int /\ c[1] > 0 /\ c[1] # Null
  <2>1. 1 \in 1 .. P + 1
    OBVIOUS
  <2> QED
    BY <1>1, <1>2, <2>1, NullIsNoNumber
<1>10. ranges # <<>>
  BY <1>8
<1>11. value = <<s, P * c[1]>>
  BY <1>1, <1>3, <1>8, <1>9, <1>10 DEF Arithmetic!RelativeRange
<1>12. P * c[1] \in Int /\ P * c[1] > 0
  BY <1>9
<1>13. SameFraction(value, <<s, P * c[1]>>)
  BY <1>8, <1>11, <1>12 DEF SameFraction
<1>14. SumOf(documented) = s
  BY <1>6, <1>7
<1> QED
  BY <1>1, <1>13, <1>14 DEF documented

-----------------------------------------------------------------------------
(* The median, by the ranks of the numbers                                 *)

(* What Ranked counts: of two numbers just one is ahead of the other.      *)
AheadIn(v, k) == {j \in DOMAIN v : v[j] < v[k] \/ (v[j] = v[k] /\ j < k)}

LEMMA AheadIsASubset ==
  ASSUME NEW v, NEW n, Numbers(v, n), NEW i \in 1 .. n
  PROVE  /\ AheadIn(v, i) \subseteq 1 .. n /\ i \notin AheadIn(v, i)
         /\ IsFiniteSet(AheadIn(v, i))
         /\ Cardinality(AheadIn(v, i)) \in 0 .. n - 1
<1>1. n \in Nat /\ DOMAIN v = 1 .. n /\ \A k \in 1 .. n : v[k] \in Int
  BY NumbersAre
<1>2. AheadIn(v, i) \subseteq 1 .. n /\ i \notin AheadIn(v, i)
  BY <1>1 DEF AheadIn
<1>3. IsFiniteSet(1 .. n) /\ Cardinality(1 .. n) = n
  BY <1>1, FS_Interval
<1>4. /\ IsFiniteSet(AheadIn(v, i))
      /\ Cardinality(AheadIn(v, i)) <= n
      /\ Cardinality(AheadIn(v, i)) = n => AheadIn(v, i) = 1 .. n
  BY <1>2, <1>3, FS_Subset
<1>5. Cardinality(AheadIn(v, i)) \in Nat
  BY <1>4, FS_CardinalityType
<1> QED
  BY <1>1, <1>2, <1>4, <1>5

LEMMA OneIsAhead ==
  ASSUME NEW v, NEW n, Numbers(v, n), NEW i \in 1 .. n, NEW j \in 1 .. n, i # j
  PROVE  i \in AheadIn(v, j) \/ j \in AheadIn(v, i)
<1>1. DOMAIN v = 1 .. n /\ v[i] \in Int /\ v[j] \in Int
  BY NumbersAre
<1> QED
  BY <1>1 DEF AheadIn

(* What is ahead of one that is ahead is ahead: the ranks are apart.       *)
LEMMA AheadIsFewer ==
  ASSUME NEW v, NEW n, Numbers(v, n), NEW j \in 1 .. n, NEW i \in AheadIn(v, j)
  PROVE  /\ AheadIn(v, i) \cup {i} \subseteq AheadIn(v, j)
         /\ Cardinality(AheadIn(v, i)) < Cardinality(AheadIn(v, j))
<1>1. n \in Nat /\ DOMAIN v = 1 .. n /\ \A k \in 1 .. n : v[k] \in Int
  BY NumbersAre
<1>2. i \in 1 .. n
  BY AheadIsASubset
<1>3. AheadIn(v, i) \cup {i} \subseteq AheadIn(v, j)
  <2>1. ASSUME NEW k \in AheadIn(v, i) PROVE k \in AheadIn(v, j)
    <3>1. k \in 1 .. n /\ v[k] \in Int /\ v[i] \in Int /\ v[j] \in Int
      BY <1>1, <1>2, <2>1 DEF AheadIn
    <3> QED
      BY <1>1, <1>2, <2>1, <3>1 DEF AheadIn
  <2> QED
    BY <2>1
<1>4. /\ IsFiniteSet(AheadIn(v, i)) /\ i \notin AheadIn(v, i) /\ IsFiniteSet(AheadIn(v, j))
      /\ Cardinality(AheadIn(v, i)) \in Nat /\ Cardinality(AheadIn(v, j)) \in Nat
  BY <1>2, AheadIsASubset
<1>5. Cardinality(AheadIn(v, i) \cup {i}) = Cardinality(AheadIn(v, i)) + 1
  BY <1>4, FS_AddElement
<1>6. Cardinality(AheadIn(v, i) \cup {i}) <= Cardinality(AheadIn(v, j))
  BY <1>3, <1>4, FS_Subset
<1> QED
  BY <1>3, <1>4, <1>5, <1>6

(* So every rank is somebody's.                                            *)
LEMMA EveryRankIsReached ==
  ASSUME NEW v, NEW n, Numbers(v, n), NEW m \in 1 .. n
  PROVE  \E p \in 1 .. n : Cardinality(AheadIn(v, p)) = m - 1
<1> DEFINE rank == [i \in 1 .. n |-> Cardinality(AheadIn(v, i))]
<1>1. rank \in [1 .. n -> 0 .. n - 1]
  BY AheadIsASubset
<1>2. ASSUME NEW i \in 1 .. n, NEW j \in 1 .. n, rank[i] = rank[j] PROVE i = j
  <2>1. ASSUME i # j PROVE FALSE
    <3>1. CASE i \in AheadIn(v, j)
      <4>1. Cardinality(AheadIn(v, i)) < Cardinality(AheadIn(v, j))
        BY <3>1, AheadIsFewer
      <4>2. rank[i] \in Int /\ rank[j] \in Int /\ rank[i] < rank[j]
        BY <1>1, <4>1
      <4> QED
        BY <1>2, <4>2
    <3>2. CASE j \in AheadIn(v, i)
      <4>1. Cardinality(AheadIn(v, j)) < Cardinality(AheadIn(v, i))
        BY <3>2, AheadIsFewer
      <4>2. rank[i] \in Int /\ rank[j] \in Int /\ rank[j] < rank[i]
        BY <1>1, <4>1
      <4> QED
        BY <1>2, <4>2
    <3> QED
      BY <2>1, <3>1, <3>2, OneIsAhead
  <2> QED
    BY <2>1
<1>3. rank \in Injection(1 .. n, 0 .. n - 1)
  BY <1>1, <1>2 DEF Injection, IsInjective
<1>4. n \in Nat
  BY NumbersAre
<1>5. /\ IsFiniteSet(1 .. n) /\ Cardinality(1 .. n) = n
      /\ IsFiniteSet(0 .. n - 1) /\ Cardinality(0 .. n - 1) = n
  <2>1. n - 1 \in Int /\ (0 > n - 1 => n = 0) /\ ((n - 1) - 0) + 1 = n
    BY <1>4
  <2> QED
    BY <1>4, <2>1, FS_Interval
<1>6. rank \in Surjection(1 .. n, 0 .. n - 1)
  BY <1>3, <1>5, FS_Injection
<1>7. m - 1 \in 0 .. n - 1
  BY <1>4
<1>8. PICK p \in 1 .. n : rank[p] = m - 1
  BY <1>6, <1>7 DEF Surjection
<1> QED
  BY <1>8

LEMMA RankedIs ==
  ASSUME NEW v, NEW n, Numbers(v, n), NEW m \in 1 .. n
  PROVE  \E p \in 1 .. n : Arithmetic!Ranked(v, m) = v[p] /\ Cardinality(AheadIn(v, p)) = m - 1
<1> DEFINE p == CHOOSE k \in DOMAIN v : Cardinality(AheadIn(v, k)) = m - 1
<1>1. DOMAIN v = 1 .. n
  BY NumbersAre
<1>2. p \in 1 .. n /\ Cardinality(AheadIn(v, p)) = m - 1
  BY <1>1, EveryRankIsReached
<1>3. Arithmetic!Ranked(v, m) = v[p]
  BY SameCount DEF Arithmetic!Ranked, AheadIn
<1> QED
  BY <1>2, <1>3

Below(v, p) == {k \in DOMAIN v : v[k] < v[p]}
Above(v, p) == {k \in DOMAIN v : v[k] > v[p]}

(* Below a number there is no more than its rank, and above it no more     *)
(* than what is left.                                                      *)
LEMMA RankBounds ==
  ASSUME NEW v, NEW n, Numbers(v, n), NEW p \in 1 .. n, NEW r, r = Cardinality(AheadIn(v, p))
  PROVE  /\ Below(v, p) \subseteq AheadIn(v, p)
         /\ IsFiniteSet(Below(v, p)) /\ Cardinality(Below(v, p)) \in Nat
         /\ Cardinality(Above(v, p)) \in Nat
         /\ Cardinality(Below(v, p)) <= r
         /\ Cardinality(Above(v, p)) <= (n - 1) - r
<1>1. n \in Nat /\ DOMAIN v = 1 .. n /\ \A k \in 1 .. n : v[k] \in Int
  BY NumbersAre
<1> DEFINE A == AheadIn(v, p)
           B == Below(v, p)
           C == Above(v, p)
<1>2. /\ A \subseteq 1 .. n /\ p \notin A /\ IsFiniteSet(A) /\ r \in 0 .. n - 1
  BY AheadIsASubset
<1>3. B \subseteq A /\ C \subseteq 1 .. n
  BY <1>1 DEF AheadIn, Below, Above
<1>4. \A k \in C : k \notin A /\ k # p
  BY <1>1 DEF AheadIn, Above
<1>5. IsFiniteSet(1 .. n) /\ Cardinality(1 .. n) = n
  BY <1>1, FS_Interval
<1> HIDE DEF A, B, C
<1>6. IsFiniteSet(B) /\ IsFiniteSet(C) /\ Cardinality(B) <= Cardinality(A)
  BY <1>2, <1>3, <1>5, FS_Subset
<1>7. Cardinality(B) \in Nat /\ Cardinality(C) \in Nat
  BY <1>6, FS_CardinalityType
<1>8. /\ IsFiniteSet(A \cup {p}) /\ Cardinality(A \cup {p}) = Cardinality(A) + 1
  BY <1>2, FS_AddElement
<1> DEFINE D == A \cup {p}
<1>9. D \cap C = {} /\ D \cup C \subseteq 1 .. n
  BY <1>2, <1>3, <1>4
<1>10. IsFiniteSet(D) /\ Cardinality(D) = r + 1
  BY <1>8 DEF A
<1> HIDE DEF D
<1>11. Cardinality(D \cup C) = Cardinality(D) + Cardinality(C)
  <2>1. Cardinality(D \cap C) = 0
    BY <1>9, FS_EmptySet
  <2>2. Cardinality(D \cup C) = Cardinality(D) + (Cardinality(C) - Cardinality(D \cap C))
    BY <1>6, <1>10, FS_Union
  <2>3. Cardinality(D) \in Int
    BY <1>2, <1>10
  <2> QED
    BY <1>7, <2>1, <2>2, <2>3
<1>12. Cardinality(D \cup C) <= n
  BY <1>5, <1>9, FS_Subset
<1>13. Cardinality(C) <= (n - 1) - r
  BY <1>1, <1>2, <1>7, <1>10, <1>11, <1>12
<1> QED
  BY <1>3, <1>6, <1>7, <1>13 DEF A, B, C

(* list.median: the two in the middle have as many below as above.         *)
LEMMA MedianIs ==
  ASSUME NEW v, NEW n, Numbers(v, n), n > 0
  PROVE  /\ IsTwiceMedian(Arithmetic!TwiceMedian(v), v)
         /\ Arithmetic!TwiceMedian(v) \in Int
         /\ (\A k \in 1 .. n : v[k] > 0) => Arithmetic!TwiceMedian(v) > 0
<1>1. n \in Nat /\ Len(v) = n /\ DOMAIN v = 1 .. n /\ \A k \in 1 .. n : v[k] \in Int
  BY NumbersAre
<1>2. PICK low, high : low = (n + 1) \div 2 /\ high = n \div 2 + 1
  OBVIOUS
<1>3. /\ low \in 1 .. n /\ high \in 1 .. n /\ low + high = n + 1
      /\ low = high \/ (high = low + 1 /\ 2 * low = n)
  BY <1>1, <1>2
<1>4. PICK i \in 1 .. n : Arithmetic!Ranked(v, low) = v[i] /\ Cardinality(AheadIn(v, i)) = low - 1
  BY <1>3, RankedIs
<1>5. PICK j \in 1 .. n : Arithmetic!Ranked(v, high) = v[j] /\ Cardinality(AheadIn(v, j)) = high - 1
  BY <1>3, RankedIs
<1>6. Arithmetic!TwiceMedian(v) = v[i] + v[j]
  <2>1. Arithmetic!Stated(v) = v
    BY StatedAreAll
  <2> QED
    BY <1>1, <1>2, <1>4, <1>5, <2>1 DEF Arithmetic!TwiceMedian
<1>7. v[i] \in Int /\ v[j] \in Int
  BY <1>1
<1>8. v[i] <= v[j]
  <2>1. ASSUME v[j] < v[i] PROVE FALSE
    <3>1. j \in AheadIn(v, i)
      BY <1>1, <2>1 DEF AheadIn
    <3>2. high - 1 < low - 1
      BY <1>4, <1>5, <3>1, AheadIsFewer
    <3> QED
      BY <1>3, <3>2
  <2> QED
    BY <1>7, <2>1
<1>9. ASSUME NEW p \in {i, j}, NEW r, r = Cardinality(AheadIn(v, p))
      PROVE  2 * Cardinality(Below(v, p)) <= n /\ 2 * Cardinality(Above(v, p)) <= n
  <2>1. p \in 1 .. n /\ r \in {low - 1, high - 1}
    BY <1>4, <1>5, <1>9
  <2>2. /\ Cardinality(Below(v, p)) \in Nat /\ Cardinality(Above(v, p)) \in Nat
        /\ Cardinality(Below(v, p)) <= r /\ Cardinality(Above(v, p)) <= (n - 1) - r
    BY <1>9, <2>1, RankBounds
  <2>3. PICK b, a : b = Cardinality(Below(v, p)) /\ a = Cardinality(Above(v, p))
    OBVIOUS
  <2>4. 2 * b <= n /\ 2 * a <= n
    BY <1>1, <1>3, <2>1, <2>2, <2>3
  <2> QED
    BY <2>3, <2>4
<1>10. ASSUME v[i] < v[j] PROVE 2 * Cardinality(Below(v, j)) = n
  <2>1. high = low + 1 /\ 2 * low = n
    <3>1. i \in AheadIn(v, j)
      BY <1>1, <1>10 DEF AheadIn
    <3>2. low - 1 < high - 1
      BY <1>4, <1>5, <3>1, AheadIsFewer
    <3> QED
      BY <1>3, <3>2
  <2>2. PICK b : b = Cardinality(Below(v, j))
    OBVIOUS
  <2>3. /\ IsFiniteSet(Below(v, j)) /\ b \in Nat /\ b <= high - 1
    BY <1>5, <2>2, RankBounds
  <2>4. /\ AheadIn(v, i) \cup {i} \subseteq Below(v, j)
    <3>1. ASSUME NEW k \in AheadIn(v, i) PROVE k \in Below(v, j)
      <4>1. k \in 1 .. n /\ v[k] \in Int /\ v[k] <= v[i]
        BY <1>1, <3>1 DEF AheadIn
      <4> QED
        BY <1>1, <1>7, <1>10, <4>1 DEF Below
    <3>2. i \in Below(v, j)
      BY <1>1, <1>10 DEF Below
    <3> QED
      BY <3>1, <3>2
  <2>5. /\ IsFiniteSet(AheadIn(v, i)) /\ i \notin AheadIn(v, i)
    BY AheadIsASubset
  <2>6. Cardinality(AheadIn(v, i) \cup {i}) = (low - 1) + 1
    BY <1>4, <2>5, FS_AddElement
  <2>7. (low - 1) + 1 <= b
    BY <2>2, <2>3, <2>4, <2>6, FS_Subset
  <2> QED
    BY <1>1, <1>3, <2>1, <2>2, <2>3, <2>7
<1>11. IsTwiceMedian(v[i] + v[j], v)
  <2>1. /\ i \in DOMAIN v /\ j \in DOMAIN v
        /\ \A p \in {i, j} : /\ 2 * Cardinality({k \in DOMAIN v : v[k] < v[p]}) <= Len(v)
                             /\ 2 * Cardinality({k \in DOMAIN v : v[k] > v[p]}) <= Len(v)
        /\ v[i] < v[j] => 2 * Cardinality({k \in DOMAIN v : v[k] < v[j]}) = Len(v)
    BY <1>1, <1>9, <1>10 DEF Below, Above
  <2> QED
    BY <1>8, <2>1 DEF IsTwiceMedian
<1>12. (\A k \in 1 .. n : v[k] > 0) => v[i] + v[j] > 0
  BY <1>7
<1> QED
  BY <1>6, <1>7, <1>11, <1>12

(* LogVolumeRatio.values                                                   *)
LEMMA VolumeRatioIsDefined ==
  ASSUME NEW P \in Nat \ {0}, NEW q, Numbers(q, P + 1), \A k \in 1 .. P + 1 : q[k] > 0,
         NEW value, value = Arithmetic!LogVolumeRatio(q)
  PROVE  /\ value[1] = 2 * q[1] /\ IsTwiceMedian(value[2], SubSeq(q, 2, P + 1))
         /\ value[1] > 0 /\ value[2] > 0
<1>1. q \in Seq(Int) /\ Len(q) = P + 1 /\ \A k \in 1 .. P + 1 : q[k] \in Int
  BY NumbersAre, NumbersAreAList
<1>2. PICK rest : rest = Tail(q)
  OBVIOUS
<1>3. rest \in Seq(Int) /\ Len(rest) = P /\ \A k \in 1 .. P : rest[k] = q[k + 1]
  BY <1>1, <1>2, TailIs
<1>4. SubSeq(q, 2, P + 1) = rest
  <2>1. q # <<>>
    BY <1>1
  <2>2. Tail(q) = SubSeq(q, 2, Len(q))
    BY <1>1, <2>1
  <2> QED
    BY <1>1, <1>2, <2>2
<1>5. Numbers(rest, P)
  BY <1>3 DEF Numbers
<1>6. \A k \in 1 .. P : rest[k] > 0
  BY <1>3
<1>7. PICK median : median = Arithmetic!TwiceMedian(rest)
  OBVIOUS
<1>8. IsTwiceMedian(median, rest) /\ median \in Int /\ median > 0
  BY <1>5, <1>6, <1>7, MedianIs
<1>9. q[1] \in Int /\ q[1] > 0
  <2>1. 1 \in 1 .. P + 1
    OBVIOUS
  <2> QED
    BY <1>1, <2>1
<1>10. Null \notin {q[1], median}
  BY <1>8, <1>9, NullIsNoNumber
<1>11. value = <<2 * q[1], median>>
  BY <1>2, <1>7, <1>10 DEF Arithmetic!LogVolumeRatio
<1>12. value[1] = 2 * q[1] /\ value[2] = median /\ 2 * q[1] > 0
  BY <1>9, <1>11
<1>13. IsTwiceMedian(value[2], SubSeq(q, 2, P + 1))
  BY <1>4, <1>8, <1>12
<1>14. value[1] > 0 /\ value[2] > 0
  BY <1>8, <1>12
<1> QED
  BY <1>12, <1>13, <1>14

-----------------------------------------------------------------------------
(* What a reading's value is                                               *)

(* The entries of a record's lists are numbers or absent, whoever made it. *)
LEMMA ListsAreOfCells ==
  ASSUME LookbackSoFar, RecordSoFar, record # Null,
         NEW n \in DOMAIN record.rows, NEW x \in record.fields,
         record.rows[n].lists[x] # Null
  PROVE  record.rows[n].lists[x] \in Seq(Int \cup {Null})
<1> DEFINE list == record.rows[n].lists[x]
<1>1. CASE stage = "none"
  <2>1. record \in HandBuilt
    BY <1>1 DEF RecordSoFar
  <2> QED
    BY <2>1, ChainAssumption
<1>2. CASE stage # "none"
  <2> DEFINE t == record.rows[n].tick
             l == request.lookback
  <2>1. /\ source \in Source /\ request \in Request /\ ResolvableGrid(source, request)
        /\ t \in Int /\ record.rows[n].lists = PromisedOf(t)
    BY <1>2, AnsweredRow
  <2>2. x \in Field /\ l \in Nat /\ source.complete
    BY <1>2, <2>1, ResolvableMeans DEF RecordSoFar, ResolvableGrid
  <2> HIDE DEF t, l
  <2>3. FullyPresent(t)
    BY <2>1, <2>2 DEF PromisedOf, NoLists
  <2> DEFINE cell(k) == source.rows[TheWindow(t, k)].cells[x]
  <2>4. ASSUME NEW k \in 1 .. l PROVE cell(k) \in Int \cup {Null}
    <3>1. TheWindow(t, k) \in WindowsAt(Instant(t, k))
      BY <2>1, <2>2, <2>3, PromisedLists DEF l
    <3>2. TheWindow(t, k) \in DOMAIN source.rows
      BY <3>1 DEF WindowsAt
    <3> QED
      BY <2>1, <2>2, <3>2, ChainAssumption
  <2>5. list = [k \in 1 .. l |-> cell(k)]
    BY <2>1, <2>2, <2>3 DEF PromisedOf, l
  <2> HIDE DEF cell
  <2>6. [k \in 1 .. l |-> cell(k)] \in [1 .. l -> Int \cup {Null}]
    BY <2>4
  <2> QED
    BY <2>2, <2>5, <2>6, FunctionIsList
<1> QED
  BY <1>1, <1>2

LEMMA WholeListIsNumbers ==
  ASSUME NEW list \in Seq(Int \cup {Null}), NEW l, Len(list) = l,
         \A k \in DOMAIN list : list[k] # Null
  PROVE  Numbers(list, l)
<1>1. l \in Nat /\ DOMAIN list = 1 .. l /\ list \in [1 .. l -> Int \cup {Null}]
  OBVIOUS
<1>2. \A k \in 1 .. l : list[k] \in Int
  BY <1>1
<1> QED
  BY <1>1, <1>2 DEF Numbers

(* What a reading is of: whole lists, positive where it was demanded.      *)
LEMMA InputsAreNumbers ==
  ASSUME ChainSoFar, NEW column \in DOMAIN readings, NEW n \in DOMAIN record.rows,
         ~HasMissingInput(column[1], record.rows[n]), NEW x \in FieldsOf(column[1])
  PROVE  LET list == record.rows[n].lists[x]
             l == LookbackOf(column[1], column[2]) IN
         /\ Numbers(list, l)
         /\ x \in PositiveFields(column[1]) => \A k \in 1 .. l : list[k] > 0
<1> DEFINE list == record.rows[n].lists[x]
           l == LookbackOf(column[1], column[2])
<1>1. LookbackSoFar /\ RecordSoFar /\ ReadingsSoFar
  BY DEF ChainSoFar
<1>2. record # Null
  <2>1. DOMAIN <<>> = {}
    OBVIOUS
  <2> QED
    BY <1>1, <2>1 DEF ReadingsSoFar
<1>3. PhasedInputs(column[1], column[2]) /\ PositiveInputs(column[1])
  BY <1>1 DEF ReadingsSoFar
<1>4. list # Null /\ \A k \in DOMAIN list : list[k] # Null
  BY DEF HasMissingInput
<1>5. list \in Lists(x)
  BY <1>4 DEF Lists
<1>6. x \in record.fields /\ Len(list) = l
  BY <1>3, <1>5 DEF PhasedInputs
<1>7. list \in Seq(Int \cup {Null})
  BY <1>1, <1>2, <1>4, <1>6, ListsAreOfCells
<1>8. x \in PositiveFields(column[1]) => \A k \in DOMAIN list : list[k] > 0
  BY <1>3, <1>4, <1>5 DEF PositiveInputs
<1> HIDE DEF list, l
<1>9. Numbers(list, l) /\ DOMAIN list = 1 .. l
  BY <1>4, <1>6, <1>7, WholeListIsNumbers, NumbersAre
<1> QED
  BY <1>8, <1>9 DEF list, l

LEMMA ReadingValue ==
  ASSUME NEW indicator, NEW period, NEW row, ~HasMissingInput(indicator, row)
  PROVE  LET reading == Reading(indicator, period, row) IN
         /\ reading.lists = [x \in FieldsOf(indicator) |-> row.lists[x]]
         /\ reading.value = Arithmetic!ReadingOf(indicator, reading.lists, period)
<1> DEFINE lists == [x \in FieldsOf(indicator) |-> row.lists[x]]
           value == Arithmetic!ReadingOf(indicator, lists, period)
<1>1. Reading(indicator, period, row) = [null |-> FALSE, lists |-> lists, value |-> value]
  BY DEF Reading
<1>2. PICK reading : reading = Reading(indicator, period, row)
  OBVIOUS
<1>3. reading.lists = lists /\ reading.value = value
  <2> HIDE DEF lists, value
  <2> QED
    BY <1>1, <1>2
<1> QED
  BY <1>2, <1>3

(* Whole lists of the fields an indicator reads, newest first.             *)
WholeInputs(indicator, period, lists) ==
  \A x \in FieldsOf(indicator) :
    /\ Numbers(lists[x], LookbackOf(indicator, period))
    /\ x \in PositiveFields(indicator) =>
         \A k \in 1 .. LookbackOf(indicator, period) : lists[x][k] > 0

(* Each indicator computes its definition, for every such lists.           *)
LEMMA IndicatorsAreDefined ==
  ASSUME NEW indicator \in Indicator, NEW period \in Nat \ {0}, NEW lists,
         WholeInputs(indicator, period, lists),
         NEW value, value = Arithmetic!ReadingOf(indicator, lists, period)
  PROVE  /\ IsDefined(indicator, period, lists, value)
         /\ indicator = "rsi" => 0 <= value[1] /\ value[1] <= 100 * value[2]
         /\ indicator \in {"mapos", "logvolratio"} => value[1] > 0 /\ value[2] > 0
<1>1. CASE indicator = "rsi"
  <2>1. value = Arithmetic!CutlersRSI(lists.close)
    BY <1>1 DEF Arithmetic!ReadingOf
  <2>2. Numbers(lists.close, period + 1)
    BY <1>1 DEF WholeInputs, FieldsOf, LookbackOf
  <2>3. IsRSI(value, lists.close, period) /\ 0 <= value[1] /\ value[1] <= 100 * value[2]
    BY <2>1, <2>2, RSIIsDefined
  <2> QED
    BY <1>1, <2>3 DEF IsDefined
<1>2. CASE indicator = "mapos"
  <2>1. value = Arithmetic!PriceToMovingAverage(lists.close)
    BY <1>2 DEF Arithmetic!ReadingOf
  <2>2. Numbers(lists.close, period) /\ \A k \in 1 .. period : lists.close[k] > 0
    BY <1>2 DEF WholeInputs, FieldsOf, PositiveFields, LookbackOf
  <2>3. PICK close : close = lists.close
    OBVIOUS
  <2>4. /\ SameFraction(value, <<period * close[1], SumOf([k \in 1 .. period |-> close[k]])>>)
        /\ value[1] > 0 /\ value[2] > 0
    BY <2>1, <2>2, <2>3, MovingAverageIsDefined
  <2> QED
    BY <1>2, <2>3, <2>4 DEF IsDefined
<1>3. CASE indicator = "relrange"
  <2>1. value = Arithmetic!RelativeRange(lists.high, lists.low, lists.close, period)
    BY <1>3 DEF Arithmetic!ReadingOf
  <2>2. /\ Numbers(lists.high, period + 1) /\ Numbers(lists.low, period + 1)
        /\ Numbers(lists.close, period + 1) /\ \A k \in 1 .. period + 1 : lists.close[k] > 0
    BY <1>3 DEF WholeInputs, FieldsOf, PositiveFields, LookbackOf
  <2>3. lists.close[1] > 0
    <3>1. 1 \in 1 .. period + 1
      OBVIOUS
    <3> QED
      BY <2>2, <3>1
  <2>4. ASSUME \A k \in 1 .. period : lists.low[k] <= lists.high[k]
        PROVE  SameFraction(value, <<SumOf([k \in 1 .. period |-> TrueRange(lists, k)]),
                                     period * lists.close[1]>>)
    BY <2>1, <2>2, <2>3, <2>4, RelativeRangeIsDefined
  <2> QED
    BY <1>3, <2>4 DEF IsDefined
<1>4. CASE indicator = "logvolratio"
  <2>1. value = Arithmetic!LogVolumeRatio(lists.volume)
    BY <1>4 DEF Arithmetic!ReadingOf
  <2>2. Numbers(lists.volume, period + 1) /\ \A k \in 1 .. period + 1 : lists.volume[k] > 0
    BY <1>4 DEF WholeInputs, FieldsOf, PositiveFields, LookbackOf
  <2>3. /\ value[1] = 2 * lists.volume[1]
        /\ IsTwiceMedian(value[2], SubSeq(lists.volume, 2, period + 1))
        /\ value[1] > 0 /\ value[2] > 0
    BY <2>1, <2>2, VolumeRatioIsDefined
  <2> QED
    BY <1>4, <2>3 DEF IsDefined
<1> QED
  BY <1>1, <1>2, <1>3, <1>4 DEF Indicator

(* So does every chain of them, whoever made the record they were added to *)
(* and whichever came before: the share of movement that was upward, the   *)
(* close over its mean, the mean true range, the volume over its baseline. *)
THEOREM IndicatorsReadTheirDefinitions == ChainSpec => []ReadingsAreTheirDefinitions
<1>1. ChainSoFar => ReadingsAreTheirDefinitions
  <2> SUFFICES ASSUME ChainSoFar, NEW column \in DOMAIN readings, NEW n \in DOMAIN record.rows,
                      ~readings[column][n].null
               PROVE  LET indicator == column[1]
                          reading == readings[column][n] IN
                      /\ IsDefined(indicator, column[2], reading.lists, reading.value)
                      /\ indicator = "rsi" =>
                           0 <= reading.value[1] /\ reading.value[1] <= 100 * reading.value[2]
                      /\ indicator \in {"mapos", "logvolratio"} =>
                           reading.value[1] > 0 /\ reading.value[2] > 0
    BY DEF ReadingsAreTheirDefinitions
  <2> DEFINE indicator == column[1]
             period == column[2]
             row == record.rows[n]
             reading == readings[column][n]
  <2>1. /\ indicator \in Indicator /\ period \in Nat \ {0}
        /\ reading = Reading(indicator, period, row)
    <3>1. /\ indicator \in Indicator /\ period \in Period /\ PhasedInputs(indicator, period)
          /\ reading = Reading(indicator, period, row)
      BY DEF ChainSoFar, ReadingsSoFar
    <3>2. period \in Int
      BY <3>1, ChainAssumption
    <3> HIDE DEF indicator, period, row, reading
    <3>3. period > 0
      BY <3>1 DEF PhasedInputs
    <3> QED
      BY <3>1, <3>2, <3>3
  <2>2. ~HasMissingInput(indicator, row)
    BY <2>1, ReadingIs
  <2>3. /\ reading.lists = [x \in FieldsOf(indicator) |-> row.lists[x]]
        /\ reading.value = Arithmetic!ReadingOf(indicator, reading.lists, period)
    BY <2>1, <2>2, ReadingValue
  <2>4. ASSUME NEW x \in FieldsOf(indicator)
        PROVE  /\ Numbers(row.lists[x], LookbackOf(indicator, period))
               /\ x \in PositiveFields(indicator) =>
                    \A k \in 1 .. LookbackOf(indicator, period) : row.lists[x][k] > 0
    BY <2>2, InputsAreNumbers
  <2> HIDE DEF indicator, period, row, reading
  <2>5. WholeInputs(indicator, period, reading.lists)
    BY <2>3, <2>4 DEF WholeInputs
  <2>6. /\ IsDefined(indicator, period, reading.lists, reading.value)
        /\ indicator = "rsi" => 0 <= reading.value[1] /\ reading.value[1] <= 100 * reading.value[2]
        /\ indicator \in {"mapos", "logvolratio"} => reading.value[1] > 0 /\ reading.value[2] > 0
    <3>1. PICK lists, value : lists = reading.lists /\ value = reading.value
      OBVIOUS
    <3>2. WholeInputs(indicator, period, lists) /\ value = Arithmetic!ReadingOf(indicator, lists, period)
      BY <2>3, <2>5, <3>1
    <3>3. /\ IsDefined(indicator, period, lists, value)
          /\ indicator = "rsi" => 0 <= value[1] /\ value[1] <= 100 * value[2]
          /\ indicator \in {"mapos", "logvolratio"} => value[1] > 0 /\ value[2] > 0
      BY <2>1, <3>2, IndicatorsAreDefined
    <3> QED
      BY <3>1, <3>3
  <2> QED
    BY <2>6 DEF indicator, period, reading
<1> QED
  BY <1>1, ChainInvariant, PTL

=============================================================================
