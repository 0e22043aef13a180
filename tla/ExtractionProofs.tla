--------------------------- MODULE ExtractionProofs ---------------------------
(***************************************************************************)
(* The blocks of a page are numbered and in reading order after every      *)
(* correction, no text line drops out of them, and each gets the text of   *)
(* its own region, whatever the models find on however many pages.         *)
(*                                                                         *)
(* The corrections fold over sequences and sort them.  What that does is   *)
(* proved by induction: Least says that a set of natural numbers has a     *)
(* least element, Induction follows from it, and FoldExists uses that to   *)
(* show that the recursive function behind FoldLeft exists.                *)
(***************************************************************************)
EXTENDS ExtractionProperties, FiniteSetTheorems, SequenceTheorems, WellFoundedInduction, TLAPS

-----------------------------------------------------------------------------
(* Induction. *)

\* The intervals from 0 to the elements of T up to n are finite sets, of which the
\* subset order has a smallest one.
LEMMA Least ==
    ASSUME NEW T \in SUBSET Nat, NEW n \in T
    PROVE  \E x \in T : \A y \in T : x <= y
<1> DEFINE U == {0..k : k \in {j \in T : j <= n}}
<1>1. IsWellFoundedOn(StrictSubsetOrdering(0..n), SUBSET (0..n))
  <2>1. IsFiniteSet(0..n)
    BY FS_Interval
  <2> QED BY <2>1, FS_StrictSubsetOrderingWellFounded, FS_FiniteSubsetsOfFinite
<1>2. U \subseteq SUBSET (0..n) /\ U # {}
  <2>1. 0..n \in U
    OBVIOUS
  <2>2. \A k \in {j \in T : j <= n} : 0..k \in SUBSET (0..n)
    OBVIOUS
  <2> QED BY <2>1, <2>2
<1>3. PICK X \in U : \A Y \in U : <<Y, X>> \notin StrictSubsetOrdering(0..n)
  <2> HIDE DEF U
  <2> QED BY <1>1, <1>2, WFMin
<1>4. PICK x \in T : x <= n /\ X = 0..x
  BY <1>3
<1>5. SUFFICES ASSUME NEW y \in T, y < x PROVE FALSE
  BY <1>4
<1>6. 0..y \in U /\ 0..y \in SUBSET (0..n) /\ 0..x \in SUBSET (0..n)
  BY <1>4, <1>5
<1>7. x \in 0..x /\ x \notin 0..y /\ 0..y \subseteq 0..x
  BY <1>5
<1> HIDE DEF U
<1> QED BY <1>3, <1>4, <1>6, <1>7 DEF StrictSubsetOrdering

\* What holds of 0, and of n + 1 when it does of n, holds of all natural numbers.
LEMMA Induction ==
    ASSUME NEW S, 0 \in S, \A n \in Nat : n \in S => n + 1 \in S
    PROVE  Nat \subseteq S
<1> SUFFICES ASSUME NEW n \in Nat \ S PROVE FALSE
  OBVIOUS
<1>1. PICK x \in Nat \ S : \A y \in Nat \ S : x <= y
  BY Least
<1>2. x # 0 /\ x - 1 \in Nat
  BY <1>1
<1>3. x - 1 \in S
  BY <1>1, <1>2
<1> QED BY <1>1, <1>2, <1>3

-----------------------------------------------------------------------------
(* Folds. *)

\* A set of indices has a largest one.
LEMMA MaxIn ==
    ASSUME NEW n \in Nat, NEW T \in SUBSET (1..n), NEW i \in T
    PROVE  Max(T) \in T
<1> DEFINE U == {n - x : x \in T}
<1>1. U \in SUBSET Nat /\ n - i \in U
  OBVIOUS
<1>2. PICK y \in U : \A z \in U : y <= z
  BY <1>1, Least
<1>3. PICK x \in T : y = n - x
  BY <1>2
<1>4. ASSUME NEW z \in T PROVE x >= z
  <2>1. n - z \in U
    OBVIOUS
  <2>2. n - x <= n - z
    BY <2>1, <1>2, <1>3
  <2> QED BY <2>2
<1> QED BY <1>3, <1>4 DEF Max

\* The largest of the first n indices is n.
LEMMA MaxTop ==
    ASSUME NEW m \in Nat, NEW T \in SUBSET (1..m + 1), m + 1 \in T
    PROVE  Max(T) = m + 1
<1>1. \A x \in T : x \in Int /\ m + 1 >= x
  OBVIOUS
<1>2. \A x \in T : (\A y \in T : x >= y) => x = m + 1
  BY <1>1
<1> QED BY <1>1, <1>2 DEF Max

\* g is the function behind a fold over the first n elements of seq, defined for every
\* set of indices; step is the operation as a function of pairs.
Folds(g, n, base, step, seq) ==
    g = [T \in SUBSET (1..n) |->
            IF T = {} THEN base ELSE step[<<g[T \ {Max(T)}], seq[Max(T)]>>]]
Foldable(n, S, base, step, seq) ==
    \E g \in [SUBSET (1..n) -> S] : Folds(g, n, base, step, seq)

\* A fold over n elements extends to one over n + 1.
LEMMA FoldExtends ==
    ASSUME NEW S, NEW E, NEW base \in S, NEW n \in Nat, NEW seq \in [1..n -> E],
           NEW step \in [S \X E -> S],
           NEW m \in Nat, m + 1 <= n, Foldable(m, S, base, step, seq)
    PROVE  Foldable(m + 1, S, base, step, seq)
<1>1. PICK g \in [SUBSET (1..m) -> S] : Folds(g, m, base, step, seq)
  BY DEF Foldable
<1> DEFINE h == [T \in SUBSET (1..(m + 1)) |->
                    IF m + 1 \in T THEN step[<<g[T \ {m + 1}], seq[m + 1]>>] ELSE g[T]]
<1>2. h \in [SUBSET (1..(m + 1)) -> S]
  <2> SUFFICES ASSUME NEW T \in SUBSET (1..(m + 1))
               PROVE  (IF m + 1 \in T THEN step[<<g[T \ {m + 1}], seq[m + 1]>>] ELSE g[T]) \in S
    OBVIOUS
  <2>1. CASE m + 1 \in T
    <3>1. T \ {m + 1} \in SUBSET (1..m)
      BY <2>1
    <3> QED BY <2>1, <3>1
  <2>2. CASE m + 1 \notin T
    <3>1. T \in SUBSET (1..m)
      BY <2>2
    <3> QED BY <2>2, <3>1
  <2> QED BY <2>1, <2>2
<1>3. ASSUME NEW T \in SUBSET (1..(m + 1))
      PROVE  h[T] = IF T = {} THEN base ELSE step[<<h[T \ {Max(T)}], seq[Max(T)]>>]
  <2>1. CASE m + 1 \in T
    <3>1. Max(T) = m + 1
      BY <2>1, MaxTop
    <3>2. T \ {m + 1} \in SUBSET (1..(m + 1))
      OBVIOUS
    <3>3. h[T \ {m + 1}] = g[T \ {m + 1}]
      BY <3>2
    <3> QED BY <2>1, <3>1, <3>3
  <2>2. CASE m + 1 \notin T
    <3>1. T \in SUBSET (1..m)
      BY <2>2
    <3>2. h[T] = g[T]
      BY <2>2
    <3>3. g[T] = IF T = {} THEN base ELSE step[<<g[T \ {Max(T)}], seq[Max(T)]>>]
      BY <1>1, <3>1 DEF Folds
    <3>4. h[T \ {Max(T)}] = g[T \ {Max(T)}]
      BY <3>1, <2>2
    <3> QED BY <3>2, <3>3, <3>4
  <2> QED BY <2>1, <2>2
<1>4. Folds(h, m + 1, base, step, seq)
  <2> HIDE DEF h
  <2> QED BY <1>2, <1>3 DEF Folds
<1> QED BY <1>2, <1>4 DEF Foldable

\* Every fold exists, and FoldLeft is its value for all indices.
LEMMA FoldExists ==
    ASSUME NEW S, NEW E, NEW base \in S, NEW n \in Nat, NEW seq \in [1..n -> E],
           NEW step \in [S \X E -> S]
    PROVE  Foldable(n, S, base, step, seq)
<1> DEFINE Ok == {m \in Nat : m <= n => Foldable(m, S, base, step, seq)}
<1>1. 0 \in Ok
  <2> DEFINE g == [T \in SUBSET (1..0) |-> base]
  <2>1. \A T \in SUBSET (1..0) : T = {}
    OBVIOUS
  <2>2. g \in [SUBSET (1..0) -> S] /\ Folds(g, 0, base, step, seq)
    BY <2>1 DEF Folds
  <2> QED BY <2>2 DEF Foldable
<1>2. ASSUME NEW m \in Nat, m \in Ok PROVE m + 1 \in Ok
  <2>1. m + 1 <= n => Foldable(m, S, base, step, seq)
    BY <1>2
  <2>2. m + 1 <= n => Foldable(m + 1, S, base, step, seq)
    BY <2>1, FoldExtends
  <2> QED BY <2>2
<1>3. n \in Ok
  <2> HIDE DEF Ok
  <2> QED BY <1>1, <1>2, Induction
<1> QED BY <1>3

\* When a function of sets of indices has its values for the first m indices in R[m], one
\* after the other, it has its value for all of them in R[n].
LEMMA ReachedInTurn ==
    ASSUME NEW n \in Nat, NEW R, NEW f, f[{}] \in R[0],
           \A m \in 0..(n - 1) : f[1..m] \in R[m] => f[1..(m + 1)] \in R[m + 1]
    PROVE  f[1..n] \in R[n]
<1> DEFINE Ok == {m \in Nat : m <= n => f[1..m] \in R[m]}
<1>1. 0 \in Ok
  <2>1. 1..0 = {}
    OBVIOUS
  <2> QED BY <2>1
<1>2. ASSUME NEW m \in Nat, m \in Ok PROVE m + 1 \in Ok
  BY <1>2
<1>3. n \in Ok
  <2> HIDE DEF Ok
  <2> QED BY <1>1, <1>2, Induction
<1> QED BY <1>3

\* So it has when its values stay in one set.
LEMMA Reached ==
    ASSUME NEW S, NEW n \in Nat, NEW f, f[{}] \in S,
           \A m \in 0..(n - 1) : f[1..m] \in S => f[1..(m + 1)] \in S
    PROVE  f[1..n] \in S
<1> DEFINE R == [m \in Nat |-> S]
<1>1. \A m \in Nat : R[m] = S
  OBVIOUS
<1>2. /\ f[{}] \in R[0]
      /\ \A m \in 0..(n - 1) : f[1..m] \in R[m] => f[1..(m + 1)] \in R[m + 1]
  <2>1. \A m \in 0..(n - 1) : m \in Nat /\ m + 1 \in Nat
    OBVIOUS
  <2> HIDE DEF R
  <2> QED BY <1>1, <2>1
<1> HIDE DEF R
<1> QED BY <1>1, <1>2, ReachedInTurn

\* The first m + 1 indices without the last are the first m.
LEMMA Segment ==
    ASSUME NEW n \in Nat, NEW m \in 0..(n - 1)
    PROVE  /\ m + 1 \in 1..n
           /\ 1..(m + 1) \in SUBSET (1..n) /\ 1..(m + 1) # {}
           /\ Max(1..(m + 1)) = m + 1
           /\ (1..(m + 1)) \ {m + 1} = 1..m
<1>1. Max(1..(m + 1)) = m + 1
  BY MaxTop
<1> QED BY <1>1

-----------------------------------------------------------------------------
(* Sorting and selecting. *)

\* When the sets upto(i) are nested, their sizes number the elements of T.
LEMMA Ranks ==
    ASSUME NEW T, IsFiniteSet(T), NEW upto \in [T -> SUBSET T],
           \A i \in T : i \in upto[i],
           \A i, j \in T : i # j => \/ upto[i] \subseteq upto[j] /\ j \notin upto[i]
                                    \/ upto[j] \subseteq upto[i] /\ i \notin upto[j]
    PROVE  /\ Cardinality(T) \in Nat
           /\ \A i \in T : Cardinality(upto[i]) \in 1..Cardinality(T)
           /\ \A i, j \in T : i # j => Cardinality(upto[i]) # Cardinality(upto[j])
           /\ \A k \in 1..Cardinality(T) : \E i \in T : Cardinality(upto[i]) = k
<1> DEFINE n == Cardinality(T)
<1>1. n \in Nat /\ \A U \in SUBSET T : IsFiniteSet(U) /\ Cardinality(U) \in 0..n
  BY FS_CardinalityType, FS_Subset
<1>2. \A U, V \in SUBSET T : U \subseteq V /\ U # V => Cardinality(U) # Cardinality(V)
  BY <1>1, FS_Subset
<1>3. ASSUME NEW i \in T PROVE Cardinality(upto[i]) \in 1..n
  BY <1>1, FS_EmptySet
<1>4. ASSUME NEW i \in T, NEW j \in T, i # j PROVE Cardinality(upto[i]) # Cardinality(upto[j])
  <2>1. upto[i] # upto[j] /\ (upto[i] \subseteq upto[j] \/ upto[j] \subseteq upto[i])
    BY <1>4
  <2> QED BY <2>1, <1>2
<1>5. ASSUME NEW k \in 1..n, \A i \in T : Cardinality(upto[i]) # k PROVE FALSE
  <2> DEFINE others == (1..n) \ {k}
             rank == [i \in T |-> Cardinality(upto[i])]
  <2>1. IsFiniteSet(others) /\ Cardinality(others) < Cardinality(T)
    <3> HIDE DEF n, rank
    <3>1. IsFiniteSet(1..n) /\ Cardinality(1..n) = n
      BY <1>1, FS_Interval
    <3>2. IsFiniteSet((1..n) \ {k}) /\ Cardinality((1..n) \ {k}) = Cardinality(1..n) - 1
      BY <3>1, FS_RemoveElement
    <3>3. Cardinality(others) < n
      BY <1>1, <3>1, <3>2
    <3> QED BY <3>2, <3>3 DEF n
  <2>2. rank \in [T -> others]
    BY <1>3, <1>5
  <2>3. \E i, j \in T : i # j /\ rank[i] = rank[j]
    <3> HIDE DEF others, rank
    <3> QED BY <2>1, <2>2, FS_PigeonHole
  <2> QED BY <2>3, <1>4
<1> QED BY <1>1, <1>3, <1>4, <1>5

\* Evaluated is there for TLC.
LEMMA EvaluatedIsSame ==
    ASSUME NEW n \in Nat, NEW f, f = [i \in 1..n |-> f[i]]
    PROVE  Evaluated(f) = f
<1>1. f \in Seq({f[i] : i \in 1..n})
  OBVIOUS
<1> QED BY <1>1 DEF Evaluated

\* keys that Precedes orders
OrdersKeys(key, n) ==
    /\ \A i \in 1..n : ~Precedes(key[i], key[i])
    /\ \A i, j, k \in 1..n : Precedes(key[i], key[j]) /\ Precedes(key[j], key[k])
                                 => Precedes(key[i], key[k])
    /\ \A i, j \in 1..n : Precedes(key[i], key[j]) \/ Precedes(key[j], key[i]) \/ key[i] = key[j]
\* p puts the indices 1..n in the order of key, equal ones as they were
Sorts(p, n, key) ==
    /\ p \in [1..n -> 1..n]
    /\ \A i \in 1..n : \E a \in 1..n : p[a] = i
    /\ \A a, b \in 1..n : a < b => \/ Precedes(key[p[a]], key[p[b]])
                                   \/ key[p[a]] = key[p[b]] /\ p[a] < p[b]

SortedAs(t, s, n, key) == \E p : Sorts(p, n, key) /\ t = [a \in 1..n |-> s[p[a]]]

\* SortBy sorts: it loses and doubles nothing, puts keys in order and is stable.
LEMMA SortBySorts ==
    ASSUME NEW n \in Nat, NEW s, DOMAIN s = 1..n, NEW key, key = [i \in 1..n |-> key[i]],
           OrdersKeys(key, n)
    PROVE  SortedAs(SortBy(s, key), s, n, key)
<1> DEFINE Before(j, i) == Precedes(key[j], key[i]) \/ (key[j] = key[i] /\ j <= i)
           upto == [i \in 1..n |-> {j \in 1..n : Before(j, i)}]
           by == Evaluated(key)
           raw == [i \in DOMAIN s |-> Cardinality({j \in DOMAIN s :
                      Precedes(by[j], by[i]) \/ (by[j] = by[i] /\ j <= i)})]
           place == Evaluated(raw)
           p == [a \in 1..n |-> CHOOSE i \in 1..n : place[i] = a]
<1>1. IsFiniteSet(1..n) /\ Cardinality(1..n) = n
  BY FS_Interval
<1>2. upto \in [1..n -> SUBSET (1..n)] /\ \A i \in 1..n : i \in upto[i]
  OBVIOUS
<1>3. ASSUME NEW i \in 1..n, NEW j \in 1..n, Before(i, j), i # j
      PROVE  upto[i] \subseteq upto[j] /\ j \notin upto[i]
  <2>1. ~Before(j, i)
    BY <1>3 DEF OrdersKeys
  <2>2. ASSUME NEW k \in 1..n, Before(k, i) PROVE Before(k, j)
    BY <1>3, <2>2 DEF OrdersKeys
  <2> QED BY <2>1, <2>2
<1>4. \A i, j \in 1..n : Before(i, j) \/ Before(j, i)
  BY DEF OrdersKeys
<1>5. /\ \A i \in 1..n : Cardinality(upto[i]) \in 1..n
      /\ \A i, j \in 1..n : i # j => Cardinality(upto[i]) # Cardinality(upto[j])
      /\ \A k \in 1..n : \E i \in 1..n : Cardinality(upto[i]) = k
  <2>1. \A i, j \in 1..n : i # j => \/ upto[i] \subseteq upto[j] /\ j \notin upto[i]
                                    \/ upto[j] \subseteq upto[i] /\ i \notin upto[j]
    BY <1>3, <1>4
  <2> DEFINE T == 1..n
  <2>2. /\ IsFiniteSet(T) /\ Cardinality(T) = n
        /\ upto \in [T -> SUBSET T] /\ \A i \in T : i \in upto[i]
        /\ \A i, j \in T : i # j => \/ upto[i] \subseteq upto[j] /\ j \notin upto[i]
                                    \/ upto[j] \subseteq upto[i] /\ i \notin upto[j]
    BY <1>1, <1>2, <2>1
  <2> HIDE DEF upto, place, by, raw, p, Before, T
  <2>3. /\ \A i \in T : Cardinality(upto[i]) \in 1..Cardinality(T)
        /\ \A i, j \in T : i # j => Cardinality(upto[i]) # Cardinality(upto[j])
        /\ \A k \in 1..Cardinality(T) : \E i \in T : Cardinality(upto[i]) = k
    BY <2>2, Ranks
  <2> QED BY <2>2, <2>3 DEF T
<1>6. \A i \in 1..n : place[i] = Cardinality(upto[i])
  <2>1. by = key
    BY EvaluatedIsSame
  <2>2. raw = [i \in 1..n |-> Cardinality(upto[i])]
    <3> HIDE DEF by
    <3> QED BY <2>1
  <2>3. raw = [i \in 1..n |-> raw[i]]
    OBVIOUS
  <2> HIDE DEF raw
  <2>4. place = raw
    BY <2>3, EvaluatedIsSame
  <2> HIDE DEF upto
  <2> QED BY <2>2, <2>4
<1>7. SortBy(s, key) = [a \in 1..n |-> s[p[a]]]
  BY DEF SortBy
<1> HIDE DEF raw, place
<1>12. /\ \A i \in 1..n : place[i] \in 1..n
       /\ \A i, j \in 1..n : place[i] = place[j] => i = j
       /\ \A k \in 1..n : \E i \in 1..n : place[i] = k
  <2> HIDE DEF upto, place, by, raw, p, Before
  <2>1. \A i \in 1..n : place[i] \in 1..n
    BY <1>5, <1>6
  <2>2. \A i, j \in 1..n : place[i] = place[j] => i = j
    BY <1>5, <1>6
  <2>3. \A k \in 1..n : \E i \in 1..n : place[i] = k
    BY <1>5, <1>6
  <2> QED BY <2>1, <2>2, <2>3
<1>8. \A a \in 1..n : p[a] \in 1..n /\ place[p[a]] = a
  <2> QED BY <1>12
<1>9. \A i \in 1..n : p[place[i]] = i
  <2> HIDE DEF p
  <2> QED BY <1>12, <1>8
<1>10. ASSUME NEW a \in 1..n, NEW b \in 1..n, a < b PROVE Before(p[a], p[b]) /\ p[a] # p[b]
  <2>1. p[a] # p[b]
    <3> HIDE DEF p
    <3> QED BY <1>8, <1>10
  <2>2. ASSUME ~Before(p[a], p[b]) PROVE FALSE
    <3>1. upto[p[b]] \subseteq upto[p[a]] /\ p[a] \in 1..n /\ p[b] \in 1..n
      <4> HIDE DEF upto, p
      <4>1. p[a] \in 1..n /\ p[b] \in 1..n
        BY <1>8
      <4>2. Before(p[b], p[a])
        BY <4>1, <1>4, <2>2
      <4> HIDE DEF Before
      <4> QED BY <4>1, <4>2, <1>3, <2>1
    <3>2. Cardinality(upto[p[b]]) <= Cardinality(upto[p[a]])
      <4> HIDE DEF upto, p
      <4>1. IsFiniteSet(upto[p[a]])
        BY <1>1, <1>2, <3>1, FS_Subset
      <4> QED BY <3>1, <4>1, FS_Subset
    <3>3. place[p[b]] <= place[p[a]]
      <4> HIDE DEF upto, p
      <4> QED BY <3>1, <3>2, <1>6
    <3> HIDE DEF p
    <3> QED BY <3>3, <1>8, <1>10
  <2> QED BY <2>1, <2>2
<1>11. Sorts(p, n, key)
  <2>1. \A i \in 1..n : \E a \in 1..n : p[a] = i
    <3> HIDE DEF p
    <3> QED BY <1>12, <1>9
  <2>2. p \in [1..n -> 1..n]
    BY <1>8
  <2> HIDE DEF p
  <2>3. ASSUME NEW a \in 1..n, NEW b \in 1..n, a < b
        PROVE  \/ Precedes(key[p[a]], key[p[b]])
               \/ key[p[a]] = key[p[b]] /\ p[a] < p[b]
    BY <2>3, <1>8, <1>10
  <2> QED BY <2>1, <2>2, <2>3 DEF Sorts
<1> HIDE DEF Before, upto, p
<1> QED BY <1>7, <1>11 DEF SortedAs

\* Pairs are compared by their first element, then by their second.
LEMMA PrecedesPair ==
    ASSUME NEW a \in Int, NEW b \in Int, NEW c \in Int, NEW d \in Int
    PROVE  Precedes(<<a, b>>, <<c, d>>) <=> a < c \/ (a = c /\ b < d)
BY DEF Precedes

\* The indices up to one of them have ranks of their own, and every rank is taken.
LEMMA RanksOf ==
    ASSUME NEW n \in Nat, NEW keep \in SUBSET (1..n)
    PROVE  /\ IsFiniteSet(keep) /\ Cardinality(keep) \in Nat
           /\ \A i \in keep : Cardinality({j \in keep : j <= i}) \in 1..Cardinality(keep)
           /\ \A x, y \in keep : x # y =>
                  Cardinality({j \in keep : j <= x}) # Cardinality({j \in keep : j <= y})
           /\ \A k \in 1..Cardinality(keep) :
                  \E i \in keep : Cardinality({j \in keep : j <= i}) = k
<1> DEFINE upto == [i \in keep |-> {j \in keep : j <= i}]
<1>1. IsFiniteSet(keep)
  <2>1. IsFiniteSet(1..n)
    BY FS_Interval
  <2> QED BY <2>1, FS_Subset
<1>2. upto \in [keep -> SUBSET keep] /\ \A i \in keep : i \in upto[i]
  OBVIOUS
<1>3. \A i, j \in keep : i # j => \/ upto[i] \subseteq upto[j] /\ j \notin upto[i]
                                  \/ upto[j] \subseteq upto[i] /\ i \notin upto[j]
  <2> SUFFICES ASSUME NEW i \in keep, NEW j \in keep, i < j
               PROVE  upto[i] \subseteq upto[j] /\ j \notin upto[i]
    <3>1. \A i, j \in keep : i < j \/ j < i \/ i = j
      OBVIOUS
    <3> HIDE DEF upto
    <3> QED BY <3>1
  <2>1. upto[i] = {k \in keep : k <= i} /\ upto[j] = {k \in keep : k <= j}
    OBVIOUS
  <2>2. i \in Int /\ j \in Int /\ \A k \in keep : k \in Int
    OBVIOUS
  <2> HIDE DEF upto
  <2>3. \A k \in keep : k <= i => k <= j
    BY <2>2
  <2>4. ~(j <= i)
    BY <2>2
  <2> QED BY <2>1, <2>3, <2>4
<1>4. \A i \in keep : upto[i] = {j \in keep : j <= i}
  OBVIOUS
<1> HIDE DEF upto
<1>5. /\ Cardinality(keep) \in Nat
      /\ \A i \in keep : Cardinality(upto[i]) \in 1..Cardinality(keep)
      /\ \A i, j \in keep : i # j => Cardinality(upto[i]) # Cardinality(upto[j])
      /\ \A k \in 1..Cardinality(keep) : \E i \in keep : Cardinality(upto[i]) = k
  BY <1>1, <1>2, <1>3, Ranks
<1> DEFINE rank(i) == Cardinality({j \in keep : j <= i})
<1>6. \A i \in keep : rank(i) = Cardinality(upto[i])
  BY <1>4
<1> HIDE DEF rank
<1>7. /\ \A i \in keep : rank(i) \in 1..Cardinality(keep)
      /\ \A x, y \in keep : x # y => rank(x) # rank(y)
      /\ \A k \in 1..Cardinality(keep) : \E i \in keep : rank(i) = k
  BY <1>5, <1>6
<1> QED BY <1>1, <1>5, <1>7 DEF rank

\* the place of index i among those to keep
Rank(keep, i) == Cardinality({j \in keep : j <= i})
\* t holds the elements of s to keep, each at its place
Enumerates(t, s, keep) ==
    /\ Cardinality(keep) \in Nat
    /\ t = [k \in 1..Cardinality(keep) |-> t[k]]
    /\ \A k \in 1..Cardinality(keep) : \E i \in keep : Rank(keep, i) = k /\ t[k] = s[i]
    /\ \A i \in keep : t[Rank(keep, i)] = s[i]

\* Only puts the element at index i at the rank of i.
LEMMA OnlyRanks ==
    ASSUME NEW n \in Nat, NEW s, NEW keep \in SUBSET (1..n)
    PROVE  Enumerates(Only(s, keep), s, keep)
<1>1. Only(s, keep) = [k \in 1..Cardinality(keep) |-> Only(s, keep)[k]]
  BY DEF Only
<1>2. ASSUME NEW k \in 1..Cardinality(keep)
      PROVE  \E i \in keep : Cardinality({j \in keep : j <= i}) = k /\ Only(s, keep)[k] = s[i]
  <2> DEFINE P(i) == Cardinality({j \in keep : j <= i}) = k
             chosen == CHOOSE i \in keep : P(i)
  <2>1. \E i \in keep : P(i)
    BY RanksOf
  <2>2. chosen \in keep /\ P(chosen)
    <3> HIDE DEF P
    <3> QED BY <2>1
  <2>3. Only(s, keep)[k] = s[chosen]
    BY DEF Only
  <2> HIDE DEF chosen
  <2> QED BY <2>2, <2>3
<1>3. ASSUME NEW i \in keep
      PROVE  Only(s, keep)[Cardinality({j \in keep : j <= i})] = s[i]
  <2> DEFINE k == Cardinality({j \in keep : j <= i})
  <2>1. k \in 1..Cardinality(keep)
    BY RanksOf
  <2>2. PICK h \in keep : Cardinality({j \in keep : j <= h}) = k /\ Only(s, keep)[k] = s[h]
    <3> HIDE DEF k
    <3> QED BY <1>2, <2>1
  <2>3. h = i
    <3>1. \A x, y \in keep : x # y =>
              Cardinality({j \in keep : j <= x}) # Cardinality({j \in keep : j <= y})
      BY RanksOf
    <3> QED BY <2>2, <3>1
  <2> QED BY <2>2, <2>3
<1>4. Cardinality(keep) \in Nat
  BY RanksOf
<1> QED BY <1>1, <1>2, <1>3, <1>4 DEF Enumerates, Rank

\* t holds the elements of s at the indices in keep.
Selects(t, s, keep) ==
    /\ Cardinality(keep) \in Nat
    /\ t = [k \in 1..Cardinality(keep) |-> t[k]]
    /\ \A k \in 1..Cardinality(keep) : \E i \in keep : t[k] = s[i]
    /\ \A i \in keep : \E k \in 1..Cardinality(keep) : t[k] = s[i]

\* So Only loses none of the elements to keep, and adds none.
LEMMA OnlyKeeps ==
    ASSUME NEW n \in Nat, NEW s, NEW keep \in SUBSET (1..n)
    PROVE  Selects(Only(s, keep), s, keep)
<1>1. Enumerates(Only(s, keep), s, keep)
  BY OnlyRanks
<1>2. \A i \in keep : Rank(keep, i) \in 1..Cardinality(keep)
  BY RanksOf DEF Rank
<1> QED BY <1>1, <1>2 DEF Enumerates, Selects

\* A function on 1..n with values in a set is a sequence.
LEMMA IsSequence ==
    ASSUME NEW B, NEW n \in Nat, NEW t, t = [k \in 1..n |-> t[k]], \A k \in 1..n : t[k] \in B
    PROVE  t \in Seq(B) /\ Len(t) = n
<1>1. [k \in 1..n |-> t[k]] \in Seq(B) /\ Len([k \in 1..n |-> t[k]]) = n
  OBVIOUS
<1> QED BY <1>1, Zenon

\* What Only keeps of a sequence is a sequence of the same set.
LEMMA OnlyType ==
    ASSUME NEW B, NEW s \in Seq(B), NEW keep \in SUBSET DOMAIN s
    PROVE  Only(s, keep) \in Seq(B)
<1> DEFINE n == Len(s)
<1>1. n \in Nat /\ keep \in SUBSET (1..n) /\ \A i \in keep : s[i] \in B
  OBVIOUS
<1> HIDE DEF n
<1>2. Selects(Only(s, keep), s, keep)
  BY <1>1, OnlyKeeps
<1> DEFINE t == Only(s, keep)
<1> HIDE DEF t
<1>3. Selects(t, s, keep)
  BY <1>2 DEF t
<1>4. \A k \in 1..Cardinality(keep) : t[k] \in B
  BY <1>1, <1>3 DEF Selects
<1>5. Cardinality(keep) \in Nat /\ t = [k \in 1..Cardinality(keep) |-> t[k]]
  BY <1>3 DEF Selects
<1>6. t \in Seq(B)
  BY <1>4, <1>5, IsSequence
<1> QED BY <1>6 DEF t

\* Tuples of integers, all of one length, are ordered.
LEMMA TuplesOrdered ==
    ASSUME NEW m \in Nat, NEW n \in Nat, NEW key, \A i \in 1..n : key[i] \in [1..m -> Int]
    PROVE  OrdersKeys(key, n)
<1>1. ASSUME NEW k \in [1..m -> Int] PROVE ~Precedes(k, k)
  BY DEF Precedes
<1>2. ASSUME NEW k \in [1..m -> Int], NEW l \in [1..m -> Int], NEW r \in [1..m -> Int],
             Precedes(k, l), Precedes(l, r)
      PROVE  Precedes(k, r)
  <2>1. PICK x \in 1..m : k[x] < l[x] /\ \A z \in 1..(x - 1) : k[z] = l[z]
    BY <1>2 DEF Precedes
  <2>2. PICK y \in 1..m : l[y] < r[y] /\ \A z \in 1..(y - 1) : l[z] = r[z]
    BY <1>2 DEF Precedes
  <2>3. \A z \in 1..m : k[z] \in Int /\ l[z] \in Int /\ r[z] \in Int
    OBVIOUS
  <2>4. CASE x <= y
    <3>1. k[x] < r[x] /\ \A z \in 1..(x - 1) : k[z] = r[z]
      BY <2>1, <2>2, <2>3, <2>4
    <3> QED BY <3>1 DEF Precedes
  <2>5. CASE y < x
    <3>1. k[y] < r[y] /\ \A z \in 1..(y - 1) : k[z] = r[z]
      BY <2>1, <2>2, <2>3, <2>5
    <3> QED BY <3>1 DEF Precedes
  <2> QED BY <2>4, <2>5
<1>3. ASSUME NEW k \in [1..m -> Int], NEW l \in [1..m -> Int], k # l
      PROVE  Precedes(k, l) \/ Precedes(l, k)
  <2> DEFINE differ == {z \in 1..m : k[z] # l[z]}
  <2>1. PICK z \in 1..m : k[z] # l[z]
    BY <1>3
  <2>2. differ \in SUBSET Nat /\ z \in differ
    BY <2>1
  <2>3. PICK x \in differ : \A y \in differ : x <= y
    <3> HIDE DEF differ
    <3> QED BY <2>2, Least
  <2>4. x \in 1..m /\ k[x] # l[x] /\ \A y \in 1..(x - 1) : k[y] = l[y]
    BY <2>3
  <2>5. k[x] < l[x] \/ l[x] < k[x]
    BY <2>4
  <2> QED BY <2>4, <2>5 DEF Precedes
<1>4. ASSUME NEW i \in 1..n, NEW j \in 1..n
      PROVE  Precedes(key[i], key[j]) \/ Precedes(key[j], key[i]) \/ key[i] = key[j]
  BY <1>3
<1>5. ASSUME NEW i \in 1..n, NEW j \in 1..n, NEW k \in 1..n,
             Precedes(key[i], key[j]), Precedes(key[j], key[k])
      PROVE  Precedes(key[i], key[k])
  BY <1>2, <1>5
<1>6. ASSUME NEW i \in 1..n PROVE ~Precedes(key[i], key[i])
  BY <1>1
<1> QED BY <1>4, <1>5, <1>6 DEF OrdersKeys

\* A pair of integers is a tuple of length two,
LEMMA PairTuple ==
    ASSUME NEW a \in Int, NEW b \in Int
    PROVE  <<a, b>> \in [1..2 -> Int]
OBVIOUS
\* and a key with four integers one of length four.
LEMMA FourTuple ==
    ASSUME NEW a \in Int, NEW b \in Int, NEW c \in Int, NEW d \in Int
    PROVE  <<a, b, c, d>> \in [1..4 -> Int]
OBVIOUS

\* A sorted sequence is a sequence of the same set.
LEMMA SortType ==
    ASSUME NEW B, NEW s \in Seq(B), NEW key, key = [i \in DOMAIN s |-> key[i]],
           OrdersKeys(key, Len(s))
    PROVE  SortBy(s, key) \in Seq(B) /\ Len(SortBy(s, key)) = Len(s)
<1> DEFINE n == Len(s)
<1>1. n \in Nat /\ DOMAIN s = 1..n /\ \A i \in 1..n : s[i] \in B
  OBVIOUS
<1>5. key = [i \in 1..n |-> key[i]] /\ OrdersKeys(key, n)
  BY <1>1
<1> HIDE DEF n
<1>6. SortedAs(SortBy(s, key), s, n, key)
  BY <1>1, <1>5, SortBySorts
<1>2. PICK p : Sorts(p, n, key) /\ SortBy(s, key) = [a \in 1..n |-> s[p[a]]]
  BY <1>6 DEF SortedAs
<1>3. \A a \in 1..n : s[p[a]] \in B
  BY <1>1, <1>2 DEF Sorts
<1>4. [a \in 1..n |-> s[p[a]]] \in Seq(B) /\ Len([a \in 1..n |-> s[p[a]]]) = n
  BY <1>1, <1>3
<1> QED BY <1>2, <1>4 DEF n

\* A sequence with one element replaced, if it has that element.
LEMMA Replaced ==
    ASSUME NEW B, NEW s \in Seq(B), NEW i, NEW e, i \in DOMAIN s => e \in B
    PROVE  [s EXCEPT ![i] = e] \in Seq(B)
<1> DEFINE t == [s EXCEPT ![i] = e]
           n == Len(s)
<1>1. n \in Nat /\ t = [k \in 1..n |-> t[k]] /\ \A k \in 1..n : t[k] \in B
  OBVIOUS
<1> HIDE DEF n, t
<1>2. t \in Seq(B)
  BY <1>1, IsSequence
<1> QED BY <1>2 DEF t

-----------------------------------------------------------------------------
(* The corrections make blocks of the page from blocks of the page. *)

BlockOn(p) == [page : {p}, type : BlockTypes, box : Box, conf : Int, order : Int]

\* The box around two boxes is a box.
LEMMA UnionType == ASSUME NEW a \in Box, NEW b \in Box PROVE Union(a, b) \in Box
BY DEF Union, Lo, Hi, Box

\* a kind of blocks that merging titles stays in
Closed(B) == \A a, b \in B : MergeTitles(a, b) \in B
\* Deduplication keeps blocks of one kind: one block considered,
LEMMA ConsiderStays ==
    ASSUME NEW B, Closed(B), NEW kept \in Seq(B), NEW b \in B
    PROVE  Consider(kept, b) \in Seq(B)
<1>1. ASSUME NEW f \in DOMAIN kept PROVE MergeTitles(kept[f], b) \in B
  <2>1. kept[f] \in B
    OBVIOUS
  <2> QED BY <2>1 DEF Closed
<1>2. \A f : [kept EXCEPT ![f] = MergeTitles(kept[f], b)] \in Seq(B)
  <2> TAKE f
  <2> DEFINE e == MergeTitles(kept[f], b)
  <2>1. f \in DOMAIN kept => e \in B
    BY <1>1
  <2> HIDE DEF e
  <2>2. [kept EXCEPT ![f] = e] \in Seq(B)
    BY <2>1, Replaced
  <2> QED BY <2>2 DEF e
<1>3. \A f : [kept EXCEPT ![f] = b] \in Seq(B)
  BY Replaced
<1>4. Append(kept, b) \in Seq(B)
  OBVIOUS
<1>5. \/ Consider(kept, b) \in {kept, Append(kept, b)}
      \/ \E f : Consider(kept, b) \in {[kept EXCEPT ![f] = MergeTitles(kept[f], b)],
                                       [kept EXCEPT ![f] = b]}
  BY DEF Consider
<1> QED BY <1>2, <1>3, <1>4, <1>5

\* all of them,
LEMMA ConsideredStays ==
    ASSUME NEW B, Closed(B), NEW s \in Seq(B)
    PROVE  FoldLeft(Consider, <<>>, s) \in Seq(B)
<1> DEFINE S == Seq(B)
           step == [x \in S \X B |-> Consider(x[1], x[2])]
           iter == CHOOSE g : g = [T \in SUBSET DOMAIN s |->
                       IF T = {} THEN <<>>
                       ELSE Consider(g[T \ {Max(T)}], s[Max(T)])]
<1>1. FoldLeft(Consider, <<>>, s) = iter[DOMAIN s]
  BY DEF FoldLeft, MapThenFoldSet
<1>2. /\ Len(s) \in Nat /\ s \in [1..Len(s) -> B] /\ DOMAIN s = 1..Len(s)
      /\ <<>> \in S
  OBVIOUS
<1>3. step \in [S \X B -> S]
  BY ConsiderStays
<1>4. PICK g \in [SUBSET (1..Len(s)) -> S] : Folds(g, Len(s), <<>>, step, s)
  <2> HIDE DEF step, S
  <2> QED BY <1>2, <1>3, FoldExists DEF Foldable
<1>5. \A T \in SUBSET DOMAIN s : T # {} =>
         step[<<g[T \ {Max(T)}], s[Max(T)]>>]
             = Consider(g[T \ {Max(T)}], s[Max(T)])
  <2> SUFFICES ASSUME NEW T \in SUBSET DOMAIN s, NEW i \in T
               PROVE  step[<<g[T \ {Max(T)}], s[Max(T)]>>]
                          = Consider(g[T \ {Max(T)}], s[Max(T)])
    OBVIOUS
  <2>1. Max(T) \in T
    BY <1>2, MaxIn
  <2> QED BY <2>1, <1>2
<1>6. g = [T \in SUBSET DOMAIN s |->
              IF T = {} THEN <<>> ELSE Consider(g[T \ {Max(T)}], s[Max(T)])]
  BY <1>2, <1>4, <1>5 DEF Folds
<1>7. iter = [T \in SUBSET DOMAIN s |->
                 IF T = {} THEN <<>> ELSE Consider(iter[T \ {Max(T)}], s[Max(T)])]
  BY <1>6
<1> HIDE DEF iter
<1>8. ASSUME NEW m \in 0..(Len(s) - 1), iter[1..m] \in S PROVE iter[1..(m + 1)] \in S
  <2> DEFINE U == 1..(m + 1)
  <2>1. /\ U \in SUBSET DOMAIN s /\ U # {} /\ Max(U) = m + 1 /\ U \ {m + 1} = 1..m
        /\ s[m + 1] \in B
    BY <1>2, Segment
  <2> HIDE DEF U
  <2>2. iter[U] = Consider(iter[U \ {Max(U)}], s[Max(U)])
    BY <1>7, <2>1
  <2>3. iter[U] = Consider(iter[1..m], s[m + 1])
    BY <2>1, <2>2
  <2>4. Consider(iter[1..m], s[m + 1]) \in S
    BY <2>1, <1>8, ConsiderStays
  <2> QED BY <2>3, <2>4 DEF U
<1>9. iter[{}] \in S
  BY <1>2, <1>7
<1> HIDE DEF S
<1>10. iter[1..Len(s)] \in S
  BY <1>2, <1>8, <1>9, Reached
<1> QED BY <1>1, <1>2, <1>10 DEF S

\* and what is left of them.
LEMMA DeduplicateStays ==
    ASSUME NEW B, Closed(B), NEW s \in Seq(B)
    PROVE  Deduplicate(s) \in Seq(B)
<1>1. ASSUME NEW t \in Seq(B)
      PROVE  WithoutContainers(t) \in Seq(B) /\ WithoutContained(t) \in Seq(B)
  BY OnlyType DEF WithoutContainers, WithoutContained
<1> QED BY <1>1, ConsideredStays DEF Deduplicate

\* Blocks of a page are such a kind.
LEMMA BlocksClosed == ASSUME NEW p PROVE Closed(BlockOn(p))
<1> SUFFICES ASSUME NEW a \in BlockOn(p), NEW b \in BlockOn(p)
             PROVE  MergeTitles(a, b) \in BlockOn(p)
  BY DEF Closed
<1>1. Union(a.box, b.box) \in Box
  BY UnionType DEF BlockOn
<1>2. Hi(a.conf, b.conf) \in Int /\ Lo(a.order, b.order) \in Int
  BY DEF BlockOn, Hi, Lo
<1> QED BY <1>1, <1>2 DEF MergeTitles, BlockOn

\* So deduplication keeps blocks of a page.
LEMMA DeduplicateType ==
    ASSUME NEW p, NEW s \in Seq(BlockOn(p))
    PROVE  Deduplicate(s) \in Seq(BlockOn(p))
BY BlocksClosed, DeduplicateStays

\* Text lines are matched with blocks, and grouped.
LEMMA GrowBlock ==
    ASSUME NEW p, NEW s \in Seq(BlockOn(p)), NEW i, NEW box \in Box
    PROVE  [s EXCEPT ![i].box = Union(@, box)] \in Seq(BlockOn(p))
<1> DEFINE e == [s[i] EXCEPT !.box = Union(@, box)]
<1>1. ASSUME i \in DOMAIN s PROVE e \in BlockOn(p)
  <2>1. s[i] \in BlockOn(p)
    BY <1>1
  <2>2. Union(s[i].box, box) \in Box
    BY <2>1, UnionType DEF BlockOn
  <2> QED BY <2>1, <2>2 DEF BlockOn
<1>2. [s EXCEPT ![i].box = Union(@, box)] = [s EXCEPT ![i] = e]
  OBVIOUS
<1> HIDE DEF e
<1> QED BY <1>1, <1>2, Replaced

\* A block that takes a line keeps all but its box.
LEMMA GrowBox ==
    ASSUME NEW s \in Seq(Box), NEW i, NEW box \in Box
    PROVE  [s EXCEPT ![i] = Union(@, box)] \in Seq(Box)
<1> DEFINE e == Union(s[i], box)
<1>1. i \in DOMAIN s => e \in Box
  BY UnionType
<1> HIDE DEF e
<1>2. [s EXCEPT ![i] = e] \in Seq(Box)
  BY <1>1, Replaced
<1> QED BY <1>2 DEF e

Matching(p) == [blocks : Seq(BlockOn(p)), left : Seq(Box)]

\* One line matched with the blocks, or left;
LEMMA MatchLineType ==
    ASSUME NEW p, NEW m \in Matching(p), NEW line \in Box
    PROVE  MatchLine(m, line) \in Matching(p)
<1>1. m.blocks \in Seq(BlockOn(p)) /\ m.left \in Seq(Box)
  BY DEF Matching
<1> DEFINE i == BestBlock(m.blocks, line)
           grown == [m.blocks EXCEPT ![i].box = Union(@, line)]
<1>2. grown \in Seq(BlockOn(p))
  BY <1>1, GrowBlock
<1>3. MatchLine(m, line) \in {[m EXCEPT !.blocks = grown], m, [m EXCEPT !.left = Append(@, line)]}
  BY DEF MatchLine
<1>4. Append(m.left, line) \in Seq(Box)
  BY <1>1
<1> HIDE DEF grown
<1>5. /\ [m EXCEPT !.blocks = grown] \in Matching(p)
      /\ [m EXCEPT !.left = Append(@, line)] \in Matching(p)
  BY <1>1, <1>2, <1>4 DEF Matching
<1> QED BY <1>3, <1>5

\* all of them.
LEMMA MatchedType ==
    ASSUME NEW p, NEW start \in Matching(p), NEW boxes \in Seq(Box)
    PROVE  FoldLeft(MatchLine, start, boxes) \in Matching(p)
<1> DEFINE S == Matching(p)
           step == [x \in S \X Box |-> MatchLine(x[1], x[2])]
           iter == CHOOSE g : g = [T \in SUBSET DOMAIN boxes |->
                       IF T = {} THEN start
                       ELSE MatchLine(g[T \ {Max(T)}], boxes[Max(T)])]
<1>1. FoldLeft(MatchLine, start, boxes) = iter[DOMAIN boxes]
  BY DEF FoldLeft, MapThenFoldSet
<1>2. /\ Len(boxes) \in Nat /\ boxes \in [1..Len(boxes) -> Box] /\ DOMAIN boxes = 1..Len(boxes)
      /\ start \in S
  OBVIOUS
<1>3. step \in [S \X Box -> S]
  BY MatchLineType
<1>4. PICK g \in [SUBSET (1..Len(boxes)) -> S] : Folds(g, Len(boxes), start, step, boxes)
  <2> HIDE DEF step, S
  <2> QED BY <1>2, <1>3, FoldExists DEF Foldable
<1>5. \A T \in SUBSET DOMAIN boxes : T # {} =>
         step[<<g[T \ {Max(T)}], boxes[Max(T)]>>]
             = MatchLine(g[T \ {Max(T)}], boxes[Max(T)])
  <2> SUFFICES ASSUME NEW T \in SUBSET DOMAIN boxes, NEW i \in T
               PROVE  step[<<g[T \ {Max(T)}], boxes[Max(T)]>>]
                          = MatchLine(g[T \ {Max(T)}], boxes[Max(T)])
    OBVIOUS
  <2>1. Max(T) \in T
    BY <1>2, MaxIn
  <2> QED BY <2>1, <1>2
<1>6. g = [T \in SUBSET DOMAIN boxes |->
              IF T = {} THEN start ELSE MatchLine(g[T \ {Max(T)}], boxes[Max(T)])]
  BY <1>2, <1>4, <1>5 DEF Folds
<1>7. iter = [T \in SUBSET DOMAIN boxes |->
                 IF T = {} THEN start ELSE MatchLine(iter[T \ {Max(T)}], boxes[Max(T)])]
  BY <1>6
<1> HIDE DEF iter
<1>8. ASSUME NEW m \in 0..(Len(boxes) - 1), iter[1..m] \in S PROVE iter[1..(m + 1)] \in S
  <2> DEFINE U == 1..(m + 1)
  <2>1. /\ U \in SUBSET DOMAIN boxes /\ U # {} /\ Max(U) = m + 1 /\ U \ {m + 1} = 1..m
        /\ boxes[m + 1] \in Box
    BY <1>2, Segment
  <2> HIDE DEF U
  <2>2. iter[U] = MatchLine(iter[U \ {Max(U)}], boxes[Max(U)])
    BY <1>7, <2>1
  <2>3. iter[U] = MatchLine(iter[1..m], boxes[m + 1])
    BY <2>1, <2>2
  <2>4. MatchLine(iter[1..m], boxes[m + 1]) \in S
    BY <2>1, <1>8, MatchLineType
  <2> QED BY <2>3, <2>4 DEF U
<1>9. iter[{}] \in S
  BY <1>2, <1>7
<1> HIDE DEF S
<1>10. iter[1..Len(boxes)] \in S
  BY <1>2, <1>8, <1>9, Reached
<1> QED BY <1>1, <1>2, <1>10 DEF S

Encloses(outer, inner) ==
    /\ outer[1] <= inner[1] /\ outer[2] <= inner[2]
    /\ inner[3] <= outer[3] /\ inner[4] <= outer[4]

\* A line that a box contains is inside it, by any measure.
LEMMA EnclosedInside ==
    ASSUME NEW line \in Line, NEW box \in Box, Encloses(box, line)
    PROVE  Inside(line, box, TextCoverage) /\ Inside(line, box, LineOverlap)
<1> DEFINE w == Width(line)
           h == Height(line)
           a == Area(line)
<1>1. /\ line[1] \in Int /\ line[2] \in Int /\ line[3] \in Int /\ line[4] \in Int
      /\ line[1] < line[3] /\ line[2] < line[4]
      /\ box[1] \in Int /\ box[2] \in Int /\ box[3] \in Int /\ box[4] \in Int
  BY DEF Line, Box
<1>2. w \in Nat \ {0} /\ h \in Nat \ {0}
  BY <1>1 DEF Width, Height
<1>3. OverlapX(line, box) = w /\ OverlapY(line, box) = h
  BY <1>1 DEF OverlapX, OverlapY, Lo, Hi, Encloses, Width, Height
<1>4. a = w * h
  BY <1>2 DEF Area, Hi
<1> HIDE DEF w, h
<1>5. w * h \in Nat /\ w * h > 0
  BY <1>2
<1>6. Intersection(line, box) = a /\ a \in Nat /\ a > 0
  BY <1>3, <1>4, <1>5 DEF Intersection
<1> HIDE DEF a
<1>7. Reaches(a, a, 80) /\ Reaches(a, a, 60)
  BY <1>6 DEF Reaches
<1> QED BY <1>6, <1>7 DEF Inside, a, TextCoverage, LineOverlap

\* Boxes only grow,
LEMMA UnionEncloses ==
    ASSUME NEW a \in Box, NEW b \in Box
    PROVE  /\ Encloses(Union(a, b), a) /\ Encloses(Union(a, b), b)
           /\ \A x \in Box : Encloses(a, x) => Encloses(Union(a, b), x)
<1>1. /\ a[1] \in Int /\ a[2] \in Int /\ a[3] \in Int /\ a[4] \in Int
      /\ b[1] \in Int /\ b[2] \in Int /\ b[3] \in Int /\ b[4] \in Int
  BY DEF Box
<1> DEFINE u == Union(a, b)
<1>2. /\ u[1] <= a[1] /\ u[2] <= a[2] /\ a[3] <= u[3] /\ a[4] <= u[4]
      /\ u[1] <= b[1] /\ u[2] <= b[2] /\ b[3] <= u[3] /\ b[4] <= u[4]
      /\ u[1] \in Int /\ u[2] \in Int /\ u[3] \in Int /\ u[4] \in Int
  BY <1>1 DEF Union, Lo, Hi
<1> HIDE DEF u
<1>3. ASSUME NEW x \in Box, Encloses(a, x) PROVE Encloses(u, x)
  <2>1. x[1] \in Int /\ x[2] \in Int /\ x[3] \in Int /\ x[4] \in Int
    BY DEF Box
  <2> QED BY <1>1, <1>2, <1>3, <2>1 DEF Encloses
<1>4. Encloses(u, a) /\ Encloses(u, b)
  BY <1>2 DEF Encloses
<1> QED BY <1>3, <1>4 DEF u

\* so what one of several boxes contains, one of the new ones does.
Holds(boxes, x) == \E g \in DOMAIN boxes : Encloses(boxes[g], x)

LEMMA JoinGroupHolds ==
    ASSUME NEW groups \in Seq(Box), NEW line \in Box, NEW h
    PROVE  /\ Holds(JoinGroup(groups, line, h), line)
           /\ \A x \in Box : Holds(groups, x) => Holds(JoinGroup(groups, line, h), x)
<1> DEFINE near == {g \in DOMAIN groups : Follows(line, groups[g], h)}
           f == First(near)
           t == JoinGroup(groups, line, h)
           n == Len(groups)
<1>1. /\ n \in Nat /\ DOMAIN groups = 1..n /\ \A g \in 1..n : groups[g] \in Box
      /\ Encloses(line, line)
  <2>1. line[1] \in Int /\ line[2] \in Int /\ line[3] \in Int /\ line[4] \in Int
    BY DEF Box
  <2> QED BY <2>1 DEF Encloses
<1>2. t = IF near = {} THEN Append(groups, line) ELSE [groups EXCEPT ![f] = Union(@, line)]
  BY DEF JoinGroup
<1>3. near \in SUBSET (1..n)
  BY <1>1
<1>4. CASE near = {}
  <2>1. DOMAIN t = 1..(n + 1) /\ t[n + 1] = line /\ \A g \in 1..n : t[g] = groups[g]
    <3>1. t = Append(groups, line)
      BY <1>2, <1>4
    <3> HIDE DEF t
    <3> QED BY <1>1, <3>1
  <2>2. n + 1 \in 1..(n + 1) /\ 1..n \subseteq 1..(n + 1)
    BY <1>1
  <2> HIDE DEF t, n
  <2> QED BY <1>1, <2>1, <2>2 DEF Holds, t
<1>5. CASE near # {}
  <2>1. f \in 1..n
    <3>1. near \in SUBSET Nat
      BY <1>1, <1>3
    <3> HIDE DEF near
    <3>2. \E i \in near : \A j \in near : i <= j
      BY <1>5, <3>1, Least
    <3>3. f \in near
      BY <3>2 DEF First
    <3> QED BY <1>3, <3>3
  <2>2. t = [groups EXCEPT ![f] = Union(@, line)]
    BY <1>2, <1>5
  <2> HIDE DEF t, f, near
  <2>3. /\ DOMAIN t = 1..n /\ t[f] = Union(groups[f], line)
        /\ \A g \in 1..n : g # f => t[g] = groups[g]
    BY <1>1, <2>1, <2>2
  <2>4. Encloses(t[f], line) /\ \A x \in Box : Encloses(groups[f], x) => Encloses(t[f], x)
    BY <1>1, <2>1, <2>3, UnionEncloses
  <2>5. Holds(t, line)
    BY <2>1, <2>3, <2>4 DEF Holds
  <2>6. ASSUME NEW x \in Box, Holds(groups, x) PROVE Holds(t, x)
    <3>1. PICK g \in 1..n : Encloses(groups[g], x)
      BY <1>1, <2>6 DEF Holds
    <3>2. Encloses(t[g], x)
      BY <2>3, <2>4, <3>1
    <3> QED BY <2>3, <3>2 DEF Holds
  <2> QED BY <2>5, <2>6 DEF t
<1> QED BY <1>4, <1>5

\* Grouping the lines that are left: one line,
LEMMA JoinGroupType ==
    ASSUME NEW groups \in Seq(Box), NEW line \in Box, NEW height2
    PROVE  JoinGroup(groups, line, height2) \in Seq(Box)
<1>1. Append(groups, line) \in Seq(Box)
  OBVIOUS
<1> QED BY <1>1, GrowBox DEF JoinGroup

\* all of them, which gives boxes, one around each line.
LEMMA JoinedType ==
    ASSUME NEW height2, NEW boxes \in Seq(Box)
    PROVE  /\ JoinGroups(boxes, height2) \in Seq(Box)
           /\ \A k \in DOMAIN boxes : Holds(JoinGroups(boxes, height2), boxes[k])
<1> DEFINE S == Seq(Box)
           step == [x \in S \X Box |-> JoinGroup(x[1], x[2], height2)]
           iter == CHOOSE g : g = [T \in SUBSET DOMAIN boxes |->
                       IF T = {} THEN <<>>
                       ELSE JoinGroup(g[T \ {Max(T)}], boxes[Max(T)], height2)]
<1>1. JoinGroups(boxes, height2) = iter[DOMAIN boxes]
  BY DEF JoinGroups, FoldLeft, MapThenFoldSet
<1>2. /\ Len(boxes) \in Nat /\ boxes \in [1..Len(boxes) -> Box] /\ DOMAIN boxes = 1..Len(boxes)
      /\ <<>> \in S
  OBVIOUS
<1>3. step \in [S \X Box -> S]
  BY JoinGroupType
<1>4. PICK g \in [SUBSET (1..Len(boxes)) -> S] : Folds(g, Len(boxes), <<>>, step, boxes)
  <2> HIDE DEF step, S
  <2> QED BY <1>2, <1>3, FoldExists DEF Foldable
<1>5. \A T \in SUBSET DOMAIN boxes : T # {} =>
         step[<<g[T \ {Max(T)}], boxes[Max(T)]>>]
             = JoinGroup(g[T \ {Max(T)}], boxes[Max(T)], height2)
  <2> SUFFICES ASSUME NEW T \in SUBSET DOMAIN boxes, NEW i \in T
               PROVE  step[<<g[T \ {Max(T)}], boxes[Max(T)]>>]
                          = JoinGroup(g[T \ {Max(T)}], boxes[Max(T)], height2)
    OBVIOUS
  <2>1. Max(T) \in T
    BY <1>2, MaxIn
  <2> QED BY <2>1, <1>2
<1>6. g = [T \in SUBSET DOMAIN boxes |->
              IF T = {} THEN <<>> ELSE JoinGroup(g[T \ {Max(T)}], boxes[Max(T)], height2)]
  BY <1>2, <1>4, <1>5 DEF Folds
<1>7. iter = [T \in SUBSET DOMAIN boxes |->
                 IF T = {} THEN <<>> ELSE JoinGroup(iter[T \ {Max(T)}], boxes[Max(T)], height2)]
  BY <1>6
<1> HIDE DEF iter
<1> DEFINE R == [m \in 0..Len(boxes) |-> {u \in S : \A k \in 1..m : Holds(u, boxes[k])}]
<1>8. ASSUME NEW m \in 0..(Len(boxes) - 1), iter[1..m] \in R[m] PROVE iter[1..(m + 1)] \in R[m + 1]
  <2> DEFINE U == 1..(m + 1)
  <2>1. /\ U \in SUBSET DOMAIN boxes /\ U # {} /\ Max(U) = m + 1 /\ U \ {m + 1} = 1..m
        /\ boxes[m + 1] \in Box
    BY <1>2, Segment
  <2>2. iter[1..m] \in S /\ \A k \in 1..m : boxes[k] \in Box /\ Holds(iter[1..m], boxes[k])
    BY <1>2, <1>8
  <2> HIDE DEF U, S
  <2>3. iter[U] = JoinGroup(iter[U \ {Max(U)}], boxes[Max(U)], height2)
    BY <1>7, <2>1
  <2>4. iter[U] = JoinGroup(iter[1..m], boxes[m + 1], height2)
    BY <2>1, <2>3
  <2> DEFINE u == JoinGroup(iter[1..m], boxes[m + 1], height2)
  <2>5. u \in S
    BY <2>1, <2>2, JoinGroupType DEF S
  <2>6. Holds(u, boxes[m + 1]) /\ \A x \in Box : Holds(iter[1..m], x) => Holds(u, x)
    BY <2>1, <2>2, JoinGroupHolds DEF S
  <2> HIDE DEF u
  <2>7. \A k \in 1..(m + 1) : Holds(u, boxes[k])
    <3>1. \A k \in 1..(m + 1) : k \in 1..m \/ k = m + 1
      OBVIOUS
    <3> QED BY <2>2, <2>6, <3>1
  <2>8. m + 1 \in 0..Len(boxes)
    BY <1>2
  <2>9. u \in R[m + 1]
    BY <2>5, <2>7, <2>8
  <2>10. iter[U] = u
    BY <2>4 DEF u
  <2> HIDE DEF R
  <2> QED BY <2>9, <2>10 DEF U
<1>9. iter[{}] \in R[0]
  <2>1. iter[{}] = <<>>
    BY <1>2, <1>7
  <2>2. 0 \in 0..Len(boxes) /\ \A k \in 1..0 : FALSE
    BY <1>2
  <2> HIDE DEF S
  <2> QED BY <1>2, <2>1, <2>2
<1>10. iter[1..Len(boxes)] \in R[Len(boxes)]
  <2> HIDE DEF R, S
  <2> QED BY <1>2, <1>8, <1>9, ReachedInTurn
<1>11. /\ iter[1..Len(boxes)] \in S
       /\ \A k \in 1..Len(boxes) : Holds(iter[1..Len(boxes)], boxes[k])
  <2>1. Len(boxes) \in 0..Len(boxes)
    BY <1>2
  <2> HIDE DEF S
  <2> QED BY <1>10, <2>1
<1> HIDE DEF iter
<1> QED BY <1>1, <1>2, <1>11

\* Boxes from the top of the page down are boxes.
LEMMA SortedBoxes ==
    ASSUME NEW boxes \in Seq(Box)
    PROVE  FromTop(boxes) \in Seq(Box)
<1> DEFINE n == Len(boxes)
           key == [i \in DOMAIN boxes |-> TopLeft(boxes[i])]
<1>1. n \in Nat /\ DOMAIN boxes = 1..n
  OBVIOUS
<1>2. \A i \in 1..n : key[i] \in [1..2 -> Int]
  <2> SUFFICES ASSUME NEW i \in 1..n PROVE key[i] \in [1..2 -> Int]
    OBVIOUS
  <2>1. boxes[i][1] \in Int /\ boxes[i][2] \in Int /\ key[i] = <<boxes[i][2], boxes[i][1]>>
    <3>1. boxes[i] \in Box
      BY <1>1
    <3> QED BY <1>1, <3>1 DEF Box, TopLeft
  <2> QED BY <2>1, PairTuple
<1>3. key = [i \in DOMAIN boxes |-> key[i]]
  OBVIOUS
<1> HIDE DEF n, key
<1>4. OrdersKeys(key, n)
  BY <1>1, <1>2, TuplesOrdered
<1>5. SortBy(boxes, key) \in Seq(Box)
  BY <1>3, <1>4, SortType DEF n
<1> QED BY <1>5 DEF key, FromTop

\* The groups of the lines of a page are boxes.
LEMMA GroupLinesType ==
    ASSUME NEW boxes \in Seq(Box)
    PROVE  GroupLines(boxes) \in Seq(Box)
BY SortedBoxes, JoinedType DEF GroupLines

\* The block for a group of lines is one of the page;
LEMMA NewTextType ==
    ASSUME NEW p, NEW box \in Box, NEW order \in Int
    PROVE  NewText(p, box, order) \in BlockOn(p)
BY DEF NewText, BlockOn, BlockTypes

\* so is the abstract that takes the group.
LEMMA AddGroupType ==
    ASSUME NEW p, NEW t \in Seq(BlockOn(p)), NEW group \in Box, NEW boxes, NEW start \in Nat
    PROVE  AddGroup(t, group, boxes, p, start) \in Seq(BlockOn(p))
<1>1. NewText(p, group, start + Len(t)) \in BlockOn(p)
  BY NewTextType
<1>2. Append(t, NewText(p, group, start + Len(t))) \in Seq(BlockOn(p))
  BY <1>1
<1> QED BY <1>2, GrowBlock DEF AddGroup

\* All groups added leave blocks of the page.
LEMMA AddedType ==
    ASSUME NEW p, NEW s \in Seq(BlockOn(p)), NEW groups \in Seq(Box), NEW boxes, NEW start \in Nat
    PROVE  AddGroups(s, groups, boxes, p, start) \in Seq(BlockOn(p))
<1> DEFINE S == Seq(BlockOn(p))
           step == [x \in S \X Box |-> AddGroup(x[1], x[2], boxes, p, start)]
           iter == CHOOSE g : g = [T \in SUBSET DOMAIN groups |->
                       IF T = {} THEN s
                       ELSE AddGroup(g[T \ {Max(T)}], groups[Max(T)], boxes, p, start)]
<1>1. AddGroups(s, groups, boxes, p, start) = iter[DOMAIN groups]
  BY DEF AddGroups, FoldLeft, MapThenFoldSet
<1>2. /\ Len(groups) \in Nat /\ groups \in [1..Len(groups) -> Box] /\ DOMAIN groups = 1..Len(groups)
      /\ s \in S
  OBVIOUS
<1>3. step \in [S \X Box -> S]
  BY AddGroupType
<1>4. PICK g \in [SUBSET (1..Len(groups)) -> S] : Folds(g, Len(groups), s, step, groups)
  <2> HIDE DEF step, S
  <2> QED BY <1>2, <1>3, FoldExists DEF Foldable
<1>5. \A T \in SUBSET DOMAIN groups : T # {} =>
         step[<<g[T \ {Max(T)}], groups[Max(T)]>>]
             = AddGroup(g[T \ {Max(T)}], groups[Max(T)], boxes, p, start)
  <2> SUFFICES ASSUME NEW T \in SUBSET DOMAIN groups, NEW i \in T
               PROVE  step[<<g[T \ {Max(T)}], groups[Max(T)]>>]
                          = AddGroup(g[T \ {Max(T)}], groups[Max(T)], boxes, p, start)
    OBVIOUS
  <2>1. Max(T) \in T
    BY <1>2, MaxIn
  <2> QED BY <2>1, <1>2
<1>6. g = [T \in SUBSET DOMAIN groups |->
              IF T = {} THEN s ELSE AddGroup(g[T \ {Max(T)}], groups[Max(T)], boxes, p, start)]
  BY <1>2, <1>4, <1>5 DEF Folds
<1>7. iter = [T \in SUBSET DOMAIN groups |->
                 IF T = {} THEN s ELSE AddGroup(iter[T \ {Max(T)}], groups[Max(T)], boxes,
                                                p, start)]
  BY <1>6
<1> HIDE DEF iter
<1>8. ASSUME NEW m \in 0..(Len(groups) - 1), iter[1..m] \in S PROVE iter[1..(m + 1)] \in S
  <2> DEFINE U == 1..(m + 1)
  <2>1. /\ U \in SUBSET DOMAIN groups /\ U # {} /\ Max(U) = m + 1 /\ U \ {m + 1} = 1..m
        /\ groups[m + 1] \in Box
    BY <1>2, Segment
  <2> HIDE DEF U
  <2>2. iter[U] = AddGroup(iter[U \ {Max(U)}], groups[Max(U)], boxes, p, start)
    BY <1>7, <2>1
  <2>3. iter[U] = AddGroup(iter[1..m], groups[m + 1], boxes, p, start)
    BY <2>1, <2>2
  <2>4. AddGroup(iter[1..m], groups[m + 1], boxes, p, start) \in S
    BY <2>1, <1>8, AddGroupType
  <2> QED BY <2>3, <2>4 DEF U
<1>9. iter[{}] \in S
  BY <1>2, <1>7
<1> HIDE DEF S
<1>10. iter[1..Len(groups)] \in S
  BY <1>2, <1>8, <1>9, Reached
<1> QED BY <1>1, <1>2, <1>10 DEF S

\* The box around several boxes is a box, and contains them.
LEMMA HullFold ==
    ASSUME NEW first \in Box, NEW boxes \in Seq(Box)
    PROVE  /\ FoldLeft(Union, first, boxes) \in Box
           /\ Encloses(FoldLeft(Union, first, boxes), first)
           /\ \A k \in DOMAIN boxes : Encloses(FoldLeft(Union, first, boxes), boxes[k])
<1> DEFINE S == Box
           step == [x \in S \X Box |-> Union(x[1], x[2])]
           iter == CHOOSE g : g = [T \in SUBSET DOMAIN boxes |->
                       IF T = {} THEN first
                       ELSE Union(g[T \ {Max(T)}], boxes[Max(T)])]
<1>1. FoldLeft(Union, first, boxes) = iter[DOMAIN boxes]
  BY DEF FoldLeft, MapThenFoldSet
<1>2. /\ Len(boxes) \in Nat /\ boxes \in [1..Len(boxes) -> Box] /\ DOMAIN boxes = 1..Len(boxes)
      /\ first \in S
  OBVIOUS
<1>3. step \in [S \X Box -> S]
  BY UnionType
<1>4. PICK g \in [SUBSET (1..Len(boxes)) -> S] : Folds(g, Len(boxes), first, step, boxes)
  <2> HIDE DEF step, S
  <2> QED BY <1>2, <1>3, FoldExists DEF Foldable
<1>5. \A T \in SUBSET DOMAIN boxes : T # {} =>
         step[<<g[T \ {Max(T)}], boxes[Max(T)]>>]
             = Union(g[T \ {Max(T)}], boxes[Max(T)])
  <2> SUFFICES ASSUME NEW T \in SUBSET DOMAIN boxes, NEW i \in T
               PROVE  step[<<g[T \ {Max(T)}], boxes[Max(T)]>>]
                          = Union(g[T \ {Max(T)}], boxes[Max(T)])
    OBVIOUS
  <2>1. Max(T) \in T
    BY <1>2, MaxIn
  <2> QED BY <2>1, <1>2
<1>6. g = [T \in SUBSET DOMAIN boxes |->
              IF T = {} THEN first ELSE Union(g[T \ {Max(T)}], boxes[Max(T)])]
  BY <1>2, <1>4, <1>5 DEF Folds
<1>7. iter = [T \in SUBSET DOMAIN boxes |->
                 IF T = {} THEN first ELSE Union(iter[T \ {Max(T)}], boxes[Max(T)])]
  BY <1>6
<1> HIDE DEF iter
<1> DEFINE R == [m \in 0..Len(boxes) |-> {u \in S : Encloses(u, first)
                                              /\ \A k \in 1..m : Encloses(u, boxes[k])}]
<1>8. ASSUME NEW m \in 0..(Len(boxes) - 1), iter[1..m] \in R[m] PROVE iter[1..(m + 1)] \in R[m + 1]
  <2> DEFINE U == 1..(m + 1)
  <2>1. /\ U \in SUBSET DOMAIN boxes /\ U # {} /\ Max(U) = m + 1 /\ U \ {m + 1} = 1..m
        /\ boxes[m + 1] \in Box
    BY <1>2, Segment
  <2>2. /\ iter[1..m] \in S /\ Encloses(iter[1..m], first)
        /\ \A k \in 1..m : boxes[k] \in Box /\ Encloses(iter[1..m], boxes[k])
    BY <1>2, <1>8
  <2> HIDE DEF U, S
  <2>3. iter[U] = Union(iter[U \ {Max(U)}], boxes[Max(U)])
    BY <1>7, <2>1
  <2>4. iter[U] = Union(iter[1..m], boxes[m + 1])
    BY <2>1, <2>3
  <2> DEFINE u == Union(iter[1..m], boxes[m + 1])
  <2>5. u \in S
    BY <2>1, <2>2, UnionType DEF S
  <2>6. Encloses(u, boxes[m + 1]) /\ \A x \in Box : Encloses(iter[1..m], x) => Encloses(u, x)
    BY <2>1, <2>2, UnionEncloses DEF S
  <2> HIDE DEF u
  <2>7. Encloses(u, first) /\ \A k \in 1..(m + 1) : Encloses(u, boxes[k])
    <3>1. \A k \in 1..(m + 1) : k \in 1..m \/ k = m + 1
      OBVIOUS
    <3> QED BY <2>2, <2>6, <3>1
  <2>8. m + 1 \in 0..Len(boxes)
    BY <1>2
  <2>9. u \in R[m + 1]
    BY <2>5, <2>7, <2>8
  <2>10. iter[U] = u
    BY <2>4 DEF u
  <2> HIDE DEF R
  <2> QED BY <2>9, <2>10 DEF U
<1>9. iter[{}] \in R[0]
  <2>1. iter[{}] = first
    BY <1>2, <1>7
  <2>2. 0 \in 0..Len(boxes) /\ \A k \in 1..0 : FALSE
    BY <1>2
  <2>3. Encloses(first, first)
    BY UnionEncloses DEF Encloses, Box
  <2> HIDE DEF S
  <2> QED BY <1>2, <2>1, <2>2, <2>3
<1>10. iter[1..Len(boxes)] \in R[Len(boxes)]
  <2> HIDE DEF R, S
  <2> QED BY <1>2, <1>8, <1>9, ReachedInTurn
<1>11. /\ iter[1..Len(boxes)] \in S /\ Encloses(iter[1..Len(boxes)], first)
       /\ \A k \in 1..Len(boxes) : Encloses(iter[1..Len(boxes)], boxes[k])
  <2>1. Len(boxes) \in 0..Len(boxes)
    BY <1>2
  <2> HIDE DEF S
  <2> QED BY <1>10, <2>1
<1> HIDE DEF iter
<1> QED BY <1>1, <1>2, <1>11

-----------------------------------------------------------------------------
(***************************************************************************)
(* Reading order.  What is read first has the smaller key                  *)
(* (KeysFollowReading), and the order of a page is that of its blocks      *)
(* however they are numbered (Permuted).                                   *)
(***************************************************************************)

\* A nonempty set of indices has a first one.
LEMMA SmallestOf ==
    ASSUME NEW n \in Nat, n > 0, NEW f \in [1..n -> Int]
    PROVE  \E i \in 1..n : \A j \in 1..n : f[i] <= f[j]
<1> DEFINE Ok == {m \in Nat : m \in 1..n => \E i \in 1..m : \A j \in 1..m : f[i] <= f[j]}
<1>1. 0 \in Ok
  OBVIOUS
<1>2. ASSUME NEW m \in Nat, m \in Ok PROVE m + 1 \in Ok
  <2> SUFFICES ASSUME m + 1 \in 1..n
               PROVE  \E i \in 1..(m + 1) : \A j \in 1..(m + 1) : f[i] <= f[j]
    OBVIOUS
  <2>1. CASE m = 0
    <3>1. \A j \in 1..(m + 1) : j = 1
      BY <2>1
    <3> QED BY <2>1, <3>1
  <2>2. CASE m # 0
    <3>1. PICK i \in 1..m : \A j \in 1..m : f[i] <= f[j]
      BY <1>2, <2>2
    <3>2. f[i] \in Int /\ f[m + 1] \in Int
      BY <3>1
    <3>3. CASE f[i] <= f[m + 1]
      <4>1. \A j \in 1..(m + 1) : j \in 1..m \/ j = m + 1
        OBVIOUS
      <4> QED BY <3>1, <3>3, <4>1
    <3>4. CASE f[m + 1] < f[i]
      <4>1. \A j \in 1..(m + 1) : j \in 1..m \/ j = m + 1
        OBVIOUS
      <4>2. \A j \in 1..m : f[m + 1] <= f[j]
        <5> TAKE j \in 1..m
        <5>1. f[j] \in Int /\ f[i] <= f[j]
          BY <3>1
        <5> QED BY <3>2, <3>4, <5>1
      <4>3. f[m + 1] <= f[m + 1]
        BY <3>2
      <4>4. \A j \in 1..(m + 1) : f[m + 1] <= f[j]
        BY <4>1, <4>2, <4>3
      <4> QED BY <4>4
    <3> QED BY <3>2, <3>3, <3>4
  <2> QED BY <2>1, <2>2
<1>3. n \in Ok
  <2> HIDE DEF Ok
  <2> QED BY <1>1, <1>2, Induction
<1> QED BY <1>3

\* s has n elements with boxes.
Boxed(s, n) == DOMAIN s = 1..n /\ \A i \in 1..n : s[i].box \in Box

\* The page reaches from the leftmost to the rightmost edge of its blocks.
LEMMA Edges ==
    ASSUME NEW n \in Nat, n > 0, NEW s, Boxed(s, n)
    PROVE  /\ LeftEdge(s) \in Int /\ RightEdge(s) \in Int
           /\ \E i \in 1..n : LeftEdge(s) = s[i].box[1]
           /\ \E i \in 1..n : RightEdge(s) = s[i].box[3]
           /\ \A i \in 1..n : LeftEdge(s) <= s[i].box[1] /\ s[i].box[3] <= RightEdge(s)
<1>1. \A i \in 1..n : s[i].box[1] \in Int /\ s[i].box[3] \in Int
  BY DEF Boxed, Box
<1>2. \E i \in 1..n : \A j \in 1..n : s[i].box[1] <= s[j].box[1]
  <2> DEFINE f == [i \in 1..n |-> s[i].box[1]]
  <2>1. f \in [1..n -> Int]
    BY <1>1
  <2>2. \E i \in 1..n : \A j \in 1..n : f[i] <= f[j]
    <3> HIDE DEF f
    <3> QED BY <2>1, SmallestOf
  <2> QED BY <2>2
<1>3. \E i \in 1..n : \A j \in 1..n : s[j].box[3] <= s[i].box[3]
  <2> DEFINE f == [i \in 1..n |-> -s[i].box[3]]
  <2>1. f \in [1..n -> Int]
    BY <1>1
  <2>2. PICK i \in 1..n : \A j \in 1..n : f[i] <= f[j]
    <3> HIDE DEF f
    <3> QED BY <2>1, SmallestOf
  <2>3. \A j \in 1..n : s[j].box[3] <= s[i].box[3]
    BY <1>1, <2>2
  <2> QED BY <2>3
<1>4. \E x \in {s[i].box[1] : i \in DOMAIN s} : \A i \in DOMAIN s : x <= s[i].box[1]
  BY <1>2 DEF Boxed
<1>5. \E x \in {s[i].box[3] : i \in DOMAIN s} : \A i \in DOMAIN s : x >= s[i].box[3]
  BY <1>1, <1>3 DEF Boxed
<1>6. /\ LeftEdge(s) \in {s[i].box[1] : i \in DOMAIN s}
      /\ \A i \in DOMAIN s : LeftEdge(s) <= s[i].box[1]
  BY <1>4 DEF LeftEdge
<1>7. /\ RightEdge(s) \in {s[i].box[3] : i \in DOMAIN s}
      /\ \A i \in DOMAIN s : RightEdge(s) >= s[i].box[3]
  BY <1>5 DEF RightEdge
<1> QED BY <1>1, <1>6, <1>7 DEF Boxed

\* t is s with its blocks in another order.
Permuted(t, s, n, p) ==
    /\ p \in [1..n -> 1..n]
    /\ \A i \in 1..n : \E a \in 1..n : p[a] = i
    /\ \A a, b \in 1..n : p[a] = p[b] => a = b
    /\ \A a \in 1..n : t[a].box = s[p[a]].box

\* A permutation of the blocks leaves as many with a property as before.
LEMMA PermutedCount ==
    ASSUME NEW n \in Nat, NEW t, NEW s, NEW p, Permuted(t, s, n, p), NEW K \in SUBSET (1..n)
    PROVE  Cardinality({a \in 1..n : p[a] \in K}) = Cardinality(K)
<1> DEFINE L == {a \in 1..n : p[a] \in K}
           f == [a \in L |-> p[a]]
<1>1. f \in Bijection(L, K)
  <2>1. f \in [L -> K]
    OBVIOUS
  <2>2. \A a, b \in L : f[a] = f[b] => a = b
    BY DEF Permuted
  <2>3. \A i \in K : \E a \in L : f[a] = i
    BY DEF Permuted
  <2> HIDE DEF f, L
  <2> QED BY <2>1, <2>2, <2>3 DEF Bijection, Injection, Surjection, IsInjective
<1>2. IsFiniteSet(L)
  <2>1. IsFiniteSet(1..n) /\ L \in SUBSET (1..n)
    BY FS_Interval
  <2> QED BY <2>1, FS_Subset
<1> HIDE DEF f, L
<1>3. Cardinality(K) = Cardinality(L)
  BY <1>1, <1>2, FS_Bijection DEF ExistsBijection
<1> QED BY <1>3 DEF L

\* The page looks the same.
LEMMA PermutedPage ==
    ASSUME NEW n \in Nat, n > 0, NEW s, NEW t, NEW p,
           Boxed(s, n), Boxed(t, n), Permuted(t, s, n, p)
    PROVE  /\ \A a \in 1..n : Spanning(t, a) <=> Spanning(s, p[a])
           /\ \A a \in 1..n : OnTheLeft(t, a) <=> OnTheLeft(s, p[a])
           /\ TwoColumns(t) <=> TwoColumns(s)
<1>1. LeftEdge(t) = LeftEdge(s) /\ RightEdge(t) = RightEdge(s)
  <2>1. /\ LeftEdge(t) \in Int /\ LeftEdge(s) \in Int
        /\ RightEdge(t) \in Int /\ RightEdge(s) \in Int
    BY Edges
  <2>2. LeftEdge(s) <= LeftEdge(t) /\ RightEdge(t) <= RightEdge(s)
    <3>1. PICK a \in 1..n : LeftEdge(t) = t[a].box[1]
      BY Edges
    <3>2. PICK b \in 1..n : RightEdge(t) = t[b].box[3]
      BY Edges
    <3>3. /\ p[a] \in 1..n /\ t[a].box = s[p[a]].box
          /\ p[b] \in 1..n /\ t[b].box = s[p[b]].box
      BY DEF Permuted
    <3>4. LeftEdge(s) <= s[p[a]].box[1] /\ s[p[b]].box[3] <= RightEdge(s)
      BY <3>3, Edges
    <3> QED BY <3>1, <3>2, <3>3, <3>4
  <2>3. LeftEdge(t) <= LeftEdge(s) /\ RightEdge(s) <= RightEdge(t)
    <3>1. PICK i \in 1..n : LeftEdge(s) = s[i].box[1]
      BY Edges
    <3>2. PICK j \in 1..n : RightEdge(s) = s[j].box[3]
      BY Edges
    <3>3. PICK a \in 1..n : p[a] = i
      BY DEF Permuted
    <3>4. PICK b \in 1..n : p[b] = j
      BY DEF Permuted
    <3>5. t[a].box = s[i].box /\ t[b].box = s[j].box
      BY <3>3, <3>4 DEF Permuted
    <3>6. LeftEdge(t) <= t[a].box[1] /\ t[b].box[3] <= RightEdge(t)
      BY Edges
    <3> QED BY <3>1, <3>2, <3>5, <3>6
  <2> QED BY <2>1, <2>2, <2>3
<1>2. \A a \in 1..n : /\ Spanning(t, a) <=> Spanning(s, p[a])
                      /\ OnTheLeft(t, a) <=> OnTheLeft(s, p[a])
  <2> TAKE a \in 1..n
  <2>1. t[a].box = s[p[a]].box
    BY DEF Permuted
  <2> QED BY <1>1, <2>1 DEF Spanning, OnTheLeft, Middle2
<1>3. TwoColumns(t) <=> TwoColumns(s)
  <2> DEFINE left(u) == {i \in 1..n : ~Spanning(u, i) /\ OnTheLeft(u, i)}
             right(u) == {i \in 1..n : ~Spanning(u, i) /\ ~OnTheLeft(u, i)}
  <2>1. ASSUME NEW u, Boxed(u, n)
        PROVE  TwoColumns(u) <=> Cardinality(left(u)) >= 2 /\ Cardinality(right(u)) >= 2
    <3> DEFINE single == {i \in DOMAIN u : ~Spanning(u, i)}
               lefts == {i \in single : OnTheLeft(u, i)}
    <3>1. lefts = left(u) /\ single \ lefts = right(u)
      BY <2>1 DEF Boxed
    <3>2. TwoColumns(u) <=> Cardinality(lefts) >= 2 /\ Cardinality(single \ lefts) >= 2
      BY DEF TwoColumns
    <3> HIDE DEF single, lefts, left, right
    <3> QED BY <3>1, <3>2
  <2>2. /\ left(t) = {a \in 1..n : p[a] \in left(s)}
        /\ right(t) = {a \in 1..n : p[a] \in right(s)}
    BY <1>2 DEF Permuted
  <2>3. left(s) \in SUBSET (1..n) /\ right(s) \in SUBSET (1..n)
    OBVIOUS
  <2> HIDE DEF left, right
  <2>4. /\ Cardinality({a \in 1..n : p[a] \in left(s)}) = Cardinality(left(s))
        /\ Cardinality({a \in 1..n : p[a] \in right(s)}) = Cardinality(right(s))
    BY <2>3, PermutedCount
  <2> QED BY <2>1, <2>2, <2>4
<1> QED BY <1>2, <1>3

ReadingKey(s, i) == IF TwoColumns(s) THEN ColumnKey(s, i) ELSE TopLeft(s[i].box)

\* Sort keys are tuples of integers.
LEMMA KeyTypes ==
    ASSUME NEW n \in Nat, NEW s, Boxed(s, n), NEW i \in 1..n
    PROVE  /\ Cardinality(SpansBefore(s, i)) \in Nat /\ Cardinality(Above(s, i)) \in Nat
           /\ TwoColumns(s) => ReadingKey(s, i) \in [1..4 -> Int]
           /\ ~TwoColumns(s) => ReadingKey(s, i) \in [1..2 -> Int]
<1>1. s[i].box[1] \in Int /\ s[i].box[2] \in Int
  BY DEF Boxed, Box
<1>2. Cardinality(SpansBefore(s, i)) \in Nat /\ Cardinality(Above(s, i)) \in Nat
  <2>1. /\ IsFiniteSet(1..n)
        /\ SpansBefore(s, i) \in SUBSET (1..n) /\ Above(s, i) \in SUBSET (1..n)
    BY FS_Interval DEF Boxed, SpansBefore, Above
  <2>2. IsFiniteSet(SpansBefore(s, i)) /\ IsFiniteSet(Above(s, i))
    BY <2>1, FS_Subset
  <2> QED BY <2>2, FS_CardinalityType
<1>3. ColumnKey(s, i) \in [1..4 -> Int]
  <2> DEFINE c == 2 * Cardinality(SpansBefore(s, i)) + 1
             d == 2 * Cardinality(Above(s, i))
             e == IF OnTheLeft(s, i) THEN 0 ELSE 1
  <2>1. c \in Int /\ d \in Int /\ e \in Int /\ 0 \in Int
    BY <1>2
  <2>2. ColumnKey(s, i) \in {<<c, 0, 0, 0>>, <<d, e, s[i].box[2], s[i].box[1]>>}
    BY DEF ColumnKey
  <2> HIDE DEF c, d, e
  <2>3. <<c, 0, 0, 0>> \in [1..4 -> Int]
    BY <2>1, FourTuple
  <2>4. <<d, e, s[i].box[2], s[i].box[1]>> \in [1..4 -> Int]
    BY <1>1, <2>1, FourTuple
  <2> QED BY <2>2, <2>3, <2>4
<1>4. TopLeft(s[i].box) \in [1..2 -> Int]
  BY <1>1, PairTuple DEF TopLeft
<1> QED BY <1>2, <1>3, <1>4 DEF ReadingKey

\* Sets of blocks are finite, so a smaller set has a smaller number.
LEMMA CountsGrow ==
    ASSUME NEW n \in Nat, NEW S \in SUBSET (1..n), NEW T \in SUBSET (1..n), S \subseteq T
    PROVE  /\ Cardinality(S) \in Nat /\ Cardinality(T) \in Nat
           /\ Cardinality(S) <= Cardinality(T)
           /\ S # T => Cardinality(S) < Cardinality(T)
<1>1. IsFiniteSet(1..n)
  BY FS_Interval
<1>2. IsFiniteSet(S) /\ IsFiniteSet(T)
  BY <1>1, FS_Subset
<1>3. /\ Cardinality(S) <= Cardinality(T)
      /\ Cardinality(T) = Cardinality(S) => T = S
  BY <1>2, FS_Subset
<1> QED BY <1>2, <1>3, FS_CardinalityType

\* The reasons for which a reader reads block j before block i of a page with columns.
LEMMA BandsFollow ==
    ASSUME NEW n \in Nat, NEW s, Boxed(s, n), SpansApart(s),
           NEW i \in 1..n, NEW j \in 1..n, s[j].box[4] <= s[i].box[2]
    PROVE  /\ ~Spanning(s, i) /\ ~Spanning(s, j) =>
                  Cardinality(Above(s, j)) <= Cardinality(Above(s, i))
           /\ Spanning(s, i) /\ Spanning(s, j) =>
                  Cardinality(SpansBefore(s, j)) < Cardinality(SpansBefore(s, i))
           /\ Spanning(s, i) /\ ~Spanning(s, j) =>
                  Cardinality(Above(s, j)) <= Cardinality(SpansBefore(s, i))
           /\ ~Spanning(s, i) /\ Spanning(s, j) =>
                  Cardinality(SpansBefore(s, j)) < Cardinality(Above(s, i))
<1>1. \A k \in 1..n : /\ s[k].box[1] \in Int /\ s[k].box[2] \in Int /\ s[k].box[4] \in Int
                      /\ s[k].box[2] < s[k].box[4]
  BY DEF Boxed, Box
<1>2. \A k, l \in 1..n : Precedes(TopLeft(s[k].box), TopLeft(s[l].box)) <=>
          \/ s[k].box[2] < s[l].box[2]
          \/ s[k].box[2] = s[l].box[2] /\ s[k].box[1] < s[l].box[1]
  BY <1>1, PrecedesPair DEF TopLeft
<1>3. \A k, l \in 1..n : TopLeft(s[k].box) = TopLeft(s[l].box) =>
          s[k].box[2] = s[l].box[2] /\ s[k].box[1] = s[l].box[1]
  BY DEF TopLeft
<1>4. \A k \in 1..n : k \in Above(s, i) <=>
          Spanning(s, k) /\ 2 * s[k].box[4] <= s[i].box[2] + s[i].box[4]
  BY DEF Boxed, Above
<1>5. \A k \in 1..n : k \in Above(s, j) <=>
          Spanning(s, k) /\ 2 * s[k].box[4] <= s[j].box[2] + s[j].box[4]
  BY DEF Boxed, Above
<1>6. \A k, l \in 1..n : k \in SpansBefore(s, l) <=>
          /\ Spanning(s, k)
          /\ \/ s[k].box[2] < s[l].box[2]
             \/ s[k].box[2] = s[l].box[2] /\ s[k].box[1] < s[l].box[1]
             \/ TopLeft(s[k].box) = TopLeft(s[l].box) /\ k < l
  BY <1>2 DEF Boxed, SpansBefore
<1>7. /\ Above(s, i) \in SUBSET (1..n) /\ Above(s, j) \in SUBSET (1..n)
      /\ SpansBefore(s, i) \in SUBSET (1..n) /\ SpansBefore(s, j) \in SUBSET (1..n)
  BY DEF Boxed, SpansBefore, Above
<1>8. s[j].box[2] < s[i].box[2]
  BY <1>1
<1>9. Above(s, j) \subseteq Above(s, i)
  <2>1. s[j].box[2] + s[j].box[4] <= s[i].box[2] + s[i].box[4]
    BY <1>1
  <2>2. \A k \in 1..n : k \in Above(s, j) => k \in Above(s, i)
    BY <1>1, <1>4, <1>5, <2>1
  <2> QED BY <1>7, <2>2
<1>10. ASSUME Spanning(s, j)
       PROVE  SpansBefore(s, j) \subseteq SpansBefore(s, i) /\ j \in SpansBefore(s, i)
  <2>1. \A k \in 1..n : k \in SpansBefore(s, j) => k \in SpansBefore(s, i)
    <3> TAKE k \in 1..n
    <3> HAVE k \in SpansBefore(s, j)
    <3>1. s[k].box[2] <= s[j].box[2] /\ Spanning(s, k)
      BY <1>1, <1>3, <1>6
    <3>2. s[k].box[2] < s[i].box[2]
      BY <1>1, <1>8, <3>1
    <3> QED BY <1>6, <3>1, <3>2
  <2> QED BY <1>6, <1>7, <1>8, <1>10, <2>1
<1>11. j \notin SpansBefore(s, j)
  BY <1>1, <1>6
<1>12. Above(s, j) \subseteq SpansBefore(s, i)
  <2>1. \A k \in 1..n : k \in Above(s, j) => k \in SpansBefore(s, i)
    <3> TAKE k \in 1..n
    <3> HAVE k \in Above(s, j)
    <3>1. Spanning(s, k) /\ 2 * s[k].box[4] <= s[j].box[2] + s[j].box[4]
      BY <1>5
    <3>2. s[k].box[2] < s[i].box[2]
      BY <1>1, <3>1
    <3> QED BY <1>6, <3>1, <3>2
  <2> QED BY <1>7, <2>1
<1>13. ASSUME Spanning(s, j) PROVE SpansBefore(s, j) \subseteq Above(s, i) /\ j \in Above(s, i)
  <2>1. 2 * s[j].box[4] <= s[i].box[2] + s[i].box[4]
    BY <1>1
  <2>2. \A k \in 1..n : k \in SpansBefore(s, j) => k \in Above(s, i)
    <3> TAKE k \in 1..n
    <3> HAVE k \in SpansBefore(s, j)
    <3>1. s[k].box[2] <= s[j].box[2] /\ Spanning(s, k) /\ k # j
      BY <1>1, <1>3, <1>6, <1>11
    <3>2. OverlapY(s[k].box, s[j].box) = 0
      BY <1>13, <3>1 DEF SpansApart, Boxed
    <3>3. s[k].box[4] <= s[j].box[2]
      BY <1>1, <3>1, <3>2 DEF OverlapY, Lo, Hi
    <3>4. 2 * s[k].box[4] <= s[i].box[2] + s[i].box[4]
      BY <1>1, <3>3
    <3> QED BY <1>4, <3>1, <3>4
  <2> QED BY <1>4, <1>7, <1>13, <2>1, <2>2
<1>14. ~Spanning(s, i) /\ ~Spanning(s, j) =>
           Cardinality(Above(s, j)) <= Cardinality(Above(s, i))
  BY <1>7, <1>9, CountsGrow
<1>15. Spanning(s, i) /\ Spanning(s, j) =>
           Cardinality(SpansBefore(s, j)) < Cardinality(SpansBefore(s, i))
  BY <1>7, <1>10, <1>11, CountsGrow
<1>16. Spanning(s, i) /\ ~Spanning(s, j) =>
           Cardinality(Above(s, j)) <= Cardinality(SpansBefore(s, i))
  BY <1>7, <1>12, CountsGrow
<1>17. ~Spanning(s, i) /\ Spanning(s, j) =>
           Cardinality(SpansBefore(s, j)) < Cardinality(Above(s, i))
  BY <1>7, <1>11, <1>13, CountsGrow
<1> QED BY <1>14, <1>15, <1>16, <1>17

\* The key of i follows that of j when its band does, or else its column, or its top.
LEMMA ColumnsFollow ==
    ASSUME NEW s, NEW i, NEW j, ~Spanning(s, i), ~Spanning(s, j),
           Cardinality(Above(s, i)) \in Nat, Cardinality(Above(s, j)) \in Nat,
           s[i].box[1] \in Int, s[i].box[2] \in Int, s[j].box[1] \in Int, s[j].box[2] \in Int,
           \/ Cardinality(Above(s, j)) < Cardinality(Above(s, i))
           \/ /\ Cardinality(Above(s, j)) = Cardinality(Above(s, i))
              /\ OnTheLeft(s, j) /\ ~OnTheLeft(s, i)
           \/ /\ Cardinality(Above(s, j)) = Cardinality(Above(s, i))
              /\ OnTheLeft(s, j) <=> OnTheLeft(s, i)
              /\ s[j].box[2] < s[i].box[2]
    PROVE  Precedes(ColumnKey(s, j), ColumnKey(s, i))
<1> DEFINE a == 2 * Cardinality(Above(s, j))
           b == IF OnTheLeft(s, j) THEN 0 ELSE 1
           c == s[j].box[2]
           d == s[j].box[1]
           e == 2 * Cardinality(Above(s, i))
           f == IF OnTheLeft(s, i) THEN 0 ELSE 1
           g == s[i].box[2]
           h == s[i].box[1]
<1>1. /\ a \in Int /\ b \in Int /\ c \in Int /\ d \in Int
      /\ e \in Int /\ f \in Int /\ g \in Int /\ h \in Int
  OBVIOUS
<1>2. a < e \/ (a = e /\ b < f) \/ (a = e /\ b = f /\ c < g)
  OBVIOUS
<1>3. ColumnKey(s, j) = <<a, b, c, d>> /\ ColumnKey(s, i) = <<e, f, g, h>>
  BY DEF ColumnKey
<1> HIDE DEF a, b, c, d, e, f, g, h
<1>4. Precedes(<<a, b, c, d>>, <<e, f, g, h>>)
  BY <1>1, <1>2 DEF Precedes
<1> QED BY <1>3, <1>4

\* The first elements decide between tuples when they differ.
LEMMA FirstFollows ==
    ASSUME NEW a \in Int, NEW b \in Int, NEW c \in Int, NEW d \in Int,
           NEW e \in Int, NEW f \in Int, NEW g \in Int, NEW h \in Int, a < e
    PROVE  Precedes(<<a, b, c, d>>, <<e, f, g, h>>)
BY DEF Precedes

\* It also does when one of them is across the page.
LEMMA AcrossFollow ==
    ASSUME NEW s, NEW i, NEW j, Spanning(s, i) \/ Spanning(s, j),
           Cardinality(Above(s, i)) \in Nat, Cardinality(Above(s, j)) \in Nat,
           Cardinality(SpansBefore(s, i)) \in Nat, Cardinality(SpansBefore(s, j)) \in Nat,
           s[i].box[1] \in Int, s[i].box[2] \in Int, s[j].box[1] \in Int, s[j].box[2] \in Int,
           Spanning(s, i) /\ Spanning(s, j) =>
               Cardinality(SpansBefore(s, j)) < Cardinality(SpansBefore(s, i)),
           Spanning(s, i) /\ ~Spanning(s, j) =>
               Cardinality(Above(s, j)) <= Cardinality(SpansBefore(s, i)),
           ~Spanning(s, i) /\ Spanning(s, j) =>
               Cardinality(SpansBefore(s, j)) < Cardinality(Above(s, i))
    PROVE  Precedes(ColumnKey(s, j), ColumnKey(s, i))
<1> DEFINE a(k) == 2 * Cardinality(SpansBefore(s, k)) + 1
           b(k) == 2 * Cardinality(Above(s, k))
           c(k) == IF OnTheLeft(s, k) THEN 0 ELSE 1
<1>1. /\ a(i) \in Int /\ a(j) \in Int /\ b(i) \in Int /\ b(j) \in Int
      /\ c(i) \in Int /\ c(j) \in Int /\ 0 \in Int
  OBVIOUS
<1>2. /\ Spanning(s, i) => ColumnKey(s, i) = <<a(i), 0, 0, 0>>
      /\ ~Spanning(s, i) => ColumnKey(s, i) = <<b(i), c(i), s[i].box[2], s[i].box[1]>>
      /\ Spanning(s, j) => ColumnKey(s, j) = <<a(j), 0, 0, 0>>
      /\ ~Spanning(s, j) => ColumnKey(s, j) = <<b(j), c(j), s[j].box[2], s[j].box[1]>>
  BY DEF ColumnKey
<1>3. /\ Spanning(s, i) /\ Spanning(s, j) => a(j) < a(i)
      /\ Spanning(s, i) /\ ~Spanning(s, j) => b(j) < a(i)
      /\ ~Spanning(s, i) /\ Spanning(s, j) => a(j) < b(i)
  OBVIOUS
<1> HIDE DEF a, b, c
<1>4. ASSUME Spanning(s, i), Spanning(s, j)
      PROVE  Precedes(<<a(j), 0, 0, 0>>, <<a(i), 0, 0, 0>>)
  BY <1>1, <1>3, <1>4, FirstFollows
<1>5. ASSUME Spanning(s, i), ~Spanning(s, j)
      PROVE  Precedes(<<b(j), c(j), s[j].box[2], s[j].box[1]>>, <<a(i), 0, 0, 0>>)
  BY <1>1, <1>3, <1>5, FirstFollows
<1>6. ASSUME ~Spanning(s, i), Spanning(s, j)
      PROVE  Precedes(<<a(j), 0, 0, 0>>, <<b(i), c(i), s[i].box[2], s[i].box[1]>>)
  BY <1>1, <1>3, <1>6, FirstFollows
<1> QED BY <1>2, <1>4, <1>5, <1>6

\* What a reader reads first comes first.
LEMMA KeysFollowReading ==
    ASSUME NEW n \in Nat, NEW s, Boxed(s, n), SpansApart(s),
           NEW i \in 1..n, NEW j \in 1..n, ReadBefore(s, j, i)
    PROVE  Precedes(ReadingKey(s, j), ReadingKey(s, i))
<1>1. /\ s[i].box[1] \in Int /\ s[i].box[2] \in Int /\ s[i].box[4] \in Int
      /\ s[j].box[1] \in Int /\ s[j].box[2] \in Int /\ s[j].box[4] \in Int
      /\ s[i].box[2] < s[i].box[4] /\ s[j].box[2] < s[j].box[4]
  BY DEF Boxed, Box
<1>2. /\ Cardinality(SpansBefore(s, i)) \in Nat /\ Cardinality(SpansBefore(s, j)) \in Nat
      /\ Cardinality(Above(s, i)) \in Nat /\ Cardinality(Above(s, j)) \in Nat
  BY KeyTypes
<1>3. CASE ~TwoColumns(s)
  <2>1. s[j].box[4] <= s[i].box[2]
    BY <1>3 DEF ReadBefore
  <2>2. s[j].box[2] < s[i].box[2]
    BY <1>1, <2>1
  <2>3. Precedes(TopLeft(s[j].box), TopLeft(s[i].box))
    BY <1>1, <2>2, PrecedesPair DEF TopLeft
  <2> QED BY <1>3, <2>3 DEF ReadingKey
<1>4. CASE TwoColumns(s) /\ s[j].box[4] <= s[i].box[2] /\ (Spanning(s, i) \/ Spanning(s, j))
  <2>1. Precedes(ColumnKey(s, j), ColumnKey(s, i))
    BY <1>1, <1>2, <1>4, BandsFollow, AcrossFollow
  <2> QED BY <1>4, <2>1 DEF ReadingKey
<1>5. CASE /\ TwoColumns(s) /\ s[j].box[4] <= s[i].box[2]
           /\ ~Spanning(s, i) /\ ~Spanning(s, j) /\ (OnTheLeft(s, i) <=> OnTheLeft(s, j))
  <2>1. Cardinality(Above(s, j)) <= Cardinality(Above(s, i))
    BY <1>5, BandsFollow
  <2>2. s[j].box[2] < s[i].box[2]
    BY <1>1, <1>5
  <2>3. \/ Cardinality(Above(s, j)) < Cardinality(Above(s, i))
        \/ Cardinality(Above(s, j)) = Cardinality(Above(s, i))
    BY <1>2, <2>1
  <2>4. Precedes(ColumnKey(s, j), ColumnKey(s, i))
    BY <1>1, <1>2, <1>5, <2>2, <2>3, ColumnsFollow
  <2> QED BY <1>5, <2>4 DEF ReadingKey
<1>6. CASE TwoColumns(s) /\ ~Spanning(s, i) /\ ~Spanning(s, j)
           /\ OnTheLeft(s, j) /\ ~OnTheLeft(s, i) /\ SameBand(s, j, i)
  <2>1. Above(s, i) = Above(s, j)
    <3>1. \A k \in 1..n : s[k].box[4] \in Int
      BY DEF Boxed, Box
    <3> DEFINE a == s[i].box[2] + s[i].box[4]
               b == s[j].box[2] + s[j].box[4]
    <3>2. a \in Int /\ b \in Int /\ Middle(s[i].box) = a /\ Middle(s[j].box) = b
      BY <1>1 DEF Middle
    <3>3. \A k \in 1..n : Spanning(s, k) =>
              /\ ~(a < 2 * s[k].box[4] /\ 2 * s[k].box[4] <= b)
              /\ ~(b < 2 * s[k].box[4] /\ 2 * s[k].box[4] <= a)
      BY <1>6, <3>2 DEF SameBand, Boxed
    <3>4. \A k \in 1..n : Spanning(s, k) => (2 * s[k].box[4] <= a <=> 2 * s[k].box[4] <= b)
      <4> HIDE DEF a, b
      <4> QED BY <3>1, <3>2, <3>3
    <3> QED BY <3>4 DEF Above, Boxed
  <2>2. Precedes(ColumnKey(s, j), ColumnKey(s, i))
    BY <1>1, <1>2, <1>6, <2>1, ColumnsFollow
  <2> QED BY <1>6, <2>2 DEF ReadingKey
<1> QED BY <1>3, <1>4, <1>5, <1>6 DEF ReadBefore

-----------------------------------------------------------------------------
(* Numbered in reading order *)

InReadingOrder(t) ==
    SpansApart(t) => \A i, j \in DOMAIN t : i < j => ~ReadBefore(t, j, i)
\* A single block keeps the number it had.
Numbered(t, start) == Len(t) >= 2 => \A i \in DOMAIN t : t[i].order = start + i - 1
OnPageFrom(p, start) ==
    {t \in Seq(BlockOn(p)) : InReadingOrder(t) /\ Numbered(t, start)}

\* A reader orders two blocks in the same way however they are numbered.
LEMMA PermutedReading ==
    ASSUME NEW n \in Nat, n > 0, NEW s, NEW t, NEW p,
           Boxed(s, n), Boxed(t, n), Permuted(t, s, n, p)
    PROVE  /\ SpansApart(t) => SpansApart(s)
           /\ \A a, b \in 1..n : ReadBefore(t, a, b) => ReadBefore(s, p[a], p[b])
<1>1. /\ \A a \in 1..n : Spanning(t, a) <=> Spanning(s, p[a])
      /\ \A a \in 1..n : OnTheLeft(t, a) <=> OnTheLeft(s, p[a])
      /\ TwoColumns(t) <=> TwoColumns(s)
  BY PermutedPage
<1>2. \A a \in 1..n : p[a] \in 1..n /\ t[a].box = s[p[a]].box
  BY DEF Permuted
<1>3. \A i \in 1..n : \E a \in 1..n : p[a] = i
  BY DEF Permuted
<1>4. ASSUME SpansApart(t) PROVE SpansApart(s)
  <2> SUFFICES ASSUME NEW i \in 1..n, NEW j \in 1..n, Spanning(s, i), Spanning(s, j), i # j
               PROVE  OverlapY(s[i].box, s[j].box) = 0
    BY DEF SpansApart, Boxed
  <2>1. PICK a \in 1..n : p[a] = i
    BY <1>3
  <2>2. PICK b \in 1..n : p[b] = j
    BY <1>3
  <2>3. Spanning(t, a) /\ Spanning(t, b) /\ a # b
    BY <1>1, <2>1, <2>2
  <2>4. OverlapY(t[a].box, t[b].box) = 0
    BY <1>4, <2>3 DEF SpansApart, Boxed
  <2> QED BY <1>2, <2>1, <2>2, <2>4
<1>5. ASSUME NEW a \in 1..n, NEW b \in 1..n, SameBand(t, a, b) PROVE SameBand(s, p[a], p[b])
  <2> SUFFICES ASSUME NEW i \in 1..n, Spanning(s, i),
                      \/ /\ Middle(s[p[b]].box) < 2 * s[i].box[4]
                         /\ 2 * s[i].box[4] <= Middle(s[p[a]].box)
                      \/ /\ Middle(s[p[a]].box) < 2 * s[i].box[4]
                         /\ 2 * s[i].box[4] <= Middle(s[p[b]].box)
               PROVE  FALSE
    BY DEF SameBand, Boxed
  <2>1. PICK c \in 1..n : p[c] = i
    BY <1>3
  <2>2. Spanning(t, c) /\ t[c].box = s[i].box /\ t[a].box = s[p[a]].box /\ t[b].box = s[p[b]].box
    BY <1>1, <1>2, <2>1
  <2> QED BY <1>5, <2>2 DEF SameBand, Boxed
<1> QED BY <1>1, <1>2, <1>4, <1>5 DEF ReadBefore

\* Blocks get numbers, and stay in their order.
LEMMA OrderKept ==
    ASSUME NEW n \in Nat, n > 0, NEW s, NEW t, Boxed(s, n), Boxed(t, n),
           \A i \in 1..n : t[i].box = s[i].box, InReadingOrder(s)
    PROVE  InReadingOrder(t)
<1> DEFINE p == [i \in 1..n |-> i]
<1>1. Permuted(t, s, n, p) /\ \A i \in 1..n : p[i] = i
  BY DEF Permuted
<1> HIDE DEF p
<1>2. /\ SpansApart(t) => SpansApart(s)
      /\ \A a, b \in 1..n : ReadBefore(t, a, b) => ReadBefore(s, p[a], p[b])
  BY <1>1, PermutedReading
<1> QED BY <1>1, <1>2 DEF InReadingOrder, Boxed

\* Blocks that are sorted by their keys are in reading order.
LEMMA SortedReading ==
    ASSUME NEW n \in Nat, n > 0, NEW s, NEW t, NEW p, NEW key, Boxed(s, n), Boxed(t, n),
           Sorts(p, n, key), \A i \in 1..n : key[i] = ReadingKey(s, i),
           OrdersKeys(key, n), \A a \in 1..n : t[a].box = s[p[a]].box
    PROVE  InReadingOrder(t)
<1>1. \A a, b \in 1..n : a < b => ~Precedes(key[p[b]], key[p[a]])
  <2> SUFFICES ASSUME NEW a \in 1..n, NEW b \in 1..n, a < b, Precedes(key[p[b]], key[p[a]])
               PROVE  FALSE
    OBVIOUS
  <2>1. p[a] \in 1..n /\ p[b] \in 1..n
    BY DEF Sorts
  <2>2. Precedes(key[p[a]], key[p[b]]) \/ key[p[a]] = key[p[b]]
    BY DEF Sorts
  <2> QED BY <2>1, <2>2 DEF OrdersKeys
<1>2. \A a, b \in 1..n : p[a] = p[b] => a = b
  <2> SUFFICES ASSUME NEW a \in 1..n, NEW b \in 1..n, a < b PROVE p[a] # p[b]
    <3>1. \A a, b \in 1..n : a < b \/ b < a \/ a = b
      OBVIOUS
    <3> QED BY <3>1
  <2>1. p[a] \in 1..n /\ p[b] \in 1..n
    BY DEF Sorts
  <2>2. Precedes(key[p[a]], key[p[b]]) \/ p[a] < p[b]
    BY DEF Sorts
  <2> QED BY <2>1, <2>2 DEF OrdersKeys
<1>3. Permuted(t, s, n, p)
  BY <1>2 DEF Permuted, Sorts
<1>4. /\ SpansApart(t) => SpansApart(s)
      /\ \A a, b \in 1..n : ReadBefore(t, a, b) => ReadBefore(s, p[a], p[b])
  BY <1>3, PermutedReading
<1>5. ASSUME SpansApart(t), NEW a \in 1..n, NEW b \in 1..n, a < b, ReadBefore(t, b, a)
      PROVE  FALSE
  <2>1. p[a] \in 1..n /\ p[b] \in 1..n /\ SpansApart(s) /\ ReadBefore(s, p[b], p[a])
    BY <1>3, <1>4, <1>5 DEF Permuted
  <2>2. Precedes(ReadingKey(s, p[b]), ReadingKey(s, p[a]))
    BY <2>1, KeysFollowReading
  <2> QED BY <1>1, <1>5, <2>1, <2>2
<1> QED BY <1>5 DEF InReadingOrder, Boxed

\* Arrange sorts by the key of a page with columns, or by top and left.
LEMMA ArrangedInOrder ==
    ASSUME NEW n \in Nat, NEW s, Boxed(s, n)
    PROVE  \E key, p : /\ Sorts(p, n, key) /\ OrdersKeys(key, n)
                       /\ \A i \in 1..n : key[i] = ReadingKey(s, i)
                       /\ Arranged(s) = [a \in 1..n |-> s[p[a]]]
<1> DEFINE columns == TwoColumns(s)
           key == [i \in DOMAIN s |-> IF columns THEN ColumnKey(s, i) ELSE TopLeft(s[i].box)]
<1>1. Arranged(s) = SortBy(s, key)
  BY DEF Arranged
<1>2. DOMAIN s = 1..n
  BY DEF Boxed
<1>3. key = [i \in 1..n |-> key[i]] /\ \A i \in 1..n : key[i] = ReadingKey(s, i)
  BY <1>2 DEF ReadingKey
<1> HIDE DEF key
<1>4. OrdersKeys(key, n)
  <2>1. CASE TwoColumns(s)
    <3>1. \A i \in 1..n : key[i] \in [1..4 -> Int]
      BY <1>3, <2>1, KeyTypes
    <3> QED BY <3>1, TuplesOrdered
  <2>2. CASE ~TwoColumns(s)
    <3>1. \A i \in 1..n : key[i] \in [1..2 -> Int]
      BY <1>3, <2>2, KeyTypes
    <3> QED BY <3>1, TuplesOrdered
  <2> QED BY <2>1, <2>2
<1>5. SortedAs(SortBy(s, key), s, n, key)
  BY <1>2, <1>3, <1>4, SortBySorts
<1>6. PICK p : Sorts(p, n, key) /\ SortBy(s, key) = [a \in 1..n |-> s[p[a]]]
  BY <1>5 DEF SortedAs
<1>7. /\ Sorts(p, n, key) /\ OrdersKeys(key, n)
      /\ \A i \in 1..n : key[i] = ReadingKey(s, i)
      /\ Arranged(s) = [a \in 1..n |-> s[p[a]]]
  BY <1>1, <1>3, <1>4, <1>6
<1> QED BY <1>7

\* _order_detected_blocks numbers any blocks of the page in reading order.
LEMMA OrderDetectedOrders ==
    ASSUME NEW p, NEW s \in Seq(BlockOn(p)), NEW start \in Nat
    PROVE  OrderDetected(s, start) \in OnPageFrom(p, start)
<1> DEFINE n == Len(s)
<1>1. n \in Nat /\ DOMAIN s = 1..n /\ \A i \in 1..n : s[i] \in BlockOn(p)
  OBVIOUS
<1>2. Boxed(s, n)
  BY <1>1 DEF Boxed, BlockOn
<1>3. CASE n < 2
  <2>1. \A i, j \in 1..n : ~(i < j)
    BY <1>1, <1>3
  <2>2. OrderDetected(s, start) = s
    BY <1>3 DEF OrderDetected
  <2> QED BY <1>1, <1>3, <2>1, <2>2 DEF OnPageFrom, InReadingOrder, Numbered
<1>4. CASE n >= 2
  <2> HIDE DEF n
  <2>1. PICK key, q : /\ Sorts(q, n, key) /\ OrdersKeys(key, n)
                      /\ \A i \in 1..n : key[i] = ReadingKey(s, i)
                      /\ Arranged(s) = [a \in 1..n |-> s[q[a]]]
    BY <1>1, <1>2, ArrangedInOrder
  <2>2. \A a \in 1..n : q[a] \in 1..n
    BY <2>1 DEF Sorts
  <2>3. Evaluated(Arranged(s)) = Arranged(s)
    <3>1. Arranged(s) = [a \in 1..n |-> Arranged(s)[a]]
      BY <2>1
    <3> QED BY <1>1, <3>1, EvaluatedIsSame
  <2> DEFINE u == Arranged(s)
             t == [i \in DOMAIN u |-> [u[i] EXCEPT !.order = start + i - 1]]
  <2>4. OrderDetected(s, start) = t
    <3>1. OrderDetected(s, start) =
              LET v == Evaluated(Arranged(s))
              IN  [i \in DOMAIN v |-> [v[i] EXCEPT !.order = start + i - 1]]
      BY <1>1, <1>4 DEF OrderDetected, n
    <3> QED BY <2>3, <3>1
  <2>5. DOMAIN u = 1..n /\ \A a \in 1..n : u[a] = s[q[a]] /\ u[a] \in BlockOn(p)
    BY <1>1, <2>1, <2>2
  <2>6. t = [i \in 1..n |-> t[i]]
    BY <2>5
  <2>7. \A i \in 1..n : /\ t[i] \in BlockOn(p) /\ t[i].box = s[q[i]].box
                        /\ t[i].order = start + i - 1
    <3> TAKE i \in 1..n
    <3>1. t[i] = [u[i] EXCEPT !.order = start + i - 1]
      BY <2>5
    <3>2. start + i - 1 \in Int /\ u[i] \in BlockOn(p) /\ u[i] = s[q[i]]
      BY <1>1, <2>5
    <3> HIDE DEF t, u
    <3> QED BY <3>1, <3>2 DEF BlockOn
  <2> HIDE DEF t, u
  <2>8. t \in Seq(BlockOn(p)) /\ Len(t) = n
    BY <1>1, <2>6, <2>7, IsSequence
  <2>9. Boxed(t, n)
    BY <2>6, <2>7 DEF Boxed, BlockOn
  <2>10. InReadingOrder(t)
    BY <1>1, <1>2, <1>4, <2>1, <2>7, <2>9, SortedReading
  <2>11. Numbered(t, start)
    BY <2>7, <2>9 DEF Numbered, Boxed
  <2> QED BY <2>4, <2>8, <2>10, <2>11 DEF OnPageFrom
<1> QED BY <1>1, <1>3, <1>4

-----------------------------------------------------------------------------
(* Every correction leaves blocks of the page, numbered in reading order. *)

\* Deduplication and order of what was detected,
LEMMA ArrangeOrders ==
    ASSUME NEW p, NEW s \in Seq(BlockOn(p)), NEW start \in Nat
    PROVE  OrderDetected(Deduplicate(s), start) \in OnPageFrom(p, start)
BY DeduplicateType, OrderDetectedOrders

\* the blocks matched with text lines,
LEMMA ReconcileOrders ==
    ASSUME NEW p, NEW s \in Seq(BlockOn(p)), NEW boxes \in Seq(Box), NEW start \in Nat
    PROVE  Reconcile(s, boxes, p, start) \in OnPageFrom(p, start)
<1> DEFINE matched == FoldLeft(MatchLine, [blocks |-> s, left |-> <<>>], boxes)
           added == AddGroups(matched.blocks, GroupLines(matched.left), boxes, p, start)
<1>1. [blocks |-> s, left |-> <<>>] \in Matching(p)
  BY DEF Matching
<1>2. matched \in Matching(p)
  BY <1>1, MatchedType
<1>3. Reconcile(s, boxes, p, start) = OrderDetected(Deduplicate(added), start)
  BY DEF Reconcile
<1> HIDE DEF matched
<1>4. matched.blocks \in Seq(BlockOn(p)) /\ GroupLines(matched.left) \in Seq(Box)
  BY <1>2, GroupLinesType DEF Matching
<1>5. added \in Seq(BlockOn(p))
  BY <1>4, AddedType
<1> HIDE DEF added
<1> QED BY <1>3, <1>5, ArrangeOrders

\* and those made of the lines that no block covers.
LEMMA RecoverOrders ==
    ASSUME NEW p, NEW start \in Nat, NEW s \in OnPageFrom(p, start), NEW boxes \in Seq(Box)
    PROVE  RecoverUncovered(s, boxes, p, start) \in OnPageFrom(p, start)
<1> DEFINE keep == {k \in DOMAIN boxes : ~CoveredBy(s, boxes[k])}
           groups == GroupLines(Only(boxes, keep))
           made == [k \in DOMAIN groups |-> NewText(p, groups[k], start + Len(s) + k - 1)]
<1>1. s \in Seq(BlockOn(p))
  BY DEF OnPageFrom
<1>2. groups \in Seq(Box)
  <2>1. keep \in SUBSET DOMAIN boxes
    OBVIOUS
  <2> HIDE DEF keep
  <2>2. Only(boxes, keep) \in Seq(Box)
    BY <2>1, OnlyType
  <2> QED BY <2>2, GroupLinesType
<1>3. RecoverUncovered(s, boxes, p, start) =
          IF groups = <<>> THEN s ELSE OrderDetected(s \o made, start)
  BY DEF RecoverUncovered
<1> HIDE DEF groups
<1>4. made \in Seq(BlockOn(p))
  <2>1. \A k \in DOMAIN groups : made[k] \in BlockOn(p)
    <3> TAKE k \in DOMAIN groups
    <3>1. groups[k] \in Box /\ start + Len(s) + k - 1 \in Int
      BY <1>1, <1>2
    <3> QED BY <3>1, NewTextType
  <2>2. /\ made = [k \in 1..Len(groups) |-> made[k]] /\ Len(groups) \in Nat
        /\ DOMAIN groups = 1..Len(groups)
    BY <1>2
  <2> HIDE DEF made
  <2> QED BY <2>1, <2>2, IsSequence
<1> HIDE DEF made
<1>5. s \o made \in Seq(BlockOn(p))
  BY <1>1, <1>4
<1> QED BY <1>3, <1>5, OrderDetectedOrders

\* FlattenSeq is a recursive function, too.
Flattens(f, n, seqs) ==
    f = [i \in 1..n |-> IF i = 1 THEN seqs[i] ELSE f[i - 1] \o seqs[i]]

\* The function exists, and FlattenSeq is its value for all indices.
LEMMA FlattenExists ==
    ASSUME NEW n \in Nat, NEW seqs
    PROVE  \E f : Flattens(f, n, seqs)
<1> DEFINE Ok == {m \in Nat : \E f : Flattens(f, m, seqs)}
<1>1. 0 \in Ok
  <2> DEFINE f == [i \in 1..0 |-> seqs]
  <2>1. Flattens(f, 0, seqs)
    <3>1. \A i \in 1..0 : FALSE
      OBVIOUS
    <3> QED BY <3>1 DEF Flattens
  <2> QED BY <2>1
<1>2. ASSUME NEW m \in Nat, m \in Ok PROVE m + 1 \in Ok
  <2>1. PICK f : Flattens(f, m, seqs)
    BY <1>2
  <2> DEFINE last == IF m = 0 THEN seqs[m + 1] ELSE f[m] \o seqs[m + 1]
             g == [i \in 1..(m + 1) |-> IF i = m + 1 THEN last ELSE f[i]]
  <2>2. \A i \in 1..m : f[i] = IF i = 1 THEN seqs[i] ELSE f[i - 1] \o seqs[i]
    BY <2>1 DEF Flattens
  <2>3. g[m + 1] = last /\ \A i \in 1..m : g[i] = f[i]
    <3>1. m + 1 \in 1..(m + 1) /\ \A i \in 1..m : i \in 1..(m + 1) /\ i # m + 1
      OBVIOUS
    <3> HIDE DEF last
    <3> QED BY <3>1
  <2>4. \A i \in 1..(m + 1) : g[i] = IF i = 1 THEN seqs[i] ELSE g[i - 1] \o seqs[i]
    <3> SUFFICES ASSUME NEW i \in 1..(m + 1)
                 PROVE  g[i] = IF i = 1 THEN seqs[i] ELSE g[i - 1] \o seqs[i]
      OBVIOUS
    <3>1. CASE i = m + 1
      <4>1. m # 0 => g[m] = f[m]
        BY <2>3
      <4> HIDE DEF g
      <4> QED BY <2>3, <3>1, <4>1
    <3>2. CASE i \in 1..m
      <4>1. i # 1 => i - 1 \in 1..m
        BY <3>2
      <4> HIDE DEF g
      <4> QED BY <2>2, <2>3, <3>2, <4>1
    <3> QED BY <3>1, <3>2
  <2>5. g = [i \in 1..(m + 1) |-> g[i]]
    OBVIOUS
  <2> HIDE DEF g
  <2>6. Flattens(g, m + 1, seqs)
    BY <2>4, <2>5 DEF Flattens
  <2> QED BY <2>6
<1>3. n \in Ok
  <2> HIDE DEF Ok
  <2> QED BY <1>1, <1>2, Induction
<1> QED BY <1>3

\* what FlattenSeq is made of
FlattenedBy(f, n, seqs) ==
    /\ FlattenSeq(seqs) = f[n]
    /\ \A i \in 1..n : f[i] = IF i = 1 THEN seqs[i] ELSE f[i - 1] \o seqs[i]

\* FlattenSeq puts one sequence after the other.
LEMMA FlattenSteps ==
    ASSUME NEW n \in Nat \ {0}, NEW seqs, Len(seqs) = n
    PROVE  \E f : FlattenedBy(f, n, seqs)
<1> DEFINE flatten == CHOOSE f : f = [i \in 1..Len(seqs) |->
                          IF i = 1 THEN seqs[i] ELSE f[i - 1] \o seqs[i]]
<1>1. FlattenSeq(seqs) = flatten[n]
  BY DEF FlattenSeq
<1>2. \E f : f = [i \in 1..Len(seqs) |->
                       IF i = 1 THEN seqs[i] ELSE f[i - 1] \o seqs[i]]
  BY FlattenExists DEF Flattens
<1>3. flatten = [i \in 1..Len(seqs) |->
                       IF i = 1 THEN seqs[i] ELSE flatten[i - 1] \o seqs[i]]
  BY <1>2
<1> HIDE DEF flatten
<1>4. \A i \in 1..n : flatten[i] = IF i = 1 THEN seqs[i] ELSE flatten[i - 1] \o seqs[i]
  BY <1>3
<1>5. FlattenedBy(flatten, n, seqs)
  BY <1>1, <1>4 DEF FlattenedBy
<1> QED BY <1>5

\* Sequences of the same set, one after the other, are one of that set.
LEMMA FlattenType ==
    ASSUME NEW B, NEW seqs \in Seq(Seq(B))
    PROVE  FlattenSeq(seqs) \in Seq(B)
<1> DEFINE n == Len(seqs)
<1>1. n \in Nat /\ \A i \in 1..n : seqs[i] \in Seq(B)
  OBVIOUS
<1>2. CASE n = 0
  BY <1>2 DEF FlattenSeq
<1>3. CASE n # 0
  <2>1. PICK f : FlattenedBy(f, n, seqs)
    BY <1>1, <1>3, FlattenSteps
  <2> DEFINE Ok == {m \in Nat : m \in 1..n => f[m] \in Seq(B)}
  <2> HIDE DEF n
  <2>2. 0 \in Ok
    OBVIOUS
  <2>3. ASSUME NEW m \in Nat, m \in Ok PROVE m + 1 \in Ok
    <3>1. SUFFICES ASSUME m + 1 \in 1..n PROVE f[m + 1] \in Seq(B)
      OBVIOUS
    <3>2. CASE m = 0
      BY <1>1, <2>1, <3>1, <3>2 DEF FlattenedBy
    <3>3. CASE m # 0
      <4>1. m \in 1..n /\ f[m] \in Seq(B) /\ seqs[m + 1] \in Seq(B)
        BY <1>1, <2>3, <3>1, <3>3
      <4>2. f[m + 1] = f[m] \o seqs[m + 1]
        <5>1. (m + 1) - 1 = m /\ m + 1 # 1
          BY <3>3
        <5> QED BY <2>1, <3>1, <5>1 DEF FlattenedBy
      <4> QED BY <4>1, <4>2
    <3> QED BY <3>2, <3>3
  <2>4. n \in Ok
    <3> HIDE DEF Ok
    <3> QED BY <1>1, <2>2, <2>3, Induction
  <2>5. FlattenSeq(seqs) = f[n]
    BY <2>1 DEF FlattenedBy
  <2> QED BY <1>1, <1>3, <2>4, <2>5
<1> QED BY <1>2, <1>3

\* The parts that all blocks are split into are blocks of the page.
LEMMA SplitType ==
    ASSUME NEW B, NEW n \in Nat, NEW parts, parts = [i \in 1..n |-> parts[i]],
           \A i \in 1..n : parts[i] \in Seq(B)
    PROVE  FlattenSeq(parts) \in Seq(B)
<1>1. parts \in Seq(Seq(B))
  BY IsSequence
<1> QED BY <1>1, FlattenType

\* The lines of a block, from the top down, are boxes.
LEMMA RegionType ==
    ASSUME NEW b, NEW boxes \in Seq(Box)
    PROVE  RegionLines(b, boxes) \in Seq(Box)
<1> DEFINE keep == {k \in DOMAIN boxes : Inside(boxes[k], b.box, LineOverlap)}
<1>1. keep \in SUBSET DOMAIN boxes
  OBVIOUS
<1>2. RegionLines(b, boxes) = FromTop(Only(boxes, keep))
  BY DEF RegionLines
<1> HIDE DEF keep
<1> QED BY <1>1, <1>2, OnlyType, SortedBoxes

\* The heading of a region is a box, and so is what encloses its other lines.
LEMMA BodyType ==
    ASSUME NEW region \in Seq(Box), Len(region) >= 2
    PROVE  region[1] \in Box /\ Hull(Tail(region)) \in Box
<1> DEFINE body == Tail(region)
<1>1. body \in Seq(Box) /\ Len(body) >= 1 /\ region[1] \in Box
  OBVIOUS
<1> HIDE DEF body
<1>2. body[1] \in Box /\ Tail(body) \in Seq(Box)
  BY <1>1
<1>3. Hull(body) \in Box
  BY <1>1, <1>2, HullFold DEF Hull
<1> QED BY <1>1, <1>3 DEF body

\* A block with a heading in it is split into blocks of the page,
LEMMA SplitMergedBlockType ==
    ASSUME NEW p, NEW s \in Seq(BlockOn(p)), NEW i \in DOMAIN s, NEW boxes \in Seq(Box)
    PROVE  SplitMergedBlock(s, i, boxes) \in Seq(BlockOn(p))
<1> DEFINE b == s[i]
           region == RegionLines(b, boxes)
           body == Hull(Tail(region))
           known == \E j \in DOMAIN s \ {i} :
                       s[j].type = "section_header" /\ Inside(region[1], s[j].box, LineOverlap)
           heading == [b EXCEPT !.type = "section_header", !.box = region[1]]
           below == [b EXCEPT !.type = "text", !.box = body, !.order = @ + 1]
           rest == [b EXCEPT !.box = body]
<1>1. b \in BlockOn(p) /\ region \in Seq(Box)
  BY RegionType
<1>2. SplitMergedBlock(s, i, boxes) =
          IF b.type \notin {"abstract", "section_header"} \/ ~LooksMerged(region) THEN <<b>>
          ELSE IF b.type = "section_header" THEN <<heading, below>>
          ELSE IF known THEN <<rest>> ELSE <<heading, rest>>
  BY DEF SplitMergedBlock
<1> HIDE DEF b, region, known
<1>3. ASSUME LooksMerged(region)
      PROVE  heading \in BlockOn(p) /\ below \in BlockOn(p) /\ rest \in BlockOn(p)
  <2>1. Len(region) >= 2
    BY <1>1, <1>3 DEF LooksMerged, MinBodyLines
  <2>2. region[1] \in Box /\ body \in Box
    BY <1>1, <2>1, BodyType
  <2> HIDE DEF body
  <2>3. "section_header" \in BlockTypes /\ "text" \in BlockTypes
    BY DEF BlockTypes
  <2>4. b.order + 1 \in Int
    BY <1>1 DEF BlockOn
  <2> QED BY <1>1, <2>2, <2>3, <2>4 DEF BlockOn
<1> HIDE DEF heading, below, rest
<1> QED BY <1>1, <1>2, <1>3

\* which are ordered again.
LEMMA SplitMergedOrders ==
    ASSUME NEW p, NEW start \in Nat, NEW s \in OnPageFrom(p, start), NEW boxes \in Seq(Box)
    PROVE  SplitMerged(s, boxes, start) \in OnPageFrom(p, start)
<1> DEFINE parts == [i \in DOMAIN s |-> SplitMergedBlock(s, i, boxes)]
<1>1. s \in Seq(BlockOn(p)) /\ Len(s) \in Nat /\ DOMAIN s = 1..Len(s)
  BY DEF OnPageFrom
<1>2. parts = [i \in 1..Len(s) |-> parts[i]] /\ \A i \in 1..Len(s) : parts[i] \in Seq(BlockOn(p))
  BY <1>1, SplitMergedBlockType
<1>3. SplitMerged(s, boxes, start) =
          IF boxes = <<>> THEN s ELSE OrderDetected(FlattenSeq(parts), start)
  BY DEF SplitMerged
<1> HIDE DEF parts
<1>4. FlattenSeq(parts) \in Seq(BlockOn(p))
  BY <1>1, <1>2, SplitType
<1> QED BY <1>3, <1>4, OrderDetectedOrders

\* The lines of a text block that may start with a heading are boxes.
LEMMA InlineRegionType ==
    ASSUME NEW b, NEW p, NEW boxes \in Seq(Box)
    PROVE  InlineRegion(b, boxes, p) \in Seq(Box)
BY RegionType DEF InlineRegion

\* A heading inside a line is split off into a block of the page,
LEMMA SplitInlineBlockType ==
    ASSUME NEW p, NEW b \in BlockOn(p), NEW boxes \in Seq(Box),
           NEW C, NEW readings \in [C -> Readings]
    PROVE  SplitInlineBlock(b, boxes, p, readings) \in Seq(BlockOn(p))
<1> DEFINE region == InlineRegion(b, boxes, p)
           line == region[1]
           reading == IF line \in DOMAIN readings THEN readings[line] ELSE NoReading
           x == line[1] + (Width(line) * (reading.end + 1)) \div reading.length
           rest == [b EXCEPT !.type = "abstract", !.box = Hull(Tail(region))]
           whole == [[b EXCEPT !.type = "section_header"] EXCEPT !.box = line]
           heading == [[b EXCEPT !.type = "section_header"] EXCEPT
                          !.box = <<line[1], line[2], x, line[4]>>]
           first == [b EXCEPT !.type = "abstract", !.box = <<x, line[2], line[3], line[4]>>]
<1>1. region \in Seq(Box)
  BY InlineRegionType
<1>2. SplitInlineBlock(b, boxes, p, readings) =
          IF Len(region) < MinBodyLines + 1 THEN <<b>>
          ELSE IF reading.end = 0 \/ TooLong(reading) THEN <<b>>
          ELSE IF reading.length = reading.end THEN <<whole, rest>>
          ELSE <<heading, first, rest>>
  BY DEF SplitInlineBlock
<1>3. reading.end \in Nat /\ reading.length \in Nat /\ reading.end <= reading.length
  <2>1. reading \in Readings \/ reading = NoReading
    OBVIOUS
  <2> HIDE DEF reading
  <2> QED BY <2>1, ReadingsAssumption DEF NoReading
<1>4. ASSUME Len(region) >= MinBodyLines + 1
      PROVE  line \in Box /\ Hull(Tail(region)) \in Box
  <2>1. Len(region) >= 2
    BY <1>1, <1>4 DEF MinBodyLines
  <2> HIDE DEF region
  <2> QED BY <1>1, <2>1, BodyType
<1>5. ASSUME Len(region) >= MinBodyLines + 1, reading.end # 0
      PROVE  x \in Int
  <2>1. line[1] \in Int /\ line[3] \in Int
    BY <1>4, <1>5 DEF Box
  <2> HIDE DEF line, reading
  <2>2. Width(line) \in Int /\ reading.end + 1 \in Int /\ reading.length \in Nat \ {0}
    BY <1>3, <1>5, <2>1 DEF Width
  <2>3. (Width(line) * (reading.end + 1)) \div reading.length \in Int
    BY <2>2
  <2> QED BY <2>1, <2>3
<1>6. ASSUME Len(region) >= MinBodyLines + 1, reading.end # 0
      PROVE  /\ whole \in BlockOn(p) /\ heading \in BlockOn(p)
             /\ first \in BlockOn(p) /\ rest \in BlockOn(p)
  <2>1. line \in Box /\ Hull(Tail(region)) \in Box /\ x \in Int
    BY <1>4, <1>5, <1>6
  <2> HIDE DEF x, line
  <2>2. <<line[1], line[2], x, line[4]>> \in Box /\ <<x, line[2], line[3], line[4]>> \in Box
    BY <2>1 DEF Box
  <2> QED BY <2>1, <2>2 DEF BlockOn, BlockTypes
<1>7. Len(region) < MinBodyLines + 1 \/ Len(region) >= MinBodyLines + 1
  BY <1>1 DEF MinBodyLines
<1> HIDE DEF whole, heading, first, rest, region, reading
<1> QED BY <1>2, <1>6, <1>7

\* and the blocks are ordered again.
LEMMA SplitInlineOrders ==
    ASSUME NEW p, NEW start \in Nat, NEW s \in OnPageFrom(p, start), NEW boxes \in Seq(Box),
           NEW C, NEW readings \in [C -> Readings]
    PROVE  SplitInline(s, boxes, p, start, readings) \in OnPageFrom(p, start)
<1> DEFINE parts == [i \in DOMAIN s |-> SplitInlineBlock(s[i], boxes, p, readings)]
<1>1. s \in Seq(BlockOn(p)) /\ Len(s) \in Nat /\ DOMAIN s = 1..Len(s)
  BY DEF OnPageFrom
<1>2. parts = [i \in 1..Len(s) |-> parts[i]] /\ \A i \in 1..Len(s) : parts[i] \in Seq(BlockOn(p))
  BY <1>1, SplitInlineBlockType
<1>3. SplitInline(s, boxes, p, start, readings) =
          IF InlineCandidates(s, boxes, p) = {} THEN s
          ELSE OrderDetected(FlattenSeq(parts), start)
  BY DEF SplitInline
<1> HIDE DEF parts
<1>4. FlattenSeq(parts) \in Seq(BlockOn(p))
  BY <1>1, <1>2, SplitType
<1> QED BY <1>3, <1>4, OrderDetectedOrders

\* The blocks of s are somewhere in t, in the same places on the page.
KeepsPlaces(s, t) == \A i \in DOMAIN s : \E a \in DOMAIN t : t[a].box = s[i].box

\* Other types for the same boxes change nothing in their order.
LEMMA Retyped ==
    ASSUME NEW p, NEW start \in Nat, NEW s \in OnPageFrom(p, start), NEW t,
           t = [i \in DOMAIN s |-> t[i]],
           \A i \in DOMAIN s : \E type \in BlockTypes : t[i] = [s[i] EXCEPT !.type = type]
    PROVE  t \in OnPageFrom(p, start) /\ KeepsPlaces(s, t)
<1> DEFINE n == Len(s)
<1>1. s \in Seq(BlockOn(p)) /\ InReadingOrder(s) /\ Numbered(s, start)
  BY DEF OnPageFrom
<1>2. n \in Nat /\ DOMAIN s = 1..n /\ \A i \in 1..n : s[i] \in BlockOn(p)
  BY <1>1
<1>3. \A i \in 1..n : t[i] \in BlockOn(p) /\ t[i].box = s[i].box /\ t[i].order = s[i].order
  <2> TAKE i \in 1..n
  <2>1. PICK type \in BlockTypes : t[i] = [s[i] EXCEPT !.type = type]
    BY <1>2
  <2>2. s[i] \in BlockOn(p)
    BY <1>2
  <2> QED BY <2>1, <2>2 DEF BlockOn
<1>4. t = [i \in 1..n |-> t[i]] /\ (Len(s) >= 2 <=> n >= 2)
  BY <1>2
<1>5. Len(s) >= 2 => \A i \in 1..n : s[i].order = start + i - 1
  BY <1>1, <1>2 DEF Numbered
<1>6. Boxed(s, n)
  BY <1>2 DEF Boxed, BlockOn
<1> HIDE DEF n
<1>7. t \in Seq(BlockOn(p)) /\ Len(t) = n
  BY <1>2, <1>3, <1>4, IsSequence
<1>8. Boxed(t, n)
  BY <1>3, <1>4 DEF Boxed, BlockOn
<1>9. InReadingOrder(t)
  <2>1. CASE n = 0
    BY <1>8, <2>1 DEF InReadingOrder, Boxed
  <2>2. CASE n > 0
    BY <1>1, <1>2, <1>3, <1>6, <1>8, <2>2, OrderKept
  <2> QED BY <1>2, <2>1, <2>2
<1>10. Numbered(t, start)
  BY <1>3, <1>4, <1>5, <1>7, <1>8 DEF Numbered, Boxed
<1>11. KeepsPlaces(s, t)
  BY <1>2, <1>3, <1>8 DEF KeepsPlaces, Boxed
<1> QED BY <1>7, <1>9, <1>10, <1>11 DEF OnPageFrom

\* A block that gets another type is one of the page.
LEMMA SameType ==
    ASSUME NEW p, NEW b \in BlockOn(p)
    PROVE  b = [b EXCEPT !.type = b.type] /\ b.type \in BlockTypes
BY DEF BlockOn

\* A block becomes the title and keeps its place;
LEMMA TitleOrders ==
    ASSUME NEW p, NEW start \in Nat, NEW s \in OnPageFrom(p, start), NEW boxes
    PROVE  /\ RecoverTitle(s, boxes, p) \in OnPageFrom(p, start)
           /\ KeepsPlaces(s, RecoverTitle(s, boxes, p))
<1> DEFINE able == {i \in DOMAIN s : MayBeTitle(s, boxes, i)}
           best == {i \in able : \A j \in able :
                       Precedes(TitleKey(s[i]), TitleKey(s[j]))
                       \/ (TitleKey(s[i]) = TitleKey(s[j]) /\ i <= j)}
           t == [i \in DOMAIN s |-> IF i \in best THEN [s[i] EXCEPT !.type = "title"] ELSE s[i]]
<1>1. RecoverTitle(s, boxes, p) \in {s, t}
  BY DEF RecoverTitle
<1> HIDE DEF best
<1>2. ASSUME NEW i \in DOMAIN s
      PROVE  \E type \in BlockTypes : t[i] = [s[i] EXCEPT !.type = type]
  <2>1. s[i] \in BlockOn(p)
    BY DEF OnPageFrom
  <2>2. "title" \in BlockTypes
    BY DEF BlockTypes
  <2>3. t[i] = [s[i] EXCEPT !.type = "title"] \/ t[i] = [s[i] EXCEPT !.type = s[i].type]
    BY <2>1, SameType
  <2> HIDE DEF t
  <2> QED BY <2>1, <2>2, <2>3, SameType
<1>3. t = [i \in DOMAIN s |-> t[i]]
  OBVIOUS
<1> HIDE DEF t
<1>4. t \in OnPageFrom(p, start) /\ KeepsPlaces(s, t)
  BY <1>2, <1>3, Retyped
<1>5. KeepsPlaces(s, s)
  BY DEF KeepsPlaces
<1> QED BY <1>1, <1>4, <1>5

\* so do those that become authors.
LEMMA AuthorsOrders ==
    ASSUME NEW p, NEW start \in Nat, NEW s \in OnPageFrom(p, start)
    PROVE  RecoverAuthors(s) \in OnPageFrom(p, start) /\ KeepsPlaces(s, RecoverAuthors(s))
<1> DEFINE t == RecoverAuthors(s)
<1>1. t = [i \in DOMAIN s |-> IF s[i].order \in AuthorOrders(s) /\ s[i].type = "text"
                              THEN [s[i] EXCEPT !.type = "author"] ELSE s[i]]
  BY DEF RecoverAuthors
<1>2. ASSUME NEW i \in DOMAIN s
      PROVE  \E type \in BlockTypes : t[i] = [s[i] EXCEPT !.type = type]
  <2>1. s[i] \in BlockOn(p)
    BY DEF OnPageFrom
  <2>2. "author" \in BlockTypes
    BY DEF BlockTypes
  <2>3. t[i] = [s[i] EXCEPT !.type = "author"] \/ t[i] = [s[i] EXCEPT !.type = s[i].type]
    BY <1>1, <2>1, SameType
  <2> HIDE DEF t
  <2> QED BY <2>1, <2>2, <2>3, SameType
<1>3. t = [i \in DOMAIN s |-> t[i]]
  BY <1>1
<1> HIDE DEF t
<1>4. t \in OnPageFrom(p, start) /\ KeepsPlaces(s, t)
  BY <1>2, <1>3, Retyped
<1> QED BY <1>4 DEF t

-----------------------------------------------------------------------------
(* The corrections leave every line of the page in some block. *)

\* Sorting from the top down loses no box.
LEMMA FromTopKeeps ==
    ASSUME NEW boxes \in Seq(Box), NEW k \in DOMAIN boxes
    PROVE  \E a \in DOMAIN FromTop(boxes) : FromTop(boxes)[a] = boxes[k]
<1> DEFINE n == Len(boxes)
           key == [i \in DOMAIN boxes |-> TopLeft(boxes[i])]
           t == FromTop(boxes)
<1>1. n \in Nat /\ DOMAIN boxes = 1..n /\ k \in 1..n
  OBVIOUS
<1>2. \A i \in 1..n : key[i] \in [1..2 -> Int]
  <2> SUFFICES ASSUME NEW i \in 1..n PROVE key[i] \in [1..2 -> Int]
    OBVIOUS
  <2>1. boxes[i][1] \in Int /\ boxes[i][2] \in Int /\ key[i] = <<boxes[i][2], boxes[i][1]>>
    <3>1. boxes[i] \in Box
      BY <1>1
    <3> QED BY <1>1, <3>1 DEF Box, TopLeft
  <2> QED BY <2>1, PairTuple
<1>3. key = [i \in 1..n |-> key[i]]
  BY <1>1
<1> HIDE DEF n, key
<1>4. OrdersKeys(key, n)
  BY <1>1, <1>2, TuplesOrdered
<1>5. SortedAs(SortBy(boxes, key), boxes, n, key)
  BY <1>1, <1>3, <1>4, SortBySorts
<1>6. SortedAs(t, boxes, n, key)
  BY <1>5 DEF key, FromTop
<1> HIDE DEF t
<1>7. PICK p : Sorts(p, n, key) /\ t = [a \in 1..n |-> boxes[p[a]]]
  BY <1>6 DEF SortedAs
<1>8. PICK a \in 1..n : p[a] = k
  BY <1>1, <1>7 DEF Sorts
<1>9. a \in DOMAIN t /\ t[a] = boxes[k]
  BY <1>7, <1>8
<1> QED BY <1>9 DEF t

\* Every line is in the box of a group.
LEMMA GroupLinesHold ==
    ASSUME NEW boxes \in Seq(Box), NEW k \in DOMAIN boxes
    PROVE  Holds(GroupLines(boxes), boxes[k])
<1> DEFINE t == FromTop(boxes)
           h == LineHeight2(boxes)
<1>1. t \in Seq(Box)
  BY SortedBoxes
<1>2. PICK a \in DOMAIN t : t[a] = boxes[k]
  BY FromTopKeeps
<1> HIDE DEF t, h
<1>3. /\ JoinGroups(t, h) \in Seq(Box)
      /\ \A i \in DOMAIN t : Holds(JoinGroups(t, h), t[i])
  BY <1>1, JoinedType
<1>4. Holds(JoinGroups(t, h), boxes[k])
  BY <1>2, <1>3
<1> QED BY <1>4 DEF GroupLines, t, h

LEMMA OrderKeepsPlaces ==
    ASSUME NEW p, NEW s \in Seq(BlockOn(p)), NEW start \in Nat
    PROVE  KeepsPlaces(s, OrderDetected(s, start))
<1> DEFINE n == Len(s)
<1>1. n \in Nat /\ DOMAIN s = 1..n /\ \A i \in 1..n : s[i] \in BlockOn(p)
  OBVIOUS
<1>2. Boxed(s, n)
  BY <1>1 DEF Boxed, BlockOn
<1>3. CASE n < 2
  BY <1>3 DEF OrderDetected, KeepsPlaces
<1>4. CASE n >= 2
  <2> HIDE DEF n
  <2>1. PICK key, q : /\ Sorts(q, n, key) /\ OrdersKeys(key, n)
                      /\ \A i \in 1..n : key[i] = ReadingKey(s, i)
                      /\ Arranged(s) = [a \in 1..n |-> s[q[a]]]
    BY <1>1, <1>2, ArrangedInOrder
  <2>2. \A a \in 1..n : q[a] \in 1..n
    BY <2>1 DEF Sorts
  <2>3. Evaluated(Arranged(s)) = Arranged(s)
    <3>1. Arranged(s) = [a \in 1..n |-> Arranged(s)[a]]
      BY <2>1
    <3> QED BY <1>1, <3>1, EvaluatedIsSame
  <2> DEFINE u == Arranged(s)
             t == [i \in DOMAIN u |-> [u[i] EXCEPT !.order = start + i - 1]]
  <2>4. OrderDetected(s, start) = t
    <3>1. OrderDetected(s, start) =
              LET v == Evaluated(Arranged(s))
              IN  [i \in DOMAIN v |-> [v[i] EXCEPT !.order = start + i - 1]]
      BY <1>1, <1>4 DEF OrderDetected, n
    <3> QED BY <2>3, <3>1
  <2>5. DOMAIN u = 1..n /\ \A a \in 1..n : u[a] = s[q[a]] /\ u[a] \in BlockOn(p)
    BY <1>1, <2>1, <2>2
  <2>6. DOMAIN t = 1..n /\ \A a \in 1..n : t[a].box = s[q[a]].box
    <3>1. \A a \in 1..n : t[a] = [u[a] EXCEPT !.order = start + a - 1]
      BY <2>5
    <3>2. DOMAIN t = 1..n
      BY <2>5
    <3> HIDE DEF t, u
    <3> QED BY <2>5, <3>1, <3>2 DEF BlockOn
  <2> HIDE DEF t, u
  <2>7. ASSUME NEW i \in 1..n PROVE \E a \in DOMAIN t : t[a].box = s[i].box
    <3>1. PICK a \in 1..n : q[a] = i
      BY <2>1 DEF Sorts
    <3> QED BY <2>6, <3>1
  <2> QED BY <1>1, <2>4, <2>7 DEF KeepsPlaces
<1> QED BY <1>1, <1>3, <1>4

\* What is covered stays covered when blocks keep their places.
LEMMA CoveredStays ==
    ASSUME NEW s, NEW t, KeepsPlaces(s, t), NEW line, CoveredBy(s, line)
    PROVE  CoveredBy(t, line)
BY DEF KeepsPlaces, CoveredBy

\* After the recovery of text, every line is in some block.
LEMMA RecoverCovers ==
    ASSUME NEW p, NEW start \in Nat, NEW s \in OnPageFrom(p, start), NEW boxes \in Seq(Line)
    PROVE  \A k \in DOMAIN boxes : CoveredBy(RecoverUncovered(s, boxes, p, start), boxes[k])
<1> DEFINE keep == {k \in DOMAIN boxes : ~CoveredBy(s, boxes[k])}
           rest == Only(boxes, keep)
           groups == GroupLines(rest)
           made == [k \in DOMAIN groups |-> NewText(p, groups[k], start + Len(s) + k - 1)]
           t == RecoverUncovered(s, boxes, p, start)
<1>1. /\ s \in Seq(BlockOn(p)) /\ boxes \in Seq(Box)
      /\ Len(boxes) \in Nat /\ DOMAIN boxes = 1..Len(boxes)
  <2>1. Line \subseteq Box
    BY DEF Line
  <2>2. boxes \in Seq(Box)
    BY <2>1
  <2> QED BY <2>2 DEF OnPageFrom
<1>2. keep \in SUBSET DOMAIN boxes
  OBVIOUS
<1>3. t = IF groups = <<>> THEN s ELSE OrderDetected(s \o made, start)
  BY DEF RecoverUncovered
<1>4. rest \in Seq(Box)
  <2> HIDE DEF keep
  <2> QED BY <1>1, <1>2, OnlyType
<1>5. groups \in Seq(Box)
  <2> HIDE DEF rest
  <2> QED BY <1>4, GroupLinesType
<1>6. \A k \in keep : Holds(groups, boxes[k])
  <2> TAKE k \in keep
  <2> HIDE DEF keep
  <2>1. Selects(rest, boxes, keep)
    BY <1>1, <1>2, OnlyKeeps
  <2> HIDE DEF rest
  <2>2. PICK a \in 1..Cardinality(keep) : rest[a] = boxes[k]
    BY <2>1 DEF Selects
  <2>3. a \in DOMAIN rest
    BY <2>1 DEF Selects
  <2>4. Holds(groups, rest[a])
    BY <1>4, <2>3, GroupLinesHold
  <2> QED BY <2>2, <2>4
<1>7. \A k \in DOMAIN boxes : k \notin keep => CoveredBy(s, boxes[k])
  OBVIOUS
<1> HIDE DEF keep, rest, groups
<1>8. DOMAIN made = DOMAIN groups /\ \A g \in DOMAIN groups : made[g].box = groups[g]
  BY DEF NewText
<1>9. made \in Seq(BlockOn(p))
  <2>1. \A k \in DOMAIN groups : made[k] \in BlockOn(p)
    <3> TAKE k \in DOMAIN groups
    <3>1. groups[k] \in Box /\ start + Len(s) + k - 1 \in Int
      BY <1>1, <1>5
    <3> QED BY <3>1, NewTextType
  <2>2. /\ made = [k \in 1..Len(groups) |-> made[k]] /\ Len(groups) \in Nat
        /\ DOMAIN groups = 1..Len(groups)
    BY <1>5
  <2> HIDE DEF made
  <2> QED BY <2>1, <2>2, IsSequence
<1> HIDE DEF made
<1>10. /\ s \o made \in Seq(BlockOn(p))
       /\ KeepsPlaces(s, s \o made) /\ KeepsPlaces(made, s \o made)
  <2>1. /\ DOMAIN s = 1..Len(s) /\ DOMAIN made = 1..Len(made) /\ Len(s) \in Nat /\ Len(made) \in Nat
        /\ s \o made \in Seq(BlockOn(p)) /\ DOMAIN (s \o made) = 1..(Len(s) + Len(made))
        /\ \A i \in 1..Len(s) : (s \o made)[i] = s[i]
        /\ \A i \in 1..Len(made) : (s \o made)[Len(s) + i] = made[i]
    BY <1>1, <1>9
  <2>2. \A i \in 1..Len(s) : i \in DOMAIN (s \o made)
    BY <2>1
  <2>3. \A i \in 1..Len(made) : Len(s) + i \in DOMAIN (s \o made)
    BY <2>1
  <2> QED BY <2>1, <2>2, <2>3 DEF KeepsPlaces
<1> DEFINE all == s \o made
<1> HIDE DEF all
<1>11. KeepsPlaces(all, OrderDetected(all, start))
  BY <1>10, OrderKeepsPlaces DEF all
<1>12. ASSUME NEW k \in DOMAIN boxes PROVE CoveredBy(t, boxes[k])
  <2>1. CASE groups = <<>>
    <3>1. DOMAIN groups = {}
      BY <2>1
    <3>2. k \notin keep
      BY <1>6, <3>1 DEF Holds
    <3> QED BY <1>3, <1>7, <2>1, <3>2
  <2>2. CASE groups # <<>>
    <3>1. t = OrderDetected(all, start)
      BY <1>3, <2>2 DEF all
    <3>2. CoveredBy(all, boxes[k])
      <4>1. CASE k \in keep
        <5>1. PICK g \in DOMAIN groups : Encloses(groups[g], boxes[k])
          BY <1>6, <4>1 DEF Holds
        <5>2. boxes[k] \in Line /\ groups[g] \in Box
          BY <1>5
        <5>3. Inside(boxes[k], made[g].box, TextCoverage)
          BY <1>8, <5>1, <5>2, EnclosedInside
        <5>4. CoveredBy(made, boxes[k])
          BY <1>8, <5>3 DEF CoveredBy
        <5> QED BY <1>10, <5>4, CoveredStays DEF all
      <4>2. CASE k \notin keep
        BY <1>7, <1>10, <4>2, CoveredStays DEF all
      <4> QED BY <4>1, <4>2
    <3> HIDE DEF t
    <3> QED BY <1>11, <3>1, <3>2, CoveredStays
  <2> QED BY <2>1, <2>2
<1> QED BY <1>12

\* So coverage is counted as complete.
LEMMA FinallyAll ==
    ASSUME NEW s, NEW boxes, Len(boxes) \in Nat, DOMAIN boxes = 1..Len(boxes),
           \A k \in DOMAIN boxes : CoveredBy(s, boxes[k])
    PROVE  FinallyCovered(s, boxes) = Len(boxes)
<1>1. {i \in DOMAIN boxes : CoveredBy(s, boxes[i])} = 1..Len(boxes)
  OBVIOUS
<1>2. Cardinality(1..Len(boxes)) = Len(boxes)
  BY FS_Interval
<1> QED BY <1>1, <1>2 DEF FinallyCovered

\* Sequences one after the other make a sequence, and lose nothing.
LEMMA FlattenKeeps ==
    ASSUME NEW B, NEW n \in Nat, NEW parts, parts = [i \in 1..n |-> parts[i]],
           \A i \in 1..n : parts[i] \in Seq(B)
    PROVE  \A i \in 1..n : KeepsPlaces(parts[i], FlattenSeq(parts))
<1>1. parts \in Seq(Seq(B)) /\ Len(parts) = n
  BY IsSequence
<1>2. SUFFICES ASSUME n # 0 PROVE \A i \in 1..n : KeepsPlaces(parts[i], FlattenSeq(parts))
  OBVIOUS
<1>3. PICK f : FlattenedBy(f, n, parts)
  BY <1>1, <1>2, FlattenSteps
<1> DEFINE Ok == {m \in Nat : m \in 1..n =>
                      f[m] \in Seq(B) /\ \A i \in 1..m : KeepsPlaces(parts[i], f[m])}
<1>4. 0 \in Ok
  OBVIOUS
<1>5. ASSUME NEW m \in Nat, m \in Ok PROVE m + 1 \in Ok
  <2>0. m + 1 \in Nat
    OBVIOUS
  <2>1. SUFFICES ASSUME m + 1 \in 1..n
                 PROVE  f[m + 1] \in Seq(B) /\ \A i \in 1..(m + 1) : KeepsPlaces(parts[i], f[m + 1])
    BY <2>0
  <2>2. f[m + 1] = IF m + 1 = 1 THEN parts[m + 1] ELSE f[(m + 1) - 1] \o parts[m + 1]
    BY <1>3, <2>1 DEF FlattenedBy
  <2>3. CASE m = 0
    <3>1. f[m + 1] = parts[m + 1] /\ \A i \in 1..(m + 1) : i = m + 1
      BY <2>2, <2>3
    <3>2. KeepsPlaces(parts[m + 1], f[m + 1])
      BY <3>1 DEF KeepsPlaces
    <3> QED BY <2>1, <3>1, <3>2
  <2>4. CASE m # 0
    <3>1. m \in 1..n /\ (m + 1) - 1 = m /\ m + 1 # 1
      BY <2>1, <2>4
    <3>2. f[m] \in Seq(B) /\ parts[m + 1] \in Seq(B) /\ \A i \in 1..m : KeepsPlaces(parts[i], f[m])
      BY <1>5, <2>1, <3>1
    <3>3. f[m + 1] = f[m] \o parts[m + 1]
      BY <2>2, <3>1
    <3> DEFINE a == f[m]
               b == parts[m + 1]
               t == f[m + 1]
    <3>4. a \in Seq(B) /\ b \in Seq(B) /\ t = a \o b
      BY <3>2, <3>3
    <3> HIDE DEF a, b, t
    <3>5. /\ t \in Seq(B)
          /\ \A i \in DOMAIN a : i \in DOMAIN t /\ t[i] = a[i]
          /\ \A i \in DOMAIN b : Len(a) + i \in DOMAIN t /\ t[Len(a) + i] = b[i]
      BY <3>4
    <3>6. KeepsPlaces(b, t) /\ \A s : KeepsPlaces(s, a) => KeepsPlaces(s, t)
      BY <3>5 DEF KeepsPlaces
    <3>7. \A i \in 1..(m + 1) : i \in 1..m \/ i = m + 1
      OBVIOUS
    <3> QED BY <3>2, <3>5, <3>6, <3>7 DEF a, b, t
  <2> QED BY <2>3, <2>4
<1>6. n \in Ok
  <2> HIDE DEF Ok
  <2> QED BY <1>4, <1>5, Induction
<1>7. FlattenSeq(parts) = f[n]
  BY <1>3 DEF FlattenedBy
<1> QED BY <1>2, <1>6, <1>7

\* a block has at least three fifths of the line
Mostly(s, line) == \E i \in DOMAIN s : Inside(line, s[i].box, LineOverlap)
\* a heading in a line cuts it in two, and nothing of it is lost wherever it is cut
Halved(s, line) ==
    \E x \in Int : /\ \E i \in DOMAIN s : s[i].box = <<line[1], line[2], x, line[4]>>
                   /\ \E i \in DOMAIN s : s[i].box = <<x, line[2], line[3], line[4]>>

\* A part of the line is still there when blocks keep their places.
LEMMA KeptStays ==
    ASSUME NEW s, NEW t, KeepsPlaces(s, t), NEW line
    PROVE  /\ Mostly(s, line) => Mostly(t, line)
           /\ Halved(s, line) => Halved(t, line)
<1>1. \A box : (\E i \in DOMAIN s : s[i].box = box) => \E i \in DOMAIN t : t[i].box = box
  BY DEF KeepsPlaces
<1>2. Mostly(s, line) => Mostly(t, line)
  BY DEF KeepsPlaces, Mostly
<1>3. Halved(s, line) => Halved(t, line)
  BY <1>1 DEF Halved
<1> QED BY <1>2, <1>3

\* A line that is covered is mostly in a block.
LEMMA CoveredMostly ==
    ASSUME NEW s, NEW line \in Line, \A i \in DOMAIN s : s[i].box \in Box, CoveredBy(s, line)
    PROVE  Mostly(s, line)
<1>1. PICK i \in DOMAIN s : Inside(line, s[i].box, TextCoverage)
  BY DEF CoveredBy
<1> DEFINE box == s[i].box
           part == Intersection(line, box)
           whole == Area(line)
<1>2. /\ line[1] \in Int /\ line[2] \in Int /\ line[3] \in Int /\ line[4] \in Int
      /\ box[1] \in Int /\ box[2] \in Int /\ box[3] \in Int /\ box[4] \in Int
  BY DEF Line, Box
<1> HIDE DEF box
<1>3. part \in Int /\ whole \in Int
  <2>1. OverlapX(line, box) \in Int /\ OverlapY(line, box) \in Int
    BY <1>2 DEF OverlapX, OverlapY, Lo, Hi
  <2>2. Hi(0, Width(line)) \in Int /\ Hi(0, Height(line)) \in Int
    BY <1>2 DEF Hi, Width, Height
  <2> QED BY <2>1, <2>2 DEF Intersection, Area
<1> HIDE DEF part, whole
<1>4. Reaches(part, whole, 80) => Reaches(part, whole, 60)
  BY <1>3 DEF Reaches
<1>5. Inside(line, box, LineOverlap)
  BY <1>1, <1>4 DEF Inside, part, whole, box, TextCoverage, LineOverlap
<1> QED BY <1>5 DEF Mostly, box

\* The lines of a block are in its region,
LEMMA RegionKeeps ==
    ASSUME NEW b, NEW boxes \in Seq(Box), NEW k \in DOMAIN boxes,
           Inside(boxes[k], b.box, LineOverlap)
    PROVE  \E m \in DOMAIN RegionLines(b, boxes) : RegionLines(b, boxes)[m] = boxes[k]
<1> DEFINE keep == {i \in DOMAIN boxes : Inside(boxes[i], b.box, LineOverlap)}
           rest == Only(boxes, keep)
<1>1. /\ keep \in SUBSET DOMAIN boxes /\ k \in keep
      /\ Len(boxes) \in Nat /\ DOMAIN boxes = 1..Len(boxes)
  OBVIOUS
<1>2. RegionLines(b, boxes) = FromTop(rest)
  BY DEF RegionLines
<1> HIDE DEF keep
<1>3. rest \in Seq(Box)
  BY <1>1, OnlyType
<1>4. Selects(rest, boxes, keep)
  BY <1>1, OnlyKeeps
<1> HIDE DEF rest
<1>5. PICK a \in 1..Cardinality(keep) : rest[a] = boxes[k]
  BY <1>1, <1>4 DEF Selects
<1>6. a \in DOMAIN rest
  BY <1>4 DEF Selects
<1>7. \E m \in DOMAIN FromTop(rest) : FromTop(rest)[m] = rest[a]
  BY <1>3, <1>6, FromTopKeeps
<1> QED BY <1>2, <1>5, <1>7

\* so the first one is the heading, or what encloses the others contains it.
LEMMA RegionParts ==
    ASSUME NEW region \in Seq(Box), Len(region) >= 2, NEW m \in DOMAIN region
    PROVE  region[m] = region[1] \/ Encloses(Hull(Tail(region)), region[m])
<1> DEFINE body == Tail(region)
           rest == Tail(body)
<1>1. /\ body \in Seq(Box) /\ Len(body) >= 1 /\ Len(body) = Len(region) - 1 /\ m \in 1..Len(region)
      /\ \A j \in 1..Len(body) : body[j] = region[j + 1]
  OBVIOUS
<1> HIDE DEF body
<1>2. /\ body[1] \in Box /\ rest \in Seq(Box) /\ DOMAIN rest = 1..(Len(body) - 1)
      /\ \A j \in 1..(Len(body) - 1) : rest[j] = body[j + 1]
  BY <1>1
<1> HIDE DEF rest
<1>3. /\ FoldLeft(Union, body[1], rest) \in Box
      /\ Encloses(FoldLeft(Union, body[1], rest), body[1])
      /\ \A j \in DOMAIN rest : Encloses(FoldLeft(Union, body[1], rest), rest[j])
  BY <1>2, HullFold
<1>4. Hull(body) = FoldLeft(Union, body[1], rest)
  BY DEF Hull, rest
<1>5. CASE m = 1
  BY <1>5
<1>6. CASE m = 2
  <2>1. region[m] = body[1]
    BY <1>1, <1>6
  <2> QED BY <1>3, <1>4, <2>1 DEF body
<1>7. CASE m > 2
  <2>1. m - 2 \in DOMAIN rest /\ rest[m - 2] = region[m]
    <3>1. m - 2 \in 1..(Len(body) - 1) /\ m - 1 \in 1..Len(body) /\ (m - 2) + 1 = m - 1
          /\ (m - 1) + 1 = m
      BY <1>1, <1>7
    <3>2. rest[m - 2] = body[(m - 2) + 1] /\ body[m - 1] = region[(m - 1) + 1]
      BY <1>1, <1>2, <3>1
    <3> QED BY <1>2, <3>1, <3>2
  <2>2. Encloses(FoldLeft(Union, body[1], rest), rest[m - 2])
    BY <1>3, <2>1
  <2> QED BY <1>4, <2>1, <2>2 DEF body
<1> QED BY <1>1, <1>5, <1>6, <1>7

\* A line is inside itself.
LEMMA LineInside ==
    ASSUME NEW line \in Line
    PROVE  Inside(line, line, LineOverlap)
<1>1. line \in Box /\ Encloses(line, line)
  <2>1. line[1] \in Int /\ line[2] \in Int /\ line[3] \in Int /\ line[4] \in Int
    BY DEF Line, Box
  <2> QED BY <2>1 DEF Encloses, Line
<1> QED BY <1>1, EnclosedInside

\* A line of a block is mostly in one of the parts that the block is split into, or
\* there is a heading for it already.
LEMMA SplitMergedBlockKeeps ==
    ASSUME NEW p, NEW s \in Seq(BlockOn(p)), NEW i \in DOMAIN s, NEW boxes \in Seq(Line),
           NEW k \in DOMAIN boxes, Inside(boxes[k], s[i].box, LineOverlap)
    PROVE  \/ Mostly(SplitMergedBlock(s, i, boxes), boxes[k])
           \/ /\ s[i].type # "section_header"
              /\ \E j \in DOMAIN s : s[j].type = "section_header"
                                     /\ Inside(boxes[k], s[j].box, LineOverlap)
<1> DEFINE b == s[i]
           line == boxes[k]
           region == RegionLines(b, boxes)
           body == Hull(Tail(region))
           known == \E j \in DOMAIN s \ {i} :
                       s[j].type = "section_header" /\ Inside(region[1], s[j].box, LineOverlap)
           heading == [b EXCEPT !.type = "section_header", !.box = region[1]]
           below == [b EXCEPT !.type = "text", !.box = body, !.order = @ + 1]
           rest == [b EXCEPT !.box = body]
           parts == SplitMergedBlock(s, i, boxes)
<1>1. boxes \in Seq(Box) /\ line \in Line /\ b \in BlockOn(p)
  <2>1. Line \subseteq Box
    BY DEF Line
  <2> QED BY <2>1
<1>2. region \in Seq(Box)
  BY <1>1, RegionType
<1>3. parts = IF b.type \notin {"abstract", "section_header"} \/ ~LooksMerged(region) THEN <<b>>
              ELSE IF b.type = "section_header" THEN <<heading, below>>
              ELSE IF known THEN <<rest>> ELSE <<heading, rest>>
  BY DEF SplitMergedBlock
<1>4. PICK m \in DOMAIN region : region[m] = line
  BY <1>1, RegionKeeps
<1>5. known /\ region[1] = line => \E j \in DOMAIN s : s[j].type = "section_header"
                                     /\ Inside(line, s[j].box, LineOverlap)
  OBVIOUS
<1>6. Inside(line, b.box, LineOverlap)
  OBVIOUS
<1> HIDE DEF b, line, region, known, parts
<1>7. ASSUME LooksMerged(region)
      PROVE  /\ heading.box = region[1] /\ below.box = body /\ rest.box = body
             /\ body \in Box
             /\ line = region[1] \/ Encloses(body, line)
  <2>1. Len(region) >= 2
    BY <1>2, <1>7 DEF LooksMerged, MinBodyLines
  <2>2. body \in Box /\ (line = region[1] \/ Encloses(body, line))
    BY <1>2, <1>4, <2>1, BodyType, RegionParts
  <2> HIDE DEF body
  <2> QED BY <1>1, <2>2 DEF BlockOn
<1> HIDE DEF heading, below, rest, body
<1>8. CASE b.type \notin {"abstract", "section_header"} \/ ~LooksMerged(region)
  <2>1. parts = <<b>>
    BY <1>3, <1>8
  <2>2. 1 \in DOMAIN parts /\ parts[1] = b
    BY <2>1
  <2>3. Mostly(parts, line)
    BY <1>6, <2>2 DEF Mostly
  <2> QED BY <2>3 DEF parts, line
<1>9. ASSUME LooksMerged(region), b.type \in {"abstract", "section_header"}
      PROVE  Mostly(parts, line) \/ (b.type # "section_header" /\ known /\ region[1] = line)
  <2>1. CASE line = region[1]
    <3>1. CASE b.type # "section_header" /\ known
      BY <2>1, <3>1
    <3>2. CASE ~(b.type # "section_header" /\ known)
      <4>1. parts = <<heading, below>> \/ parts = <<heading, rest>>
        BY <1>3, <1>9, <3>2
      <4>2. 1 \in DOMAIN parts /\ parts[1] = heading
        BY <4>1
      <4>3. Inside(line, heading.box, LineOverlap)
        BY <1>1, <1>7, <1>9, <2>1, LineInside
      <4> QED BY <4>2, <4>3 DEF Mostly
    <3> QED BY <3>1, <3>2
  <2>2. CASE Encloses(body, line)
    <3>1. Inside(line, body, LineOverlap)
      BY <1>1, <1>7, <1>9, <2>2, EnclosedInside
    <3>2. parts = <<heading, below>> \/ parts = <<rest>> \/ parts = <<heading, rest>>
      BY <1>3, <1>9
    <3>3. \E x \in DOMAIN parts : parts[x] = below \/ parts[x] = rest
      <4>1. \A a, c : 2 \in DOMAIN <<a, c>> /\ <<a, c>>[2] = c /\ 1 \in DOMAIN <<a>> /\ <<a>>[1] = a
        OBVIOUS
      <4> QED BY <3>2, <4>1
    <3> QED BY <1>7, <1>9, <3>1, <3>3 DEF Mostly
  <2> QED BY <1>7, <1>9, <2>1, <2>2
<1>10. CASE LooksMerged(region) /\ b.type \in {"abstract", "section_header"}
  <2>1. Mostly(parts, line) \/ (b.type # "section_header" /\ known /\ region[1] = line)
    BY <1>9, <1>10
  <2> QED BY <1>5, <2>1 DEF parts, line, b
<1> QED BY <1>8, <1>10

\* Blocks that keep their places twice have kept them.
LEMMA PlacesFollow ==
    ASSUME NEW s, NEW t, NEW u, KeepsPlaces(s, t), KeepsPlaces(t, u)
    PROVE  KeepsPlaces(s, u)
BY DEF KeepsPlaces

\* After the split of merged headings, each line is mostly in a block.
LEMMA SplitMergedKeeps ==
    ASSUME NEW p, NEW start \in Nat, NEW s \in OnPageFrom(p, start), NEW boxes \in Seq(Line),
           \A k \in DOMAIN boxes : CoveredBy(s, boxes[k])
    PROVE  \A k \in DOMAIN boxes : Mostly(SplitMerged(s, boxes, start), boxes[k])
<1> DEFINE parts == [i \in DOMAIN s |-> SplitMergedBlock(s, i, boxes)]
           n == Len(s)
           t == SplitMerged(s, boxes, start)
           all == FlattenSeq(parts)
<1>1. /\ s \in Seq(BlockOn(p)) /\ n \in Nat /\ DOMAIN s = 1..n
      /\ \A i \in DOMAIN s : s[i].box \in Box
      /\ boxes \in Seq(Box) /\ \A k \in DOMAIN boxes : boxes[k] \in Line
  <2>1. s \in Seq(BlockOn(p))
    BY DEF OnPageFrom
  <2>2. Line \subseteq Box
    BY DEF Line
  <2>3. \A i \in DOMAIN s : s[i] \in BlockOn(p)
    BY <2>1
  <2> QED BY <2>1, <2>2, <2>3 DEF BlockOn
<1>2. parts = [i \in 1..n |-> parts[i]] /\ \A i \in 1..n : parts[i] \in Seq(BlockOn(p))
  BY <1>1, SplitMergedBlockType
<1>3. t = IF boxes = <<>> THEN s ELSE OrderDetected(all, start)
  BY DEF SplitMerged
<1>4. \A i \in DOMAIN s : parts[i] = SplitMergedBlock(s, i, boxes)
  OBVIOUS
<1> HIDE DEF parts, t, n
<1>5. all \in Seq(BlockOn(p)) /\ \A i \in 1..n : KeepsPlaces(parts[i], all)
  BY <1>1, <1>2, SplitType, FlattenKeeps
<1> HIDE DEF all
<1>6. KeepsPlaces(all, OrderDetected(all, start))
  BY <1>5, OrderKeepsPlaces
<1>7. ASSUME NEW k \in DOMAIN boxes PROVE Mostly(t, boxes[k])
  <2>1. t = OrderDetected(all, start)
    BY <1>1, <1>3, <1>7
  <2>2. PICK i \in DOMAIN s : Inside(boxes[k], s[i].box, LineOverlap)
    <3>1. Mostly(s, boxes[k])
      BY <1>1, CoveredMostly
    <3> QED BY <3>1 DEF Mostly
  <2>3. \E j \in DOMAIN s : Mostly(SplitMergedBlock(s, j, boxes), boxes[k])
    <3>1. \/ Mostly(SplitMergedBlock(s, i, boxes), boxes[k])
          \/ /\ s[i].type # "section_header"
             /\ \E j \in DOMAIN s : s[j].type = "section_header"
                                    /\ Inside(boxes[k], s[j].box, LineOverlap)
      BY <1>1, <2>2, SplitMergedBlockKeeps
    <3>2. ASSUME NEW j \in DOMAIN s, s[j].type = "section_header",
                 Inside(boxes[k], s[j].box, LineOverlap)
          PROVE  Mostly(SplitMergedBlock(s, j, boxes), boxes[k])
      <4>1. \/ Mostly(SplitMergedBlock(s, j, boxes), boxes[k])
            \/ /\ s[j].type # "section_header"
               /\ \E x \in DOMAIN s : s[x].type = "section_header"
                                      /\ Inside(boxes[k], s[x].box, LineOverlap)
        BY <1>1, <3>2, SplitMergedBlockKeeps
      <4> QED BY <3>2, <4>1
    <3> QED BY <3>1, <3>2
  <2>4. PICK j \in 1..n : Mostly(parts[j], boxes[k])
    BY <1>1, <1>4, <2>3
  <2>5. KeepsPlaces(parts[j], OrderDetected(all, start))
    BY <1>5, <1>6, PlacesFollow
  <2> QED BY <2>1, <2>4, <2>5, KeptStays
<1> QED BY <1>7 DEF t

\* A line of a block is in the parts that an inline heading cuts the block into.
LEMMA SplitInlineBlockKeeps ==
    ASSUME NEW p, NEW b \in BlockOn(p), NEW boxes \in Seq(Line), NEW k \in DOMAIN boxes,
           Inside(boxes[k], b.box, LineOverlap), NEW C, NEW readings \in [C -> Readings]
    PROVE  \/ Mostly(SplitInlineBlock(b, boxes, p, readings), boxes[k])
           \/ Halved(SplitInlineBlock(b, boxes, p, readings), boxes[k])
<1> DEFINE region == InlineRegion(b, boxes, p)
           line == region[1]
           reading == IF line \in DOMAIN readings THEN readings[line] ELSE NoReading
           x == line[1] + (Width(line) * (reading.end + 1)) \div reading.length
           rest == [b EXCEPT !.type = "abstract", !.box = Hull(Tail(region))]
           whole == [[b EXCEPT !.type = "section_header"] EXCEPT !.box = line]
           heading == [[b EXCEPT !.type = "section_header"] EXCEPT
                          !.box = <<line[1], line[2], x, line[4]>>]
           first == [b EXCEPT !.type = "abstract", !.box = <<x, line[2], line[3], line[4]>>]
           parts == SplitInlineBlock(b, boxes, p, readings)
<1>1. boxes \in Seq(Box) /\ boxes[k] \in Line /\ region \in Seq(Box)
  <2>1. Line \subseteq Box
    BY DEF Line
  <2>2. boxes \in Seq(Box)
    BY <2>1
  <2> QED BY <2>2, InlineRegionType
<1>2. parts = IF Len(region) < MinBodyLines + 1 THEN <<b>>
              ELSE IF reading.end = 0 \/ TooLong(reading) THEN <<b>>
              ELSE IF reading.length = reading.end THEN <<whole, rest>>
              ELSE <<heading, first, rest>>
  BY DEF SplitInlineBlock
<1>3. reading.end \in Nat /\ reading.length \in Nat /\ reading.end <= reading.length
  <2>1. reading \in Readings \/ reading = NoReading
    OBVIOUS
  <2> HIDE DEF reading
  <2> QED BY <2>1, ReadingsAssumption DEF NoReading
<1>4. CASE parts = <<b>>
  <2>1. 1 \in DOMAIN parts /\ parts[1] = b
    BY <1>4
  <2>2. Mostly(parts, boxes[k])
    BY <2>1 DEF Mostly
  <2> QED BY <2>2
<1>5. CASE parts # <<b>>
  <2>1. Len(region) >= MinBodyLines + 1 /\ reading.end # 0
    BY <1>1, <1>2, <1>5 DEF MinBodyLines
  <2>2. Len(region) >= 2
    BY <1>1, <2>1 DEF MinBodyLines
  <2>3. region = RegionLines(b, boxes)
    <3>1. region = IF b.type \in InlineTypes(p) THEN RegionLines(b, boxes) ELSE <<>>
      BY DEF InlineRegion
    <3>2. region # <<>>
      BY <2>2
    <3> QED BY <3>1, <3>2
  <2>4. PICK m \in DOMAIN region : region[m] = boxes[k]
    BY <1>1, <2>3, RegionKeeps
  <2> DEFINE body == Hull(Tail(region))
  <2>5. line \in Box /\ body \in Box /\ (boxes[k] = line \/ Encloses(body, boxes[k]))
    BY <1>1, <2>2, <2>4, BodyType, RegionParts
  <2>6. x \in Int
    <3>1. line[1] \in Int /\ line[3] \in Int
      BY <2>5 DEF Box
    <3> HIDE DEF line, reading
    <3>2. Width(line) \in Int /\ reading.end + 1 \in Int /\ reading.length \in Nat \ {0}
      BY <1>3, <2>1, <3>1 DEF Width
    <3>3. (Width(line) * (reading.end + 1)) \div reading.length \in Int
      BY <3>2
    <3> QED BY <3>1, <3>3
  <2>7. parts = <<whole, rest>> \/ parts = <<heading, first, rest>>
    BY <1>2, <1>5
  <2> HIDE DEF body, x, line, region, reading, parts
  <2>8. /\ whole.box = line /\ rest.box = Hull(Tail(region))
        /\ heading.box = <<line[1], line[2], x, line[4]>>
        /\ first.box = <<x, line[2], line[3], line[4]>>
    BY DEF BlockOn
  <2> HIDE DEF whole, heading, first, rest
  <2>9. CASE Encloses(body, boxes[k])
    <3>1. Inside(boxes[k], rest.box, LineOverlap)
      BY <1>1, <2>5, <2>8, <2>9, EnclosedInside DEF body
    <3>2. \E i \in DOMAIN parts : parts[i] = rest
      <4>1. CASE parts = <<whole, rest>>
        <5>1. 2 \in DOMAIN parts /\ parts[2] = rest
          BY <4>1
        <5> QED BY <5>1
      <4>2. CASE parts = <<heading, first, rest>>
        <5>1. 3 \in DOMAIN parts /\ parts[3] = rest
          BY <4>2
        <5> QED BY <5>1
      <4> QED BY <2>7, <4>1, <4>2
    <3>3. Mostly(parts, boxes[k])
      BY <3>1, <3>2 DEF Mostly
    <3> QED BY <3>3 DEF parts
  <2>10. CASE boxes[k] = line
    <3>1. CASE parts = <<whole, rest>>
      <4>1. 1 \in DOMAIN parts /\ parts[1] = whole
        BY <3>1
      <4>2. Inside(boxes[k], whole.box, LineOverlap)
        BY <1>1, <2>8, <2>10, LineInside
      <4>3. Mostly(parts, boxes[k])
        BY <4>1, <4>2 DEF Mostly
      <4> QED BY <4>3 DEF parts
    <3>2. CASE parts = <<heading, first, rest>>
      <4>1. 1 \in DOMAIN parts /\ parts[1] = heading /\ 2 \in DOMAIN parts /\ parts[2] = first
        BY <3>2
      <4>2. Halved(parts, boxes[k])
        BY <2>6, <2>8, <2>10, <4>1 DEF Halved
      <4> QED BY <4>2 DEF parts
    <3> QED BY <2>7, <3>1, <3>2
  <2> QED BY <2>5, <2>9, <2>10
<1> QED BY <1>4, <1>5

\* After the split of headings inside lines, at least three fifths of each line are left.
LEMMA SplitInlineKeeps ==
    ASSUME NEW p, NEW start \in Nat, NEW s \in OnPageFrom(p, start), NEW boxes \in Seq(Line),
           \A k \in DOMAIN boxes : Mostly(s, boxes[k]), NEW C, NEW readings \in [C -> Readings]
    PROVE  \A k \in DOMAIN boxes :
              \/ Mostly(SplitInline(s, boxes, p, start, readings), boxes[k])
              \/ Halved(SplitInline(s, boxes, p, start, readings), boxes[k])
<1> DEFINE parts == [i \in DOMAIN s |-> SplitInlineBlock(s[i], boxes, p, readings)]
           n == Len(s)
           t == SplitInline(s, boxes, p, start, readings)
           all == FlattenSeq(parts)
<1>1. /\ s \in Seq(BlockOn(p)) /\ n \in Nat /\ DOMAIN s = 1..n
      /\ \A i \in DOMAIN s : s[i] \in BlockOn(p)
      /\ boxes \in Seq(Box) /\ \A k \in DOMAIN boxes : boxes[k] \in Line
  <2>1. s \in Seq(BlockOn(p))
    BY DEF OnPageFrom
  <2>2. Line \subseteq Box
    BY DEF Line
  <2> QED BY <2>1, <2>2
<1>2. parts = [i \in 1..n |-> parts[i]] /\ \A i \in 1..n : parts[i] \in Seq(BlockOn(p))
  BY <1>1, SplitInlineBlockType
<1>3. t = IF InlineCandidates(s, boxes, p) = {} THEN s ELSE OrderDetected(all, start)
  BY DEF SplitInline
<1>4. \A i \in DOMAIN s : parts[i] = SplitInlineBlock(s[i], boxes, p, readings)
  OBVIOUS
<1> HIDE DEF parts, t, n
<1>5. all \in Seq(BlockOn(p)) /\ \A i \in 1..n : KeepsPlaces(parts[i], all)
  BY <1>1, <1>2, SplitType, FlattenKeeps
<1> HIDE DEF all
<1>6. KeepsPlaces(all, OrderDetected(all, start))
  BY <1>5, OrderKeepsPlaces
<1>7. ASSUME NEW k \in DOMAIN boxes PROVE Mostly(t, boxes[k]) \/ Halved(t, boxes[k])
  <2>1. PICK i \in DOMAIN s : Inside(boxes[k], s[i].box, LineOverlap)
    BY DEF Mostly
  <2>2. Mostly(parts[i], boxes[k]) \/ Halved(parts[i], boxes[k])
    <3>1. \/ Mostly(SplitInlineBlock(s[i], boxes, p, readings), boxes[k])
          \/ Halved(SplitInlineBlock(s[i], boxes, p, readings), boxes[k])
      BY <1>1, <2>1, SplitInlineBlockKeeps
    <3> QED BY <1>4, <3>1
  <2>3. KeepsPlaces(parts[i], OrderDetected(all, start))
    BY <1>1, <1>5, <1>6, PlacesFollow
  <2>4. CASE t = s
    BY <2>4
  <2>5. CASE t = OrderDetected(all, start)
    BY <2>2, <2>3, <2>5, KeptStays
  <2> QED BY <1>3, <2>4, <2>5
<1> QED BY <1>7 DEF t

\* the whole coordinates from a pair to another, and their count
CellsOf(a, b, c, d) == (a..(b - 1)) \X (c..(d - 1))
Counted(a, b, c, d) ==
    /\ IsFiniteSet(CellsOf(a, b, c, d))
    /\ Cardinality(CellsOf(a, b, c, d)) = Hi(0, b - a) * Hi(0, d - c)

\* The whole numbers between two pairs of coordinates are counted as an area.
LEMMA CellsCount ==
    ASSUME NEW a \in Int, NEW b \in Int, NEW c \in Int, NEW d \in Int
    PROVE  Counted(a, b, c, d)
<1> DEFINE X == a..(b - 1)
           Y == c..(d - 1)
<1>1. IsFiniteSet(X) /\ Cardinality(X) = IF a > b - 1 THEN 0 ELSE (b - 1) - a + 1
  BY FS_Interval
<1>2. IsFiniteSet(Y) /\ Cardinality(Y) = IF c > d - 1 THEN 0 ELSE (d - 1) - c + 1
  BY FS_Interval
<1>3. Cardinality(X) = Hi(0, b - a) /\ Cardinality(Y) = Hi(0, d - c)
  BY <1>1, <1>2 DEF Hi
<1> HIDE DEF X, Y
<1>4. IsFiniteSet(X \X Y) /\ Cardinality(X \X Y) = Cardinality(X) * Cardinality(Y)
  BY <1>1, <1>2, FS_Product
<1> QED BY <1>3, <1>4 DEF X, Y, Counted, CellsOf

\* what is left of a line, by either of these, is counted as three fifths of it
LEMMA KeptCounts ==
    ASSUME NEW s, \A i \in DOMAIN s : s[i].box \in Box, NEW line \in Line,
           Mostly(s, line) \/ Halved(s, line)
    PROVE  Reaches(Cardinality({c \in Cells(line) : InSome(s, c[1], c[2])}), Area(line),
                   LineOverlap)
<1> DEFINE left == {c \in Cells(line) : InSome(s, c[1], c[2])}
<1>1. /\ line[1] \in Int /\ line[2] \in Int /\ line[3] \in Int /\ line[4] \in Int
      /\ line[1] < line[3] /\ line[2] < line[4]
  BY DEF Line, Box
<1>2. IsFiniteSet(Cells(line)) /\ Cardinality(Cells(line)) = Area(line)
  <2> DEFINE a == line[1]
             b == line[3]
             c == line[2]
             d == line[4]
  <2>1. a \in Int /\ b \in Int /\ c \in Int /\ d \in Int
    BY <1>1
  <2>2. Cells(line) = (a..(b - 1)) \X (c..(d - 1)) /\ Area(line) = Hi(0, b - a) * Hi(0, d - c)
    BY DEF Cells, Area, Width, Height
  <2> HIDE DEF a, b, c, d
  <2>3. Counted(a, b, c, d)
    BY <2>1, CellsCount
  <2> QED BY <2>2, <2>3 DEF Counted, CellsOf
<1>3. left \in SUBSET Cells(line)
  OBVIOUS
<1>4. CASE Mostly(s, line)
  <2>1. PICK i \in DOMAIN s : Inside(line, s[i].box, LineOverlap)
    BY <1>4 DEF Mostly
  <2> DEFINE b == s[i].box
             x1 == Hi(line[1], b[1])
             x2 == Lo(line[3], b[3])
             y1 == Hi(line[2], b[2])
             y2 == Lo(line[4], b[4])
             common == (x1..(x2 - 1)) \X (y1..(y2 - 1))
  <2>2. b[1] \in Int /\ b[2] \in Int /\ b[3] \in Int /\ b[4] \in Int
    BY DEF Box
  <2>3. x1 \in Int /\ x2 \in Int /\ y1 \in Int /\ y2 \in Int
    BY <1>1, <2>2 DEF Hi, Lo
  <2>4. IsFiniteSet(common) /\ Cardinality(common) = Hi(0, x2 - x1) * Hi(0, y2 - y1)
    <3> HIDE DEF x1, x2, y1, y2
    <3>1. Counted(x1, x2, y1, y2)
      BY <2>3, CellsCount
    <3> QED BY <3>1 DEF Counted, CellsOf
  <2>5. Cardinality(common) = Intersection(line, b)
    BY <2>4 DEF Intersection, OverlapX, OverlapY
  <2>6. common \subseteq left
    <3> SUFFICES ASSUME NEW x \in x1..(x2 - 1), NEW y \in y1..(y2 - 1)
                 PROVE  <<x, y>> \in left
      OBVIOUS
    <3>1. /\ x \in line[1]..(line[3] - 1) /\ y \in line[2]..(line[4] - 1)
          /\ b[1] <= x /\ x < b[3] /\ b[2] <= y /\ y < b[4]
      BY <1>1, <2>2 DEF Hi, Lo
    <3>2. InSome(s, x, y)
      BY <3>1 DEF InSome
    <3> HIDE DEF b
    <3> QED BY <3>1, <3>2 DEF Cells
  <2> HIDE DEF common, left
  <2>7. IsFiniteSet(left) /\ Cardinality(common) <= Cardinality(left)
    BY <1>2, <1>3, <2>6, FS_Subset
  <2>8. Cardinality(common) \in Nat /\ Cardinality(left) \in Nat /\ Area(line) \in Nat
    BY <1>2, <2>4, <2>7, FS_CardinalityType
  <2>9. Reaches(Cardinality(common), Area(line), LineOverlap)
    BY <2>1, <2>5 DEF Inside
  <2> QED BY <2>7, <2>8, <2>9 DEF Reaches, LineOverlap, left
<1>5. CASE Halved(s, line)
  <2>1. PICK x \in Int : /\ \E i \in DOMAIN s : s[i].box = <<line[1], line[2], x, line[4]>>
                         /\ \E i \in DOMAIN s : s[i].box = <<x, line[2], line[3], line[4]>>
    BY <1>5 DEF Halved
  <2>2. PICK i \in DOMAIN s : s[i].box = <<line[1], line[2], x, line[4]>>
    BY <2>1
  <2>3. PICK j \in DOMAIN s : s[j].box = <<x, line[2], line[3], line[4]>>
    BY <2>1
  <2>4. ASSUME NEW c \in Cells(line) PROVE InSome(s, c[1], c[2])
    <3>1. c[1] \in line[1]..(line[3] - 1) /\ c[2] \in line[2]..(line[4] - 1)
      BY DEF Cells
    <3>2. CASE c[1] < x
      BY <1>1, <2>2, <3>1, <3>2 DEF InSome
    <3>3. CASE x <= c[1]
      BY <1>1, <2>3, <3>1, <3>3 DEF InSome
    <3> QED BY <1>1, <2>1, <3>1, <3>2, <3>3
  <2>5. left = Cells(line)
    BY <2>4
  <2>6. Area(line) \in Nat /\ Area(line) > 0
    <3>1. Hi(0, Width(line)) \in Nat \ {0} /\ Hi(0, Height(line)) \in Nat \ {0}
      BY <1>1 DEF Hi, Width, Height
    <3> QED BY <3>1 DEF Area
  <2> HIDE DEF left
  <2>7. Cardinality(left) = Area(line)
    BY <1>2, <2>5
  <2>8. \A n \in Nat : n > 0 => Reaches(n, n, LineOverlap)
    BY DEF Reaches, LineOverlap
  <2>9. Reaches(Cardinality(left), Area(line), LineOverlap)
    BY <2>6, <2>7, <2>8
  <2> QED BY <2>9 DEF left
<1> QED BY <1>4, <1>5

-----------------------------------------------------------------------------
(* The inductive invariant: the page in work, and the document so far. *)

Repair == {"detected"} \union Ordered

PageInv ==
    /\ stage = "detected" => blocks \in Seq(BlockOn(page))
    /\ stage \in Ordered => blocks \in OnPageFrom(page, Len(document))
    /\ stage \in Repair => lines \in Seq(Box)

Alone(d, i) == \A j \in DOMAIN d : d[j].page = d[i].page => j = i
Told(d, upto) ==
    /\ IsDocument(d)
    /\ \A i \in DOMAIN d : d[i].page \in 1..upto
    /\ \A i \in DOMAIN d : d[i].order = i - 1 \/ Alone(d, i)

DocumentInv ==
    /\ stage = "rendered" => page \in 0..Pages /\ Told(document, page)
    /\ stage \in Repair => page \in 1..Pages /\ Told(document, page - 1)
    /\ stage = "reviewed" /\ ~LonePage =>
           \A i, j \in DOMAIN document : document[i].order = document[j].order => i = j
    /\ stage = "reviewed" => IsDocument(document)

CropInv ==
    /\ stage = "batch" => /\ page \in Nat /\ Sequence(document)
                          /\ \A i \in DOMAIN document : document[i].crop = i
    /\ TextFromOwnCrop

ExtractionInv == PageInv /\ DocumentInv /\ CropInv

\* The stages of the corrections are no others.
LEMMA Stages ==
    /\ "rendered" \notin Repair /\ "reviewed" \notin Repair /\ "batch" \notin Repair
    /\ "recognized" \notin Repair /\ "filtered" \notin Repair /\ "paragraphs" \notin Repair
    /\ "detected" \notin Ordered /\ Ordered \subseteq Repair /\ "detected" \in Repair
BY DEF Repair, Ordered

\* A sequence is a function on 1 to its length.
LEMMA SequenceFacts ==
    ASSUME NEW s
    PROVE  Sequence(s) <=> /\ Len(s) \in Nat /\ DOMAIN s = 1..Len(s)
                           /\ s = [i \in 1..Len(s) |-> s[i]]
<1>1. ASSUME Sequence(s)
      PROVE  Len(s) \in Nat /\ DOMAIN s = 1..Len(s) /\ s = [i \in 1..Len(s) |-> s[i]]
  BY <1>1 DEF Sequence
<1>2. ASSUME Len(s) \in Nat, DOMAIN s = 1..Len(s), s = [i \in 1..Len(s) |-> s[i]]
      PROVE  Sequence(s)
  <2> DEFINE B == {s[i] : i \in DOMAIN s}
  <2>1. \A i \in 1..Len(s) : s[i] \in B
    BY <1>2
  <2> HIDE DEF B
  <2>2. s \in Seq(B)
    BY <1>2, <2>1, IsSequence
  <2> QED BY <2>2 DEF Sequence, B
<1> QED BY <1>1, <1>2

\* Two sequences, one after the other.
LEMMA JoinedSequences ==
    ASSUME NEW s, NEW t, Sequence(s), Sequence(t)
    PROVE  /\ Sequence(s \o t) /\ DOMAIN (s \o t) = 1..(Len(s) + Len(t))
           /\ \A i \in DOMAIN s : i \in DOMAIN (s \o t) /\ (s \o t)[i] = s[i]
           /\ \A i \in DOMAIN t : Len(s) + i \in DOMAIN (s \o t) /\ (s \o t)[Len(s) + i] = t[i]
           /\ \A k \in DOMAIN (s \o t) : k \in DOMAIN s \/ \E i \in DOMAIN t : k = Len(s) + i
<1>1. /\ Len(s) \in Nat /\ DOMAIN s = 1..Len(s) /\ Len(t) \in Nat /\ DOMAIN t = 1..Len(t)
  BY SequenceFacts
<1> DEFINE B == {s[i] : i \in DOMAIN s} \union {t[i] : i \in DOMAIN t}
<1>2. s \in Seq(B) /\ t \in Seq(B)
  <2>1. /\ \A i \in 1..Len(s) : s[i] \in B
        /\ \A i \in 1..Len(t) : t[i] \in B
    BY <1>1
  <2> HIDE DEF B
  <2>2. s = [i \in 1..Len(s) |-> s[i]] /\ t = [i \in 1..Len(t) |-> t[i]]
    BY SequenceFacts
  <2>3. s \in Seq(B)
    BY <1>1, <2>1, <2>2, IsSequence
  <2>4. t \in Seq(B)
    BY <1>1, <2>1, <2>2, IsSequence
  <2> QED BY <2>3, <2>4
<1> HIDE DEF B
<1>3. /\ Len(s \o t) = Len(s) + Len(t) /\ DOMAIN (s \o t) = 1..(Len(s) + Len(t))
      /\ s \o t \in Seq(B)
  BY <1>1, <1>2
<1>4. \A i \in DOMAIN s : i \in DOMAIN (s \o t) /\ (s \o t)[i] = s[i]
  BY <1>1, <1>2, <1>3
<1>5. \A i \in DOMAIN t : Len(s) + i \in DOMAIN (s \o t) /\ (s \o t)[Len(s) + i] = t[i]
  BY <1>1, <1>2, <1>3
<1>6. \A k \in DOMAIN (s \o t) : k \in DOMAIN s \/ \E i \in DOMAIN t : k = Len(s) + i
  <2> TAKE k \in DOMAIN (s \o t)
  <2>1. k \in 1..(Len(s) + Len(t))
    BY <1>3
  <2>2. k \notin 1..Len(s) => k - Len(s) \in 1..Len(t) /\ k = Len(s) + (k - Len(s))
    BY <1>1, <2>1
  <2> QED BY <1>1, <2>2
<1>7. Sequence(s \o t)
  <2> DEFINE u == s \o t
  <2>1. u \in Seq(B)
    BY <1>3
  <2> HIDE DEF u
  <2>2. Len(u) \in Nat /\ DOMAIN u = 1..Len(u) /\ u = [i \in 1..Len(u) |-> u[i]]
    BY <2>1
  <2> QED BY <2>2, SequenceFacts DEF u
<1> QED BY <1>3, <1>4, <1>5, <1>6, <1>7

-----------------------------------------------------------------------------
(* It holds at the start, and every step keeps it. *)

\* A document without blocks says nothing.
LEMMA EmptyTold == ASSUME NEW p PROVE Told(<<>>, p) /\ Sequence(<<>>)
<1>1. Sequence(<<>>)
  BY DEF Sequence
<1> QED BY <1>1 DEF Told, IsDocument

\* There is a scene for each page.
LEMMA PagesNatural == Pages \in Nat /\ \A p \in 1..Pages : Scenes[p] \subseteq Scene
BY ScenesAssumption DEF Pages

\* It holds of a document that was rendered, or reviewed.
LEMMA ExtractionInit == Init => ExtractionInv
<1> SUFFICES ASSUME Init PROVE ExtractionInv
  OBVIOUS
<1>1. CASE page = 0 /\ stage = "rendered" /\ document = <<>>
  <2>1. 0 \in 0..Pages
    BY PagesNatural
  <2> QED BY <1>1, <2>1, Stages, EmptyTold
          DEF ExtractionInv, PageInv, DocumentInv, CropInv, TextFromOwnCrop
<1>2. CASE stage = "reviewed" /\ document \in Reviewed
  BY <1>2, Stages, ReviewedAssumption
  DEF ExtractionInv, PageInv, DocumentInv, CropInv, TextFromOwnCrop
<1>3. CASE page = 0 /\ stage = "batch" /\ document = <<>>
  BY <1>3, Stages, EmptyTold
  DEF ExtractionInv, PageInv, DocumentInv, CropInv, TextFromOwnCrop
<1> QED BY <1>1, <1>2, <1>3 DEF Init

\* a correction
LEMMA CorrectKeeps ==
    ASSUME ExtractionInv, stage \in Repair, stage' \in Ordered,
           blocks' \in OnPageFrom(page, Len(document)), UNCHANGED <<page, lines, document>>
    PROVE  ExtractionInv'
<1>1. PageInv'
  BY Stages DEF ExtractionInv, PageInv
<1>2. DocumentInv'
  BY Stages DEF ExtractionInv, DocumentInv
<1>3. CropInv'
  BY Stages DEF CropInv, TextFromOwnCrop
<1> QED BY <1>1, <1>2, <1>3 DEF ExtractionInv

\* what the corrections rest on
LEMMA InWork ==
    ASSUME ExtractionInv, stage \in Repair
    PROVE  /\ Len(document) \in Nat /\ lines \in Seq(Box)
           /\ stage = "detected" => blocks \in Seq(BlockOn(page))
           /\ stage \in Ordered => blocks \in OnPageFrom(page, Len(document))
BY SequenceFacts DEF ExtractionInv, PageInv, DocumentInv, Told, IsDocument

\* Each correction keeps the invariant.
LEMMA CorrectionsKeep ==
    ASSUME ExtractionInv,
           Arrange \/ MatchText \/ RecoverText \/ SplitSections \/ SplitHeadings
               \/ NameTitle \/ NameAuthors
    PROVE  ExtractionInv'
<1>1. CASE Arrange
  <2>1. stage \in Repair /\ stage = "detected" /\ stage' \in Ordered
    BY <1>1, Stages DEF Arrange, Correct, Ordered
  <2>2. blocks' \in OnPageFrom(page, Len(document))
    BY <1>1, <2>1, InWork, ArrangeOrders DEF Arrange, Correct
  <2> QED BY <1>1, <2>1, <2>2, CorrectKeeps DEF Arrange, Correct
<1>2. CASE MatchText
  <2>1. stage \in Repair /\ stage \in Ordered /\ stage' \in Ordered
    BY <1>2, Stages DEF MatchText, Correct, Ordered
  <2>2. blocks \in Seq(BlockOn(page)) /\ lines \in Seq(Box) /\ Len(document) \in Nat
    BY <2>1, InWork DEF OnPageFrom
  <2>3. blocks' \in OnPageFrom(page, Len(document))
    BY <1>2, <2>2, ReconcileOrders DEF MatchText, Correct
  <2> QED BY <1>2, <2>1, <2>3, CorrectKeeps DEF MatchText, Correct
<1>3. CASE RecoverText
  <2>1. stage \in Repair /\ stage \in Ordered /\ stage' \in Ordered
    BY <1>3, Stages DEF RecoverText, Correct, Ordered
  <2>2. blocks' \in OnPageFrom(page, Len(document))
    BY <1>3, <2>1, InWork, RecoverOrders DEF RecoverText, Correct
  <2> QED BY <1>3, <2>1, <2>2, CorrectKeeps DEF RecoverText, Correct
<1>4. CASE SplitSections
  <2>1. stage \in Repair /\ stage \in Ordered /\ stage' \in Ordered
    BY <1>4, Stages DEF SplitSections, Correct, Ordered
  <2>2. blocks' \in OnPageFrom(page, Len(document))
    BY <1>4, <2>1, InWork, SplitMergedOrders DEF SplitSections, Correct
  <2> QED BY <1>4, <2>1, <2>2, CorrectKeeps DEF SplitSections, Correct
<1>5. CASE SplitHeadings
  <2>1. stage \in Repair /\ stage \in Ordered /\ stage' \in Ordered
    BY <1>5, Stages DEF SplitHeadings, Correct, Ordered
  <2>2. blocks' \in OnPageFrom(page, Len(document))
    <3>1. PICK readings \in [InlineCandidates(blocks, lines, page) -> Readings] :
              blocks' = SplitInline(blocks, lines, page, Len(document), readings)
      BY <1>5 DEF SplitHeadings, Correct
    <3> QED BY <2>1, <3>1, InWork, SplitInlineOrders
  <2> QED BY <1>5, <2>1, <2>2, CorrectKeeps DEF SplitHeadings, Correct
<1>6. CASE NameTitle
  <2>1. stage \in Repair /\ stage \in Ordered /\ stage' \in Ordered
    BY <1>6, Stages DEF NameTitle, Correct, Ordered
  <2>2. blocks' \in OnPageFrom(page, Len(document))
    BY <1>6, <2>1, InWork, TitleOrders DEF NameTitle, Correct
  <2> QED BY <1>6, <2>1, <2>2, CorrectKeeps DEF NameTitle, Correct
<1>7. CASE NameAuthors
  <2>1. stage \in Repair /\ stage \in Ordered /\ stage' \in Ordered
    BY <1>7, Stages DEF NameAuthors, Correct, Ordered
  <2>2. blocks' \in OnPageFrom(page, Len(document))
    BY <1>7, <2>1, InWork, AuthorsOrders DEF NameAuthors, Correct
  <2> QED BY <1>7, <2>1, <2>2, CorrectKeeps DEF NameAuthors, Correct
<1> QED BY <1>1, <1>2, <1>3, <1>4, <1>5, <1>6, <1>7

\* The elements of a sequence of a set are of that set.
LEMMA ElementsOf ==
    ASSUME NEW B, NEW s \in Seq(B)
    PROVE  Len(s) \in Nat /\ DOMAIN s = 1..Len(s) /\ \A i \in 1..Len(s) : s[i] \in B
OBVIOUS

\* Detection starts a page with blocks of that page.
LEMMA DetectKeeps == ASSUME ExtractionInv, Detect PROVE ExtractionInv'
<1>1. stage = "rendered" /\ page \in 0..Pages /\ page < Pages /\ Told(document, page)
  BY DEF Detect, ExtractionInv, DocumentInv
<1>2. PICK scene \in Scenes[page + 1] : Look(page + 1, scene, Len(document))
  BY DEF Detect
<1>3. page + 1 \in 1..Pages /\ (page + 1) - 1 = page
  BY <1>1, PagesNatural
<1>4. scene \in Scene
  BY <1>3, PagesNatural
<1>5. Len(document) \in Nat
  BY <1>1, SequenceFacts DEF Told, IsDocument
<1>6. blocks' \in Seq(BlockOn(page + 1))
  <2> DEFINE n == Len(scene.found)
             t == [i \in DOMAIN scene.found |->
                      [page |-> page + 1, type |-> scene.found[i].type, box |-> scene.found[i].box,
                       conf |-> scene.found[i].conf, order |-> Len(document) + i - 1]]
  <2>1. /\ n \in Nat /\ DOMAIN scene.found = 1..n
        /\ \A i \in 1..n : scene.found[i] \in [type : BlockTypes, box : Box, conf : Int]
    <3>1. scene.found \in Seq([type : BlockTypes, box : Box, conf : Int])
      BY <1>4 DEF Scene
    <3> QED BY <3>1, ElementsOf
  <2>2. t = [i \in 1..n |-> t[i]] /\ \A i \in 1..n : t[i] \in BlockOn(page + 1)
    <3>1. t = [i \in 1..n |-> t[i]]
      BY <2>1
    <3>2. ASSUME NEW i \in 1..n PROVE t[i] \in BlockOn(page + 1)
      <4> DEFINE f == scene.found[i]
                 k == Len(document) + i - 1
      <4>1. /\ f.type \in BlockTypes /\ f.box \in Box /\ f.conf \in Int
            /\ k \in Int
        BY <1>5, <2>1
      <4>2. t[i] = [page |-> page + 1, type |-> f.type, box |-> f.box, conf |-> f.conf, order |-> k]
        BY <2>1
      <4> HIDE DEF f, k, t
      <4> QED BY <4>1, <4>2 DEF BlockOn
    <3> QED BY <3>1, <3>2
  <2>3. blocks' = t
    BY <1>2 DEF Look
  <2> HIDE DEF t, n
  <2> QED BY <2>1, <2>2, <2>3, IsSequence
<1>7. page' = page + 1 /\ stage' = "detected" /\ lines' \in Seq(Box) /\ document' = document
  <2>1. scene.lines \in Seq(Line) /\ Line \subseteq Box
    BY <1>4 DEF Scene, Line
  <2>2. scene.lines \in Seq(Box)
    BY <2>1
  <2> QED BY <1>2, <2>2 DEF Look, Detect
<1>8. PageInv'
  BY <1>6, <1>7, Stages DEF PageInv
<1>9. DocumentInv'
  BY <1>1, <1>3, <1>7, Stages DEF DocumentInv
<1>10. CropInv'
  BY <1>7 DEF CropInv, TextFromOwnCrop
<1> QED BY <1>8, <1>9, <1>10 DEF ExtractionInv

\* the page joins the document
LEMMA FiledPage ==
    ASSUME NEW d, NEW p \in Nat, Told(d, p - 1), NEW s \in OnPageFrom(p, Len(d)), NEW e,
           p > 0, e = [i \in DOMAIN s |-> e[i]],
           \A i \in DOMAIN s : e[i].page = s[i].page /\ e[i].order = s[i].order,
           \A i \in DOMAIN s : DOMAIN e[i] = {"page", "type", "box", "conf", "order",
                                              "printed", "text", "crop"}
    PROVE  Told(d \o e, p)
<1> DEFINE f == d \o e
<1>1. Sequence(d) /\ Len(d) \in Nat /\ DOMAIN d = 1..Len(d)
  BY SequenceFacts DEF Told, IsDocument
<1>2. /\ Len(s) \in Nat /\ DOMAIN s = 1..Len(s)
      /\ \A i \in DOMAIN s : s[i].page = p
      /\ Len(s) >= 2 => \A i \in DOMAIN s : s[i].order = Len(d) + i - 1
  <2>1. s \in Seq(BlockOn(p)) /\ Numbered(s, Len(d))
    BY DEF OnPageFrom
  <2>2. Len(s) \in Nat /\ DOMAIN s = 1..Len(s) /\ \A i \in DOMAIN s : s[i] \in BlockOn(p)
    BY <2>1
  <2> QED BY <2>1, <2>2 DEF BlockOn, Numbered
<1>3. Sequence(e) /\ Len(e) = Len(s) /\ DOMAIN e = DOMAIN s
  <2> DEFINE B == {e[i] : i \in DOMAIN s}
  <2>1. e = [i \in 1..Len(s) |-> e[i]] /\ \A i \in 1..Len(s) : e[i] \in B
    BY <1>2
  <2> HIDE DEF B
  <2>2. e \in Seq(B) /\ Len(e) = Len(s)
    BY <1>2, <2>1, IsSequence
  <2>3. DOMAIN e = 1..Len(s) /\ e = [i \in 1..Len(e) |-> e[i]]
    BY <2>1, <2>2
  <2> QED BY <1>2, <2>2, <2>3, SequenceFacts
<1>4. /\ Sequence(f) /\ DOMAIN f = 1..(Len(d) + Len(e))
      /\ \A i \in DOMAIN d : i \in DOMAIN f /\ f[i] = d[i]
      /\ \A i \in DOMAIN e : Len(d) + i \in DOMAIN f /\ f[Len(d) + i] = e[i]
      /\ \A k \in DOMAIN f : k \in DOMAIN d \/ \E i \in DOMAIN e : k = Len(d) + i
  BY <1>1, <1>3, JoinedSequences
<1> HIDE DEF f
<1>5. \A k \in DOMAIN d : f[k].page \in 1..(p - 1) /\ f[k].page # p
  BY <1>4 DEF Told
<1>6. \A i \in DOMAIN e : f[Len(d) + i].page = p /\ f[Len(d) + i].order = s[i].order
  BY <1>2, <1>3, <1>4
<1>7. \A k \in DOMAIN f : f[k].page \in 1..p
  <2> TAKE k \in DOMAIN f
  <2>1. CASE k \in DOMAIN d
    BY <1>5, <2>1
  <2>2. CASE \E i \in DOMAIN e : k = Len(d) + i
    BY <1>6, <2>2
  <2> QED BY <1>4, <2>1, <2>2
<1>8. ASSUME NEW k \in DOMAIN f PROVE f[k].order = k - 1 \/ Alone(f, k)
  <2>1. CASE k \in DOMAIN d
    <3>1. CASE d[k].order = k - 1
      BY <1>4, <2>1, <3>1
    <3>2. CASE Alone(d, k)
      <4> SUFFICES ASSUME NEW j \in DOMAIN f, f[j].page = f[k].page PROVE j = k
        BY DEF Alone
      <4>1. f[j].page # p
        BY <1>5, <2>1
      <4>2. j \in DOMAIN d
        BY <1>4, <1>6, <4>1
      <4> QED BY <1>4, <2>1, <3>2, <4>2 DEF Alone
    <3> QED BY <2>1, <3>1, <3>2 DEF Told
  <2>2. CASE \E i \in DOMAIN e : k = Len(d) + i
    <3>1. PICK i \in DOMAIN e : k = Len(d) + i
      BY <2>2
    <3>2. CASE Len(s) >= 2
      BY <1>1, <1>2, <1>3, <1>6, <3>1, <3>2
    <3>3. CASE Len(s) < 2
      <4> SUFFICES ASSUME NEW j \in DOMAIN f, f[j].page = f[k].page PROVE j = k
        BY DEF Alone
      <4>1. j \notin DOMAIN d
        BY <1>5, <1>6, <3>1
      <4>2. PICK h \in DOMAIN e : j = Len(d) + h
        BY <1>4, <4>1
      <4>3. h = i
        BY <1>2, <1>3, <3>3
      <4> QED BY <3>1, <4>2, <4>3
    <3> QED BY <1>2, <3>2, <3>3
  <2> QED BY <1>4, <2>1, <2>2
<1>9. \A k \in DOMAIN f : DOMAIN f[k] = {"page", "type", "box", "conf", "order",
                                         "printed", "text", "crop"}
  <2> TAKE k \in DOMAIN f
  <2>1. CASE k \in DOMAIN d
    BY <1>4, <2>1 DEF Told, IsDocument
  <2>2. CASE \E i \in DOMAIN e : k = Len(d) + i
    BY <1>3, <1>4, <2>2
  <2> QED BY <1>4, <2>1, <2>2
<1> QED BY <1>4, <1>7, <1>8, <1>9 DEF Told, IsDocument, f

\* A page in order joins the document, and gives no number that was given before.
LEMMA FileKeeps == ASSUME ExtractionInv, File PROVE ExtractionInv'
<1> DEFINE e == [i \in DOMAIN blocks |-> Filed(blocks[i], Plain)]
<1>1. stage = "corrected" /\ stage \in Ordered /\ stage \in Repair /\ stage' = "rendered"
  BY DEF File, Ordered, Repair
<1>2. page \in 1..Pages /\ page \in Nat /\ page > 0 /\ page \in 0..Pages /\ Pages \in Nat
  BY <1>1, PagesNatural DEF ExtractionInv, DocumentInv
<1>3. Told(document, page - 1) /\ blocks \in OnPageFrom(page, Len(document))
  BY <1>1 DEF ExtractionInv, DocumentInv, PageInv
<1>4. /\ e = [i \in DOMAIN blocks |-> e[i]]
      /\ \A i \in DOMAIN blocks : e[i].page = blocks[i].page /\ e[i].order = blocks[i].order
      /\ \A i \in DOMAIN blocks : DOMAIN e[i] = {"page", "type", "box", "conf", "order",
                                                 "printed", "text", "crop"}
  BY DEF Filed
<1>5. document' = document \o e /\ page' = page
  BY DEF File
<1> HIDE DEF e
<1>6. Told(document \o e, page)
  BY <1>2, <1>3, <1>4, FiledPage
<1>7. PageInv'
  BY <1>1, Stages DEF PageInv
<1>8. DocumentInv'
  BY <1>1, <1>2, <1>5, <1>6, Stages, PagesNatural DEF DocumentInv, Pages
<1>9. CropInv'
  BY <1>1 DEF CropInv, TextFromOwnCrop
<1> QED BY <1>7, <1>8, <1>9 DEF ExtractionInv

\* A number is given twice only when a page has a single block.
LEMMA ConfirmKeeps == ASSUME ExtractionInv, Confirm PROVE ExtractionInv'
<1>1. /\ stage = "rendered" /\ stage' = "reviewed" /\ page = Pages
      /\ document' = document /\ Told(document, Pages)
  BY DEF Confirm, ExtractionInv, DocumentInv
<1>2. ASSUME ~LonePage, NEW i \in DOMAIN document PROVE document[i].order = i - 1
  <2>1. SUFFICES ASSUME Alone(document, i) PROVE FALSE
    BY <1>1 DEF Told
  <2>2. OnPage(document[i].page) = {i}
    BY <2>1 DEF Alone, OnPage
  <2>3. Cardinality({i}) = 1
    BY FS_Singleton
  <2>4. document[i].page \in 1..Pages
    BY <1>1 DEF Told
  <2> QED BY <1>2, <2>2, <2>3, <2>4 DEF LonePage
<1>3. \A i \in DOMAIN document : i \in Int
  BY <1>1, SequenceFacts DEF Told, IsDocument
<1>4. ~LonePage => \A i, j \in DOMAIN document : document[i].order = document[j].order => i = j
  <2> SUFFICES ASSUME ~LonePage, NEW i \in DOMAIN document, NEW j \in DOMAIN document,
                      document[i].order = document[j].order
               PROVE  i = j
    OBVIOUS
  <2>1. document[i].order = i - 1 /\ document[j].order = j - 1 /\ i \in Int /\ j \in Int
    BY <1>2, <1>3
  <2>2. i - 1 = j - 1
    BY <2>1
  <2> QED BY <2>1, <2>2
<1>5. LonePage' <=> LonePage
  BY <1>1 DEF LonePage, OnPage, Pages
<1>6. DocumentInv'
  BY <1>1, <1>4, <1>5, Stages DEF DocumentInv, Told
<1>7. PageInv' /\ CropInv'
  BY <1>1, Stages DEF PageInv, CropInv, TextFromOwnCrop
<1> QED BY <1>6, <1>7 DEF ExtractionInv

\* Results that are looked up by number are those of the block itself.
LEMMA RecognizeKeeps == ASSUME ExtractionInv, Recognize PROVE ExtractionInv'
<1>1. stage = "reviewed" /\ stage' = "recognized" /\ IsDocument(document)
  BY DEF Recognize, ExtractionInv, DocumentInv
<1>2. PICK read : document' = [i \in DOMAIN document |->
                      [document[i] EXCEPT !.text = read[ResultFor(i)], !.crop = ResultFor(i)]]
  BY DEF Recognize
<1>3. /\ DOMAIN document' = DOMAIN document
      /\ \A i \in DOMAIN document : document'[i].page = document[i].page
      /\ \A i \in DOMAIN document : document'[i].crop = ResultFor(i)
  BY <1>1, <1>2 DEF IsDocument
<1>4. LonePage' <=> LonePage
  BY <1>3 DEF LonePage, OnPage, Pages
<1>5. ASSUME ~LonePage, NEW i \in DOMAIN document PROVE ResultFor(i) = i
  <2> DEFINE same == {j \in DOMAIN document : document[j].order = document[i].order}
             Later(j) == \A k \in same : document[k].page < document[j].page
                             \/ (document[k].page = document[j].page /\ k <= j)
  <2>1. same = {i}
    BY <1>1, <1>5 DEF ExtractionInv, DocumentInv
  <2>2. i <= i
    BY <1>1, SequenceFacts DEF IsDocument
  <2>3. ResultFor(i) = CHOOSE j \in same : Later(j)
    BY DEF ResultFor
  <2>4. Later(i) /\ \A j \in same : j = i
    BY <2>1, <2>2
  <2> HIDE DEF same, Later
  <2> QED BY <2>1, <2>3, <2>4
<1>6. TextFromOwnCrop'
  <2> SUFFICES ASSUME ~LonePage', NEW i \in DOMAIN document' PROVE document'[i].crop = i
    BY DEF TextFromOwnCrop
  <2>1. ~LonePage /\ i \in DOMAIN document
    BY <1>3, <1>4
  <2>2. ResultFor(i) = i
    BY <1>5, <2>1
  <2> QED BY <1>3, <2>1, <2>2
<1>7. PageInv' /\ DocumentInv' /\ CropInv'
  BY <1>1, <1>6, Stages DEF PageInv, DocumentInv, CropInv
<1> QED BY <1>7 DEF ExtractionInv

\* Numbered blocks are a sequence,
LEMMA NumberedIsSequence ==
    ASSUME NEW n \in Nat, NEW t, t = [i \in 1..n |-> t[i]]
    PROVE  Sequence(t) /\ Len(t) = n
<1> DEFINE B == {t[i] : i \in 1..n}
<1>1. \A i \in 1..n : t[i] \in B
  OBVIOUS
<1> HIDE DEF B
<1>2. t \in Seq(B) /\ Len(t) = n
  BY <1>1, IsSequence
<1>3. DOMAIN t = 1..n
  BY <1>2
<1> QED BY <1>2, <1>3, SequenceFacts

\* so are words merged between blocks,
LEMMA MergedDomain ==
    ASSUME NEW b, NEW others, NEW start, Sequence(b), Sequence(others)
    PROVE  \E n \in Nat : DOMAIN MergeInReadingOrder(b, others, start) = 1..n
<1>1. Sequence(b \o others)
  BY JoinedSequences
<1>2. DOMAIN MergeInReadingOrder(b, others, start) = DOMAIN (b \o others)
  BY DEF MergeInReadingOrder, SortBy
<1> QED BY <1>1, <1>2, SequenceFacts

\* and what is kept of a sequence.
LEMMA OnlyDomain ==
    ASSUME NEW n \in Nat, NEW s, NEW keep \in SUBSET (1..n)
    PROVE  Cardinality(keep) \in Nat /\ DOMAIN Only(s, keep) = 1..Cardinality(keep)
<1>1. IsFiniteSet(keep)
  <2>1. IsFiniteSet(1..n)
    BY FS_Interval
  <2> QED BY <2>1, FS_Subset
<1> QED BY <1>1, FS_CardinalityType DEF Only

\* One pass gives a sequence of blocks.
LEMMA MappedDomain ==
    ASSUME NEW found, NEW words, NEW p, NEW start, Sequence(found), Sequence(words)
    PROVE  \E n \in Nat : DOMAIN MapResult(found, words, p, start) = 1..n
<1> DEFINE read == [i \in DOMAIN found |->
                       IF found[i].text = NoText /\ found[i].type = "table"
                       THEN [found[i] EXCEPT !.text.grid = WordRows(words, found[i].box)]
                       ELSE found[i]]
           keep == {i \in DOMAIN read : read[i].text # NoText
                                           \/ read[i].type \in {"figure", "formula"}}
           kept == Only(read, keep)
           made == [i \in DOMAIN kept |->
                       [page |-> p, type |-> kept[i].type, box |-> kept[i].box,
                        conf |-> kept[i].conf, order |-> start + i - 1, text |-> kept[i].text]]
           loose == {k \in DOMAIN words :
                       /\ words[k].text # NoText
                       /\ ~\E i \in DOMAIN made : Touches(words[k].box, made[i].box)}
           free == Only(words, loose)
           others == [k \in DOMAIN free |->
                         [page |-> p, type |-> "text", box |-> free[k].box, conf |-> 1,
                          order |-> 0, text |-> free[k].text]]
<1>1. MapResult(found, words, p, start) \in {made, MergeInReadingOrder(made, others, start)}
  <2>1. others = Unassigned(words, made, p)
    BY DEF Unassigned
  <2>2. MapResult(found, words, p, start) =
            LET rest == Unassigned(words, made, p)
            IN  IF rest = <<>> THEN made ELSE MergeInReadingOrder(made, rest, start)
    BY DEF MapResult
  <2> HIDE DEF made, others
  <2> QED BY <2>1, <2>2
<1>2. PICK n \in Nat : DOMAIN made = 1..n
  <2>1. keep \in SUBSET (1..Len(found)) /\ Len(found) \in Nat
    BY SequenceFacts
  <2> HIDE DEF read, keep
  <2>2. Cardinality(keep) \in Nat /\ DOMAIN kept = 1..Cardinality(keep)
    BY <2>1, OnlyDomain
  <2> HIDE DEF kept
  <2> QED BY <2>2
<1>3. PICK m \in Nat : DOMAIN others = 1..m
  <2>1. loose \in SUBSET (1..Len(words)) /\ Len(words) \in Nat
    BY SequenceFacts
  <2> HIDE DEF made, loose
  <2>2. Cardinality(loose) \in Nat /\ DOMAIN free = 1..Cardinality(loose)
    BY <2>1, OnlyDomain
  <2> HIDE DEF free
  <2> QED BY <2>2
<1>4. made = [i \in 1..n |-> made[i]] /\ others = [i \in 1..m |-> others[i]]
  <2>1. made = [i \in DOMAIN made |-> made[i]] /\ others = [i \in DOMAIN others |-> others[i]]
    <3> HIDE DEF kept, free
    <3> QED OBVIOUS
  <2> HIDE DEF made, others
  <2> QED BY <1>2, <1>3, <2>1
<1> HIDE DEF made, others
<1>5. Sequence(made) /\ Sequence(others)
  BY <1>4, NumberedIsSequence
<1> QED BY <1>1, <1>2, <1>5, MergedDomain


\* In one pass, a block is its own region.
LEMMA CroppedPage ==
    ASSUME NEW d, Sequence(d), \A i \in DOMAIN d : d[i].crop = i,
           NEW n \in Nat, NEW e, e = [i \in 1..n |-> e[i]],
           \A i \in 1..n : e[i].crop = Len(d) + i
    PROVE  Sequence(d \o e) /\ \A k \in DOMAIN (d \o e) : (d \o e)[k].crop = k
<1> DEFINE f == d \o e
<1>1. Sequence(e) /\ DOMAIN e = 1..n
  BY NumberedIsSequence, SequenceFacts
<1>2. /\ Sequence(f) /\ DOMAIN f = 1..(Len(d) + Len(e))
      /\ \A i \in DOMAIN d : i \in DOMAIN f /\ f[i] = d[i]
      /\ \A i \in DOMAIN e : Len(d) + i \in DOMAIN f /\ f[Len(d) + i] = e[i]
      /\ \A k \in DOMAIN f : k \in DOMAIN d \/ \E i \in DOMAIN e : k = Len(d) + i
  BY <1>1, JoinedSequences
<1> HIDE DEF f
<1>3. \A k \in DOMAIN f : f[k].crop = k
  BY <1>1, <1>2
<1> QED BY <1>2, <1>3 DEF f

\* A page read in one pass keeps the invariant.
LEMMA ReadPageKeeps == ASSUME ExtractionInv, ReadPage PROVE ExtractionInv'
<1>1. /\ stage = "batch" /\ stage' = "batch" /\ page < Len(Prints) /\ page' = page + 1
      /\ page \in Nat /\ Sequence(document) /\ \A i \in DOMAIN document : document[i].crop = i
  BY DEF ReadPage, ExtractionInv, CropInv
<1>2. PICK print \in Prints[page + 1] :
          /\ blocks' = MapResult(print.found, print.words, page + 1, Len(document))
          /\ document' = document \o [i \in DOMAIN blocks' |->
                 [Filed(blocks'[i], Plain) EXCEPT !.text = blocks'[i].text,
                                                  !.crop = Len(document) + i]]
  BY DEF ReadPage
<1>3. Sequence(print.found) /\ Sequence(print.words)
  <2>1. page + 1 \in 1..Len(Prints)
    BY <1>1, PrintsAssumption
  <2> QED BY <2>1, PrintsAssumption
<1>4. PICK n \in Nat : DOMAIN blocks' = 1..n
  BY <1>2, <1>3, MappedDomain
<1>5. PICK e : e = [i \in 1..n |-> [Filed(blocks'[i], Plain) EXCEPT
                                       !.text = blocks'[i].text, !.crop = Len(document) + i]]
  OBVIOUS
<1>6. document' = document \o e
  BY <1>2, <1>4, <1>5
<1>7. e = [i \in 1..n |-> e[i]] /\ \A i \in 1..n : e[i].crop = Len(document) + i
  BY <1>5 DEF Filed
<1>8. Sequence(document') /\ \A k \in DOMAIN document' : document'[k].crop = k
  <2> DEFINE f == document \o e
  <2>1. Sequence(f) /\ \A k \in DOMAIN f : f[k].crop = k
    BY <1>1, <1>7, CroppedPage
  <2> HIDE DEF f
  <2>2. document' = f
    BY <1>6 DEF f
  <2> QED BY <2>1, <2>2
<1>9. PageInv' /\ DocumentInv'
  BY <1>1, Stages DEF PageInv, DocumentInv
<1>10. CropInv'
  BY <1>1, <1>8 DEF CropInv, TextFromOwnCrop
<1> QED BY <1>9, <1>10 DEF ExtractionInv

\* What comes after the pages is about no page in work, and moves no block.
LEMMA LaterStepsKeep ==
    ASSUME ExtractionInv, EndOfPages \/ Filter \/ MakeParagraphs
    PROVE  ExtractionInv'
<1>1. /\ stage' \in {"recognized", "filtered", "paragraphs"} /\ document' = document
      /\ stage \in {"batch", "recognized", "filtered"}
  BY DEF EndOfPages, Filter, MakeParagraphs
<1>2. LonePage' <=> LonePage
  BY <1>1 DEF LonePage, OnPage, Pages
<1>3. ~LonePage => \A i \in DOMAIN document : document[i].crop = i
  BY <1>1 DEF ExtractionInv, CropInv, TextFromOwnCrop
<1>4. CropInv'
  BY <1>1, <1>2, <1>3 DEF CropInv, TextFromOwnCrop
<1>5. PageInv' /\ DocumentInv'
  BY <1>1, Stages DEF PageInv, DocumentInv
<1> QED BY <1>4, <1>5 DEF ExtractionInv

\* Every step keeps the invariant.
LEMMA ExtractionNext == ExtractionInv /\ [Next]_vars => ExtractionInv'
<1> SUFFICES ASSUME ExtractionInv, [Next]_vars PROVE ExtractionInv'
  OBVIOUS
<1>1. CASE UNCHANGED vars
  <2>1. UNCHANGED <<page, stage, blocks, lines, document>>
    BY <1>1 DEF vars
  <2>2. LonePage' <=> LonePage
    BY <2>1 DEF LonePage, OnPage, Pages
  <2>3. PageInv'
    BY <2>1 DEF ExtractionInv, PageInv
  <2>4. DocumentInv'
    BY <2>1, <2>2 DEF ExtractionInv, DocumentInv
  <2>5. CropInv'
    BY <2>1, <2>2 DEF ExtractionInv, CropInv, TextFromOwnCrop
  <2> QED BY <2>3, <2>4, <2>5 DEF ExtractionInv
<1>2. CASE Next
  BY <1>2, CorrectionsKeep, DetectKeeps, FileKeeps, ConfirmKeeps, RecognizeKeeps,
     ReadPageKeeps, LaterStepsKeep DEF Next
<1> QED BY <1>1, <1>2

\* Whatever is found on the pages, the invariant holds all along.
THEOREM ExtractionInvariant == Spec => []ExtractionInv
BY ExtractionInit, ExtractionNext, PTL DEF Spec

-----------------------------------------------------------------------------
(* No line of the page in work is lost. *)

Renamed == {"inlined", "titled", "corrected"}
CoverInv ==
    /\ covered.finally = covered.detected
    /\ stage \in Repair => lines \in Seq(Line)
    /\ stage = "recovered" => \A k \in DOMAIN lines : CoveredBy(blocks, lines[k])
    /\ stage = "split" => \A k \in DOMAIN lines : Mostly(blocks, lines[k])
    /\ stage \in Renamed =>
           \A k \in DOMAIN lines : Mostly(blocks, lines[k]) \/ Halved(blocks, lines[k])

\* It holds before any page is read,
LEMMA CoverInit == Init => CoverInv
BY DEF Init, CoverInv, Repair, Ordered, Renamed

\* and of a page whose lines have just been found.
LEMMA DetectCovers == ASSUME ExtractionInv, CoverInv, Detect PROVE CoverInv'
<1>1. stage = "rendered" /\ page \in 0..Pages /\ page < Pages
  BY DEF Detect, ExtractionInv, DocumentInv
<1>2. PICK scene \in Scenes[page + 1] : Look(page + 1, scene, Len(document))
  BY DEF Detect
<1>3. page + 1 \in 1..Pages
  BY <1>1, PagesNatural
<1>4. scene \in Scene
  BY <1>3, PagesNatural
<1>5. lines' \in Seq(Line) /\ stage' = "detected" /\ covered' = covered
  BY <1>2, <1>4 DEF Scene, Look, Detect
<1> QED BY <1>5 DEF CoverInv, Renamed

\* No correction loses a line that was found.
LEMMA CorrectionsCover ==
    ASSUME ExtractionInv, CoverInv,
           Arrange \/ MatchText \/ RecoverText \/ SplitSections \/ SplitHeadings
               \/ NameTitle \/ NameAuthors
    PROVE  CoverInv'
<1>1. /\ stage \in Repair /\ stage' \in Repair /\ lines \in Seq(Line) /\ lines' = lines
      /\ covered.finally = covered.detected
  BY DEF Arrange, MatchText, RecoverText, SplitSections, SplitHeadings, NameTitle, NameAuthors,
         Correct, Repair, Ordered, CoverInv
<1>2. /\ Len(document) \in Nat
      /\ stage \in Ordered => blocks \in OnPageFrom(page, Len(document))
  BY <1>1, InWork
<1>3. CASE Arrange \/ MatchText
  <2>1. stage' \in {"arranged", "matched"} /\ covered' = covered
    BY <1>3 DEF Arrange, MatchText, Correct
  <2> QED BY <1>1, <2>1 DEF CoverInv, Renamed
<1>4. CASE RecoverText
  <2>1. /\ stage = "matched" /\ stage' = "recovered"
        /\ blocks' = RecoverUncovered(blocks, lines, page, Len(document))
        /\ covered' = [detected |-> covered.detected + Len(lines),
                       finally |-> covered.finally + FinallyCovered(blocks', lines)]
    BY <1>4 DEF RecoverText, Correct
  <2>2. blocks \in OnPageFrom(page, Len(document))
    BY <1>2, <2>1 DEF Ordered
  <2>3. \A k \in DOMAIN lines : CoveredBy(blocks', lines[k])
    BY <1>1, <1>2, <2>1, <2>2, RecoverCovers
  <2>4. Len(lines) \in Nat /\ DOMAIN lines = 1..Len(lines)
    BY <1>1
  <2>5. FinallyCovered(blocks', lines) = Len(lines)
    BY <2>3, <2>4, FinallyAll
  <2>6. covered'.finally = covered'.detected
    BY <1>1, <2>1, <2>5
  <2> QED BY <1>1, <2>1, <2>3, <2>6 DEF CoverInv, Renamed
<1>5. CASE SplitSections
  <2>1. /\ stage = "recovered" /\ stage' = "split" /\ covered' = covered
        /\ blocks' = SplitMerged(blocks, lines, Len(document))
    BY <1>5 DEF SplitSections, Correct
  <2>2. blocks \in OnPageFrom(page, Len(document))
    BY <1>2, <2>1 DEF Ordered
  <2>3. \A k \in DOMAIN lines : CoveredBy(blocks, lines[k])
    BY <2>1 DEF CoverInv
  <2>4. \A k \in DOMAIN lines : Mostly(blocks', lines[k])
    BY <1>1, <1>2, <2>1, <2>2, <2>3, SplitMergedKeeps
  <2> QED BY <1>1, <2>1, <2>4 DEF CoverInv, Renamed
<1>6. CASE SplitHeadings
  <2>1. PICK readings \in [InlineCandidates(blocks, lines, page) -> Readings] :
            /\ stage = "split" /\ stage' = "inlined" /\ covered' = covered
            /\ blocks' = SplitInline(blocks, lines, page, Len(document), readings)
    BY <1>6 DEF SplitHeadings, Correct
  <2>2. blocks \in OnPageFrom(page, Len(document))
    BY <1>2, <2>1 DEF Ordered
  <2>3. \A k \in DOMAIN lines : Mostly(blocks, lines[k])
    BY <2>1 DEF CoverInv
  <2>4. \A k \in DOMAIN lines : Mostly(blocks', lines[k]) \/ Halved(blocks', lines[k])
    BY <1>1, <1>2, <2>1, <2>2, <2>3, SplitInlineKeeps
  <2> QED BY <1>1, <2>1, <2>4 DEF CoverInv, Renamed
<1>7. CASE NameTitle \/ NameAuthors
  <2>1. stage \in Renamed /\ stage \in Ordered /\ stage' \in Renamed /\ covered' = covered
    BY <1>7 DEF NameTitle, NameAuthors, Correct, Renamed, Ordered
  <2>2. KeepsPlaces(blocks, blocks')
    <3>1. blocks \in OnPageFrom(page, Len(document))
      BY <1>2, <2>1
    <3>2. blocks' = RecoverTitle(blocks, lines, page) \/ blocks' = RecoverAuthors(blocks)
      BY <1>7 DEF NameTitle, NameAuthors, Correct
    <3>3. KeepsPlaces(blocks, RecoverTitle(blocks, lines, page))
      BY <1>2, <3>1, TitleOrders
    <3>4. KeepsPlaces(blocks, RecoverAuthors(blocks))
      BY <1>2, <3>1, AuthorsOrders
    <3> QED BY <3>2, <3>3, <3>4
  <2>3. \A k \in DOMAIN lines : Mostly(blocks', lines[k]) \/ Halved(blocks', lines[k])
    BY <2>1, <2>2, KeptStays DEF CoverInv
  <2>4. stage' # "recovered" /\ stage' # "split"
    BY <2>1 DEF Renamed
  <2> QED BY <1>1, <2>1, <2>3, <2>4 DEF CoverInv
<1> QED BY <1>3, <1>4, <1>5, <1>6, <1>7

\* Every step keeps the lines of the page in work.
LEMMA CoverNext == ExtractionInv /\ CoverInv /\ [Next]_vars => CoverInv'
<1> SUFFICES ASSUME ExtractionInv, CoverInv, [Next]_vars PROVE CoverInv'
  OBVIOUS
<1>1. CASE UNCHANGED vars
  BY <1>1 DEF vars, CoverInv
<1>2. CASE File \/ Confirm \/ Recognize \/ ReadPage \/ EndOfPages \/ Filter \/ MakeParagraphs
  <2>1. /\ covered' = covered
        /\ stage' \in {"rendered", "reviewed", "recognized", "batch", "filtered", "paragraphs"}
    BY <1>2 DEF File, Confirm, Recognize, ReadPage, EndOfPages, Filter, MakeParagraphs
  <2>2. stage' \notin Repair /\ stage' \notin Renamed
    BY <2>1 DEF Repair, Ordered, Renamed
  <2> QED BY <2>1, <2>2 DEF CoverInv
<1>3. CASE Detect
  BY <1>3, DetectCovers
<1>4. CASE Arrange \/ MatchText \/ RecoverText \/ SplitSections \/ SplitHeadings
               \/ NameTitle \/ NameAuthors
  BY <1>4, CorrectionsCover
<1> QED BY <1>1, <1>2, <1>3, <1>4 DEF Next

-----------------------------------------------------------------------------
(***************************************************************************)
(* After each correction of a page, the blocks come in the order in which  *)
(* a page of one or two columns is read, whatever was detected on it and   *)
(* whatever lines were found.                                              *)
(***************************************************************************)
THEOREM ReadingOrderAlwaysKept == Spec => []ReadingOrderKept
<1>1. ExtractionInv => ReadingOrderKept
  BY DEF ExtractionInv, PageInv, OnPageFrom, InReadingOrder, ReadingOrderKept
<1> QED BY <1>1, ExtractionInvariant, PTL

(***************************************************************************)
(* The numbers that results are looked up by are given once in a document, *)
(* pages with a single block aside, so every block gets the text that was  *)
(* read from its own region.                                               *)
(***************************************************************************)
THEOREM TextAlwaysFromOwnCrop == Spec => []TextFromOwnCrop
<1>1. ExtractionInv => TextFromOwnCrop
  BY DEF ExtractionInv, CropInv
<1> QED BY <1>1, ExtractionInvariant, PTL

(***************************************************************************)
(* Once forgotten lines were recovered, the count of covered lines is the  *)
(* count of detected ones, and at least three fifths of every line's area  *)
(* stay in the blocks that OCR will crop, however the headings are split.  *)
(***************************************************************************)
THEOREM LinesAlwaysStayCovered == Spec => []LinesStayCovered
<1>1. ASSUME ExtractionInv, CoverInv PROVE LinesStayCovered
  <2> SUFFICES ASSUME stage \in Repaired, NEW k \in DOMAIN lines
               PROVE  Reaches(Cardinality({c \in Cells(lines[k]) : InSome(blocks, c[1], c[2])}),
                              Area(lines[k]), LineOverlap)
    BY <1>1 DEF LinesStayCovered, CoverInv
  <2>1. /\ stage \in Repair /\ stage \in Ordered
        /\ stage = "recovered" \/ stage = "split" \/ stage \in Renamed
    BY DEF Repaired, Repair, Ordered, Renamed
  <2>2. lines[k] \in Line /\ \A i \in DOMAIN blocks : blocks[i].box \in Box
    <3>1. lines \in Seq(Line) /\ blocks \in Seq(BlockOn(page))
      BY <1>1, <2>1, InWork DEF CoverInv, OnPageFrom
    <3>2. \A i \in DOMAIN blocks : blocks[i] \in BlockOn(page)
      BY <3>1
    <3>3. lines[k] \in Line
      BY <3>1
    <3> QED BY <3>2, <3>3 DEF BlockOn
  <2>3. Mostly(blocks, lines[k]) \/ Halved(blocks, lines[k])
    BY <1>1, <2>1, <2>2, CoveredMostly DEF CoverInv
  <2> QED BY <2>2, <2>3, KeptCounts
<1> QED BY <1>1, ExtractionInvariant, CoverInit, CoverNext, PTL DEF Spec
=============================================================================
