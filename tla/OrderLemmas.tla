---------------------------- MODULE OrderLemmas ----------------------------
(***************************************************************************)
(* Facts about orders, lists and sums, from which the theorems about       *)
(* sessions, rankings, books and sizes are proved: least and greatest      *)
(* elements, a set put in order, a list sorted, sifted or cut, a sum over  *)
(* a set and what a division leaves.  A set of naturals has a least        *)
(* element because < is well-founded on them, so what holds at the start   *)
(* and from each place to the next holds at every place; that is all the   *)
(* induction here, and a recursive function is shown to exist by it.       *)
(***************************************************************************)
EXTENDS Lists, FiniteSetTheorems,
        WellFoundedInduction, TLAPS

\* A set of naturals that is not empty has a least element.
LEMMA LeastExists ==
  ASSUME NEW S, S \subseteq Nat, S # {}
  PROVE  \E x \in S : \A y \in S : x <= y
<1>. DEFINE Less == OpToRel(<, Nat)
<1>1. IsWellFoundedOn(Less, Nat)
  BY NatLessThanWellFounded
<1>. HIDE DEF Less
<1>2. PICK x \in S : \A y \in S : ~(<<y, x>> \in Less)
  BY <1>1, WFMin
<1>3. \A y \in S : ~(y < x)
  BY <1>2 DEF Less, OpToRel
<1>. QED BY <1>3

\* If it has a bound, it has a greatest one.
LEMMA GreatestExists ==
  ASSUME NEW S, S \subseteq Nat, S # {}, NEW n \in Nat, \A x \in S : x <= n
  PROVE  \E x \in S : \A y \in S : y <= x
<1>. DEFINE Bounds == {b \in Nat : \A y \in S : y <= b}
<1>1. PICK b \in Bounds : \A c \in Bounds : b <= c
  BY LeastExists
<1>2. CASE b \in S
  BY <1>2
<1>3. CASE b \notin S
  <2>1. \A y \in S : y < b
    BY <1>3
  <2>2. b - 1 \in Nat
    <3>1. PICK y \in S : TRUE
      OBVIOUS
    <3>. QED BY <2>1, <3>1
  <2>3. \A y \in S : y <= b - 1
    BY <2>1
  <2>. QED BY <1>1, <2>2, <2>3
<1>. QED BY <1>2, <1>3

\* Min of FiniteSetsExt.
LEMMA MinIsLeast ==
  ASSUME NEW S, S \subseteq Nat, S # {}
  PROVE  Min(S) \in S /\ \A x \in S : Min(S) <= x
BY LeastExists DEF Min

LEMMA MinIs ==
  ASSUME NEW S, S \subseteq Nat, NEW m \in S, \A x \in S : m <= x
  PROVE  Min(S) = m
<1>1. Min(S) \in S /\ Min(S) <= m
  BY MinIsLeast
<1>2. m <= Min(S) /\ m \in Nat /\ Min(S) \in Nat
  BY <1>1
<1>. QED BY <1>1, <1>2

\* Max of FiniteSetsExt.
LEMMA MaxIsGreatest ==
  ASSUME NEW S, S \subseteq Nat, S # {}, NEW n \in Nat, \A x \in S : x <= n
  PROVE  Max(S) \in S /\ \A x \in S : x <= Max(S)
<1>1. \E x \in S : \A y \in S : x >= y
  BY GreatestExists
<1>. QED BY <1>1 DEF Max

LEMMA MaxIs ==
  ASSUME NEW S, S \subseteq Nat, NEW m \in S, \A x \in S : x <= m
  PROVE  Max(S) = m
<1>1. Max(S) \in S /\ m <= Max(S)
  BY MaxIsGreatest
<1>2. Max(S) <= m /\ m \in Nat /\ Max(S) \in Nat
  BY <1>1
<1>. QED BY <1>1, <1>2
-----------------------------------------------------------------------------
(* Counting up *)

\* Induction up to a bound, over the set of the numbers a fact holds of.
LEMMA UpTo ==
  ASSUME NEW N \in Nat, NEW P, 0 \in P, \A n \in 1..N : n - 1 \in P => n \in P
  PROVE  \A n \in 0..N : n \in P
<1>. DEFINE Bad == {n \in 0..N : n \notin P}
<1>. SUFFICES ASSUME Bad # {} PROVE FALSE
  OBVIOUS
<1>1. PICK n \in Bad : \A m \in Bad : n <= m
  <2>1. Bad \subseteq Nat
    OBVIOUS
  <2>. HIDE DEF Bad
  <2>. QED BY <2>1, LeastExists
<1>2. n \in 1..N /\ n - 1 \in 0..N /\ ~(n <= n - 1)
  BY <1>1
<1>. QED BY <1>1, <1>2

\* What is built step by step up to a bound exists.
Chain(g, N, V, a, F) ==
  g \in [0..N -> V] /\ g[0] = a /\ \A n \in 1..N : g[n] = F[n][g[n - 1]]

LEMMA ChainExists ==
  ASSUME NEW N \in Nat, NEW V, NEW a \in V, NEW F \in [1..N -> [V -> V]]
  PROVE  \E g : Chain(g, N, V, a, F)
<1>. DEFINE Built(m, g) == g[0] = a /\ \A n \in 1..m : g[n] = F[n][g[n - 1]]
            P == {m \in 0..N : \E g \in [0..m -> V] : Built(m, g)}
<1>1. 0 \in P
  <2>1. [n \in 0..0 |-> a] \in [0..0 -> V] /\ Built(0, [n \in 0..0 |-> a])
    OBVIOUS
  <2>2. 0 \in 0..N
    OBVIOUS
  <2>. HIDE DEF Built
  <2>. QED BY <2>1, <2>2
<1>2. ASSUME NEW m \in 1..N, m - 1 \in P PROVE m \in P
  <2>1. PICK g \in [0..m - 1 -> V] : Built(m - 1, g)
    BY <1>2
  <2>2. m \in Nat /\ m - 1 \in 0..m - 1 /\ 0 \in 0..m - 1 /\ g[m - 1] \in V
    BY <2>1
  <2>3. F[m] \in [V -> V]
    OBVIOUS
  <2>4. F[m][g[m - 1]] \in V
    BY <2>2, <2>3
  <2>. DEFINE h == [n \in 0..m |-> IF n = m THEN F[m][g[m - 1]] ELSE g[n]]
  <2>5. \A n \in 0..m : n # m => n \in 0..m - 1
    BY <2>2
  <2>6. h \in [0..m -> V]
    BY <2>1, <2>4, <2>5
  <2>7. h[m] = F[m][g[m - 1]] /\ h[0] = a /\ \A n \in 0..m - 1 : h[n] = g[n]
    BY <2>1, <2>2
  <2>. HIDE DEF h
  <2>8. \A n \in 1..m : n = m \/ n \in 1..m - 1
    BY <2>2
  <2>9. \A n \in 1..m : n - 1 \in 0..m - 1
    BY <2>2
  <2>10. \A n \in 1..m - 1 : n \in 0..m - 1
    BY <2>2
  <2>11. Built(m, h)
    BY <2>1, <2>7, <2>8, <2>9, <2>10
  <2>. QED BY <2>6, <2>11
<1>3. \A m \in 0..N : m \in P
  <2>. HIDE DEF P
  <2>. QED BY <1>1, <1>2, UpTo
<1>4. N \in P
  BY <1>3
<1>. QED BY <1>4 DEF Chain
-----------------------------------------------------------------------------
(* Lists *)

\* A strict order of a set, given by its pairs.
StrictOrder(S, R) ==
  /\ \A s \in S : <<s, s>> \notin R
  /\ \A s, t, u \in S : <<s, t>> \in R /\ <<t, u>> \in R => <<s, u>> \in R
  /\ \A s, t \in S : s # t => <<s, t>> \in R \/ <<t, s>> \in R

\* A list that puts the members of a set in an order has each of them once.
Lists(q, S, R) ==
  /\ q \in Seq(S) /\ Len(q) = Cardinality(S) /\ ToSet(q) = S /\ IsInjective(q)
  /\ \A i, j \in DOMAIN q : i < j => <<q[i], q[j]>> \in R

\* Every finite set can be put in a strict order: the place of a member is the number of
\* those before it, and one more.
LEMMA ArrangedIs ==
  ASSUME NEW S, IsFiniteSet(S), NEW R, StrictOrder(S, R)
  PROVE  Lists(Arranged(S, R), S, R) /\ Cardinality(S) \in Nat
<1>. DEFINE n == Cardinality(S)
            Ahead(s) == {t \in S : <<t, s>> \in R}
            ahead == [s \in S |-> Cardinality(Ahead(s))]
            place == [s \in S |-> ahead[s] + 1]
<1>1. n \in Nat
  BY FS_CardinalityType
<1>2. ASSUME NEW s \in S PROVE IsFiniteSet(Ahead(s)) /\ Cardinality(Ahead(s)) \in Nat
  BY FS_Subset, FS_CardinalityType
<1>3. ASSUME NEW s \in S PROVE Cardinality(Ahead(s)) < n
  <2>1. Ahead(s) \in SUBSET S /\ Ahead(s) # S
    BY DEF StrictOrder
  <2>2. Cardinality(Ahead(s)) <= n /\ Cardinality(Ahead(s)) # n
    BY <2>1, FS_Subset
  <2>. QED BY <1>1, <1>2, <2>2
<1>4. ASSUME NEW s \in S, NEW t \in S, <<s, t>> \in R
      PROVE  Cardinality(Ahead(s)) < Cardinality(Ahead(t))
  <2>1. Ahead(s) \in SUBSET Ahead(t) /\ s \in Ahead(t) /\ s \notin Ahead(s)
    BY <1>4 DEF StrictOrder
  <2>2. Cardinality(Ahead(s)) <= Cardinality(Ahead(t)) /\ Cardinality(Ahead(s)) # Cardinality(Ahead(t))
    BY <1>2, <2>1, FS_Subset
  <2>. QED BY <1>2, <2>2
<1>5. /\ place \in [S -> 1..n]
      /\ \A s, t \in S : <<s, t>> \in R => place[s] < place[t]
  <2>1. \A s \in S : ahead[s] \in Nat /\ ahead[s] < n
    BY <1>2, <1>3
  <2>2. \A s, t \in S : <<s, t>> \in R => ahead[s] < ahead[t]
    BY <1>4
  <2>. HIDE DEF ahead, n
  <2>3. place \in [S -> 1..n]
    BY <1>1, <2>1
  <2>4. \A s, t \in S : <<s, t>> \in R => place[s] < place[t]
    BY <2>1, <2>2
  <2>. QED BY <2>3, <2>4
<1>6. IsFiniteSet(1..n) /\ Cardinality(1..n) = n
  BY <1>1, FS_Interval, 1 \in Int
<1>. HIDE DEF place, ahead, n, Ahead
<1>7. \A s \in S : place[s] \in Nat
  BY <1>1, <1>5
<1>8. \A s, t \in S : place[s] = place[t] => s = t
  <2>1. \A s, t \in S : <<s, t>> \in R => place[s] # place[t]
    BY <1>5, <1>7
  <2>. QED BY <2>1 DEF StrictOrder
<1>9. place \in Injection(S, 1..n)
  BY <1>5, <1>8 DEF Injection, IsInjective
<1>10. \A i \in 1..n : \E s \in S : place[s] = i
  <2>1. place \in Surjection(S, 1..n)
    BY <1>6, <1>9, FS_Injection DEF n
  <2>. QED BY <2>1 DEF Surjection
<1>11. PICK q \in [1..n -> S] : \A i \in 1..n : place[q[i]] = i
  <2>1. [i \in 1..n |-> CHOOSE s \in S : place[s] = i] \in [1..n -> S]
    BY <1>10
  <2>2. \A i \in 1..n : place[CHOOSE s \in S : place[s] = i] = i
    BY <1>10
  <2>. QED BY <2>1, <2>2
<1>12. \A i, j \in 1..n : i < j => <<q[i], q[j]>> \in R
  <2>. SUFFICES ASSUME NEW i \in 1..n, NEW j \in 1..n, i < j
                PROVE  <<q[i], q[j]>> \in R
    OBVIOUS
  <2>1. q[i] \in S /\ q[j] \in S /\ place[q[i]] = i /\ place[q[j]] = j
    BY <1>11
  <2>2. i \in Nat /\ j \in Nat /\ i < j
    BY <1>1
  <2>3. q[i] # q[j]
    BY <2>1, <2>2
  <2>4. <<q[j], q[i]>> \notin R
    <3>1. ~(place[q[j]] < place[q[i]])
      BY <2>1, <2>2
    <3>. QED BY <1>5, <2>1, <3>1
  <2>. QED BY <2>1, <2>3, <2>4 DEF StrictOrder
<1>13. /\ Arranged(S, R) \in [1..n -> S]
       /\ \A i, j \in 1..n : i < j => <<Arranged(S, R)[i], Arranged(S, R)[j]>> \in R
  BY <1>12 DEF Arranged, n
<1>. DEFINE a == Arranged(S, R)
<1>14. a \in [1..n -> S] /\ \A i, j \in 1..n : i < j => <<a[i], a[j]>> \in R
  BY <1>13
<1>. HIDE DEF a
<1>15. \A i, j \in 1..n : a[i] = a[j] => i = j
  <2>1. \A i, j \in 1..n : i < j => a[i] # a[j]
    BY <1>14 DEF StrictOrder
  <2>2. \A i, j \in 1..n : i < j \/ j < i \/ i = j
    BY <1>1
  <2>. QED BY <2>1, <2>2
<1>16. a \in Surjection(1..n, S)
  <2>1. a \in Injection(1..n, S)
    BY <1>14, <1>15 DEF Injection, IsInjective
  <2>. QED BY <1>6, <2>1, FS_Injection DEF n
<1>17. ToSet(a) = S
  BY <1>14, <1>16 DEF Surjection, ToSet
<1>18. a \in Seq(S) /\ Len(a) = n /\ DOMAIN a = 1..n
  BY <1>1, <1>14
<1>. QED BY <1>1, <1>14, <1>15, <1>17, <1>18 DEF Lists, IsInjective, a, n

\* A list without repetitions is as long as the set of its members is large.
LEMMA LengthOfList ==
  ASSUME NEW S, NEW q \in Seq(S), IsInjective(q)
  PROVE  /\ IsFiniteSet(ToSet(q)) /\ Cardinality(ToSet(q)) = Len(q)
         /\ ToSet(q) \subseteq S /\ Len(q) \in Nat
<1>1. PICK n \in Nat : n = Len(q)
  OBVIOUS
<1>2. DOMAIN q = 1..n /\ q \in [1..n -> S]
  BY <1>1
<1>3. q \in Surjection(1..n, ToSet(q)) /\ q \in Injection(1..n, ToSet(q))
  <2>1. \A i \in 1..n : q[i] \in ToSet(q)
    BY <1>2 DEF ToSet
  <2>2. q \in [1..n -> ToSet(q)]
    BY <1>2, <2>1
  <2>3. \A t \in ToSet(q) : \E i \in 1..n : q[i] = t
    BY <1>2 DEF ToSet
  <2>. QED BY <1>2, <2>2, <2>3 DEF Surjection, Injection, IsInjective
<1>4. IsFiniteSet(1..n) /\ Cardinality(1..n) = n
  <2>1. n \in Int /\ 1 \in Int
    OBVIOUS
  <2>2. IsFiniteSet(1..n) /\ Cardinality(1..n) = IF 1 > n THEN 0 ELSE n - 1 + 1
    BY <2>1, FS_Interval
  <2>. QED BY <2>2
<1>5. IsFiniteSet(ToSet(q)) /\ Cardinality(ToSet(q)) = n
  BY <1>3, <1>4, FS_Surjection
<1>6. ToSet(q) \subseteq S
  BY <1>2 DEF ToSet
<1>. QED BY <1>1, <1>5, <1>6

\* A list with one name more.
LEMMA AppendIs ==
  ASSUME NEW S, NEW q \in Seq(S), NEW s \in S
  PROVE  /\ Append(q, s) \in Seq(S) /\ Len(Append(q, s)) = Len(q) + 1
         /\ ToSet(Append(q, s)) = ToSet(q) \cup {s}
         /\ IsInjective(q) /\ s \notin ToSet(q) => IsInjective(Append(q, s))
<1>1. PICK n \in Nat : n = Len(q)
  OBVIOUS
<1>2. PICK p : p = Append(q, s)
  OBVIOUS
<1>3. p \in Seq(S) /\ Len(p) = n + 1 /\ DOMAIN p = 1..n + 1 /\ DOMAIN q = 1..n
  BY <1>1, <1>2
<1>4. p[n + 1] = s /\ \A i \in 1..n : p[i] = q[i]
  BY <1>1, <1>2
<1>5. \A i \in 1..n + 1 : i = n + 1 \/ i \in 1..n
  BY <1>1
<1>6. n + 1 \in 1..n + 1 /\ \A i \in 1..n : i \in 1..n + 1
  BY <1>1
<1>7. ToSet(p) = ToSet(q) \cup {s}
  BY <1>3, <1>4, <1>5, <1>6 DEF ToSet
<1>8. ASSUME IsInjective(q), s \notin ToSet(q) PROVE IsInjective(p)
  BY <1>3, <1>4, <1>5, <1>8 DEF ToSet, IsInjective
<1>. QED BY <1>1, <1>2, <1>3, <1>7, <1>8

\* Two lists, one after the other.
LEMMA ConcatIs ==
  ASSUME NEW S, NEW p \in Seq(S), NEW q \in Seq(S)
  PROVE  /\ p \o q \in Seq(S) /\ ToSet(p \o q) = ToSet(p) \cup ToSet(q)
         /\ IsInjective(p) /\ IsInjective(q) /\ ToSet(p) \cap ToSet(q) = {}
              => IsInjective(p \o q)
<1>1. PICK m \in Nat, n \in Nat : m = Len(p) /\ n = Len(q)
  OBVIOUS
<1>2. PICK r : r = p \o q
  OBVIOUS
<1>3. r \in Seq(S) /\ Len(r) = m + n
  BY <1>1, <1>2
<1>4. DOMAIN p = 1..m /\ DOMAIN q = 1..n /\ DOMAIN r = 1..m + n
  BY <1>1, <1>3
<1>5. \A i \in 1..m + n : r[i] = IF i <= m THEN p[i] ELSE q[i - m]
  BY <1>1, <1>2
<1>6. \A i \in 1..m + n : i \in 1..m \/ (i - m \in 1..n /\ ~(i <= m))
  BY <1>1
<1>7. /\ \A i \in 1..m : i \in 1..m + n /\ r[i] = p[i]
      /\ \A j \in 1..n : m + j \in 1..m + n /\ r[m + j] = q[j]
  <2>1. ASSUME NEW i \in 1..m PROVE i \in 1..m + n /\ i <= m
    BY <1>1
  <2>2. ASSUME NEW j \in 1..n PROVE m + j \in 1..m + n /\ ~(m + j <= m) /\ (m + j) - m = j
    BY <1>1
  <2>. QED BY <1>5, <2>1, <2>2
<1>8. ToSet(r) = ToSet(p) \cup ToSet(q)
  <2>1. ASSUME NEW i \in 1..m + n PROVE r[i] \in ToSet(p) \cup ToSet(q)
    <3>1. CASE i \in 1..m
      BY <1>4, <1>7, <3>1 DEF ToSet
    <3>2. CASE i - m \in 1..n /\ ~(i <= m)
      BY <1>4, <1>5, <3>2 DEF ToSet
    <3>. QED BY <1>6, <3>1, <3>2
  <2>2. \A s \in ToSet(p) \cup ToSet(q) : s \in ToSet(r)
    BY <1>4, <1>7 DEF ToSet
  <2>. QED BY <1>4, <2>1, <2>2 DEF ToSet
<1>9. ASSUME IsInjective(p), IsInjective(q), ToSet(p) \cap ToSet(q) = {}
      PROVE  IsInjective(r)
  <2>1. \A i \in 1..m : p[i] \in ToSet(p)
    BY <1>4 DEF ToSet
  <2>2. \A j \in 1..n : q[j] \in ToSet(q)
    BY <1>4 DEF ToSet
  <2>3. ASSUME NEW i \in 1..m + n, NEW j \in 1..m + n, r[i] = r[j]
        PROVE  i = j
    <3>1. CASE i \in 1..m /\ j \in 1..m
      BY <1>4, <1>7, <1>9, <2>3, <3>1 DEF IsInjective
    <3>2. CASE ~(i <= m) /\ i - m \in 1..n /\ ~(j <= m) /\ j - m \in 1..n
      <4>1. i - m = j - m
        BY <1>4, <1>5, <1>9, <2>3, <3>2 DEF IsInjective
      <4>. QED BY <1>1, <4>1
    <3>3. CASE i \in 1..m /\ ~(j <= m) /\ j - m \in 1..n
      BY <1>5, <1>7, <1>9, <2>1, <2>2, <2>3, <3>3
    <3>4. CASE j \in 1..m /\ ~(i <= m) /\ i - m \in 1..n
      BY <1>5, <1>7, <1>9, <2>1, <2>2, <2>3, <3>4
    <3>. QED BY <1>6, <3>1, <3>2, <3>3, <3>4
  <2>. QED BY <1>4, <2>3 DEF IsInjective
<1>. QED BY <1>2, <1>3, <1>8, <1>9

\* The members of a list are finitely many.
LEMMA MembersAreFinite ==
  ASSUME NEW S, NEW q \in Seq(S)
  PROVE  IsFiniteSet(ToSet(q)) /\ ToSet(q) \subseteq S
<1>1. PICK n \in Nat : n = Len(q)
  OBVIOUS
<1>2. DOMAIN q = 1..n /\ \A i \in 1..n : q[i] \in S
  BY <1>1
<1>3. IsFiniteSet(1..n)
  BY FS_Interval, 1 \in Int, n \in Int
<1>4. [i \in 1..n |-> q[i]] \in Surjection(1..n, ToSet(q))
  BY <1>2 DEF Surjection, ToSet
<1>5. IsFiniteSet(ToSet(q))
  BY <1>3, <1>4, FS_Surjection
<1>. QED BY <1>2, <1>5 DEF ToSet

\* The place of a name on a list that has it once.
LEMMA PlaceIs ==
  ASSUME NEW S, NEW list \in Seq(S), IsInjective(list)
  PROVE  /\ \A i \in DOMAIN list : Place(list, list[i]) = i
         /\ \A s \in ToSet(list) : Place(list, s) \in 1..Len(list) /\ list[Place(list, s)] = s
         /\ \A s : s \notin ToSet(list) => Place(list, s) = 0
         /\ \A s, t \in ToSet(list) : Place(list, s) = Place(list, t) => s = t
<1>1. \A s \in ToSet(list) : Place(list, s) \in DOMAIN list /\ list[Place(list, s)] = s
  BY DEF Place, ToSet
<1>2. \A i \in DOMAIN list : list[i] \in ToSet(list)
  BY DEF ToSet
<1>3. \A i \in DOMAIN list : Place(list, list[i]) = i
  BY <1>1, <1>2 DEF IsInjective
<1>4. DOMAIN list = 1..Len(list)
  OBVIOUS
<1>5. \A s : s \notin ToSet(list) => Place(list, s) = 0
  BY DEF Place
<1>. QED BY <1>1, <1>3, <1>4, <1>5

\* The first of a list.
LEMMA PrefixIs ==
  ASSUME NEW S, NEW list \in Seq(S), NEW n \in Nat
  PROVE  /\ Prefix(list, n) \in Seq(S)
         /\ Len(Prefix(list, n)) = IF n < Len(list) THEN n ELSE Len(list)
         /\ \A i \in 1..Len(Prefix(list, n)) : i \in DOMAIN list /\ Prefix(list, n)[i] = list[i]
         /\ ToSet(Prefix(list, n)) = {list[i] : i \in {j \in DOMAIN list : j <= n}}
         /\ IsInjective(list) => IsInjective(Prefix(list, n))
<1>. DEFINE m == IF n < Len(list) THEN n ELSE Len(list)
            p == SubSeq(list, 1, m)
<1>1. m \in 0..Len(list) /\ m \in Nat /\ Len(list) \in Nat
  OBVIOUS
<1>2. \A i \in 1..Len(list) : i <= n <=> i \in 1..m
  BY <1>1
<1>3. Prefix(list, n) = p
  BY DEF Prefix
<1>. HIDE DEF m
<1>4. p \in Seq(S) /\ Len(p) = m /\ DOMAIN p = 1..m
  BY <1>1
<1>5. \A i \in 1..m : p[i] = list[i] /\ i \in 1..Len(list)
  BY <1>1
<1>. HIDE DEF p
<1>6. ToSet(p) = {list[i] : i \in {j \in DOMAIN list : j <= n}}
  <2>1. DOMAIN list = 1..Len(list)
    OBVIOUS
  <2>2. {j \in DOMAIN list : j <= n} = 1..m
    BY <1>2, <1>5, <2>1
  <2>. QED BY <1>4, <1>5, <2>2 DEF ToSet
<1>7. IsInjective(list) => IsInjective(p)
  <2>1. DOMAIN list = 1..Len(list)
    OBVIOUS
  <2>. QED BY <1>4, <1>5, <2>1 DEF IsInjective
<1>. QED BY <1>3, <1>4, <1>5, <1>6, <1>7 DEF m

\* And what comes after them.
LEMMA RestIs ==
  ASSUME NEW S, NEW list \in Seq(S), NEW n \in Nat
  PROVE  /\ SubSeq(list, n + 1, Len(list)) \in Seq(S)
         /\ ToSet(SubSeq(list, n + 1, Len(list))) = {list[i] : i \in {j \in DOMAIN list : j > n}}
<1>1. PICK l \in Nat : l = Len(list)
  OBVIOUS
<1>2. DOMAIN list = 1..l /\ \A i \in 1..l : list[i] \in S
  BY <1>1
<1>3. PICK r : r = SubSeq(list, n + 1, Len(list))
  OBVIOUS
<1>4. CASE l <= n
  <2>1. r = << >>
    BY <1>1, <1>3, <1>4
  <2>2. {j \in DOMAIN list : j > n} = {}
    BY <1>2, <1>4
  <2>3. ToSet(r) = {}
    BY <2>1 DEF ToSet
  <2>4. r \in Seq(S)
    BY <2>1
  <2>. QED BY <1>3, <2>2, <2>3, <2>4
<1>5. CASE n < l
  <2>1. r \in Seq(S) /\ DOMAIN r = 1..l - n /\ \A i \in 1..l - n : r[i] = list[n + i]
    BY <1>1, <1>3, <1>5
  <2>2. \A i \in 1..l - n : n + i \in 1..l /\ n + i > n
    BY <1>1
  <2>3. \A j \in 1..l : j > n => j - n \in 1..l - n /\ n + (j - n) = j
    BY <1>1
  <2>4. ASSUME NEW i \in 1..l - n PROVE r[i] \in {list[k] : k \in {j \in DOMAIN list : j > n}}
    BY <1>2, <2>1, <2>2
  <2>5. ASSUME NEW j \in 1..l, j > n PROVE \E i \in 1..l - n : r[i] = list[j]
    <3>1. r[j - n] = list[n + (j - n)]
      BY <2>1, <2>3, <2>5
    <3>. QED BY <2>3, <2>5, <3>1
  <2>6. ToSet(r) = {list[i] : i \in {j \in DOMAIN list : j > n}}
    BY <1>2, <2>1, <2>4, <2>5 DEF ToSet
  <2>. QED BY <1>3, <2>1, <2>6
<1>. QED BY <1>1, <1>4, <1>5

\* A list made of the places p of another.
Placing(q, p, S, list, at, R) ==
  /\ q \in Seq(S)
  /\ Len(q) = Len(p)
  /\ \A k \in 1..Len(p) : p[k] \in at /\ q[k] = list[p[k]]
  /\ \A k, l \in 1..Len(p) : k < l => <<p[k], p[l]>> \in R
  /\ ToSet(q) = {list[i] : i \in at}
  /\ IsInjective(q)

\* A list rearranged has those of its members that were asked for.
LEMMA AtIs ==
  ASSUME NEW S, NEW list \in Seq(S), NEW at \in SUBSET DOMAIN list, NEW R, StrictOrder(at, R),
         IsInjective(list)
  PROVE  \E p \in Seq(at) : Placing(At(list, Arranged(at, R)), p, S, list, at, R)
<1>1. DOMAIN list = 1..Len(list) /\ IsFiniteSet(DOMAIN list)
  BY FS_Interval, 1 \in Int
<1>2. IsFiniteSet(at)
  BY <1>1, FS_Subset
<1>3. PICK p : p = Arranged(at, R)
  OBVIOUS
<1>4. Lists(p, at, R)
  BY <1>2, <1>3, ArrangedIs
<1>5. p \in Seq(at) /\ DOMAIN p = 1..Len(p) /\ \A k \in 1..Len(p) : p[k] \in at
  BY <1>4 DEF Lists
<1>6. PICK q : q = At(list, p)
  OBVIOUS
<1>7. q = [k \in 1..Len(p) |-> list[p[k]]]
  BY <1>5, <1>6 DEF At
<1>8. \A k \in 1..Len(p) : list[p[k]] \in S
  BY <1>1, <1>5
<1>9. q \in Seq(S) /\ Len(q) = Len(p) /\ DOMAIN q = 1..Len(p)
  BY <1>5, <1>7, <1>8
<1>10. ToSet(q) = {list[i] : i \in at}
  <2>1. \A i \in at : \E k \in 1..Len(p) : p[k] = i
    BY <1>4, <1>5 DEF Lists, ToSet
  <2>. QED BY <1>5, <1>7, <1>9, <2>1 DEF ToSet
<1>11. IsInjective(q)
  BY <1>4, <1>5, <1>7, <1>9 DEF IsInjective, Lists
<1>12. \A k, l \in 1..Len(p) : k < l => <<p[k], p[l]>> \in R
  BY <1>4, <1>5 DEF Lists
<1>13. Placing(q, p, S, list, at, R)
  BY <1>5, <1>7, <1>9, <1>10, <1>11, <1>12 DEF Placing
<1>. QED BY <1>3, <1>5, <1>6, <1>13

\* One list has its names in the order another has them.
Follows(q, list) == \A k, l \in DOMAIN q : k < l => Place(list, q[k]) < Place(list, q[l])

LEMMA AmongIs ==
  ASSUME NEW S, NEW list \in Seq(S), IsInjective(list), NEW A
  PROVE  /\ Among(list, A) \in Seq(S) /\ IsInjective(Among(list, A))
         /\ ToSet(Among(list, A)) = ToSet(list) \cap A
         /\ Follows(Among(list, A), list)
<1>. DEFINE at == {i \in DOMAIN list : list[i] \in A}
            R == {p \in at \X at : p[1] < p[2]}
            q == Among(list, A)
<1>1. DOMAIN list = 1..Len(list)
  OBVIOUS
<1>2. \A i \in at : i \in Nat
  BY <1>1
<1>3. \A i, j \in at : <<i, j>> \in R <=> i < j
  OBVIOUS
<1>4. at \in SUBSET DOMAIN list /\ {list[i] : i \in at} = ToSet(list) \cap A
  BY DEF ToSet
<1>5. q = At(list, Arranged(at, R))
  BY DEF Among
<1>. HIDE DEF R, at, q
<1>6. StrictOrder(at, R)
  BY <1>2, <1>3 DEF StrictOrder
<1>7. PICK p \in Seq(at) :
           /\ q \in Seq(S)
           /\ Len(q) = Len(p)
           /\ \A k \in 1..Len(p) : p[k] \in at /\ q[k] = list[p[k]]
           /\ \A k, l \in 1..Len(p) : k < l => <<p[k], p[l]>> \in R
           /\ ToSet(q) = {list[i] : i \in at}
           /\ IsInjective(q)
  <2>1. \E p \in Seq(at) : Placing(q, p, S, list, at, R)
    BY <1>4, <1>5, <1>6, AtIs
  <2>. QED BY <2>1 DEF Placing
<1>8. \A k \in 1..Len(p) : Place(list, q[k]) = p[k]
  BY <1>4, <1>7, PlaceIs
<1>9. DOMAIN q = 1..Len(p)
  BY <1>7
<1>10. Follows(q, list)
  BY <1>3, <1>7, <1>8, <1>9 DEF Follows
<1>. QED BY <1>4, <1>7, <1>10 DEF q

LEMMA HighestFirstIs ==
  ASSUME NEW S, NEW list \in Seq(S), IsInjective(list), NEW key,
         \A s \in ToSet(list) : key[s] \in Int
  PROVE  /\ HighestFirst(list, key) \in Seq(S) /\ IsInjective(HighestFirst(list, key))
         /\ ToSet(HighestFirst(list, key)) = ToSet(list)
         /\ \A k, l \in DOMAIN HighestFirst(list, key) : k < l =>
              LET s == HighestFirst(list, key)[k]
                  t == HighestFirst(list, key)[l]
              IN  key[s] > key[t] \/ (key[s] = key[t] /\ Place(list, s) < Place(list, t))
<1>. DEFINE at == DOMAIN list
            R == {p \in at \X at : \/ key[list[p[1]]] > key[list[p[2]]]
                                   \/ /\ key[list[p[1]]] = key[list[p[2]]]
                                      /\ p[1] < p[2]}
            q == HighestFirst(list, key)
<1>1. at = 1..Len(list) /\ \A i \in at : i \in Nat /\ key[list[i]] \in Int
  BY DEF ToSet
<1>2. \A i, j \in at : <<i, j>> \in R <=> \/ key[list[i]] > key[list[j]]
                                         \/ (key[list[i]] = key[list[j]] /\ i < j)
  OBVIOUS
<1>3. {list[i] : i \in at} = ToSet(list)
  BY DEF ToSet
<1>4. q = At(list, Arranged(at, R))
  BY DEF HighestFirst
<1>. HIDE DEF R, q
<1>5. StrictOrder(at, R)
  <2>. HIDE DEF at
  <2>. QED BY <1>1, <1>2 DEF StrictOrder
<1>6. PICK p \in Seq(at) :
           /\ q \in Seq(S)
           /\ Len(q) = Len(p)
           /\ \A k \in 1..Len(p) : p[k] \in at /\ q[k] = list[p[k]]
           /\ \A k, l \in 1..Len(p) : k < l => <<p[k], p[l]>> \in R
           /\ ToSet(q) = {list[i] : i \in at}
           /\ IsInjective(q)
  <2>1. \E p \in Seq(at) : Placing(q, p, S, list, at, R)
    BY <1>4, <1>5, AtIs
  <2>. QED BY <2>1 DEF Placing
<1>7. \A k \in 1..Len(p) : Place(list, q[k]) = p[k]
  BY <1>6, PlaceIs
<1>8. DOMAIN q = 1..Len(p)
  BY <1>6
<1>9. \A k, l \in DOMAIN q : k < l =>
        \/ key[q[k]] > key[q[l]]
        \/ (key[q[k]] = key[q[l]] /\ Place(list, q[k]) < Place(list, q[l]))
  <2>. SUFFICES ASSUME NEW k \in 1..Len(p), NEW l \in 1..Len(p), k < l
                PROVE  \/ key[q[k]] > key[q[l]]
                       \/ (key[q[k]] = key[q[l]] /\ Place(list, q[k]) < Place(list, q[l]))
    BY <1>8
  <2>1. p[k] \in at /\ p[l] \in at /\ <<p[k], p[l]>> \in R
    BY <1>6
  <2>2. \/ key[list[p[k]]] > key[list[p[l]]]
        \/ (key[list[p[k]]] = key[list[p[l]]] /\ p[k] < p[l])
    BY <1>2, <2>1
  <2>3. q[k] = list[p[k]] /\ q[l] = list[p[l]] /\ Place(list, q[k]) = p[k] /\ Place(list, q[l]) = p[l]
    BY <1>6, <1>7
  <2>. QED BY <2>2, <2>3
<1>. QED BY <1>3, <1>6, <1>9 DEF q

\* Of two names the one with the higher key, and of equals the first on the list.
Better(key, list, s, t) ==
  key[s] > key[t] \/ (key[s] = key[t] /\ Place(list, s) < Place(list, t))

\* Names taken off a list, sorted, and sifted again.
LEMMA BestFirstIs ==
  ASSUME NEW S, NEW list \in Seq(S), IsInjective(list), NEW A, NEW key,
         \A s \in ToSet(list) \cap A : key[s] \in Int, NEW B
  PROVE  LET q == Among(HighestFirst(Among(list, A), key), B)
         IN  /\ q \in Seq(S) /\ IsInjective(q) /\ ToSet(q) = (ToSet(list) \cap A) \cap B
             /\ \A k, l \in DOMAIN q : k < l => Better(key, list, q[k], q[l])
<1>1. PICK part : part = Among(list, A)
  OBVIOUS
<1>2. part \in Seq(S) /\ IsInjective(part) /\ ToSet(part) = ToSet(list) \cap A /\ Follows(part, list)
  BY <1>1, AmongIs
<1>3. PICK h : h = HighestFirst(part, key)
  OBVIOUS
<1>4. /\ h \in Seq(S) /\ IsInjective(h) /\ ToSet(h) = ToSet(part)
      /\ \A k, l \in DOMAIN h : k < l =>
           key[h[k]] > key[h[l]] \/ (key[h[k]] = key[h[l]] /\ Place(part, h[k]) < Place(part, h[l]))
  <2>1. \A s \in ToSet(part) : key[s] \in Int
    BY <1>2
  <2>2. LET g == HighestFirst(part, key)
        IN  /\ g \in Seq(S) /\ IsInjective(g) /\ ToSet(g) = ToSet(part)
            /\ \A k, l \in DOMAIN g : k < l =>
                 key[g[k]] > key[g[l]] \/ (key[g[k]] = key[g[l]] /\ Place(part, g[k]) < Place(part, g[l]))
    BY <1>2, <2>1, HighestFirstIs
  <2>. QED BY <1>3, <2>2
<1>5. PICK q : q = Among(h, B)
  OBVIOUS
<1>6. q \in Seq(S) /\ IsInjective(q) /\ ToSet(q) = ToSet(h) \cap B /\ Follows(q, h)
  BY <1>4, <1>5, AmongIs
<1>7. ASSUME NEW s \in ToSet(part), NEW t \in ToSet(part), Place(part, s) < Place(part, t)
      PROVE  Place(list, s) < Place(list, t)
  <2>1. /\ Place(part, s) \in DOMAIN part /\ part[Place(part, s)] = s
        /\ Place(part, t) \in DOMAIN part /\ part[Place(part, t)] = t
    BY <1>2, PlaceIs
  <2>. QED BY <1>2, <1>7, <2>1 DEF Follows
<1>8. ASSUME NEW k \in DOMAIN q, NEW l \in DOMAIN q, k < l
      PROVE  Better(key, list, q[k], q[l])
  <2>1. PICK s \in ToSet(h), t \in ToSet(h) : s = q[k] /\ t = q[l]
    BY <1>6 DEF ToSet
  <2>2. Place(h, s) < Place(h, t)
    BY <1>6, <1>8, <2>1 DEF Follows
  <2>3. /\ Place(h, s) \in DOMAIN h /\ h[Place(h, s)] = s
        /\ Place(h, t) \in DOMAIN h /\ h[Place(h, t)] = t
    BY <1>4, PlaceIs
  <2>4. key[s] > key[t] \/ (key[s] = key[t] /\ Place(part, s) < Place(part, t))
    BY <1>4, <2>2, <2>3
  <2>5. Better(key, list, s, t)
    BY <1>4, <1>7, <2>4 DEF Better
  <2>. QED BY <2>1, <2>5
<1>9. ToSet(q) = (ToSet(list) \cap A) \cap B
  BY <1>2, <1>4, <1>6
<1>. QED BY <1>1, <1>3, <1>5, <1>6, <1>8, <1>9

\* The first of a sorted list are those with few enough ahead of them.
Sorted(q, S, key, list) ==
  /\ q \in Seq(S) /\ IsInjective(q)
  /\ \A s \in ToSet(q) : key[s] \in Int /\ Place(list, s) \in Int
  /\ \A k, l \in DOMAIN q : k < l => Better(key, list, q[k], q[l])

LEMMA FirstAreBest ==
  ASSUME NEW S, NEW q, NEW key, NEW list, NEW n \in Nat, Sorted(q, S, key, list)
  PROVE  ToSet(Prefix(q, n))
           = {s \in ToSet(q) : Cardinality({t \in ToSet(q) : Better(key, list, t, s)}) < n}
<1>. USE DEF Sorted
<1>1. PICK l \in Nat : l = Len(q)
  OBVIOUS
<1>2. DOMAIN q = 1..l /\ \A i \in 1..l : q[i] \in ToSet(q)
  BY <1>1 DEF ToSet
<1>. DEFINE Ahead(s) == {t \in ToSet(q) : Better(key, list, t, s)}
<1>3. ASSUME NEW k \in 1..l
      PROVE  Cardinality(Ahead(q[k])) = k - 1
  <2>1. \A i \in 1..l : Better(key, list, q[i], q[k]) <=> i < k
    <3>1. ASSUME NEW i \in 1..l, i < k PROVE Better(key, list, q[i], q[k])
      BY <1>2, <3>1
    <3>2. ASSUME NEW i \in 1..l, ~(i < k) PROVE ~Better(key, list, q[i], q[k])
      <4>1. i = k \/ Better(key, list, q[k], q[i])
        BY <1>2, <3>2
      <4>2. key[q[i]] \in Int /\ Place(list, q[i]) \in Int /\ key[q[k]] \in Int /\ Place(list, q[k]) \in Int
        BY <1>2
      <4>. QED BY <4>1, <4>2 DEF Better
    <3>. QED BY <3>1, <3>2
  <2>2. k - 1 \in Nat /\ IsFiniteSet(1..(k - 1)) /\ Cardinality(1..(k - 1)) = k - 1
    <3>1. k - 1 \in Nat /\ k - 1 \in Int /\ 1 \in Int
      OBVIOUS
    <3>2. IsFiniteSet(1..(k - 1)) /\ Cardinality(1..(k - 1)) = IF 1 > k - 1 THEN 0 ELSE (k - 1) - 1 + 1
      BY <3>1, FS_Interval
    <3>. QED BY <3>1, <3>2
  <2>3. PICK A : A = Ahead(q[k])
    OBVIOUS
  <2>4. PICK f : f = [i \in 1..(k - 1) |-> q[i]]
    OBVIOUS
  <2>5. \A i \in 1..(k - 1) : i \in 1..l /\ i < k
    BY <1>1
  <2>6. \A i \in 1..(k - 1) : f[i] \in A
    BY <1>2, <2>1, <2>3, <2>4, <2>5
  <2>7. \A t \in A : \E i \in 1..(k - 1) : f[i] = t
    <3>1. ASSUME NEW t \in A PROVE \E i \in 1..(k - 1) : f[i] = t
      <4>1. PICK i \in 1..l : q[i] = t
        BY <1>2, <2>3 DEF ToSet
      <4>2. i < k
        BY <2>1, <2>3, <4>1
      <4>3. i \in 1..(k - 1)
        BY <4>2
      <4>. QED BY <2>4, <4>1, <4>3
    <3>. QED BY <3>1
  <2>8. f \in Surjection(1..(k - 1), A)
    BY <2>4, <2>6, <2>7 DEF Surjection
  <2>9. f \in Injection(1..(k - 1), A)
    <3>1. f \in [1..(k - 1) -> A]
      BY <2>4, <2>6
    <3>2. \A i, j \in 1..(k - 1) : f[i] = f[j] => i = j
      BY <1>2, <2>4, <2>5 DEF IsInjective
    <3>. QED BY <3>1, <3>2 DEF Injection, IsInjective
  <2>10. IsFiniteSet(A) /\ Cardinality(A) = Cardinality(1..(k - 1))
    BY <2>2, <2>8, <2>9, FS_Surjection
  <2>. QED BY <2>2, <2>3, <2>10
<1>4. ToSet(Prefix(q, n)) = {q[i] : i \in {j \in DOMAIN q : j <= n}}
  BY PrefixIs
<1>. HIDE DEF Ahead
<1>5. ASSUME NEW k \in 1..l PROVE k <= n <=> Cardinality(Ahead(q[k])) < n
  BY <1>3
<1>6. {q[i] : i \in {j \in DOMAIN q : j <= n}} = {s \in ToSet(q) : Cardinality(Ahead(s)) < n}
  <2>1. \A s \in ToSet(q) : \E k \in 1..l : q[k] = s
    BY <1>2 DEF ToSet
  <2>. QED BY <1>2, <1>5, <2>1
<1>. QED BY <1>4, <1>6 DEF Ahead
-----------------------------------------------------------------------------
(* Sums *)

\* The recursion by which SumFunctionOnSet is defined, a member at a time.
Sums(g, f, S) ==
  g = [T \in SUBSET S |->
         IF T = {} THEN 0
         ELSE f[CHOOSE x \in T : TRUE] + g[T \ {CHOOSE x \in T : TRUE}]]

LEMMA SumIsFold ==
  ASSUME NEW f, NEW S
  PROVE  SumFunctionOnSet(f, S) = (CHOOSE g : Sums(g, f, S))[S]
BY DEF SumFunctionOnSet, FoldFunctionOnSet, MapThenFoldSet, Sums

\* A set less one of its members.
LEMMA OneLess ==
  ASSUME NEW S, IsFiniteSet(S), NEW T \in SUBSET S
  PROVE  /\ IsFiniteSet(T) /\ Cardinality(T) \in Nat /\ Cardinality(T) <= Cardinality(S)
         /\ (Cardinality(T) = 0) = (T = {})
         /\ \A x \in T : /\ T \ {x} \in SUBSET S /\ IsFiniteSet(T \ {x})
                         /\ Cardinality(T \ {x}) = Cardinality(T) - 1
<1>1. IsFiniteSet(T) /\ Cardinality(T) \in Nat /\ Cardinality(T) <= Cardinality(S)
  BY FS_Subset, FS_CardinalityType
<1>2. (Cardinality(T) = 0) = (T = {})
  BY <1>1, FS_EmptySet
<1>3. ASSUME NEW x \in T PROVE IsFiniteSet(T \ {x}) /\ Cardinality(T \ {x}) = Cardinality(T) - 1
  BY <1>1, FS_RemoveElement
<1>. QED BY <1>1, <1>2, <1>3

\* The recursion has a value for every subset.
LEMMA SumsExist ==
  ASSUME NEW S, IsFiniteSet(S), NEW f, \A s \in S : f[s] \in Nat
  PROVE  \E g \in [SUBSET S -> Nat] : Sums(g, f, S)
<1>. DEFINE Small(n) == {T \in SUBSET S : Cardinality(T) <= n}
            pick(T) == CHOOSE x \in T : TRUE
            Value(g, T) == IF T = {} THEN 0 ELSE f[pick(T)] + g[T \ {pick(T)}]
            Good(g, n) == g \in [Small(n) -> Nat] /\ \A T \in Small(n) : g[T] = Value(g, T)
            N == Cardinality(S)
            P == {n \in 0..N : \E g : Good(g, n)}
<1>1. N \in Nat
  BY FS_CardinalityType
<1>2. ASSUME NEW T \in SUBSET S
      PROVE  /\ Cardinality(T) \in Nat /\ Cardinality(T) <= N /\ (Cardinality(T) = 0) = (T = {})
             /\ T # {} => /\ pick(T) \in T /\ f[pick(T)] \in Nat
                          /\ T \ {pick(T)} \in SUBSET S
                          /\ Cardinality(T \ {pick(T)}) = Cardinality(T) - 1
  <2>1. T # {} => pick(T) \in T
    OBVIOUS
  <2>. HIDE DEF pick
  <2>. QED BY <2>1, OneLess
<1>. HIDE DEF N, pick
<1>3. 0 \in P
  <2>1. ASSUME NEW T \in Small(0) PROVE T = {}
    <3>1. Cardinality(T) \in Nat /\ Cardinality(T) <= 0 /\ (Cardinality(T) = 0) = (T = {})
      BY <1>2
    <3>. QED BY <3>1
  <2>2. Good([T \in Small(0) |-> 0], 0)
    BY <2>1
  <2>3. 0 \in 0..N
    BY <1>1
  <2>. HIDE DEF Good
  <2>. QED BY <2>2, <2>3
<1>4. ASSUME NEW n \in 1..N, n - 1 \in P PROVE n \in P
  <2>1. PICK g : Good(g, n - 1)
    BY <1>4
  <2>. DEFINE h == [T \in Small(n) |-> IF T \in Small(n - 1) THEN g[T] ELSE Value(g, T)]
  <2>2. ASSUME NEW T \in Small(n), T # {}
        PROVE  T \ {pick(T)} \in Small(n - 1) /\ T \ {pick(T)} \in Small(n) /\ f[pick(T)] \in Nat
    <3>1. /\ T \ {pick(T)} \in SUBSET S /\ f[pick(T)] \in Nat
          /\ Cardinality(T \ {pick(T)}) = Cardinality(T) - 1
          /\ Cardinality(T) \in Nat /\ Cardinality(T) <= n
      BY <1>2, <2>2
    <3>2. Cardinality(T \ {pick(T)}) <= n - 1 /\ Cardinality(T \ {pick(T)}) <= n
      BY <3>1
    <3>. QED BY <3>1, <3>2
  <2>3. \A T \in Small(n) : Value(g, T) \in Nat
    BY <2>1, <2>2
  <2>4. h \in [Small(n) -> Nat]
    BY <2>1, <2>3
  <2>5. \A T \in Small(n - 1) : T \in Small(n) /\ h[T] = g[T]
    <3>1. ASSUME NEW T \in Small(n - 1) PROVE T \in Small(n)
      <4>1. T \in SUBSET S /\ Cardinality(T) \in Nat /\ Cardinality(T) <= n - 1
        BY <1>2
      <4>2. Cardinality(T) <= n
        BY <1>1, <4>1
      <4>. QED BY <4>1, <4>2
    <3>. QED BY <3>1
  <2>6. \A T \in Small(n) : h[T] = Value(g, T)
    BY <2>1
  <2>. HIDE DEF h, Small
  <2>7. ASSUME NEW T \in Small(n) PROVE h[T] = Value(h, T)
    BY <2>2, <2>5, <2>6
  <2>8. Good(h, n)
    BY <2>4, <2>7
  <2>9. n \in 0..N
    BY <1>1
  <2>. HIDE DEF Good
  <2>. QED BY <2>8, <2>9
<1>5. N \in P
  <2>. HIDE DEF P
  <2>1. \A n \in 0..N : n \in P
    BY <1>1, <1>3, <1>4, UpTo
  <2>. QED BY <1>1, <2>1
<1>6. PICK g : Good(g, N)
  BY <1>5
<1>7. Small(N) = SUBSET S
  BY <1>2
<1>8. g \in [SUBSET S -> Nat] /\ \A T \in SUBSET S : g[T] = Value(g, T)
  BY <1>6, <1>7
<1>9. g = [T \in SUBSET S |-> Value(g, T)]
  BY <1>8
<1>. QED BY <1>8, <1>9 DEF Sums, pick

\* And one value only.
LEMMA SumsAgree ==
  ASSUME NEW S, IsFiniteSet(S), NEW R \in SUBSET S, NEW f, NEW g, NEW h,
         Sums(g, f, S), Sums(h, f, R)
  PROVE  h[R] = g[R]
<1>. DEFINE N == Cardinality(R)
            pick(T) == CHOOSE x \in T : TRUE
            P == {n \in 0..N : \A T \in SUBSET R : Cardinality(T) <= n => g[T] = h[T]}
<1>1. IsFiniteSet(R) /\ N \in Nat /\ N <= N
  BY OneLess
<1>2. \A T \in SUBSET R : /\ g[T] = IF T = {} THEN 0 ELSE f[pick(T)] + g[T \ {pick(T)}]
                         /\ h[T] = IF T = {} THEN 0 ELSE f[pick(T)] + h[T \ {pick(T)}]
  BY DEF Sums
<1>3. ASSUME NEW T \in SUBSET R
      PROVE  /\ Cardinality(T) \in Nat /\ (Cardinality(T) = 0) = (T = {})
             /\ T # {} => /\ T \ {pick(T)} \in SUBSET R
                          /\ Cardinality(T \ {pick(T)}) = Cardinality(T) - 1
  <2>1. T # {} => pick(T) \in T
    OBVIOUS
  <2>. HIDE DEF pick
  <2>. QED BY <1>1, <2>1, OneLess
<1>. HIDE DEF N, pick
<1>4. 0 \in P
  <2>1. ASSUME NEW T \in SUBSET R, Cardinality(T) <= 0 PROVE T = {}
    <3>1. Cardinality(T) \in Nat /\ (Cardinality(T) = 0) = (T = {})
      BY <1>3
    <3>. QED BY <2>1, <3>1
  <2>. QED BY <1>1, <1>2, <2>1
<1>5. ASSUME NEW n \in 1..N, n - 1 \in P PROVE n \in P
  <2>1. ASSUME NEW T \in SUBSET R, Cardinality(T) <= n PROVE g[T] = h[T]
    <3>1. CASE T = {}
      BY <1>2, <3>1
    <3>2. CASE T # {}
      <4>1. /\ T \ {pick(T)} \in SUBSET R /\ Cardinality(T \ {pick(T)}) = Cardinality(T) - 1
            /\ Cardinality(T) \in Nat
        BY <1>3, <3>2
      <4>2. Cardinality(T \ {pick(T)}) <= n - 1
        BY <2>1, <4>1
      <4>3. g[T \ {pick(T)}] = h[T \ {pick(T)}]
        BY <1>5, <4>1, <4>2
      <4>. QED BY <1>2, <3>2, <4>3
    <3>. QED BY <3>1, <3>2
  <2>2. n \in 0..N
    BY <1>1
  <2>. QED BY <2>1, <2>2
<1>6. N \in P
  <2>. HIDE DEF P
  <2>1. \A n \in 0..N : n \in P
    BY <1>1, <1>4, <1>5, UpTo
  <2>. QED BY <1>1, <2>1
<1>7. R \in SUBSET R /\ Cardinality(R) <= N
  BY <1>1 DEF N
<1>. QED BY <1>6, <1>7

\* The sum over a set is that of any member and of the rest.
LEMMA SumIs ==
  ASSUME NEW S, IsFiniteSet(S), NEW f, \A s \in S : f[s] \in Nat
  PROVE  /\ SumFunctionOnSet(f, S) \in Nat
         /\ SumFunctionOnSet(f, {}) = 0
         /\ \A x \in S : SumFunctionOnSet(f, S) = f[x] + SumFunctionOnSet(f, S \ {x})
<1>. DEFINE N == Cardinality(S)
            pick(T) == CHOOSE x \in T : TRUE
<1>1. PICK sum \in [SUBSET S -> Nat] : Sums(sum, f, S)
  BY SumsExist
<1>2. ASSUME NEW T \in SUBSET S
      PROVE  SumFunctionOnSet(f, T) = sum[T]
  <2>1. IsFiniteSet(T) /\ \A s \in T : f[s] \in Nat
    BY OneLess
  <2>2. PICK g : g = (CHOOSE c : Sums(c, f, T))
    OBVIOUS
  <2>3. Sums(g, f, T)
    BY <2>1, <2>2, SumsExist
  <2>4. g[T] = sum[T]
    BY <1>1, <2>3, SumsAgree
  <2>. QED BY <2>2, <2>4, SumIsFold
<1>3. \A T \in SUBSET S : sum[T] = IF T = {} THEN 0 ELSE f[pick(T)] + sum[T \ {pick(T)}]
  BY <1>1 DEF Sums
<1>4. \A T \in SUBSET S : T # {} => pick(T) \in T
  OBVIOUS
<1>. HIDE DEF pick
<1>5. N \in Nat
  BY FS_CardinalityType
<1>6. \A T \in SUBSET S : sum[T] \in Nat
  BY <1>1
<1>. DEFINE P == {n \in 0..N : \A T \in SUBSET S : Cardinality(T) <= n =>
                                 \A x \in T : sum[T] = f[x] + sum[T \ {x}]}
<1>7. 0 \in P
  <2>1. ASSUME NEW T \in SUBSET S, Cardinality(T) <= 0 PROVE T = {}
    BY <2>1, OneLess
  <2>. QED BY <1>5, <2>1
<1>8. ASSUME NEW n \in 1..N, n - 1 \in P PROVE n \in P
  <2>1. ASSUME NEW T \in SUBSET S, Cardinality(T) <= n, NEW x \in T
        PROVE  sum[T] = f[x] + sum[T \ {x}]
    <3>1. PICK c : c = pick(T)
      OBVIOUS
    <3>2. c \in T /\ sum[T] = f[c] + sum[T \ {c}]
      BY <1>3, <1>4, <3>1
    <3>3. CASE c = x
      BY <3>2, <3>3
    <3>4. CASE c # x
      <4>1. PICK A : A = T \ {c}
        OBVIOUS
      <4>2. PICK B : B = T \ {x}
        OBVIOUS
      <4>3. PICK C : C = T \ {c, x}
        OBVIOUS
      <4>4. /\ A \in SUBSET S /\ B \in SUBSET S /\ C \in SUBSET S
            /\ x \in A /\ c \in B /\ A \ {x} = C /\ B \ {c} = C
        BY <3>2, <3>4, <4>1, <4>2, <4>3
      <4>5. Cardinality(A) <= n - 1 /\ Cardinality(B) <= n - 1
        <5>1. /\ Cardinality(T) \in Nat /\ Cardinality(T \ {c}) = Cardinality(T) - 1
              /\ Cardinality(T \ {x}) = Cardinality(T) - 1
          BY <3>2, OneLess
        <5>. QED BY <2>1, <4>1, <4>2, <5>1
      <4>6. sum[A] = f[x] + sum[C]
        BY <1>8, <4>4, <4>5
      <4>7. sum[B] = f[c] + sum[C]
        BY <1>8, <4>4, <4>5
      <4>8. f[x] \in Nat /\ f[c] \in Nat /\ sum[C] \in Nat
        BY <1>6, <3>2, <4>4
      <4>. QED BY <3>2, <4>1, <4>2, <4>6, <4>7, <4>8
    <3>. QED BY <3>3, <3>4
  <2>2. n \in 0..N
    BY <1>5
  <2>. QED BY <2>1, <2>2
<1>9. N \in P
  <2>. HIDE DEF P
  <2>1. \A n \in 0..N : n \in P
    BY <1>5, <1>7, <1>8, UpTo
  <2>. QED BY <1>5, <2>1
<1>10. S \in SUBSET S /\ {} \in SUBSET S /\ \A x \in S : S \ {x} \in SUBSET S
  OBVIOUS
<1>11. sum[S] \in Nat /\ sum[{}] = 0
  BY <1>3, <1>6, <1>10
<1>12. \A x \in S : sum[S] = f[x] + sum[S \ {x}]
  <2>1. Cardinality(S) <= N
    BY <1>5
  <2>. QED BY <1>9, <1>10, <2>1
<1>. QED BY <1>2, <1>10, <1>11, <1>12

\* Induction over the subsets of a finite set, a member at a time.
LEMMA SubsetsBuilt ==
  ASSUME NEW S, IsFiniteSet(S), NEW P, {} \in P,
         \A T \in SUBSET S : \A x \in T : T \ {x} \in P => T \in P
  PROVE  \A T \in SUBSET S : T \in P
<1>. DEFINE N == Cardinality(S)
            Q == {n \in 0..N : \A T \in SUBSET S : Cardinality(T) <= n => T \in P}
<1>1. N \in Nat
  BY FS_CardinalityType
<1>2. 0 \in Q
  <2>1. ASSUME NEW T \in SUBSET S, Cardinality(T) <= 0 PROVE T \in P
    <3>1. T = {}
      BY <2>1, OneLess
    <3>. QED BY <3>1
  <2>. QED BY <1>1, <2>1
<1>3. ASSUME NEW n \in 1..N, n - 1 \in Q PROVE n \in Q
  <2>1. ASSUME NEW T \in SUBSET S, Cardinality(T) <= n PROVE T \in P
    <3>1. CASE T = {}
      BY <3>1
    <3>2. CASE T # {}
      <4>1. PICK x : x \in T
        BY <3>2
      <4>2. T \ {x} \in SUBSET S /\ Cardinality(T \ {x}) <= n - 1
        <5>1. Cardinality(T) \in Nat /\ Cardinality(T \ {x}) = Cardinality(T) - 1
          BY <4>1, OneLess
        <5>. QED BY <2>1, <5>1
      <4>3. T \ {x} \in P
        BY <1>3, <4>2
      <4>. QED BY <4>1, <4>3
    <3>. QED BY <3>1, <3>2
  <2>2. n \in 0..N
    BY <1>1
  <2>. QED BY <2>1, <2>2
<1>4. N \in Q
  <2>. HIDE DEF Q
  <2>1. \A n \in 0..N : n \in Q
    BY <1>1, <1>2, <1>3, UpTo
  <2>. QED BY <1>1, <2>1
<1>5. \A T \in SUBSET S : Cardinality(T) <= N
  BY OneLess
<1>. QED BY <1>4, <1>5

\* Sums are added member by member, and keep the order of what they sum.
LEMMA SumsAdd ==
  ASSUME NEW S, IsFiniteSet(S), NEW f, NEW g, NEW h,
         \A s \in S : f[s] \in Nat /\ g[s] \in Nat /\ h[s] \in Nat /\ f[s] + g[s] = h[s]
  PROVE  SumFunctionOnSet(f, S) + SumFunctionOnSet(g, S) = SumFunctionOnSet(h, S)
<1>. DEFINE Sum(e, T) == SumFunctionOnSet(e, T)
            P == {T \in SUBSET S : Sum(f, T) + Sum(g, T) = Sum(h, T)}
<1>1. ASSUME NEW T \in SUBSET S
      PROVE  /\ Sum(f, T) \in Nat /\ Sum(g, T) \in Nat /\ Sum(h, T) \in Nat
             /\ Sum(f, {}) = 0 /\ Sum(g, {}) = 0 /\ Sum(h, {}) = 0
             /\ \A x \in T : /\ Sum(f, T) = f[x] + Sum(f, T \ {x})
                             /\ Sum(g, T) = g[x] + Sum(g, T \ {x})
                             /\ Sum(h, T) = h[x] + Sum(h, T \ {x})
  <2>1. IsFiniteSet(T) /\ \A s \in T : f[s] \in Nat /\ g[s] \in Nat /\ h[s] \in Nat
    BY FS_Subset
  <2>. QED BY <2>1, SumIs
<1>. HIDE DEF Sum
<1>2. {} \in P
  BY <1>1
<1>3. ASSUME NEW T \in SUBSET S, NEW x \in T, T \ {x} \in P PROVE T \in P
  <2>1. T \ {x} \in SUBSET S /\ x \in S
    OBVIOUS
  <2>2. /\ Sum(f, T \ {x}) \in Nat /\ Sum(g, T \ {x}) \in Nat /\ Sum(h, T \ {x}) \in Nat
        /\ f[x] \in Nat /\ g[x] \in Nat /\ h[x] \in Nat /\ f[x] + g[x] = h[x]
    BY <1>1, <2>1
  <2>3. Sum(f, T) + Sum(g, T) = Sum(h, T)
    BY <1>1, <1>3, <2>2
  <2>. QED BY <2>3
<1>4. \A T \in SUBSET S : T \in P
  <2>. HIDE DEF P
  <2>. QED BY <1>2, <1>3, SubsetsBuilt
<1>. QED BY <1>4 DEF Sum

LEMMA SumsMono ==
  ASSUME NEW S, IsFiniteSet(S), NEW f, NEW h,
         \A s \in S : f[s] \in Nat /\ h[s] \in Nat /\ f[s] <= h[s]
  PROVE  SumFunctionOnSet(f, S) <= SumFunctionOnSet(h, S)
<1>1. PICK g : g = [s \in S |-> h[s] - f[s]]
  OBVIOUS
<1>2. \A s \in S : g[s] \in Nat /\ f[s] + g[s] = h[s]
  BY <1>1
<1>3. SumFunctionOnSet(f, S) + SumFunctionOnSet(g, S) = SumFunctionOnSet(h, S)
  BY <1>2, SumsAdd
<1>4. SumFunctionOnSet(f, S) \in Nat /\ SumFunctionOnSet(g, S) \in Nat
  BY <1>2, SumIs
<1>. QED BY <1>3, <1>4

LEMMA SumsSame ==
  ASSUME NEW S, IsFiniteSet(S), NEW f, NEW h, \A s \in S : f[s] \in Nat /\ h[s] = f[s]
  PROVE  SumFunctionOnSet(f, S) = SumFunctionOnSet(h, S)
<1>1. /\ \A s \in S : f[s] \in Nat /\ h[s] \in Nat /\ f[s] <= h[s]
      /\ \A s \in S : f[s] \in Nat /\ h[s] \in Nat /\ h[s] <= f[s]
  OBVIOUS
<1>2. SumFunctionOnSet(f, S) <= SumFunctionOnSet(h, S)
  BY <1>1, SumsMono
<1>3. SumFunctionOnSet(h, S) <= SumFunctionOnSet(f, S)
  BY <1>1, SumsMono
<1>4. SumFunctionOnSet(f, S) \in Nat /\ SumFunctionOnSet(h, S) \in Nat
  BY <1>1, SumIs
<1>. QED BY <1>2, <1>3, <1>4

\* The sum of equal amounts, and the sum over a set cut in two.
LEMMA SumOfEqual ==
  ASSUME NEW S, IsFiniteSet(S), NEW c \in Nat, NEW f, \A s \in S : f[s] = c
  PROVE  SumFunctionOnSet(f, S) = c * Cardinality(S)
<1>. DEFINE Sum(T) == SumFunctionOnSet(f, T)
            P == {T \in SUBSET S : Sum(T) = c * Cardinality(T)}
<1>1. ASSUME NEW T \in SUBSET S
      PROVE  Sum(T) \in Nat /\ Sum({}) = 0 /\ \A x \in T : Sum(T) = c + Sum(T \ {x})
  <2>1. IsFiniteSet(T) /\ \A s \in T : f[s] \in Nat
    BY FS_Subset
  <2>. QED BY <2>1, SumIs
<1>. HIDE DEF Sum
<1>2. {} \in P
  BY <1>1, FS_EmptySet
<1>3. ASSUME NEW T \in SUBSET S, NEW x \in T, T \ {x} \in P PROVE T \in P
  <2>1. PICK n \in Nat : n = Cardinality(T)
    BY OneLess
  <2>2. Cardinality(T \ {x}) = n - 1
    BY <2>1, OneLess
  <2>3. Sum(T) = c + c * (n - 1)
    BY <1>1, <1>3, <2>2
  <2>4. c + c * (n - 1) = c * n
    OBVIOUS
  <2>. QED BY <2>1, <2>3, <2>4
<1>4. \A T \in SUBSET S : T \in P
  <2>. HIDE DEF P
  <2>. QED BY <1>2, <1>3, SubsetsBuilt
<1>. QED BY <1>4 DEF Sum

LEMMA SumOfParts ==
  ASSUME NEW S, IsFiniteSet(S), NEW A \in SUBSET S, NEW f, \A s \in S : f[s] \in Nat
  PROVE  SumFunctionOnSet(f, S) = SumFunctionOnSet(f, A) + SumFunctionOnSet(f, S \ A)
<1>. DEFINE Sum(e, T) == SumFunctionOnSet(e, T)
            P == {T \in SUBSET S : Sum(f, T) = Sum(f, T \cap A) + Sum(f, T \ A)}
<1>1. ASSUME NEW T \in SUBSET S
      PROVE  Sum(f, T) \in Nat /\ Sum(f, {}) = 0 /\ \A x \in T : Sum(f, T) = f[x] + Sum(f, T \ {x})
  <2>1. IsFiniteSet(T) /\ \A s \in T : f[s] \in Nat
    BY FS_Subset
  <2>. QED BY <2>1, SumIs
<1>. HIDE DEF Sum
<1>2. {} \in P
  <2>1. {} \cap A = {} /\ {} \ A = {}
    OBVIOUS
  <2>. QED BY <1>1, <2>1
<1>3. ASSUME NEW T \in SUBSET S, NEW x \in T, T \ {x} \in P PROVE T \in P
  <2>1. PICK R : R = T \ {x}
    OBVIOUS
  <2>2. R \in SUBSET S /\ R \cap A \in SUBSET S /\ R \ A \in SUBSET S
        /\ T \cap A \in SUBSET S /\ T \ A \in SUBSET S
    BY <2>1
  <2>3. Sum(f, T) = f[x] + Sum(f, R) /\ Sum(f, R) = Sum(f, R \cap A) + Sum(f, R \ A)
    BY <1>1, <1>3, <2>1
  <2>4. Sum(f, R \cap A) \in Nat /\ Sum(f, R \ A) \in Nat /\ f[x] \in Nat
    BY <1>1, <2>2
  <2>5. CASE x \in A
    <3>1. x \in T \cap A /\ (T \cap A) \ {x} = R \cap A /\ T \ A = R \ A
      BY <2>1, <2>5
    <3>2. Sum(f, T \cap A) = f[x] + Sum(f, R \cap A)
      BY <1>1, <2>2, <3>1
    <3>3. Sum(f, T \ A) = Sum(f, R \ A)
      BY <3>1
    <3>4. Sum(f, T) = Sum(f, T \cap A) + Sum(f, T \ A)
      BY <2>3, <2>4, <3>2, <3>3
    <3>. QED BY <3>4
  <2>6. CASE x \notin A
    <3>1. x \in T \ A /\ (T \ A) \ {x} = R \ A /\ T \cap A = R \cap A
      BY <2>1, <2>6
    <3>2. Sum(f, T \ A) = f[x] + Sum(f, R \ A)
      BY <1>1, <2>2, <3>1
    <3>3. Sum(f, T \cap A) = Sum(f, R \cap A)
      BY <3>1
    <3>4. Sum(f, T) = Sum(f, T \cap A) + Sum(f, T \ A)
      BY <2>3, <2>4, <3>2, <3>3
    <3>. QED BY <3>4
  <2>. QED BY <2>5, <2>6
<1>4. \A T \in SUBSET S : T \in P
  <2>. HIDE DEF P
  <2>. QED BY <1>2, <1>3, SubsetsBuilt
<1>5. S \in SUBSET S /\ S \cap A = A
  OBVIOUS
<1>. QED BY <1>4, <1>5 DEF Sum
-----------------------------------------------------------------------------
(* Division *)

LEMMA DivisionIs ==
  ASSUME NEW R \in Nat, NEW k \in Nat \ {0}
  PROVE  R \div k \in Nat /\ (R \div k) * k <= R /\ R < (R \div k) * k + k
OBVIOUS

\* The quotient is the most that fits.
LEMMA QuotientIsMost ==
  ASSUME NEW R \in Nat, NEW k \in Nat \ {0}, NEW s \in Nat, s * k <= R
  PROVE  s <= R \div k
<1>1. PICK q \in Nat : q = R \div k
  BY DivisionIs
<1>2. SUFFICES ASSUME ~(s <= q) PROVE FALSE
  BY <1>1
<1>3. PICK d \in Nat : s = q + 1 + d
  <2>1. s - (q + 1) \in Nat
    BY <1>1, <1>2
  <2>. QED BY <2>1
<1>4. s * k = q * k + k + d * k /\ d * k >= 0
  BY <1>3
<1>5. R < q * k + k
  BY <1>1, DivisionIs
<1>6. q * k \in Int /\ d * k \in Int
  OBVIOUS
<1>. QED BY <1>4, <1>5, <1>6
=============================================================================
