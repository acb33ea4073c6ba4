----------------------------- MODULE BookProofs -----------------------------
(***************************************************************************)
(* Proofs about the book: what every run records, for any names, scenes    *)
(* and policies and any number of sessions.                                *)
(***************************************************************************)
EXTENDS Book, OrderLemmas
-----------------------------------------------------------------------------
(* What the selection returns *)

Books(S) == [buys : Seq(S), watch : Seq(S)]

\* The book grows by one name at a time.
Grows(book, N, S, kept, others, decision, blocked, sector, correlation, limits) ==
  /\ book \in [0..N -> Books(S)] /\ book[0] = kept
  /\ \A n \in 1..N :
       book[n] = Offered(book[n - 1], others[n], decision, blocked, sector, correlation, limits)
  /\ Open(kept, others, decision, blocked, sector, correlation, limits) = book[N]

LEMMA OpenIs ==
  ASSUME NEW S, NEW kept \in Books(S), NEW others \in Seq(S), NEW decision, NEW blocked,
         NEW sector, NEW correlation, NEW limits
  PROVE  \E book : Grows(book, Len(others), S, kept, others, decision, blocked, sector,
                         correlation, limits)
<1>. DEFINE N == Len(others)
            Step(b, s) == Offered(b, s, decision, blocked, sector, correlation, limits)
            F == [n \in 1..N |-> [b \in Books(S) |-> Step(b, others[n])]]
<1>1. N \in Nat /\ \A n \in 1..N : others[n] \in S
  OBVIOUS
<1>2. ASSUME NEW b \in Books(S), NEW s \in S
      PROVE  Step(b, s) \in Books(S)
  <2>1. /\ b.buys \in Seq(S) /\ Append(b.buys, s) \in Seq(S)
        /\ b.watch \in Seq(S) /\ Append(b.watch, s) \in Seq(S)
    BY DEF Books
  <2>. QED BY <2>1 DEF Offered, Books
<1>. HIDE DEF Step
<1>3. F \in [1..N -> [Books(S) -> Books(S)]]
  BY <1>1, <1>2
<1>. HIDE DEF N
<1>4. PICK g \in [0..N -> Books(S)] : g[0] = kept /\ \A n \in 1..N : g[n] = F[n][g[n - 1]]
  <2>1. PICK V : V = Books(S)
    OBVIOUS
  <2>2. F \in [1..N -> [V -> V]] /\ kept \in V
    BY <1>3, <2>1
  <2>. HIDE DEF F
  <2>3. \E g : Chain(g, N, V, kept, F)
    BY <1>1, <2>2, ChainExists
  <2>. QED BY <2>1, <2>3 DEF Chain
<1>5. ASSUME NEW n \in 1..N PROVE n \in 0..N /\ n - 1 \in 0..N /\ g[n - 1] \in Books(S)
  BY <1>1
<1>6. \A n \in 1..N : g[n] = Step(g[n - 1], others[n])
  BY <1>4, <1>5
<1>. DEFINE Built(b) ==
       b = [n \in 0..N |-> IF n = 0 THEN kept ELSE Step(b[n - 1], others[n])]
<1>7. ASSUME NEW b, Built(b)
      PROVE  /\ b[0] = kept
             /\ \A n \in 1..N : b[n] = Step(b[n - 1], others[n])
  <2>1. 0 \in 0..N /\ \A n \in 1..N : n \in 0..N /\ n # 0
    BY <1>1
  <2>. QED BY <1>7, <2>1
<1>8. Built(g)
  <2>1. \A n \in 0..N : n = 0 \/ n \in 1..N
    BY <1>1
  <2>. QED BY <1>4, <1>6, <2>1
<1>9. PICK b : b = (CHOOSE c : Built(c))
  OBVIOUS
<1>10. Built(b)
  BY <1>8, <1>9
<1>11. Open(kept, others, decision, blocked, sector, correlation, limits) = b[N]
  BY <1>9 DEF Open, N, Step
<1>12. b \in [0..N -> Books(S)]
  <2>. DEFINE P == {n \in 0..N : b[n] \in Books(S)}
  <2>1. 0 \in P
    BY <1>1, <1>7, <1>10
  <2>2. ASSUME NEW n \in 1..N, n - 1 \in P PROVE n \in P
    BY <1>1, <1>2, <1>5, <1>7, <1>10, <2>2
  <2>3. \A n \in 0..N : n \in P
    <3>. HIDE DEF P
    <3>. QED BY <1>1, <2>1, <2>2, UpTo
  <2>4. b = [n \in 0..N |-> b[n]]
    BY <1>10
  <2>. QED BY <2>3, <2>4
<1>. QED BY <1>7, <1>10, <1>11, <1>12 DEF N, Step, Grows

\* Sectors are classes: a name added counts against the names of its own sector.
LEMMA SectorGrows ==
  ASSUME NEW S, NEW buys \in Seq(S), NEW t \in S, NEW sector, NEW s
  PROVE  /\ InSector(sector, s, buys) \in Nat
         /\ SameSector(sector, s, t) =>
              InSector(sector, s, Append(buys, t)) <= InSector(sector, t, buys) + 1
         /\ ~SameSector(sector, s, t) =>
              InSector(sector, s, Append(buys, t)) = InSector(sector, s, buys)
<1>. DEFINE Class(u, B) == {v \in B : SameSector(sector, u, v)}
<1>1. IsFiniteSet(ToSet(buys)) /\ ToSet(Append(buys, t)) = ToSet(buys) \cup {t}
  BY MembersAreFinite, AppendIs
<1>2. \A u : IsFiniteSet(Class(u, ToSet(buys)))
  BY <1>1, FS_Subset
<1>3. \A u : Cardinality(Class(u, ToSet(buys))) \in Nat
  BY <1>2, FS_CardinalityType
<1>4. ASSUME SameSector(sector, s, t)
      PROVE  Cardinality(Class(s, ToSet(Append(buys, t)))) <= Cardinality(Class(t, ToSet(buys))) + 1
  <2>1. Class(s, ToSet(Append(buys, t))) = Class(t, ToSet(buys)) \cup {t}
    BY <1>1, <1>4 DEF SameSector
  <2>2. Cardinality(Class(t, ToSet(buys)) \cup {t}) <= Cardinality(Class(t, ToSet(buys))) + 1
    <3>1. PICK C : C = Class(t, ToSet(buys))
      OBVIOUS
    <3>2. IsFiniteSet(C) /\ Cardinality(C) \in Nat
      BY <1>2, <1>3, <3>1
    <3>3. Cardinality(C \cup {t}) = IF t \in C THEN Cardinality(C) ELSE Cardinality(C) + 1
      BY <3>2, FS_AddElement
    <3>4. Cardinality(C \cup {t}) <= Cardinality(C) + 1
      BY <3>2, <3>3
    <3>. QED BY <3>1, <3>4
  <2>. QED BY <2>1, <2>2
<1>5. ASSUME ~SameSector(sector, s, t)
      PROVE  Class(s, ToSet(Append(buys, t))) = Class(s, ToSet(buys))
  BY <1>1, <1>5
<1>. QED BY <1>3, <1>4, <1>5 DEF InSector

\* What the limits leave of a book that had kept before any name was added.
WithinLimits(book, kept, decision, blocked, sector, correlation, limits) ==
  /\ Len(book.buys) <= limits.maxSignals
  /\ ToSet(kept.buys) \subseteq ToSet(book.buys)
  /\ Len(kept.buys) = limits.maxSignals => book.buys = kept.buys
  /\ \A s \in ToSet(book.buys) \ ToSet(kept.buys) :
       /\ decision[s].status = "TRIGGERED" /\ ~blocked
       /\ InSector(sector, s, book.buys) <= limits.maxPerSector
       /\ ~TooCorrelated(s, book.buys, correlation)

\* Each name offered leaves the book within them.
LEMMA OfferedKeepsLimits ==
  ASSUME NEW S, NEW book \in Books(S), NEW kept \in Books(S), NEW t \in S, NEW decision,
         NEW blocked, NEW sector, NEW correlation, NEW limits,
         limits.maxSignals \in Nat, limits.maxPerSector \in Nat,
         WithinLimits(book, kept, decision, blocked, sector, correlation, limits)
  PROVE  LET next == Offered(book, t, decision, blocked, sector, correlation, limits)
         IN  /\ WithinLimits(next, kept, decision, blocked, sector, correlation, limits)
             /\ ToSet(next.buys) \cup ToSet(next.watch)
                  = (ToSet(book.buys) \cup ToSet(book.watch)) \cup {t}
<1>. DEFINE refused == Refused(t, decision[t].status, book.buys, blocked, sector, correlation, limits)
            next == Offered(book, t, decision, blocked, sector, correlation, limits)
<1>1. PICK buys \in Seq(S), watch \in Seq(S) : buys = book.buys /\ watch = book.watch
  BY DEF Books
<1>2. CASE refused
  <2>1. next.buys = buys /\ next.watch = Append(watch, t)
    BY <1>1, <1>2 DEF Offered
  <2>2. ToSet(Append(watch, t)) = ToSet(watch) \cup {t}
    BY AppendIs
  <2>3. WithinLimits(next, kept, decision, blocked, sector, correlation, limits)
    BY <1>1, <2>1 DEF WithinLimits
  <2>. QED BY <1>1, <2>1, <2>2, <2>3
<1>3. CASE ~refused
  <2>1. PICK more : more = Append(buys, t)
    OBVIOUS
  <2>2. next.buys = more /\ next.watch = watch
    BY <1>1, <1>3, <2>1 DEF Offered
  <2>3. more \in Seq(S) /\ Len(more) = Len(buys) + 1 /\ ToSet(more) = ToSet(buys) \cup {t}
    BY <2>1, AppendIs
  <2>4. /\ decision[t].status = "TRIGGERED" /\ ~blocked
        /\ ~(InSector(sector, t, buys) >= limits.maxPerSector)
        /\ ~TooCorrelated(t, buys, correlation)
        /\ ~(Len(buys) >= limits.maxSignals)
    BY <1>1, <1>3 DEF Refused
  <2>5. Len(buys) \in Nat /\ InSector(sector, t, buys) \in Nat
    BY SectorGrows
  <2>6. Len(more) <= limits.maxSignals
    BY <2>3, <2>4, <2>5
  <2>7. Len(kept.buys) # limits.maxSignals
    BY <1>1, <2>4, <2>5 DEF WithinLimits
  <2>8. ASSUME NEW s \in ToSet(more) \ ToSet(kept.buys)
        PROVE  /\ decision[s].status = "TRIGGERED" /\ ~blocked
               /\ InSector(sector, s, more) <= limits.maxPerSector
               /\ ~TooCorrelated(s, more, correlation)
    <3>1. s = t \/ s \in ToSet(buys) \ ToSet(kept.buys)
      BY <2>3
    <3>2. decision[s].status = "TRIGGERED" /\ ~blocked
      BY <1>1, <2>4, <3>1 DEF WithinLimits
    <3>3. InSector(sector, s, more) <= limits.maxPerSector
      <4>1. ASSUME SameSector(sector, s, t) PROVE InSector(sector, s, more) <= limits.maxPerSector
        <5>1. /\ InSector(sector, s, more) <= InSector(sector, t, buys) + 1
              /\ InSector(sector, s, more) \in Nat
          BY <2>1, <2>3, <4>1, SectorGrows
        <5>. QED BY <2>4, <2>5, <5>1
      <4>2. ASSUME ~SameSector(sector, s, t) PROVE InSector(sector, s, more) <= limits.maxPerSector
        <5>1. InSector(sector, s, more) = InSector(sector, s, buys)
          BY <2>1, <4>2, SectorGrows
        <5>2. s \in ToSet(buys) \ ToSet(kept.buys)
          BY <3>1, <4>2 DEF SameSector
        <5>. QED BY <1>1, <5>1, <5>2 DEF WithinLimits
      <4>. QED BY <4>1, <4>2
    <3>5. ~TooCorrelated(s, more, correlation)
      <4>1. {s, t} = {t, s}
        OBVIOUS
      <4>2. s = t => ~TooCorrelated(s, more, correlation)
        BY <2>3, <2>4 DEF TooCorrelated
      <4>3. ASSUME s # t, s \in ToSet(buys) \ ToSet(kept.buys) PROVE ~TooCorrelated(s, more, correlation)
        <5>1. ~TooCorrelated(s, buys, correlation)
          BY <1>1, <4>3 DEF WithinLimits
        <5>2. correlation[{s, t}] # "high"
          BY <2>4, <4>1, <4>3 DEF TooCorrelated
        <5>. QED BY <2>3, <5>1, <5>2 DEF TooCorrelated
      <4>. QED BY <3>1, <4>2, <4>3
    <3>. QED BY <3>2, <3>3, <3>5
  <2>9. ToSet(kept.buys) \subseteq ToSet(more)
    BY <1>1, <2>3 DEF WithinLimits
  <2>10. WithinLimits(next, kept, decision, blocked, sector, correlation, limits)
    BY <2>2, <2>6, <2>7, <2>8, <2>9 DEF WithinLimits
  <2>. QED BY <1>1, <2>2, <2>3, <2>10
<1>. QED BY <1>2, <1>3

\* So does the whole round of offers, which loses no name.
LEMMA OpenKeepsLimits ==
  ASSUME NEW S, NEW kept \in Books(S), NEW others \in Seq(S), NEW decision, NEW blocked,
         NEW sector, NEW correlation, NEW limits,
         limits.maxSignals \in Nat, limits.maxPerSector \in Nat,
         Len(kept.buys) <= limits.maxSignals
  PROVE  LET sel == Open(kept, others, decision, blocked, sector, correlation, limits)
         IN  /\ sel \in Books(S)
             /\ WithinLimits(sel, kept, decision, blocked, sector, correlation, limits)
             /\ ToSet(sel.buys) \cup ToSet(sel.watch)
                  = (ToSet(kept.buys) \cup ToSet(kept.watch)) \cup ToSet(others)
<1>1. PICK N \in Nat : N = Len(others)
  OBVIOUS
<1>2. DOMAIN others = 1..N /\ \A n \in 1..N : others[n] \in S
  BY <1>1
<1>3. PICK book \in [0..N -> Books(S)] :
           /\ book[0] = kept
           /\ \A n \in 1..N :
                book[n] = Offered(book[n - 1], others[n], decision, blocked, sector, correlation,
                                  limits)
           /\ Open(kept, others, decision, blocked, sector, correlation, limits) = book[N]
  <2>1. \E book : Grows(book, N, S, kept, others, decision, blocked, sector, correlation, limits)
    BY <1>1, OpenIs
  <2>. QED BY <2>1 DEF Grows
<1>. DEFINE Fits(b) == WithinLimits(b, kept, decision, blocked, sector, correlation, limits)
            All(b) == ToSet(b.buys) \cup ToSet(b.watch)
            P == {n \in 0..N : /\ Fits(book[n])
                               /\ All(book[n]) = All(kept) \cup {others[i] : i \in 1..n}}
<1>4. 0 \in P
  <2>1. Fits(kept)
    BY DEF WithinLimits
  <2>2. {others[i] : i \in 1..0} = {}
    OBVIOUS
  <2>. HIDE DEF Fits, All
  <2>. QED BY <1>3, <2>1, <2>2
<1>5. ASSUME NEW n \in 1..N, n - 1 \in P PROVE n \in P
  <2>1. n \in 0..N /\ n - 1 \in 0..N /\ book[n - 1] \in Books(S) /\ others[n] \in S
    BY <1>2, <1>3
  <2>2. PICK b \in Books(S) : b = book[n - 1]
    BY <2>1
  <2>3. PICK c : c = Offered(b, others[n], decision, blocked, sector, correlation, limits)
    OBVIOUS
  <2>4. Fits(c) /\ All(c) = All(b) \cup {others[n]}
    <3>1. WithinLimits(b, kept, decision, blocked, sector, correlation, limits)
      BY <1>5, <2>2
    <3>2. PICK t \in S : t = others[n]
      BY <2>1
    <3>3. LET next == Offered(b, t, decision, blocked, sector, correlation, limits)
          IN  /\ WithinLimits(next, kept, decision, blocked, sector, correlation, limits)
              /\ ToSet(next.buys) \cup ToSet(next.watch)
                   = (ToSet(b.buys) \cup ToSet(b.watch)) \cup {t}
      BY <3>1, OfferedKeepsLimits
    <3>. QED BY <2>3, <3>2, <3>3
  <2>5. book[n] = c
    BY <1>3, <2>2, <2>3
  <2>6. {others[i] : i \in 1..n} = {others[i] : i \in 1..(n - 1)} \cup {others[n]}
    <3>1. \A i \in 1..n : i = n \/ i \in 1..(n - 1)
      OBVIOUS
    <3>2. \A i \in 1..(n - 1) : i \in 1..n
      OBVIOUS
    <3>. QED BY <3>1, <3>2
  <2>7. All(b) = All(kept) \cup {others[i] : i \in 1..(n - 1)}
    BY <1>5, <2>2
  <2>. HIDE DEF Fits, All
  <2>. QED BY <2>1, <2>4, <2>5, <2>6, <2>7
<1>6. N \in P
  <2>. HIDE DEF P
  <2>1. \A n \in 0..N : n \in P
    BY <1>4, <1>5, UpTo
  <2>. QED BY <2>1
<1>7. {others[i] : i \in 1..N} = ToSet(others)
  BY <1>2 DEF ToSet
<1>8. book[N] \in Books(S)
  BY <1>3
<1>. QED BY <1>3, <1>6, <1>7, <1>8

\* The names of a list that are held already and triggered.
KeptOf(list, decision, book) == {s \in book \cap ToSet(list) : decision[s].status = "TRIGGERED"}

\* The whole selection: those kept, as many as fit, and then what the limits admit.
LEMMA SelectIs ==
  ASSUME NEW S, NEW list \in Seq(S), IsInjective(list), NEW decision, NEW book, NEW blocked,
         NEW sector, NEW correlation, NEW limits,
         limits.maxSignals \in Nat, limits.maxPerSector \in Nat
  PROVE  LET sel   == Select(list, decision, book, blocked, sector, correlation, limits)
             first == Among(list, KeptOf(list, decision, book))
         IN  /\ sel \in Books(S)
             /\ ToSet(sel.buys) \cup ToSet(sel.watch) = ToSet(list)
             /\ WithinLimits(sel, KeepHeld(first, limits), decision, blocked, sector, correlation,
                             limits)
<1>. DEFINE kept == KeptOf(list, decision, book)
            sel == Select(list, decision, book, blocked, sector, correlation, limits)
<1>1. PICK first : first = Among(list, kept)
  OBVIOUS
<1>2. PICK rest : rest = Among(list, ToSet(list) \ kept)
  OBVIOUS
<1>3. first \in Seq(S) /\ IsInjective(first) /\ ToSet(first) = ToSet(list) \cap kept
  BY <1>1, AmongIs
<1>4. rest \in Seq(S) /\ ToSet(rest) = ToSet(list) \cap (ToSet(list) \ kept)
  BY <1>2, AmongIs
<1>5. PICK start : start = KeepHeld(first, limits)
  OBVIOUS
<1>6. /\ start.buys = Prefix(first, limits.maxSignals)
      /\ start.watch = SubSeq(first, limits.maxSignals + 1, Len(first))
      /\ start = [buys |-> start.buys, watch |-> start.watch]
  BY <1>5 DEF KeepHeld
<1>7. PICK m \in Nat : m = limits.maxSignals
  OBVIOUS
<1>8. /\ start.buys \in Seq(S) /\ Len(start.buys) <= m
      /\ ToSet(start.buys) = {first[i] : i \in {j \in DOMAIN first : j <= m}}
  <2>1. PICK pre : pre = Prefix(first, m)
    OBVIOUS
  <2>2. /\ pre \in Seq(S) /\ Len(pre) = IF m < Len(first) THEN m ELSE Len(first)
        /\ ToSet(pre) = {first[i] : i \in {j \in DOMAIN first : j <= m}}
    <3>1. /\ Prefix(first, m) \in Seq(S)
          /\ Len(Prefix(first, m)) = IF m < Len(first) THEN m ELSE Len(first)
          /\ ToSet(Prefix(first, m)) = {first[i] : i \in {j \in DOMAIN first : j <= m}}
      BY <1>3, PrefixIs
    <3>. QED BY <2>1, <3>1
  <2>3. Len(first) \in Nat /\ Len(pre) \in Nat
    BY <1>3, <2>2
  <2>4. Len(pre) <= m
    BY <2>2, <2>3
  <2>. QED BY <1>6, <1>7, <2>1, <2>2, <2>4
<1>9. /\ start.watch \in Seq(S)
      /\ ToSet(start.watch) = {first[i] : i \in {j \in DOMAIN first : j > m}}
  <2>1. PICK post : post = SubSeq(first, m + 1, Len(first))
    OBVIOUS
  <2>2. post \in Seq(S) /\ ToSet(post) = {first[i] : i \in {j \in DOMAIN first : j > m}}
    BY <1>3, <2>1, RestIs
  <2>. QED BY <1>6, <1>7, <2>1, <2>2
<1>10. start \in Books(S)
  BY <1>6, <1>8, <1>9 DEF Books
<1>11. ToSet(start.buys) \cup ToSet(start.watch) = ToSet(first)
  <2>1. \A i \in DOMAIN first : i \in Nat
    BY <1>3
  <2>2. \A i \in DOMAIN first : i <= m \/ i > m
    BY <2>1
  <2>. QED BY <1>8, <1>9, <2>2 DEF ToSet
<1>12. sel = Open(start, rest, decision, blocked, sector, correlation, limits)
  BY <1>1, <1>2, <1>5 DEF Select, KeptOf
<1>. HIDE DEF sel, kept
<1>13. /\ sel \in Books(S)
       /\ WithinLimits(sel, start, decision, blocked, sector, correlation, limits)
       /\ ToSet(sel.buys) \cup ToSet(sel.watch)
            = (ToSet(start.buys) \cup ToSet(start.watch)) \cup ToSet(rest)
  <2>1. Len(start.buys) <= limits.maxSignals
    BY <1>7, <1>8
  <2>. QED BY <1>4, <1>10, <1>12, <2>1, OpenKeepsLimits
<1>14. ToSet(sel.buys) \cup ToSet(sel.watch) = ToSet(list)
  BY <1>3, <1>4, <1>11, <1>13
<1>. QED BY <1>1, <1>5, <1>13, <1>14 DEF sel, kept
-----------------------------------------------------------------------------
(* What the screen shows *)

\* Ranks tell the names of a run from one another.
RanksApart(rank, names) ==
  /\ \A s \in names : rank[s] \in Nat
  /\ \A s, t \in names : rank[s] = rank[t] => s = t

\* A set of names by rank.
LEMMA ByRankIs ==
  ASSUME NEW names, IsFiniteSet(names), NEW rank, RanksApart(rank, names)
  PROVE  /\ ByRank(names, rank) \in Seq(names) /\ IsInjective(ByRank(names, rank))
         /\ ToSet(ByRank(names, rank)) = names
         /\ \A i, j \in DOMAIN ByRank(names, rank) :
              i < j => rank[ByRank(names, rank)[i]] < rank[ByRank(names, rank)[j]]
<1>. DEFINE R == {p \in names \X names : rank[p[1]] < rank[p[2]]}
<1>1. \A s, t \in names : <<s, t>> \in R <=> rank[s] < rank[t]
  OBVIOUS
<1>2. ByRank(names, rank) = Arranged(names, R)
  BY DEF ByRank
<1>. HIDE DEF R
<1>3. StrictOrder(names, R)
  BY <1>1 DEF StrictOrder, RanksApart
<1>4. PICK q : q = Arranged(names, R)
  OBVIOUS
<1>5. Lists(q, names, R)
  BY <1>3, <1>4, ArrangedIs
<1>6. \A i \in DOMAIN q : q[i] \in names
  BY <1>5 DEF Lists
<1>7. \A i, j \in DOMAIN q : i < j => rank[q[i]] < rank[q[j]]
  BY <1>1, <1>5, <1>6 DEF Lists
<1>. QED BY <1>2, <1>4, <1>5, <1>7 DEF Lists

\* The names carried are the best of those that return, and fit.
LEMMA CarriedIs ==
  ASSUME NEW shown, NEW pool, IsFiniteSet(pool), NEW rank, RanksApart(rank, pool)
  PROVE  LET carried   == Carried(shown, pool, rank)
             returning == Returning(shown, pool, rank)
         IN  /\ carried \subseteq returning
             /\ IsFiniteSet(carried) /\ Cardinality(carried) \in Nat
             /\ Cardinality(carried) <= EntryRank
             /\ \A s \in returning \ carried :
                  /\ Cardinality(carried) = EntryRank
                  /\ \A t \in carried : rank[t] < rank[s]
<1>1. PICK returning : returning = Returning(shown, pool, rank)
  OBVIOUS
<1>2. returning \subseteq pool /\ IsFiniteSet(returning)
  <2>1. returning \subseteq pool
    BY <1>1 DEF Returning
  <2>. QED BY <2>1, FS_Subset
<1>3. RanksApart(rank, returning)
  BY <1>2 DEF RanksApart
<1>4. PICK q : q = ByRank(returning, rank)
  OBVIOUS
<1>5. /\ q \in Seq(returning) /\ IsInjective(q) /\ ToSet(q) = returning
      /\ \A i, j \in DOMAIN q : i < j => rank[q[i]] < rank[q[j]]
  BY <1>2, <1>3, <1>4, ByRankIs
<1>6. PICK n \in Nat : n = EntryRank
  BY BandAssumption DEF BandAssumption
<1>7. PICK l \in Nat : l = Len(q)
  BY <1>5
<1>8. DOMAIN q = 1..l
  BY <1>5, <1>7
<1>9. PICK p : p = Prefix(q, n)
  OBVIOUS
<1>10. /\ p \in Seq(returning) /\ Len(p) = (IF n < l THEN n ELSE l) /\ IsInjective(p)
       /\ ToSet(p) = {q[i] : i \in {j \in DOMAIN q : j <= n}}
  <2>1. /\ Prefix(q, n) \in Seq(returning) /\ IsInjective(Prefix(q, n))
        /\ Len(Prefix(q, n)) = IF n < Len(q) THEN n ELSE Len(q)
        /\ ToSet(Prefix(q, n)) = {q[i] : i \in {j \in DOMAIN q : j <= n}}
    BY <1>5, <1>6, PrefixIs
  <2>. QED BY <1>7, <1>9, <2>1
<1>11. PICK carried : carried = Carried(shown, pool, rank)
  OBVIOUS
<1>12. carried = ToSet(p)
  BY <1>1, <1>4, <1>6, <1>9, <1>11 DEF Carried
<1>13. /\ IsFiniteSet(carried) /\ Cardinality(carried) = Len(p) /\ carried \subseteq returning
       /\ Len(p) \in Nat
  BY <1>10, <1>12, LengthOfList
<1>14. Cardinality(carried) <= EntryRank
  BY <1>6, <1>10, <1>13
<1>15. ASSUME NEW s \in returning \ carried
       PROVE  Cardinality(carried) = EntryRank /\ \A t \in carried : rank[t] < rank[s]
  <2>1. PICK i \in 1..l : q[i] = s
    BY <1>5, <1>8, <1>15 DEF ToSet
  <2>2. ~(i <= n)
    BY <1>8, <1>10, <1>12, <1>15, <2>1
  <2>3. Len(p) = n
    BY <1>10, <2>2
  <2>4. ASSUME NEW t \in carried PROVE rank[t] < rank[s]
    <3>1. PICK j \in 1..l : j <= n /\ q[j] = t
      BY <1>8, <1>10, <1>12
    <3>2. j < i
      BY <2>2, <3>1
    <3>. QED BY <1>5, <1>8, <2>1, <3>1, <3>2
  <2>. QED BY <1>6, <1>13, <2>3, <2>4
<1>. QED BY <1>1, <1>11, <1>13, <1>14, <1>15

\* The names in the pool, each once.
LEMMA PoolIs ==
  ASSUME NEW buys, NEW watch, IsFiniteSet(buys \cup watch), NEW rank,
         RanksApart(rank, buys \cup watch)
  PROVE  /\ Pool(buys, watch, rank) \in Seq(buys \cup watch)
         /\ IsInjective(Pool(buys, watch, rank))
         /\ ToSet(Pool(buys, watch, rank)) = buys \cup watch
<1>1. PICK p : p = ByRank(buys, rank)
  OBVIOUS
<1>2. PICK q : q = ByRank(watch \ buys, rank)
  OBVIOUS
<1>3. PICK pool : pool = buys \cup watch
  OBVIOUS
<1>4. IsFiniteSet(buys) /\ IsFiniteSet(watch \ buys)
  <2>1. IsFiniteSet(pool) /\ buys \in SUBSET pool /\ watch \ buys \in SUBSET pool
    BY <1>3
  <2>. QED BY <2>1, FS_Subset
<1>5. RanksApart(rank, buys) /\ RanksApart(rank, watch \ buys)
  BY DEF RanksApart
<1>6. p \in Seq(buys) /\ IsInjective(p) /\ ToSet(p) = buys
  BY <1>1, <1>4, <1>5, ByRankIs
<1>7. q \in Seq(watch \ buys) /\ IsInjective(q) /\ ToSet(q) = watch \ buys
  BY <1>2, <1>4, <1>5, ByRankIs
<1>8. p \in Seq(pool) /\ q \in Seq(pool)
  BY <1>3, <1>6, <1>7
<1>9. PICK r : r = p \o q
  OBVIOUS
<1>10. ToSet(p) \cap ToSet(q) = {} /\ ToSet(p) \cup ToSet(q) = pool
  BY <1>3, <1>6, <1>7
<1>11. /\ p \o q \in Seq(pool) /\ ToSet(p \o q) = ToSet(p) \cup ToSet(q)
       /\ IsInjective(p \o q)
  BY <1>6, <1>7, <1>8, <1>10, ConcatIs
<1>12. Pool(buys, watch, rank) = r
  BY <1>1, <1>2, <1>9 DEF Pool
<1>. QED BY <1>3, <1>9, <1>10, <1>11, <1>12

\* The names that fill the slots left are of the pool, and not shown before.
LEMMA FreshIs ==
  ASSUME NEW shown, NEW buys, NEW watch, IsFiniteSet(buys \cup watch), NEW rank,
         RanksApart(rank, buys \cup watch)
  PROVE  LET fresh == Fresh(shown, buys, watch, rank)
             carried == Carried(shown, buys \cup watch, rank)
         IN  /\ fresh \subseteq (buys \cup watch) \ (carried \cup shown)
             /\ IsFiniteSet(fresh) /\ Cardinality(fresh) \in Nat
             /\ Cardinality(fresh) <= EntryRank - Cardinality(carried)
<1>1. PICK pool : pool = buys \cup watch
  OBVIOUS
<1>2. PICK carried : carried = Carried(shown, pool, rank)
  OBVIOUS
<1>3. PICK gone : gone = carried \cup (shown \ carried)
  OBVIOUS
<1>4. PICK list : list = Pool(buys, watch, rank)
  OBVIOUS
<1>5. list \in Seq(pool) /\ IsInjective(list) /\ ToSet(list) = pool
  BY <1>1, <1>4, PoolIs
<1>6. PICK q : q = Among(list, pool \ gone)
  OBVIOUS
<1>7. q \in Seq(pool) /\ IsInjective(q) /\ ToSet(q) = ToSet(list) \cap (pool \ gone)
  BY <1>5, <1>6, AmongIs
<1>8. Cardinality(carried) \in Nat /\ Cardinality(carried) <= EntryRank /\ EntryRank \in Nat
  BY <1>1, <1>2, CarriedIs, BandAssumption DEF BandAssumption
<1>9. PICK n \in Nat : n = EntryRank - Cardinality(carried)
  BY <1>8
<1>10. PICK p : p = Prefix(q, n)
  OBVIOUS
<1>11. /\ p \in Seq(pool) /\ IsInjective(p) /\ Len(p) <= n /\ Len(p) \in Nat
       /\ ToSet(p) \subseteq ToSet(q)
  <2>1. /\ Prefix(q, n) \in Seq(pool) /\ IsInjective(Prefix(q, n))
        /\ Len(Prefix(q, n)) = IF n < Len(q) THEN n ELSE Len(q)
        /\ ToSet(Prefix(q, n)) = {q[i] : i \in {j \in DOMAIN q : j <= n}}
    BY <1>7, PrefixIs
  <2>2. Len(q) \in Nat
    BY <1>7
  <2>3. {q[i] : i \in {j \in DOMAIN q : j <= n}} \subseteq ToSet(q)
    BY DEF ToSet
  <2>4. Len(p) <= n /\ Len(p) \in Nat
    BY <1>10, <2>1, <2>2
  <2>. QED BY <1>10, <2>1, <2>3, <2>4
<1>12. PICK fresh : fresh = Fresh(shown, buys, watch, rank)
  OBVIOUS
<1>13. fresh = ToSet(p)
  BY <1>1, <1>2, <1>3, <1>4, <1>6, <1>9, <1>10, <1>12 DEF Fresh, Departures
<1>14. IsFiniteSet(fresh) /\ Cardinality(fresh) = Len(p)
  BY <1>11, <1>13, LengthOfList
<1>15. fresh \subseteq pool \ (carried \cup shown)
  BY <1>3, <1>7, <1>11, <1>13
<1>. QED BY <1>1, <1>2, <1>9, <1>11, <1>12, <1>14, <1>15

\* What a run shows, in terms of what was shown before it.
Stable(next, earlier, pool, rank, session) ==
  /\ Cardinality(DOMAIN next) <= EntryRank
  /\ \A s \in DOMAIN next : next[s] = IF s \in DOMAIN earlier THEN earlier[s] ELSE session
  /\ \A s \in DOMAIN earlier \cap pool :
       s \notin DOMAIN next /\ rank[s] <= ExitRank =>
         /\ Cardinality(DOMAIN next) = EntryRank
         /\ \A t \in DOMAIN next : t \in DOMAIN earlier /\ rank[t] < rank[s]
  /\ \A s \in DOMAIN next : rank[s] > ExitRank => s \notin DOMAIN earlier

LEMMA SlateIs ==
  ASSUME NEW earlier, NEW buys, NEW watch, IsFiniteSet(buys \cup watch), NEW rank,
         RanksApart(rank, buys \cup watch), NEW session
  PROVE  /\ DOMAIN SelectSlate(earlier, buys, watch, rank, session) \subseteq buys \cup watch
         /\ Stable(SelectSlate(earlier, buys, watch, rank, session), earlier, buys \cup watch, rank,
                   session)
<1>1. PICK pool : pool = buys \cup watch
  OBVIOUS
<1>2. PICK shown : shown = DOMAIN earlier
  OBVIOUS
<1>3. PICK carried : carried = Carried(shown, pool, rank)
  OBVIOUS
<1>4. PICK returning : returning = Returning(shown, pool, rank)
  OBVIOUS
<1>5. PICK fresh : fresh = Fresh(shown, buys, watch, rank)
  OBVIOUS
<1>6. PICK next : next = SelectSlate(earlier, buys, watch, rank, session)
  OBVIOUS
<1>7. /\ carried \subseteq returning
      /\ IsFiniteSet(carried) /\ Cardinality(carried) \in Nat
      /\ Cardinality(carried) <= EntryRank
      /\ \A s \in returning \ carried :
           Cardinality(carried) = EntryRank /\ \A t \in carried : rank[t] < rank[s]
  BY <1>1, <1>3, <1>4, CarriedIs
<1>8. /\ fresh \subseteq pool \ (carried \cup shown)
      /\ IsFiniteSet(fresh) /\ Cardinality(fresh) \in Nat
      /\ Cardinality(fresh) <= EntryRank - Cardinality(carried)
  BY <1>1, <1>3, <1>5, FreshIs
<1>9. next = [s \in carried \cup fresh |-> IF s \in carried THEN earlier[s] ELSE session]
  BY <1>1, <1>2, <1>3, <1>5, <1>6 DEF SelectSlate
<1>10. returning = {s \in shown \cap pool : rank[s] <= ExitRank}
  BY <1>4 DEF Returning
<1>11. EntryRank \in Nat
  BY BandAssumption DEF BandAssumption
<1>12. Cardinality(carried \cup fresh) = Cardinality(carried) + Cardinality(fresh)
  <2>1. carried \cap fresh = {}
    BY <1>8
  <2>2. PICK none : none = carried \cap fresh
    OBVIOUS
  <2>3. Cardinality(none) = 0
    BY <2>1, <2>2, FS_EmptySet
  <2>4. Cardinality(carried \cup fresh) = Cardinality(carried) + Cardinality(fresh) - Cardinality(carried \cap fresh)
    BY <1>7, <1>8, FS_Union
  <2>. QED BY <1>7, <1>8, <2>2, <2>3, <2>4
<1>13. DOMAIN next = carried \cup fresh
  BY <1>9
<1>14. Cardinality(DOMAIN next) <= EntryRank
  BY <1>7, <1>8, <1>11, <1>12, <1>13
<1>15. ASSUME NEW s \in DOMAIN next
       PROVE  next[s] = IF s \in shown THEN earlier[s] ELSE session
  BY <1>7, <1>8, <1>9, <1>10, <1>13, <1>15
<1>16. ASSUME NEW s \in shown \cap pool, s \notin DOMAIN next, rank[s] <= ExitRank
       PROVE  /\ Cardinality(DOMAIN next) = EntryRank
              /\ \A t \in DOMAIN next : t \in shown /\ rank[t] < rank[s]
  <2>1. s \in returning \ carried
    BY <1>10, <1>13, <1>16
  <2>2. Cardinality(carried) = EntryRank /\ \A t \in carried : rank[t] < rank[s]
    BY <1>7, <2>1
  <2>3. Cardinality(fresh) = 0
    BY <1>8, <1>11, <2>2
  <2>4. fresh = {}
    BY <1>8, <2>3, FS_EmptySet
  <2>5. carried \cup fresh = carried
    BY <2>4
  <2>6. DOMAIN next = carried
    BY <1>13, <2>5
  <2>7. \A t \in carried : t \in shown
    BY <1>7, <1>10
  <2>. QED BY <2>2, <2>6, <2>7
<1>17. \A s \in DOMAIN next : rank[s] > ExitRank => s \notin shown
  <2>1. ASSUME NEW s \in carried PROVE ~(rank[s] > ExitRank)
    <3>1. rank[s] <= ExitRank /\ rank[s] \in Nat /\ ExitRank \in Nat
      BY <1>1, <1>7, <1>10, BandAssumption DEF RanksApart, BandAssumption
    <3>. QED BY <3>1
  <2>2. \A s \in fresh : s \notin shown
    BY <1>8
  <2>. QED BY <1>13, <2>1, <2>2
<1>18. DOMAIN next \subseteq pool
  BY <1>7, <1>8, <1>10, <1>13
<1>. QED BY <1>1, <1>2, <1>6, <1>14, <1>15, <1>16, <1>17, <1>18 DEF Stable
-----------------------------------------------------------------------------
(* What the conviction gate buys *)

\* The gate's list grows one candidate at a time.
Fills(buys, N, S, cleared, residual) ==
  /\ buys \in [0..N -> Seq(S)] /\ buys[0] = << >>
  /\ \A n \in 1..N : buys[n] = Adding(buys[n - 1], n, cleared, residual)
  /\ SelectAtMostTwo(cleared, residual) = buys[N]

LEMMA FillsIs ==
  ASSUME NEW S, NEW cleared \in Seq(S), NEW residual
  PROVE  \E buys : Fills(buys, Len(cleared), S, cleared, residual)
<1>. DEFINE N == Len(cleared)
            Step(b, n) == Adding(b, n, cleared, residual)
            F == [n \in 1..N |-> [b \in Seq(S) |-> Step(b, n)]]
            Built(b) == b = [n \in 0..N |-> IF n = 0 THEN << >> ELSE Step(b[n - 1], n)]
<1>1. N \in Nat /\ \A n \in 1..N : cleared[n] \in S
  OBVIOUS
<1>2. ASSUME NEW b \in Seq(S), NEW n \in 1..N
      PROVE  Step(b, n) \in Seq(S)
  BY <1>1 DEF Adding
<1>. HIDE DEF Step
<1>3. F \in [1..N -> [Seq(S) -> Seq(S)]]
  BY <1>1, <1>2
<1>. HIDE DEF N
<1>4. PICK g \in [0..N -> Seq(S)] : g[0] = << >> /\ \A n \in 1..N : g[n] = F[n][g[n - 1]]
  <2>1. PICK V : V = Seq(S)
    OBVIOUS
  <2>2. PICK a : a = << >>
    OBVIOUS
  <2>3. F \in [1..N -> [V -> V]] /\ a \in V
    BY <1>3, <2>1, <2>2
  <2>. HIDE DEF F
  <2>4. \E g : Chain(g, N, V, a, F)
    BY <1>1, <2>3, ChainExists
  <2>. QED BY <2>1, <2>2, <2>4 DEF Chain
<1>5. ASSUME NEW n \in 1..N PROVE n \in 0..N /\ n - 1 \in 0..N /\ g[n - 1] \in Seq(S)
  BY <1>1
<1>6. \A n \in 1..N : g[n] = Step(g[n - 1], n)
  BY <1>4, <1>5
<1>7. ASSUME NEW b, Built(b)
      PROVE  b[0] = << >> /\ \A n \in 1..N : b[n] = Step(b[n - 1], n)
  <2>1. 0 \in 0..N /\ \A n \in 1..N : n \in 0..N /\ n # 0
    BY <1>1
  <2>. QED BY <1>7, <2>1
<1>8. Built(g)
  <2>1. \A n \in 0..N : n = 0 \/ n \in 1..N
    BY <1>1
  <2>. QED BY <1>4, <1>6, <2>1
<1>9. PICK b : b = (CHOOSE c : Built(c))
  OBVIOUS
<1>10. Built(b)
  BY <1>8, <1>9
<1>11. SelectAtMostTwo(cleared, residual) = b[N]
  BY <1>9 DEF SelectAtMostTwo, N, Step
<1>12. b \in [0..N -> Seq(S)]
  <2>. DEFINE P == {n \in 0..N : b[n] \in Seq(S)}
  <2>1. 0 \in P
    BY <1>1, <1>7, <1>10
  <2>2. ASSUME NEW n \in 1..N, n - 1 \in P PROVE n \in P
    BY <1>1, <1>2, <1>5, <1>7, <1>10, <2>2
  <2>3. \A n \in 0..N : n \in P
    <3>. HIDE DEF P
    <3>. QED BY <1>1, <2>1, <2>2, UpTo
  <2>4. b = [n \in 0..N |-> b[n]]
    BY <1>10
  <2>. QED BY <2>3, <2>4
<1>. QED BY <1>7, <1>10, <1>11, <1>12 DEF N, Step, Fills

\* The places, up to one, of the candidates shown not to move with the first.
Apart(n, cleared, residual) == {i \in 2..n : Independent(cleared[1], cleared[i], residual)}

LEMMA ApartIs ==
  ASSUME NEW n \in Nat, NEW cleared, NEW residual
  PROVE  /\ IsFiniteSet(Apart(n, cleared, residual))
         /\ Cardinality(Apart(n, cleared, residual)) \in Nat
         /\ n <= 1 => Cardinality(Apart(n, cleared, residual)) = 0
<1>1. IsFiniteSet(2..n)
  BY FS_Interval, 2 \in Int, n \in Int
<1>2. Apart(n, cleared, residual) \in SUBSET (2..n)
  BY DEF Apart
<1>3. n <= 1 => Apart(n, cleared, residual) = {}
  BY DEF Apart
<1>. QED BY <1>1, <1>2, <1>3, FS_Subset, FS_CardinalityType, FS_EmptySet

LEMMA ApartGrows ==
  ASSUME NEW n \in Nat, n > 1, NEW cleared, NEW residual,
         Independent(cleared[1], cleared[n], residual)
  PROVE  /\ Apart(n, cleared, residual) = Apart(n - 1, cleared, residual) \cup {n}
         /\ Cardinality(Apart(n, cleared, residual))
              = Cardinality(Apart(n - 1, cleared, residual)) + 1
<1>1. n \in 2..n /\ \A i : i \in 2..n <=> i = n \/ i \in 2..(n - 1)
  OBVIOUS
<1>2. PICK T : T = Apart(n - 1, cleared, residual)
  OBVIOUS
<1>3. Apart(n, cleared, residual) = T \cup {n}
  BY <1>1, <1>2 DEF Apart
<1>4. n \notin T
  BY <1>2 DEF Apart
<1>5. IsFiniteSet(T)
  BY <1>2, ApartIs, n - 1 \in Nat
<1>6. Cardinality(T \cup {n}) = Cardinality(T) + 1
  BY <1>4, <1>5, FS_AddElement
<1>. QED BY <1>2, <1>3, <1>6

LEMMA ApartStays ==
  ASSUME NEW n \in Nat, n > 1, NEW cleared, NEW residual,
         ~Independent(cleared[1], cleared[n], residual)
  PROVE  Apart(n, cleared, residual) = Apart(n - 1, cleared, residual)
<1>1. n \in 2..n /\ \A i : i \in 2..n <=> i = n \/ i \in 2..(n - 1)
  OBVIOUS
<1>. QED BY <1>1 DEF Apart

\* One candidate after another: the first is taken, and of those shown apart from it as
\* many as there are slots, so that only one behind all that are bought goes without.
Chosen(buys, n, cleared, residual) ==
  /\ n > 0 => buys[1] = cleared[1]
  /\ Len(buys) = IF n = 0 THEN 0
                 ELSE Smaller(MaxBuys, 1 + Cardinality(Apart(n, cleared, residual)))
  /\ \A s \in ToSet(buys) : \E i \in 1..n : /\ s = cleared[i]
                                            /\ i = 1 \/ i \in Apart(n, cleared, residual)
  /\ \A i \in Apart(n, cleared, residual) : cleared[i] \notin ToSet(buys) =>
       /\ Len(buys) = MaxBuys
       /\ \A s \in ToSet(buys) : \E j \in 1..n : s = cleared[j] /\ j < i

LEMMA AddingKeepsChosen ==
  ASSUME NEW S, NEW cleared \in Seq(S), NEW residual, NEW n \in DOMAIN cleared, NEW buys \in Seq(S),
         Chosen(buys, n - 1, cleared, residual)
  PROVE  Chosen(Adding(buys, n, cleared, residual), n, cleared, residual)
<1>1. n \in Nat /\ n >= 1 /\ n - 1 \in Nat /\ MaxBuys \in Nat /\ MaxBuys >= 1 /\ cleared[n] \in S
  BY ConvictionAssumption DEF ConvictionAssumption
<1>2. PICK l \in Nat : l = Len(buys)
  OBVIOUS
<1>3. PICK A : A = Apart(n - 1, cleared, residual)
  OBVIOUS
<1>4. PICK B : B = Apart(n, cleared, residual)
  OBVIOUS
<1>5. PICK a \in Nat, b \in Nat : a = Cardinality(A) /\ b = Cardinality(B)
  BY <1>1, <1>3, <1>4, ApartIs
<1>6. /\ l = IF n - 1 = 0 THEN 0 ELSE Smaller(MaxBuys, 1 + a)
      /\ \A s \in ToSet(buys) : \E i \in 1..(n - 1) : s = cleared[i] /\ (i = 1 \/ i \in A)
      /\ \A i \in A : cleared[i] \notin ToSet(buys) =>
           /\ l = MaxBuys
           /\ \A s \in ToSet(buys) : \E j \in 1..(n - 1) : s = cleared[j] /\ j < i
  BY <1>2, <1>3, <1>5 DEF Chosen
<1>7. A \subseteq 2..(n - 1) /\ B \subseteq 2..n /\ A \subseteq B
  BY <1>1, <1>3, <1>4 DEF Apart
<1>8. \A i \in 1..(n - 1) : i \in 1..n /\ i < n
  BY <1>1
<1>9. n = 1 => b = 0
  <2>1. n <= 1 => Cardinality(Apart(n, cleared, residual)) = 0
    BY <1>1, ApartIs
  <2>. QED BY <1>4, <1>5, <2>1
<1>10. ASSUME n > 1, Independent(cleared[1], cleared[n], residual)
       PROVE  B = A \cup {n} /\ b = a + 1
  <2>1. /\ Apart(n, cleared, residual) = Apart(n - 1, cleared, residual) \cup {n}
        /\ Cardinality(Apart(n, cleared, residual))
             = Cardinality(Apart(n - 1, cleared, residual)) + 1
    BY <1>1, <1>10, ApartGrows
  <2>. QED BY <1>3, <1>4, <1>5, <2>1
<1>11. ASSUME n > 1, ~Independent(cleared[1], cleared[n], residual)
       PROVE  B = A /\ b = a
  <2>1. Apart(n, cleared, residual) = Apart(n - 1, cleared, residual)
    BY <1>1, <1>11, ApartStays
  <2>. QED BY <1>3, <1>4, <1>5, <2>1
<1>12. PICK x \in S : x = cleared[n]
  BY <1>1
<1>13. CASE n = 1
  <2>1. PICK more : more = Append(buys, cleared[n])
    OBVIOUS
  <2>2. Adding(buys, n, cleared, residual) = more
    BY <1>13, <2>1 DEF Adding
  <2>3. Len(more) = l + 1 /\ ToSet(more) = ToSet(buys) \cup {cleared[n]}
    BY <1>1, <1>2, <2>1, AppendIs
  <2>4. l = 0 /\ ToSet(buys) = {}
    BY <1>6, <1>13
  <2>5. more[1] = cleared[1]
    <3>1. more = Append(buys, x) /\ Len(buys) = 0
      BY <1>2, <1>12, <2>1, <2>4
    <3>2. more[1] = x
      BY <3>1
    <3>. QED BY <1>12, <1>13, <3>2
  <2>6. Len(more) = Smaller(MaxBuys, 1 + b)
    BY <1>1, <1>9, <1>13, <2>3, <2>4 DEF Smaller
  <2>7. \A s \in ToSet(more) : \E i \in 1..n : s = cleared[i] /\ (i = 1 \/ i \in B)
    BY <1>13, <2>3, <2>4
  <2>8. B = {}
    BY <1>7, <1>13
  <2>. QED BY <1>4, <1>5, <1>13, <2>2, <2>5, <2>6, <2>7, <2>8 DEF Chosen
<1>14. CASE n > 1 /\ l < MaxBuys /\ Independent(cleared[1], cleared[n], residual)
  <2>1. PICK more : more = Append(buys, cleared[n])
    OBVIOUS
  <2>2. Adding(buys, n, cleared, residual) = more
    BY <1>2, <1>14, <2>1 DEF Adding
  <2>3. Len(more) = l + 1 /\ ToSet(more) = ToSet(buys) \cup {cleared[n]}
    BY <1>1, <1>2, <2>1, AppendIs
  <2>4. l = 1 + a /\ l >= 1
    BY <1>1, <1>6, <1>14 DEF Smaller
  <2>5. more[1] = cleared[1]
    <3>1. buys[1] = cleared[1]
      BY <1>1, <1>14 DEF Chosen
    <3>2. more = Append(buys, x) /\ Len(buys) >= 1
      BY <1>2, <1>12, <2>1, <2>4
    <3>3. more[1] = buys[1]
      BY <3>2
    <3>. QED BY <3>1, <3>3
  <2>6. Len(more) = Smaller(MaxBuys, 1 + b)
    BY <1>1, <1>10, <1>14, <2>3, <2>4 DEF Smaller
  <2>7. \A s \in ToSet(more) : \E i \in 1..n : s = cleared[i] /\ (i = 1 \/ i \in B)
    <3>1. n \in 1..n /\ n \in B
      BY <1>1, <1>10, <1>14
    <3>. QED BY <1>6, <1>7, <1>8, <2>3, <3>1
  <2>8. \A i \in B : cleared[i] \in ToSet(more)
    <3>1. ~(l = MaxBuys) /\ B = A \cup {n}
      BY <1>1, <1>2, <1>10, <1>14
    <3>. QED BY <1>6, <2>3, <3>1
  <2>. QED BY <1>1, <1>4, <1>5, <2>2, <2>5, <2>6, <2>7, <2>8 DEF Chosen
<1>15. CASE n > 1 /\ ~(l < MaxBuys /\ Independent(cleared[1], cleared[n], residual))
  <2>1. Adding(buys, n, cleared, residual) = buys
    <3>1. ~(n = 1)
      BY <1>1, <1>15
    <3>. QED BY <1>2, <1>15, <3>1 DEF Adding
  <2>2. n - 1 > 0 /\ buys[1] = cleared[1]
    BY <1>1, <1>15 DEF Chosen
  <2>3. l = Smaller(MaxBuys, 1 + a)
    BY <1>6, <2>2
  <2>4. \A s \in ToSet(buys) : \E i \in 1..n : s = cleared[i] /\ (i = 1 \/ i \in B)
    BY <1>6, <1>7, <1>8
  <2>5. CASE Independent(cleared[1], cleared[n], residual)
    <3>1. B = A \cup {n} /\ b = a + 1 /\ l = MaxBuys
      BY <1>1, <1>2, <1>10, <1>15, <2>3, <2>5 DEF Smaller
    <3>2. l = Smaller(MaxBuys, 1 + b)
      BY <1>1, <2>3, <3>1 DEF Smaller
    <3>3. ASSUME NEW i \in B, cleared[i] \notin ToSet(buys)
          PROVE  l = MaxBuys /\ \A s \in ToSet(buys) : \E j \in 1..n : s = cleared[j] /\ j < i
      BY <1>6, <1>8, <3>1, <3>3
    <3>. QED BY <1>1, <1>2, <1>4, <1>5, <2>1, <2>2, <2>4, <3>2, <3>3 DEF Chosen
  <2>6. CASE ~Independent(cleared[1], cleared[n], residual)
    <3>1. B = A /\ b = a
      BY <1>11, <1>15, <2>6
    <3>2. ASSUME NEW i \in B, cleared[i] \notin ToSet(buys)
          PROVE  l = MaxBuys /\ \A s \in ToSet(buys) : \E j \in 1..n : s = cleared[j] /\ j < i
      BY <1>6, <1>8, <3>1, <3>2
    <3>. QED BY <1>1, <1>2, <1>4, <1>5, <2>1, <2>2, <2>3, <2>4, <3>1, <3>2 DEF Chosen
  <2>. QED BY <2>5, <2>6
<1>. QED
  <2>1. n = 1 \/ n > 1
    BY <1>1
  <2>. QED BY <2>1, <1>13, <1>14, <1>15

LEMMA SelectAtMostTwoIs ==
  ASSUME NEW S, NEW cleared \in Seq(S), NEW residual
  PROVE  /\ SelectAtMostTwo(cleared, residual) \in Seq(S)
         /\ Chosen(SelectAtMostTwo(cleared, residual), Len(cleared), cleared, residual)
<1>1. PICK N \in Nat : N = Len(cleared)
  OBVIOUS
<1>2. PICK buys : Fills(buys, N, S, cleared, residual)
  BY <1>1, FillsIs
<1>3. /\ buys \in [0..N -> Seq(S)] /\ buys[0] = << >>
      /\ \A n \in 1..N : buys[n] = Adding(buys[n - 1], n, cleared, residual)
      /\ SelectAtMostTwo(cleared, residual) = buys[N]
  BY <1>2 DEF Fills
<1>. DEFINE P == {n \in 0..N : Chosen(buys[n], n, cleared, residual)}
<1>4. 0 \in P
  <2>1. MaxBuys \in Nat \ {0}
    BY ConvictionAssumption DEF ConvictionAssumption
  <2>2. ToSet(<< >>) = {} /\ Len(<< >>) = 0
    BY DEF ToSet
  <2>3. Apart(0, cleared, residual) = {}
    BY DEF Apart
  <2>4. Chosen(<< >>, 0, cleared, residual)
    BY <2>1, <2>2, <2>3 DEF Chosen
  <2>. QED BY <1>3, <2>4
<1>5. ASSUME NEW n \in 1..N, n - 1 \in P PROVE n \in P
  <2>1. n \in DOMAIN cleared /\ n \in 0..N /\ n - 1 \in 0..N
    BY <1>1
  <2>2. PICK b \in Seq(S) : b = buys[n - 1]
    BY <1>3, <2>1
  <2>3. Chosen(b, n - 1, cleared, residual)
    BY <1>5, <2>2
  <2>4. Chosen(Adding(b, n, cleared, residual), n, cleared, residual)
    BY <2>1, <2>3, AddingKeepsChosen
  <2>. QED BY <1>3, <2>1, <2>2, <2>4
<1>6. N \in P
  <2>. HIDE DEF P
  <2>1. \A n \in 0..N : n \in P
    BY <1>4, <1>5, UpTo
  <2>. QED BY <2>1
<1>. QED BY <1>1, <1>3, <1>6
-----------------------------------------------------------------------------
(* Scores are numbers *)

PriceList == PriceChecks \cup {"earnings_distortion", "regime_transition", "volatility_shock"}

LEMMA PriceListIsFinite == IsFiniteSet(PriceList)
<1>1. IsFiniteSet({"low_volume_breakout"})
  BY FS_Singleton
<1>2. IsFiniteSet({"low_volume_breakout"} \cup {"gap_signal"})
  BY <1>1, FS_AddElement
<1>3. IsFiniteSet({"low_volume_breakout", "gap_signal"} \cup {"news_spike"})
  <2>1. {"low_volume_breakout", "gap_signal"} = {"low_volume_breakout"} \cup {"gap_signal"}
    OBVIOUS
  <2>. QED BY <1>2, <2>1, FS_AddElement
<1>4. PICK A : A = {"low_volume_breakout", "gap_signal", "news_spike"}
  OBVIOUS
<1>5. IsFiniteSet(A)
  <2>1. A = {"low_volume_breakout", "gap_signal"} \cup {"news_spike"}
    BY <1>4
  <2>. QED BY <1>3, <2>1
<1>6. IsFiniteSet(((((A \cup {"overextension"}) \cup {"beta_explained_move"})
                     \cup {"earnings_distortion"}) \cup {"regime_transition"})
                     \cup {"volatility_shock"})
  BY <1>5, FS_AddElement
<1>7. PriceList = ((((A \cup {"overextension"}) \cup {"beta_explained_move"})
                     \cup {"earnings_distortion"}) \cup {"regime_transition"})
                     \cup {"volatility_shock"}
  BY <1>4 DEF PriceList, PriceChecks
<1>. QED BY <1>6, <1>7

\* What the checks take off is a count.
LEMMA PenaltiesAreCounts ==
  ASSUME NEW d, d.beta \in Nat, NEW on, NEW bucket, NEW shock
  PROVE  StockPenalty(d, on) \in Nat /\ MarketPenalty(bucket, shock, on) \in Nat
<1>1. PICK fired : fired = {k \in on : (d.bars # "few" \/ k \notin PriceChecks) /\ Fires(d, k)}
  OBVIOUS
<1>2. fired \in SUBSET PriceList
  BY <1>1 DEF Fires, PriceList, PriceChecks
<1>3. DOMAIN Penalty = PriceList /\ \A k \in PriceList : Penalty[k] \in Nat
  BY PenaltyAssumption DEF PenaltyAssumption, PriceList
<1>4. IsFiniteSet(fired)
  BY <1>2, PriceListIsFinite, FS_Subset
<1>5. ASSUME NEW k \in PriceList PROVE Charge(d, k) \in Nat
  <2>1. PICK a \in Nat, b \in Nat : a = Penalty[k] /\ b = d.beta
    BY <1>3
  <2>2. (a * b) \div 100 \in Nat
    <3>1. PICK c \in Nat : c = a * b
      OBVIOUS
    <3>2. c \div 100 \in Nat
      OBVIOUS
    <3>. QED BY <3>1, <3>2
  <2>. QED BY <2>1, <2>2 DEF Charge
<1>6. PICK charge : charge = [k \in DOMAIN Penalty |-> Charge(d, k)]
  OBVIOUS
<1>7. \A k \in fired : charge[k] \in Nat
  BY <1>2, <1>3, <1>5, <1>6
<1>8. SumFunctionOnSet(charge, fired) \in Nat
  BY <1>4, <1>7, SumIs
<1>9. StockPenalty(d, on) \in Nat
  BY <1>1, <1>6, <1>8 DEF StockPenalty
<1>10. RegimeTransition(bucket, on) \in Nat /\ VolatilityShock(shock, on) \in Nat
  BY <1>3 DEF RegimeTransition, VolatilityShock, PriceList
<1>. QED BY <1>9, <1>10 DEF MarketPenalty

LEMMA UnitScoreIsNumber ==
  ASSUME NEW S, NEW list \in Seq(S), NEW s \in ToSet(list), IsInjective(list)
  PROVE  UnitScore(list, s) \in Int
<1>1. PICK n \in Nat : n = Len(list)
  OBVIOUS
<1>2. PICK k \in 1..n : k = Place(list, s)
  BY <1>1, PlaceIs
<1>3. n = 1 \/ n - 1 \in Nat \ {0}
  BY <1>1
<1>4. CASE n = 1
  BY <1>1, <1>4 DEF UnitScore
<1>5. CASE n - 1 \in Nat \ {0}
  <2>1. n # 1 /\ 100 * (n - k) \in Int
    BY <1>5
  <2>2. (100 * (n - k)) \div (n - 1) \in Int
    BY <1>5, <2>1
  <2>. QED BY <1>1, <1>2, <2>1, <2>2 DEF UnitScore, RankOf
<1>. QED BY <1>3, <1>4, <1>5

LEMMA ScoreAfterIsNumber ==
  ASSUME NEW before \in Int, NEW penalty \in Nat
  PROVE  ScoreAfter(before, penalty) \in Int
BY DEF ScoreAfter
-----------------------------------------------------------------------------
(* What each stage leaves *)

\* The order of a run is a list of eligible names, each once.
RankedOK == ranked \in Seq(Eligible) /\ IsInjective(ranked) /\ Eligible \subseteq Names

\* The defence looks at ranked names and gives each a verdict and a score.
DefendedOK ==
  /\ Defended \subseteq ToSet(ranked)
  /\ \A s \in Defended : /\ defence.score[s] \in Int
                         /\ defence.status[s] \in {"REJECTED", "PENALIZED", "CLEARED"}

LEMMA RankingsAreLists ==
  ASSUME IsFiniteSet(Eligible), NEW q \in Rankings
  PROVE  q \in Seq(Eligible) /\ IsInjective(q)
<1>1. PICK C : C = ToRank
  OBVIOUS
<1>2. C \subseteq Eligible /\ IsFiniteSet(C)
  <2>1. C \subseteq Eligible
    BY <1>1 DEF ToRank, Covered, Scoreable
  <2>. QED BY <2>1, FS_Subset
<1>3. PICK n \in Nat : n = Cardinality(C)
  BY <1>2, FS_CardinalityType
<1>4. q \in [1..n -> C] /\ \A i, j \in 1..n : i # j => q[i] # q[j]
  BY <1>1, <1>3 DEF Rankings, Orders, SetToSeqs
<1>5. q \in [1..n -> Eligible]
  BY <1>2, <1>4
<1>6. q \in Seq(Eligible) /\ DOMAIN q = 1..n
  BY <1>5
<1>. QED BY <1>4, <1>6 DEF IsInjective

\* What stage 4 reports is part of its order.
LEMMA ListedIs ==
  ASSUME RankedOK
  PROVE  /\ Listed \in Seq(Eligible) /\ IsInjective(Listed) /\ Len(Listed) \in Nat
         /\ ToSet(Listed) \subseteq ToSet(ranked)
<1>1. ranked \in Seq(Eligible) /\ IsInjective(ranked)
  BY DEF RankedOK
<1>2. CASE policy.floor = "population"
  <2>1. PICK A : A = {s \in ToSet(ranked) : EntryAdmissible(data[s], policy.source, policy.floor)}
    OBVIOUS
  <2>2. Listed = Among(ranked, A)
    BY <1>2, <2>1 DEF Listed, KeepRanked
  <2>3. /\ Among(ranked, A) \in Seq(Eligible) /\ IsInjective(Among(ranked, A))
        /\ ToSet(Among(ranked, A)) = ToSet(ranked) \cap A
    BY <1>1, AmongIs
  <2>. QED BY <2>2, <2>3
<1>3. CASE policy.floor # "population"
  BY <1>1, <1>3 DEF Listed, KeepRanked
<1>. QED BY <1>2, <1>3

LEMMA TopIsRanked ==
  ASSUME RankedOK, policy \in Policies
  PROVE  Top \subseteq ToSet(ranked)
<1>1. PICK list : list = Listed
  OBVIOUS
<1>2. list \in Seq(Eligible) /\ ToSet(list) \subseteq ToSet(ranked)
  BY <1>1, ListedIs
<1>3. PICK score : score = [s \in ToSet(list) |-> Before(s)]
  OBVIOUS
<1>4. PICK floor : floor = Larger(policy.minScore, policy.minPercentile)
  OBVIOUS
<1>5. PICK at : at = {i \in DOMAIN list : score[list[i]] >= floor}
  OBVIOUS
<1>6. PICK n \in Nat : n = Len(list)
  BY <1>2
<1>7. DOMAIN list = 1..n /\ IsFiniteSet(1..n)
  BY <1>2, <1>6, FS_Interval, 1 \in Int, n \in Int
<1>8. Cardinality(at) \in Nat
  <2>1. at \in SUBSET (1..n)
    BY <1>5, <1>7
  <2>. QED BY <1>7, <2>1, FS_Subset, FS_CardinalityType
<1>9. PICK m \in Nat : m = IF Cardinality(at) > policy.depth THEN Cardinality(at) ELSE policy.depth
  BY <1>8, BookAssumption DEF BookAssumption
<1>10. Top = ToSet(Prefix(list, m))
  BY <1>1, <1>3, <1>4, <1>5, <1>9 DEF Top, TopNToDefend
<1>11. ToSet(Prefix(list, m)) = {list[i] : i \in {j \in DOMAIN list : j <= m}}
  BY <1>2, PrefixIs
<1>12. ToSet(Prefix(list, m)) \subseteq ToSet(list)
  BY <1>11 DEF ToSet
<1>. QED BY <1>2, <1>10, <1>12

LEMMA DefenceIs ==
  ASSUME RankedOK, policy \in Policies, scene \in Scenes, defence = Defence
  PROVE  DefendedOK
<1>1. Defended = Top
  BY DEF Defended, Defence
<1>2. Top \subseteq ToSet(ranked)
  BY TopIsRanked
<1>3. ASSUME NEW s \in Top
      PROVE  /\ defence.score[s] \in Int
             /\ defence.status[s] \in {"REJECTED", "PENALIZED", "CLEARED"}
  <2>1. Before(s) \in Int
    BY <1>2, UnitScoreIsNumber DEF Before, RankedOK
  <2>2. Penalties(s) \in Nat /\ Markets \in Nat
    <3>1. s \in Names
      BY <1>2, MembersAreFinite DEF RankedOK
    <3>2. data[s].beta \in Nat
      BY <3>1, BookAssumption DEF BookAssumption, data
    <3>. QED BY <3>2, PenaltiesAreCounts DEF Penalties, Markets
  <2>3. Penalties(s) + Markets \in Nat
    BY <2>2
  <2>4. ScoreAfter(Before(s), Penalties(s) + Markets) \in Int
    BY <2>1, <2>3, ScoreAfterIsNumber
  <2>5. defence.score[s] = ScoreAfter(Before(s), Penalties(s) + Markets)
    BY DEF Defence
  <2>6. defence.status[s] = FinalStatus(HardRejects(data[s], policy.checks), Penalties(s), Markets)
    BY DEF Defence
  <2>7. FinalStatus(HardRejects(data[s], policy.checks), Penalties(s), Markets)
          \in {"REJECTED", "PENALIZED", "CLEARED"}
    BY DEF FinalStatus
  <2>. QED BY <2>4, <2>5, <2>6, <2>7
<1>. QED BY <1>1, <1>2, <1>3 DEF DefendedOK

\* What qualifies: the survivors that do, best first.
Qualifies(s) ==
  Qualified(data[s], EntryAdmissible(data[s], policy.source, policy.floor), Before(s),
            defence.score[s], s \in held, policy)

LEMMA QualifyingIs ==
  ASSUME RankedOK, DefendedOK
  PROVE  /\ Qualifying \in Seq(Names) /\ IsInjective(Qualifying)
         /\ ToSet(Qualifying) = {s \in Survivors : Qualifies(s)}
         /\ \A k, l \in DOMAIN Qualifying : k < l =>
              Better(defence.score, ranked, Qualifying[k], Qualifying[l])
<1>1. PICK B : B = {s \in Survivors : Qualifies(s)}
  OBVIOUS
<1>2. PICK A : A = Survivors
  OBVIOUS
<1>3. PICK key : key = defence.score
  OBVIOUS
<1>4. A \subseteq ToSet(ranked) /\ \A s \in A : key[s] \in Int
  BY <1>2, <1>3 DEF Survivors, DefendedOK
<1>5. ranked \in Seq(Names) /\ IsInjective(ranked)
  BY DEF RankedOK
<1>6. PICK q : q = Among(HighestFirst(Among(ranked, A), key), B)
  OBVIOUS
<1>7. LET r == Among(HighestFirst(Among(ranked, A), key), B)
      IN  /\ r \in Seq(Names) /\ IsInjective(r) /\ ToSet(r) = (ToSet(ranked) \cap A) \cap B
          /\ \A k, l \in DOMAIN r : k < l => Better(key, ranked, r[k], r[l])
  BY <1>4, <1>5, BestFirstIs
<1>8. Qualifying = q
  BY <1>1, <1>2, <1>3, <1>6 DEF Qualifying, ByScore, Qualifies
<1>9. (ToSet(ranked) \cap A) \cap B = B
  BY <1>1, <1>2, <1>4
<1>. QED BY <1>1, <1>3, <1>6, <1>7, <1>8, <1>9

\* What the gate clears: the names it hears that no test refuses, best first.
ClearedNames ==
  {s \in Heard : Failures(data[s].case, entry.plan[s], market.edge, regime, policy.knownOnly) = {}}

Reached == NotReached(Listed, defence.status, defence.halt) = ""

Clears(best) ==
  /\ best \in Seq(Names) /\ IsInjective(best) /\ ToSet(best) = ClearedNames
  /\ \A k, l \in DOMAIN best : k < l => data[best[k]].case.quality >= data[best[l]].case.quality
  /\ ConvictionBuys = IF Reached THEN SelectAtMostTwo(best, market.residual) ELSE << >>

LEMMA ClearedIs ==
  ASSUME RankedOK, DefendedOK, scene \in Scenes
  PROVE  \E best : Clears(best)
<1>1. PICK A : A = Defended
  OBVIOUS
<1>2. PICK B : B = Survivors
  OBVIOUS
<1>3. B = {s \in DOMAIN defence.status : defence.status[s] \in {"CLEARED", "PENALIZED"}}
  BY <1>2 DEF Survivors, DefendedOK, Defended
<1>4. PICK key : key = defence.score
  OBVIOUS
<1>5. A \subseteq ToSet(ranked) /\ B \subseteq A /\ \A s \in A : key[s] \in Int
  BY <1>1, <1>2, <1>4 DEF Survivors, DefendedOK
<1>6. ranked \in Seq(Names) /\ IsInjective(ranked)
  BY DEF RankedOK
<1>7. PICK order : order = ByScore(Among(ranked, Defended), defence.score)
  OBVIOUS
<1>8. PICK list : list = Among(order, B)
  OBVIOUS
<1>9. /\ list \in Seq(Names) /\ IsInjective(list) /\ ToSet(list) = B
      /\ \A k, l \in DOMAIN list : k < l => Better(key, ranked, list[k], list[l])
  <2>1. LET r == Among(HighestFirst(Among(ranked, A), key), B)
        IN  /\ r \in Seq(Names) /\ IsInjective(r) /\ ToSet(r) = (ToSet(ranked) \cap A) \cap B
            /\ \A k, l \in DOMAIN r : k < l => Better(key, ranked, r[k], r[l])
    BY <1>5, <1>6, BestFirstIs
  <2>2. list = Among(HighestFirst(Among(ranked, A), key), B)
    BY <1>1, <1>4, <1>7, <1>8 DEF ByScore
  <2>3. (ToSet(ranked) \cap A) \cap B = B
    BY <1>5
  <2>. QED BY <2>1, <2>2, <2>3
<1>10. PICK n \in Nat : n = Shortlist
  BY ConvictionAssumption DEF ConvictionAssumption
<1>11. PICK heard : heard = Shortlisted(order, defence.status)
  OBVIOUS
<1>12. heard = Prefix(list, n)
  BY <1>3, <1>8, <1>10, <1>11 DEF Shortlisted
<1>13. heard \in Seq(Names) /\ IsInjective(heard)
  BY <1>9, <1>12, PrefixIs
<1>14. ToSet(heard) = Heard
  <2>1. \A s \in ToSet(list) : key[s] \in Int /\ Place(ranked, s) \in Int
    BY <1>5, <1>6, <1>9, PlaceIs
  <2>2. ToSet(Prefix(list, n))
          = {s \in ToSet(list) : Cardinality({t \in ToSet(list) : Better(key, ranked, t, s)}) < n}
    <3>1. Sorted(list, Names, key, ranked)
      BY <1>9, <2>1 DEF Sorted
    <3>. QED BY <3>1, FirstAreBest
  <2>3. Heard = {s \in B : Cardinality({t \in B : Better(key, ranked, t, s)}) < n}
    BY <1>2, <1>4, <1>10 DEF Heard, Better, RankOfName, RankOf
  <2>. QED BY <1>9, <1>12, <2>2, <2>3
<1>15. PICK cleared : cleared = Cleared(heard)
  OBVIOUS
<1>16. cleared \in Seq(Names) /\ IsInjective(cleared) /\ ToSet(cleared) = ClearedNames
  <2>1. PICK C : C = {s \in ToSet(heard) : Failures(data[s].case, entry.plan[s], market.edge,
                                                    regime, policy.knownOnly) = {}}
    OBVIOUS
  <2>2. cleared = Among(heard, C)
    BY <1>15, <2>1 DEF Cleared
  <2>3. cleared \in Seq(Names) /\ IsInjective(cleared) /\ ToSet(cleared) = ToSet(heard) \cap C
    BY <1>13, <2>2, AmongIs
  <2>4. C = ClearedNames
    BY <1>14, <2>1 DEF ClearedNames
  <2>. QED BY <1>14, <2>1, <2>3, <2>4
<1>17. PICK quality : quality = [s \in Names |-> data[s].case.quality]
  OBVIOUS
<1>18. PICK best : best = ByQuality(cleared, quality)
  OBVIOUS
<1>19. \A s \in Names : quality[s] = data[s].case.quality /\ quality[s] \in Int
  BY <1>17, BookAssumption DEF BookAssumption, data
<1>20. /\ best \in Seq(Names) /\ IsInjective(best) /\ ToSet(best) = ToSet(cleared)
       /\ \A k, l \in DOMAIN best : k < l =>
            quality[best[k]] > quality[best[l]] \/ quality[best[k]] = quality[best[l]]
  <2>1. \A s \in ToSet(cleared) : quality[s] \in Int
    BY <1>16, <1>19, MembersAreFinite
  <2>2. LET h == HighestFirst(cleared, quality)
        IN  /\ h \in Seq(Names) /\ IsInjective(h) /\ ToSet(h) = ToSet(cleared)
            /\ \A k, l \in DOMAIN h : k < l =>
                 \/ quality[h[k]] > quality[h[l]]
                 \/ (quality[h[k]] = quality[h[l]] /\ Place(cleared, h[k]) < Place(cleared, h[l]))
    BY <1>16, <2>1, HighestFirstIs
  <2>. QED BY <1>18, <2>2 DEF ByQuality
<1>21. ASSUME NEW k \in DOMAIN best, NEW l \in DOMAIN best, k < l
       PROVE  data[best[k]].case.quality >= data[best[l]].case.quality
  <2>1. best[k] \in Names /\ best[l] \in Names
    BY <1>20
  <2>2. quality[best[k]] >= quality[best[l]]
    BY <1>19, <1>20, <1>21, <2>1
  <2>. QED BY <1>19, <2>1, <2>2
<1>22. ConvictionBuys = IF Reached THEN SelectAtMostTwo(best, market.residual) ELSE << >>
  BY <1>7, <1>11, <1>15, <1>17, <1>18 DEF ConvictionBuys, Reached
<1>. QED BY <1>16, <1>20, <1>21, <1>22 DEF Clears

\* Whichever way a run decides, it decides about names the defence left standing.
LEMMA SelectedIs ==
  ASSUME RankedOK, DefendedOK, scene \in Scenes, policy \in Policies
  PROVE  /\ Selected \in Books(Names)
         /\ ToSet(Selected.buys) \cup ToSet(Selected.watch) \subseteq Survivors
<1>1. CASE policy.conviction
  <2>1. PICK best : Clears(best)
    BY ClearedIs
  <2>2. PICK residual : residual = market.residual
    OBVIOUS
  <2>3. PICK two : two = SelectAtMostTwo(best, residual)
    OBVIOUS
  <2>4. best \in Seq(Names) /\ ToSet(best) = ClearedNames
    BY <2>1 DEF Clears
  <2>5. two \in Seq(Names) /\ Chosen(two, Len(best), best, residual)
    BY <2>3, <2>4, SelectAtMostTwoIs
  <2>6. ToSet(two) \subseteq ToSet(best)
    <3>1. DOMAIN best = 1..Len(best)
      BY <2>4
    <3>. QED BY <2>5, <3>1 DEF Chosen, ToSet
  <2>7. ToSet(two) \subseteq Survivors
    BY <2>4, <2>6 DEF ClearedNames, Heard
  <2>8. PICK buys : buys = ConvictionBuys
    OBVIOUS
  <2>9. buys = << >> \/ buys = two
    BY <2>1, <2>2, <2>3, <2>8 DEF Clears
  <2>10. << >> \in Seq(Names) /\ ToSet(<< >>) = {}
    BY DEF ToSet
  <2>11. buys \in Seq(Names) /\ ToSet(buys) \subseteq Survivors
    BY <2>5, <2>7, <2>9, <2>10
  <2>12. Selected = [buys |-> buys, watch |-> << >>]
    BY <1>1, <2>8 DEF Selected
  <2>. QED BY <2>10, <2>11, <2>12 DEF Books
<1>2. CASE ~policy.conviction
  <2>1. PICK sel : sel = LimitedBook
    OBVIOUS
  <2>2. PICK list : list = Qualifying
    OBVIOUS
  <2>3. list \in Seq(Names) /\ IsInjective(list) /\ ToSet(list) \subseteq Survivors
    BY <2>2, QualifyingIs
  <2>4. policy.maxSignals \in Nat /\ policy.maxPerSector \in Nat
    BY BookAssumption DEF BookAssumption
  <2>5. PICK closed : closed = Closed
    OBVIOUS
  <2>6. PICK correlation : correlation = market.correlation
    OBVIOUS
  <2>7. PICK decision : decision = entry.decision
    OBVIOUS
  <2>8. /\ Select(list, decision, held, closed, Sector, correlation, policy) \in Books(Names)
        /\ ToSet(Select(list, decision, held, closed, Sector, correlation, policy).buys)
             \cup ToSet(Select(list, decision, held, closed, Sector, correlation, policy).watch)
               = ToSet(list)
    BY <2>3, <2>4, SelectIs
  <2>9. sel = Select(list, decision, held, closed, Sector, correlation, policy)
    BY <2>1, <2>2, <2>5, <2>6, <2>7 DEF LimitedBook
  <2>10. Selected = sel
    BY <1>2, <2>1 DEF Selected
  <2>. QED BY <2>3, <2>8, <2>9, <2>10
<1>. QED BY <1>1, <1>2

\* The screen a run records is stable in the one it inherited.
LEMMA OutcomeIs ==
  ASSUME RankedOK, DefendedOK, scene \in Scenes, policy \in Policies, out = Outcome(Selected)
  PROVE  /\ out.buys = Selected.buys /\ out.watch = Selected.watch
         /\ out.buys \in Seq(Names) /\ out.watch \in Seq(Names)
         /\ Bought \cup Watched \subseteq Survivors
         /\ DOMAIN out.slate \subseteq Bought \cup Watched
         /\ Stable(out.slate, since, Bought \cup Watched, Ranks, today)
<1>1. PICK sel : sel = Selected
  OBVIOUS
<1>2. PICK b : b = ToSet(sel.buys)
  OBVIOUS
<1>3. PICK w : w = ToSet(sel.watch)
  OBVIOUS
<1>4. sel.buys \in Seq(Names) /\ sel.watch \in Seq(Names) /\ b \cup w \subseteq Survivors
  BY <1>1, <1>2, <1>3, SelectedIs DEF Books
<1>5. /\ out.buys = sel.buys /\ out.watch = sel.watch
      /\ out.slate = SelectSlate(since, b, w, Ranks, today)
  BY <1>1, <1>2, <1>3 DEF Outcome
<1>6. Bought = b /\ Watched = w
  BY <1>2, <1>3, <1>5 DEF Bought, Watched
<1>7. ranked \in Seq(Names) /\ IsInjective(ranked)
  BY DEF RankedOK
<1>8. Survivors \subseteq ToSet(ranked) /\ ToSet(ranked) \subseteq Names
  BY <1>7, MembersAreFinite DEF Survivors, DefendedOK
<1>9. PICK rank : rank = Ranks
  OBVIOUS
<1>10. RanksApart(rank, b \cup w)
  <2>1. \A s \in Names : rank[s] = Place(ranked, s)
    BY <1>9 DEF Ranks, RankOfName, RankOf
  <2>2. /\ \A s \in ToSet(ranked) : Place(ranked, s) \in 1..Len(ranked)
        /\ \A s, t \in ToSet(ranked) : Place(ranked, s) = Place(ranked, t) => s = t
    BY <1>7, PlaceIs
  <2>3. \A k \in 1..Len(ranked) : k \in Nat
    BY <1>7
  <2>. QED BY <1>4, <1>8, <2>1, <2>2, <2>3 DEF RanksApart
<1>11. IsFiniteSet(b \cup w)
  <2>1. b \cup w \in SUBSET Names
    BY <1>4, <1>8
  <2>. QED BY <2>1, FS_Subset, BookAssumption DEF BookAssumption
<1>12. /\ DOMAIN SelectSlate(since, b, w, rank, today) \subseteq b \cup w
       /\ Stable(SelectSlate(since, b, w, rank, today), since, b \cup w, rank, today)
  BY <1>10, <1>11, SlateIs
<1>. QED BY <1>1, <1>4, <1>5, <1>6, <1>9, <1>12
-----------------------------------------------------------------------------
(* The invariant: what each stage has left by the time the next one runs *)

AfterQuality == Stages \ {"idle", "quality"}
AfterEligibility == AfterQuality \ {"regime", "eligibility"}
AfterRanking == AfterEligibility \ {"ranking"}
AfterDefence == AfterRanking \ {"defence"}
AfterEntry == AfterDefence \ {"entry"}

\* What the ledger holds.
RowOK ==
  /\ today \in 1..MaxSession
  /\ row.session \in 0..today /\ row.signals \subseteq Names
  /\ DOMAIN row.shown \subseteq Names
  /\ \A s \in DOMAIN row.shown : row.shown[s] \in 1..row.session

\* A run works on one scene under one policy and on the book of the last row, which
\* is of an earlier session.
InputsOK ==
  /\ stage \in Stages
  /\ IF stage = "idle"
     THEN scene = NoInput /\ policy = NoInput /\ held = {} /\ since = Nothing
     ELSE /\ scene \in Scenes /\ policy \in Policies
          /\ held = row.signals /\ since = row.shown /\ row.session < today

\* What a stage decided follows from the inputs and from what the stages before it left.
ResultsOK ==
  /\ IF stage \in AfterQuality THEN clean = Passed ELSE clean = {}
  /\ stage \in AfterEligibility => reason = Reasons
  /\ IF stage \in AfterRanking THEN RankedOK ELSE ranked = Nothing
  /\ IF stage \in AfterDefence THEN defence = Defence ELSE defence = NoDefence
  /\ stage \in AfterEntry => entry = Entries
  /\ stage = "record" => out = Outcome(Selected)

IInv == RowOK /\ InputsOK /\ ResultsOK

\* What a stage left stays what follows from its inputs while those stay.
LEMMA SamePassed ==
  ASSUME UNCHANGED <<scene, policy>>
  PROVE  Passed' = Passed
BY DEF Passed, Universe, data

LEMMA SameReasons ==
  ASSUME UNCHANGED <<scene, policy, held, clean>>
  PROVE  Reasons' = Reasons
BY DEF Reasons, Universe, data

LEMMA SameRanked ==
  ASSUME UNCHANGED <<reason, ranked>>, RankedOK
  PROVE  RankedOK'
BY DEF RankedOK, Eligible

LEMMA SameListed ==
  ASSUME UNCHANGED <<scene, policy, ranked>>
  PROVE  Listed' = Listed
BY DEF Listed, data

LEMMA SameDefence ==
  ASSUME UNCHANGED <<scene, policy, regime, ranked>>
  PROVE  Defence' = Defence
<1>1. Top' = Top
  BY SameListed DEF Top, Before
<1>2. \A s : Before(s)' = Before(s) /\ Penalties(s)' = Penalties(s)
  BY DEF Before, Penalties, data
<1>3. Markets' = Markets
  BY DEF Markets, market
<1>. QED BY <1>1, <1>2, <1>3 DEF Defence, data

LEMMA SameEntries ==
  ASSUME UNCHANGED <<scene, policy, held, ranked, defence, today>>
  PROVE  Entries' = Entries
BY DEF Entries, Defended, RankOfName, EntriesOpen, data

\* A run that ends leaves nothing.
LEMMA ForgetKeeps ==
  ASSUME Forget
  PROVE  InputsOK' /\ ResultsOK'
<1>1. stage' = "idle" /\ stage' \in Stages
  BY DEF Forget, Stages
<1>2. ~(stage' \in AfterQuality) /\ stage' # "record"
  BY <1>1 DEF AfterQuality
<1>3. /\ ~(stage' \in AfterEligibility) /\ ~(stage' \in AfterRanking)
      /\ ~(stage' \in AfterDefence) /\ ~(stage' \in AfterEntry)
  BY <1>2 DEF AfterEligibility, AfterRanking, AfterDefence, AfterEntry
<1>. QED BY <1>1, <1>2, <1>3 DEF Forget, InputsOK, ResultsOK

LEMMA InitHolds == Init => IInv
<1>. SUFFICES ASSUME Init PROVE IInv
  OBVIOUS
<1>1. RowOK
  BY BookAssumption DEF Init, RowOK, NoRow, Nothing, BookAssumption
<1>2. InputsOK
  BY DEF Init, InputsOK, Stages
<1>3. ResultsOK
  BY DEF Init, ResultsOK, AfterQuality, AfterEligibility, AfterRanking, AfterDefence, AfterEntry
<1>. QED BY <1>1, <1>2, <1>3 DEF IInv

\* A run that goes on keeps its inputs.
LEMMA GotoKeeps ==
  ASSUME IInv, NEW next \in Stages \ {"idle"}, stage # "idle", Goto(next)
  PROVE  RowOK' /\ InputsOK'
<1>1. stage' = next /\ UNCHANGED <<today, row, scene, policy, held, since>>
  BY DEF Goto, inputs
<1>. QED BY <1>1 DEF IInv, RowOK, InputsOK

LEMMA IngestKeeps ==
  ASSUME IInv, Ingest
  PROVE  IInv'
<1>1. /\ stage = "idle" /\ today < MaxSession /\ today' = today + 1
      /\ UNCHANGED <<row, stage, scene, policy, held, since>>
      /\ UNCHANGED <<clean, regime, reason, ranked, defence, entry, out>>
  BY DEF Ingest, inputs, work
<1>2. RowOK'
  BY <1>1, BookAssumption DEF IInv, RowOK, BookAssumption
<1>3. InputsOK'
  BY <1>1 DEF IInv, InputsOK
<1>4. ResultsOK'
  BY <1>1 DEF IInv, ResultsOK, AfterQuality, AfterEligibility, AfterRanking, AfterDefence, AfterEntry
<1>. QED BY <1>2, <1>3, <1>4 DEF IInv

LEMMA BeginKeeps ==
  ASSUME IInv, NEW sc \in Scenes, NEW p \in Policies, Begin(sc, p)
  PROVE  IInv'
<1>1. /\ stage = "idle" /\ row.session < today /\ stage' = "quality"
      /\ scene' = sc /\ policy' = p /\ held' = row.signals /\ since' = row.shown
      /\ UNCHANGED <<today, row>>
      /\ UNCHANGED <<clean, regime, reason, ranked, defence, entry, out>>
  BY DEF Begin, OpenBook, work
<1>2. RowOK'
  BY <1>1 DEF IInv, RowOK
<1>3. InputsOK'
  BY <1>1 DEF IInv, InputsOK, Stages
<1>4. ResultsOK'
  BY <1>1 DEF IInv, ResultsOK, AfterQuality, AfterEligibility, AfterRanking, AfterDefence, AfterEntry
<1>. QED BY <1>2, <1>3, <1>4 DEF IInv

LEMMA QualityKeeps ==
  ASSUME IInv, Quality
  PROVE  IInv'
<1>1. /\ stage = "quality" /\ clean' = Passed /\ Goto("regime") /\ stage' = "regime"
      /\ UNCHANGED <<scene, policy, regime, reason, ranked, defence, entry, out>>
  BY DEF Quality, Goto, inputs
<1>2. RowOK' /\ InputsOK'
  BY <1>1, GotoKeeps DEF Stages
<1>3. Passed' = Passed
  BY <1>1, SamePassed
<1>4. ResultsOK'
  BY <1>1, <1>3 DEF IInv, ResultsOK, Stages, AfterQuality, AfterEligibility, AfterRanking,
                    AfterDefence, AfterEntry
<1>. QED BY <1>2, <1>4 DEF IInv

LEMMA ReadRegimeKeeps ==
  ASSUME IInv, ReadRegime
  PROVE  IInv'
<1>1. /\ stage = "regime" /\ Goto("eligibility") /\ stage' = "eligibility"
      /\ UNCHANGED <<scene, policy, clean, reason, ranked, defence, entry, out>>
  BY DEF ReadRegime, Goto, inputs
<1>2. RowOK' /\ InputsOK'
  BY <1>1, GotoKeeps DEF Stages
<1>3. Passed' = Passed
  BY <1>1, SamePassed
<1>4. ResultsOK'
  BY <1>1, <1>3 DEF IInv, ResultsOK, Stages, AfterQuality, AfterEligibility, AfterRanking,
                    AfterDefence, AfterEntry
<1>. QED BY <1>2, <1>4 DEF IInv

LEMMA EligibilityKeeps ==
  ASSUME IInv, Eligibility
  PROVE  IInv'
<1>1. /\ stage = "eligibility" /\ reason' = Reasons /\ Goto("ranking") /\ stage' = "ranking"
      /\ UNCHANGED <<scene, policy, held, clean, regime, ranked, defence, entry, out>>
  BY DEF Eligibility, Goto, inputs
<1>2. RowOK' /\ InputsOK'
  BY <1>1, GotoKeeps DEF Stages
<1>3. Passed' = Passed /\ Reasons' = Reasons
  BY <1>1, SamePassed, SameReasons
<1>4. ResultsOK'
  BY <1>1, <1>3 DEF IInv, ResultsOK, Stages, AfterQuality, AfterEligibility, AfterRanking,
                    AfterDefence, AfterEntry
<1>. QED BY <1>2, <1>4 DEF IInv

LEMMA RankKeeps ==
  ASSUME IInv, Rank
  PROVE  IInv'
<1>1. /\ stage = "ranking" /\ ranked' \in Rankings /\ Goto("defence") /\ stage' = "defence"
      /\ UNCHANGED <<scene, policy, held, clean, regime, reason, defence, entry, out>>
  BY DEF Rank, Goto, inputs
<1>2. RowOK' /\ InputsOK'
  BY <1>1, GotoKeeps DEF Stages
<1>3. Passed' = Passed /\ Reasons' = Reasons
  BY <1>1, SamePassed, SameReasons
<1>4. Eligible \subseteq Names /\ IsFiniteSet(Eligible)
  <2>1. reason = Reasons
    BY <1>1 DEF IInv, ResultsOK, Stages, AfterQuality, AfterEligibility
  <2>2. Eligible \in SUBSET Names
    BY <2>1 DEF Eligible, Reasons, Universe
  <2>. QED BY <2>2, FS_Subset, BookAssumption DEF BookAssumption
<1>5. PICK q : q = ranked'
  OBVIOUS
<1>6. q \in Seq(Eligible) /\ IsInjective(q)
  BY <1>1, <1>4, <1>5, RankingsAreLists
<1>7. RankedOK'
  BY <1>1, <1>4, <1>5, <1>6 DEF RankedOK, Eligible
<1>8. ResultsOK'
  BY <1>1, <1>3, <1>7 DEF IInv, ResultsOK, Stages, AfterQuality, AfterEligibility, AfterRanking,
                          AfterDefence, AfterEntry
<1>. QED BY <1>2, <1>8 DEF IInv

LEMMA DefendKeeps ==
  ASSUME IInv, Defend
  PROVE  IInv'
<1>1. /\ stage = "defence" /\ defence' = Defence /\ Goto("entry") /\ stage' = "entry"
      /\ UNCHANGED <<scene, policy, held, clean, regime, reason, ranked, entry, out>>
  BY DEF Defend, Goto, inputs
<1>2. RowOK' /\ InputsOK'
  BY <1>1, GotoKeeps DEF Stages
<1>3. /\ clean = Passed /\ reason = Reasons /\ RankedOK
  BY <1>1 DEF IInv, ResultsOK, Stages, AfterQuality, AfterEligibility, AfterRanking
<1>4. Passed' = Passed /\ Reasons' = Reasons /\ Defence' = Defence /\ RankedOK'
  BY <1>1, <1>3, SamePassed, SameReasons, SameDefence, SameRanked
<1>5. ResultsOK'
  BY <1>1, <1>3, <1>4 DEF ResultsOK, Stages, AfterQuality, AfterEligibility, AfterRanking,
                          AfterDefence, AfterEntry
<1>. QED BY <1>2, <1>5 DEF IInv

LEMMA EnterKeeps ==
  ASSUME IInv, Enter
  PROVE  IInv'
<1>1. /\ stage = "entry" /\ entry' = Entries /\ Goto("final") /\ stage' = "final"
      /\ UNCHANGED <<today, scene, policy, held, clean, regime, reason, ranked, defence, out>>
  BY DEF Enter, Goto, inputs
<1>2. RowOK' /\ InputsOK'
  BY <1>1, GotoKeeps DEF Stages
<1>3. /\ clean = Passed /\ reason = Reasons /\ RankedOK /\ defence = Defence
  BY <1>1 DEF IInv, ResultsOK, Stages, AfterQuality, AfterEligibility, AfterRanking, AfterDefence
<1>4. /\ Passed' = Passed /\ Reasons' = Reasons /\ Defence' = Defence /\ RankedOK'
      /\ Entries' = Entries
  BY <1>1, <1>3, SamePassed, SameReasons, SameDefence, SameRanked, SameEntries
<1>5. ResultsOK'
  BY <1>1, <1>3, <1>4 DEF ResultsOK, Stages, AfterQuality, AfterEligibility, AfterRanking,
                          AfterDefence, AfterEntry
<1>. QED BY <1>2, <1>5 DEF IInv

\* What is decided follows from the inputs and from what the stages left.
LEMMA SameSelected ==
  ASSUME UNCHANGED <<scene, policy, held, regime, ranked, defence, entry>>
  PROVE  Selected' = Selected
<1>1. data' = data /\ market' = market
  BY DEF data, market
<1>2. Defended' = Defended /\ Survivors' = Survivors
  BY DEF Defended, Survivors
<1>3. \A s : Before(s)' = Before(s)
  BY DEF Before
<1>4. \A list : Cleared(list)' = Cleared(list)
  BY <1>1 DEF Cleared
<1>5. Listed' = Listed
  BY SameListed
<1>6. ConvictionBuys' = ConvictionBuys
  BY <1>1, <1>2, <1>4, <1>5 DEF ConvictionBuys
<1>7. Qualifying' = Qualifying
  BY <1>1, <1>2, <1>3 DEF Qualifying
<1>8. Closed' = Closed
  BY <1>1, <1>5 DEF Closed
<1>9. LimitedBook' = LimitedBook
  BY <1>1, <1>7, <1>8 DEF LimitedBook
<1>. QED BY <1>6, <1>9 DEF Selected

LEMMA SameOutcome ==
  ASSUME UNCHANGED <<today, scene, policy, held, since, regime, ranked, defence, entry>>
  PROVE  Outcome(Selected)' = Outcome(Selected)
<1>1. data' = data /\ Ranks' = Ranks
  BY DEF data, Ranks, RankOfName
<1>2. Selected' = Selected
  BY SameSelected
<1>. QED BY <1>1, <1>2 DEF Outcome

LEMMA DecideKeeps ==
  ASSUME IInv, Decide
  PROVE  IInv'
<1>1. /\ stage = "final" /\ out' = Outcome(Selected) /\ Goto("record") /\ stage' = "record"
      /\ UNCHANGED <<today, scene, policy, held, since, clean, regime, reason, ranked, defence,
                     entry>>
  BY DEF Decide, Goto, inputs
<1>2. RowOK' /\ InputsOK'
  BY <1>1, GotoKeeps DEF Stages
<1>3. /\ clean = Passed /\ reason = Reasons /\ RankedOK /\ defence = Defence /\ entry = Entries
  BY <1>1 DEF IInv, ResultsOK, Stages, AfterQuality, AfterEligibility, AfterRanking, AfterDefence,
              AfterEntry
<1>4. /\ Passed' = Passed /\ Reasons' = Reasons /\ Defence' = Defence /\ RankedOK'
      /\ Entries' = Entries
  BY <1>1, <1>3, SamePassed, SameReasons, SameDefence, SameRanked, SameEntries
<1>5. out' = Outcome(Selected)'
  BY <1>1, SameOutcome
<1>6. ResultsOK'
  BY <1>1, <1>3, <1>4, <1>5 DEF ResultsOK, Stages, AfterQuality, AfterEligibility, AfterRanking,
                                AfterDefence, AfterEntry
<1>. QED BY <1>2, <1>6 DEF IInv

\* What holds when a run is about to be recorded, stage by stage.
LEMMA AtRecord ==
  ASSUME IInv, stage = "record"
  PROVE  /\ scene \in Scenes /\ policy \in Policies /\ held \subseteq Names
         /\ clean = Passed /\ reason = Reasons /\ RankedOK /\ defence = Defence /\ DefendedOK
         /\ entry = Entries /\ out = Outcome(Selected)
<1>1. scene \in Scenes /\ policy \in Policies /\ held = row.signals /\ row.signals \subseteq Names
  BY DEF IInv, InputsOK, RowOK
<1>2. /\ clean = Passed /\ reason = Reasons /\ RankedOK /\ defence = Defence /\ entry = Entries
      /\ out = Outcome(Selected)
  BY DEF IInv, ResultsOK, Stages, AfterQuality, AfterEligibility, AfterRanking, AfterDefence,
         AfterEntry
<1>3. DefendedOK
  BY <1>1, <1>2, DefenceIs
<1>. QED BY <1>1, <1>2, <1>3

LEMMA RecordKeeps ==
  ASSUME IInv, Record
  PROVE  IInv'
<1>1. /\ stage = "record" /\ Forget /\ today' = today
      /\ row' = [session |-> today, signals |-> ToSet(out.buys), shown |-> out.slate,
                 directives |-> out.directives]
  BY DEF Record
<1>2. InputsOK' /\ ResultsOK'
  BY <1>1, ForgetKeeps
<1>3. PICK shown : shown = out.slate
  OBVIOUS
<1>4. /\ Bought \cup Watched \subseteq Survivors
      /\ DOMAIN shown \subseteq Bought \cup Watched
      /\ Stable(shown, since, Bought \cup Watched, Ranks, today)
  BY <1>1, <1>3, AtRecord, OutcomeIs
<1>5. Survivors \subseteq Names
  BY <1>1, AtRecord, MembersAreFinite DEF RankedOK, DefendedOK, Survivors
<1>6. Bought \subseteq Names /\ DOMAIN shown \subseteq Names
  BY <1>4, <1>5
<1>7. /\ today \in 1..MaxSession /\ row.session \in 0..today /\ row.session < today
      /\ since = row.shown /\ \A s \in DOMAIN row.shown : row.shown[s] \in 1..row.session
  BY <1>1 DEF IInv, RowOK, InputsOK
<1>8. ASSUME NEW s \in DOMAIN shown PROVE shown[s] \in 1..today
  <2>1. shown[s] = IF s \in DOMAIN since THEN since[s] ELSE today
    BY <1>4 DEF Stable
  <2>2. today \in Nat /\ today >= 1 /\ row.session \in Nat
    BY <1>7, BookAssumption DEF BookAssumption
  <2>3. CASE s \in DOMAIN since
    <3>1. shown[s] \in 1..row.session
      BY <1>7, <2>1, <2>3
    <3>. QED BY <1>7, <2>2, <3>1
  <2>4. CASE s \notin DOMAIN since
    BY <2>1, <2>2, <2>4
  <2>. QED BY <2>3, <2>4
<1>9. /\ today' \in 1..MaxSession /\ row'.session = today /\ today' = today
      /\ row'.signals = Bought /\ row'.shown = shown
  BY <1>1, <1>3, <1>7 DEF Bought
<1>10. row'.session \in 0..today'
  BY <1>7, <1>9, BookAssumption DEF BookAssumption
<1>11. RowOK'
  BY <1>6, <1>8, <1>9, <1>10 DEF RowOK
<1>. QED BY <1>2, <1>11 DEF IInv

\* A run that stops leaves the ledger alone.
LEMMA StopKeeps ==
  ASSUME IInv, Stop
  PROVE  IInv'
<1>1. InputsOK' /\ ResultsOK'
  BY ForgetKeeps DEF Stop
<1>2. RowOK'
  BY DEF Stop, IInv, RowOK
<1>. QED BY <1>1, <1>2 DEF IInv

LEMMA StutterKeeps ==
  ASSUME IInv, UNCHANGED vars
  PROVE  IInv'
<1>1. /\ UNCHANGED <<today, row, stage, scene, policy, held, since>>
      /\ UNCHANGED <<clean, regime, reason, ranked, defence, entry, out>>
  BY DEF vars
<1>2. RowOK' /\ InputsOK'
  BY <1>1 DEF IInv, RowOK, InputsOK
<1>3. Passed' = Passed /\ Reasons' = Reasons /\ Defence' = Defence /\ Entries' = Entries
  BY <1>1, SamePassed, SameReasons, SameDefence, SameEntries
<1>4. Outcome(Selected)' = Outcome(Selected)
  BY <1>1, SameOutcome
<1>5. RankedOK => RankedOK'
  BY <1>1, SameRanked
<1>6. ResultsOK'
  BY <1>1, <1>3, <1>4, <1>5 DEF IInv, ResultsOK, AfterQuality, AfterEligibility, AfterRanking,
                                AfterDefence, AfterEntry
<1>. QED BY <1>2, <1>6 DEF IInv

LEMMA StepHolds == IInv /\ [Next]_vars => IInv'
<1>. SUFFICES ASSUME IInv, [Next]_vars PROVE IInv'
  OBVIOUS
<1>1. CASE Ingest
  BY <1>1, IngestKeeps
<1>2. ASSUME NEW sc \in Scenes, NEW p \in Policies, Begin(sc, p) PROVE IInv'
  BY <1>2, BeginKeeps
<1>3. CASE Quality
  BY <1>3, QualityKeeps
<1>4. CASE ReadRegime
  BY <1>4, ReadRegimeKeeps
<1>5. CASE Eligibility
  BY <1>5, EligibilityKeeps
<1>6. CASE Rank
  BY <1>6, RankKeeps
<1>7. CASE Defend
  BY <1>7, DefendKeeps
<1>8. CASE Enter
  BY <1>8, EnterKeeps
<1>9. CASE Decide
  BY <1>9, DecideKeeps
<1>10. CASE Record
  BY <1>10, RecordKeeps
<1>11. CASE Blocked1 \/ Blocked2 \/ Blocked4 \/ Crash
  BY <1>11, StopKeeps DEF Blocked1, Blocked2, Blocked4, Crash
<1>12. CASE UNCHANGED vars
  BY <1>12, StutterKeeps
<1>. QED BY <1>1, <1>2, <1>3, <1>4, <1>5, <1>6, <1>7, <1>8, <1>9, <1>10, <1>11, <1>12
         DEF Next, Analysis

LEMMA Invariant == Spec => []IInv
BY InitHolds, StepHolds, PTL DEF Spec
-----------------------------------------------------------------------------
(* The theorems *)

\* Whatever the names, scenes and policies, every variable has the shape of its
\* stage's result, the book and the screen hold listed names, and no name of the
\* screen was first shown after the run that shows it.
THEOREM TypeCorrect == Spec => []TypeOK
<1>1. ASSUME IInv PROVE TypeOK
  <2>1. /\ (stage = "idle") = (scene = NoInput)
        /\ scene \in Scenes \cup {NoInput} /\ policy \in Policies \cup {NoInput}
        /\ held \subseteq Names
    BY <1>1, InputAssumption DEF IInv, InputsOK, RowOK, InputAssumption
  <2>2. clean \subseteq Names
    BY <1>1 DEF IInv, ResultsOK, Passed, Universe
  <2>3. ToSet(ranked) \subseteq Names /\ IsInjective(ranked) /\ Defended \subseteq ToSet(ranked)
    <3>1. CASE stage \in AfterRanking
      <4>1. RankedOK
        BY <1>1, <3>1 DEF IInv, ResultsOK
      <4>2. ToSet(ranked) \subseteq Names
        BY <4>1, MembersAreFinite DEF RankedOK
      <4>3. CASE stage \in AfterDefence
        <5>1. policy \in Policies /\ scene \in Scenes
          BY <1>1, <4>3 DEF IInv, InputsOK, AfterDefence, AfterRanking, AfterEligibility,
                            AfterQuality
        <5>2. Defended \subseteq ToSet(ranked)
          BY <1>1, <4>1, <4>3, <5>1, DefenceIs DEF IInv, ResultsOK, DefendedOK
        <5>. QED BY <4>1, <4>2, <5>2 DEF RankedOK
      <4>4. CASE stage \notin AfterDefence
        BY <1>1, <4>1, <4>2, <4>4 DEF IInv, ResultsOK, Defended, NoDefence, Nothing, RankedOK
      <4>. QED BY <4>3, <4>4
    <3>2. CASE stage \notin AfterRanking
      <4>1. ranked = << >> /\ defence = NoDefence
        BY <1>1, <3>2 DEF IInv, ResultsOK, AfterDefence, Nothing
      <4>2. ToSet(ranked) = {} /\ IsInjective(ranked)
        BY <4>1 DEF ToSet, IsInjective
      <4>3. Defended = {}
        BY <4>1 DEF Defended, NoDefence, Nothing
      <4>. QED BY <4>2, <4>3
    <3>. QED BY <3>1, <3>2
  <2>4. stage \in Stages
    BY <1>1 DEF IInv, InputsOK
  <2>. QED BY <1>1, <2>1, <2>2, <2>3, <2>4 DEF TypeOK, IInv, RowOK
<1>. QED BY <1>1, Invariant, PTL

\* A name shown stays shown, with its first date, until the run no longer produces
\* it, its rank leaves the exit band or better names shown before it fill the
\* slots: for any bands and any number of names.
THEOREM ScreensAreStable == Spec => []ScreenIsStable
<1>1. ASSUME IInv PROVE ScreenIsStable
  <2>1. SUFFICES ASSUME stage = "record" PROVE ScreenIsStable
    BY DEF ScreenIsStable, Recording
  <2>2. PICK slate : slate = out.slate
    OBVIOUS
  <2>3. /\ Bought \cup Watched \subseteq Survivors
        /\ DOMAIN slate \subseteq Bought \cup Watched
        /\ Stable(slate, since, Bought \cup Watched, Ranks, today)
    BY <1>1, <2>1, <2>2, AtRecord, OutcomeIs
  <2>4. Bought \cup Watched \subseteq Names
    BY <1>1, <2>1, <2>3, AtRecord, MembersAreFinite DEF RankedOK, DefendedOK, Survivors
  <2>5. \A s \in Bought \cup Watched : Ranks[s] = RankOfName(s)
    BY <2>4 DEF Ranks
  <2>. QED BY <2>2, <2>3, <2>5 DEF ScreenIsStable, Stable
<1>. QED BY <1>1, Invariant, PTL
-----------------------------------------------------------------------------
(* The book taken under the limits *)

\* The held names that keep their place before any other is heard.
HeldFirst == Prefix(Among(Qualifying, KeptOf(Qualifying, entry.decision, held)), policy.maxSignals)

LEMMA LimitedIs ==
  ASSUME RankedOK, DefendedOK, policy \in Policies
  PROVE  /\ LimitedBook.buys \in Seq(Names)
         /\ HeldFirst \in Seq(Names) /\ IsInjective(HeldFirst)
         /\ ToSet(HeldFirst) \subseteq KeptOf(Qualifying, entry.decision, held)
         /\ \A s \in KeptOf(Qualifying, entry.decision, held) \ ToSet(HeldFirst) :
              /\ Len(HeldFirst) = policy.maxSignals
              /\ \A t \in ToSet(HeldFirst) : Better(defence.score, ranked, t, s)
         /\ Len(LimitedBook.buys) <= policy.maxSignals
         /\ ToSet(HeldFirst) \subseteq ToSet(LimitedBook.buys)
         /\ Len(HeldFirst) = policy.maxSignals => LimitedBook.buys = HeldFirst
         /\ \A s \in ToSet(LimitedBook.buys) \ ToSet(HeldFirst) :
              /\ entry.decision[s].status = "TRIGGERED" /\ ~Closed
              /\ InSector(Sector, s, LimitedBook.buys) <= policy.maxPerSector
              /\ ~TooCorrelated(s, LimitedBook.buys, market.correlation)
<1>1. PICK list : list = Qualifying
  OBVIOUS
<1>2. /\ list \in Seq(Names) /\ IsInjective(list)
      /\ \A k, l \in DOMAIN list : k < l => Better(defence.score, ranked, list[k], list[l])
  BY <1>1, QualifyingIs
<1>3. PICK m \in Nat : m = policy.maxSignals
  BY BookAssumption DEF BookAssumption
<1>4. policy.maxPerSector \in Nat
  BY BookAssumption DEF BookAssumption
<1>5. PICK decision : decision = entry.decision
  OBVIOUS
<1>6. PICK kept : kept = KeptOf(list, decision, held)
  OBVIOUS
<1>7. kept \subseteq ToSet(list)
  BY <1>6 DEF KeptOf
<1>8. PICK first : first = Among(list, kept)
  OBVIOUS
<1>9. first \in Seq(Names) /\ IsInjective(first) /\ ToSet(first) = kept /\ Follows(first, list)
  <2>1. /\ first \in Seq(Names) /\ IsInjective(first) /\ ToSet(first) = ToSet(list) \cap kept
        /\ Follows(first, list)
    BY <1>2, <1>8, AmongIs
  <2>. QED BY <1>7, <2>1
<1>10. PICK n \in Nat : n = Len(first)
  BY <1>9
<1>11. DOMAIN first = 1..n
  BY <1>9, <1>10
<1>12. PICK pre : pre = Prefix(first, m)
  OBVIOUS
<1>13. /\ pre \in Seq(Names) /\ IsInjective(pre) /\ Len(pre) = (IF m < n THEN m ELSE n)
       /\ ToSet(pre) = {first[i] : i \in {j \in DOMAIN first : j <= m}}
  <2>1. /\ Prefix(first, m) \in Seq(Names) /\ IsInjective(Prefix(first, m))
        /\ Len(Prefix(first, m)) = IF m < Len(first) THEN m ELSE Len(first)
        /\ ToSet(Prefix(first, m)) = {first[i] : i \in {j \in DOMAIN first : j <= m}}
    BY <1>9, PrefixIs
  <2>. QED BY <1>10, <1>12, <2>1
<1>14. ToSet(pre) \subseteq kept
  BY <1>9, <1>13 DEF ToSet
<1>15. ASSUME NEW s \in kept \ ToSet(pre)
       PROVE  Len(pre) = m /\ \A t \in ToSet(pre) : Better(defence.score, ranked, t, s)
  <2>1. PICK i \in 1..n : first[i] = s
    BY <1>9, <1>11, <1>15 DEF ToSet
  <2>2. ~(i <= m)
    BY <1>11, <1>13, <1>15, <2>1
  <2>3. Len(pre) = m
    BY <1>13, <2>2
  <2>4. ASSUME NEW t \in ToSet(pre) PROVE Better(defence.score, ranked, t, s)
    <3>1. PICK j \in 1..n : j <= m /\ first[j] = t
      BY <1>11, <1>13
    <3>2. j < i
      BY <2>2, <3>1
    <3>3. Place(list, t) < Place(list, s)
      BY <1>9, <1>11, <2>1, <3>1, <3>2 DEF Follows
    <3>4. s \in ToSet(list) /\ t \in ToSet(list)
      BY <1>7, <1>14, <1>15
    <3>5. PICK k \in DOMAIN list, l \in DOMAIN list :
                 k = Place(list, t) /\ l = Place(list, s) /\ list[k] = t /\ list[l] = s
      <4>1. DOMAIN list = 1..Len(list)
        BY <1>2
      <4>. QED BY <1>2, <3>4, <4>1, PlaceIs
    <3>. QED BY <1>2, <3>3, <3>5
  <2>. QED BY <2>3, <2>4
<1>16. PICK closed : closed = Closed
  OBVIOUS
<1>17. PICK correlation : correlation = market.correlation
  OBVIOUS
<1>18. PICK sel : sel = LimitedBook
  OBVIOUS
<1>19. PICK start : start = KeepHeld(first, policy)
  OBVIOUS
<1>20. start.buys = pre
  BY <1>3, <1>12, <1>19 DEF KeepHeld
<1>21. sel \in Books(Names) /\ WithinLimits(sel, start, decision, closed, Sector, correlation, policy)
  <2>1. LET r == Select(list, decision, held, closed, Sector, correlation, policy)
            f == Among(list, KeptOf(list, decision, held))
        IN  /\ r \in Books(Names)
            /\ ToSet(r.buys) \cup ToSet(r.watch) = ToSet(list)
            /\ WithinLimits(r, KeepHeld(f, policy), decision, closed, Sector, correlation, policy)
    BY <1>2, <1>3, <1>4, SelectIs
  <2>2. sel = Select(list, decision, held, closed, Sector, correlation, policy)
    BY <1>1, <1>5, <1>16, <1>17, <1>18 DEF LimitedBook
  <2>. QED BY <1>6, <1>8, <1>19, <2>1, <2>2
<1>22. HeldFirst = pre
  BY <1>1, <1>3, <1>5, <1>6, <1>8, <1>12 DEF HeldFirst
<1>23. /\ sel.buys \in Seq(Names)
       /\ Len(sel.buys) <= policy.maxSignals
       /\ ToSet(pre) \subseteq ToSet(sel.buys)
       /\ Len(pre) = policy.maxSignals => sel.buys = pre
       /\ \A s \in ToSet(sel.buys) \ ToSet(pre) :
            /\ decision[s].status = "TRIGGERED" /\ ~closed
            /\ InSector(Sector, s, sel.buys) <= policy.maxPerSector
            /\ ~TooCorrelated(s, sel.buys, correlation)
  BY <1>20, <1>21 DEF WithinLimits, Books
<1>. QED BY <1>1, <1>3, <1>5, <1>6, <1>13, <1>14, <1>15, <1>16, <1>17, <1>18, <1>22, <1>23

\* A name that enters finds room in the book and in its sector and moves with no name
\* of the book, however many are held, whatever the limits and however each pair of
\* names is correlated.
THEOREM LimitsAreKept == Spec => []LimitsHold
<1>1. ASSUME IInv PROVE LimitsHold
  <2>1. SUFFICES ASSUME stage = "record", ~policy.conviction PROVE LimitsHold
    BY DEF LimitsHold, Recording
  <2>2. out.buys = LimitedBook.buys
    <3>1. out.buys = Selected.buys
      BY <1>1, <2>1, AtRecord, OutcomeIs
    <3>. QED BY <2>1, <3>1 DEF Selected
  <2>3. RankedOK /\ DefendedOK /\ policy \in Policies
    BY <1>1, <2>1, AtRecord
  <2>4. \A s \in Bought \ held : s \in ToSet(LimitedBook.buys) \ ToSet(HeldFirst)
    BY <2>2, <2>3, LimitedIs DEF Bought, KeptOf
  <2>5. Len(out.buys) <= policy.maxSignals
    BY <2>2, <2>3, LimitedIs
  <2>6. \A s \in Bought \ held :
          /\ InSector(Sector, s, out.buys) <= policy.maxPerSector
          /\ ~TooCorrelated(s, out.buys, market.correlation)
    BY <2>2, <2>3, <2>4, LimitedIs
  <2>. QED BY <2>5, <2>6 DEF LimitsHold
<1>. QED BY <1>1, Invariant, PTL

\* A held name inside the exit band that still qualifies leaves the book only when the
\* book is full of held names that score as well: for any bands, any size of the book.
THEOREM HeldNamesStay == Spec => []BandKeepsHeld
<1>1. ASSUME IInv PROVE BandKeepsHeld
  <2>1. SUFFICES ASSUME stage = "record", ~policy.conviction,
                        NEW s \in held \cap Survivors,
                        data[s].bars = "enough", EntryAdmissible(data[s], policy.source, policy.floor),
                        defence.score[s] >= policy.minScore, Before(s) >= policy.minPercentile,
                        RankOfName(s) <= ExitRank, s \notin Bought
                 PROVE  Cardinality({t \in held \cap Bought : defence.score[t] >= defence.score[s]})
                          = policy.maxSignals
    BY DEF BandKeepsHeld, Recording
  <2>2. /\ scene \in Scenes /\ policy \in Policies /\ RankedOK /\ DefendedOK /\ entry = Entries
        /\ out = Outcome(Selected)
    BY <1>1, <2>1, AtRecord
  <2>3. out.buys = LimitedBook.buys
    <3>1. out.buys = Selected.buys
      BY <2>2, OutcomeIs
    <3>. QED BY <2>1, <3>1 DEF Selected
  <2>4. s \in ToSet(Qualifying)
    <3>1. Qualifies(s)
      BY <2>1 DEF Qualifies, Qualified
    <3>. QED BY <2>1, <2>2, <3>1, QualifyingIs
  <2>5. s \in Defended /\ s \in ToSet(ranked)
    BY <2>1, <2>2 DEF Survivors, DefendedOK
  <2>6. entry.decision[s].status = "TRIGGERED"
    <3>1. entry.decision[s] = Decision(data[s], RankOfName(s), s \in held, EntriesOpen, policy)
      BY <2>2, <2>5 DEF Entries
    <3>2. RankOfName(s) # 0
      <4>1. RankOfName(s) \in 1..Len(ranked) /\ ranked \in Seq(Eligible)
        BY <2>2, <2>5, PlaceIs DEF RankedOK, RankOfName, RankOf
      <4>. QED BY <4>1
    <3>3. Admit(RankOfName(s), s \in held)
      BY <2>1, <3>2 DEF Admit
    <3>4. Evaluate(data[s], RankOfName(s), s \in held, policy)
            = [status |-> "TRIGGERED", priced |-> TRUE]
      BY <2>1, <3>3 DEF Evaluate
    <3>. QED BY <2>1, <3>1, <3>4 DEF Decision
  <2>7. s \in KeptOf(Qualifying, entry.decision, held)
    BY <2>1, <2>4, <2>6 DEF KeptOf
  <2>8. PICK kept : kept = HeldFirst
    OBVIOUS
  <2>9. /\ kept \in Seq(Names) /\ IsInjective(kept)
        /\ ToSet(kept) \subseteq KeptOf(Qualifying, entry.decision, held)
        /\ ToSet(kept) \subseteq ToSet(LimitedBook.buys)
        /\ Len(kept) = policy.maxSignals => LimitedBook.buys = kept
    BY <2>2, <2>8, LimitedIs
  <2>10. s \notin ToSet(kept)
    BY <2>1, <2>3, <2>9 DEF Bought
  <2>11. Len(kept) = policy.maxSignals /\ \A t \in ToSet(kept) : Better(defence.score, ranked, t, s)
    BY <2>2, <2>7, <2>8, <2>10, LimitedIs
  <2>12. Bought = ToSet(kept)
    BY <2>3, <2>9, <2>11 DEF Bought
  <2>13. ToSet(kept) \subseteq held
    BY <2>9 DEF KeptOf
  <2>14. ASSUME NEW t \in ToSet(kept) PROVE defence.score[t] >= defence.score[s]
    <3>1. t \in Survivors
      BY <2>2, <2>9, QualifyingIs DEF KeptOf
    <3>2. defence.score[t] \in Int /\ defence.score[s] \in Int
      BY <2>2, <2>5, <3>1 DEF DefendedOK, Survivors
    <3>. QED BY <2>11, <3>2 DEF Better
  <2>15. {t \in held \cap Bought : defence.score[t] >= defence.score[s]} = ToSet(kept)
    BY <2>12, <2>13, <2>14
  <2>16. Cardinality(ToSet(kept)) = Len(kept)
    BY <2>9, LengthOfList
  <2>. QED BY <2>11, <2>15, <2>16
<1>. QED BY <1>1, Invariant, PTL
-----------------------------------------------------------------------------
(* What a name has to pass to enter *)

\* No name the first stage put out is eligible.
LEMMA EligibleIsClean ==
  ASSUME NEW d, NEW h, NEW p
  PROVE  Rejection(d, FALSE, h, p) # "eligible"
<1>1. PICK gates : gates = Gates(d, FALSE, h, p)
  OBVIOUS
<1>2. Len(gates) = 11 /\ gates[1] = <<"data_quality", TRUE>>
  <2>1. (~FALSE) = TRUE
    OBVIOUS
  <2>. QED BY <1>1, <2>1 DEF Gates
<1>3. gates[1][1] = "data_quality" /\ gates[1][2]
  BY <1>2
<1>4. PICK I : I = {i \in 1..Len(gates) : gates[i][2]}
  OBVIOUS
<1>5. 1 \in 1..Len(gates) /\ 1..Len(gates) \subseteq Nat /\ \A i \in 1..Len(gates) : 1 <= i
  BY <1>2
<1>6. 1 \in I /\ I \subseteq Nat /\ \A i \in I : 1 <= i
  BY <1>3, <1>4, <1>5
<1>7. Min(I) = 1 /\ I # {}
  BY <1>6, MinIs
<1>8. Rejection(d, FALSE, h, p) = gates[1][1]
  BY <1>1, <1>4, <1>7 DEF Rejection, SelectInSeq
<1>. QED BY <1>3, <1>8

\* A name not held that is triggered has a price, ranks inside the entry band on a day
\* the book is open, and stands above the level that would close it.
LEMMA TriggeredIs ==
  ASSUME NEW d, NEW rank, NEW open, NEW p,
         Decision(d, rank, FALSE, open, p).status = "TRIGGERED"
  PROVE  /\ Decision(d, rank, FALSE, open, p).priced
         /\ open /\ rank <= EntryRank
         /\ p.aboveInvalidation => d.level \notin {"none", "below"}
<1>1. PICK e : e = Evaluate(d, rank, FALSE, p)
  OBVIOUS
<1>2. /\ e.status \in {"NOT_TRIGGERED", "WATCHLIST", "TRIGGERED"}
      /\ e.status = "TRIGGERED" => /\ e.priced /\ Admit(rank, FALSE)
                                   /\ p.aboveInvalidation => ~BelowInvalidation(d)
  BY <1>1 DEF Evaluate
<1>3. ~(d.bars \in {"few", "some"})
  BY DEF Decision
<1>4. CASE ~open /\ e.status = "TRIGGERED"
  <2>1. Decision(d, rank, FALSE, open, p) = [e EXCEPT !.status = "WATCHLIST"]
    BY <1>1, <1>3, <1>4 DEF Decision
  <2>2. [e EXCEPT !.status = "WATCHLIST"].status = "WATCHLIST"
    BY <1>1 DEF Evaluate
  <2>. QED BY <2>1, <2>2
<1>5. CASE ~(~open /\ e.status = "TRIGGERED")
  <2>1. Decision(d, rank, FALSE, open, p) = e
    BY <1>1, <1>3, <1>5 DEF Decision
  <2>. QED BY <1>2, <1>5, <2>1 DEF Admit, BelowInvalidation
<1>. QED BY <1>4, <1>5

\* The two ways of buying, and what each has asked of a name it did not hold.
LEMMA GateAsks ==
  ASSUME IInv, stage = "record", policy.conviction, NEW s \in Bought
  PROVE  /\ s \in ClearedNames /\ ~defence.halt
         /\ entry.plan[s].made /\ entry.plan[s].cost # {}
         /\ policy.knownOnly => entry.plan[s].liquidity = "KNOWN_VALID"
<1>1. /\ RankedOK /\ DefendedOK /\ scene \in Scenes /\ policy \in Policies
      /\ out = Outcome(Selected)
  BY AtRecord
<1>2. out.buys = ConvictionBuys
  <2>1. out.buys = Selected.buys
    BY <1>1, OutcomeIs
  <2>. QED BY <2>1 DEF Selected
<1>3. PICK best : Clears(best)
  BY <1>1, ClearedIs
<1>4. PICK residual : residual = market.residual
  OBVIOUS
<1>5. ConvictionBuys # << >>
  BY <1>2 DEF Bought, ToSet
<1>6. PICK two : two = SelectAtMostTwo(best, residual)
  OBVIOUS
<1>7. best \in Seq(Names) /\ ToSet(best) = ClearedNames /\ out.buys = two
  BY <1>2, <1>3, <1>4, <1>5, <1>6 DEF Clears
<1>8. s \in ClearedNames
  <2>1. Chosen(two, Len(best), best, residual) /\ s \in ToSet(two)
    BY <1>6, <1>7, SelectAtMostTwoIs DEF Bought
  <2>2. PICK i \in 1..Len(best) : s = best[i]
    BY <2>1 DEF Chosen
  <2>3. DOMAIN best = 1..Len(best)
    BY <1>7
  <2>4. best[i] \in ToSet(best)
    BY <2>3 DEF ToSet
  <2>. QED BY <1>7, <2>2, <2>4
<1>9. Reached
  BY <1>5 DEF ConvictionBuys, Reached
<1>10. ~defence.halt
  <2>1. Len(Listed) \in Nat /\ MinField \in Nat
    BY <1>1, ListedIs, ConvictionAssumption DEF ConvictionAssumption
  <2>2. Len(Listed) < MinField \/ Len(Listed) >= MinField
    BY <2>1
  <2>. QED BY <1>9, <2>1, <2>2 DEF NotReached, Reached
<1>11. PICK plan : plan = entry.plan[s]
  OBVIOUS
<1>12. Failures(data[s].case, plan, market.edge, regime, policy.knownOnly) = {}
  BY <1>8, <1>11 DEF ClearedNames
<1>13. ~EconomicsFails(market.edge, plan) /\ ~LiquidityFails(plan, policy.knownOnly)
  BY <1>12 DEF Failures
<1>. QED BY <1>8, <1>10, <1>11, <1>13 DEF EconomicsFails, NetEdgeTestable, LiquidityFails

LEMMA LimitsAsk ==
  ASSUME IInv, stage = "record", ~policy.conviction, NEW s \in Bought \ held
  PROVE  /\ ~defence.halt /\ regime.allow
         /\ entry.plan[s].made
         /\ IsEntryDate(1..today, today) /\ RankOfName(s) <= EntryRank
         /\ policy.aboveInvalidation => data[s].level = "above"
<1>1. /\ RankedOK /\ DefendedOK /\ scene \in Scenes /\ policy \in Policies
      /\ out = Outcome(Selected) /\ entry = Entries
  BY AtRecord
<1>2. out.buys = LimitedBook.buys
  <2>1. out.buys = Selected.buys
    BY <1>1, OutcomeIs
  <2>. QED BY <2>1 DEF Selected
<1>3. s \notin ToSet(HeldFirst)
  BY <1>1, LimitedIs DEF KeptOf
<1>4. entry.decision[s].status = "TRIGGERED" /\ ~Closed
  BY <1>1, <1>2, <1>3, LimitedIs DEF Bought
<1>5. s \in Survivors /\ s \in Defended /\ s \in ToSet(ranked) /\ s \in Names
  <2>1. s \in Survivors
    BY <1>1, OutcomeIs
  <2>2. s \in Defended /\ s \in ToSet(ranked)
    BY <1>1, <2>1 DEF Survivors, DefendedOK
  <2>3. s \in Names
    BY <1>1, <2>2, MembersAreFinite DEF RankedOK
  <2>. QED BY <2>1, <2>2, <2>3
<1>6. PICK decision : decision = Decision(data[s], RankOfName(s), s \in held, EntriesOpen, policy)
  OBVIOUS
<1>7. /\ entry.decision[s] = decision
      /\ entry.plan[s] = BuildPlan(data[s], decision)
  BY <1>1, <1>5, <1>6 DEF Entries
<1>8. (s \in held) = FALSE
  OBVIOUS
<1>9. decision = Decision(data[s], RankOfName(s), FALSE, EntriesOpen, policy)
  BY <1>6, <1>8
<1>10. /\ decision.priced /\ EntriesOpen /\ RankOfName(s) <= EntryRank
       /\ policy.aboveInvalidation => data[s].level \notin {"none", "below"}
  <2>1. PICK d : d = data[s]
    OBVIOUS
  <2>2. PICK rank : rank = RankOfName(s)
    OBVIOUS
  <2>3. PICK open : open = EntriesOpen
    OBVIOUS
  <2>4. PICK p : p = policy
    OBVIOUS
  <2>5. decision = Decision(d, rank, FALSE, open, p)
    BY <1>9, <2>1, <2>2, <2>3, <2>4
  <2>6. Decision(d, rank, FALSE, open, p).status = "TRIGGERED"
    BY <1>4, <1>7, <2>5
  <2>7. /\ Decision(d, rank, FALSE, open, p).priced
        /\ open /\ rank <= EntryRank
        /\ p.aboveInvalidation => d.level \notin {"none", "below"}
    BY <2>6, TriggeredIs
  <2>. QED BY <2>1, <2>2, <2>3, <2>4, <2>5, <2>7
<1>11. entry.plan[s].made
  BY <1>7, <1>10 DEF BuildPlan
<1>12. IsEntryDate(1..today, today)
  BY <1>10 DEF EntriesOpen
<1>13. regime.allow /\ ~defence.halt
  BY <1>4 DEF Closed, Blocked
<1>14. data[s].level \in {"none", "below", "above"}
  BY <1>1, <1>5, BookAssumption DEF BookAssumption, data
<1>. QED BY <1>10, <1>11, <1>12, <1>13, <1>14

\* Nothing enters the book that a stage before has put out, that cannot be priced, or on
\* a day the market, the clock or its rank would keep it out: for every scene and policy.
THEOREM BuysAreEarned == Spec => []NewBuyIsEarned
<1>1. ASSUME IInv PROVE NewBuyIsEarned
  <2>1. SUFFICES ASSUME stage = "record", NEW s \in Bought \ held
                 PROVE  /\ s \in clean
                        /\ Rejection(data[s], TRUE, FALSE, policy) = "eligible"
                        /\ s \in Survivors /\ ~defence.halt
                        /\ entry.plan[s].made
                        /\ ~policy.conviction =>
                             /\ regime.allow /\ IsEntryDate(1..today, today)
                             /\ RankOfName(s) <= EntryRank
                             /\ policy.aboveInvalidation => data[s].level = "above"
                        /\ policy.conviction =>
                             /\ entry.plan[s].cost # {}
                             /\ policy.knownOnly => entry.plan[s].liquidity = "KNOWN_VALID"
    BY DEF NewBuyIsEarned, Recording
  <2>2. /\ RankedOK /\ DefendedOK /\ scene \in Scenes /\ policy \in Policies
        /\ out = Outcome(Selected) /\ reason = Reasons
    BY <1>1, <2>1, AtRecord
  <2>3. s \in Survivors
    BY <2>1, <2>2, OutcomeIs
  <2>4. s \in Eligible
    BY <2>2, <2>3, MembersAreFinite DEF Survivors, DefendedOK, RankedOK
  <2>5. Rejection(data[s], s \in clean, s \in held, policy) = "eligible"
    BY <2>2, <2>4 DEF Eligible, Reasons
  <2>6. (s \in held) = FALSE
    BY <2>1
  <2>7. Rejection(data[s], s \in clean, FALSE, policy) = "eligible"
    BY <2>5, <2>6
  <2>8. s \in clean
    <3>1. ASSUME s \notin clean PROVE FALSE
      <4>1. (s \in clean) = FALSE
        BY <3>1
      <4>2. Rejection(data[s], FALSE, FALSE, policy) = "eligible"
        BY <2>7, <4>1
      <4>. QED BY <4>2, EligibleIsClean
    <3>. QED BY <3>1
  <2>9. (s \in clean) = TRUE
    BY <2>8
  <2>10. Rejection(data[s], TRUE, FALSE, policy) = "eligible"
    BY <2>7, <2>9
  <2>11. CASE policy.conviction
    BY <1>1, <2>1, <2>3, <2>8, <2>10, <2>11, GateAsks
  <2>12. CASE ~policy.conviction
    BY <1>1, <2>1, <2>3, <2>8, <2>10, <2>12, LimitsAsk
  <2>. QED BY <2>11, <2>12
<1>. QED BY <1>1, Invariant, PTL

\* The gate buys the best of what it clears, then those shown apart from it, and as
\* many as there are slots: whatever the slots, the shortlist and the correlation of
\* each pair.
THEOREM GateFills == Spec => []GateFillsItsSlots
<1>1. ASSUME IInv PROVE GateFillsItsSlots
  <2>1. SUFFICES ASSUME stage = "record", policy.conviction PROVE GateFillsItsSlots
    BY DEF GateFillsItsSlots, Recording
  <2>2. /\ RankedOK /\ DefendedOK /\ scene \in Scenes /\ policy \in Policies
        /\ out = Outcome(Selected)
    BY <1>1, <2>1, AtRecord
  <2>3. PICK best : Clears(best)
    BY <2>2, ClearedIs
  <2>4. PICK residual : residual = market.residual
    OBVIOUS
  <2>5. PICK two : two = SelectAtMostTwo(best, residual)
    OBVIOUS
  <2>6. PICK n \in Nat : n = Len(best)
    BY <2>3 DEF Clears
  <2>7. /\ best \in Seq(Names) /\ IsInjective(best) /\ ToSet(best) = ClearedNames
        /\ \A k, l \in DOMAIN best : k < l =>
             data[best[k]].case.quality >= data[best[l]].case.quality
        /\ DOMAIN best = 1..n
    BY <2>3, <2>6 DEF Clears
  <2>8. two \in Seq(Names) /\ Chosen(two, n, best, residual)
    BY <2>5, <2>6, <2>7, SelectAtMostTwoIs
  <2>9. out.buys = IF Reached THEN two ELSE << >>
    <3>1. out.buys = Selected.buys
      BY <2>2, OutcomeIs
    <3>. QED BY <2>1, <2>3, <2>4, <2>5, <3>1 DEF Selected, Clears
  <2>10. PICK A : A = Apart(n, best, residual)
    OBVIOUS
  <2>11. /\ n > 0 => two[1] = best[1]
         /\ Len(two) = IF n = 0 THEN 0 ELSE Smaller(MaxBuys, 1 + Cardinality(A))
         /\ \A s \in ToSet(two) : \E i \in 1..n : s = best[i] /\ (i = 1 \/ i \in A)
         /\ \A i \in A : best[i] \notin ToSet(two) =>
              \A s \in ToSet(two) : \E j \in 1..n : s = best[j] /\ j < i
    BY <2>8, <2>10 DEF Chosen
  <2>12. ToSet(<< >>) = {} /\ Len(<< >>) = 0
    BY DEF ToSet
  <2>13. ToSet(two) \subseteq ClearedNames
    BY <2>7, <2>11 DEF ToSet
  <2>14. Bought \subseteq ClearedNames
    BY <2>9, <2>12, <2>13 DEF Bought
  <2>15. \A s \in Names : data[s].case.quality \in Int
    BY <2>2, BookAssumption DEF BookAssumption, data
  <2>16. ToSet(best) \subseteq Names
    BY <2>7, MembersAreFinite
  <2>17. ASSUME Len(Listed) >= MinField, ~defence.halt, ClearedNames # {}
         PROVE  Bought # {}
    <3>1. PICK s \in ClearedNames : TRUE
      BY <2>17
    <3>2. s \in DOMAIN defence.status /\ defence.status[s] \in {"CLEARED", "PENALIZED"}
      BY <2>2 DEF ClearedNames, Heard, Survivors, Defended, DefendedOK
    <3>3. PICK some : some = {t \in DOMAIN defence.status :
                                defence.status[t] \in {"CLEARED", "PENALIZED"}}
      OBVIOUS
    <3>4. some # {}
      BY <3>2, <3>3
    <3>5. ~(Len(Listed) < MinField)
      BY <2>2, <2>17, ListedIs, ConvictionAssumption DEF ConvictionAssumption
    <3>6. Reached
      BY <2>17, <3>3, <3>4, <3>5 DEF Reached, NotReached
    <3>7. n > 0
      <4>1. n # 0
        BY <2>7, <2>17 DEF ToSet
      <4>. QED BY <2>6, <4>1
    <3>8. Len(two) > 0
      <4>1. Cardinality(A) \in Nat
        BY <2>6, <2>10, ApartIs
      <4>. QED BY <2>11, <3>7, <4>1, ConvictionAssumption DEF ConvictionAssumption, Smaller
    <3>9. 1 \in DOMAIN two
      BY <2>8, <3>8
    <3>10. two[1] \in ToSet(two)
      BY <3>9 DEF ToSet
    <3>. QED BY <2>9, <3>6, <3>10 DEF Bought
  <2>18. ASSUME Bought # {}
         PROVE  /\ n > 0 /\ out.buys = two /\ Bought = ToSet(two)
                /\ out.buys[1] = best[1] /\ best[1] \in Names /\ 1 \in 1..n
    <3>1. out.buys = two
      BY <2>9, <2>12, <2>18 DEF Bought
    <3>2. n > 0
      <4>1. ClearedNames # {}
        BY <2>14, <2>18
      <4>2. n # 0
        BY <2>7, <4>1 DEF ToSet
      <4>. QED BY <2>6, <4>2
    <3>3. two[1] = best[1]
      BY <2>11, <3>2
    <3>4. best[1] \in Names /\ 1 \in 1..n
      BY <2>7, <3>2
    <3>. QED BY <3>1, <3>2, <3>3, <3>4 DEF Bought
  <2>19. ASSUME NEW k \in 1..n, NEW l \in 1..n, k <= l
         PROVE  data[best[l]].case.quality <= data[best[k]].case.quality
    <3>1. best[k] \in Names /\ best[l] \in Names
      BY <2>7
    <3>2. k = l \/ k < l
      BY <2>19
    <3>. QED BY <2>7, <2>15, <3>1, <3>2
  <2>20. ASSUME Bought # {}, NEW s \in ClearedNames
         PROVE  data[s].case.quality <= data[out.buys[1]].case.quality
    <3>1. PICK l \in 1..n : best[l] = s
      BY <2>7, <2>20 DEF ToSet
    <3>2. 1 \in 1..n /\ 1 <= l /\ out.buys[1] = best[1]
      BY <2>18, <2>20
    <3>. QED BY <2>19, <3>1, <3>2
  <2>21. PICK apart : apart = {s \in ClearedNames \ {best[1]} : market.residual[{best[1], s}] = "low"}
    OBVIOUS
  <2>22. ASSUME n > 0
         PROVE  /\ A \subseteq 2..n /\ apart = {best[i] : i \in A}
                /\ Cardinality(apart) = Cardinality(A) /\ Cardinality(A) \in Nat
    <3>1. best[1] \in Names /\ \A i \in 1..n : best[i] \in Names
      BY <2>7, <2>22
    <3>2. ASSUME NEW i \in 1..n
          PROVE  Independent(best[1], best[i], residual) <=> market.residual[{best[1], best[i]}] = "low"
      <4>1. market.residual[{best[1], best[i]}] \in {"none", "low", "high"}
        BY <2>2, <3>1, BookAssumption DEF BookAssumption, market
      <4>. QED BY <2>4, <4>1 DEF Independent, AssessPair, EvidenceSimilarity
    <3>3. \A i \in 1..n : i # 1 <=> i \in 2..n
      BY <2>6
    <3>4. \A i \in 2..n : i \in 1..n
      BY <2>6
    <3>5. A = {i \in 2..n : market.residual[{best[1], best[i]}] = "low"}
      BY <2>10, <3>2, <3>4 DEF Apart
    <3>6. \A i, j \in 1..n : best[i] = best[j] => i = j
      BY <2>7 DEF IsInjective
    <3>7. ClearedNames = {best[i] : i \in 1..n}
      BY <2>7 DEF ToSet
    <3>8. 1 \in 1..n
      BY <2>6, <2>22
    <3>9. apart = {best[i] : i \in A}
      <4>1. ASSUME NEW s \in apart PROVE s \in {best[i] : i \in A}
        <5>1. PICK i \in 1..n : s = best[i]
          BY <2>21, <3>7
        <5>2. i # 1 /\ market.residual[{best[1], best[i]}] = "low"
          BY <2>21, <5>1
        <5>. QED BY <3>3, <3>5, <5>1, <5>2
      <4>2. ASSUME NEW i \in A PROVE best[i] \in apart
        <5>1. i \in 1..n /\ i # 1 /\ market.residual[{best[1], best[i]}] = "low"
          BY <3>3, <3>4, <3>5
        <5>2. best[i] # best[1]
          BY <3>6, <3>8, <5>1
        <5>. QED BY <2>21, <3>7, <5>1, <5>2
      <4>. QED BY <4>1, <4>2
    <3>10. PICK f : f = [i \in A |-> best[i]]
      OBVIOUS
    <3>11. f \in Injection(A, apart) /\ f \in Surjection(A, apart)
      <4>1. f \in [A -> apart]
        BY <3>9, <3>10
      <4>2. \A i, j \in A : f[i] = f[j] => i = j
        BY <3>4, <3>5, <3>6, <3>10
      <4>3. f \in Injection(A, apart)
        BY <4>1, <4>2 DEF Injection, IsInjective
      <4>4. f \in Surjection(A, apart)
        BY <3>9, <3>10 DEF Surjection
      <4>. QED BY <4>3, <4>4
    <3>12. IsFiniteSet(A) /\ Cardinality(A) \in Nat
      BY <2>6, <2>10, ApartIs
    <3>13. Cardinality(apart) = Cardinality(A)
      BY <3>11, <3>12, FS_Surjection
    <3>. QED BY <3>5, <3>9, <3>12, <3>13
  <2>23. ASSUME Bought # {}
         PROVE  Bought \ {best[1]} \subseteq apart
    BY <2>11, <2>18, <2>22, <2>23
  <2>24. ASSUME Bought # {}
         PROVE  Len(out.buys) = Smaller(MaxBuys, 1 + Cardinality(apart))
    BY <2>11, <2>18, <2>22, <2>24
  <2>25. ASSUME Bought # {}, NEW s \in apart \ Bought, NEW t \in Bought \ {best[1]}
         PROVE  data[s].case.quality <= data[t].case.quality
    <3>1. PICK i \in A : s = best[i]
      BY <2>18, <2>22, <2>25
    <3>2. s \notin ToSet(two) /\ t \in ToSet(two)
      BY <2>18, <2>25
    <3>3. PICK j \in 1..n : t = best[j] /\ j < i
      BY <2>11, <3>1, <3>2
    <3>4. i \in 1..n /\ j <= i
      BY <2>6, <2>18, <2>22, <2>25, <3>1, <3>3
    <3>. QED BY <2>19, <3>1, <3>3, <3>4
  <2>26. Bought # {} => out.buys[1] = best[1]
    BY <2>18
  <2>27. ClearedNames \subseteq Names
    BY <2>7, <2>16
  <2>. QED
    <3>1. PICK quality : quality = [s \in Names |-> data[s].case.quality]
      OBVIOUS
    <3>2. \A s \in Names : quality[s] = data[s].case.quality
      BY <3>1
    <3>3. ASSUME Bought # {}
          PROVE  /\ \A s \in ClearedNames : quality[s] <= quality[out.buys[1]]
                 /\ Bought \ {out.buys[1]} \subseteq apart
                 /\ Len(out.buys) = Smaller(MaxBuys, 1 + Cardinality(apart))
                 /\ \A s \in apart \ Bought, t \in Bought \ {out.buys[1]} : quality[s] <= quality[t]
                 /\ apart = {s \in ClearedNames \ {out.buys[1]} :
                               market.residual[{out.buys[1], s}] = "low"}
      <4>1. apart \subseteq Names /\ Bought \subseteq Names
        BY <2>14, <2>21, <2>27
      <4>. QED BY <2>18, <2>20, <2>21, <2>23, <2>24, <2>25, <2>27, <3>2, <3>3, <4>1
    <3>. QED BY <2>14, <2>17, <3>1, <3>3 DEF GateFillsItsSlots, ClearedNames
<1>. QED BY <1>1, Invariant, PTL
-----------------------------------------------------------------------------
(* How the capital is spread *)

\* A round leaves the equal part no smaller: what the names that left hold is less than
\* the part they were offered.
Fair(cap, names, open) ==
  /\ open \in SUBSET names
  /\ Remaining(cap, names, open) \in Nat
  /\ open # {} =>
       /\ Remaining(cap, names, open) > 0
       /\ \A t \in names \ open : cap[t] <= Share(cap, names, open)

Sized(cap, names) == IsFiniteSet(names) /\ \A t \in names : cap[t] \in Nat

LEMMA PartIs ==
  ASSUME NEW cap, NEW names, Sized(cap, names), NEW open \in SUBSET names
  PROVE  /\ IsFiniteSet(open) /\ Cardinality(open) \in Nat
         /\ open # {} => Cardinality(open) \in Nat \ {0}
         /\ Total(cap, open) \in Nat /\ Total(cap, names \ open) \in Nat
         /\ Capital \in Nat \ {0}
         /\ Remaining(cap, names, open) = Capital - Total(cap, names \ open)
<1>1. IsFiniteSet(open) /\ Cardinality(open) \in Nat /\ (Cardinality(open) = 0) = (open = {})
  BY OneLess DEF Sized
<1>2. ASSUME NEW T \in SUBSET names PROVE Total(cap, T) \in Nat
  <2>1. IsFiniteSet(T) /\ \A s \in T : cap[s] \in Nat
    BY FS_Subset DEF Sized
  <2>. QED BY <2>1, SumIs DEF Total
<1>3. names \ open \in SUBSET names
  OBVIOUS
<1>. QED BY <1>1, <1>2, <1>3, SizingAssumption DEF SizingAssumption, Remaining

LEMMA RoundIsFair ==
  ASSUME NEW cap, NEW names, Sized(cap, names), NEW open, Fair(cap, names, open)
  PROVE  /\ AfterRound(cap, names, open) \in SUBSET open
         /\ Fair(cap, names, AfterRound(cap, names, open))
<1>1. CASE open = {} \/ Remaining(cap, names, open) <= 0
  BY <1>1 DEF AfterRound
<1>2. CASE ~(open = {} \/ Remaining(cap, names, open) <= 0)
  <2>1. PICK share : share = Share(cap, names, open)
    OBVIOUS
  <2>2. PICK next : next = {t \in open : cap[t] >= share}
    OBVIOUS
  <2>3. AfterRound(cap, names, open) = next
    BY <1>2, <2>1, <2>2 DEF AfterRound
  <2>4. PICK left : left = open \ next
    OBVIOUS
  <2>5. /\ open \in SUBSET names /\ next \in SUBSET names /\ left \in SUBSET names
        /\ next \in SUBSET open /\ left \in SUBSET open
    BY <2>2, <2>4 DEF Fair
  <2>6. PICK R \in Nat : R = Remaining(cap, names, open)
    BY DEF Fair
  <2>7. PICK k \in Nat \ {0} : k = Cardinality(open)
    BY <1>2, <2>5, PartIs
  <2>8. PICK l \in Nat : l = Cardinality(next)
    BY <2>5, PartIs
  <2>9. PICK m \in Nat : m = Cardinality(left)
    BY <2>5, PartIs
  <2>10. k = l + m
    <3>1. PICK one : one = [t \in open |-> 1]
      OBVIOUS
    <3>2. IsFiniteSet(open) /\ IsFiniteSet(next) /\ IsFiniteSet(left)
      BY <2>5, PartIs
    <3>3. \A t \in open : one[t] = 1 /\ one[t] \in Nat
      BY <3>1
    <3>4. /\ \A t \in next : one[t] = 1
          /\ \A t \in left : one[t] = 1
      BY <2>5, <3>3
    <3>5. SumFunctionOnSet(one, open) = 1 * k
      BY <2>7, <3>2, <3>3, SumOfEqual
    <3>6. SumFunctionOnSet(one, next) = 1 * l
      BY <2>8, <3>2, <3>4, SumOfEqual
    <3>7. SumFunctionOnSet(one, left) = 1 * m
      BY <2>9, <3>2, <3>4, SumOfEqual
    <3>8. SumFunctionOnSet(one, open)
            = SumFunctionOnSet(one, next) + SumFunctionOnSet(one, open \ next)
      BY <2>5, <3>2, <3>3, SumOfParts
    <3>. QED BY <2>4, <3>5, <3>6, <3>7, <3>8
  <2>11. share \in Nat /\ share * k <= R
    BY <2>1, <2>6, <2>7, DivisionIs DEF Share
  <2>12. \A t \in left : cap[t] \in Nat /\ cap[t] < share
    <3>1. \A t \in open : cap[t] \in Nat
      BY <2>5 DEF Sized
    <3>. QED BY <2>2, <2>4, <2>5, <2>11, <3>1
  <2>13. Total(cap, left) <= share * m
    <3>1. PICK even : even = [t \in names |-> share]
      OBVIOUS
    <3>2. IsFiniteSet(left)
      BY <2>5, PartIs
    <3>3. \A t \in left : cap[t] \in Nat /\ even[t] \in Nat /\ cap[t] <= even[t] /\ even[t] = share
      BY <2>5, <2>11, <2>12, <3>1
    <3>4. SumFunctionOnSet(cap, left) <= SumFunctionOnSet(even, left)
      BY <3>2, <3>3, SumsMono
    <3>5. SumFunctionOnSet(even, left) = share * m
      BY <2>9, <2>11, <3>2, <3>3, SumOfEqual
    <3>. QED BY <3>4, <3>5 DEF Total
  <2>14. Total(cap, names \ next) = Total(cap, names \ open) + Total(cap, left)
    <3>1. PICK S : S = names \ next
      OBVIOUS
    <3>2. S \in SUBSET names /\ names \ open \in SUBSET S /\ S \ (names \ open) = left
      BY <2>4, <2>5, <3>1
    <3>3. IsFiniteSet(S) /\ \A s \in S : cap[s] \in Nat
      BY <3>2, FS_Subset DEF Sized
    <3>4. SumFunctionOnSet(cap, S)
            = SumFunctionOnSet(cap, names \ open) + SumFunctionOnSet(cap, S \ (names \ open))
      BY <3>2, <3>3, SumOfParts
    <3>. QED BY <3>1, <3>2, <3>4 DEF Total
  <2>15. PICK outside \in Nat : outside = Total(cap, names \ open)
    BY <2>5, PartIs
  <2>16. PICK gone \in Nat : gone = Total(cap, left)
    BY <2>5, PartIs
  <2>17. PICK R2 : R2 = Remaining(cap, names, next)
    OBVIOUS
  <2>18. R = Capital - outside /\ R2 = Capital - (outside + gone) /\ Capital \in Nat
    <3>1. R = Capital - Total(cap, names \ open) /\ Capital \in Nat
      BY <2>5, <2>6, PartIs
    <3>2. R2 = Capital - Total(cap, names \ next)
      BY <2>5, <2>17, PartIs
    <3>. QED BY <2>14, <2>15, <2>16, <3>1, <3>2
  <2>19. share * k = share * l + share * m /\ share * l \in Nat /\ share * m \in Nat
    BY <2>10, <2>11
  <2>20. R2 \in Nat /\ share * l <= R2
    BY <2>11, <2>13, <2>16, <2>18, <2>19
  <2>21. ASSUME next # {}
         PROVE  /\ R2 > 0
                /\ \A t \in names \ next : cap[t] <= Share(cap, names, next)
    <3>1. l \in Nat \ {0}
      BY <2>5, <2>8, <2>21, PartIs
    <3>2. share <= R2 \div l
      BY <2>11, <2>20, <3>1, QuotientIsMost
    <3>3. Share(cap, names, next) = R2 \div l
      BY <2>8, <2>17 DEF Share
    <3>4. R2 \div l \in Nat
      BY <2>20, <3>1, DivisionIs
    <3>5. ASSUME NEW t \in names \ next PROVE cap[t] <= share /\ cap[t] \in Nat
      <4>1. CASE t \in open
        BY <2>4, <2>11, <2>12, <3>5, <4>1
      <4>2. CASE t \notin open
        BY <1>2, <2>1, <3>5, <4>2 DEF Fair, Sized
      <4>. QED BY <4>1, <4>2
    <3>6. R2 > 0
      <4>1. CASE left = {}
        <5>1. next = open
          BY <2>4, <2>5, <4>1
        <5>2. R2 = R
          BY <2>6, <2>17, <5>1
        <5>. QED BY <1>2, <2>6, <5>2
      <4>2. CASE left # {}
        <5>1. share > 0
          BY <2>11, <2>12, <4>2
        <5>2. share * l > 0
          BY <2>11, <3>1, <5>1
        <5>. QED BY <2>19, <2>20, <5>2
      <4>. QED BY <4>1, <4>2
    <3>7. \A t \in names \ next : cap[t] <= Share(cap, names, next)
      BY <2>11, <3>2, <3>3, <3>4, <3>5
    <3>. QED BY <3>6, <3>7
  <2>22. Fair(cap, names, next)
    BY <2>5, <2>17, <2>20, <2>21 DEF Fair
  <2>. QED BY <2>3, <2>5, <2>22
<1>. QED BY <1>1, <1>2

LEMMA AllOpenIsFair ==
  ASSUME NEW cap, NEW names, Sized(cap, names)
  PROVE  Fair(cap, names, names)
<1>1. names \in SUBSET names /\ names \ names = {} /\ {} \in SUBSET names
  OBVIOUS
<1>2. Total(cap, {}) = 0
  BY SumIs DEF Sized, Total
<1>3. Remaining(cap, names, names) = Capital /\ Capital \in Nat \ {0}
  BY <1>1, <1>2, PartIs
<1>. QED BY <1>1, <1>3 DEF Fair

\* The rounds end where none of the names still open would leave.
Settled(cap, names, open) ==
  /\ Fair(cap, names, open)
  /\ open # {} => \A t \in open : cap[t] >= Share(cap, names, open)

LEMMA RoundsSettle ==
  ASSUME NEW cap, NEW names, Sized(cap, names)
  PROVE  Settled(cap, names, StillOpen(cap, names))
<1>. DEFINE Step(open) == AfterRound(cap, names, open)
            Built(f) == f = [n \in 0..Cardinality(names) |-> IF n = 0 THEN names ELSE Step(f[n - 1])]
<1>1. PICK N \in Nat : N = Cardinality(names)
  BY PartIs DEF Sized
<1>2. PICK V : V = {open \in SUBSET names : Fair(cap, names, open)}
  OBVIOUS
<1>3. \A open \in V : Step(open) \in V /\ Step(open) \in SUBSET open
  <2>1. ASSUME NEW open \in V PROVE Step(open) \in V /\ Step(open) \in SUBSET open
    <3>1. open \in SUBSET names /\ Fair(cap, names, open)
      BY <1>2
    <3>2. Step(open) \in SUBSET open /\ Fair(cap, names, Step(open))
      BY <3>1, RoundIsFair
    <3>. QED BY <1>2, <3>1, <3>2
  <2>. QED BY <2>1
<1>4. names \in V
  BY <1>2, AllOpenIsFair
<1>. HIDE DEF Step
<1>5. PICK g \in [0..N -> V] : g[0] = names /\ \A n \in 1..N : g[n] = Step(g[n - 1])
  <2>1. PICK F : F = [n \in 1..N |-> [open \in V |-> Step(open)]]
    OBVIOUS
  <2>2. F \in [1..N -> [V -> V]]
    BY <1>3, <2>1
  <2>3. PICK g : Chain(g, N, V, names, F)
    BY <1>1, <1>4, <2>2, ChainExists
  <2>4. g \in [0..N -> V] /\ g[0] = names /\ \A n \in 1..N : g[n] = F[n][g[n - 1]]
    BY <2>3 DEF Chain
  <2>5. ASSUME NEW n \in 1..N PROVE g[n] = Step(g[n - 1])
    <3>1. n - 1 \in 0..N /\ g[n - 1] \in V
      BY <1>1, <2>4
    <3>. QED BY <2>1, <2>4, <3>1
  <2>. QED BY <2>4, <2>5
<1>6. ASSUME NEW f, Built(f)
      PROVE  f[0] = names /\ \A n \in 1..N : f[n] = Step(f[n - 1])
  <2>1. 0 \in 0..N /\ \A n \in 1..N : n \in 0..N /\ n # 0
    BY <1>1
  <2>. QED BY <1>1, <1>6, <2>1
<1>7. Built(g)
  <2>1. \A n \in 0..N : n = 0 \/ n \in 1..N
    BY <1>1
  <2>. QED BY <1>1, <1>5, <2>1
<1>8. PICK f : f = (CHOOSE c : Built(c))
  OBVIOUS
<1>9. Built(f)
  BY <1>7, <1>8
<1>10. StillOpen(cap, names) = f[N]
  BY <1>1, <1>8 DEF StillOpen, Step
<1>. HIDE DEF Built
<1>. DEFINE P == {n \in 0..N : /\ f[n] \in V
                               /\ Step(f[n]) = f[n] \/ Cardinality(f[n]) <= N - n}
<1>11. 0 \in P
  <2>1. N <= N - 0 /\ 0 \in 0..N
    BY <1>1
  <2>. QED BY <1>1, <1>4, <1>6, <1>9, <2>1
<1>12. ASSUME NEW n \in 1..N, n - 1 \in P PROVE n \in P
  <2>1. n \in 0..N /\ n - 1 \in 0..N
    BY <1>1
  <2>2. PICK o \in V : o = f[n - 1]
    BY <1>12
  <2>3. f[n] = Step(o)
    BY <1>6, <1>9, <2>2
  <2>4. Step(o) \in V /\ Step(o) \in SUBSET o
    BY <1>3
  <2>5. CASE Step(o) = o
    BY <2>1, <2>2, <2>3, <2>5
  <2>6. CASE Step(o) # o
    <3>1. Cardinality(o) <= N - (n - 1)
      BY <1>12, <2>2, <2>6
    <3>2. PICK x \in o : x \notin Step(o)
      BY <2>4, <2>6
    <3>3. o \in SUBSET names /\ Step(o) \in SUBSET (o \ {x})
      BY <1>2, <2>4, <3>2
    <3>4. /\ IsFiniteSet(o \ {x}) /\ Cardinality(o) \in Nat
          /\ Cardinality(o \ {x}) = Cardinality(o) - 1
      BY <3>2, <3>3, OneLess DEF Sized
    <3>5. Cardinality(Step(o)) <= Cardinality(o \ {x}) /\ Cardinality(Step(o)) \in Nat
      BY <3>3, <3>4, OneLess
    <3>6. Cardinality(Step(o)) <= N - n
      BY <1>1, <3>1, <3>4, <3>5
    <3>. QED BY <2>1, <2>3, <2>4, <3>6
  <2>. QED BY <2>5, <2>6
<1>13. N \in P
  <2>. HIDE DEF P
  <2>1. \A n \in 0..N : n \in P
    BY <1>1, <1>11, <1>12, UpTo
  <2>. QED BY <1>1, <2>1
<1>14. PICK open \in V : open = f[N] /\ (Step(open) = open \/ Cardinality(open) <= N - N)
  BY <1>13
<1>15. open \in SUBSET names /\ Fair(cap, names, open)
  BY <1>2
<1>16. ASSUME open # {}
       PROVE  \A t \in open : cap[t] >= Share(cap, names, open)
  <2>1. Cardinality(open) \in Nat \ {0}
    BY <1>15, <1>16, PartIs
  <2>2. Step(open) = open
    BY <1>1, <1>14, <2>1
  <2>3. ~(Remaining(cap, names, open) <= 0)
    BY <1>15, <1>16 DEF Fair
  <2>. QED BY <1>16, <2>2, <2>3 DEF Step, AfterRound
<1>. QED BY <1>10, <1>14, <1>15, <1>16 DEF Settled

\* What each name is given: no more than its cap, as much as any other unless its cap
\* keeps it below, and all of the capital but the remainder of a division.
Spread(alloc, cap, names) ==
  /\ \A t \in names : alloc[t] \in Nat /\ alloc[t] <= cap[t]
  /\ Total(alloc, names) \in Nat /\ Total(alloc, names) <= Capital
  /\ \A s, t \in names : alloc[s] < cap[s] => alloc[t] <= alloc[s]
  /\ (\E s \in names : alloc[s] < cap[s]) =>
       Capital < Total(alloc, names) + Cardinality(names)

LEMMA AllocationIs ==
  ASSUME NEW cap, NEW names, Sized(cap, names)
  PROVE  Spread(Allocation(cap, names), cap, names)
<1>1. PICK open : open = StillOpen(cap, names)
  OBVIOUS
<1>2. PICK alloc : alloc = Allocation(cap, names)
  OBVIOUS
<1>3. Fair(cap, names, open) /\ (open # {} => \A t \in open : cap[t] >= Share(cap, names, open))
  BY <1>1, RoundsSettle DEF Settled
<1>4. open \in SUBSET names /\ names \ open \in SUBSET names
  BY <1>3 DEF Fair
<1>5. \A t \in names : cap[t] \in Nat
  BY DEF Sized
<1>6. alloc = [t \in names |-> IF t \in open THEN Share(cap, names, open) ELSE cap[t]]
  BY <1>1, <1>2 DEF Allocation
<1>7. PICK R \in Nat : R = Remaining(cap, names, open)
  BY <1>3 DEF Fair
<1>8. PICK capped \in Nat : capped = Total(cap, names \ open) /\ R = Capital - capped
  BY <1>4, <1>7, PartIs
<1>9. Capital \in Nat
  BY SizingAssumption DEF SizingAssumption
<1>10. /\ IsFiniteSet(names) /\ IsFiniteSet(open) /\ IsFiniteSet(names \ open)
       /\ Cardinality(names) \in Nat /\ Cardinality(open) <= Cardinality(names)
  BY <1>4, OneLess DEF Sized
<1>11. CASE open = {}
  <2>1. \A t \in names : alloc[t] = cap[t]
    BY <1>6, <1>11
  <2>2. Total(alloc, names) = capped
    <3>1. SumFunctionOnSet(cap, names) = SumFunctionOnSet(alloc, names)
      BY <1>5, <1>10, <2>1, SumsSame
    <3>2. names \ open = names
      BY <1>11
    <3>. QED BY <1>8, <3>1, <3>2 DEF Total
  <2>3. capped <= Capital
    BY <1>7, <1>8, <1>9
  <2>4. \A t \in names : ~(alloc[t] < cap[t])
    BY <1>5, <2>1
  <2>5. \A t \in names : alloc[t] \in Nat /\ alloc[t] <= cap[t]
    BY <1>5, <2>1
  <2>. QED BY <1>2, <1>8, <2>2, <2>3, <2>4, <2>5 DEF Spread
<1>12. CASE open # {}
  <2>1. PICK share : share = Share(cap, names, open)
    OBVIOUS
  <2>2. PICK k \in Nat \ {0} : k = Cardinality(open)
    BY <1>4, <1>12, PartIs
  <2>3. share \in Nat /\ share * k <= R /\ R < share * k + k /\ share * k \in Nat
    BY <1>7, <2>1, <2>2, DivisionIs DEF Share
  <2>4. /\ \A t \in open : cap[t] >= share
        /\ \A t \in names \ open : cap[t] <= share
    BY <1>3, <1>12, <2>1 DEF Fair
  <2>5. /\ \A t \in open : alloc[t] = share
        /\ \A t \in names \ open : alloc[t] = cap[t]
    BY <1>4, <1>6, <2>1
  <2>6. \A t \in names : alloc[t] \in Nat /\ alloc[t] <= cap[t] /\ alloc[t] <= share
    <3>1. ASSUME NEW t \in names PROVE alloc[t] \in Nat /\ alloc[t] <= cap[t] /\ alloc[t] <= share
      <4>1. CASE t \in open
        BY <1>5, <2>3, <2>4, <2>5, <4>1
      <4>2. CASE t \notin open
        BY <1>5, <2>3, <2>4, <2>5, <4>2
      <4>. QED BY <4>1, <4>2
    <3>. QED BY <3>1
  <2>7. Total(alloc, names) = share * k + capped
    <3>1. SumFunctionOnSet(alloc, open) = share * k
      BY <1>10, <2>2, <2>3, <2>5, SumOfEqual
    <3>2. SumFunctionOnSet(alloc, names \ open) = capped
      <4>1. \A t \in names \ open : cap[t] \in Nat /\ alloc[t] = cap[t]
        BY <1>5, <2>5
      <4>2. SumFunctionOnSet(cap, names \ open) = SumFunctionOnSet(alloc, names \ open)
        BY <1>10, <4>1, SumsSame
      <4>. QED BY <1>8, <4>2 DEF Total
    <3>3. \A t \in names : alloc[t] \in Nat
      BY <2>6
    <3>4. SumFunctionOnSet(alloc, names)
            = SumFunctionOnSet(alloc, open) + SumFunctionOnSet(alloc, names \ open)
      BY <1>4, <1>10, <3>3, SumOfParts
    <3>. QED BY <3>1, <3>2, <3>4 DEF Total
  <2>8. /\ Total(alloc, names) \in Nat /\ Total(alloc, names) <= Capital
        /\ Capital < Total(alloc, names) + Cardinality(names)
    BY <1>7, <1>8, <1>9, <1>10, <2>2, <2>3, <2>7
  <2>9. ASSUME NEW s \in names, NEW t \in names, alloc[s] < cap[s]
        PROVE  alloc[t] <= alloc[s]
    <3>1. s \in open
      BY <1>5, <2>5, <2>9
    <3>. QED BY <2>5, <2>6, <3>1
  <2>. QED BY <1>2, <2>6, <2>8, <2>9 DEF Spread
<1>. QED BY <1>11, <1>12

\* Whole shares of it: what is lost on a name is less than the price of one.
LEMMA PositionsAre ==
  ASSUME NEW cap, NEW px, NEW names, Sized(cap, names), \A t \in names : px[t] \in Nat \ {0}
  PROVE  LET a == Positions(cap, px, names)
         IN  /\ DOMAIN a \in SUBSET names
             /\ Total(a, DOMAIN a) <= Capital
             /\ \A s \in DOMAIN a : a[s] \in Nat /\ a[s] <= cap[s]
             /\ \A s, t \in DOMAIN a : a[s] + px[s] <= a[t] => a[s] + px[s] > cap[s]
             /\ (\E s \in DOMAIN a : a[s] + px[s] <= cap[s]) =>
                  Capital - Total(a, DOMAIN a) < Total(px, names)
<1>1. PICK alloc : alloc = Allocation(cap, names)
  OBVIOUS
<1>2. Spread(alloc, cap, names)
  BY <1>1, AllocationIs
<1>3. PICK bought : bought = {t \in names : alloc[t] \div px[t] > 0}
  OBVIOUS
<1>4. PICK a : a = Positions(cap, px, names)
  OBVIOUS
<1>5. a = [t \in bought |-> (alloc[t] \div px[t]) * px[t]]
  BY <1>1, <1>3, <1>4 DEF Positions
<1>6. DOMAIN a = bought /\ bought \in SUBSET names
  BY <1>3, <1>5
<1>7. PICK spent : spent = [t \in names |-> IF t \in bought THEN a[t] ELSE 0]
  OBVIOUS
<1>8. ASSUME NEW t \in names
      PROVE  /\ alloc[t] \in Nat /\ px[t] \in Nat \ {0} /\ cap[t] \in Nat /\ alloc[t] <= cap[t]
             /\ spent[t] \in Nat /\ spent[t] <= alloc[t] /\ alloc[t] < spent[t] + px[t]
             /\ t \in bought => a[t] = spent[t]
  <2>1. alloc[t] \in Nat /\ px[t] \in Nat \ {0} /\ cap[t] \in Nat /\ alloc[t] <= cap[t]
    BY <1>2 DEF Spread, Sized
  <2>2. PICK q \in Nat : q = alloc[t] \div px[t] /\ q * px[t] <= alloc[t]
                         /\ alloc[t] < q * px[t] + px[t]
    BY <2>1, DivisionIs
  <2>3. q * px[t] \in Nat
    BY <2>1, <2>2
  <2>4. CASE t \in bought
    <3>1. a[t] = q * px[t] /\ spent[t] = a[t]
      BY <1>5, <1>7, <2>2, <2>4
    <3>. QED BY <2>1, <2>2, <2>3, <2>4, <3>1
  <2>5. CASE t \notin bought
    <3>1. q = 0 /\ spent[t] = 0
      BY <1>3, <1>7, <2>2, <2>5
    <3>2. q * px[t] = 0
      BY <2>1, <3>1
    <3>. QED BY <2>1, <2>2, <2>5, <3>1, <3>2
  <2>. QED BY <2>4, <2>5
<1>9. IsFiniteSet(names) /\ IsFiniteSet(bought) /\ Cardinality(names) \in Nat
  BY <1>6, OneLess, FS_CardinalityType DEF Sized
<1>10. Total(a, bought) = Total(spent, names)
  <2>1. \A t \in names : spent[t] \in Nat
    BY <1>8
  <2>2. SumFunctionOnSet(spent, names)
          = SumFunctionOnSet(spent, bought) + SumFunctionOnSet(spent, names \ bought)
    BY <1>6, <1>9, <2>1, SumOfParts
  <2>3. SumFunctionOnSet(a, bought) = SumFunctionOnSet(spent, bought)
    <3>1. \A t \in bought : a[t] \in Nat /\ spent[t] = a[t]
      BY <1>6, <1>8
    <3>. QED BY <1>9, <3>1, SumsSame
  <2>4. SumFunctionOnSet(spent, names \ bought) = 0
    <3>1. IsFiniteSet(names \ bought)
      BY <1>9, FS_Difference
    <3>2. \A t \in names \ bought : spent[t] = 0
      BY <1>7
    <3>3. SumFunctionOnSet(spent, names \ bought) = 0 * Cardinality(names \ bought)
      BY <3>1, <3>2, SumOfEqual
    <3>4. Cardinality(names \ bought) \in Nat
      BY <3>1, FS_CardinalityType
    <3>. QED BY <3>3, <3>4
  <2>5. SumFunctionOnSet(spent, bought) \in Nat
    <3>1. \A t \in bought : spent[t] \in Nat
      BY <1>6, <2>1
    <3>. QED BY <1>9, <3>1, SumIs
  <2>. QED BY <2>2, <2>3, <2>4, <2>5 DEF Total
<1>11. /\ Total(spent, names) \in Nat /\ Total(alloc, names) \in Nat /\ Total(px, names) \in Nat
       /\ Total(spent, names) <= Total(alloc, names)
  <2>1. \A t \in names : /\ spent[t] \in Nat /\ alloc[t] \in Nat /\ px[t] \in Nat
                         /\ spent[t] <= alloc[t]
    BY <1>8
  <2>. QED BY <1>9, <2>1, SumsMono, SumIs DEF Total
<1>12. Total(alloc, names) + Cardinality(names) <= Total(spent, names) + Total(px, names)
  <2>1. PICK one : one = [t \in names |-> 1]
    OBVIOUS
  <2>2. PICK more : more = [t \in names |-> alloc[t] + 1]
    OBVIOUS
  <2>3. PICK most : most = [t \in names |-> spent[t] + px[t]]
    OBVIOUS
  <2>4. \A t \in names : /\ alloc[t] \in Nat /\ one[t] \in Nat /\ more[t] \in Nat
                         /\ one[t] = 1 /\ alloc[t] + one[t] = more[t]
    BY <1>8, <2>1, <2>2
  <2>5. \A t \in names : /\ spent[t] \in Nat /\ px[t] \in Nat /\ most[t] \in Nat
                         /\ spent[t] + px[t] = most[t]
    BY <1>8, <2>3
  <2>6. \A t \in names : more[t] \in Nat /\ most[t] \in Nat /\ more[t] <= most[t]
    BY <1>8, <2>2, <2>3
  <2>7. SumFunctionOnSet(alloc, names) + SumFunctionOnSet(one, names) = SumFunctionOnSet(more, names)
    BY <1>9, <2>4, SumsAdd
  <2>8. SumFunctionOnSet(spent, names) + SumFunctionOnSet(px, names) = SumFunctionOnSet(most, names)
    BY <1>9, <2>5, SumsAdd
  <2>9. SumFunctionOnSet(more, names) <= SumFunctionOnSet(most, names)
    BY <1>9, <2>6, SumsMono
  <2>10. SumFunctionOnSet(one, names) = 1 * Cardinality(names)
    BY <1>9, <2>4, SumOfEqual
  <2>. QED BY <1>9, <2>7, <2>8, <2>9, <2>10 DEF Total
<1>13. Capital \in Nat /\ Total(alloc, names) <= Capital
  BY <1>2, SizingAssumption DEF Spread, SizingAssumption
<1>14. Total(a, DOMAIN a) <= Capital
  BY <1>6, <1>10, <1>11, <1>13
<1>15. \A s \in DOMAIN a : a[s] \in Nat /\ a[s] <= cap[s]
  BY <1>6, <1>8
<1>16. ASSUME NEW s \in DOMAIN a, NEW t \in DOMAIN a, a[s] + px[s] <= a[t]
       PROVE  a[s] + px[s] > cap[s]
  <2>1. s \in names /\ t \in names /\ s \in bought /\ t \in bought
    BY <1>6, <1>16
  <2>2. alloc[s] < a[s] + px[s] /\ a[t] <= alloc[t]
    BY <1>8, <2>1
  <2>3. a[s] \in Nat /\ a[t] \in Nat /\ alloc[s] \in Nat /\ alloc[t] \in Nat /\ px[s] \in Nat
        /\ cap[s] \in Nat /\ alloc[s] <= cap[s]
    BY <1>8, <2>1
  <2>4. ~(alloc[t] <= alloc[s])
    BY <1>16, <2>2, <2>3
  <2>5. ~(alloc[s] < cap[s])
    BY <1>2, <2>1, <2>4 DEF Spread
  <2>. QED BY <2>2, <2>3, <2>5
<1>17. ASSUME NEW s \in DOMAIN a, a[s] + px[s] <= cap[s]
       PROVE  Capital - Total(a, DOMAIN a) < Total(px, names)
  <2>1. s \in names /\ s \in bought
    BY <1>6, <1>17
  <2>2. alloc[s] < cap[s]
    BY <1>8, <1>17, <2>1
  <2>3. Capital < Total(alloc, names) + Cardinality(names)
    BY <1>2, <2>1, <2>2 DEF Spread
  <2>. QED BY <1>6, <1>9, <1>10, <1>11, <1>12, <1>13, <2>3
<1>. QED BY <1>4, <1>6, <1>14, <1>15, <1>16, <1>17

\* The sizes of a run add up to no more than the capital, none is beyond its cap, two
\* differ by a share only when the cap of the smaller is in the way, and while one has
\* room what is left over would not buy a share of each: for any capital, any number of
\* names, any caps and prices.
THEOREM TheCapitalIsSpread == Spec => []CapitalIsSpread
<1>1. ASSUME IInv PROVE CapitalIsSpread
  <2>1. SUFFICES ASSUME stage = "record" PROVE CapitalIsSpread
    BY DEF CapitalIsSpread, Recording
  <2>2. /\ RankedOK /\ DefendedOK /\ scene \in Scenes /\ policy \in Policies
        /\ out = Outcome(Selected)
    BY <1>1, <2>1, AtRecord
  <2>3. PICK known : known = {s \in Bought : entry.plan[s].made
                                             /\ entry.plan[s].liquidity = "KNOWN_VALID"}
    OBVIOUS
  <2>4. PICK cap : cap = [s \in known |-> data[s].cap]
    OBVIOUS
  <2>5. PICK px : px = [s \in known |-> data[s].px]
    OBVIOUS
  <2>6. PICK a : a = out.alloc
    OBVIOUS
  <2>7. a = Positions(cap, px, known)
    BY <2>2, <2>3, <2>4, <2>5, <2>6 DEF Outcome, Bought
  <2>8. Bought \subseteq Names /\ known \in SUBSET Bought /\ IsFiniteSet(Bought)
        /\ IsFiniteSet(known)
    <3>1. out.buys \in Seq(Names)
      BY <2>2, OutcomeIs
    <3>2. Bought \subseteq Names /\ IsFiniteSet(Bought)
      BY <3>1, MembersAreFinite DEF Bought
    <3>. QED BY <2>3, <3>2, FS_Subset
  <2>9. \A s \in Bought : data[s].cap \in Nat /\ data[s].px \in Nat \ {0}
    BY <2>2, <2>8, BookAssumption DEF BookAssumption, data
  <2>10. /\ \A s \in known : /\ cap[s] = data[s].cap /\ cap[s] \in Nat
                             /\ px[s] = data[s].px /\ px[s] \in Nat \ {0}
    BY <2>4, <2>5, <2>8, <2>9
  <2>11. Sized(cap, known)
    BY <2>8, <2>10 DEF Sized
  <2>12. /\ DOMAIN a \in SUBSET known
         /\ Total(a, DOMAIN a) <= Capital
         /\ \A s \in DOMAIN a : a[s] \in Nat /\ a[s] <= cap[s]
         /\ \A s, t \in DOMAIN a : a[s] + px[s] <= a[t] => a[s] + px[s] > cap[s]
         /\ (\E s \in DOMAIN a : a[s] + px[s] <= cap[s]) =>
              Capital - Total(a, DOMAIN a) < Total(px, known)
    BY <2>7, <2>10, <2>11, PositionsAre
  <2>13. PICK price : price = [s \in Bought |-> data[s].px]
    OBVIOUS
  <2>14. Total(px, known) <= Total(price, Bought) /\ Total(px, known) \in Nat
         /\ Total(price, Bought) \in Nat
    <3>1. \A s \in Bought : price[s] \in Nat
      BY <2>9, <2>13
    <3>2. \A s \in known : px[s] \in Nat /\ price[s] = px[s]
      BY <2>8, <2>10, <2>13
    <3>3. SumFunctionOnSet(px, known) = SumFunctionOnSet(price, known)
      BY <2>8, <3>2, SumsSame
    <3>4. SumFunctionOnSet(price, Bought)
            = SumFunctionOnSet(price, known) + SumFunctionOnSet(price, Bought \ known)
      BY <2>8, <3>1, SumOfParts
    <3>5. SumFunctionOnSet(price, known) \in Nat
      BY <2>8, <3>1, SumIs
    <3>6. SumFunctionOnSet(price, Bought \ known) \in Nat
      <4>1. IsFiniteSet(Bought \ known) /\ \A s \in Bought \ known : price[s] \in Nat
        BY <2>8, <3>1, FS_Difference
      <4>. QED BY <4>1, SumIs
    <3>. QED BY <3>3, <3>4, <3>5, <3>6 DEF Total
  <2>15. Capital - Total(a, DOMAIN a) < Total(px, known)
           => Capital - Total(a, DOMAIN a) < Total(price, Bought)
    <3>1. Total(a, DOMAIN a) \in Nat
      <4>1. IsFiniteSet(DOMAIN a) /\ \A s \in DOMAIN a : a[s] \in Nat
        BY <2>8, <2>12, FS_Subset
      <4>. QED BY <4>1, SumIs DEF Total
    <3>. QED BY <2>14, <3>1, SizingAssumption DEF SizingAssumption
  <2>16. \A s \in DOMAIN a : cap[s] = data[s].cap /\ px[s] = data[s].px
    BY <2>10, <2>12
  <2>. QED BY <2>6, <2>12, <2>13, <2>15, <2>16 DEF CapitalIsSpread
<1>. QED BY <1>1, Invariant, PTL
-----------------------------------------------------------------------------
(* The live book and the simulated one *)

\* A name stands in the first places of a list when its place is one of them.
LEMMA PrefixByPlace ==
  ASSUME NEW S, NEW list \in Seq(S), IsInjective(list), NEW n \in Nat
  PROVE  ToSet(Prefix(list, n)) = {s \in ToSet(list) : Place(list, s) <= n}
<1>1. ToSet(Prefix(list, n)) = {list[i] : i \in {j \in DOMAIN list : j <= n}}
  BY PrefixIs
<1>2. \A i \in DOMAIN list : Place(list, list[i]) = i /\ list[i] \in ToSet(list)
  BY PlaceIs DEF ToSet
<1>3. \A s \in ToSet(list) : Place(list, s) \in DOMAIN list /\ list[Place(list, s)] = s
  <2>1. DOMAIN list = 1..Len(list)
    OBVIOUS
  <2>. QED BY <2>1, PlaceIs
<1>. QED BY <1>1, <1>2, <1>3

\* The first of a set on a list, as many as there is room for.
FirstOf(G, W, room, list) ==
  /\ G \in SUBSET W /\ IsFiniteSet(G) /\ Cardinality(G) \in Nat /\ Cardinality(G) <= room
  /\ \A s \in W \ G : Cardinality(G) = room /\ \A t \in G : Place(list, t) < Place(list, s)

LEMMA PrefixIsFirst ==
  ASSUME NEW S, NEW list \in Seq(S), IsInjective(list), NEW A, NEW room \in Nat
  PROVE  FirstOf(ToSet(Prefix(Among(list, A), room)), ToSet(list) \cap A, room, list)
<1>. DEFINE W == ToSet(list) \cap A
<1>1. PICK q : q = Among(list, A)
  OBVIOUS
<1>2. q \in Seq(S) /\ IsInjective(q) /\ ToSet(q) = W /\ Follows(q, list)
  BY <1>1, AmongIs
<1>. HIDE DEF W
<1>3. PICK p : p = Prefix(q, room)
  OBVIOUS
<1>4. PICK n \in Nat : n = Len(q)
  BY <1>2
<1>5. DOMAIN q = 1..n
  BY <1>2, <1>4
<1>6. /\ p \in Seq(S) /\ IsInjective(p) /\ Len(p) = (IF room < n THEN room ELSE n)
      /\ ToSet(p) = {q[i] : i \in {j \in DOMAIN q : j <= room}}
  <2>1. /\ Prefix(q, room) \in Seq(S) /\ IsInjective(Prefix(q, room))
        /\ Len(Prefix(q, room)) = IF room < Len(q) THEN room ELSE Len(q)
        /\ ToSet(Prefix(q, room)) = {q[i] : i \in {j \in DOMAIN q : j <= room}}
    BY <1>2, PrefixIs
  <2>. QED BY <1>3, <1>4, <2>1
<1>7. PICK G : G = ToSet(p)
  OBVIOUS
<1>8. IsFiniteSet(G) /\ Cardinality(G) = Len(p) /\ Len(p) \in Nat
  BY <1>6, <1>7, LengthOfList
<1>9. G \in SUBSET W
  BY <1>2, <1>6, <1>7 DEF ToSet
<1>10. Cardinality(G) \in Nat /\ Cardinality(G) <= room
  BY <1>6, <1>8
<1>11. ASSUME NEW s \in W \ G
       PROVE  Cardinality(G) = room /\ \A t \in G : Place(list, t) < Place(list, s)
  <2>1. PICK i \in 1..n : q[i] = s
    BY <1>2, <1>5, <1>11 DEF ToSet
  <2>2. ~(i <= room)
    BY <1>5, <1>6, <1>7, <1>11, <2>1
  <2>3. Cardinality(G) = room
    BY <1>6, <1>8, <2>2
  <2>4. ASSUME NEW t \in G PROVE Place(list, t) < Place(list, s)
    <3>1. PICK j \in 1..n : j <= room /\ q[j] = t
      BY <1>5, <1>6, <1>7
    <3>2. j < i
      BY <2>2, <3>1
    <3>. QED BY <1>2, <1>5, <2>1, <3>1, <3>2 DEF Follows
  <2>. QED BY <2>3, <2>4
<1>12. FirstOf(G, W, room, list)
  BY <1>8, <1>9, <1>10, <1>11 DEF FirstOf
<1>. QED BY <1>1, <1>3, <1>7, <1>12 DEF W

\* No limit but the size of the book stands in the way of the first names triggered.
Unhindered(kept, G, decision, sector, correlation, limits) ==
  \A s \in G : \A buys \in Seq(Names) :
    ToSet(buys) \subseteq (ToSet(kept.buys) \cup G) \ {s} =>
      /\ ~(InSector(sector, s, buys) >= limits.maxPerSector)
      /\ ~TooCorrelated(s, buys, correlation)

\* The open book of a run that nothing blocks, when only the room limits it.
WayIsFree(kept, others, room, W, G, decision, sector, correlation, limits) ==
  /\ kept \in Books(Names) /\ others \in Seq(Names) /\ IsInjective(others)
  /\ ToSet(kept.buys) \cap ToSet(others) = {}
  /\ limits.maxSignals \in Nat /\ Len(kept.buys) <= limits.maxSignals
  /\ room \in Nat /\ room = limits.maxSignals - Len(kept.buys)
  /\ W = {s \in ToSet(others) : decision[s].status = "TRIGGERED"}
  /\ FirstOf(G, W, room, others)
  /\ Unhindered(kept, G, decision, sector, correlation, limits)

Unblocked(kept, others, decision, sector, correlation, limits) ==
  Open(kept, others, decision, FALSE, sector, correlation, limits)

\* Then the first triggered are the ones that enter.
LEMMA OpenTakesFirst ==
  ASSUME NEW kept, NEW others, NEW room, NEW W, NEW G, NEW decision, NEW sector,
         NEW correlation, NEW limits,
         WayIsFree(kept, others, room, W, G, decision, sector, correlation, limits)
  PROVE  ToSet(Unblocked(kept, others, decision, sector, correlation, limits).buys)
           = ToSet(kept.buys) \cup G
<1>. USE DEF WayIsFree
<1>1. PICK N \in Nat : N = Len(others)
  OBVIOUS
<1>2. DOMAIN others = 1..N /\ \A n \in 1..N : others[n] \in Names /\ others[n] \in ToSet(others)
  BY <1>1 DEF ToSet
<1>3. PICK book \in [0..N -> Books(Names)] :
           /\ book[0] = kept
           /\ \A n \in 1..N :
                book[n] = Offered(book[n - 1], others[n], decision, FALSE, sector, correlation,
                                  limits)
           /\ Open(kept, others, decision, FALSE, sector, correlation, limits) = book[N]
  <2>1. \E book : Grows(book, N, Names, kept, others, decision, FALSE, sector, correlation, limits)
    BY <1>1, OpenIs
  <2>. QED BY <2>1 DEF Grows
<1>4. PICK k \in Nat : k = Len(kept.buys)
  BY DEF Books
<1>5. room = limits.maxSignals - k
  BY <1>4
<1>6. /\ G \in SUBSET W /\ IsFiniteSet(G) /\ Cardinality(G) \in Nat /\ Cardinality(G) <= room
      /\ \A s \in W \ G : Cardinality(G) = room /\ \A t \in G : Place(others, t) < Place(others, s)
  BY <1>4, <1>5 DEF FirstOf
<1>7. PICK B : B = ToSet(kept.buys)
  OBVIOUS
<1>8. PICK heard : heard = [n \in 0..N |-> G \cap {others[i] : i \in 1..n}]
  OBVIOUS
<1>9. \A n \in 0..N : heard[n] \in SUBSET G /\ IsFiniteSet(heard[n]) /\ Cardinality(heard[n]) \in Nat
  <2>1. \A n \in 0..N : heard[n] \in SUBSET G
    BY <1>8
  <2>. QED BY <1>6, <2>1, FS_Subset, FS_CardinalityType
<1>10. heard[0] = {} /\ heard[N] = G
  <2>1. heard[0] = {}
    BY <1>1, <1>8
  <2>2. \A s \in G : \E i \in 1..N : others[i] = s
    BY <1>2, <1>6 DEF ToSet
  <2>3. heard[N] = G
    BY <1>1, <1>8, <2>2
  <2>. QED BY <2>1, <2>3
<1>11. ASSUME NEW n \in 1..N
       PROVE  /\ n \in 0..N /\ n - 1 \in 0..N
              /\ others[n] \notin heard[n - 1]
              /\ others[n] \in G => heard[n] = heard[n - 1] \cup {others[n]}
              /\ others[n] \notin G => heard[n] = heard[n - 1]
  <2>1. n \in 0..N /\ n - 1 \in 0..N
    BY <1>1
  <2>2. {others[i] : i \in 1..n} = {others[i] : i \in 1..(n - 1)} \cup {others[n]}
    <3>1. \A i \in 1..n : i = n \/ i \in 1..(n - 1)
      BY <2>1
    <3>2. n \in 1..n /\ \A i \in 1..(n - 1) : i \in 1..n
      BY <2>1
    <3>. QED BY <3>1, <3>2
  <2>3. \A i \in 1..(n - 1) : i \in 1..N /\ i # n
    BY <1>1
  <2>4. others[n] \notin {others[i] : i \in 1..(n - 1)}
    BY <1>2, <2>3 DEF IsInjective
  <2>5. /\ heard[n] = G \cap {others[i] : i \in 1..n}
        /\ heard[n - 1] = G \cap {others[i] : i \in 1..(n - 1)}
    BY <1>8, <2>1
  <2>. QED BY <2>1, <2>2, <2>4, <2>5
<1>12. \A n \in 1..N : Place(others, others[n]) = n
  BY <1>2, PlaceIs
<1>. DEFINE P == {n \in 0..N : /\ ToSet(book[n].buys) = B \cup heard[n]
                               /\ Len(book[n].buys) = k + Cardinality(heard[n])}
<1>13. 0 \in P
  <2>1. 0 \in 0..N
    BY <1>1
  <2>2. Cardinality(heard[0]) = 0
    BY <1>10, FS_EmptySet
  <2>3. ToSet(book[0].buys) = B \cup heard[0]
    BY <1>3, <1>7, <1>10
  <2>4. Len(book[0].buys) = k
    BY <1>3, <1>4
  <2>5. Len(book[0].buys) = k + Cardinality(heard[0])
    BY <1>4, <2>2, <2>4
  <2>. QED BY <2>1, <2>3, <2>5
<1>14. ASSUME NEW n \in 1..N, n - 1 \in P PROVE n \in P
  <2>1. n \in 0..N /\ n - 1 \in 0..N
    BY <1>11
  <2>2. PICK s \in Names : s = others[n] /\ s \in ToSet(others)
    BY <1>2
  <2>3. PICK before \in Books(Names) : before = book[n - 1]
    BY <1>3, <2>1
  <2>4. PICK buys \in Seq(Names) : buys = before.buys
    BY DEF Books
  <2>5. PICK had : had = heard[n - 1]
    OBVIOUS
  <2>6. ToSet(buys) = B \cup had /\ Len(buys) = k + Cardinality(had)
    BY <1>14, <2>3, <2>4, <2>5
  <2>7. had \in SUBSET G /\ IsFiniteSet(had) /\ Cardinality(had) \in Nat /\ s \notin had
    BY <1>9, <1>11, <2>1, <2>2, <2>5
  <2>8. book[n] = Offered(before, s, decision, FALSE, sector, correlation, limits)
    BY <1>3, <2>2, <2>3
  <2>9. CASE s \in G
    <3>1. decision[s].status = "TRIGGERED"
      BY <1>6, <2>9
    <3>2. s \notin B
      BY <1>7, <2>2
    <3>3. ToSet(buys) \subseteq (ToSet(kept.buys) \cup G) \ {s}
      BY <1>7, <2>6, <2>7, <3>2
    <3>4. /\ ~(InSector(sector, s, buys) >= limits.maxPerSector)
          /\ ~TooCorrelated(s, buys, correlation)
      BY <2>9, <3>3 DEF Unhindered
    <3>5. PICK now : now = had \cup {s}
      OBVIOUS
    <3>6. Cardinality(now) = Cardinality(had) + 1 /\ Cardinality(now) <= Cardinality(G)
      <4>1. now \in SUBSET G
        BY <2>7, <2>9, <3>5
      <4>. QED BY <1>6, <2>7, <3>5, <4>1, FS_AddElement, OneLess
    <3>7. ~(Len(buys) >= limits.maxSignals)
      BY <1>4, <1>5, <1>6, <2>6, <2>7, <3>6
    <3>8. ~Refused(s, decision[s].status, buys, FALSE, sector, correlation, limits)
      BY <3>1, <3>4, <3>7 DEF Refused
    <3>9. PICK more : more = Append(buys, s)
      OBVIOUS
    <3>10. book[n].buys = more
      BY <2>4, <2>8, <3>8, <3>9 DEF Offered
    <3>11. ToSet(more) = ToSet(buys) \cup {s} /\ Len(more) = Len(buys) + 1
      BY <3>9, AppendIs
    <3>12. heard[n] = now
      BY <1>11, <2>2, <2>5, <2>9, <3>5
    <3>13. ToSet(more) = B \cup now
      BY <2>6, <3>5, <3>11
    <3>14. Len(more) = k + Cardinality(now)
      BY <2>6, <2>7, <3>6, <3>11
    <3>. QED BY <2>1, <3>10, <3>12, <3>13, <3>14
  <2>10. CASE s \notin G
    <3>1. Refused(s, decision[s].status, buys, FALSE, sector, correlation, limits)
      <4>1. CASE s \notin W
        BY <2>2, <4>1 DEF Refused
      <4>2. CASE s \in W
        <5>1. Cardinality(G) = room /\ \A t \in G : Place(others, t) < Place(others, s)
          BY <1>6, <2>10, <4>2
        <5>2. ASSUME NEW t \in G PROVE t \in had
          <6>1. PICK i \in 1..N : others[i] = t
            BY <1>2, <1>6 DEF ToSet
          <6>2. i < n
            BY <1>12, <2>2, <5>1, <6>1
          <6>3. i \in 1..(n - 1)
            BY <2>1, <6>2
          <6>4. t \in {others[j] : j \in 1..(n - 1)}
            BY <6>1, <6>3
          <6>. QED BY <1>8, <2>1, <2>5, <6>4
        <5>3. had = G
          BY <2>7, <5>2
        <5>4. Cardinality(had) = room
          BY <5>1, <5>3
        <5>5. Len(buys) >= limits.maxSignals
          BY <1>4, <1>5, <2>6, <5>4
        <5>. QED BY <5>5 DEF Refused
      <4>. QED BY <4>1, <4>2
    <3>2. book[n].buys = buys
      BY <2>4, <2>8, <3>1 DEF Offered
    <3>3. heard[n] = had
      BY <1>11, <2>2, <2>5, <2>10
    <3>. QED BY <2>1, <2>6, <3>2, <3>3
  <2>. QED BY <2>9, <2>10
<1>15. N \in P
  <2>. HIDE DEF P
  <2>1. \A n \in 0..N : n \in P
    BY <1>1, <1>13, <1>14, UpTo
  <2>. QED BY <1>1, <2>1
<1>. QED BY <1>3, <1>7, <1>10, <1>15 DEF Unblocked

\* Stage 3 has asked a name not held whether it lies below its level.
LEMMA EligibleInDomain ==
  ASSUME NEW d, NEW c, NEW p, Rejection(d, c, FALSE, p) = "eligible"
  PROVE  ~(p.aboveInvalidation /\ OutsideModelDomain(d))
<1>1. SUFFICES ASSUME p.aboveInvalidation, OutsideModelDomain(d) PROVE FALSE
  OBVIOUS
<1>2. PICK gates : gates = Gates(d, c, FALSE, p)
  OBVIOUS
<1>3. (~FALSE /\ p.aboveInvalidation /\ OutsideModelDomain(d)) = TRUE
  BY <1>1
<1>4. Len(gates) = 11 /\ gates[6] = <<"outside_model_domain", TRUE>>
  BY <1>2, <1>3 DEF Gates
<1>5. \A i \in 1..11 : gates[i][1] # "eligible"
  BY <1>2 DEF Gates
<1>6. gates[6][2]
  BY <1>4
<1>7. PICK I : I = {i \in 1..Len(gates) : gates[i][2]}
  OBVIOUS
<1>8. 6 \in I /\ I \subseteq 1..11 /\ I \subseteq Nat
  <2>1. 6 \in 1..Len(gates) /\ 1..Len(gates) = 1..11 /\ 1..11 \subseteq Nat
    BY <1>4
  <2>2. I \subseteq 1..Len(gates)
    BY <1>7
  <2>. QED BY <1>6, <1>7, <2>1, <2>2
<1>9. I # {} /\ Min(I) \in 1..11
  BY <1>8, MinIsLeast
<1>10. PICK m \in 1..11 : m = Min(I)
  BY <1>9
<1>11. m # 0
  OBVIOUS
<1>12. Rejection(d, c, FALSE, p) = gates[m][1]
  BY <1>2, <1>7, <1>9, <1>10, <1>11 DEF Rejection, SelectInSeq
<1>. QED BY <1>5, <1>12

\* A name is triggered only inside its band; on an open day it is, when it has the bars
\* to be priced and stands above the level.
LEMMA TriggeredAdmits ==
  ASSUME NEW d, NEW rank, NEW h, NEW open, NEW p,
         Decision(d, rank, h, open, p).status = "TRIGGERED"
  PROVE  Admit(rank, h)
<1>1. PICK e : e = Evaluate(d, rank, h, p)
  OBVIOUS
<1>2. e.status = "TRIGGERED" => Admit(rank, h)
  BY <1>1 DEF Evaluate
<1>3. ~(d.bars \in {"few", "some"})
  BY DEF Decision
<1>4. CASE ~open /\ ~h /\ e.status = "TRIGGERED"
  <2>1. Decision(d, rank, h, open, p) = [e EXCEPT !.status = "WATCHLIST"]
    BY <1>1, <1>3, <1>4 DEF Decision
  <2>2. [e EXCEPT !.status = "WATCHLIST"].status = "WATCHLIST"
    BY <1>1 DEF Evaluate
  <2>. QED BY <2>1, <2>2
<1>5. CASE ~(~open /\ ~h /\ e.status = "TRIGGERED")
  <2>1. Decision(d, rank, h, open, p) = e
    BY <1>1, <1>3, <1>5 DEF Decision
  <2>. QED BY <1>2, <2>1
<1>. QED BY <1>4, <1>5

LEMMA AdmittedTriggers ==
  ASSUME NEW d, NEW rank, NEW h, NEW open, NEW p, d.bars = "enough", open, Admit(rank, h),
         h \/ ~(p.aboveInvalidation /\ OutsideModelDomain(d))
  PROVE  Decision(d, rank, h, open, p).status = "TRIGGERED"
<1>1. Evaluate(d, rank, h, p) = [status |-> "TRIGGERED", priced |-> TRUE]
  BY DEF Evaluate, BelowInvalidation, OutsideModelDomain
<1>. QED BY <1>1 DEF Decision

\* The names of the exit band, and when no gate but the rank speaks.
Band == {s \in ToSet(ranked) : RankOfName(s) <= ExitRank}

OnlyRankSpeaks ==
  /\ Band \subseteq ToSet(Qualifying)
  /\ \A s, t \in Band : RankOfName(s) < RankOfName(t) => defence.score[s] >= defence.score[t]
  /\ ~Closed /\ EntriesOpen
  /\ \A s \in Band : data[s].bars = "enough"
  /\ \A s, t \in SimulatedBook(held, ranked, policy.maxSignals) :
       s # t => ~SameSector(Sector, s, t)
  /\ \A s, t \in SimulatedBook(held, ranked, policy.maxSignals) :
       s # t => market.correlation[{s, t}] # "high"
  /\ policy.maxPerSector > 0
  /\ Cardinality(held \cap Band) <= policy.maxSignals

LEMMA BandIs ==
  ASSUME RankedOK
  PROVE  /\ ToSet(SubSeq(ranked, 1, Smaller(ExitRank, Len(ranked)))) = Band
         /\ Kept(held, ranked) = held \cap Band
<1>1. ExitRank \in Nat
  BY BandAssumption DEF BandAssumption
<1>2. ToSet(Prefix(ranked, ExitRank)) = Band
  BY <1>1, PrefixByPlace DEF RankedOK, Band, RankOfName, RankOf
<1>3. SubSeq(ranked, 1, Smaller(ExitRank, Len(ranked))) = Prefix(ranked, ExitRank)
  BY DEF Smaller, Prefix
<1>. QED BY <1>2, <1>3 DEF Kept

\* Then the band alone says who is triggered.
LEMMA BandTriggers ==
  ASSUME IInv, stage = "record", OnlyRankSpeaks
  PROVE  /\ \A s \in ToSet(Qualifying) : entry.decision[s].status = "TRIGGERED" =>
              s \in Band /\ (s \notin held => RankOfName(s) <= EntryRank)
         /\ \A s \in Band : s \in held \/ RankOfName(s) <= EntryRank =>
              entry.decision[s].status = "TRIGGERED"
<1>1. /\ RankedOK /\ DefendedOK /\ scene \in Scenes /\ policy \in Policies
      /\ entry = Entries /\ reason = Reasons
  BY AtRecord
<1>2. /\ EntryRank \in Nat /\ ExitRank \in Nat /\ EntryRank <= ExitRank
  BY BandAssumption DEF BandAssumption
<1>3. ASSUME NEW s \in ToSet(Qualifying)
      PROVE  /\ s \in ToSet(ranked) /\ s \in Defended /\ s \in Eligible
             /\ RankOfName(s) \in Nat /\ RankOfName(s) # 0
             /\ entry.decision[s] = Decision(data[s], RankOfName(s), s \in held, EntriesOpen, policy)
  <2>1. s \in Defended
    BY <1>1, QualifyingIs DEF Survivors
  <2>2. s \in ToSet(ranked)
    BY <1>1, <2>1 DEF DefendedOK
  <2>3. s \in Eligible
    BY <1>1, <2>2, MembersAreFinite DEF RankedOK
  <2>4. RankOfName(s) \in 1..Len(ranked) /\ Len(ranked) \in Nat
    BY <1>1, <2>2, PlaceIs DEF RankedOK, RankOfName, RankOf
  <2>5. entry.decision[s] = Decision(data[s], RankOfName(s), s \in held, EntriesOpen, policy)
    BY <1>1, <2>1 DEF Entries
  <2>. QED BY <2>1, <2>2, <2>3, <2>4, <2>5
<1>4. ASSUME NEW s \in ToSet(Qualifying), entry.decision[s].status = "TRIGGERED"
      PROVE  s \in Band /\ (s \notin held => RankOfName(s) <= EntryRank)
  <2>1. Admit(RankOfName(s), s \in held)
    <3>1. PICK d : d = data[s]
      OBVIOUS
    <3>2. PICK rank : rank = RankOfName(s)
      OBVIOUS
    <3>3. PICK h : h = (s \in held)
      OBVIOUS
    <3>4. PICK open : open = EntriesOpen
      OBVIOUS
    <3>5. PICK p : p = policy
      OBVIOUS
    <3>6. Decision(d, rank, h, open, p).status = "TRIGGERED"
      BY <1>3, <1>4, <3>1, <3>2, <3>3, <3>4, <3>5
    <3>7. Admit(rank, h)
      BY <3>6, TriggeredAdmits
    <3>. QED BY <3>2, <3>3, <3>7
  <2>2. RankOfName(s) <= (IF s \in held THEN ExitRank ELSE EntryRank)
    BY <2>1 DEF Admit
  <2>. QED BY <1>2, <1>3, <2>2 DEF Band
<1>5. ASSUME NEW s \in Band, s \in held \/ RankOfName(s) <= EntryRank
      PROVE  entry.decision[s].status = "TRIGGERED"
  <2>1. s \in ToSet(Qualifying) /\ data[s].bars = "enough" /\ EntriesOpen
    BY DEF OnlyRankSpeaks
  <2>2. RankOfName(s) # 0 /\ RankOfName(s) <= ExitRank
    BY <1>3, <2>1 DEF Band
  <2>3. Admit(RankOfName(s), s \in held)
    BY <1>5, <2>2 DEF Admit
  <2>4. s \in held \/ ~(policy.aboveInvalidation /\ OutsideModelDomain(data[s]))
    <3>1. SUFFICES ASSUME s \notin held
                   PROVE  ~(policy.aboveInvalidation /\ OutsideModelDomain(data[s]))
      OBVIOUS
    <3>2. (s \in held) = FALSE
      BY <3>1
    <3>3. Rejection(data[s], s \in clean, s \in held, policy) = "eligible"
      BY <1>1, <1>3, <2>1 DEF Eligible, Reasons
    <3>4. Rejection(data[s], s \in clean, FALSE, policy) = "eligible"
      BY <3>2, <3>3
    <3>5. PICK d : d = data[s]
      OBVIOUS
    <3>6. PICK c : c = (s \in clean)
      OBVIOUS
    <3>7. PICK p : p = policy
      OBVIOUS
    <3>8. Rejection(d, c, FALSE, p) = "eligible"
      BY <3>4, <3>5, <3>6, <3>7
    <3>9. ~(p.aboveInvalidation /\ OutsideModelDomain(d))
      BY <3>8, EligibleInDomain
    <3>. QED BY <3>5, <3>7, <3>9
  <2>5. PICK d : d = data[s]
    OBVIOUS
  <2>6. PICK rank : rank = RankOfName(s)
    OBVIOUS
  <2>7. PICK h : h = (s \in held)
    OBVIOUS
  <2>8. PICK open : open = EntriesOpen
    OBVIOUS
  <2>9. PICK p : p = policy
    OBVIOUS
  <2>10. Admit(rank, h)
    BY <2>3, <2>6, <2>7
  <2>11. h \/ ~(p.aboveInvalidation /\ OutsideModelDomain(d))
    BY <2>4, <2>5, <2>7, <2>9
  <2>12. d.bars = "enough" /\ open
    BY <2>1, <2>5, <2>8
  <2>13. Decision(d, rank, h, open, p).status = "TRIGGERED"
    BY <2>10, <2>11, <2>12, AdmittedTriggers
  <2>. QED BY <1>3, <2>1, <2>5, <2>6, <2>7, <2>8, <2>9, <2>13
<1>. QED BY <1>4, <1>5

\* Those of the entry band that are not kept, in the order of their ranks.
Entrants == {s \in ToSet(ranked) : RankOfName(s) <= EntryRank} \ (held \cap Band)

LEMMA AddedIsFirst ==
  ASSUME RankedOK, policy \in Policies, OnlyRankSpeaks, NEW room \in Nat,
         room = policy.maxSignals - Cardinality(held \cap Band)
  PROVE  FirstOf(Added(held, ranked, policy.maxSignals), Entrants, room, ranked)
<1>1. ranked \in Seq(Eligible) /\ IsInjective(ranked) /\ EntryRank \in Nat
  BY BandAssumption DEF RankedOK, BandAssumption
<1>2. PICK pre : pre = Prefix(ranked, EntryRank)
  OBVIOUS
<1>3. /\ pre \in Seq(Eligible) /\ IsInjective(pre)
      /\ \A i \in 1..Len(pre) : i \in DOMAIN ranked /\ pre[i] = ranked[i]
      /\ ToSet(pre) = {s \in ToSet(ranked) : RankOfName(s) <= EntryRank}
  <2>1. /\ pre \in Seq(Eligible) /\ IsInjective(pre)
        /\ \A i \in 1..Len(pre) : i \in DOMAIN ranked /\ pre[i] = ranked[i]
    BY <1>1, <1>2, PrefixIs
  <2>2. ToSet(pre) = {s \in ToSet(ranked) : Place(ranked, s) <= EntryRank}
    BY <1>1, <1>2, PrefixByPlace
  <2>. QED BY <2>1, <2>2 DEF RankOfName, RankOf
<1>4. PICK A : A = ToSet(ranked) \ Kept(held, ranked)
  OBVIOUS
<1>5. ToSet(pre) \cap A = Entrants
  BY <1>3, <1>4, BandIs DEF Entrants
<1>6. PICK G : G = ToSet(Prefix(Among(pre, A), room))
  OBVIOUS
<1>7. FirstOf(G, Entrants, room, pre)
  BY <1>3, <1>5, <1>6, PrefixIsFirst
<1>8. Added(held, ranked, policy.maxSignals) = G
  <2>1. policy.maxSignals - Cardinality(Kept(held, ranked)) = room
    BY BandIs
  <2>2. (IF room > 0 THEN room ELSE 0) = room
    OBVIOUS
  <2>. QED BY <1>2, <1>4, <1>6, <2>1, <2>2 DEF Added
<1>9. ASSUME NEW s \in ToSet(pre)
      PROVE  Place(pre, s) = Place(ranked, s)
  <2>1. PICK i \in 1..Len(pre) : i = Place(pre, s) /\ pre[i] = s
    BY <1>3, PlaceIs
  <2>2. i \in DOMAIN ranked /\ ranked[i] = s
    BY <1>3, <2>1
  <2>3. Place(ranked, ranked[i]) = i
    BY <1>1, <2>2, PlaceIs
  <2>. QED BY <2>1, <2>2, <2>3
<1>10. Entrants \subseteq ToSet(pre)
  BY <1>5
<1>11. \A s, t \in Entrants :
          Place(pre, t) < Place(pre, s) => Place(ranked, t) < Place(ranked, s)
  BY <1>9, <1>10
<1>12. FirstOf(G, Entrants, room, ranked)
  BY <1>7, <1>11 DEF FirstOf
<1>. QED BY <1>8, <1>12

\* Who stays and who may enter are the same for both.
LEMMA SameNames ==
  ASSUME IInv, stage = "record", OnlyRankSpeaks
  PROVE  LET others == Among(Qualifying, ToSet(Qualifying)
                                           \ KeptOf(Qualifying, entry.decision, held))
         IN  /\ KeptOf(Qualifying, entry.decision, held) = held \cap Band
             /\ others \in Seq(Names) /\ IsInjective(others) /\ Follows(others, Qualifying)
             /\ ToSet(others) = ToSet(Qualifying) \ (held \cap Band)
             /\ {s \in ToSet(others) : entry.decision[s].status = "TRIGGERED"} = Entrants
<1>1. RankedOK /\ DefendedOK
  BY AtRecord
<1>2. PICK list : list = Qualifying
  OBVIOUS
<1>3. PICK decision : decision = entry.decision
  OBVIOUS
<1>4. list \in Seq(Names) /\ IsInjective(list) /\ ToSet(list) \subseteq ToSet(ranked)
  <2>1. list \in Seq(Names) /\ IsInjective(list) /\ ToSet(list) \subseteq Survivors
    BY <1>1, <1>2, QualifyingIs
  <2>. QED BY <1>1, <2>1 DEF Survivors, DefendedOK
<1>5. /\ \A s \in ToSet(list) : decision[s].status = "TRIGGERED" =>
           s \in Band /\ (s \notin held => RankOfName(s) <= EntryRank)
      /\ \A s \in Band : s \in held \/ RankOfName(s) <= EntryRank =>
           decision[s].status = "TRIGGERED"
  BY <1>2, <1>3, BandTriggers
<1>6. Band \subseteq ToSet(list)
  BY <1>2 DEF OnlyRankSpeaks
<1>7. KeptOf(list, decision, held) = held \cap Band
  BY <1>5, <1>6 DEF KeptOf
<1>8. PICK others : others = Among(list, ToSet(list) \ (held \cap Band))
  OBVIOUS
<1>9. /\ others \in Seq(Names) /\ IsInjective(others) /\ Follows(others, list)
      /\ ToSet(others) = ToSet(list) \cap (ToSet(list) \ (held \cap Band))
  BY <1>4, <1>8, AmongIs
<1>10. ToSet(others) = ToSet(list) \ (held \cap Band)
  BY <1>9
<1>11. {s \in ToSet(others) : decision[s].status = "TRIGGERED"} \subseteq Entrants
  BY <1>4, <1>5, <1>10 DEF Entrants
<1>12. ASSUME NEW s \in Entrants
       PROVE  s \in ToSet(others) /\ decision[s].status = "TRIGGERED"
  <2>1. s \in ToSet(ranked) /\ RankOfName(s) <= EntryRank /\ s \notin held \cap Band
    BY DEF Entrants
  <2>2. RankOfName(s) \in Nat
    BY <1>1, <2>1, PlaceIs DEF RankedOK, RankOfName, RankOf
  <2>3. EntryRank \in Nat /\ ExitRank \in Nat /\ EntryRank <= ExitRank
    BY BandAssumption DEF BandAssumption
  <2>4. s \in Band
    BY <2>1, <2>2, <2>3 DEF Band
  <2>. QED BY <1>5, <1>6, <1>10, <2>1, <2>4
<1>13. {s \in ToSet(others) : decision[s].status = "TRIGGERED"} = Entrants
  BY <1>11, <1>12
<1>. QED BY <1>2, <1>3, <1>7, <1>8, <1>9, <1>10, <1>13

\* The order the others are heard in is that of their ranks, as far as the band goes.
LEMMA HeardByRank ==
  ASSUME IInv, stage = "record", OnlyRankSpeaks,
         NEW others \in Seq(Names), IsInjective(others), Follows(others, Qualifying),
         NEW s \in ToSet(others), NEW t \in ToSet(others), s \in Band, t \in Band,
         Place(ranked, t) < Place(ranked, s)
  PROVE  Place(others, t) < Place(others, s)
<1>1. RankedOK /\ DefendedOK
  BY AtRecord
<1>2. PICK list : list = Qualifying
  OBVIOUS
<1>3. /\ list \in Seq(Names) /\ IsInjective(list)
      /\ \A k, l \in DOMAIN list : k < l => Better(defence.score, ranked, list[k], list[l])
      /\ ToSet(list) \subseteq Defended
  BY <1>1, <1>2, QualifyingIs DEF Survivors
<1>4. defence.score[t] >= defence.score[s]
  BY DEF OnlyRankSpeaks, RankOfName, RankOf
<1>5. s \in ToSet(list) /\ t \in ToSet(list)
  BY <1>2 DEF OnlyRankSpeaks
<1>6. defence.score[t] \in Int /\ defence.score[s] \in Int
  BY <1>1, <1>3, <1>5 DEF DefendedOK
<1>7. Place(ranked, t) \in Nat /\ Place(ranked, s) \in Nat
  BY <1>1, PlaceIs DEF RankedOK, Band
<1>8. PICK i \in DOMAIN others, j \in DOMAIN others :
             i = Place(others, t) /\ j = Place(others, s) /\ others[i] = t /\ others[j] = s
  <2>1. DOMAIN others = 1..Len(others)
    OBVIOUS
  <2>. QED BY <2>1, PlaceIs
<1>9. i \in Nat /\ j \in Nat
  OBVIOUS
<1>10. i # j
  BY <1>7, <1>8
<1>11. ASSUME j < i PROVE FALSE
  <2>1. Place(list, s) < Place(list, t)
    BY <1>2, <1>8, <1>11 DEF Follows
  <2>2. PICK k \in DOMAIN list, l \in DOMAIN list :
               k = Place(list, s) /\ l = Place(list, t) /\ list[k] = s /\ list[l] = t
    <3>1. DOMAIN list = 1..Len(list)
      BY <1>3
    <3>. QED BY <1>3, <1>5, <3>1, PlaceIs
  <2>3. Better(defence.score, ranked, s, t)
    BY <1>3, <2>1, <2>2
  <2>. QED BY <1>4, <1>6, <1>7, <2>3 DEF Better
<1>. QED BY <1>8, <1>9, <1>10, <1>11

\* Names of different sectors that do not move together find no limit in their way.
LEMMA NothingHinders ==
  ASSUME IInv, stage = "record", OnlyRankSpeaks, NEW kept \in Books(Names),
         ToSet(kept.buys) = held \cap Band, NEW G \in SUBSET Names,
         SimulatedBook(held, ranked, policy.maxSignals) = (held \cap Band) \cup G
  PROVE  Unhindered(kept, G, entry.decision, Sector, market.correlation, policy)
<1>1. PICK correlation : correlation = market.correlation
  OBVIOUS
<1>2. PICK simbook : simbook = (held \cap Band) \cup G
  OBVIOUS
<1>3. \A s, t \in simbook : s # t => ~SameSector(Sector, s, t)
  BY <1>2 DEF OnlyRankSpeaks
<1>4. held \subseteq Names
  BY AtRecord
<1>5. policy.maxPerSector > 0 /\ policy.maxPerSector \in Nat
  BY AtRecord, BookAssumption DEF BookAssumption, OnlyRankSpeaks
<1>6. SUFFICES ASSUME NEW s \in G, NEW buys \in Seq(Names),
                      ToSet(buys) \subseteq (ToSet(kept.buys) \cup G) \ {s}
               PROVE  /\ ~(InSector(Sector, s, buys) >= policy.maxPerSector)
                      /\ ~TooCorrelated(s, buys, correlation)
  BY <1>1 DEF Unhindered
<1>7. s \in simbook /\ \A t \in ToSet(buys) : t \in simbook /\ t # s /\ t \in Names
  BY <1>2, <1>4, <1>6
<1>8. InSector(Sector, s, buys) = 0
  <2>1. {t \in ToSet(buys) : SameSector(Sector, s, t)} = {}
    BY <1>3, <1>7
  <2>. QED BY <2>1, FS_EmptySet DEF InSector
<1>9. ~TooCorrelated(s, buys, correlation)
  <2>1. \A t \in simbook : s # t => correlation[{s, t}] # "high"
    BY <1>1, <1>2, <1>7 DEF OnlyRankSpeaks
  <2>. QED BY <1>7, <2>1 DEF TooCorrelated
<1>10. ~(InSector(Sector, s, buys) >= policy.maxPerSector)
  BY <1>5, <1>8
<1>. QED BY <1>9, <1>10

LEMMA LiveBookIs ==
  ASSUME IInv, stage = "record", OnlyRankSpeaks
  PROVE  ToSet(LimitedBook.buys) = SimulatedBook(held, ranked, policy.maxSignals)
<1>1. /\ RankedOK /\ DefendedOK /\ policy \in Policies /\ held \subseteq Names
  BY AtRecord
<1>2. PICK m \in Nat : m = policy.maxSignals
  BY <1>1, BookAssumption DEF BookAssumption
<1>3. PICK K : K = held \cap Band
  OBVIOUS
<1>4. PICK list : list = Qualifying
  OBVIOUS
<1>5. PICK decision : decision = entry.decision
  OBVIOUS
<1>6. list \in Seq(Names) /\ IsInjective(list)
  BY <1>1, <1>4, QualifyingIs
<1>7. PICK others : others = Among(list, ToSet(list) \ K)
  OBVIOUS
<1>8. /\ KeptOf(list, decision, held) = K
      /\ others \in Seq(Names) /\ IsInjective(others) /\ Follows(others, Qualifying)
      /\ ToSet(others) = ToSet(list) \ K
      /\ {s \in ToSet(others) : decision[s].status = "TRIGGERED"} = Entrants
  <2>1. LET o == Among(Qualifying, ToSet(Qualifying) \ KeptOf(Qualifying, entry.decision, held))
        IN  /\ KeptOf(Qualifying, entry.decision, held) = held \cap Band
            /\ o \in Seq(Names) /\ IsInjective(o) /\ Follows(o, Qualifying)
            /\ ToSet(o) = ToSet(Qualifying) \ (held \cap Band)
            /\ {s \in ToSet(o) : entry.decision[s].status = "TRIGGERED"} = Entrants
    BY SameNames
  <2>. QED BY <1>3, <1>4, <1>5, <1>7, <2>1
<1>9. PICK first : first = Among(list, K)
  OBVIOUS
<1>10. first \in Seq(Names) /\ IsInjective(first) /\ ToSet(first) = K
  <2>1. first \in Seq(Names) /\ IsInjective(first) /\ ToSet(first) = ToSet(list) \cap K
    BY <1>6, <1>9, AmongIs
  <2>2. K \subseteq ToSet(list)
    BY <1>8 DEF KeptOf
  <2>. QED BY <2>1, <2>2
<1>11. PICK k \in Nat : k = Cardinality(K)
  BY <1>10, LengthOfList
<1>12. Len(first) = k /\ k <= m
  BY <1>2, <1>3, <1>10, <1>11, LengthOfList DEF OnlyRankSpeaks
<1>13. PICK start : start = KeepHeld(first, policy)
  OBVIOUS
<1>14. start \in Books(Names) /\ ToSet(start.buys) = K /\ Len(start.buys) = k
  <2>1. Prefix(first, m) \in Seq(Names) /\ Len(Prefix(first, m)) = k
    BY <1>10, <1>12, PrefixIs
  <2>2. ToSet(Prefix(first, m)) = {first[i] : i \in {j \in DOMAIN first : j <= m}}
    BY <1>10, PrefixIs
  <2>3. {j \in DOMAIN first : j <= m} = DOMAIN first
    BY <1>10, <1>12
  <2>4. ToSet(Prefix(first, m)) = K
    BY <1>10, <2>2, <2>3 DEF ToSet
  <2>5. SubSeq(first, m + 1, Len(first)) \in Seq(Names)
    BY <1>10, RestIs
  <2>6. start = [buys |-> Prefix(first, m), watch |-> SubSeq(first, m + 1, Len(first))]
    BY <1>2, <1>13 DEF KeepHeld
  <2>. QED BY <2>1, <2>4, <2>5, <2>6 DEF Books
<1>15. PICK room \in Nat : room = m - k
  BY <1>12
<1>16. PICK G : G = Added(held, ranked, policy.maxSignals)
  OBVIOUS
<1>17. FirstOf(G, Entrants, room, ranked)
  BY <1>1, <1>2, <1>3, <1>11, <1>15, <1>16, AddedIsFirst
<1>18. \A s \in Entrants : s \in ToSet(others) /\ s \in Band
  <2>1. \A s \in Entrants : s \in ToSet(others)
    BY <1>8
  <2>2. \A s \in Entrants : decision[s].status = "TRIGGERED" /\ s \in ToSet(list)
    BY <1>8
  <2>. QED BY <1>4, <1>5, <2>1, <2>2, BandTriggers
<1>19. \A s, t \in Entrants :
          Place(ranked, t) < Place(ranked, s) => Place(others, t) < Place(others, s)
  BY <1>8, <1>18, HeardByRank
<1>20. FirstOf(G, Entrants, room, others)
  BY <1>17, <1>19 DEF FirstOf
<1>21. SimulatedBook(held, ranked, policy.maxSignals) = K \cup G
  BY <1>1, <1>3, <1>16, BandIs DEF SimulatedBook
<1>22. G \in SUBSET Names
  <2>1. G \subseteq Entrants
    BY <1>17 DEF FirstOf
  <2>2. ToSet(ranked) \subseteq Names
    BY <1>1, MembersAreFinite DEF RankedOK
  <2>. QED BY <2>1, <2>2 DEF Entrants
<1>23. PICK correlation : correlation = market.correlation
  OBVIOUS
<1>24. Unhindered(start, G, decision, Sector, correlation, policy)
  BY <1>3, <1>5, <1>14, <1>21, <1>22, <1>23, NothingHinders
<1>25. ToSet(start.buys) \cap ToSet(others) = {}
  BY <1>8, <1>14
<1>26. ToSet(Unblocked(start, others, decision, Sector, correlation, policy).buys) = K \cup G
  <2>1. PICK limits : limits = policy
    OBVIOUS
  <2>2. /\ limits.maxSignals \in Nat /\ Len(start.buys) <= limits.maxSignals
        /\ limits.maxSignals - Len(start.buys) = room
    BY <1>2, <1>12, <1>14, <1>15, <2>1
  <2>3. PICK W : W = Entrants
    OBVIOUS
  <2>4. /\ start \in Books(Names) /\ others \in Seq(Names) /\ IsInjective(others)
        /\ Unhindered(start, G, decision, Sector, correlation, limits)
        /\ W = {s \in ToSet(others) : decision[s].status = "TRIGGERED"}
        /\ FirstOf(G, W, room, others)
    BY <1>8, <1>14, <1>20, <1>24, <2>1, <2>3
  <2>5. WayIsFree(start, others, room, W, G, decision, Sector, correlation, limits)
    BY <1>25, <2>2, <2>4 DEF WayIsFree
  <2>6. ToSet(Unblocked(start, others, decision, Sector, correlation, limits).buys)
          = ToSet(start.buys) \cup G
    BY <2>5, OpenTakesFirst
  <2>. QED BY <1>14, <2>1, <2>6
<1>27. LimitedBook = Unblocked(start, others, decision, Sector, correlation, policy)
  <2>1. Closed = FALSE
    BY DEF OnlyRankSpeaks, Closed
  <2>2. LimitedBook = Select(list, decision, held, FALSE, Sector, correlation, policy)
    BY <1>4, <1>5, <1>23, <2>1 DEF LimitedBook
  <2>3. {s \in held \cap ToSet(list) : decision[s].status = "TRIGGERED"} = K
    BY <1>8 DEF KeptOf
  <2>. QED BY <1>7, <1>9, <1>13, <2>2, <2>3 DEF Select, Unblocked
<1>. QED BY <1>21, <1>26, <1>27

\* When the rank is the only gate that speaks, the live pipeline and the portfolio
\* simulation hold the same book after the same book: for any bands, names and limits.
THEOREM TheSimulationIsTheLiveBook == Spec => []LiveBookIsTheSimulated
<1>1. ASSUME IInv PROVE LiveBookIsTheSimulated
  <2>1. SUFFICES ASSUME stage = "record", ~policy.conviction PROVE LiveBookIsTheSimulated
    BY DEF LiveBookIsTheSimulated, Recording
  <2>2. RankedOK /\ out = Outcome(Selected)
    BY <1>1, <2>1, AtRecord
  <2>3. Bought = ToSet(LimitedBook.buys)
    <3>1. out.buys = Selected.buys
      BY <1>1, <2>1, AtRecord, OutcomeIs
    <3>. QED BY <2>1, <3>1 DEF Selected, Bought
  <2>4. OnlyRankSpeaks => Bought = SimulatedBook(held, ranked, policy.maxSignals)
    BY <1>1, <2>1, <2>3, LiveBookIs
  <2>5. ToSet(SubSeq(ranked, 1, Smaller(ExitRank, Len(ranked)))) = Band
    BY <2>2, BandIs
  <2>. QED BY <2>4, <2>5 DEF LiveBookIsTheSimulated, OnlyRankSpeaks
<1>. QED BY <1>1, Invariant, PTL
=============================================================================
