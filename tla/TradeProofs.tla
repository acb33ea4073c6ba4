----------------------------- MODULE TradeProofs -----------------------------
(***************************************************************************)
(* Theorems about the trades on file, for any number of names, sessions,   *)
(* runs and requests.  How many rows a trade has: a request that adds one  *)
(* had read the file before any was there, and it adds one at most.        *)
(***************************************************************************)
EXTENDS ResearchProofs, OrderLemmas

\* The rows of a trade.
OnFile(n, d) ==
  {j \in DOMAIN outcomes : outcomes[j].name = n /\ outcomes[j].date = d}

\* The requests at work that have seen none of them.
Blind(n, d) ==
  {r \in Resolvers : pc[r] # "idle" /\ \A j \in OnFile(n, d) : j > sawOutcomes[r]}

\* What a request is about to write: a row for a trade, and none for a trade it saw.
NewTrades(r) ==
  \A j \in DOMAIN buffer[r] :
    /\ \A k \in DOMAIN buffer[r] :
         /\ buffer[r][k].name = buffer[r][j].name
         /\ buffer[r][k].date = buffer[r][j].date
         => k = j
    /\ \A i \in OnFile(buffer[r][j].name, buffer[r][j].date) : i > sawOutcomes[r]

\* Each row of a trade used up a request that had seen none.
Share ==
  /\ \A n, d : Cardinality(OnFile(n, d)) + Cardinality(Blind(n, d))
                 <= Cardinality(Resolvers)
  /\ \A r \in Resolvers : pc[r] = "write" => NewTrades(r)

-----------------------------------------------------------------------------
(* The calls of a request *)

\* The first row that makes a call with a stop is the one that is judged.
LEMMA FirstRowOnly ==
  ASSUME NEW rows, NEW filed, DOMAIN rows \subseteq Nat \ {0},
         NEW b \in Pending(rows, filed), NEW c \in Pending(rows, filed),
         b[2] = c[2], rows[b[1]].date = rows[c[1]].date
  PROVE  ~(b[1] < c[1])
<1>. SUFFICES ASSUME b[1] < c[1] PROVE FALSE
  OBVIOUS
<1>1. /\ b[1] \in Nat \ {0} /\ c[1] \in Nat
      /\ b[2] \in rows[b[1]].calls /\ rows[b[1]].rec.stop
      /\ \A j \in 1..(c[1] - 1) :
           rows[j].date = rows[c[1]].date /\ c[2] \in rows[j].calls => ~rows[j].rec.stop
  BY DEF Pending
<1>2. b[1] \in 1..(c[1] - 1)
  BY <1>1
<1>. QED BY <1>1, <1>2

\* No two calls to judge are of one trade, and none is of a trade on file.
LEMMA CallsAreTrades ==
  ASSUME NEW rows, NEW filed, DOMAIN rows \subseteq Nat \ {0},
         NEW b \in Pending(rows, filed), NEW c \in Pending(rows, filed),
         b[2] = c[2], rows[b[1]].date = rows[c[1]].date
  PROVE  b = c
<1>1. ~(b[1] < c[1]) /\ ~(c[1] < b[1])
  BY FirstRowOnly
<1>2. b \in (DOMAIN rows) \X Names /\ c \in (DOMAIN rows) \X Names
  BY DEF Pending
<1>3. /\ b = <<b[1], b[2]>> /\ b[1] \in Nat
      /\ c = <<c[1], c[2]>> /\ c[1] \in Nat
  BY <1>2
<1>4. b[1] = c[1]
  BY <1>1, <1>3
<1>. QED BY <1>3, <1>4

\* What Resolve leaves to be written: a row for each of the calls judged.
LEMMA ResolvedAreNew ==
  ASSUME IInv, ResearchAssumption, NEW r \in Resolvers, Resolve(r), Judged(r) # {}
  PROVE  NewTrades(r)'
<1>1. PICK q \in InOrder(Judged(r)) :
        buffer' = [buffer EXCEPT ![r] = [k \in DOMAIN q |-> Outcome(Rows(r), q[k])]]
  BY DEF Resolve
<1>2. UNCHANGED <<outcomes, sawOutcomes>>
  BY DEF Resolve, record
<1>3. /\ Rows(r) \in Seq(Row) /\ DOMAIN Rows(r) \subseteq Nat \ {0}
      /\ sawOutcomes[r] \in Nat /\ sawOutcomes[r] <= Len(outcomes)
  BY DEF Rows, IInv, WorldOK, RequestsOK
<1>4. PICK S : outcomes \in Seq(S) /\ buffer \in [Resolvers -> Seq(S)]
  BY DEF IInv, OutcomesOK
<1>5. /\ DOMAIN Filed(r) = 1..sawOutcomes[r]
      /\ \A i \in 1..sawOutcomes[r] : Filed(r)[i] = outcomes[i]
  BY <1>3, <1>4 DEF Filed
<1>6. /\ DOMAIN q \subseteq Int
      /\ \A k \in DOMAIN q : q[k] \in Pending(Rows(r), Filed(r))
      /\ \A j, k \in DOMAIN q : q[j] = q[k] => j = k
  <2>1. q \in [1..Cardinality(Judged(r)) -> Judged(r)]
        /\ \A i, j \in DOMAIN q : i < j => q[i] # q[j]
    BY DEF InOrder
  <2>2. DOMAIN q = 1..Cardinality(Judged(r)) /\ DOMAIN q \subseteq Int
    BY <2>1
  <2>3. \A k \in DOMAIN q : q[k] \in Judged(r)
    BY <2>1
  <2>4. ASSUME NEW j \in DOMAIN q, NEW k \in DOMAIN q, q[j] = q[k] PROVE j = k
    <3>1. j \in Int /\ k \in Int /\ ~(j < k) /\ ~(k < j)
      BY <2>1, <2>2, <2>4
    <3>. QED BY <3>1
  <2>. QED BY <2>2, <2>3, <2>4 DEF Judged
<1>7. /\ DOMAIN buffer'[r] = DOMAIN q
      /\ \A k \in DOMAIN q : /\ buffer'[r][k].name = q[k][2]
                             /\ buffer'[r][k].date = Rows(r)[q[k][1]].date
  BY <1>1, <1>4 DEF Outcome
<1>8. ASSUME NEW j \in DOMAIN q, NEW k \in DOMAIN q,
             q[k][2] = q[j][2], Rows(r)[q[k][1]].date = Rows(r)[q[j][1]].date
      PROVE  k = j
  BY <1>3, <1>6, <1>8, CallsAreTrades
<1>9. ASSUME NEW j \in DOMAIN q, NEW i \in OnFile(q[j][2], Rows(r)[q[j][1]].date)
      PROVE  i > sawOutcomes[r]
  <2>1. i \in Nat \ {0} /\ outcomes[i].name = q[j][2]
        /\ outcomes[i].date = Rows(r)[q[j][1]].date
    BY <1>4 DEF OnFile
  <2>2. i \notin DOMAIN Filed(r)
    BY <1>5, <1>6, <2>1 DEF Pending
  <2>. QED BY <1>3, <1>5, <2>1, <2>2
<1>10. \A n, d : OnFile(n, d)' = OnFile(n, d)
  BY <1>2 DEF OnFile
<1>. QED BY <1>2, <1>7, <1>8, <1>9, <1>10 DEF NewTrades

-----------------------------------------------------------------------------
(* Steps *)

LEMMA InitShare ==
  ASSUME ResearchAssumption, Init
  PROVE  Share
<1>1. \A n, d : OnFile(n, d) = {} /\ Blind(n, d) = {}
  BY DEF Init, OnFile, Blind
<1>2. Cardinality(Resolvers) \in Nat
  BY FS_CardinalityType DEF ResearchAssumption
<1>3. ASSUME NEW n, NEW d
      PROVE  Cardinality(OnFile(n, d)) + Cardinality(Blind(n, d))
               <= Cardinality(Resolvers)
  BY <1>1, <1>2, FS_EmptySet
<1>4. \A r \in Resolvers : pc[r] # "write"
  BY DEF Init
<1>. QED BY <1>3, <1>4 DEF Share

\* Fewer requests at work that have seen no row leave room for no fewer rows.
LEMMA FewerBlind ==
  ASSUME ResearchAssumption, NEW A, NEW B \in SUBSET Resolvers, A \subseteq B
  PROVE  /\ Cardinality(A) \in Nat /\ Cardinality(B) \in Nat
         /\ Cardinality(A) <= Cardinality(B)
<1>1. IsFiniteSet(B)
  BY FS_Subset DEF ResearchAssumption
<1>2. IsFiniteSet(A) /\ Cardinality(A) <= Cardinality(B)
  BY <1>1, FS_Subset
<1>. QED BY <1>1, <1>2, FS_CardinalityType

LEMMA FileIsFinite ==
  ASSUME IInv, NEW n, NEW d
  PROVE  /\ IsFiniteSet(OnFile(n, d)) /\ Cardinality(OnFile(n, d)) \in Nat
         /\ OnFile(n, d) \subseteq 1..Len(outcomes) /\ Len(outcomes) \in Nat
<1>1. OnFile(n, d) \subseteq 1..Len(outcomes) /\ Len(outcomes) \in Nat
  BY DEF IInv, OutcomesOK, OnFile
<1>2. IsFiniteSet(1..Len(outcomes))
  BY <1>1, FS_Interval
<1>. QED BY <1>1, <1>2, FS_Subset, FS_CardinalityType

\* A request begins: it has seen every row there is.
LEMMA ReadFilesShare ==
  ASSUME IInv, Share, ResearchAssumption, NEW r \in Resolvers, ReadFiles(r)
  PROVE  Share'
<1>1. /\ UNCHANGED <<outcomes, buffer>> /\ pc' = [pc EXCEPT ![r] = "read"]
      /\ sawOutcomes' = [sawOutcomes EXCEPT ![r] = Len(outcomes)]
      /\ pc \in [Resolvers -> {"idle", "read", "write"}]
      /\ sawOutcomes \in [Resolvers -> Nat]
  BY DEF ReadFiles, record, IInv, RequestsOK
<1>2. \A n, d : OnFile(n, d)' = OnFile(n, d)
  BY <1>1 DEF OnFile
<1>3. ASSUME NEW n, NEW d
      PROVE  Cardinality(OnFile(n, d)) + Cardinality(Blind(n, d)')
               <= Cardinality(Resolvers)
  <2>1. CASE OnFile(n, d) = {}
    <3>1. Blind(n, d)' \subseteq Resolvers
      BY DEF Blind
    <3>. QED BY <2>1, <3>1, FewerBlind, FS_EmptySet
  <2>2. CASE OnFile(n, d) # {}
    <3>1. \E j \in OnFile(n, d) : ~(j > Len(outcomes))
      BY <2>2, FileIsFinite
    <3>2. Blind(n, d)' \subseteq Blind(n, d)
      BY <1>1, <1>2, <3>1 DEF Blind
    <3>3. Blind(n, d) \subseteq Resolvers
      BY DEF Blind
    <3>4. /\ Cardinality(Blind(n, d)') <= Cardinality(Blind(n, d))
          /\ Cardinality(Blind(n, d)') \in Nat /\ Cardinality(Blind(n, d)) \in Nat
          /\ Cardinality(Resolvers) \in Nat
      BY <3>2, <3>3, FewerBlind
    <3>5. Cardinality(OnFile(n, d)) + Cardinality(Blind(n, d))
            <= Cardinality(Resolvers)
      BY DEF Share
    <3>. QED BY <3>4, <3>5, FileIsFinite
  <2>. QED BY <2>1, <2>2
<1>4. ASSUME NEW s \in Resolvers, pc'[s] = "write" PROVE NewTrades(s)'
  <2>1. s # r /\ pc[s] = "write" /\ sawOutcomes'[s] = sawOutcomes[s]
    BY <1>1, <1>4
  <2>2. NewTrades(s)
    BY <2>1 DEF Share
  <2>. QED BY <1>1, <1>2, <2>1, <2>2 DEF NewTrades
<1>. QED BY <1>2, <1>3, <1>4 DEF Share

\* Rows that are a stretch of what a request has in its buffer.
Stretch(new, r, m) ==
  \A k \in DOMAIN new : k + m \in DOMAIN buffer[r] /\ new[k] = buffer[r][k + m]

\* A request appends rows it resolved and is done: each uses up that request.
LEMMA AppendShare ==
  ASSUME IInv, Share, ResearchAssumption, NEW r \in Resolvers,
         pc[r] = "write", Finished(r),
         NEW S, outcomes \in Seq(S), NEW new \in Seq(S), outcomes' = outcomes \o new,
         NEW m \in Nat, Stretch(new, r, m)
  PROVE  Share'
<1>. USE DEF Stretch
<1> DEFINE L == Len(outcomes)
<1>1. /\ L \in Nat /\ DOMAIN outcomes = 1..L
      /\ Len(new) \in Nat /\ DOMAIN new = 1..Len(new)
      /\ DOMAIN outcomes' = 1..(L + Len(new))
      /\ \A j \in 1..L : outcomes'[j] = outcomes[j]
      /\ \A k \in DOMAIN new : L + k \in DOMAIN outcomes' /\ outcomes'[L + k] = new[k]
      /\ \A j \in DOMAIN outcomes' : j \in 1..L \/ \E k \in DOMAIN new : j = L + k
  <2>1. L \in Nat /\ DOMAIN outcomes = 1..L /\ Len(new) \in Nat
        /\ DOMAIN new = 1..Len(new) /\ DOMAIN outcomes' = 1..(L + Len(new))
    OBVIOUS
  <2>2. \A j \in 1..L : outcomes'[j] = outcomes[j]
    OBVIOUS
  <2>3. \A k \in DOMAIN new : L + k \in DOMAIN outcomes' /\ outcomes'[L + k] = new[k]
    OBVIOUS
  <2>4. ASSUME NEW j \in 1..(L + Len(new)), j \notin 1..L
        PROVE  \E k \in DOMAIN new : j = L + k
    <3>1. j - L \in DOMAIN new /\ j = L + (j - L)
      BY <2>1, <2>4
    <3>. QED BY <3>1
  <2>. QED BY <2>1, <2>2, <2>3, <2>4
<1>2. /\ pc' = [pc EXCEPT ![r] = "idle"]
      /\ sawOutcomes' = [sawOutcomes EXCEPT ![r] = 0]
      /\ pc \in [Resolvers -> {"idle", "read", "write"}]
      /\ sawOutcomes \in [Resolvers -> Nat]
      /\ \A s \in Resolvers : sawOutcomes[s] <= L
      /\ buffer' = [buffer EXCEPT ![r] = << >>]
  BY DEF Finished, IInv, RequestsOK
<1>3. NewTrades(r)
  BY DEF Share
<1> HIDE DEF L
<1>4. \A n, d : /\ OnFile(n, d) \subseteq OnFile(n, d)'
                /\ \A j \in OnFile(n, d)' : j \in OnFile(n, d) \/ j > L
  BY <1>1 DEF OnFile
<1>5. ASSUME NEW n, NEW d PROVE Blind(n, d)' \subseteq Blind(n, d) \ {r}
  BY <1>2, <1>4 DEF Blind
<1>6. ASSUME NEW n, NEW d
      PROVE  Cardinality(OnFile(n, d)') + Cardinality(Blind(n, d)')
               <= Cardinality(Resolvers)
  <2>1. Blind(n, d) \subseteq Resolvers
    BY DEF Blind
  <2>2. IsFiniteSet(Blind(n, d)) /\ Cardinality(Blind(n, d)) \in Nat
        /\ Cardinality(Resolvers) \in Nat
    BY <2>1, FS_Subset, FS_CardinalityType DEF ResearchAssumption
  <2>3. Cardinality(OnFile(n, d)) + Cardinality(Blind(n, d)) <= Cardinality(Resolvers)
    BY DEF Share
  <2>4. CASE OnFile(n, d)' = OnFile(n, d)
    <3>1. /\ Cardinality(Blind(n, d)') <= Cardinality(Blind(n, d))
          /\ Cardinality(Blind(n, d)') \in Nat
      BY <1>5, <2>1, FewerBlind
    <3>. QED BY <2>2, <2>3, <2>4, <3>1, FileIsFinite
  <2>5. CASE OnFile(n, d)' # OnFile(n, d)
    <3>1. PICK k \in DOMAIN new : new[k].name = n /\ new[k].date = d
      BY <1>1, <1>4, <2>5 DEF OnFile
    <3>2. \A i \in DOMAIN new : new[i].name = n /\ new[i].date = d => i = k
      <4>1. ASSUME NEW i \in DOMAIN new, new[i].name = n, new[i].date = d
            PROVE  i = k
        <5>1. /\ i + m \in DOMAIN buffer[r] /\ new[i] = buffer[r][i + m]
              /\ k + m \in DOMAIN buffer[r] /\ new[k] = buffer[r][k + m]
          OBVIOUS
        <5>2. i + m = k + m
          BY <1>3, <3>1, <4>1, <5>1 DEF NewTrades
        <5>. QED BY <1>1, <5>2
      <4>. QED BY <4>1
    <3>3. OnFile(n, d)' = OnFile(n, d) \cup {L + k}
      <4>1. L + k \in OnFile(n, d)'
        BY <1>1, <3>1 DEF OnFile
      <4>2. ASSUME NEW j \in OnFile(n, d)', j \notin OnFile(n, d) PROVE j = L + k
        <5>1. PICK i \in DOMAIN new : j = L + i
          BY <1>1, <4>2 DEF OnFile
        <5>2. new[i].name = n /\ new[i].date = d
          BY <1>1, <5>1 DEF OnFile
        <5>. QED BY <3>2, <5>1, <5>2
      <4>. QED BY <1>4, <4>1, <4>2
    <3>4. Cardinality(OnFile(n, d)') = Cardinality(OnFile(n, d)) + 1
      <4>1. L + k \notin OnFile(n, d)
        BY <1>1 DEF OnFile
      <4>. QED BY <3>3, <4>1, FileIsFinite, FS_AddElement
    <3>5. r \in Blind(n, d)
      <4>1. k + m \in DOMAIN buffer[r] /\ new[k] = buffer[r][k + m]
        OBVIOUS
      <4>. QED BY <1>3, <3>1, <4>1 DEF NewTrades, Blind
    <3>6. /\ IsFiniteSet(Blind(n, d) \ {r})
          /\ Cardinality(Blind(n, d) \ {r}) = Cardinality(Blind(n, d)) - 1
      BY <2>2, <3>5, FS_RemoveElement
    <3>7. /\ Cardinality(Blind(n, d)') <= Cardinality(Blind(n, d) \ {r})
          /\ Cardinality(Blind(n, d)') \in Nat
      BY <1>5, <3>6, FS_Subset, FS_CardinalityType
    <3>. QED BY <2>2, <2>3, <3>4, <3>6, <3>7, FileIsFinite
  <2>. QED BY <2>4, <2>5
<1>7. ASSUME NEW s \in Resolvers, pc'[s] = "write" PROVE NewTrades(s)'
  <2>1. s # r /\ pc[s] = "write" /\ sawOutcomes'[s] = sawOutcomes[s]
        /\ buffer'[s] = buffer[s]
    BY <1>2, <1>7
  <2>2. NewTrades(s)
    BY <2>1 DEF Share
  <2>3. ASSUME NEW j \in DOMAIN buffer[s], NEW n, NEW d,
               n = buffer[s][j].name, d = buffer[s][j].date,
               NEW i \in OnFile(n, d)'
        PROVE  i > sawOutcomes[s]
    <3>1. i \in OnFile(n, d) => i > sawOutcomes[s]
      BY <2>2, <2>3 DEF NewTrades
    <3>2. i \in OnFile(n, d) \/ i > L
      BY <1>4
    <3>3. i \in Nat
      BY <1>1 DEF OnFile
    <3>4. sawOutcomes[s] \in Nat /\ sawOutcomes[s] <= L
      BY <1>2
    <3>. QED BY <1>1, <3>1, <3>2, <3>3, <3>4
  <2>. QED BY <2>1, <2>2, <2>3 DEF NewTrades
<1>. QED BY <1>6, <1>7 DEF Share

\* A request that has nothing to write, or dies before it writes, is done.
LEMMA DoneShare ==
  ASSUME IInv, Share, ResearchAssumption, NEW r \in Resolvers,
         Finished(r), UNCHANGED outcomes
  PROVE  Share'
<1>1. /\ pc' = [pc EXCEPT ![r] = "idle"]
      /\ sawOutcomes' = [sawOutcomes EXCEPT ![r] = 0]
      /\ pc \in [Resolvers -> {"idle", "read", "write"}]
      /\ sawOutcomes \in [Resolvers -> Nat]
      /\ buffer' = [buffer EXCEPT ![r] = << >>]
  BY DEF Finished, IInv, RequestsOK
<1>2. \A n, d : OnFile(n, d)' = OnFile(n, d)
  BY DEF OnFile
<1>3. ASSUME NEW n, NEW d
      PROVE  Cardinality(OnFile(n, d)') + Cardinality(Blind(n, d)')
               <= Cardinality(Resolvers)
  <2>1. Blind(n, d)' \subseteq Blind(n, d) /\ Blind(n, d) \subseteq Resolvers
    BY <1>1, <1>2 DEF Blind
  <2>2. /\ Cardinality(Blind(n, d)') <= Cardinality(Blind(n, d))
        /\ Cardinality(Blind(n, d)') \in Nat /\ Cardinality(Blind(n, d)) \in Nat
        /\ Cardinality(Resolvers) \in Nat
    BY <2>1, FewerBlind
  <2>3. Cardinality(OnFile(n, d)) + Cardinality(Blind(n, d)) <= Cardinality(Resolvers)
    BY DEF Share
  <2>. QED BY <1>2, <2>2, <2>3, FileIsFinite
<1>4. ASSUME NEW s \in Resolvers, pc'[s] = "write" PROVE NewTrades(s)'
  <2>1. s # r /\ pc[s] = "write" /\ sawOutcomes'[s] = sawOutcomes[s]
        /\ buffer'[s] = buffer[s]
    BY <1>1, <1>4
  <2>2. NewTrades(s)
    BY <2>1 DEF Share
  <2>. QED BY <1>2, <2>1, <2>2 DEF NewTrades
<1>. QED BY <1>3, <1>4 DEF Share

\* A request that goes on to write keeps what it has seen.
LEMMA ResolveShare ==
  ASSUME IInv, Share, ResearchAssumption, NEW r \in Resolvers, Resolve(r)
  PROVE  Share'
<1>1. UNCHANGED outcomes
  BY DEF Resolve, record
<1>2. CASE Judged(r) = {}
  BY <1>1, <1>2, DoneShare DEF Resolve
<1>3. CASE Judged(r) # {}
  <2>1. /\ pc[r] = "read" /\ pc' = [pc EXCEPT ![r] = "write"]
        /\ pc \in [Resolvers -> {"idle", "read", "write"}]
        /\ sawOutcomes' = sawOutcomes
        /\ \A s \in Resolvers \ {r} : buffer'[s] = buffer[s]
    <3>1. \E S : buffer \in [Resolvers -> Seq(S)]
      BY DEF IInv, OutcomesOK
    <3>. QED BY <1>3, <3>1 DEF Resolve, IInv, RequestsOK
  <2>2. \A n, d : OnFile(n, d)' = OnFile(n, d) /\ Blind(n, d)' = Blind(n, d)
    BY <1>1, <2>1 DEF OnFile, Blind
  <2>3. ASSUME NEW s \in Resolvers, pc'[s] = "write", s # r PROVE NewTrades(s)'
    <3>1. NewTrades(s)
      BY <2>1, <2>3 DEF Share
    <3>. QED BY <2>1, <2>2, <2>3, <3>1 DEF NewTrades
  <2>4. NewTrades(r)'
    BY <1>3, ResolvedAreNew
  <2>5. \A n, d : Cardinality(OnFile(n, d)') + Cardinality(Blind(n, d)')
                    <= Cardinality(Resolvers)
    BY <2>2 DEF Share
  <2>. QED BY <2>3, <2>4, <2>5 DEF Share
<1>. QED BY <1>2, <1>3

\* What an append leaves of some first rows of the buffer is a stretch of it.
LEMMA WriteShare ==
  ASSUME IInv, Share, ResearchAssumption, NEW r \in Resolvers, Write(r) \/ Die(r)
  PROVE  Share'
<1>1. PICK S : outcomes \in Seq(S) /\ buffer \in [Resolvers -> Seq(S)]
  BY DEF IInv, OutcomesOK
<1>2. Finished(r)
  BY DEF Write, Die
<1>3. ASSUME NEW rows \in Seq(S), rows # << >>, pc[r] = "write",
             DOMAIN rows \subseteq DOMAIN buffer[r],
             \A k \in DOMAIN rows : rows[k] = buffer[r][k],
             outcomes' = Appended(rows)
      PROVE  Share'
  <2>1. PICK new \in Seq(S), m \in Nat :
          outcomes' = outcomes \o new /\ Stretch(new, r, m)
    <3>1. CASE torn
      <4>1. outcomes' = outcomes \o Tail(rows) /\ Tail(rows) \in Seq(S)
        BY <1>3, <3>1 DEF Appended
      <4>2. \A k \in DOMAIN Tail(rows) :
              k + 1 \in DOMAIN rows /\ Tail(rows)[k] = rows[k + 1]
        BY <1>3
      <4>3. \A k \in DOMAIN Tail(rows) :
              k + 1 \in DOMAIN buffer[r] /\ Tail(rows)[k] = buffer[r][k + 1]
        BY <1>3, <4>2
      <4>. QED BY <4>1, <4>3 DEF Stretch
    <3>2. CASE ~torn
      <4>1. outcomes' = outcomes \o rows
        BY <1>3, <3>2 DEF Appended
      <4>2. \A k \in DOMAIN rows : k + 0 = k
        BY <1>3
      <4>3. \A k \in DOMAIN rows :
              k + 0 \in DOMAIN buffer[r] /\ rows[k] = buffer[r][k + 0]
        BY <1>3, <4>2
      <4>. QED BY <1>3, <4>1, <4>3 DEF Stretch
    <3>. QED BY <3>1, <3>2
  <2>. QED BY <1>1, <1>2, <1>3, <2>1, AppendShare
<1>4. CASE Write(r)
  <2>1. buffer[r] \in Seq(S) /\ buffer[r] # << >> /\ pc[r] = "write"
        /\ outcomes' = Appended(buffer[r])
    BY <1>1, <1>4 DEF Write, IInv, RequestsOK
  <2>. QED BY <1>3, <2>1
<1>5. CASE UNCHANGED outcomes
  BY <1>2, <1>5, DoneShare
<1>6. ASSUME NEW k \in 1..(Len(buffer[r]) - 1), pc[r] = "write",
             outcomes' = Appended(SubSeq(buffer[r], 1, k))
      PROVE  Share'
  <2> DEFINE rows == SubSeq(buffer[r], 1, k)
  <2>1. buffer[r] \in Seq(S) /\ k \in 1..Len(buffer[r])
    BY <1>1, <1>6
  <2>2. /\ rows \in Seq(S) /\ rows # << >> /\ DOMAIN rows \subseteq DOMAIN buffer[r]
        /\ \A j \in DOMAIN rows : rows[j] = buffer[r][j]
        /\ outcomes' = Appended(rows)
    BY <1>6, <2>1
  <2>. HIDE DEF rows
  <2>. QED BY <1>3, <1>6, <2>2
<1>7. CASE Die(r)
  <2>1. \/ UNCHANGED outcomes
        \/ \E k \in 0..(Len(buffer[r]) - 1) :
             /\ pc[r] = "write"
             /\ outcomes' = IF k = 0 THEN outcomes
                            ELSE Appended(SubSeq(buffer[r], 1, k))
    BY <1>7 DEF Die, record
  <2>2. \A k \in 0..(Len(buffer[r]) - 1) : k = 0 \/ k \in 1..(Len(buffer[r]) - 1)
    BY <1>1
  <2>. QED BY <1>5, <1>6, <2>1, <2>2
<1>. QED BY <1>4, <1>7

LEMMA StepShare == IInv /\ Share /\ [Next]_vars => Share'
<1>. SUFFICES ASSUME IInv, Share, [Next]_vars PROVE Share'
  OBVIOUS
<1>1. CASE UNCHANGED <<outcomes, pc, sawOutcomes, buffer>>
  <2>1. \A n, d : OnFile(n, d)' = OnFile(n, d) /\ Blind(n, d)' = Blind(n, d)
    BY <1>1 DEF OnFile, Blind
  <2>2. \A n, d : Cardinality(OnFile(n, d)') + Cardinality(Blind(n, d)')
                    <= Cardinality(Resolvers)
    BY <2>1 DEF Share
  <2>3. \A r \in Resolvers : pc'[r] = "write" => NewTrades(r)'
    BY <1>1, <2>1 DEF Share, NewTrades
  <2>. QED BY <2>2, <2>3 DEF Share
<1>2. ASSUME NEW r \in Resolvers, Request(r) PROVE Share'
  BY <1>2, ResearchAssumption, ReadFilesShare, ResolveShare, WriteShare DEF Request
<1>3. \/ UNCHANGED <<outcomes, pc, sawOutcomes, buffer>>
      \/ \E r \in Resolvers : Request(r)
  BY DEF Next, Engine, Study, NewSession, LateBar, Retune, Restart, Ask, Run, OpenEpoch, CloseEpoch,
         Register, Edit, vars, record, resolving
<1>. QED BY <1>1, <1>2, <1>3

\* However many requests overlap, die or write behind a torn line, a trade has no more
\* rows than there are requests that can overlap (resolve_pending).
THEOREM TradesAreCounted == Spec => []AtMostOnePerResolver
<1>1. Init => IInv /\ Share
  BY InitInv, InitShare, ResearchAssumption
<1>2. IInv /\ [Next]_vars => IInv'
  BY NextStep, StutterStep, ResearchAssumption
<1>3. IInv /\ Share => AtMostOnePerResolver
  <2>. SUFFICES ASSUME IInv, Share, NEW k \in DOMAIN outcomes
                PROVE  Cardinality(OnFile(outcomes[k].name, outcomes[k].date))
                         <= Cardinality(Resolvers)
    BY DEF AtMostOnePerResolver, OnFile
  <2>1. PICK n, d : n = outcomes[k].name /\ d = outcomes[k].date
    OBVIOUS
  <2>2. Cardinality(OnFile(n, d)) + Cardinality(Blind(n, d)) <= Cardinality(Resolvers)
    BY DEF Share
  <2>3. Blind(n, d) \subseteq Resolvers
    BY DEF Blind
  <2>. QED BY <2>1, <2>2, <2>3, FewerBlind, FileIsFinite, ResearchAssumption
<1>. QED BY <1>1, <1>2, <1>3, StepShare, PTL DEF Spec

-----------------------------------------------------------------------------
(***************************************************************************)
(* What a verdict reads: the bars up to its exit, and the book before it.  *)
(***************************************************************************)
Earlier(future, s) == {t \in future : t < s}

\* The sessions of a window up to and with its u-th are counted alike in any other
\* window that agrees that far.
LEMMA HeldAgree ==
  ASSUME NEW F \in SUBSET Sessions, NEW G \in SUBSET Sessions, NEW u \in F,
         \A s \in Sessions : s <= u => (s \in F <=> s \in G)
  PROVE  /\ Min(F) \in F /\ Min(F) <= u /\ Min(G) = Min(F)
         /\ \A s \in Sessions : s <= u => Earlier(F, s) = Earlier(G, s)
         /\ \A s \in Sessions : s <= u => (s \in Held(F) <=> s \in Held(G))
<1>1. F \subseteq Nat /\ G \subseteq Nat /\ F # {}
  BY DEF Sessions
<1>2. Min(F) \in F /\ \A x \in F : Min(F) <= x
  BY <1>1, MinIsLeast
<1>3. Min(G) = Min(F)
  <2>1. Min(F) \in G
    BY <1>2
  <2>2. \A x \in G : Min(F) <= x
    <3> TAKE x \in G
    <3>1. CASE x <= u
      BY <1>2, <3>1
    <3>2. CASE ~(x <= u)
      <4>1. x \in Nat /\ u \in Nat /\ Min(F) \in Nat /\ Min(F) <= u
        BY <1>1, <1>2
      <4>. QED BY <3>2, <4>1
    <3>. QED BY <3>1, <3>2
  <2>. QED BY <1>1, <2>1, <2>2, MinIs
<1>4. ASSUME NEW s \in Sessions, s <= u PROVE Earlier(F, s) = Earlier(G, s)
  <2>1. ASSUME NEW t \in Sessions, t < s PROVE t \in F <=> t \in G
    <3>1. t \in Nat /\ s \in Nat /\ u \in Nat
      BY <1>1 DEF Sessions
    <3>2. t <= u
      BY <1>4, <2>1, <3>1
    <3>. QED BY <3>2
  <2>. QED BY <2>1 DEF Earlier
<1>5. \A s \in Sessions : s <= u => (s \in Held(F) <=> s \in Held(G))
  BY <1>4 DEF Held, Earlier
<1>. QED BY <1>2, <1>3, <1>4, <1>5

LEMMA EarlierFinite ==
  ASSUME ResearchAssumption, NEW F \in SUBSET Sessions
  PROVE  /\ IsFiniteSet(F) /\ Cardinality(F) \in Nat
         /\ \A s : IsFiniteSet(Earlier(F, s)) /\ Cardinality(Earlier(F, s)) \in Nat
<1>1. IsFiniteSet(Sessions)
  BY FS_Interval DEF ResearchAssumption, Sessions
<1>2. IsFiniteSet(F)
  BY <1>1, FS_Subset
<1>3. \A s : Earlier(F, s) \subseteq F
  BY DEF Earlier
<1>. QED BY <1>2, <1>3, FS_Subset, FS_CardinalityType

\* One more session lies before a later one.
LEMMA OneMoreEarlier ==
  ASSUME ResearchAssumption, NEW F \in SUBSET Sessions, NEW u \in F
  PROVE  /\ Cardinality(Earlier(F, u) \cup {u}) = Cardinality(Earlier(F, u)) + 1
         /\ \A w \in F : u < w => Cardinality(Earlier(F, u)) + 1 <= Cardinality(Earlier(F, w))
         /\ Cardinality(Earlier(F, u)) + 1 <= Cardinality(F)
<1>1. u \notin Earlier(F, u)
  BY DEF Earlier, Sessions
<1>2. Cardinality(Earlier(F, u) \cup {u}) = Cardinality(Earlier(F, u)) + 1
  BY <1>1, EarlierFinite, FS_AddElement
<1>3. Earlier(F, u) \cup {u} \subseteq F
  BY DEF Earlier
<1>4. ASSUME NEW w \in F, u < w PROVE Earlier(F, u) \cup {u} \subseteq Earlier(F, w)
  <2>1. \A t \in F : t \in Nat
    BY DEF Sessions
  <2>2. \A t \in F : t < u => t < w
    BY <1>4, <2>1
  <2>. QED BY <1>4, <2>2 DEF Earlier
<1>. QED BY <1>2, <1>3, <1>4, EarlierFinite, FS_Subset

\* The last session held of a window that has elapsed is the one after MaxHold others.
LEMMA FullWindow ==
  ASSUME ResearchAssumption, OutcomesAssumption, NEW F \in SUBSET Sessions,
         Cardinality(F) > MaxHold
  PROVE  /\ Max(Held(F)) \in Held(F) /\ \A s \in Held(F) : s <= Max(Held(F))
         /\ Cardinality(Earlier(F, Max(Held(F)))) = MaxHold
<1>1. /\ MaxHold \in Nat /\ MaxSession \in Nat
      /\ F \subseteq Nat /\ \A s \in F : s <= MaxSession
  BY DEF OutcomesAssumption, ResearchAssumption, Sessions
<1>2. F # {}
  BY <1>1, FS_EmptySet
<1>3. Min(F) \in F /\ \A s \in F : Min(F) <= s
  BY <1>1, <1>2, MinIsLeast
<1>4. Min(F) \in Held(F)
  <2>1. Earlier(F, Min(F)) = {}
    <3>1. \A t \in F : t \in Nat
      BY <1>1
    <3>2. \A t \in F : ~(t < Min(F))
      BY <1>3, <3>1
    <3>. QED BY <3>2 DEF Earlier
  <2>. QED BY <1>1, <1>3, <2>1, FS_EmptySet DEF Held, Earlier
<1>5. Held(F) \subseteq F
  BY DEF Held
<1>6. PICK u : u = Max(Held(F))
  OBVIOUS
<1>7. u \in Held(F) /\ \A s \in Held(F) : s <= u
  BY <1>1, <1>4, <1>5, <1>6, MaxIsGreatest
<1>8. u \in F /\ Cardinality(Earlier(F, u)) <= MaxHold
  BY <1>7 DEF Held, Earlier
<1>9. ~(Cardinality(Earlier(F, u)) < MaxHold)
  <2>. SUFFICES ASSUME Cardinality(Earlier(F, u)) < MaxHold PROVE FALSE
    OBVIOUS
  <2> DEFINE above == {w \in F : u < w}
  <2>1. CASE above = {}
    <3>1. F = Earlier(F, u) \cup {u}
      <4>1. \A t \in F : t \in Nat /\ (t < u \/ t = u)
        BY <1>1, <1>8, <2>1
      <4>. QED BY <1>8, <4>1 DEF Earlier
    <3>. QED BY <1>1, <1>8, <3>1, OneMoreEarlier, EarlierFinite
  <2>2. CASE above # {}
    <3>1. PICK w \in above : \A x \in above : w <= x
      BY <1>1, <2>2, LeastExists
    <3>2. Earlier(F, w) = Earlier(F, u) \cup {u}
      <4>1. \A t \in F : t \in Nat
        BY <1>1
      <4>2. \A t \in F : t < w <=> t < u \/ t = u
        BY <1>8, <3>1, <4>1
      <4>. QED BY <1>8, <4>2 DEF Earlier
    <3>3. Cardinality(Earlier(F, w)) <= MaxHold
      BY <1>1, <1>8, <3>2, OneMoreEarlier, EarlierFinite
    <3>4. w \in Held(F)
      BY <3>3 DEF Held, Earlier
    <3>. QED BY <1>1, <1>7, <1>8, <3>1, <3>4
  <2>. QED BY <2>1, <2>2
<1>. QED BY <1>1, <1>6, <1>7, <1>8, <1>9, EarlierFinite

\* The parts of Verdict.
Ending(bars_, book, n, d) ==
  LET F == After(bars_, d)
  IN  {s \in Held(F) \ {Min(F)} : Ends(bars_, book, n, F, s)}

Until(bars_, book, n, d) ==
  IF Ending(bars_, book, n, d) = {} THEN Max(Held(After(bars_, d)))
                                    ELSE Min(Ending(bars_, book, n, d))

Locked(bars_, book, n, d) ==
  \E s \in Held(After(bars_, d)) :
    /\ Min(After(bars_, d)) < s /\ s <= Until(bars_, book, n, d)
    /\ bars_[s] = "lockedlow"

NoVerdict(bars_, book, n, d, rec) ==
  \/ After(bars_, d) = {} \/ bars_[Min(After(bars_, d))] = "noopen"
  \/ ~rec.close \/ bars_[d] = "none"
  \/ Ending(bars_, book, n, d) = {} /\ Cardinality(After(bars_, d)) <= MaxHold

Found(bars_, book, n, d) ==
  [reason |-> IF Ending(bars_, book, n, d) # {}
                THEN Reason(bars_[Until(bars_, book, n, d)])
                ELSE IF Locked(bars_, book, n, d) THEN "stop_unfilled" ELSE "time_exit",
   day    |-> Until(bars_, book, n, d),
   late   |-> Ending(bars_, book, n, d) # {} /\ Locked(bars_, book, n, d)]

LEMMA VerdictIs ==
  ASSUME NEW bars_, NEW book, NEW n, NEW d, NEW rec
  PROVE  Verdict(bars_, book, n, d, rec) =
           IF NoVerdict(bars_, book, n, d, rec) THEN {} ELSE {Found(bars_, book, n, d)}
BY DEF Verdict, NoVerdict, Found, Locked, Until, Ending

\* Two books say the same of session s.
SameBook(book, other, s) ==
  /\ s \in DOMAIN book <=> s \in DOMAIN other
  /\ s \in DOMAIN book => book[s] = other[s]

LEMMA AfterIs ==
  ASSUME NEW bars_ \in [Sessions -> Bars], NEW d \in Sessions
  PROVE  /\ After(bars_, d) \subseteq Sessions
         /\ \A s \in Sessions : s \in After(bars_, d) <=> s > d /\ bars_[s] # "none"
BY DEF After

\* A verdict names a session of the window that was held, with every exit at or after it.
LEMMA VerdictDay ==
  ASSUME ResearchAssumption, OutcomesAssumption,
         NEW bars_ \in [Sessions -> Bars], NEW book, NEW n, NEW d \in Sessions, NEW rec,
         ~NoVerdict(bars_, book, n, d, rec)
  PROVE  LET u == Until(bars_, book, n, d)
             F == After(bars_, d)
         IN  /\ u \in Held(F) /\ u \in F /\ u \in Sessions
             /\ Ending(bars_, book, n, d) # {} =>
                  u \in Ending(bars_, book, n, d)
                  /\ \A s \in Ending(bars_, book, n, d) : u <= s
             /\ Ending(bars_, book, n, d) = {} =>
                  /\ Cardinality(F) > MaxHold
                  /\ \A s \in Held(F) : s <= u
                  /\ Cardinality(Earlier(F, u)) = MaxHold
<1> DEFINE F == After(bars_, d)
           E == Ending(bars_, book, n, d)
           u == Until(bars_, book, n, d)
<1>1. F \subseteq Sessions /\ Held(F) \subseteq F /\ E \subseteq Held(F)
  BY AfterIs DEF Held, Ending
<1>2. CASE E # {}
  <2>1. u = Min(E)
    BY <1>2 DEF Until
  <2>2. E \subseteq Nat
    BY <1>1 DEF Sessions
  <2>3. u \in E /\ \A s \in E : u <= s
    BY <1>2, <2>1, <2>2, MinIsLeast
  <2>. QED BY <1>1, <1>2, <2>3
<1>3. CASE E = {}
  <2>1. Cardinality(F) > MaxHold
    <3>1. ~(Cardinality(F) <= MaxHold)
      BY <1>3 DEF NoVerdict
    <3>. QED BY <1>1, <3>1, EarlierFinite DEF OutcomesAssumption
  <2>2. u = Max(Held(F))
    BY <1>3 DEF Until
  <2>. HIDE DEF F, E, u
  <2>3. u \in Held(F) /\ (\A s \in Held(F) : s <= u) /\ Cardinality(Earlier(F, u)) = MaxHold
    BY <1>1, <2>1, <2>2, FullWindow
  <2>. QED BY <1>1, <1>3, <2>1, <2>3 DEF F, E, u
<1>. QED BY <1>2, <1>3

\* Bars that agree from the signal to the exit, and books that agree before the exit,
\* end a bar of the window in the same way.
LEMMA EndsAgree ==
  ASSUME ResearchAssumption,
         NEW b \in [Sessions -> Bars], NEW c \in [Sessions -> Bars],
         NEW book, NEW other, NEW n, NEW d \in Sessions, NEW u \in After(b, d),
         \A s \in Sessions : d <= s /\ s <= u => b[s] = c[s],
         \A s \in Sessions : d <= s /\ s < u => SameBook(book, other, s),
         NEW s \in After(b, d), s <= u, s # Min(After(b, d))
  PROVE  Ends(b, book, n, After(b, d), s) <=> Ends(c, other, n, After(c, d), s)
<1> DEFINE F == After(b, d)
           G == After(c, d)
           X == {Min(F)} \cup {t \in F : Min(F) < t /\ t < s /\ Tradeable(b[t])}
           Y == {Min(G)} \cup {t \in G : Min(G) < t /\ t < s /\ Tradeable(c[t])}
<1>0. \A t \in Sessions : t \in Nat
  BY DEF Sessions
<1>1. F \in SUBSET Sessions /\ G \in SUBSET Sessions
  BY AfterIs
<1>2. \A t \in Sessions : t <= u => (t \in F <=> t \in G)
  BY <1>0, AfterIs
<1>3. Min(F) \in F /\ Min(F) <= u /\ Min(G) = Min(F)
  BY <1>1, <1>2, HeldAgree
<1>4. \A t \in F : Min(F) <= t
  BY <1>0, <1>1, <1>3, MinIsLeast
<1>5. \A t \in F : d < t /\ t \in Nat
  BY <1>0, AfterIs
<1>6. \A t \in Sessions : t < s => t <= u
  BY <1>0, <1>1
<1>7. X = Y
  <2>1. ASSUME NEW t \in Sessions, t < s
        PROVE  t \in F /\ Tradeable(b[t]) <=> t \in G /\ Tradeable(c[t])
    <3>1. t <= u /\ (t \in F <=> t \in G)
      BY <1>2, <1>6, <2>1
    <3>2. t \in F => b[t] = c[t]
      BY <1>0, <1>5, <3>1
    <3>. QED BY <3>1, <3>2
  <2>2. \A t \in G : t \in Sessions
    BY <1>1
  <2>. QED BY <1>1, <1>3, <2>1, <2>2
<1>8. PICK m : m = Max(X)
  OBVIOUS
<1>9. m \in X
  <2>1. X \subseteq Nat /\ X # {} /\ \A x \in X : x <= MaxSession
    BY <1>1, <1>3 DEF Sessions
  <2>2. MaxSession \in Nat
    BY DEF ResearchAssumption
  <2>. HIDE DEF X
  <2>. QED BY <1>8, <2>1, <2>2, MaxIsGreatest
<1>10. m \in Sessions /\ d <= m /\ m < u
  <2>1. m \in F /\ m < s
    <3>1. Min(F) < s
      BY <1>0, <1>1, <1>3, <1>4
    <3>. QED BY <1>3, <1>9, <3>1
  <2>. QED BY <1>0, <1>1, <1>5, <2>1
<1>11. DecidedOn(b, F, s) = m /\ DecidedOn(c, G, s) = m
  BY <1>7, <1>8 DEF DecidedOn
<1>12. ClosedByEngine(book, m, n) <=> ClosedByEngine(other, m, n)
  BY <1>10 DEF SameBook, ClosedByEngine
<1>13. b[s] = c[s]
  BY <1>0, <1>1, <1>5
<1>. HIDE DEF F, G
<1>14. Ends(b, book, n, F, s) <=> Ends(c, other, n, G, s)
  BY <1>11, <1>12, <1>13 DEF Ends
<1>. QED BY <1>14 DEF F, G

\* Bars and a book are as others from session d to the exit u.
Alike(b, c, book, other, d, u) ==
  /\ \A s \in Sessions : d <= s /\ s <= u => b[s] = c[s]
  /\ \A s \in Sessions : d <= s /\ s < u => SameBook(book, other, s)

\* So they give one verdict.
LEMMA VerdictStands ==
  ASSUME ResearchAssumption, OutcomesAssumption,
         NEW b \in [Sessions -> Bars], NEW c \in [Sessions -> Bars],
         NEW book, NEW other, NEW n, NEW d \in Sessions, NEW rec,
         ~NoVerdict(b, book, n, d, rec), NEW u, u = Until(b, book, n, d),
         Alike(b, c, book, other, d, u)
  PROVE  /\ ~NoVerdict(c, other, n, d, rec)
         /\ Found(c, other, n, d) = Found(b, book, n, d)
<1>a. /\ \A s \in Sessions : d <= s /\ s <= u => b[s] = c[s]
      /\ \A s \in Sessions : d <= s /\ s < u => SameBook(book, other, s)
  BY DEF Alike
<1> DEFINE F == After(b, d)
           G == After(c, d)
           A == Ending(b, book, n, d)
           B == Ending(c, other, n, d)
<1>0. \A t \in Sessions : t \in Nat
  BY DEF Sessions
<1>1. F \in SUBSET Sessions /\ G \in SUBSET Sessions
  BY AfterIs
<1>2. /\ u \in Held(F) /\ u \in F /\ u \in Sessions
      /\ A # {} => u \in A /\ \A s \in A : u <= s
      /\ A = {} => /\ Cardinality(F) > MaxHold
                   /\ \A s \in Held(F) : s <= u
                   /\ Cardinality(Earlier(F, u)) = MaxHold
  BY VerdictDay
<1>3. \A t \in Sessions : t <= u => (t \in F <=> t \in G)
  BY <1>a, <1>0, <1>2, AfterIs
<1>. HIDE DEF F, G
<1>4. /\ Min(F) \in F /\ Min(F) <= u /\ Min(G) = Min(F)
      /\ \A s \in Sessions : s <= u => Earlier(F, s) = Earlier(G, s)
      /\ \A s \in Sessions : s <= u => (s \in Held(F) <=> s \in Held(G))
  <2>1. u \in F
    BY <1>2
  <2>. QED BY <1>1, <1>3, <2>1, HeldAgree
<1>5. Held(F) \subseteq F /\ Held(G) \subseteq G
  BY DEF Held
<1>6. u \in G /\ u \in Held(G)
  BY <1>0, <1>2, <1>3, <1>4
<1>7. \A s \in F : d < s
  BY AfterIs DEF F
<1>8. ASSUME NEW s \in Sessions, s <= u PROVE s \in A <=> s \in B
  <2>1. s \in Held(F) /\ s # Min(F) =>
          (Ends(b, book, n, F, s) <=> Ends(c, other, n, G, s))
    BY <1>a, <1>2, <1>5, <1>8, EndsAgree DEF F, G
  <2>2. s \in A <=> s \in Held(F) /\ s # Min(F) /\ Ends(b, book, n, F, s)
    BY DEF Ending, F
  <2>3. s \in B <=> s \in Held(G) /\ s # Min(G) /\ Ends(c, other, n, G, s)
    BY DEF Ending, G
  <2>. QED BY <1>4, <1>8, <2>1, <2>2, <2>3
<1>9. A \subseteq Sessions /\ B \subseteq Sessions /\ B \subseteq Held(G)
  BY <1>1, <1>5 DEF Ending, F, G
<1>. HIDE DEF A, B
<1>10. (A = {} <=> B = {}) /\ Until(c, other, n, d) = u
  <2>1. CASE A # {}
    <3>1. u \in B
      BY <1>0, <1>2, <1>8, <2>1
    <3>2. ASSUME NEW x \in B PROVE u <= x
      <4>1. x <= u => x \in A
        BY <1>8, <1>9
      <4>2. x \in Nat /\ u \in Nat
        BY <1>0, <1>2, <1>9
      <4>. QED BY <1>2, <2>1, <4>1, <4>2
    <3>3. B \subseteq Nat
      BY <1>0, <1>9
    <3>4. Min(B) = u
      BY <3>1, <3>2, <3>3, MinIs
    <3>. QED BY <2>1, <3>1, <3>4 DEF Until, B
  <2>2. CASE A = {}
    <3>1. Cardinality(Earlier(G, u)) = MaxHold /\ MaxHold \in Nat
      BY <1>0, <1>2, <1>4, <2>2 DEF OutcomesAssumption
    <3>2. ASSUME NEW w \in Held(G) PROVE w <= u
      <4>1. w \in G /\ Cardinality(Earlier(G, w)) <= MaxHold
        BY <1>5 DEF Held, Earlier
      <4>2. ~(u < w)
        <5>1. Cardinality(Earlier(G, w)) \in Nat
          BY <1>1, EarlierFinite
        <5>2. u < w => Cardinality(Earlier(G, u)) + 1 <= Cardinality(Earlier(G, w))
          BY <1>1, <1>6, <4>1, OneMoreEarlier
        <5>. QED BY <3>1, <4>1, <5>1, <5>2
      <4>. QED BY <1>0, <1>1, <1>2, <4>1, <4>2
    <3>3. Held(G) \subseteq Nat
      BY <1>0, <1>1, <1>5
    <3>4. Max(Held(G)) = u
      BY <1>6, <3>2, <3>3, MaxIs
    <3>5. B = {}
      BY <1>8, <1>9, <2>2, <3>2
    <3>. QED BY <2>2, <3>4, <3>5 DEF Until, B, G
  <2>. QED BY <2>1, <2>2
<1>11. Locked(b, book, n, d) <=> Locked(c, other, n, d)
  <2>1. Locked(b, book, n, d) <=>
          \E s \in Held(F) : Min(F) < s /\ s <= u /\ b[s] = "lockedlow"
    BY DEF Locked, F
  <2>2. Locked(c, other, n, d) <=>
          \E s \in Held(G) : Min(G) < s /\ s <= u /\ c[s] = "lockedlow"
    BY <1>10 DEF Locked, G
  <2>3. ASSUME NEW s \in Sessions, s <= u
        PROVE  /\ s \in Held(F) <=> s \in Held(G)
               /\ s \in Held(F) => b[s] = c[s]
    <3>1. s \in Held(F) => d <= s
      BY <1>0, <1>5, <1>7
    <3>. QED BY <1>a, <1>4, <2>3, <3>1
  <2>4. Held(F) \subseteq Sessions /\ Held(G) \subseteq Sessions
    BY <1>1, <1>5
  <2>. QED BY <1>4, <2>1, <2>2, <2>3, <2>4
<1>12. ~NoVerdict(c, other, n, d, rec)
  <2>1. G # {}
    BY <1>6
  <2>2. c[Min(G)] = b[Min(F)]
    BY <1>a, <1>0, <1>1, <1>4, <1>7
  <2>3. c[d] = b[d]
    BY <1>a, <1>0, <1>2, <1>7
  <2>4. B = {} => Cardinality(G) > MaxHold
    <3>1. Cardinality(Earlier(G, u)) + 1 <= Cardinality(G) /\ Cardinality(G) \in Nat
      BY <1>1, <1>6, OneMoreEarlier, EarlierFinite
    <3>2. B = {} => Cardinality(Earlier(G, u)) = MaxHold
      BY <1>2, <1>4, <1>10
    <3>. QED BY <3>1, <3>2 DEF OutcomesAssumption
  <2>5. B = {} => ~(Cardinality(G) <= MaxHold)
    BY <1>1, <2>4, EarlierFinite DEF OutcomesAssumption
  <2>6. b[Min(F)] # "noopen" /\ rec.close /\ b[d] # "none"
    BY DEF NoVerdict, F
  <2>. QED BY <2>1, <2>2, <2>3, <2>5, <2>6 DEF NoVerdict, G, B
<1>13. b[u] = c[u]
  BY <1>a, <1>0, <1>2, <1>7
<1>. QED BY <1>10, <1>11, <1>12, <1>13 DEF Found, A, B

-----------------------------------------------------------------------------
(***************************************************************************)
(* What is found stays true.  The bars a verdict has read have printed and *)
(* the book it has read is written; both move afterwards only on sessions  *)
(* that are then counted as revised.                                       *)
(***************************************************************************)
Unprinted == \A n \in Names : \A s \in Sessions : s > now => bars[n][s] = "none"

\* The rows a request has not read, when it comes to judge, are of revised sessions.
LateRows ==
  \A r \in Resolvers : pc[r] = "read" =>
    \A i \in DOMAIN ledger : i > sawLedger[r] => ledger[i].date \in revised

\* A row agrees with what would be found with everything known now.
Stands(o) ==
  /\ o.run \in DOMAIN ledger /\ o.name \in Names /\ o.date = ledger[o.run].date
  /\ revised \cap (o.date)..(o.verdict.day) = {} =>
       Verdict(bars[o.name], BookByDate(ledger), o.name, o.date, ledger[o.run].rec)
         = {o.verdict}

\* A row is on file, or about to be written.
Trade(o) ==
  \/ \E k \in DOMAIN outcomes : o = outcomes[k]
  \/ \E r \in Resolvers : \E k \in DOMAIN buffer[r] : o = buffer[r][k]

FinalInv == Unprinted /\ LateRows /\ \A o : Trade(o) => Stands(o)

\* A row of an error, and one of another session, say nothing of the book of session s.
LEMMA BookKept ==
  ASSUME NEW rows \in Seq(Row), NEW more \in Seq(Row), Len(rows) <= Len(more),
         \A i \in DOMAIN rows : more[i] = rows[i], NEW s,
         \A i \in DOMAIN more : i > Len(rows) => more[i].date # s
  PROVE  SameBook(BookByDate(rows), BookByDate(more), s)
<1>1. RunsOf(rows, s) = RunsOf(more, s)
  <2>1. DOMAIN rows \subseteq DOMAIN more
    OBVIOUS
  <2>2. \A i \in DOMAIN more : i \in DOMAIN rows \/ i > Len(rows)
    OBVIOUS
  <2>. QED BY <2>1, <2>2 DEF RunsOf
<1>2. s \in DOMAIN BookByDate(rows) <=> RunsOf(rows, s) # {}
  BY DEF BookByDate, RunsOf
<1>3. s \in DOMAIN BookByDate(more) <=> RunsOf(more, s) # {}
  BY DEF BookByDate, RunsOf
<1>4. ASSUME RunsOf(rows, s) # {}
      PROVE  BookByDate(rows)[s] = BookByDate(more)[s]
  <2>1. /\ RunsOf(rows, s) \subseteq 1..Len(rows) /\ Len(rows) \in Nat
        /\ RunsOf(rows, s) \subseteq Nat
        /\ \A x \in RunsOf(rows, s) : x <= Len(rows)
    BY DEF RunsOf
  <2>2. Max(RunsOf(rows, s)) \in DOMAIN rows
    BY <1>4, <2>1, MaxIsGreatest
  <2>3. BookByDate(rows)[s] = rows[Max(RunsOf(rows, s))].calls
    BY <1>2, <1>4 DEF BookByDate
  <2>4. BookByDate(more)[s] = more[Max(RunsOf(more, s))].calls
    BY <1>1, <1>3, <1>4 DEF BookByDate
  <2>. QED BY <1>1, <2>2, <2>3, <2>4
<1>. QED BY <1>1, <1>2, <1>3, <1>4 DEF SameBook

\* Bars up to session t and a book before it are as others, but for the sessions R.
Undisturbed(b, c, book, other, t, R) ==
  /\ \A s \in Sessions : s > t => b[s] = "none"
  /\ \A s \in Sessions : s <= t /\ s \notin R => b[s] = c[s]
  /\ \A s \in Sessions : s < t /\ s \notin R => SameBook(book, other, s)

\* What was found with the ones still is with the others, if R is not in between.
LEMMA StillFound ==
  ASSUME ResearchAssumption, OutcomesAssumption,
         NEW b \in [Sessions -> Bars], NEW c \in [Sessions -> Bars], NEW book, NEW other,
         NEW n, NEW d \in Sessions, NEW rec, NEW v, NEW t \in Nat, NEW R,
         Verdict(b, book, n, d, rec) = {v},
         R \cap d..(v.day) = {}, Undisturbed(b, c, book, other, t, R)
  PROVE  Verdict(c, other, n, d, rec) = {v}
<1>1. ~NoVerdict(b, book, n, d, rec) /\ v = Found(b, book, n, d)
  BY VerdictIs
<1>2. PICK u : u = Until(b, book, n, d)
  OBVIOUS
<1>3. v.day = u
  BY <1>1, <1>2 DEF Found
<1>4. u \in After(b, d) /\ u \in Sessions
  BY <1>1, <1>2, VerdictDay
<1>5. u <= t /\ \A s \in Sessions : s \in Nat
  <2>1. \A s \in Sessions : s \in Nat
    BY DEF Sessions
  <2>2. ~(u > t)
    BY <1>4, AfterIs DEF Undisturbed
  <2>. QED BY <1>4, <2>1, <2>2
<1>6. \A s \in Sessions : d <= s /\ s <= u => s \notin R
  BY <1>3, <1>5 DEF Sessions
<1>7. \A s \in Sessions : d <= s /\ s <= u => b[s] = c[s]
  BY <1>4, <1>5, <1>6 DEF Undisturbed
<1>8. \A s \in Sessions : d <= s /\ s < u => SameBook(book, other, s)
  BY <1>4, <1>5, <1>6 DEF Undisturbed
<1>9. /\ ~NoVerdict(c, other, n, d, rec)
      /\ Found(c, other, n, d) = Found(b, book, n, d)
  <2>1. Alike(b, c, book, other, d, u)
    BY <1>7, <1>8 DEF Alike
  <2>. QED BY <1>1, <1>2, <2>1, VerdictStands
<1>. QED BY <1>1, <1>9, VerdictIs

\* A step that revises what it changes of the sessions printed, and keeps the rows.
LEMMA StandsKept ==
  ASSUME ResearchAssumption, OutcomesAssumption, IInv, IInv', Unprinted,
         revised \subseteq revised', Len(ledger) <= Len(ledger'),
         \A i \in DOMAIN ledger : ledger'[i] = ledger[i],
         \A i \in DOMAIN ledger' : i > Len(ledger) =>
           ledger'[i].date \in revised' \/ ledger'[i].date = now,
         \A n \in Names : \A s \in Sessions :
           s <= now /\ s \notin revised' => bars'[n][s] = bars[n][s],
         NEW o, Stands(o)
  PROVE  Stands(o)'
<1>1. /\ ledger \in Seq(Row) /\ ledger' \in Seq(Row) /\ now \in Nat
      /\ bars \in [Names -> [Sessions -> Bars]] /\ bars' \in [Names -> [Sessions -> Bars]]
  BY DEF IInv, WorldOK, Sessions
<1>2. /\ o.run \in DOMAIN ledger /\ o.name \in Names /\ o.date = ledger[o.run].date
      /\ o.run \in DOMAIN ledger' /\ ledger'[o.run] = ledger[o.run]
  <2>1. DOMAIN ledger \subseteq DOMAIN ledger'
    BY <1>1
  <2>. QED BY <2>1 DEF Stands
<1>3. o.date \in Sessions
  <2>1. ledger[o.run] \in Row
    BY <1>1, <1>2
  <2>. QED BY <1>2, <2>1 DEF Row
<1>4. ASSUME revised' \cap (o.date)..(o.verdict.day) = {}
      PROVE  Verdict(bars'[o.name], BookByDate(ledger'), o.name, o.date, ledger[o.run].rec)
               = {o.verdict}
  <2>1. Verdict(bars[o.name], BookByDate(ledger), o.name, o.date, ledger[o.run].rec)
          = {o.verdict}
    BY <1>4 DEF Stands
  <2>2. ASSUME NEW s \in Sessions, s < now, s \notin revised'
        PROVE  SameBook(BookByDate(ledger), BookByDate(ledger'), s)
    <3>1. \A i \in DOMAIN ledger' : i > Len(ledger) => ledger'[i].date # s
      BY <1>1, <2>2
    <3>. QED BY <1>1, <3>1, BookKept
  <2>3. \A s \in Sessions : s > now => bars[o.name][s] = "none"
    BY <1>2 DEF Unprinted
  <2>4. \A s \in Sessions : s <= now /\ s \notin revised' => bars[o.name][s] = bars'[o.name][s]
    BY <1>2
  <2>5. bars[o.name] \in [Sessions -> Bars] /\ bars'[o.name] \in [Sessions -> Bars]
    BY <1>1, <1>2
  <2>6. PICK b, c, book, other, n, d, rec, v, t, R :
          /\ b = bars[o.name] /\ c = bars'[o.name] /\ book = BookByDate(ledger)
          /\ other = BookByDate(ledger') /\ n = o.name /\ d = o.date
          /\ rec = ledger[o.run].rec /\ v = o.verdict /\ t = now /\ R = revised'
    OBVIOUS
  <2>7. b \in [Sessions -> Bars] /\ c \in [Sessions -> Bars] /\ d \in Sessions /\ t \in Nat
    BY <1>1, <1>3, <2>5, <2>6
  <2>8. Verdict(b, book, n, d, rec) = {v} /\ R \cap d..(v.day) = {}
    BY <1>4, <2>1, <2>6
  <2>9. Undisturbed(b, c, book, other, t, R)
    BY <2>2, <2>3, <2>4, <2>6 DEF Undisturbed
  <2>10. Verdict(c, other, n, d, rec) = {v}
    BY <2>7, <2>8, <2>9, StillFound
  <2>. QED BY <2>6, <2>10
<1>. QED BY <1>2, <1>4 DEF Stands

LEMMA InitFinal ==
  ASSUME ResearchAssumption, Init
  PROVE  FinalInv
<1>1. Unprinted
  BY DEF Init, Unprinted, Sessions
<1>2. LateRows /\ \A o : ~Trade(o)
  BY DEF Init, LateRows, Trade
<1>. QED BY <1>1, <1>2 DEF FinalInv

LEMMA StepUnprinted ==
  ASSUME IInv, Unprinted, Next \/ UNCHANGED vars
  PROVE  Unprinted'
<1>. USE DEF IInv, WorldOK, Sessions
<1>1. ASSUME NEW row \in [Names -> Observed], NewSession(row) PROVE Unprinted'
  BY <1>1 DEF NewSession, Unprinted
<1>2. ASSUME NEW n \in Names, NEW s \in Sessions, NEW bar \in Observed \ {"none"},
             LateBar(n, s, bar)
      PROVE  Unprinted'
  BY <1>2 DEF LateBar, Unprinted
<1>3. CASE UNCHANGED <<now, bars>>
  BY <1>3 DEF Unprinted
<1>4. \/ UNCHANGED <<now, bars>>
      \/ \E row \in [Names -> Observed] : NewSession(row)
      \/ \E n \in Names, s \in Sessions, bar \in Observed \ {"none"} : LateBar(n, s, bar)
  BY DEF Next, Engine, Study, Request, Retune, Restart, Ask, Run, OpenEpoch, CloseEpoch, Register, Edit,
         ReadFiles, Resolve, Write, Die, vars, market
<1>. QED BY <1>1, <1>2, <1>3, <1>4

\* Every step keeps the rows of the ledger, and counts as revised what it changes of
\* the sessions before the present one.
Revises ==
  /\ revised \subseteq revised' /\ Len(ledger) <= Len(ledger')
  /\ \A i \in DOMAIN ledger : ledger'[i] = ledger[i]
  /\ \A i \in DOMAIN ledger' : i > Len(ledger) =>
       ledger'[i].date \in revised' \/ ledger'[i].date = now
  /\ \A n \in Names : \A s \in Sessions :
       s <= now /\ s \notin revised' => bars'[n][s] = bars[n][s]

LEMMA RunRevises ==
  ASSUME IInv, NEW p, NEW date \in Sessions, NEW calls, NEW rec, NEW error,
         Run(p, date, calls, rec, error)
  PROVE  /\ Revises
         /\ InFlight => \A i \in DOMAIN ledger' : i > Len(ledger) => ledger'[i].date \in revised'
<1> DEFINE row == [date |-> date, calls |-> calls, rec |-> rec, version |-> Identity(p),
                   error |-> error]
<1>1. /\ ledger' = Append(ledger, row) /\ date \in 1..now /\ UNCHANGED bars
      /\ revised' = IF date < now \/ InFlight THEN revised \cup {date} ELSE revised
  BY DEF Run, RunDates, market
<1>2. row.date = date
  OBVIOUS
<1>. HIDE DEF row
<1>3. ledger \in Seq(Row) /\ now \in Nat
  BY DEF IInv, WorldOK, Sessions
<1>4. /\ Len(ledger') = Len(ledger) + 1 /\ Len(ledger) \in Nat
      /\ \A i \in DOMAIN ledger : ledger'[i] = ledger[i]
      /\ \A i \in DOMAIN ledger' : i > Len(ledger) => ledger'[i] = row
  BY <1>1, <1>3
<1>5. date \in revised' \/ date = now
  BY <1>1, <1>3
<1>6. InFlight => date \in revised'
  BY <1>1
<1>. QED BY <1>1, <1>2, <1>4, <1>5, <1>6 DEF Revises

LEMMA StepRevises ==
  ASSUME IInv, Next \/ UNCHANGED vars
  PROVE  Revises
<1>0. Len(ledger) \in Nat
  BY DEF IInv, WorldOK
<1>1. ASSUME NEW row \in [Names -> Observed], NewSession(row) PROVE Revises
  BY <1>0, <1>1 DEF NewSession, history, Revises, IInv, WorldOK, Sessions
<1>2. ASSUME NEW n \in Names, NEW s \in Sessions, NEW bar \in Observed \ {"none"},
             LateBar(n, s, bar)
      PROVE  Revises
  BY <1>0, <1>2 DEF LateBar, Revises, IInv, WorldOK
<1>3. CASE UNCHANGED <<bars, ledger, revised>>
  BY <1>0, <1>3 DEF Revises
<1>4. \/ UNCHANGED <<bars, ledger, revised>>
      \/ \E row \in [Names -> Observed] : NewSession(row)
      \/ \E n \in Names, s \in Sessions, bar \in Observed \ {"none"} : LateBar(n, s, bar)
      \/ \E p \in Processes, date \in Sessions, calls \in SUBSET Names,
            rec \in Recs \cup {NoRec}, error \in BOOLEAN : Run(p, date, calls, rec, error)
  BY DEF Next, Engine, Study, Request, Retune, Restart, Ask, OpenEpoch, CloseEpoch, Register, Edit,
         ReadFiles, Resolve, Write, Die, vars, market, history
<1>. QED BY <1>1, <1>2, <1>3, <1>4, RunRevises

LEMMA StepLateRows ==
  ASSUME IInv, LateRows, Revises, Next \/ UNCHANGED vars
  PROVE  LateRows'
<1>0. /\ pc \in [Resolvers -> {"idle", "read", "write"}]
      /\ sawLedger \in [Resolvers -> Nat] /\ ledger \in Seq(Row)
      /\ \A r \in Resolvers : sawLedger[r] <= Len(ledger)
  BY DEF IInv, WorldOK, RequestsOK
<1>1. CASE UNCHANGED <<ledger, pc, sawLedger>>
  BY <1>1 DEF LateRows, Revises
<1>2. ASSUME NEW p, NEW date \in Sessions, NEW calls, NEW rec, NEW error,
             Run(p, date, calls, rec, error)
      PROVE  LateRows'
  <2>1. UNCHANGED <<pc, sawLedger>>
    BY <1>2 DEF Run, resolving
  <2>2. ASSUME NEW r \in Resolvers, pc[r] = "read", NEW i \in DOMAIN ledger',
               i > sawLedger[r]
        PROVE  ledger'[i].date \in revised'
    <3>1. InFlight
      BY <2>2 DEF InFlight
    <3>2. CASE i > Len(ledger)
      BY <1>2, <3>1, <3>2, RunRevises
    <3>3. CASE ~(i > Len(ledger))
      <4>1. PICK row : ledger' = Append(ledger, row)
        BY <1>2 DEF Run
      <4>2. i \in DOMAIN ledger
        BY <1>0, <3>3, <4>1
      <4>. QED BY <2>2, <4>2 DEF LateRows, Revises
    <3>. QED BY <3>2, <3>3
  <2>. QED BY <2>1, <2>2 DEF LateRows
<1>3. ASSUME NEW r \in Resolvers, Request(r) PROVE LateRows'
  <2>1. UNCHANGED <<ledger, revised>>
    BY <1>3 DEF Request, ReadFiles, Resolve, Write, Die, history
  <2>2. \/ /\ pc' = [pc EXCEPT ![r] = "read"]
           /\ sawLedger' = [sawLedger EXCEPT ![r] = Len(ledger)]
        \/ pc' = [pc EXCEPT ![r] = "write"] /\ UNCHANGED sawLedger
        \/ /\ pc' = [pc EXCEPT ![r] = "idle"]
           /\ sawLedger' = [sawLedger EXCEPT ![r] = 0]
    BY <1>3 DEF Request, ReadFiles, Resolve, Write, Die, Finished
  <2>. QED BY <1>0, <2>1, <2>2 DEF LateRows
<1>4. \/ UNCHANGED <<ledger, pc, sawLedger>>
      \/ \E p \in Processes, date \in Sessions, calls \in SUBSET Names,
            rec \in Recs \cup {NoRec}, error \in BOOLEAN : Run(p, date, calls, rec, error)
      \/ \E r \in Resolvers : Request(r)
  BY DEF Next, Engine, Study, NewSession, LateBar, Retune, Restart, Ask, OpenEpoch, CloseEpoch, Register,
         Edit, vars, resolving
<1>. QED BY <1>1, <1>2, <1>3, <1>4

\* What an append leaves was on file or in what it was given.
LEMMA AppendedAre ==
  ASSUME NEW S, outcomes \in Seq(S), NEW rows \in Seq(S), rows # << >>,
         NEW k \in DOMAIN Appended(rows)
  PROVE  \/ \E j \in DOMAIN outcomes : Appended(rows)[k] = outcomes[j]
         \/ \E j \in DOMAIN rows : Appended(rows)[k] = rows[j]
<1>1. CASE torn
  <2>1. Appended(rows) = outcomes \o Tail(rows) /\ Tail(rows) \in Seq(S)
    BY <1>1 DEF Appended
  <2>2. CASE k \in DOMAIN outcomes
    BY <2>1, <2>2
  <2>3. CASE k \notin DOMAIN outcomes
    <3>1. k - Len(outcomes) \in DOMAIN Tail(rows)
          /\ Appended(rows)[k] = Tail(rows)[k - Len(outcomes)]
      BY <2>1, <2>3
    <3>2. k - Len(outcomes) + 1 \in DOMAIN rows
          /\ Tail(rows)[k - Len(outcomes)] = rows[k - Len(outcomes) + 1]
      BY <3>1
    <3>. QED BY <3>1, <3>2
  <2>. QED BY <2>2, <2>3
<1>2. CASE ~torn
  <2>1. Appended(rows) = outcomes \o rows
    BY <1>2 DEF Appended
  <2>2. CASE k \in DOMAIN outcomes
    BY <2>1, <2>2
  <2>3. CASE k \notin DOMAIN outcomes
    <3>1. k - Len(outcomes) \in DOMAIN rows
          /\ Appended(rows)[k] = rows[k - Len(outcomes)]
      BY <2>1, <2>3
    <3>. QED BY <3>1
  <2>. QED BY <2>2, <2>3
<1>. QED BY <1>1, <1>2

\* A row comes from what a request has judged, and from nowhere else.
LEMMA StepTrades ==
  ASSUME IInv, Next \/ UNCHANGED vars, NEW o, Trade(o)'
  PROVE  \/ Trade(o)
         \/ \E r \in Resolvers : /\ Resolve(r)
                                 /\ \E c \in Judged(r) : o = Outcome(Rows(r), c)
<1>1. PICK S : outcomes \in Seq(S) /\ buffer \in [Resolvers -> Seq(S)]
  BY DEF IInv, OutcomesOK
<1>2. CASE UNCHANGED <<outcomes, buffer>>
  BY <1>2 DEF Trade
<1>3. ASSUME NEW r \in Resolvers, ReadFiles(r) PROVE Trade(o)
  BY <1>3 DEF ReadFiles, record, Trade
<1>4. ASSUME NEW r \in Resolvers, Resolve(r)
      PROVE  Trade(o) \/ \E c \in Judged(r) : o = Outcome(Rows(r), c)
  <2>1. UNCHANGED outcomes
    BY <1>4 DEF Resolve, record
  <2>2. CASE Judged(r) = {}
    <3>1. buffer' = [buffer EXCEPT ![r] = << >>]
      BY <1>4, <2>2 DEF Resolve, Finished
    <3>. QED BY <1>1, <2>1, <3>1 DEF Trade
  <2>3. CASE Judged(r) # {}
    <3>1. PICK q \in InOrder(Judged(r)) :
            buffer' = [buffer EXCEPT ![r] = [k \in DOMAIN q |-> Outcome(Rows(r), q[k])]]
      BY <1>4, <2>3 DEF Resolve
    <3>2. \A k \in DOMAIN q : q[k] \in Judged(r)
      BY DEF InOrder
    <3>. QED BY <1>1, <2>1, <3>1, <3>2 DEF Trade
  <2>. QED BY <2>2, <2>3
<1>5. ASSUME NEW r \in Resolvers, Write(r) \/ Die(r) PROVE Trade(o)
  <2>1. buffer' = [buffer EXCEPT ![r] = << >>]
    BY <1>5 DEF Write, Die, Finished
  <2>2. ASSUME NEW rows \in Seq(S), rows # << >>, DOMAIN rows \subseteq DOMAIN buffer[r],
               \A k \in DOMAIN rows : rows[k] = buffer[r][k], outcomes' = Appended(rows)
        PROVE  Trade(o)
    <3>1. \A k \in DOMAIN outcomes' :
            \/ \E j \in DOMAIN outcomes : outcomes'[k] = outcomes[j]
            \/ \E j \in DOMAIN buffer[r] : outcomes'[k] = buffer[r][j]
      BY <1>1, <2>2, AppendedAre
    <3>. QED BY <1>1, <2>1, <3>1 DEF Trade
  <2>3. CASE UNCHANGED outcomes
    BY <1>1, <2>1, <2>3 DEF Trade
  <2>4. CASE Write(r)
    <3>1. buffer[r] \in Seq(S) /\ buffer[r] # << >> /\ outcomes' = Appended(buffer[r])
      BY <1>1, <2>4 DEF Write, IInv, RequestsOK
    <3>. QED BY <2>2, <3>1
  <2>5. ASSUME NEW k \in 1..(Len(buffer[r]) - 1),
               outcomes' = Appended(SubSeq(buffer[r], 1, k))
        PROVE  Trade(o)
    <3> DEFINE rows == SubSeq(buffer[r], 1, k)
    <3>1. buffer[r] \in Seq(S) /\ k \in 1..Len(buffer[r])
      BY <1>1, <2>5
    <3>2. /\ rows \in Seq(S) /\ rows # << >> /\ DOMAIN rows \subseteq DOMAIN buffer[r]
          /\ \A j \in DOMAIN rows : rows[j] = buffer[r][j]
          /\ outcomes' = Appended(rows)
      BY <2>5, <3>1
    <3>. HIDE DEF rows
    <3>. QED BY <2>2, <3>2
  <2>6. CASE Die(r)
    <3>1. \/ UNCHANGED outcomes
          \/ \E k \in 0..(Len(buffer[r]) - 1) :
               outcomes' = IF k = 0 THEN outcomes ELSE Appended(SubSeq(buffer[r], 1, k))
      BY <2>6 DEF Die, record
    <3>2. \A k \in 0..(Len(buffer[r]) - 1) : k = 0 \/ k \in 1..(Len(buffer[r]) - 1)
      BY <1>1
    <3>. QED BY <2>3, <2>5, <3>1, <3>2
  <2>. QED BY <1>5, <2>4, <2>6
<1>6. \/ UNCHANGED <<outcomes, buffer>>
      \/ \E r \in Resolvers : Request(r)
  BY DEF Next, Engine, Study, NewSession, LateBar, Retune, Restart, Ask, Run, OpenEpoch, CloseEpoch,
         Register, Edit, vars, record, resolving
<1>. QED BY <1>2, <1>3, <1>4, <1>5, <1>6 DEF Request

\* What a request finds in the rows it has read is what all the rows say.
LEMMA ResolvedStands ==
  ASSUME ResearchAssumption, OutcomesAssumption, IInv, Unprinted, LateRows,
         NEW r \in Resolvers, Resolve(r), NEW c \in Judged(r)
  PROVE  Stands(Outcome(Rows(r), c))
<1>1. /\ pc[r] = "read" /\ ledger \in Seq(Row) /\ now \in Nat
      /\ bars \in [Names -> [Sessions -> Bars]]
      /\ sawLedger[r] \in Nat /\ sawLedger[r] <= Len(ledger)
  BY DEF Resolve, IInv, WorldOK, RequestsOK, Sessions
<1>2. PICK rows : rows = Rows(r)
  OBVIOUS
<1>3. /\ rows \in Seq(Row) /\ Len(rows) = sawLedger[r] /\ Len(rows) <= Len(ledger)
      /\ \A i \in DOMAIN rows : i \in DOMAIN ledger /\ ledger[i] = rows[i]
  BY <1>1, <1>2 DEF Rows
<1>4. /\ c[1] \in DOMAIN rows /\ c[2] \in Names /\ VerdictOn(rows, c) # {}
  BY <1>2 DEF Judged, Pending
<1>5. PICK o : o = Outcome(rows, c)
  OBVIOUS
<1>6. /\ o.run = c[1] /\ o.name = c[2] /\ o.date = rows[c[1]].date
      /\ o.verdict = CHOOSE v \in VerdictOn(rows, c) : TRUE
  BY <1>5 DEF Outcome
<1>7. /\ o.run \in DOMAIN ledger /\ o.name \in Names /\ o.date = ledger[o.run].date
      /\ rows[c[1]] = ledger[o.run] /\ o.date \in Sessions
  <2>1. rows[c[1]] \in Row
    BY <1>3, <1>4
  <2>. QED BY <1>3, <1>4, <1>6, <2>1 DEF Row
<1>8. Verdict(bars[o.name], BookByDate(rows), o.name, o.date, ledger[o.run].rec) = {o.verdict}
  <2>1. VerdictOn(rows, c)
          = Verdict(bars[o.name], BookByDate(rows), o.name, o.date, ledger[o.run].rec)
    BY <1>6, <1>7 DEF VerdictOn
  <2>2. \E v : VerdictOn(rows, c) = {v}
    BY <1>4, <2>1, VerdictIs
  <2>. QED BY <1>6, <2>1, <2>2
<1>9. ASSUME revised \cap (o.date)..(o.verdict.day) = {}
      PROVE  Verdict(bars[o.name], BookByDate(ledger), o.name, o.date, ledger[o.run].rec)
               = {o.verdict}
  <2>1. ASSUME NEW s \in Sessions, s \notin revised
        PROVE  SameBook(BookByDate(rows), BookByDate(ledger), s)
    <3>1. \A i \in DOMAIN ledger : i > Len(rows) => ledger[i].date # s
      BY <1>1, <1>3, <2>1 DEF LateRows
    <3>. QED BY <1>1, <1>3, <3>1, BookKept
  <2>2. PICK b, book, other, n, d, rec, v, t, R :
          /\ b = bars[o.name] /\ book = BookByDate(rows)
          /\ other = BookByDate(ledger) /\ n = o.name /\ d = o.date
          /\ rec = ledger[o.run].rec /\ v = o.verdict /\ t = now /\ R = revised
    OBVIOUS
  <2>3. b \in [Sessions -> Bars] /\ d \in Sessions /\ t \in Nat
    BY <1>1, <1>7, <2>2
  <2>4. Verdict(b, book, n, d, rec) = {v} /\ R \cap d..(v.day) = {}
    BY <1>8, <1>9, <2>2
  <2>5. Undisturbed(b, b, book, other, t, R)
    BY <1>7, <2>1, <2>2 DEF Undisturbed, Unprinted
  <2>6. Verdict(b, other, n, d, rec) = {v}
    BY <2>3, <2>4, <2>5, StillFound
  <2>. QED BY <2>2, <2>6
<1>. QED BY <1>2, <1>5, <1>7, <1>9 DEF Stands

LEMMA StepFinal ==
  ASSUME ResearchAssumption, OutcomesAssumption, IInv, IInv', FinalInv,
         Next \/ UNCHANGED vars
  PROVE  FinalInv'
<1>1. Unprinted' /\ Revises /\ LateRows'
  BY StepUnprinted, StepRevises, StepLateRows DEF FinalInv
<1>2. ASSUME NEW o, Trade(o)' PROVE Stands(o)'
  <2>1. Stands(o)
    BY <1>2, StepTrades, ResolvedStands DEF FinalInv
  <2>. QED BY <1>1, <2>1, StandsKept DEF Revises, FinalInv
<1>. QED BY <1>1, <1>2 DEF FinalInv

\* A row of the outcomes file says what would be found with everything known now, but
\* for trades over a session whose bar or run came late: no verdict uses what came after
\* its exit, and none is given early (_resolve_one, book_by_date).
THEOREM VerdictsAreFinal == Spec => []VerdictIsFinal
<1>1. Init => IInv /\ FinalInv
  BY InitInv, InitFinal, ResearchAssumption
<1>2. IInv /\ [Next]_vars => IInv'
  BY NextStep, StutterStep, ResearchAssumption
<1>3. IInv /\ IInv' /\ FinalInv /\ [Next]_vars => FinalInv'
  BY StepFinal, ResearchAssumption, OutcomesAssumption
<1>4. FinalInv => VerdictIsFinal
  BY DEF FinalInv, Trade, Stands, VerdictIsFinal
<1>. QED BY <1>1, <1>2, <1>3, <1>4, PTL DEF Spec
=============================================================================
