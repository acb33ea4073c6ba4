---------------------------- MODULE IngestProofs ----------------------------
(***************************************************************************)
(* Theorems about the ingest for any number of days, any archive and any   *)
(* number of failures and kills.  The argument: what a run fetched is at   *)
(* every moment in its buffers or in the store, and the tables are written *)
(* in an order that never leaves prices without their index file; a day is *)
(* found empty only in an answer; a day that still counts is stored, tried *)
(* in vain, or ahead of the run, and what the run writes does not change   *)
(* which days count; and of two descriptions of one event exactly one      *)
(* outranks the other.                                                     *)
(***************************************************************************)
EXTENDS Ingest, OrderLemmas

Buffering == {"backfill", "index", "prices", "delivery"}  \* in which something is buffered

\* What a run holds besides sessions.
RunOK ==
  /\ cache \in [Urls -> Entries]
  /\ todo \in Seq(Days)
  /\ step \in Steps

\* What was fetched is buffered or stored, and the tables are written in order.
KeptOK ==
  /\ store \in [Feeds -> SUBSET Days] /\ buffer \in [Feeds -> SUBSET Days]
  /\ fetched \in [Feeds -> SUBSET Days]
  /\ \A f \in Feeds : fetched[f] \subseteq store[f] \cup buffer[f]
  /\ step \notin Buffering => buffer = NoSession
  /\ step \in {"prices", "delivery"} => buffer["index"] = {}
  /\ step = "delivery" => buffer["prices"] = {}
  /\ buffer["prices"] \subseteq buffer["index"] \cup store["index"]
  /\ store["prices"] \subseteq store["index"]

\* Days found empty are days the archive answered for.
DeadOK == emptied \subseteq answered /\ dead \subseteq answered

\* The action table holds rows of the sources, collapsed but between two writes.
Sources == YahooRows \cup ExchangeRows \cup CsvRows
TableOK ==
  /\ actions \subseteq Sources /\ incoming \subseteq Sources
  /\ AdjustedOnce

Before == {"idle", "probe", "members", "select"}  \* in which nothing is fetched yet

\* The days a run works on: it only ever goes back, and once it has settled on a session
\* that is one of the days.
DatesOK ==
  /\ today \in Days /\ published \subseteq Feeds \X Trading
  /\ snapshots \subseteq Days /\ stamp \in 0..MaxDay
  /\ asOf \in 0..MaxDay
  /\ step \notin {"idle", "probe"} => asOf \in Days
  /\ options \in [target : 0..MaxDay, refetch : BOOLEAN, force : BOOLEAN]

\* The days left to fetch are ordered, so with those buffered they are no more than the
\* days there are.
CountOK ==
  /\ pending \in Nat /\ pending + Len(todo) <= MaxDay
  /\ step \in Before => pending = 0 /\ emptied = {}
  /\ dead \subseteq Days /\ emptied \subseteq Days
  /\ checked \in BOOLEAN /\ after \in {"idle", "backfill", "mark"}
  /\ faults \in 0..Faults

Filling == {"backfill", "index", "prices", "delivery", "written", "universe"}

\* What a run that does not fetch again has still to do for its sessions.
Known   == dead \ emptied
Whole   == store["index"] \cap store["prices"]
Counted == {d \in Days : d <= asOf /\ asOf - d <= Span} \ (Known \ Whole)
BackOK ==
  step \in Filling /\ ~options.refetch =>
    /\ Known \cap Range(todo) = {}
    /\ \A f \in Feeds : Known \cap buffer[f] = {}
    /\ step # "universe" => dead \cap emptied = {}
    /\ step = "universe" \/ (step \in Filling \ {"backfill"} /\ after = "mark") => todo = << >>
    /\ \A d \in Counted :
         Cardinality({e \in Counted : e > d}) < History =>
           d \in Whole \cup missed \cup Range(todo) \cup (fetched["index"] \cap fetched["prices"])

IInv == RunOK /\ KeptOK /\ DeadOK /\ TableOK /\ DatesOK /\ CountOK /\ BackOK
-----------------------------------------------------------------------------
(* The operators *)

\* A request ends with what the archive has, something else, nothing, or a failure,
\* whatever was tried again, and leaves an entry a later request can read.
LEMMA AnswerOfGet ==
  ASSUME cache \in [Urls -> Entries], NEW u \in Urls, NEW kept,
         NEW g \in Get(u, kept)
  PROVE  g.got \in {"file", "page", "missing", "failed"} /\ g.entry \in Entries
<1>1. \A o \in Outcomes(Possible(u)) : o \in {"file", "page", "missing", "failed"}
  <2> TAKE o \in Outcomes(Possible(u))
  <2>1. PICK tries \in [1..(Retries + 1) -> Possible(u)] : o = Outcome(tries)
    BY DEF Outcomes
  <2> DEFINE first == {i \in DOMAIN tries : /\ tries[i] # "transient"
                                           /\ \A j \in 1..(i - 1) : tries[j] = "transient"}
  <2>2. CASE \A i \in first : tries[i] = "refused"
    BY <2>1, <2>2 DEF Outcome
  <2>3. CASE ~ \A i \in first : tries[i] = "refused"
    <3>1. o = tries[CHOOSE i \in first : TRUE]
      BY <2>1, <2>3 DEF Outcome
    <3>2. (CHOOSE i \in first : TRUE) \in first
      BY <2>3
    <3>3. \A i, j \in first : i = j
      <4>1. \A i, j \in first : ~(i < j)
        BY <2>1
      <4>2. \A i \in first : i \in Int
        BY <2>1, HttpAssumption DEF HttpAssumption
      <4> QED
        BY <4>1, <4>2
    <3>4. o \in Possible(u) /\ o # "transient" /\ o # "refused"
      BY <2>1, <2>3, <3>1, <3>2, <3>3
    <3> QED
      BY <3>4 DEF Possible
  <2> QED
    BY <2>2, <2>3
<1>2. cache[u] \in Entries
  OBVIOUS
<1>3. CASE Served(cache[u], FALSE) /\ g = [got |-> cache[u].body, entry |-> cache[u], cost |-> 0]
  BY <1>2, <1>3 DEF Served, Entries, Bodies
<1>4. CASE \E o \in Outcomes(Possible(u)) :
             g = [got |-> o, entry |-> IF kept THEN Kept(cache[u], o) ELSE cache[u],
                  cost |-> Cost(u, o)]
  BY <1>1, <1>2, <1>4 DEF Kept, Entries, Bodies
<1> QED
  BY <1>3, <1>4 DEF Get

\* Two different rows of one day and kind, or of one authority and day, are ranked.
LEMMA OneOutranks ==
  ASSUME ActionsAssumption, NEW r, NEW s, IsRow(r), IsRow(s), Outranks(r, s)
  PROVE  ~Outranks(s, r)
<1>1. /\ SourceRank[r.source] \in Nat /\ SourceRank[s.source] \in Nat
      /\ KindOrder[r.kind] \in Nat /\ KindOrder[s.kind] \in Nat
      /\ r.day \in Nat /\ s.day \in Nat
  BY DEF ActionsAssumption, IsRow
<1> QED
  BY <1>1 DEF Outranks

\* No row that a collapse leaves is within the same event as another it leaves.
LEMMA DedupeCollapses ==
  ASSUME ActionsAssumption, NEW table, \A r \in table : IsRow(r)
  PROVE  Dedupe(table) \subseteq table /\ Collapsed(Dedupe(table))
<1> DEFINE rows == Adjusting(table)
           kept == Preferred(rows, LAMBDA r, s : OneEvent(rows, r, s))
<1>1. Dedupe(table) \subseteq table /\ Adjusting(Dedupe(table)) = kept
  BY DEF Dedupe, Preferred, Adjusting, Neutral
<1>2. ASSUME NEW r \in kept, NEW s \in kept, r # s, r.day <= s.day, ~(s.day - r.day > SameEvent)
      PROVE  FALSE
  <2>0. r # s /\ r.day <= s.day /\ ~(s.day - r.day > SameEvent)
    BY <1>2
  <2>1. r \in rows /\ s \in rows /\ IsRow(r) /\ IsRow(s)
    BY DEF Preferred, Adjusting
  <2> HIDE DEF kept
  <2>2. Chained(rows, r, s)
    <3> SUFFICES ASSUME NEW t \in rows, r.day <= t.day, t.day < s.day
                 PROVE  \E u \in rows : t.day < u.day /\ u.day <= t.day + SameEvent
      BY DEF Chained
    <3>1. r.day \in Nat /\ s.day \in Nat /\ t.day \in Nat /\ SameEvent \in Nat
      BY <2>1 DEF IsRow, Adjusting, ActionsAssumption
    <3> QED
      <4>1. t.day < s.day /\ s.day <= t.day + SameEvent
        BY <2>0, <3>1
      <4> QED
        BY <2>1, <4>1
  <2>3. OneEvent(rows, r, s)
    BY <1>2, <2>2 DEF OneEvent
  <2>4. OneEvent(rows, s, r)
    <3>1. r.day \in Nat /\ s.day \in Nat
      BY <2>1 DEF IsRow
    <3>2. CASE s.day <= r.day
      <4>1. \A t \in rows : t.day \in Nat
        BY DEF IsRow, Adjusting
      <4>2. Chained(rows, s, r)
        BY <2>0, <3>1, <4>1 DEF Chained
      <4> QED
        BY <3>2, <4>2 DEF OneEvent
    <3>3. CASE ~(s.day <= r.day)
      BY <2>2, <3>3 DEF OneEvent
    <3> QED
      BY <3>2, <3>3
  <2>5. Outranks(r, s) /\ Outranks(s, r)
    BY <1>2, <2>1, <2>3, <2>4 DEF Preferred, kept
  <2> QED
    BY <2>1, <2>5, OneOutranks
<1> QED
  BY <1>1, <1>2 DEF Collapsed
-----------------------------------------------------------------------------
(* Steps while nothing is buffered *)

\* What such a step does to what was fetched: nothing, or it is forgotten where nothing
\* is buffered.
Quiet ==
  /\ UNCHANGED <<store, dead, answered>>
  /\ step \notin Buffering /\ (step' \notin Buffering \/ step' = "backfill") /\ step' \in Steps
  /\ buffer' \in {buffer, NoSession} /\ fetched' \in {fetched, NoSession}
  /\ emptied' \in {emptied, {}}
  /\ cache' \in [Urls -> Entries] /\ todo' \in Seq(Days)

LEMMA QuietStep ==
  ASSUME KeptOK, DeadOK, Quiet
  PROVE  RunOK' /\ KeptOK' /\ DeadOK'
<1>1. RunOK'
  BY DEF Quiet, RunOK
<1>2. KeptOK'
  <2>1. buffer' = NoSession
    BY DEF Quiet, KeptOK
  <2>2. NoSession \in [Feeds -> SUBSET Days] /\ \A f \in Feeds : NoSession[f] = {}
    BY DEF NoSession
  <2>3. fetched' \in [Feeds -> SUBSET Days]
    BY <2>2 DEF Quiet, KeptOK
  <2>4. \A f \in Feeds : fetched'[f] \subseteq store'[f] \cup buffer'[f]
    BY <2>1, <2>2 DEF Quiet, KeptOK
  <2>5. store'["prices"] \subseteq store'["index"] /\ buffer'["prices"] = {}
    BY <2>1, <2>2 DEF Quiet, KeptOK, Feeds
  <2>6. step' \notin {"prices", "delivery"}
    BY DEF Quiet, Buffering
  <2> QED
    BY <2>1, <2>2, <2>3, <2>4, <2>5, <2>6 DEF Quiet, KeptOK
<1>3. DeadOK'
  BY DEF Quiet, DeadOK
<1> QED
  BY <1>1, <1>2, <1>3

Outside ==
  \/ Archive
  \/ \E target \in 1..today, mode \in Modes : Start(target, mode)
  \/ Probe \/ Fallback \/ Snapshot \/ SelectSessions
  \/ \E strict \in BOOLEAN : ResolveUniverse(strict)
  \/ \E csv \in {{}, CsvRows} : ReadActions(csv)
  \/ OverlayActions \/ CollapseActions \/ RecordActions
  \/ \E gone \in Evictable : Evict(gone)
  \/ CheckDisk \/ Raise

\* The day a probe tries is one of the days.
LEMMA ProbedDay ==
  ASSUME NEW d, cache \in [Urls -> Entries], NEW g \in Get(<<"index", d>>, TRUE)
  PROVE  [cache EXCEPT ![<<"index", d>>] = g.entry] \in [Urls -> Entries]
<1>1. CASE <<"index", d>> \in Urls
  BY <1>1, AnswerOfGet
<1>2. CASE <<"index", d>> \notin Urls
  BY <1>2
<1> QED
  BY <1>1, <1>2

\* What a run selects to fetch is a sequence of days.
LEMMA SelectedDays ==
  ASSUME IngestAssumption
  PROVE  SessionsToFetch \subseteq Seq(Days)
<1> DEFINE reach  == {d \in Days : d <= asOf /\ asOf - d <= Span}
           counts == reach \ (DeadDays \ HaveSession)
           wanted == {d \in counts \ HaveSession :
                        Cardinality({e \in counts : e > d}) < History}
<1>1. IsFiniteSet(Days)
  BY FS_Interval, 1 \in Int DEF Days, IngestAssumption
<1>2. wanted \subseteq Days
  OBVIOUS
<1>3. Cardinality(wanted) \in Nat
  BY <1>1, <1>2, FS_Subset, FS_CardinalityType
<1>4. SessionsToFetch \subseteq [1..Cardinality(wanted) -> wanted]
  BY DEF SessionsToFetch
<1> HIDE DEF wanted
<1>5. [1..Cardinality(wanted) -> wanted] \subseteq Seq(Days)
  BY <1>2, <1>3
<1> QED
  BY <1>4, <1>5

LEMMA OutsideIsQuiet ==
  ASSUME IngestAssumption, RunOK, KeptOK, Outside
  PROVE  Quiet
<1> USE DEF RunOK, Goto
<1>1. CASE Archive
  BY <1>1 DEF Archive, NextDay, Publish, Quiet, Buffering, sessions, work, history
<1>2. CASE \E target \in 1..today, mode \in Modes : Start(target, mode)
  <2>1. /\ UNCHANGED <<store, dead, answered, cache, buffer, emptied, todo>>
        /\ step = "idle" /\ step' \in {"members", "probe"} /\ fetched' = NoSession
    BY <1>2 DEF Start, sessions
  <2> QED
    BY <2>1 DEF Quiet, Buffering, Steps
<1>3. CASE Probe
  <2>1. /\ UNCHANGED <<store, dead, answered, buffer, fetched, emptied, todo>>
        /\ step = "probe" /\ step' \in {"members", "probe"}
    BY <1>3 DEF Probe, sessions, history
  <2>2. cache' \in [Urls -> Entries]
    BY <1>3, ProbedDay DEF Probe
  <2> QED
    BY <2>1, <2>2 DEF Quiet, Buffering, Steps
<1>4. CASE Fallback
  <2>1. /\ UNCHANGED <<store, dead, answered, fetched, cache>>
        /\ step = "probe" /\ step' \in {"members", "idle"}
    BY <1>4 DEF Fallback, Rest, sessions, history
  <2>2. /\ buffer' \in {buffer, NoSession} /\ emptied' \in {emptied, {}}
        /\ todo' \in {todo, << >>}
    BY <1>4 DEF Fallback, Rest
  <2>3. todo' \in Seq(Days)
    <3>1. << >> \in Seq(Days) /\ todo \in Seq(Days)
      OBVIOUS
    <3> QED
      BY <2>2, <3>1, Zenon
  <2> QED
    BY <2>1, <2>2, <2>3 DEF Quiet, Buffering, Steps
<1>5. CASE Snapshot
  BY <1>5 DEF Snapshot, Quiet, Buffering, Steps, sessions, work, history
<1>6. CASE SelectSessions
  <2>1. /\ UNCHANGED <<store, dead, answered, buffer, fetched, emptied, cache>>
        /\ step = "select" /\ step' \in {"universe", "backfill"}
    BY <1>6 DEF SelectSessions, sessions, history
  <2>2. todo' \in Seq(Days)
    BY <1>6, SelectedDays DEF SelectSessions
  <2> QED
    BY <2>1, <2>2 DEF Quiet, Buffering, Steps
<1>7. CASE \E strict \in BOOLEAN : ResolveUniverse(strict)
  <2>1. /\ UNCHANGED <<store, dead, answered, cache>>
        /\ step = "universe" /\ step' \in {"idle", "actions"} /\ fetched' = NoSession
    BY <1>7 DEF ResolveUniverse, Rest, sessions
  <2>2. /\ buffer' \in {buffer, NoSession} /\ emptied' \in {emptied, {}}
        /\ todo' \in {todo, << >>}
    BY <1>7 DEF ResolveUniverse, Rest, work
  <2>3. todo' \in Seq(Days)
    <3>1. << >> \in Seq(Days) /\ todo \in Seq(Days)
      OBVIOUS
    <3> QED
      BY <2>2, <3>1, Zenon
  <2> QED
    BY <2>1, <2>2, <2>3 DEF Quiet, Buffering, Steps
<1>8. CASE \E csv \in {{}, CsvRows} : ReadActions(csv)
  <2>1. /\ UNCHANGED <<store, dead, answered, cache, fetched, buffer, emptied, todo>>
        /\ step = "actions" /\ step' \in {"evict", "overlay"}
    BY <1>8 DEF ReadActions, sessions, history
  <2> QED
    BY <2>1 DEF Quiet, Buffering, Steps
<1>9. CASE OverlayActions
  BY <1>9 DEF OverlayActions, Quiet, Buffering, Steps, sessions, work, history
<1>10. CASE CollapseActions
  BY <1>10 DEF CollapseActions, Quiet, Buffering, Steps, sessions, work
<1>11. CASE RecordActions
  BY <1>11 DEF RecordActions, Quiet, Buffering, Steps, sessions, work, history
<1>12. CASE \E gone \in Evictable : Evict(gone)
  <2>1. Blank \in Entries
    BY DEF Blank, Entries
  <2>2. cache' \in [Urls -> Entries]
    BY <1>12, <2>1 DEF Evict
  <2> QED
    BY <1>12, <2>2 DEF Evict, Rest, Quiet, Buffering, Steps, sessions, history
<1>13. CASE CheckDisk
  <2>1. /\ UNCHANGED <<store, dead, answered, cache, fetched>>
        /\ step = "written" /\ step' \in {"backfill", "idle"}
    BY <1>13 DEF CheckDisk, Rest, sessions, history
  <2>2. /\ buffer' \in {buffer, NoSession} /\ emptied' \in {emptied, {}}
        /\ todo' \in {todo, << >>}
    BY <1>13 DEF CheckDisk, Rest
  <2>3. todo' \in Seq(Days)
    <3>1. << >> \in Seq(Days) /\ todo \in Seq(Days)
      OBVIOUS
    <3> QED
      BY <2>2, <3>1, Zenon
  <2> QED
    BY <2>1, <2>2, <2>3 DEF Quiet, Buffering, Steps
<1>14. CASE Raise
  BY <1>14 DEF Raise, Rest, Quiet, Buffering, Steps, sessions, history
<1> QED
  BY <1>1, <1>2, <1>3, <1>4, <1>5, <1>6, <1>7, <1>8, <1>9, <1>10, <1>11, <1>12, <1>13, <1>14
  DEF Outside
-----------------------------------------------------------------------------
(* The backfill, and a kill *)

\* The writing starts with the index files.
LEMMA WritingStarts ==
  ASSUME RunOK, KeptOK, DeadOK, BatchFull \/ Finally
  PROVE  RunOK' /\ KeptOK' /\ DeadOK'
<1>1. UNCHANGED <<cache, store, dead, todo, buffer, emptied, answered, fetched>>
  BY DEF BatchFull, Finally, sessions, history
<1>2. step = "backfill" /\ step' = "index"
  BY DEF BatchFull, Finally, Goto, FlushOrder
<1>3. RunOK'
  BY <1>1, <1>2 DEF RunOK, Steps
<1>4. KeptOK'
  BY <1>1, <1>2 DEF KeptOK, Buffering
<1>5. DeadOK'
  BY <1>1 DEF DeadOK
<1> QED
  BY <1>3, <1>4, <1>5

\* A day without an index file leaves the buffers as they are, and is empty only if the
\* archive answered; prices and delivery are buffered only beside the index file.
LEMMA FetchKeeps ==
  ASSUME RunOK, KeptOK, DeadOK, FetchDay
  PROVE  RunOK' /\ KeptOK' /\ DeadOK'
<1> DEFINE d == Head(todo)
<1>1. d \in Days /\ todo' \in Seq(Days)
  BY DEF FetchDay, RunOK
<1>2. \A f \in Feeds : <<f, d>> \in Urls
  BY <1>1 DEF Urls
<1>3. step = "backfill" /\ UNCHANGED <<store, dead>>
  BY DEF FetchDay, sessions
<1>4. PICK i \in Get(<<"index", d>>, "index" \in CachedFeeds) :
        IF i.got # "file"
        THEN /\ NoIndex(d, i.got)
             /\ answered' = answered \cup {x \in {d} : i.got \in {"missing", "page"}}
             /\ cache' = [cache EXCEPT ![<<"index", d>>] = i.entry]
        ELSE \E p \in Get(<<"prices", d>>, "prices" \in CachedFeeds),
                v \in Get(<<"delivery", d>>, "delivery" \in CachedFeeds) :
               /\ Beside(d, p.got, v.got)
               /\ UNCHANGED answered
               /\ cache' = [cache EXCEPT ![<<"index", d>>] = i.entry,
                                         ![<<"prices", d>>] = p.entry,
                                         ![<<"delivery", d>>] =
                                           IF p.got = "page" THEN @ ELSE v.entry]
  BY DEF FetchDay
<1>5. i.got \in {"file", "page", "missing", "failed"} /\ i.entry \in Entries
  BY <1>2, AnswerOfGet DEF RunOK, Feeds
<1>6. CASE i.got # "file"
  <2>1. /\ NoIndex(d, i.got)
        /\ answered' = answered \cup {x \in {d} : i.got \in {"missing", "page"}}
        /\ cache' = [cache EXCEPT ![<<"index", d>>] = i.entry]
    BY <1>4, <1>6
  <2>2. UNCHANGED <<buffer, fetched>> /\ step' \in {"index", "backfill"}
    BY <2>1 DEF NoIndex, Escapes, Goto, FlushOrder
  <2>3. RunOK'
    BY <1>1, <1>5, <2>1, <2>2 DEF RunOK, Steps
  <2>4. KeptOK'
    BY <1>3, <2>2 DEF KeptOK, Buffering
  <2>5. DeadOK'
    BY <1>3, <1>5, <1>6, <2>1 DEF NoIndex, DeadOK
  <2> QED
    BY <2>3, <2>4, <2>5
<1>7. CASE i.got = "file"
  <2>1. PICK p \in Get(<<"prices", d>>, "prices" \in CachedFeeds),
             v \in Get(<<"delivery", d>>, "delivery" \in CachedFeeds) :
               /\ Beside(d, p.got, v.got)
               /\ UNCHANGED answered
               /\ cache' = [cache EXCEPT ![<<"index", d>>] = i.entry,
                                         ![<<"prices", d>>] = p.entry,
                                         ![<<"delivery", d>>] =
                                           IF p.got = "page" THEN @ ELSE v.entry]
    BY <1>4, <1>7
  <2>2. p.entry \in Entries /\ v.entry \in Entries
    BY <1>2, AnswerOfGet DEF RunOK, Feeds
  <2>3. step' \in {"index", "backfill"} /\ UNCHANGED emptied
    BY <2>1 DEF Beside, Escapes, Goto, FlushOrder
  <2>4. RunOK'
    <3>1. cache' \in [Urls -> Entries]
      BY <1>5, <2>1, <2>2 DEF RunOK
    <3> QED
      BY <1>1, <2>3, <3>1 DEF RunOK, Steps
  <2>5. PICK whole \in SUBSET Feeds :
          /\ "index" \in whole
          /\ buffer' = [f \in Feeds |-> IF f \in whole THEN buffer[f] \cup {d} ELSE buffer[f]]
          /\ fetched' = [f \in Feeds |-> IF f \in whole THEN fetched[f] \cup {d}
                                         ELSE fetched[f]]
    BY <2>1 DEF Beside, Buffered, Feeds
  <2>6. KeptOK'
    <3>1. /\ buffer' \in [Feeds -> SUBSET Days] /\ fetched' \in [Feeds -> SUBSET Days]
          /\ \A f \in Feeds : fetched'[f] \subseteq store[f] \cup buffer'[f]
      BY <1>1, <2>5 DEF KeptOK
    <3>2. buffer'["prices"] \subseteq buffer'["index"] \cup store["index"]
      BY <2>5 DEF KeptOK, Feeds
    <3> QED
      BY <1>3, <2>3, <3>1, <3>2 DEF KeptOK, Buffering
  <2>7. DeadOK'
    BY <1>3, <2>1, <2>3 DEF DeadOK
  <2> QED
    BY <2>4, <2>6, <2>7
<1> QED
  BY <1>6, <1>7

\* Each table takes its buffer over; the index files are stored before the prices.
LEMMA FlushKeeps ==
  ASSUME RunOK, KeptOK, DeadOK, NEW f \in Feeds, Flush(f)
  PROVE  RunOK' /\ KeptOK' /\ DeadOK'
<1>1. /\ step = f /\ UNCHANGED <<cache, dead, todo, emptied, answered, fetched>>
      /\ store' = [store EXCEPT ![f] = @ \cup buffer[f]]
      /\ buffer' = [buffer EXCEPT ![f] = {}]
  BY DEF Flush, history
<1>2. \/ f = "index" /\ step' = "prices"
      \/ f = "prices" /\ step' = "delivery"
      \/ f = "delivery" /\ step' = "written"
  <2>1. PICK i \in 1..3 : FlushOrder[i] = f /\ step' = FlushOrder[i + 1]
    BY DEF Flush, Goto
  <2>2. i \in {1, 2, 3}
    BY <2>1
  <2> QED
    BY <2>1, <2>2 DEF FlushOrder
<1>3. RunOK'
  BY <1>1, <1>2 DEF RunOK, Steps
<1>4. KeptOK'
  <2>1. /\ store' \in [Feeds -> SUBSET Days] /\ buffer' \in [Feeds -> SUBSET Days]
        /\ \A g \in Feeds : fetched[g] \subseteq store'[g] \cup buffer'[g]
    BY <1>1 DEF KeptOK
  <2>2. CASE f = "index"
    BY <1>1, <1>2, <2>1, <2>2 DEF KeptOK, Buffering, Feeds
  <2>3. CASE f = "prices"
    BY <1>1, <1>2, <2>1, <2>3 DEF KeptOK, Buffering, Feeds
  <2>4. CASE f = "delivery"
    <3>1. \A g \in Feeds : buffer'[g] = {}
      BY <1>1, <2>4 DEF KeptOK, Feeds
    <3>2. buffer' = NoSession
      BY <2>1, <3>1 DEF NoSession
    <3> QED
      BY <1>1, <1>2, <2>1, <2>4, <3>1, <3>2 DEF KeptOK, Buffering, Feeds
  <2> QED
    BY <2>2, <2>3, <2>4 DEF Feeds
<1>5. DeadOK'
  BY <1>1 DEF DeadOK
<1> QED
  BY <1>3, <1>4, <1>5

\* The days found empty are recorded when everything is written.
LEMMA RecordKeeps ==
  ASSUME RunOK, KeptOK, DeadOK, RecordDeadDays
  PROVE  RunOK' /\ KeptOK' /\ DeadOK'
<1>1. /\ UNCHANGED <<cache, store, todo, buffer, emptied, answered, fetched>>
      /\ step = "written" /\ step' = "universe" /\ dead' = dead \cup emptied
  BY DEF RecordDeadDays, work, history, Goto
<1> QED
  BY <1>1 DEF RunOK, KeptOK, DeadOK, Buffering, Steps

\* A kill loses the buffers and with them the claim on what they held.
LEMMA KillKeeps ==
  ASSUME RunOK, KeptOK, DeadOK, Kill
  PROVE  RunOK' /\ KeptOK' /\ DeadOK'
<1>1. /\ UNCHANGED <<store, dead, answered>> /\ step' = "idle" /\ todo' = << >>
      /\ buffer' = NoSession /\ fetched' = NoSession /\ emptied' = {}
  BY DEF Kill, Rest, sessions
<1>2. cache' \in [Urls -> Entries]
  <2>1. \A u \in Urls : KeptHalf(cache[u], "file") \in Entries /\ EvictedHalf(cache[u]) \in Entries
    BY DEF RunOK, KeptHalf, EvictedHalf, Entries, Bodies
  <2> QED
    BY <2>1 DEF Kill, RunOK
<1>3. RunOK'
  BY <1>1, <1>2 DEF RunOK, Steps
<1>4. KeptOK'
  BY <1>1 DEF KeptOK, NoSession, Buffering, Feeds
<1>5. DeadOK'
  BY <1>1 DEF DeadOK
<1> QED
  BY <1>3, <1>4, <1>5
-----------------------------------------------------------------------------
(* The table of corporate actions *)

\* What is merged and overlaid are rows of the sources.
LEMMA RowsOfSources ==
  ASSUME IngestAssumption, ActionsAssumption
  PROVE  /\ \A r \in Sources : IsRow(r)
         /\ \A table \in SUBSET Sources : Dedupe(table) \subseteq Sources
                                         /\ Collapsed(Dedupe(table))
         /\ \A y \in {{}, YahooRows}, e \in {{}, ExchangeRows}, csv \in {{}, CsvRows} :
              MergeSources(y, e, csv) \subseteq Sources
<1>1. \A r \in Sources : IsRow(r)
  BY DEF IngestAssumption, Sources
<1>2. \A table \in SUBSET Sources : Dedupe(table) \subseteq Sources /\ Collapsed(Dedupe(table))
  BY <1>1, DedupeCollapses
<1>3. ASSUME NEW y \in {{}, YahooRows}, NEW e \in {{}, ExchangeRows}, NEW csv \in {{}, CsvRows}
      PROVE  MergeSources(y, e, csv) \subseteq Sources
  <2>1. y \cup e \cup csv \in SUBSET Sources
    BY DEF Sources
  <2> QED
    BY <1>2, <2>1 DEF MergeSources
<1> QED
  BY <1>1, <1>2, <1>3

\* Steps that leave the table, and do not follow its first write.
LEMMA TableKept ==
  ASSUME TableOK, UNCHANGED actions, incoming' \in {incoming, {}}, step # "collapse",
         halved' = halved
  PROVE  TableOK'
BY DEF TableOK, AdjustedOnce, Collapsed, Adjusting, Sources

\* The first write overlays what was merged, the second collapses the whole table.
LEMMA TableStep ==
  ASSUME IngestAssumption, ActionsAssumption, TableOK, Next
  PROVE  TableOK'
<1>1. CASE \E csv \in {{}, CsvRows} : ReadActions(csv)
  <2>1. UNCHANGED <<actions, halved>> /\ step = "actions"
    BY <1>1 DEF ReadActions, history, reference
  <2>2. incoming' \subseteq Sources
    BY <1>1, RowsOfSources DEF ReadActions
  <2> QED
    BY <2>1, <2>2 DEF TableOK, AdjustedOnce, Collapsed, Adjusting, Sources
<1>2. CASE OverlayActions
  <2>1. actions' = Overlay(actions, incoming) /\ step' = "collapse" /\ UNCHANGED incoming
    BY <1>2 DEF OverlayActions, Goto, work
  <2>2. actions' \subseteq Sources
    BY <2>1 DEF Overlay, LastOfKey, TableOK
  <2> QED
    BY <2>1, <2>2 DEF TableOK, AdjustedOnce, Sources
<1>3. CASE CollapseActions
  <2>1. actions' = Dedupe(actions) /\ UNCHANGED incoming
    BY <1>3 DEF CollapseActions, work
  <2>2. actions' \subseteq Sources /\ Collapsed(actions')
    BY <2>1, RowsOfSources DEF TableOK
  <2>3. AdjustedOnce'
    BY <2>2 DEF AdjustedOnce, Collapsed, Adjusting
  <2> QED
    BY <2>1, <2>2, <2>3 DEF TableOK, Sources
<1>4. CASE Kill
  <2>1. UNCHANGED actions /\ incoming' = {} /\ (halved' <=> (halved \/ step = "collapse"))
    BY <1>4 DEF Kill, Rest, reference
  <2> QED
    BY <2>1 DEF TableOK, AdjustedOnce, Collapsed, Adjusting, Sources
<1>5. CASE \/ Archive \/ \E target \in 1..today, mode \in Modes : Start(target, mode)
           \/ Probe \/ Fallback \/ Snapshot \/ SelectSessions
  <2>1. step # "collapse"
    BY <1>5 DEF Archive, NextDay, Publish, Start, Probe, Fallback, Snapshot, SelectSessions
  <2>2. UNCHANGED <<actions, halved>>
    BY <1>5 DEF Archive, NextDay, Publish, Start, Probe, Fallback, Snapshot, SelectSessions,
                reference, history
  <2>3. incoming' \in {incoming, {}}
    BY <1>5 DEF Archive, NextDay, Publish, Start, Probe, Fallback, Snapshot, SelectSessions,
                work, Rest
  <2> QED
    BY <2>1, <2>2, <2>3, TableKept
<1>6. CASE BatchFull \/ CheckDisk \/ FetchDay \/ Finally \/ (\E f \in Feeds : Flush(f))
           \/ Raise \/ RecordDeadDays
  <2>1. step # "collapse"
    BY <1>6 DEF BatchFull, CheckDisk, FetchDay, Finally, Flush, Raise, RecordDeadDays, Feeds
  <2>2. UNCHANGED <<actions, halved>>
    BY <1>6 DEF BatchFull, CheckDisk, FetchDay, Finally, Flush, Raise, RecordDeadDays,
                reference, history
  <2>3. incoming' \in {incoming, {}}
    BY <1>6 DEF BatchFull, CheckDisk, FetchDay, Finally, Flush, Raise, RecordDeadDays, work, Rest
  <2> QED
    BY <2>1, <2>2, <2>3, TableKept
<1>7. CASE (\E strict \in BOOLEAN : ResolveUniverse(strict)) \/ RecordActions
           \/ \E gone \in Evictable : Evict(gone)
  <2>1. step # "collapse" /\ UNCHANGED <<actions, halved>>
    BY <1>7 DEF ResolveUniverse, RecordActions, Evict, reference, history
  <2>2. incoming' \in {incoming, {}}
    BY <1>7 DEF ResolveUniverse, RecordActions, Evict, work, Rest
  <2> QED
    BY <2>1, <2>2, TableKept
<1> QED
  BY <1>1, <1>2, <1>3, <1>4, <1>5, <1>6, <1>7 DEF Next, Run
-----------------------------------------------------------------------------
(* Counting and ordering *)

\* A request costs one fault or none, and no more than are left.
LEMMA CostOfGet ==
  ASSUME faults \in Nat, NEW u, NEW kept, NEW g \in Get(u, kept)
  PROVE  g.cost \in {0, 1} /\ g.cost <= faults
<1>1. \A o : Cost(u, o) \in {0, 1}
  BY DEF Cost
<1>2. CASE g = [got |-> cache[u].body, entry |-> cache[u], cost |-> 0]
  BY <1>2
<1>3. CASE /\ g.cost <= faults
           /\ \E o \in Outcomes(Possible(u)) :
                g = [got |-> o, entry |-> IF kept THEN Kept(cache[u], o) ELSE cache[u],
                     cost |-> Cost(u, o)]
  BY <1>1, <1>3
<1> QED
  BY <1>2, <1>3, Zenon DEF Get

\* A newest-first enumeration of a set of days lists every one of them, once.
LEMMA Enumerated ==
  ASSUME IngestAssumption, NEW S \in SUBSET Days,
         NEW q \in [1..Cardinality(S) -> S], \A i, j \in DOMAIN q : i < j => q[i] > q[j]
  PROVE  /\ q \in Seq(Days) /\ Len(q) = Cardinality(S) /\ Len(q) <= MaxDay
         /\ Range(q) = S
<1>1. IsFiniteSet(Days) /\ Cardinality(Days) = MaxDay
  BY FS_Interval, 1 \in Int DEF Days, IngestAssumption
<1>2. IsFiniteSet(S) /\ Cardinality(S) <= MaxDay /\ Cardinality(S) \in Nat
  BY <1>1, FS_Subset, FS_CardinalityType
<1> DEFINE n == Cardinality(S)
<1>3. n \in Nat /\ n <= MaxDay /\ q \in [1..n -> S] /\ \A i, j \in 1..n : i < j => q[i] > q[j]
  BY <1>2
<1>4. IsFiniteSet(1..n) /\ Cardinality(1..n) = n
  BY <1>3, FS_Interval, 1 \in Int
<1> HIDE DEF n
<1>5. \A i \in 1..n : q[i] \in Nat
  <2>1. \A d \in Days : d \in Nat
    BY DEF Days, IngestAssumption
  <2> QED
    BY <1>3, <2>1
<1>6. q \in Injection(1..n, S)
  <2>1. \A i, j \in 1..n : q[i] = q[j] => i = j
    BY <1>3, <1>5
  <2> QED
    BY <1>3, <2>1 DEF Injection, IsInjective
<1>7. q \in Surjection(1..n, S)
  BY <1>2, <1>4, <1>6, FS_Injection DEF n
<1>8. Range(q) = S
  BY <1>3, <1>7 DEF Range, Surjection
<1>9. q \in Seq(Days) /\ Len(q) = n
  BY <1>3
<1> QED
  BY <1>3, <1>8, <1>9 DEF n

\* What SelectSessions lists.
Wanted(counts) == {d \in counts \ HaveSession : Cardinality({e \in counts : e > d}) < History}
Countable == {d \in Days : d <= asOf /\ asOf - d <= Span} \ (DeadDays \ HaveSession)

LEMMA Selected ==
  ASSUME IngestAssumption, NEW q \in SessionsToFetch
  PROVE  q \in Seq(Days) /\ Len(q) <= MaxDay /\ Range(q) = Wanted(Countable)
<1>1. /\ q \in [1..Cardinality(Wanted(Countable)) -> Wanted(Countable)]
      /\ \A i, j \in DOMAIN q : i < j => q[i] > q[j]
  BY DEF SessionsToFetch, Wanted, Countable
<1>2. Wanted(Countable) \in SUBSET Days
  BY DEF Wanted, Countable
<1> QED
  BY <1>1, <1>2, Enumerated
-----------------------------------------------------------------------------
(* Types *)

\* The ways a run ends.
Over == Rest /\ UNCHANGED <<archive, snapshots, stamp, store, dead, actions, answered>>

\* The steps that go on with the session the run has settled on.
Settled ==
  /\ step \notin {"idle", "probe"}
  /\ UNCHANGED <<archive, snapshots, asOf, options>> /\ stamp' \in {stamp, asOf}

LEMMA Midway ==
  ASSUME \/ SelectSessions \/ BatchFull \/ FetchDay \/ Finally \/ (\E f \in Feeds : Flush(f))
         \/ RecordDeadDays \/ (\E csv \in {{}, CsvRows} : ReadActions(csv))
         \/ OverlayActions \/ CollapseActions \/ RecordActions
  PROVE  Settled
<1>1. CASE SelectSessions \/ BatchFull \/ FetchDay \/ Finally
  BY <1>1 DEF SelectSessions, BatchFull, FetchDay, Finally, Settled, reference
<1>2. CASE (\E f \in Feeds : Flush(f)) \/ RecordDeadDays
  BY <1>2 DEF Flush, RecordDeadDays, Settled, Feeds, reference, work
<1>3. CASE (\E csv \in {{}, CsvRows} : ReadActions(csv)) \/ OverlayActions
           \/ CollapseActions \/ RecordActions
  BY <1>3 DEF ReadActions, OverlayActions, CollapseActions, RecordActions, Settled, reference,
              work
<1> QED
  BY <1>1, <1>2, <1>3

LEMMA DatesStep ==
  ASSUME IngestAssumption, RunOK, KeptOK, DatesOK, Next
  PROVE  DatesOK'
<1> USE DEF DatesOK
<1>1. MaxDay \in Nat \ {0} /\ \A d : d \in Days <=> d \in Nat /\ 1 <= d /\ d <= MaxDay
  BY DEF IngestAssumption, Days
<1>2. ASSUME Settled PROVE DatesOK'
  BY <1>1, <1>2 DEF Settled, archive
<1>3. ASSUME Over PROVE DatesOK'
  BY <1>1, <1>3 DEF Over, Rest, archive, NoOptions
<1>4. CASE Archive
  <2>1. CASE NextDay
    BY <1>1, <2>1 DEF NextDay, reference, work
  <2>2. CASE \E f \in Feeds, d \in Days : Publish(f, d)
    BY <1>1, <2>2 DEF Publish, reference, work
  <2> QED
    BY <1>4, <2>1, <2>2 DEF Archive
<1>5. CASE \E target \in 1..today, mode \in Modes : Start(target, mode)
  <2>1. PICK target \in 1..today, mode \in Modes : Start(target, mode)
    BY <1>5
  <2>2. target \in Days
    BY <1>1
  <2>3. mode.refetch \in BOOLEAN /\ mode.force \in BOOLEAN
    BY DEF IngestAssumption
  <2> QED
    BY <1>1, <2>1, <2>2, <2>3 DEF Start, archive, reference
<1>6. CASE Probe
  <2>1. /\ asOf >= 1 /\ UNCHANGED <<archive, reference, options>>
        /\ \/ step' = "members" /\ asOf' = asOf
           \/ step' = "probe" /\ asOf' = asOf - 1
    BY <1>6 DEF Probe, Goto
  <2> QED
    BY <1>1, <2>1 DEF archive, reference
<1>7. CASE Fallback
  <2> DEFINE known == {d \in store["index"] : d <= options.target}
  <2>1. CASE known = {}
    <3>1. Rest
      BY <1>7, <2>1 DEF Fallback
    <3> QED
      BY <1>3, <1>7, <3>1 DEF Fallback, Over, reference, sessions, history
  <2>2. CASE known # {}
    <3>1. known \subseteq Days
      BY DEF KeptOK, Feeds
    <3>2. Max(known) \in known
      <4>1. known \subseteq Nat /\ \A d \in known : d <= MaxDay
        BY <1>1, <3>1
      <4> HIDE DEF known
      <4> QED
        BY <1>1, <2>2, <4>1, MaxIsGreatest
    <3>3. Max(known) \in Days
      BY <3>1, <3>2
    <3> QED
      BY <1>1, <1>7, <2>2, <3>3 DEF Fallback, archive, reference
  <2> QED
    BY <2>1, <2>2
<1>8. CASE Snapshot
  <2>1. /\ snapshots' \subseteq snapshots \cup {asOf} /\ UNCHANGED <<archive, stamp, work>>
        /\ step = "members"
    BY <1>8 DEF Snapshot
  <2> QED
    BY <1>1, <2>1 DEF archive, work
<1>9. CASE CheckDisk
  BY <1>1, <1>2, <1>3, <1>9 DEF CheckDisk, Over, Settled, reference, sessions, history
<1>10. CASE Raise
  BY <1>3, <1>10 DEF Raise, Over, reference, sessions, history
<1>11. CASE \E strict \in BOOLEAN : ResolveUniverse(strict)
  BY <1>2, <1>3, <1>11 DEF ResolveUniverse, Over, Settled, reference, sessions, work
<1>12. CASE \E gone \in Evictable : Evict(gone)
  BY <1>3, <1>12 DEF Evict, Over, reference, sessions, history
<1>13. CASE Kill
  BY <1>3, <1>13 DEF Kill, Over, reference, sessions
<1> QED
  BY <1>2, <1>4, <1>5, <1>6, <1>7, <1>8, <1>9, <1>10, <1>11, <1>12, <1>13, Midway DEF Next, Run

\* Steps that leave the count as it is.
Uncounted == UNCHANGED <<pending, todo, dead, emptied, checked, after>>

LEMMA CountStep ==
  ASSUME IngestAssumption, RunOK, CountOK, Next
  PROVE  CountOK'
<1> USE DEF CountOK
<1>0. MaxDay \in Nat /\ Faults \in Nat /\ faults \in Nat
  BY DEF IngestAssumption
<1>1. ASSUME Uncounted, faults' \in 0..Faults, step \in Before \/ step' \notin Before
      PROVE  CountOK'
  BY <1>1 DEF Uncounted
<1>2. ASSUME Rest, UNCHANGED dead, faults' \in 0..Faults
      PROVE  CountOK'
  BY <1>0, <1>2 DEF Rest
<1>3. CASE Archive
  BY <1>1, <1>3 DEF Archive, NextDay, Publish, Uncounted, sessions, work, Before
<1>4. CASE \E target \in 1..today, mode \in Modes : Start(target, mode)
  BY <1>1, <1>4 DEF Start, Uncounted, sessions, Before
<1>5. CASE Probe
  <2>1. faults' \in 0..Faults
    <3>1. PICK g \in Get(<<"index", asOf>>, TRUE) : faults' = faults - g.cost
      BY <1>5 DEF Probe
    <3>2. g.cost \in {0, 1} /\ g.cost <= faults
      BY <1>0, CostOfGet
    <3> QED
      BY <1>0, <3>1, <3>2
  <2> QED
    BY <1>1, <1>5, <2>1 DEF Probe, Uncounted, sessions, Before
<1>6. CASE Fallback
  BY <1>1, <1>2, <1>6 DEF Fallback, Uncounted, sessions, Before
<1>7. CASE Snapshot
  <2>1. faults' \in 0..Faults
    BY <1>0, <1>7 DEF Snapshot
  <2> QED
    BY <1>1, <1>7, <2>1 DEF Snapshot, Uncounted, sessions, work, Before
<1>8. CASE SelectSessions
  <2>1. /\ UNCHANGED <<pending, dead, emptied, checked, after, faults>> /\ step = "select"
        /\ todo' \in SessionsToFetch /\ step' \notin Before
    BY <1>8 DEF SelectSessions, Goto, sessions, Before
  <2>2. Len(todo') <= MaxDay /\ Len(todo') \in Nat
    BY <2>1, Selected
  <2>3. pending = 0
    BY <2>1 DEF Before
  <2> QED
    BY <1>0, <2>1, <2>2, <2>3
<1>9. CASE BatchFull \/ Finally
  <2>1. /\ UNCHANGED <<pending, todo, dead, emptied, checked, faults>>
        /\ step' = "index" /\ after' \in {"backfill", "mark"}
    BY <1>9 DEF BatchFull, Finally, Goto, FlushOrder, sessions
  <2> QED
    BY <2>1 DEF Before
<1>10. CASE CheckDisk
  <2>1. faults' \in 0..Faults
    BY <1>0, <1>10 DEF CheckDisk
  <2>2. CASE Rest
    BY <1>2, <1>10, <2>1, <2>2 DEF CheckDisk, sessions
  <2>3. CASE ~Rest
    <3>1. UNCHANGED <<pending, todo, dead, emptied, after>> /\ checked' = TRUE /\ step' = "backfill"
      BY <1>10, <2>3 DEF CheckDisk, Goto, sessions
    <3> QED
      BY <2>1, <3>1 DEF Before
  <2> QED
    BY <2>2, <2>3
<1>11. CASE FetchDay
  <2> DEFINE d == Head(todo)
  <2>1. d \in Days /\ todo' = Tail(todo) /\ Len(todo') = Len(todo) - 1
        /\ Len(todo) \in Nat /\ Len(todo') \in Nat
    BY <1>11 DEF FetchDay, RunOK
  <2>2. UNCHANGED dead /\ checked' = FALSE
    BY <1>11 DEF FetchDay, sessions
  <2>3. PICK i \in Get(<<"index", d>>, "index" \in CachedFeeds) :
          \/ /\ NoIndex(d, i.got)
             /\ faults' = faults - i.cost
          \/ \E p \in Get(<<"prices", d>>, "prices" \in CachedFeeds),
                v \in Get(<<"delivery", d>>, "delivery" \in CachedFeeds) :
               /\ i.cost + p.cost + v.cost <= faults
               /\ Beside(d, p.got, v.got)
               /\ faults' = faults - (i.cost + p.cost + v.cost)
    BY <1>11 DEF FetchDay
  <2>4. i.cost \in {0, 1} /\ i.cost <= faults
    BY <1>0, CostOfGet
  <2> HIDE DEF d
  <2>5. CASE NoIndex(d, i.got) /\ faults' = faults - i.cost
    <3>1. /\ UNCHANGED pending /\ emptied' \subseteq emptied \cup {d} /\ after' \in {"idle", after}
          /\ step' \in {"index", "backfill"}
      BY <2>5 DEF NoIndex, Escapes, Goto, FlushOrder
    <3>2. faults' \in 0..Faults
      BY <1>0, <2>4, <2>5
    <3>3. pending' + Len(todo') <= MaxDay
      BY <1>0, <2>1, <3>1
    <3>4. emptied' \subseteq Days
      BY <2>1, <3>1
    <3> QED
      BY <2>2, <3>1, <3>2, <3>3, <3>4 DEF Before
  <2>6. CASE \E p \in Get(<<"prices", d>>, "prices" \in CachedFeeds),
                v \in Get(<<"delivery", d>>, "delivery" \in CachedFeeds) :
               /\ i.cost + p.cost + v.cost <= faults
               /\ Beside(d, p.got, v.got)
               /\ faults' = faults - (i.cost + p.cost + v.cost)
    <3>1. PICK p \in Get(<<"prices", d>>, "prices" \in CachedFeeds),
               v \in Get(<<"delivery", d>>, "delivery" \in CachedFeeds) :
               /\ i.cost + p.cost + v.cost <= faults
               /\ Beside(d, p.got, v.got)
               /\ faults' = faults - (i.cost + p.cost + v.cost)
      BY <2>6
    <3>2. p.cost \in {0, 1} /\ v.cost \in {0, 1}
      BY <1>0, CostOfGet
    <3>3. /\ pending' = pending + 1 /\ UNCHANGED emptied /\ after' \in {"idle", after}
          /\ step' \in {"index", "backfill"}
      BY <3>1 DEF Beside, Escapes, Goto, FlushOrder
    <3>4. faults' \in 0..Faults
      BY <1>0, <2>4, <3>1, <3>2
    <3>5. pending' \in Nat /\ pending' + Len(todo') <= MaxDay
      <4>1. pending \in Nat /\ Len(todo) \in Nat /\ pending + Len(todo) <= MaxDay
        BY <2>1
      <4>2. pending' = pending + 1 /\ Len(todo') = Len(todo) - 1
        BY <2>1, <3>3
      <4> HIDE DEF CountOK
      <4> QED
        BY <1>0, <4>1, <4>2
    <3> QED
      BY <2>2, <3>3, <3>4, <3>5 DEF Before
  <2> QED
    BY <2>3, <2>5, <2>6
<1>12. CASE \E f \in Feeds : Flush(f)
  <2>1. PICK f \in Feeds : Flush(f)
    BY <1>12
  <2>2. PICK i \in 1..3 : step' = FlushOrder[i + 1]
    BY <2>1 DEF Flush, Goto
  <2>3. step' \notin Before
    <3>1. i \in {1, 2, 3}
      BY <2>2
    <3> QED
      BY <2>2, <3>1 DEF FlushOrder, Before
  <2> QED
    BY <1>1, <2>1, <2>3 DEF Flush, Uncounted
<1>13. CASE Raise
  BY <1>2, <1>13 DEF Raise, sessions
<1>14. CASE RecordDeadDays
  <2>1. /\ UNCHANGED <<pending, todo, emptied, checked, after, faults>>
        /\ dead' = dead \cup emptied /\ step' = "universe"
    BY <1>14 DEF RecordDeadDays, Goto, work
  <2> QED
    BY <2>1 DEF Before
<1>15. CASE \E strict \in BOOLEAN : ResolveUniverse(strict)
  <2>1. UNCHANGED <<dead, faults>>
    BY <1>15 DEF ResolveUniverse, sessions
  <2>2. Rest \/ (Uncounted /\ step' = "actions")
    BY <1>15 DEF ResolveUniverse, Goto, Uncounted, work, sessions
  <2> QED
    BY <1>1, <1>2, <2>1, <2>2 DEF Before
<1>16. CASE \E csv \in {{}, CsvRows} : ReadActions(csv)
  <2>1. Uncounted /\ UNCHANGED faults /\ step' \in {"evict", "overlay"}
    BY <1>16 DEF ReadActions, Goto, Uncounted, sessions
  <2> QED
    BY <1>1, <2>1 DEF Before
<1>17. CASE OverlayActions \/ CollapseActions \/ RecordActions
  <2>1. Uncounted /\ UNCHANGED faults /\ step' \in {"collapse", "recorded", "evict"}
    BY <1>17 DEF OverlayActions, CollapseActions, RecordActions, Goto, Uncounted, sessions, work
  <2> QED
    BY <1>1, <2>1 DEF Before
<1>18. CASE \E gone \in Evictable : Evict(gone)
  BY <1>2, <1>18 DEF Evict, sessions
<1>19. CASE Kill
  <2>1. faults' \in 0..Faults
    BY <1>0, <1>19 DEF Kill
  <2> QED
    BY <1>2, <1>19, <2>1 DEF Kill, sessions
<1> QED
  BY <1>3, <1>4, <1>5, <1>6, <1>7, <1>8, <1>9, <1>10, <1>11, <1>12, <1>13, <1>14, <1>15, <1>16,
     <1>17, <1>18, <1>19 DEF Next, Run
-----------------------------------------------------------------------------
(* A run past its backfill *)

\* A list is its first element and the rest.
LEMMA HeadAndTail ==
  ASSUME NEW S, NEW q \in Seq(S), q # << >>
  PROVE  Range(q) = {Head(q)} \cup Range(Tail(q))
<1>1. /\ Len(q) \in Nat \ {0} /\ DOMAIN q = 1..Len(q) /\ Head(q) = q[1]
      /\ DOMAIN Tail(q) = 1..(Len(q) - 1)
      /\ \A i \in 1..(Len(q) - 1) : Tail(q)[i] = q[i + 1]
  OBVIOUS
<1>2. PICK n \in Nat \ {0} : n = Len(q)
  BY <1>1
<1>3. \A i \in 1..n : i = 1 \/ i - 1 \in 1..(n - 1)
  BY <1>2
<1>4. \A i \in 1..(n - 1) : i + 1 \in 1..n
  BY <1>2
<1>5. \A i \in 1..(n - 1) : q[i + 1] = Tail(q)[i]
  BY <1>1, <1>2
<1>6. Range(q) = {q[i] : i \in 1..n} /\ Range(Tail(q)) = {Tail(q)[i] : i \in 1..(n - 1)}
  BY <1>1, <1>2 DEF Range
<1>7. \A x \in Range(q) : x = Head(q) \/ x \in Range(Tail(q))
  <2> SUFFICES ASSUME NEW i \in 1..n
               PROVE  q[i] = Head(q) \/ q[i] \in Range(Tail(q))
    BY <1>6
  <2>1. CASE i = 1
    BY <1>1, <2>1
  <2>2. CASE i - 1 \in 1..(n - 1)
    <3>1. PICK j \in 1..(n - 1) : i = j + 1
      BY <2>2
    <3> QED
      BY <1>5, <1>6, <3>1
  <2> QED
    BY <1>3, <2>1, <2>2
<1>8. Range(Tail(q)) \subseteq Range(q)
  BY <1>4, <1>5, <1>6
<1>9. Head(q) \in Range(q)
  BY <1>1, <1>2, <1>6
<1> QED
  BY <1>7, <1>8, <1>9

\* Of the days that count, those not stored are what is selected.
LEMMA SelectStarts ==
  ASSUME IngestAssumption, KeptOK, CountOK, SelectSessions
  PROVE  BackOK'
<1>1. /\ step = "select" /\ todo' \in SessionsToFetch
      /\ step' = (IF todo' = << >> THEN "universe" ELSE "backfill")
      /\ UNCHANGED <<asOf, options, store, dead, buffer, emptied, fetched, missed>>
  BY DEF SelectSessions, Goto, sessions, history
<1>2. emptied = {} /\ \A f \in Feeds : buffer[f] = {}
  BY <1>1 DEF CountOK, Before, KeptOK, Buffering, NoSession
<1> SUFFICES ASSUME ~options.refetch
             PROVE  BackOK'
  BY <1>1 DEF BackOK
<1>3. Known = dead /\ Countable = Counted /\ HaveSession = Whole
  BY <1>2 DEF Known, Counted, Countable, DeadDays, HaveSession, Whole
<1>4. Range(todo') = {d \in Counted \ Whole : Cardinality({e \in Counted : e > d}) < History}
  BY <1>1, <1>3, Selected DEF Wanted
<1>5. Known' = Known /\ Whole' = Whole /\ Counted' = Counted
  BY <1>1 DEF Known, Whole, Counted
<1>6. Known \cap Range(todo') = {}
  BY <1>4 DEF Counted
<1>7. step' = "universe" \/ step' \in Filling \ {"backfill"} => todo' = << >>
  BY <1>1
<1>8. dead \cap emptied' = {} /\ \A f \in Feeds : Known \cap buffer[f] = {}
  BY <1>1, <1>2
<1>9. \A d \in Counted : Cardinality({e \in Counted : e > d}) < History =>
        d \in Whole \cup missed' \cup Range(todo') \cup (fetched'["index"] \cap fetched'["prices"])
  BY <1>4
<1> QED
  BY <1>1, <1>5, <1>6, <1>7, <1>8, <1>9 DEF BackOK

\* The day fetched was not known to have no session, and is found, or missed.
LEMMA FetchGoesOn ==
  ASSUME RunOK, KeptOK, BackOK, FetchDay
  PROVE  BackOK'
<1> DEFINE d == Head(todo)
<1>1. /\ step = "backfill" /\ todo' = Tail(todo)
      /\ UNCHANGED <<asOf, options, store, dead>>
  BY DEF FetchDay, sessions
<1>2. d \in Days /\ Range(todo) = {d} \cup Range(todo')
  BY <1>1, HeadAndTail DEF FetchDay, RunOK
<1> SUFFICES ASSUME ~options.refetch
             PROVE  BackOK'
  BY <1>1 DEF BackOK
<1>3. /\ Known \cap Range(todo) = {} /\ dead \cap emptied = {}
      /\ \A f \in Feeds : Known \cap buffer[f] = {}
      /\ \A e \in Counted :
           Cardinality({x \in Counted : x > e}) < History =>
             e \in Whole \cup missed \cup Range(todo) \cup (fetched["index"] \cap fetched["prices"])
  BY <1>1 DEF BackOK, Filling
<1>4. Known = dead /\ d \notin dead
  BY <1>2, <1>3 DEF Known
<1>5. \E g, h :
        \/ /\ NoIndex(d, g)
           /\ missed' = missed \cup {d}
        \/ /\ Beside(d, g, h)
           /\ missed' = missed \cup {x \in {d} : g # "file"}
  BY DEF FetchDay
<1> HIDE DEF d
<1>6. /\ emptied' \subseteq emptied \cup {d}
      /\ \A f \in Feeds : buffer'[f] \subseteq buffer[f] \cup {d} /\ fetched[f] \subseteq fetched'[f]
      /\ missed \subseteq missed'
      /\ d \in missed' \/ d \in fetched'["index"] \cap fetched'["prices"]
      /\ step' = "backfill" \/ (step' = "index" /\ after' = "idle")
  <2>1. PICK g, h :
        \/ /\ NoIndex(d, g)
           /\ missed' = missed \cup {d}
        \/ /\ Beside(d, g, h)
           /\ missed' = missed \cup {x \in {d} : g # "file"}
    BY <1>5
  <2>2. CASE NoIndex(d, g) /\ missed' = missed \cup {d}
    BY <2>2 DEF NoIndex, Escapes, Goto, FlushOrder
  <2>3. CASE Beside(d, g, h) /\ missed' = missed \cup {x \in {d} : g # "file"}
    <3>1. PICK whole \in SUBSET Feeds :
            /\ "index" \in whole /\ (g = "file" => "prices" \in whole)
            /\ buffer' = Buffered(whole, d)
            /\ fetched' = [f \in Feeds |-> IF f \in whole THEN fetched[f] \cup {d}
                                           ELSE fetched[f]]
      BY <2>3 DEF Beside, Feeds
    <3>2. \A f \in Feeds : buffer'[f] \subseteq buffer[f] \cup {d} /\ fetched[f] \subseteq fetched'[f]
      BY <3>1 DEF Buffered
    <3>3. d \in missed' \/ d \in fetched'["index"] \cap fetched'["prices"]
      BY <2>3, <3>1 DEF Feeds
    <3>4. /\ emptied' = emptied /\ missed \subseteq missed'
          /\ step' = "backfill" \/ (step' = "index" /\ after' = "idle")
      BY <2>3 DEF Beside, Escapes, Goto, FlushOrder
    <3> QED
      BY <3>2, <3>3, <3>4
  <2> QED
    BY <2>1, <2>2, <2>3
<1>7. dead \cap emptied' = {} /\ Known' = Known
  BY <1>1, <1>3, <1>4, <1>6 DEF Known
<1>8. Whole' = Whole /\ Counted' = Counted
  BY <1>1, <1>7 DEF Whole, Counted
<1>9. Known \cap Range(todo') = {} /\ \A f \in Feeds : Known \cap buffer'[f] = {}
  BY <1>2, <1>3, <1>4, <1>6
<1>10. \A e \in Counted : Cardinality({x \in Counted : x > e}) < History =>
         e \in Whole \cup missed' \cup Range(todo') \cup (fetched'["index"] \cap fetched'["prices"])
  <2>1. "index" \in Feeds /\ "prices" \in Feeds
    BY DEF Feeds
  <2> QED
    BY <1>2, <1>3, <1>6, <2>1
<1> QED
  BY <1>1, <1>6, <1>7, <1>8, <1>9, <1>10 DEF BackOK, Filling

\* A day found empty is not known to have no session until all is written, and then only
\* to later runs.
LEMMA WritingGoesOn ==
  ASSUME KeptOK, BackOK, BatchFull \/ Finally \/ CheckDisk \/ RecordDeadDays
  PROVE  BackOK'
<1>1. CASE BatchFull \/ Finally
  <2>1. /\ step = "backfill" /\ step' = "index"
        /\ after' = "mark" => todo = << >>
        /\ UNCHANGED <<asOf, options, store, dead, todo, buffer, emptied, fetched, missed>>
    BY <1>1 DEF BatchFull, Finally, Goto, FlushOrder, sessions, history
  <2> QED
    BY <2>1 DEF BackOK, Filling, Known, Whole, Counted
<1>2. CASE CheckDisk
  <2>1. CASE step' \notin Filling
    BY <2>1 DEF BackOK
  <2>2. CASE step' \in Filling
    <3>1. /\ step = "written" /\ step' = "backfill"
          /\ UNCHANGED <<asOf, options, store, dead, todo, buffer, emptied, fetched, missed>>
      BY <1>2, <2>2 DEF CheckDisk, Rest, Goto, Filling, sessions, history
    <3> QED
      BY <3>1 DEF BackOK, Filling, Known, Whole, Counted
  <2> QED
    BY <2>1, <2>2
<1>3. CASE RecordDeadDays
  <2>1. /\ step = "written" /\ after = "mark" /\ step' = "universe" /\ dead' = dead \cup emptied
        /\ UNCHANGED <<asOf, options, store, todo, buffer, emptied, fetched, missed>>
    BY <1>3 DEF RecordDeadDays, Goto, work, history
  <2>2. Known' = Known
    BY <2>1 DEF Known
  <2>3. Whole' = Whole /\ Counted' = Counted
    BY <2>1, <2>2 DEF Whole, Counted
  <2> QED
    BY <2>1, <2>2, <2>3 DEF BackOK, Filling
<1> QED
  BY <1>1, <1>2, <1>3

\* A table takes over what was fetched, and nothing fetched was known to have no session.
LEMMA FlushGoesOn ==
  ASSUME KeptOK, BackOK, NEW f \in Feeds, Flush(f)
  PROVE  BackOK'
<1>1. /\ step = f /\ UNCHANGED <<asOf, options, dead, todo, emptied, after, fetched, missed>>
      /\ store' = [store EXCEPT ![f] = @ \cup buffer[f]]
      /\ buffer' = [buffer EXCEPT ![f] = {}]
  BY DEF Flush, history
<1>2. step' \in {"prices", "delivery", "written"}
  <2>1. PICK i \in 1..3 : step' = FlushOrder[i + 1]
    BY DEF Flush, Goto
  <2>2. i \in {1, 2, 3}
    BY <2>1
  <2> QED
    BY <2>1, <2>2 DEF FlushOrder
<1> SUFFICES ASSUME ~options.refetch
             PROVE  BackOK'
  BY <1>1 DEF BackOK
<1>3. step \in Filling /\ step # "universe" /\ step # "backfill"
  BY <1>1 DEF Filling, Feeds
<1>4. Known' = Known
  BY <1>1 DEF Known
<1>5. Whole \subseteq Whole' /\ Whole' \subseteq Whole \cup buffer[f]
  BY <1>1 DEF KeptOK, Whole, Feeds
<1>6. Known \cap buffer[f] = {}
  BY <1>3 DEF BackOK
<1>7. Counted' = Counted
  BY <1>1, <1>4, <1>5, <1>6 DEF Counted
<1>8. \A g \in Feeds : buffer'[g] \subseteq buffer[g]
  BY <1>1 DEF KeptOK
<1>9. \A g \in Feeds : Known \cap buffer'[g] = {}
  BY <1>3, <1>8 DEF BackOK
<1>10. /\ Known \cap Range(todo) = {} /\ dead \cap emptied = {}
       /\ after = "mark" => todo = << >>
       /\ \A d \in Counted :
            Cardinality({e \in Counted : e > d}) < History =>
              d \in Whole' \cup missed \cup Range(todo) \cup (fetched["index"] \cap fetched["prices"])
  BY <1>3, <1>5 DEF BackOK
<1> QED
  BY <1>1, <1>2, <1>4, <1>7, <1>9, <1>10 DEF BackOK

LEMMA BackStep ==
  ASSUME IngestAssumption, RunOK, KeptOK, CountOK, BackOK, Next
  PROVE  BackOK'
<1>1. CASE \/ Archive \/ \E target \in 1..today, mode \in Modes : Start(target, mode)
           \/ Probe \/ Fallback \/ Snapshot
  <2>1. step' \in {"idle", "probe", "members", "select"}
    BY <1>1 DEF Archive, NextDay, Publish, Start, Probe, Fallback, Snapshot, Goto, Rest
  <2> QED
    BY <2>1 DEF BackOK, Filling
<1>2. CASE \/ Raise \/ (\E strict \in BOOLEAN : ResolveUniverse(strict))
           \/ (\E csv \in {{}, CsvRows} : ReadActions(csv))
           \/ OverlayActions \/ CollapseActions \/ RecordActions
           \/ (\E gone \in Evictable : Evict(gone)) \/ Kill
  <2>1. step' \in {"idle", "actions", "evict", "overlay", "collapse", "recorded"}
    BY <1>2 DEF Raise, ResolveUniverse, ReadActions, OverlayActions, CollapseActions,
                RecordActions, Evict, Kill, Goto, Rest
  <2> QED
    BY <2>1 DEF BackOK, Filling
<1> QED
  BY <1>1, <1>2, SelectStarts, FetchGoesOn, WritingGoesOn, FlushGoesOn DEF Next, Run
-----------------------------------------------------------------------------
(* Theorems *)

LEMMA InitInv ==
  ASSUME IngestAssumption, Init
  PROVE  IInv
<1>1. RunOK
  BY DEF Init, RunOK, Blank, Entries, Steps
<1>2. KeptOK
  BY DEF Init, KeptOK, NoSession, Feeds
<1>3. DeadOK
  BY DEF Init, DeadOK
<1>4. TableOK
  BY DEF Init, TableOK, AdjustedOnce, Collapsed, Adjusting
<1>5. DatesOK
  BY DEF Init, DatesOK, IngestAssumption, Days, NoOptions
<1>6. CountOK
  BY DEF Init, CountOK, IngestAssumption
<1>7. BackOK
  BY DEF Init, BackOK, Filling
<1> QED
  BY <1>1, <1>2, <1>3, <1>4, <1>5, <1>6, <1>7 DEF IInv

LEMMA NextInv ==
  ASSUME IngestAssumption, ActionsAssumption, IInv, Next
  PROVE  IInv'
<1> USE DEF IInv
<1>1. TableOK' /\ DatesOK' /\ CountOK' /\ BackOK'
  BY TableStep, DatesStep, CountStep, BackStep
<1>2. CASE Outside
  BY <1>1, <1>2, OutsideIsQuiet, QuietStep
<1>3. CASE BatchFull \/ Finally
  BY <1>1, <1>3, WritingStarts
<1>4. CASE FetchDay
  BY <1>1, <1>4, FetchKeeps
<1>5. CASE \E f \in Feeds : Flush(f)
  BY <1>1, <1>5, FlushKeeps
<1>6. CASE RecordDeadDays
  BY <1>1, <1>6, RecordKeeps
<1>7. CASE Kill
  BY <1>1, <1>7, KillKeeps
<1> QED
  BY <1>2, <1>3, <1>4, <1>5, <1>6, <1>7 DEF Next, Run, Outside

LEMMA Inductive == Spec => []IInv
<1>1. Init => IInv
  BY InitInv, IngestAssumption
<1>2. IInv /\ [Next]_vars => IInv'
  <2>1. CASE Next
    BY <2>1, NextInv, IngestAssumption, ActionsAssumption
  <2>2. ASSUME IInv, UNCHANGED vars PROVE IInv'
    <3>1. UNCHANGED <<today, published, cache, store, dead, snapshots, actions, stamp, step,
                      asOf, options, todo, buffer, pending, checked, emptied, after, incoming,
                      faults, answered, fetched, missed, halved>>
      BY <2>2 DEF vars, archive, sessions, reference, work, history
    <3>2. RunOK' /\ KeptOK' /\ DeadOK'
      BY <2>2, <3>1 DEF IInv, RunOK, KeptOK, DeadOK
    <3>3. TableOK'
      BY <2>2, <3>1 DEF IInv, TableOK, AdjustedOnce, Collapsed, Adjusting, Sources
    <3>4. DatesOK' /\ CountOK'
      BY <2>2, <3>1 DEF IInv, DatesOK, CountOK
    <3>5. BackOK'
      BY <2>2, <3>1 DEF IInv, BackOK, Known, Whole, Counted
    <3> QED
      BY <3>2, <3>3, <3>4, <3>5 DEF IInv
  <2> QED
    BY <2>1, <2>2
<1> QED
  BY <1>1, <1>2, PTL DEF Spec

\* No stored prices are of a day that is no session, wherever a run stops.
THEOREM PricesAreIndexed == Spec => []PricesHaveTheirIndex
<1>1. IInv => PricesHaveTheirIndex
  BY DEF IInv, KeptOK, PricesHaveTheirIndex
<1> QED
  BY <1>1, Inductive, PTL

\* A request that failed in transport never puts a day out of reach.
THEOREM DeadAreAnswered == Spec => []DeadWasAnswered
<1>1. IInv => DeadWasAnswered
  BY DEF IInv, DeadOK, DeadWasAnswered
<1> QED
  BY <1>1, Inductive, PTL

\* A run that is not killed stores all it fetched, also when it raises.
THEOREM FetchedIsStored == Spec => []RaisedKeepsFetched
<1>1. IInv => RaisedKeepsFetched
  <2> SUFFICES ASSUME IInv, step \in {"universe", "idle"}, NEW f \in Feeds
               PROVE  fetched[f] \subseteq store[f]
    BY DEF RaisedKeepsFetched
  <2>1. buffer[f] = {}
    BY DEF IInv, KeptOK, Buffering, NoSession
  <2> QED
    BY <2>1 DEF IInv, KeptOK
<1> QED
  BY <1>1, Inductive, PTL

\* Whatever the sources describe and however often they are read, the table collapses
\* to one description of each event.
THEOREM EventsApplyOnce == Spec => []AdjustedOnce
<1>1. IInv => AdjustedOnce
  BY DEF IInv, TableOK
<1> QED
  BY <1>1, Inductive, PTL

\* Every variable is what the store, the cache and the run can hold, for any number of
\* days, archive and faults.
THEOREM TypeCorrect == Spec => []TypeOK
<1>1. IInv => TypeOK
  <2> SUFFICES ASSUME IInv
               PROVE  TypeOK
    OBVIOUS
  <2>1. Range(todo) \subseteq Days
    BY DEF IInv, RunOK, Range
  <2>2. pending \in 0..MaxDay
    <3>1. Len(todo) \in Nat /\ pending \in Nat /\ pending + Len(todo) <= MaxDay
      BY DEF IInv, RunOK, CountOK
    <3> QED
      BY <3>1, IngestAssumption DEF IngestAssumption
  <2> QED
    BY <2>1, <2>2 DEF IInv, RunOK, KeptOK, TableOK, DatesOK, CountOK, Sources, TypeOK
<1> QED
  BY <1>1, Inductive, PTL

\* A run past its backfill holds both halves of every session it counts, but for the
\* days it tried in vain, whatever runs before it left behind.
THEOREM BackfillCompletes == Spec => []RunIsComplete
<1>1. IInv => RunIsComplete
  <2> SUFFICES ASSUME IInv, step = "universe", ~options.refetch,
                      NEW d \in Counted, Cardinality({e \in Counted : e > d}) < History
               PROVE  d \in Whole \cup missed
    BY DEF RunIsComplete, Counted, Known, Whole
  <2>1. /\ todo = << >>
        /\ d \in Whole \cup missed \cup Range(todo) \cup (fetched["index"] \cap fetched["prices"])
    BY DEF IInv, BackOK, Filling
  <2>2. \A f \in Feeds : fetched[f] \subseteq store[f]
    BY DEF IInv, KeptOK, Buffering, NoSession
  <2>3. Range(todo) = {}
    BY <2>1 DEF Range
  <2> QED
    BY <2>1, <2>2, <2>3 DEF Whole, Feeds
<1> QED
  BY <1>1, Inductive, PTL
=============================================================================
