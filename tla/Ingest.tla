------------------------------- MODULE Ingest -------------------------------
(***************************************************************************)
(* An ingest (data/ingest.py) run day after day against an archive that    *)
(* publishes late, answers with something else, or does not answer: which  *)
(* session is decided on, which sessions are still to be fetched, what is  *)
(* written when, and what a killed or failed run leaves behind.            *)
(*                                                                         *)
(* One ingest at a time: the store lock has a module of its own. Days are  *)
(* the weekdays no holiday hint excludes.                                  *)
(***************************************************************************)
EXTENDS HttpCache, Actions, FiniteSetsExt, Functions

CONSTANTS MaxDay,      \* bound: the last day
          Trading,     \* days the market opens; the archive never has the others
          History,     \* sessions a run asks for
          Span,        \* days back it may look for them
          MaxBack,     \* days back it may look for a session to decide on
          CachedFeeds, \* feeds whose files the policy caches
          Batch,       \* sessions between two writes
          Every,       \* days between two reads of the action sources
          YahooRows, ExchangeRows, CsvRows,  \* what the three sources describe
          Modes,       \* bound: the options a run may be started with
          Evictable,   \* bound: the sets of entries the cache may be cut by
          Faults       \* bound: failures, odd pages and kills in a behaviour

Days == 1..MaxDay
Feeds == {"index", "prices", "delivery"}
Urls == Feeds \X Days

IngestAssumption ==
  /\ MaxDay \in Nat \ {0} /\ Trading \subseteq Days
  /\ History \in Nat /\ Span \in Nat /\ MaxBack \in Nat /\ Every \in Nat
  /\ Batch \in Nat \ {0} /\ Faults \in Nat
  /\ CachedFeeds \subseteq {"index", "prices", "delivery"}
  /\ Modes \subseteq [refetch : BOOLEAN, force : BOOLEAN]
  /\ Evictable \subseteq SUBSET Urls
  /\ \A r \in YahooRows \cup ExchangeRows \cup CsvRows : IsRow(r)
ASSUME IngestAssumption

VARIABLES
  today,      \* the day it is
  published,  \* the files the archive holds
  cache,      \* url -> entry
  store,      \* feed -> sessions stored
  dead,       \* days recorded as having no session
  snapshots,  \* sessions a member list is stored under
  actions,    \* the table of corporate actions
  stamp,      \* the session the action sources were last recorded as read for
  step,       \* where the run is
  asOf,       \* the session it works on; while it looks for one, the day it tries
  options,    \* [target, refetch, force]
  todo,       \* days left to fetch, newest first
  buffer,     \* feed -> sessions fetched and not written
  pending,    \* sessions buffered so far
  checked,    \* whether the disk was looked at since the last day tried
  emptied,    \* days it found nothing for
  after,      \* what follows the writes under way
  incoming,   \* the merged rows of the action sources
  faults,     \* faults left
  \* History, for the properties.
  answered,   \* days the archive once answered for without an index file
  fetched,    \* feed -> sessions the last backfill fetched, if it was not killed
  missed,     \* days it tried and got no index file or no prices for
  halved      \* a run died between the two writes of the action table

archive == <<today, published>>
sessions == <<store, dead>>
reference == <<snapshots, actions, stamp>>
work == <<asOf, options, todo, buffer, pending, checked, emptied, after, incoming>>
history == <<answered, fetched, missed, halved>>
vars == <<archive, cache, sessions, reference, step, work, faults, history>>

Steps == {"idle", "probe", "members", "select", "backfill", "index", "prices",
          "delivery", "written", "universe", "actions", "overlay", "collapse",
          "recorded", "evict"}

NoSession == [f \in Feeds |-> {}]
NoOptions == [target |-> 0, refetch |-> FALSE, force |-> FALSE]

Init ==
  /\ today = 1
  /\ published = {}
  /\ cache = [u \in Urls |-> Blank]
  /\ store = NoSession /\ dead = {}
  /\ snapshots = {} /\ actions = {} /\ stamp = 0
  /\ step = "idle" /\ asOf = 0 /\ options = NoOptions
  /\ todo = << >> /\ buffer = NoSession /\ pending = 0 /\ checked = TRUE
  /\ emptied = {} /\ after = "idle" /\ incoming = {}
  /\ faults = Faults
  /\ answered = {} /\ fetched = NoSession /\ missed = {} /\ halved = FALSE
-----------------------------------------------------------------------------
(* The archive *)

\* A session's files appear on its day or later, in any order. A run asks for each
\* file once, so one that appears during a run has appeared before it or after.
Publish(f, d) ==
  /\ step = "idle"
  /\ d \in Trading /\ d <= today /\ <<f, d>> \notin published
  /\ published' = published \cup {<<f, d>>}
  /\ UNCHANGED <<today, cache, sessions, reference, step, work, faults, history>>

NextDay ==
  /\ step = "idle" /\ today < MaxDay
  /\ today' = today + 1
  /\ UNCHANGED <<published, cache, sessions, reference, step, work, faults, history>>

\* What the archive may answer a request with.
Possible(u) == {IF u \in published THEN "file" ELSE "missing", "page", "transient", "refused"}

Cost(u, outcome) ==
  IF outcome = "page" \/ (outcome = "failed" /\ u \in published) THEN 1 ELSE 0

\* One GET: the entry if it is served, else what the archive answers. An entry
\* of today's file may have expired, one of a past day never has.
Get(u, kept) ==
  LET whole  == Served(cache[u], FALSE)
      served == [got |-> cache[u].body, entry |-> cache[u], cost |-> 0]
      asked  == {[got |-> o, entry |-> IF kept THEN Kept(cache[u], o) ELSE cache[u],
                  cost |-> Cost(u, o)] : o \in Outcomes(Possible(u))}
  IN  (IF whole THEN {served} ELSE {})
        \cup {g \in asked : g.cost <= faults /\ (whole => u[2] = today)}
-----------------------------------------------------------------------------
(* Starting *)

Goto(next) == step' = next

\* Mutant: the count of one run goes on in the next.
RestCounting ==
  /\ step' = "idle" /\ asOf' = 0 /\ options' = NoOptions
  /\ todo' = << >> /\ buffer' = NoSession /\ pending' = pending /\ checked' = TRUE
  /\ emptied' = {} /\ after' = "idle" /\ incoming' = {}

Rest ==
  /\ step' = "idle" /\ asOf' = 0 /\ options' = NoOptions
  /\ todo' = << >> /\ buffer' = NoSession /\ pending' = 0 /\ checked' = TRUE
  /\ emptied' = {} /\ after' = "idle" /\ incoming' = {}

\* A stored session that is the one asked for is taken without a probe.
Start(target, mode) ==
  /\ step = "idle"
  /\ options' = [target |-> target, refetch |-> mode.refetch, force |-> mode.force]
  /\ asOf' = target
  /\ step' = IF target \in store["index"] THEN "members" ELSE "probe"
  /\ fetched' = NoSession /\ missed' = {}
  /\ UNCHANGED <<archive, cache, sessions, reference, todo, buffer, pending, checked,
                 emptied, after, incoming, faults, answered, halved>>

\* Back from the day asked for to the first day with an index file. A failed
\* probe counts as no.
Probe ==
  /\ step = "probe" /\ asOf >= 1 /\ asOf >= options.target - MaxBack
  /\ \E g \in Get(<<"index", asOf>>, TRUE) :
       /\ cache' = [cache EXCEPT ![<<"index", asOf>>] = g.entry]
       /\ faults' = faults - g.cost
       /\ IF g.got \in Bodies THEN Goto("members") /\ asOf' = asOf
                              ELSE Goto("probe") /\ asOf' = asOf - 1
  /\ UNCHANGED <<archive, sessions, reference, options, todo, buffer, pending, checked,
                 emptied, after, incoming, history>>

\* No session found: the last one stored, or the run fails.
Fallback ==
  /\ step = "probe" /\ (asOf < 1 \/ asOf < options.target - MaxBack)
  /\ LET known == {d \in store["index"] : d <= options.target}
     IN  IF known = {} THEN Rest
         ELSE /\ Goto("members") /\ asOf' = Max(known)
              /\ UNCHANGED <<options, todo, buffer, pending, checked, emptied, after, incoming>>
  /\ UNCHANGED <<archive, cache, sessions, reference, faults, history>>

LastSnapshot(d) == d \in snapshots /\ \A e \in snapshots : e <= d

\* The live member list, stored under the session the run works on unless that
\* is the last one stored.
Snapshot ==
  /\ step = "members"
  /\ \/ /\ LastSnapshot(asOf) /\ ~options.force
        /\ UNCHANGED <<snapshots, faults>>
     \/ /\ LastSnapshot(asOf) => options.force
        /\ snapshots' = snapshots \cup {asOf}
        /\ UNCHANGED faults
     \/ /\ LastSnapshot(asOf) => options.force
        /\ faults > 0 /\ faults' = faults - 1
        /\ UNCHANGED snapshots
  /\ Goto("select")
  /\ UNCHANGED <<archive, cache, sessions, actions, stamp, work, history>>
-----------------------------------------------------------------------------
(* Fetching sessions *)

\* Mutant: the index file alone makes a session.
HaveIndex == IF options.refetch THEN {} ELSE store["index"]

\* Both halves stored; the delivery file is not part of the test.
HaveSession == IF options.refetch THEN {} ELSE store["index"] \cap store["prices"]
DeadDays == IF options.refetch THEN {} ELSE dead

\* Newest first over the days a run may reach, until enough sessions are counted.
\* A day known to have no session is neither fetched nor counted.
SessionsToFetch ==
  LET reach  == {d \in Days : d <= asOf /\ asOf - d <= Span}
      counts == reach \ (DeadDays \ HaveSession)
      wanted == {d \in counts \ HaveSession : Cardinality({e \in counts : e > d}) < History}
  IN  {q \in [1..Cardinality(wanted) -> wanted] : \A i, j \in DOMAIN q : i < j => q[i] > q[j]}

SelectSessions ==
  /\ step = "select"
  /\ todo' \in SessionsToFetch
  /\ Goto(IF todo' = << >> THEN "universe" ELSE "backfill")
  /\ UNCHANGED <<archive, cache, sessions, reference, asOf, options, buffer, pending,
                 checked, emptied, after, incoming, faults, history>>

\* Mutant: prices first.
FlushPricesFirst == <<"prices", "index", "delivery", "written">>

FlushOrder == <<"index", "prices", "delivery", "written">>

DueToWrite == pending > 0 /\ pending % Batch = 0 /\ ~checked

BatchFull ==
  /\ step = "backfill" /\ todo # << >> /\ DueToWrite
  /\ Goto(FlushOrder[1]) /\ after' = "backfill"
  /\ UNCHANGED <<archive, cache, sessions, reference, asOf, options, todo, buffer, pending,
                 checked, emptied, incoming, faults, history>>

\* The disk is looked at after a full batch; too little room ends the run.
CheckDisk ==
  /\ step = "written" /\ after = "backfill"
  /\ \/ /\ Goto("backfill") /\ checked' = TRUE
        /\ UNCHANGED <<asOf, options, todo, buffer, pending, emptied, after, incoming, faults>>
     \/ faults > 0 /\ faults' = faults - 1 /\ Rest
  /\ UNCHANGED <<archive, cache, sessions, reference, history>>

Buffered(fs, d) == [f \in Feeds |-> IF f \in fs THEN buffer[f] \cup {d} ELSE buffer[f]]

\* Mutant: a failed request counts as an empty day.
NoIndexEver(d, outcome) ==
  /\ emptied' = emptied \cup {d}
  /\ UNCHANGED <<buffer, pending, after, fetched>>
  /\ Goto("backfill")

\* A page in the place of a table raises, unless it reads as a table without the
\* columns looked for. What a run holds is written all the same.
Escapes == Goto(FlushOrder[1]) /\ after' = "idle"

\* No index file: a day the archive answered for is remembered as empty.
NoIndex(d, outcome) ==
  /\ \/ /\ emptied' = IF outcome = "failed" THEN emptied ELSE emptied \cup {d}
        /\ UNCHANGED after /\ Goto("backfill")
     \/ outcome = "page" /\ Escapes /\ UNCHANGED emptied
  /\ UNCHANGED <<buffer, pending, fetched>>

\* Mutant: an exception leaves without writing.
BesideDropped(d, p, v) ==
  LET whole == {"index"} \cup {f \in {"prices"} : p = "file"}
                         \cup {f \in {"delivery"} : p # "page" /\ v = "file"}
  IN  /\ buffer' = Buffered(whole, d)
      /\ fetched' = [f \in Feeds |-> IF f \in whole THEN fetched[f] \cup {d} ELSE fetched[f]]
      /\ pending' = pending + 1
      /\ \/ p # "page" /\ UNCHANGED after /\ Goto("backfill")
         \/ "page" \in {p, v} /\ after' = "idle" /\ Goto("idle")
      /\ UNCHANGED emptied

\* What is fetched beside the index file. A price file that is no archive raises always.
Beside(d, p, v) ==
  LET whole == {"index"} \cup {f \in {"prices"} : p = "file"}
                         \cup {f \in {"delivery"} : p # "page" /\ v = "file"}
  IN  /\ buffer' = Buffered(whole, d)
      /\ fetched' = [f \in Feeds |-> IF f \in whole THEN fetched[f] \cup {d} ELSE fetched[f]]
      /\ pending' = pending + 1
      /\ \/ p # "page" /\ UNCHANGED after /\ Goto("backfill")
         \/ "page" \in {p, v} /\ Escapes
      /\ UNCHANGED emptied

FetchDay ==
  /\ step = "backfill" /\ todo # << >> /\ ~DueToWrite
  /\ todo' = Tail(todo) /\ checked' = FALSE
  /\ LET d == Head(todo)
     IN  \E i \in Get(<<"index", d>>, "index" \in CachedFeeds) :
           IF i.got # "file"
           THEN /\ NoIndex(d, i.got)
                /\ missed' = missed \cup {d}
                /\ answered' = answered \cup {x \in {d} : i.got \in {"missing", "page"}}
                /\ cache' = [cache EXCEPT ![<<"index", d>>] = i.entry]
                /\ faults' = faults - i.cost
           ELSE \E p \in Get(<<"prices", d>>, "prices" \in CachedFeeds),
                   v \in Get(<<"delivery", d>>, "delivery" \in CachedFeeds) :
                  /\ i.cost + p.cost + v.cost <= faults
                  /\ Beside(d, p.got, v.got)
                  /\ missed' = missed \cup {x \in {d} : p.got # "file"}
                  /\ UNCHANGED answered
                  /\ cache' = [cache EXCEPT ![<<"index", d>>] = i.entry,
                                            ![<<"prices", d>>] = p.entry,
                                            ![<<"delivery", d>>] =
                                              IF p.got = "page" THEN @ ELSE v.entry]
                  /\ faults' = faults - (i.cost + p.cost + v.cost)
  /\ UNCHANGED <<archive, sessions, reference, asOf, options, incoming, halved>>

\* The loop is over, or an exception leaves it: what was buffered is written.
Finally ==
  /\ step = "backfill" /\ todo = << >>
  /\ Goto(FlushOrder[1]) /\ after' = "mark"
  /\ UNCHANGED <<archive, cache, sessions, reference, asOf, options, todo, buffer, pending,
                 checked, emptied, incoming, faults, history>>

\* One table after the other.
Flush(f) ==
  /\ step = f
  /\ store' = [store EXCEPT ![f] = @ \cup buffer[f]]
  /\ buffer' = [buffer EXCEPT ![f] = {}]
  /\ \E i \in 1..3 : FlushOrder[i] = f /\ Goto(FlushOrder[i + 1])
  /\ UNCHANGED <<archive, cache, dead, reference, asOf, options, todo, pending, checked,
                 emptied, after, incoming, faults, history>>

\* The exception goes on: nothing else of the run happens.
Raise ==
  /\ step = "written" /\ after = "idle"
  /\ Rest
  /\ UNCHANGED <<archive, cache, sessions, reference, faults, history>>

RecordDeadDays ==
  /\ step = "written" /\ after = "mark"
  /\ dead' = dead \cup emptied
  /\ Goto("universe")
  /\ UNCHANGED <<archive, cache, store, reference, work, faults, history>>
-----------------------------------------------------------------------------
(* The universe and the corporate actions *)

\* The last member list on or before the session, else the first later one,
\* which a strict configuration refuses; with none stored the run fails.
Membership(d) ==
  LET before == {e \in snapshots : e <= d}
  IN  IF before # {} THEN [from |-> Max(before), risk |-> FALSE]
                     ELSE [from |-> Min(snapshots), risk |-> TRUE]

ResolveUniverse(strict) ==
  /\ step = "universe"
  /\ IF snapshots = {} \/ (strict /\ Membership(asOf).risk)
     THEN Rest
     ELSE Goto("actions") /\ UNCHANGED work
  /\ fetched' = NoSession /\ missed' = {}
  /\ UNCHANGED <<archive, cache, sessions, reference, faults, answered, halved>>

ShouldRefresh == stamp = 0 \/ asOf - stamp >= Every \/ options.force

\* The file is read every time, the two feeds when they are due; either may
\* answer with nothing.
ReadActions(csv) ==
  /\ step = "actions"
  /\ \E y \in {{}, YahooRows}, e \in {{}, ExchangeRows} :
       /\ ~ShouldRefresh => y = {} /\ e = {}
       /\ incoming' = MergeSources(y, e, csv)
       /\ Goto(IF incoming' = {} THEN "evict" ELSE "overlay")
  /\ UNCHANGED <<archive, cache, sessions, reference, asOf, options, todo, buffer, pending,
                 checked, emptied, after, faults, history>>

OverlayActions ==
  /\ step = "overlay"
  /\ actions' = Overlay(actions, incoming)
  /\ Goto("collapse")
  /\ UNCHANGED <<archive, cache, sessions, snapshots, stamp, work, faults, history>>

\* Mutant: only the rows of one refresh are collapsed.
CollapseNone ==
  /\ step = "collapse"
  /\ UNCHANGED actions
  /\ halved' = FALSE
  /\ Goto("recorded")
  /\ UNCHANGED <<archive, cache, sessions, snapshots, stamp, work, faults, answered, fetched, missed>>

CollapseActions ==
  /\ step = "collapse"
  /\ actions' = Dedupe(actions)
  /\ halved' = FALSE
  /\ Goto("recorded")
  /\ UNCHANGED <<archive, cache, sessions, snapshots, stamp, work, faults, answered, fetched, missed>>

RecordActions ==
  /\ step = "recorded"
  /\ stamp' = asOf
  /\ Goto("evict")
  /\ UNCHANGED <<archive, cache, sessions, snapshots, actions, work, faults, history>>

\* The cache is cut to its budget, whatever was in it longest; the run is over.
Evict(gone) ==
  /\ step = "evict"
  /\ cache' = [u \in Urls |-> IF u \in gone THEN Blank ELSE cache[u]]
  /\ Rest
  /\ UNCHANGED <<archive, sessions, reference, faults, history>>
-----------------------------------------------------------------------------
(* A run that dies: its buffers are lost, a cache entry may stay half written. *)

Kill ==
  /\ step # "idle" /\ faults > 0
  /\ faults' = faults - 1
  /\ Rest
  /\ fetched' = NoSession /\ missed' = {}
  /\ halved' = (halved \/ step = "collapse")
  /\ \/ UNCHANGED cache
     \/ \E u \in Urls :
          \/ step = "backfill" /\ todo # << >> /\ u[2] = Head(todo) /\ u \in published
             /\ cache' = [cache EXCEPT ![u] = KeptHalf(@, "file")]
          \/ step = "evict" /\ cache' = [cache EXCEPT ![u] = EvictedHalf(@)]
  /\ UNCHANGED <<archive, sessions, reference, answered>>

Run ==
  \/ \E target \in 1..today, mode \in Modes : Start(target, mode)
  \/ Probe \/ Fallback \/ Snapshot
  \/ SelectSessions \/ BatchFull \/ CheckDisk \/ FetchDay \/ Finally
  \/ \E f \in Feeds : Flush(f)
  \/ Raise \/ RecordDeadDays
  \/ \E strict \in BOOLEAN : ResolveUniverse(strict)
  \/ \E csv \in {{}, CsvRows} : ReadActions(csv)
  \/ OverlayActions \/ CollapseActions \/ RecordActions
  \/ \E gone \in Evictable : Evict(gone)

Archive == NextDay \/ \E f \in Feeds, d \in Days : Publish(f, d)

Next == Archive \/ Run \/ Kill

Spec == Init /\ [][Next]_vars
-----------------------------------------------------------------------------
(* Properties *)

\* Every variable is what the store, the cache and the run can hold.
TypeOK ==
  /\ today \in Days /\ published \subseteq Feeds \X Trading
  /\ cache \in [Urls -> Entries]
  /\ store \in [Feeds -> SUBSET Days] /\ dead \subseteq Days
  /\ snapshots \subseteq Days
  /\ actions \subseteq YahooRows \cup ExchangeRows \cup CsvRows
  /\ stamp \in 0..MaxDay
  /\ step \in Steps /\ asOf \in 0..MaxDay
  /\ options \in [target : 0..MaxDay, refetch : BOOLEAN, force : BOOLEAN]
  /\ Range(todo) \subseteq Days /\ buffer \in [Feeds -> SUBSET Days]
  /\ pending \in 0..MaxDay /\ checked \in BOOLEAN
  /\ emptied \subseteq Days /\ after \in {"idle", "backfill", "mark"}
  /\ incoming \subseteq YahooRows \cup ExchangeRows \cup CsvRows
  /\ faults \in 0..Faults

\* A session with prices has its index file too, wherever a run stops: the calendar
\* is the index dates, so prices without them would be of a day that is no session.
PricesHaveTheirIndex == store["prices"] \subseteq store["index"]

\* A day is out of reach for good only if the archive once answered for it without
\* an index file: a request that failed in transport never says so, however the runs
\* before and after it ended.
DeadWasAnswered == dead \subseteq answered

\* A run that raises keeps the downloads it made: what it fetched is stored when it is
\* over, and when it goes on to the universe, unless the process was killed.
RaisedKeepsFetched == step \in {"universe", "idle"} => \A f \in Feeds : fetched[f] \subseteq store[f]

\* A run past its backfill holds both halves of each of the last sessions asked for,
\* but for the days it tried in vain. A session stored by an earlier run that lost
\* its prices is among those tried.
RunIsComplete ==
  LET whole  == store["index"] \cap store["prices"]
      reach  == {d \in Days : d <= asOf /\ asOf - d <= Span}
      counts == reach \ ((dead \ emptied) \ whole)
  IN  step = "universe" /\ ~options.refetch =>
        \A d \in counts :
          Cardinality({e \in counts : e > d}) < History => d \in whole \cup missed

\* One event adjusts the prices once: no two rows of the stored table describe the
\* same split or bonus, outside the two writes a refresh makes and until the one
\* after a run that died between them.
AdjustedOnce == Collapsed(actions) \/ halved \/ step = "collapse"
=============================================================================
