# prosignal: specifications, model checking and proofs

prosignal is a decision-support engine for Indian equities.  Every evening an
ingest refreshes a store of parquet files, an analysis runs nine stages over it
and records one row in a ledger, and the next analysis finds in that row all it
knows about what was held.  A web server and a command line start both.  The
numbers (features, models, scores) are computed by one process from one frame;
what is hard is everything around them: which store a run saw, which book it
inherited, what the nine stages together let in and let go, which job is
running, which calls are on file, and what is left when one of these stops in
the middle.  That is what is specified here.

All paths below are relative to `src/src/prosignal/`.

## Inventory

| component | state | operations | interacts through |
|---|---|---|---|
| job slot (`jobs.py`) | a `jobs` table in SQLite, one worker thread, `_thread_job_id` | `start`, `cancel`, `reap_stale`, `_execute`, restart | API calls on many threads, a worker thread, other statements on the same table |
| store lock (`data/storelock.py`) | an advisory `flock` | exclusive and blocking, shared and non-blocking | ingest and analysis processes |
| curated store (`data/store.py`) | about 22 parquet files | read-merge-replace, replace, read | every component reads it, ingest and `data fundamentals` write it |
| identity (`config/loader.py`, `config/identity.py`) | one cached identity per process | `bind_store`, lazy `identity`, `version` | stamped on ledger rows, compared by the forward test |
| run ledger (`ledger.py`) | one JSONL file a year | `append`, `previous_run`, `repair_lineage`, audits | analyses append and read, `data lineage --repair` rewrites |
| pipeline (`pipeline.py`) | none of its own | `run_analysis` | lock, store, identity, ledger, the nine stages |
| ingest (`data/ingest.py`, `data/corporate_actions.py`, `data/providers/http.py`) | feeds, dead days, action table, HTTP cache | `run`, `_backfill_sessions`, refreshes | store lock, store, providers |
| stages (`stages/`, `conviction/`) | none | screen, read the market, rank, defend, enter, plan, select | pipeline |
| position book (`positions.py`, `stages/stage6_entry.py`, `pipeline.py`) | the previous row of the ledger | entry and exit bands, directives | ledger |
| cadence, slate, sizing (`cadence.py`, `presentation/selection.py`, `book.py`) | none | pure functions of a run | pipeline |
| outcomes (`outcomes.py`) | a JSONL file | `resolve_pending`, summaries | ledger, store |
| epochs, forward test, trial registry (`validation/`) | JSONL files, a registration | open/close, register/verify/progress, record | ledger, identity |
| run detail cache (`rundetail.py`) | the last 60 payloads | save, prune, load | API |

The hard behaviours are interleavings of threads on one SQLite table whose
statements are separate transactions; processes that share files with a lock
some of them do not take; values read at the start of a run and used minutes
later; appends that die in the middle; a repair that rewrites a file others
append to; and a cached identity that outlives what it describes.  Each is a
hazard of `PROJECT.json`, at its line, with the properties that cover it or the
reason none does yet.

What makes each component correct:

- job slot: one full-universe run at a time; a cancelled job stays cancelled; a
  caller gets a job of the kind it asked for; no row and no thread blocks the
  button for ever.
- store and lock: a run sees one store, as it was at one moment; merged rows are
  not lost; an ingest that waits gets in.
- identity: the version on a row names the data the row was computed from.
- ledger: an acknowledged row stays readable; a run inherits one book, from an
  earlier session, of its own lineage; a repair labels by evidence, sets aside
  only what is disputed and leaves nothing that stops the next run.
- pipeline and book: what is held leaves only for a reason about that name; what
  enters has passed every gate, in whatever order runs, blocks and crashes come;
  the limits count what is held; the screen does not flicker; the sizes spend no
  more than there is.
- ingest: what was fetched is stored; a day is given up only when the archive
  answered for it; a resumed backfill reaches what an uninterrupted one does; an
  event adjusts the prices once.
- outcomes, epochs, forward test: a verdict never changes with later knowledge;
  an epoch is credited with its own trades; a window that strayed stays void.

## Modules

| module | models | composes |
|---|---|---|
| `SingleFlight` | abstract: a slot for at most one job's work, each job's work done at most once | |
| `JobSlot` | `JobManager`, one action per SQL statement | implements `SingleFlight` |
| `JobSlotProofs` | theorems about `JobSlot` | |
| `AtomicStore` | abstract: feeds that only gain batches, analyses that see the store at one moment | |
| `StoreLock` | lock, store, ingest, import, analysis, identity, server | implements `AtomicStore` |
| `StoreLockProofs` | theorems about `StoreLock` | |
| `Ledger` | append, torn append, `previous_run`, `repair_lineage`, the days | |
| `LedgerProofs` | theorems about `Ledger` | |
| `Screen` | what stages 1, 3 and 5 decide about one name, and stage 1 about the run | |
| `Regime` | stage 2: the market's bucket, the crash signature, whether entries are allowed | |
| `Ranking` | stage 4: which names are ranked, when a ranking is refused | |
| `Conviction` | stage 9 and the gate: tests, order, independence | |
| `Signal` | stages 6, 7 and 8: bands, plans, limits | |
| `Cadence`, `Directives`, `Slate`, `Sizing` | the entry clock, the review of open positions, the screen, the amounts | |
| `Backtest` | the rule by which the portfolio simulation keeps and adds names | |
| `Lists`, `Bands` | lists without repetition, sorted, sifted and cut; the entry and the exit rank | read by the modules above |
| `Book` | the pipeline run session after session over one book, compared with the simulated one | the ten modules above |
| `BookProofs` | theorems about `Book` | |
| `OrderLemmas` | facts about orders, lists, sums and division | |
| `HttpCache` | one GET with its retries, and the cached entry's two files | |
| `Actions` | descriptions of corporate actions collapsed to one per event | |
| `Ingest` | an ingest day after day, killed and resumed | `HttpCache`, `Actions` |
| `IngestProofs` | theorems about `Ingest` | |
| `Outcomes` | how a past call ended, bar by bar | |
| `Epochs`, `Forward` | the epoch file, the registered window | |
| `Research` | runs, resolvers, epochs and a forward test over files without a lock | `Outcomes`, `Epochs`, `Forward` |
| `ResearchProofs`, `TradeProofs` | theorems about `Research`: epochs and windows; trades and verdicts | |
| `MC...` | constants of the instances TLC checks | |

### JobSlot

`rows` and `kinds` are the columns of the table; `worker[j]` is the thread of
job j: *spawned* before its first UPDATE, *working* in the runner, *exiting*
after its last one, *ended*, or *lost* when it died without writing its row.
`starter` is the one call inside `start()` (the lock admits one) and what it has
read so far: the ids `reap_stale()` selected, then the answers of `active_job()`.
`cancel()` takes no lock and has two steps, `CancelRead` and `CancelWrite`, for
any number of calls.  Time is `horizon`: jobs are numbered by `created_at`, and
the reaper's cutoff passes them in that order.  Job numbers stand for uuids.
Statements that raise are `StartFails` and `Die`.

### StoreLock

A file is the set of batches merged into it.  `Load` and `Save` are the two
halves of `write_table`; an ingest performs them between `Acquire` and `Leave`,
an importer without a lock.  `Abort` leaves the files as they are at any point.
`view[a][f]` collects everything analysis `a` read of feed `f`, so that two
reads of different contents show.  `ident` is the identity cached by a process,
`Probe` and `ProbeDone` are a `/ready` request that fingerprints the store feed
by feed outside the lock.  A command-line process hosts one analysis, a server
any number.  *Locked feeds* are those that every writer writes under the lock:
all but the fundamentals.

### Ledger

Rows are numbered by their appends.  `place` says where the bytes of a row are:
on a line, on the last line without its newline, in a line that does not parse,
or gone; `cut` says the file ends in a partial line.  `Append` and `Torn` put a
row at the end of the file as it is, so a row after a torn one joins it.  A run
reads its memory at `Begin` and appends later.  `repair_lineage` is three steps:
it decides the disputed dates from one reading, reads the text again, and
replaces the file.  `session` is the last session of the store and `day` the
calendar, so that rows may be recorded on time or late.  A book stands for
`_book_identity`.  Rows that cannot be dated, and years other than one, are left
out: each file is rewritten on its own in the same way.

### Book

A name's data is a record of classes, one for each quantity some check compares
with a threshold: `"none"` where it cannot be computed, otherwise the side it
falls on.  The stages are functions of these records, in modules of their own;
`Book` runs them in the pipeline's order, one action per stage, and keeps from
session to session what the code keeps: the last row of the ledger.  `Begin`
takes over the book and the screen from it, `Record` replaces it, and `Blocked1`,
`Blocked2`, `Blocked4` and `Crash` end a run without a row.  The order in which
names rank is free (`Rank` chooses any order of the names covered), so every
movement through the entry and exit bands occurs.  `ranked` is the whole order,
and the rank and the score of a name are its place in it.  With the floor on the
population the report (`Listed`) leaves names out, and the others keep the rank
they had: fewer names may then be listed than a band has places.  The floor reads
the frame of the v3 and v9R scorers only, and that of v9R has no count of themes,
so that a run with both raises (`FloorRaises`).  An empty report, when no name or no
factor is left, is no refusal: the run goes on and records an empty book.  A market
gives each pair of names a correlation of its own, one for stage 8 and one for the
conviction gate: a name may be passed over and the next one taken.  With the conviction gate the selection is the gate's
and the entry clock is ignored; without it stage 8 settles held names first.
`LiveBookIsTheSimulated` compares the book a run records with the one the
portfolio simulation would hold (`Backtest`): they are the same names wherever no
gate but the rank speaks, and the invariant lists the gates the simulation lacks.
Ledger rows other than the last, the lineages and concurrent runs are in
`Ledger`, `JobSlot` and `StoreLock`.

What a stage computes has a name of its own (`Passed`, `Reasons`, `Rankings`,
`Defence`, `Entries`, `Selected`, `Outcome`), so that an invariant can say of a
later state that it still holds what the stage computed.  `Lists` writes a sort as
the list of a set in a strict order and a filter as the places it keeps, since a
fold says nothing a prover can use about where a name ends up.  The bands are
shared by stage 6, the screen and the simulation (`Bands`), as in the
configuration.

### Ingest

Days are the weekdays a calendar does not rule out; the market opens on the
`Trading` ones, and the archive publishes each session's three files on its day
or later, in any order.  One `Get` answers from the cache or asks the archive,
with retries: the file, nothing (404), a 200 with another page in it, or a
failure.  An index file of whatever content ends the probe for a session; only a
readable one makes a day a session in the backfill, where a 404 and a page mark
the day as empty and a failure does not.  A page in the place of the index or of
the delivery file reads as a table without the columns looked for, or raises out of
the backfill; in the place of the price archive it raises always (`Escapes`).  What
is in the buffers is written then too.  `Flush` writes one feed at a time in
the code's order; `after` is where the code goes when the writes are done: on
with the backfill, on to the dead days, or out with the exception.  `Kill` ends a
run anywhere, with the buffers lost and perhaps half a cache entry.  An archive
publishes between runs: a run asks for each file once, so a file that appears
during a run has appeared before it or after it.  `faults` counts what goes wrong.

### Research

Sessions print bars, by what a bar does to a position.  A run appends a row, for
the last session or an earlier one, with the version its process takes the engine
to have.  A version is the parameters and the store, so a session makes a new one
(`Live`).  The command line resolves it in each process; the server has the
parameters of its start (`loaded`) and the version it resolved when first asked
(`bound`), which it keeps until it is restarted.  Runs, the registration of a window
and reports on it are of either; epochs are opened from the command line.  A restart
is the end of the server's identity; the requests it cuts off are `Die`.  A request that
resolves outcomes is three steps (`ReadFiles`, `Resolve`, `Write`) and takes no
lock, in the server's threads and in the command line alike (`api.py:656`, `1058`,
`1203`); `Die` may leave its append in the middle of a line.  Epoch lines are
whole states, the last of an id counts.  `Edit` is a hand on the registration
file.  `revised` and `strayed` are history: which sessions changed after a request
may have looked, and whether another configuration ran in the window.

## Runs

| run | instance | result |
|---|---|---|
| `job_slot` | 2 kinds, 2 jobs | five invariants, the refinement of `SingleFlight`, two liveness properties |
| `job_cancel` | 2 kinds, 1 job | a cancelled job keeps a result: the cancel overwrites a finished row, or the worker revives a row cancelled while QUEUED |
| `job_reap` | 2 kinds, 1 job | a reaped job's worker still holds the slot |
| `store_lock` | 3 feeds, 2 ingests, 1 import, 1 analysis, a CLI and a server | three invariants, `NoLostBatch`, the refinement of `AtomicStore`, `IngestGetsIn` |
| `store_import` | the same feeds with an import | two reads of one run disagree about the fundamentals |
| `store_stamp` | 2 analyses of one server, 1 ingest | one version names two stores |
| `ledger` | 2 analyses, 2 books, 2 rows, 3 days | three safety invariants beside the types, and `RepairResolves` |
| `ledger_torn` | 3 rows, 2 days | a synced row is lost behind a torn one |
| `book` | 3 names (two of one sector), 3 sessions, 100 scenes, 4 configurations | seven safety invariants beside the types |
| `book_forgets` | the same | a name held by directive is not in the next run's book |
| `ingest` | 3 days, the market open on 2, 2 sessions of history, batches of one, every answer, 1 fault | five safety invariants beside the types |
| `research` | 1 name, 3 sessions, 2 runs, 2 resolvers, 2 parameter sets, 2 events, a server and the command line | four safety invariants beside the types |

Bounds.  `MaxJobs` bounds inserts: two jobs give a live worker of one job and a
row of the other, which is what every property of the slot relates; the third
adds no new relation, since rows older than the newest live one are never read.
Two ingests and an import are the fewest that overlap a merge with a merge, with
an analysis between them.  Two rows are the fewest that dispute a date, and one
may be torn before the other; days 0 to 2 are the fewest on which a row can be
more than `LIVE_RECORDING_LAG_DAYS` late.  The proofs remove these bounds.

In `book`, bands of 1 and 2 over three names put a name inside the entry band,
between the bands and outside both; three sessions are the fewest in which a
name enters, is carried and comes back, and a cadence of 2 closes the middle one.
A scene is plain but for one or two names that share an oddity, or one oddity of
the market: the checks of one name do not read another's data, and the limits
read pairs.  In the odd markets one pair is correlated and the others are not, or
one is measured and the others are not, so that the order in which names are heard
decides whom a limit passes over.  The instance is `Odd` and `OddMarkets`, not every combination of
classes.  In `ingest`, day 2 has no session, so a dead day lies between two
sessions that may be late, and batches of one put a write between any two
downloads; one fault is a failure, a strange page or a kill, in any place, with as
many clean runs before and after as one likes.  In `research`, two overlapping
requests are the fewest that write one call twice, and a holding window of one
session lets a call end in the three that print.  An event is a change of parameters,
a restart of the server, a backdated run, a late bar, a death, a line of the epoch
file, a registration or an edit; two of them are a registration with what disturbs
it, or an epoch with a death, and the proofs hold for any number.  Its bars are `none`, `calm` and
`stop`: the other bars of `Outcomes` (a gap, a lock at the price band, no opening
price) and the target are in the definitions and not in this instance, and a
second name would only add calls that do not meet.

Deadlock is checked except in `store_import` and `store_stamp`, whose runs all
end, and in `book`, `book_forgets` and `research`, which end at the last session
or row.  Symmetry is used in `ledger` (runs and books), `book` (the two names of
one sector) and `research` (requests, parameter sets), which no definition tells
apart; the properties of these runs are safety.

Fairness.  In `JobSlot`: time passes, the operator presses again, a call that
is inside `start()` and a worker thread are scheduled, and a runner returns
(its network calls have timeouts).  `ReapWrite` is strongly fair: the database
is not locked at every single attempt for ever.  No cancel and no restart is
assumed.  In `StoreLock`: the kernel grants a free lock to the waiting ingest,
and a run that holds the lock ends, in success or failure.  Nothing need begin.
That the grant is weakly fair is enough because the analyses are finitely many:
analyses that overlapped without end would hold the shared lock for ever, and
the code has nothing against it.  `Ledger`, `Book`, `Ingest` and `Research` promise
no progress and have no fairness: a run is started by hand or by a timer outside
the repository, and after a strange price page even a fair schedule of ingests
never gets past its day (see below).

## Where the code and its text part

Six runs expect a violation, each quoting the line the code does not keep:

1. A cancelled job's result is not discarded: a cancel that read the row before its
   worker finished it marks the finished row CANCELLED (`jobs.py:408` against
   `399-401`), and a job cancelled before its worker's first UPDATE is revived and
   completes (`jobs.py:325-329` against `334-336`).
2. A job "marked failed so a new analysis can start" keeps the slot while its
   thread lives (`jobs.py:294` against `245-246`).
3. `data fundamentals` writes without the lock (`cli.py:724` against
   `pipeline.py:128-131`).
4. A server stamps runs after an ingest with the identity from before it
   (`config/loader.py:169` against `pipeline.py:148-152`).
5. A row appended after a torn line is lost with it (`ledger.py:57` against
   `ledger.py:7-8`).
6. A name held by directive is forgotten by the next run: the pipeline reads
   `signals_generated` alone and nothing calls `Ledger.open_book`
   (`pipeline.py:236` against `core/contracts.py:966-968`).

Read while modelling, and modelled as the code has them:

- The absolute floor at `stages/stage8_final_signal.py:390` drops held names too,
  which `stage4_core_score.py:909` and its own comment call "ENTRIES ONLY"; the
  condition is a conjunct of `BandKeepsHeld`.
- Under the conviction gate stage 8 ignores `blocked_reason`, and held names have
  no band: a run's book is what the gate buys.
- The gate asks independence of the first buy only, and its evidence similarity is
  never computed: no scores are passed (`conviction/gate.py:482-485`).
- A held name silent for the whole price window (`pipeline.py:68`) has no frame and
  reads as trading normally.
- Whether a forward window is void depends on who reports.  The version covers the
  store, so a command line sees another one after every session and calls the window
  broken, as `validation/forward.py:519-524` says of a store that grows; the server
  compares with the version it resolved once (`config/loader.py:162-185`) and does
  not see the store grow.  What both agree on is that a window in which a run of
  another version was logged is void (`StrayedStaysBroken`).
- With the absolute floor on, the scorer of v9R cannot finish a ranking: the floor
  reads a column its frame has not (`stages/stage4_core_score.py:897`,
  `features/v9r.py:158-176`).
- An ingest of an earlier session stores today's member list under that session,
  over the one stored then (`data/ingest.py:365-388`).
- A 200 answer that is not the price archive is cached as a past file: every ingest
  that reaches its day raises there until the entry is evicted
  (`data/providers/nse_archives.py:98`).  A page in the place of the other two files
  raises an error of pandas that the backfill does not catch either, unless it reads
  as a table (`data/providers/nse_archives.py:285`, `316`).
- A file of actions that is not empty marks the action sources as read
  (`data/ingest.py:1064-1069`), so the two feeds are not asked again until the mark
  is old enough, which each ingest renews.
- `VerdictIsFinal` excepts sessions whose bar or book came late: a backdated run, a
  half session completed later, a row logged between a request's two reads.

## Proofs

Every invariant the passing runs check is a theorem, and so are the action
properties and the safety part of the two refinements.  The theorems hold for every value of the
constants under the assumptions the modules name: `MaxJobs` and the bounds of the
ledger are naturals, ingests and importers are disjoint, a command-line process
hosts one analysis, sources and kinds of action have a rank, the action rows are
rows, resolvers and names are finite, ranks, limits, penalties and caps are
naturals, prices are positive, scores and floors integers, a correlation and a
level are of the classes the checks read, the capital and the holding window are
not zero.  TLC evaluates them on each run.

- `JobSlotProofs`.  The inductive invariant ties threads to rows: only the
  current job's thread may be alive, a live row has a live or a lost thread, the
  worker of a row cancelled while RUNNING is past its claim.  It is needed
  because the orphan check looks at one thread only: that no other thread can be
  alive is what makes the look enough.  From it follow the five invariants, and
  each step is shown to be a step of `SingleFlight` or a stutter.
- `StoreLockProofs`.  While an analysis reads, no ingest writes; while one
  ingest writes, no other holds the lock, so what it loaded is still what the
  file contains.  From these: the store read is the store locked, merges lose
  nothing, and `Finish` maps to the one step in which the abstract analysis sees
  the whole store.  The stamp of a command-line run needs a second invariant:
  its process has no identity before its run reads, and the one it then resolves
  is that of the locked store.
- `LedgerProofs`.  What a row records never changes once written; only its label
  and its bytes do.  So a run's memory, the disputes a repair found and the
  disputes that set a row aside all survive every later step.  Acknowledged rows
  keep a line of their own, in the file and in the rewrite in progress.
  `RepairsResolve` needs that as long as no append has come since a repair decided,
  the dates it suspects and the text it read are those of the file (`UpToDate`), so
  the rows it leaves live on a date are of one book.
- `IngestProofs`.  What was fetched is buffered or stored, the tables are written in
  the order index, prices, delivery, and buffered prices have their index buffered
  or stored (`KeptOK`): that is why a run may stop between any two writes.  Days found
  empty were answered for before they become dead (`DeadOK`).  The lemma
  `DedupeCollapses` says that of two rows close enough to be one event `Dedupe` keeps
  at most one, because one outranks the other (`OneOutranks`).  `BackfillCompletes`
  rests on `BackOK`: while a run fetches, each session its history asks for is stored
  whole, was tried in vain, has both halves fetched in this run, or is still on the
  list; when it goes on to the universe the list is empty and what was fetched is
  stored.  The days that count do not change under it, because the dead days it knew
  are neither fetched nor found empty again.
- `ResearchProofs`.  A row of the outcomes names a run, and its epoch, if any, is that
  run's version; so does every row a request is about to write (`OutcomesOK`), which is
  what makes the property survive the time between judging and writing.  A window
  that strayed holds a row of another version (`RegistrationOK`): the ledger only
  grows, so the witness stays and the window is void for good, to whichever process
  reports on it: the version that process has is either not the registered one, or
  not that of the witness.
- `TradeProofs`.  The rows on file for a trade and the requests that may still add one,
  because they read before any was there, are together no more than the resolvers
  (`Share`): a request leaves the second count when it joins the first.  That a verdict
  is final is a fact about one function: `Verdict` reads bars up to the exit and books
  up to the session before it, so it stands while those do (`VerdictStands`, from
  `Alike`, with `StillFound` and `Undisturbed` for the entry and the exit).  The
  invariant `FinalInv` adds that nothing is stored for sessions that have not printed
  and that rows in hand stand as those on file do, but for sessions revised since.
- `BookProofs`.  The invariant `IInv` says that each stage's result is the function of
  the inputs and of the earlier results that the stage computes; from it a property of
  what is recorded is a fact about those functions.  It is needed because the stages are
  separate steps: between them only this says that what a later stage reads is what
  an earlier one wrote.  TLC checked it on the instance of `book` too.
  - `Select`, `SelectAtMostTwo` and `StillOpen` are recursive functions; `ChainExists`
    (in `OrderLemmas`) shows that they exist, and what each step keeps is a lemma about
    one step (`OfferedKeepsLimits`, `AddingKeepsChosen`, `RoundIsFair`).
  - `LimitsAreKept`: a name added finds its limits kept, and names added later only
    fill sectors they were themselves counted in, so the limits still hold at the end.
  - `HeldNamesStay`: a held name in the band is triggered whatever else is said of it,
    so it is heard first, and what is heard first is cut by score alone.
  - `ScreensAreStable`: the names carried are the best of those shown before, and a name
    dropped is not in the pool the new ones are taken from.
  - `TheCapitalIsSpread`: a name leaves a round because its cap is less than the equal
    part, and what it gives back makes the part of the others no smaller (`Fair`); so
    the caps of those that left are below the last part too, as many rounds as names
    settle it (`Settled`: every round closes a name or none will), and at the end either
    all capital is out but a remainder or every name has its cap (`Spread`).
  - `TheSimulationIsTheLiveBook`: the names kept are the same set; those that may enter
    are the same set (`SameNames`), heard in the same order (`HeardByRank`), and both
    take the first of them that fit (`AddedIsFirst`, `OpenTakesFirst`).  Ranks are
    places in the whole order, so the theorem asks that the names of the band be
    listed and qualify: one that the floor takes off the list leaves its place empty
    in the live book, where the simulation fills it.

Proving changed two properties of `Book`, which the bounded runs had passed.
`GateFillsItsSlots` spoke of all survivors and now speaks of those the gate hears:
with more of them than the shortlist holds, the best case may not be heard.
`LiveBookIsTheSimulated` needs that the penalties of stage 5 leave the names of the
band in the order of their ranks: with an entry band of two a penalised name falls
behind the second, and the live book takes the second alone when there is one place
left.  TLC shows it with an entry rank of 2 and an exit rank of 3.

Only model-checked: the liveness properties (`RowsSettle`, `SlotRecovers`,
`IngestGetsIn`), which the prover cannot reach.  A theorem about `Book` takes any
scene, so it covers the combinations of classes the instance leaves out.

## Not modelled

Features and models are numerical functions of one frame; what the stages read of
them is a class per quantity.  Of the portfolio simulation only the choice of
names is modelled; its returns, exits, sizes and costs, and the metrics, are research
code run by hand over a finished panel.  Presentation and the API's read endpoints
shape data.  Providers parse files.  The run detail cache may fail by design.  The
trial registry charges its budget only to a pass id, and no command passes one.
Readiness reports over the others' files; its one effect, the refusal to restart a
forward test, is `MayRestart`.  In the modelled parts: fingerprints, mode sources
and exit model versions of a forward row (columns compared like the version), the
macro, fundamentals and surveillance refreshes of an ingest, months and holidays,
and all wording.  `PROJECT.json` gives the reason for each component.

## Plan

1. Proofs of what is new: each component that is added with its invariant proved.
2. `Research` with the bars it leaves out, and a second name.
3. The portfolio simulation as a state machine over a small panel: that the returns
   of a position carried over periods multiply to its return over the whole span.
