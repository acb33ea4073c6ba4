------------------------------- MODULE JobSlot -------------------------------
(***************************************************************************)
(* The single job slot of the web process (prosignal/jobs.py): a jobs      *)
(* table in SQLite, one worker thread, and the calls that race on them.    *)
(*                                                                         *)
(* start() runs under a lock of its process, but each of its SQLite        *)
(* statements is a transaction of its own and neither the worker thread    *)
(* nor cancel() takes that lock, so every statement is a separate action.  *)
(* Jobs are numbered in the order of created_at.                           *)
(***************************************************************************)
EXTENDS Naturals, FiniteSets

CONSTANTS
  Kinds,    \* the kinds of job a caller may ask for (analysis, ingest, ...)
  MaxJobs   \* bound: how many rows the table ever holds

ASSUME MaxJobsAssumption == MaxJobs \in Nat

Jobs == 1..MaxJobs

ActiveStates   == {"QUEUED", "RUNNING"}
TerminalStates == {"COMPLETED", "FAILED", "CANCELLED"}

VARIABLES
  rows,        \* state column of each job, "absent" before the INSERT
  kinds,       \* kind column
  results,     \* the jobs whose result_json is set
  created,     \* number of rows inserted
  horizon,     \* jobs 1..horizon were created before the reaper's cutoff
  worker,      \* what the thread of each job is doing
  current,     \* _thread_job_id, 0 before the first start() of the process
  starter,     \* the call that is inside start(), and what it has read
  cancelling,  \* the cancel() calls that have read a live row, not yet written
  hit          \* history: the live state a cancel() last overwrote, or "none"

vars == <<rows, kinds, results, created, horizon, worker, current, starter,
          cancelling, hit>>

NoKind == "nokind"

Idle == [pc |-> "idle", kind |-> NoKind, stale |-> {}, reply |-> 0]

\* A thread that is_alive(): not yet in its first UPDATE, in the runner, or
\* past its last UPDATE and still releasing memory.
LiveThread == {"spawned", "working", "exiting"}

Alive(j) == worker[j] \in LiveThread

Active == {j \in Jobs : rows[j] \in ActiveStates}

\* The row active_job() returns: ORDER BY created_at DESC LIMIT 1.
Newest(j) == j \in Active /\ \A i \in Active : i <= j

\* Mutant: QUEUED rows are not reaped.
RunningStale == {j \in Jobs : rows[j] = "RUNNING" /\ j <= horizon}

\* The ids reap_stale() selects.
Stale == {j \in Active : j <= horizon}

\* Mutant: the thread is judged by its row, which cancel() makes terminal.
RowAlive == current # 0 /\ rows[current] \in ActiveStates

ThreadAlive == current # 0 /\ Alive(current)

Init ==
  /\ rows = [j \in Jobs |-> "absent"]
  /\ kinds = [j \in Jobs |-> NoKind]
  /\ results = {}
  /\ created = 0
  /\ horizon = 0
  /\ worker = [j \in Jobs |-> "none"]
  /\ current = 0
  /\ starter = Idle
  /\ cancelling = {}
  /\ hit = [j \in Jobs |-> "none"]

-----------------------------------------------------------------------------
(* start() *)

\* The call returns, releasing the lock: with job j, or (0) by raising.
Answer(j) == [pc |-> "idle", kind |-> starter.kind, stale |-> {}, reply |-> j]

\* Takes the lock; reap_stale() selects the overdue rows.
Request(k) ==
  /\ starter.pc = "idle"
  /\ starter' = [pc |-> "reap", kind |-> k, stale |-> Stale, reply |-> 0]
  /\ UNCHANGED <<rows, kinds, results, created, horizon, worker, current,
                 cancelling, hit>>

\* Mutant: the reaper's update is never committed.
UncommittedFail(ids) == rows

\* reap_stale() writes FAILED to the ids it selected, whatever they are now.
FailRows(ids) == [j \in Jobs |-> IF j \in ids THEN "FAILED" ELSE rows[j]]

ReapWrite ==
  /\ starter.pc = "reap"
  /\ rows' = FailRows(starter.stale)
  /\ starter' = [starter EXCEPT !.pc = "look"]
  /\ UNCHANGED <<kinds, results, created, horizon, worker, current,
                 cancelling, hit>>

\* Mutant: whatever job holds the slot is handed back.
LookAny(j) ==
  /\ starter.pc = "look"
  /\ Newest(j)
  /\ starter' = Answer(j)
  /\ UNCHANGED <<rows, kinds, results, created, horizon, worker, current,
                 cancelling, hit>>

\* active_job() finds a row of the kind asked for: that job is the answer.
LookSame(j) ==
  /\ starter.pc = "look"
  /\ Newest(j)
  /\ kinds[j] = starter.kind
  /\ starter' = Answer(j)
  /\ UNCHANGED <<rows, kinds, results, created, horizon, worker, current,
                 cancelling, hit>>

\* active_job() finds a row of another kind: JobBusy.
LookBusy(j) ==
  /\ starter.pc = "look"
  /\ Newest(j)
  /\ kinds[j] # starter.kind
  /\ starter' = Answer(0)
  /\ UNCHANGED <<rows, kinds, results, created, horizon, worker, current,
                 cancelling, hit>>

\* active_job() returns None.
LookFree ==
  /\ starter.pc = "look"
  /\ Active = {}
  /\ starter' = [starter EXCEPT !.pc = "spawn"]
  /\ UNCHANGED <<rows, kinds, results, created, horizon, worker, current,
                 cancelling, hit>>

\* No live row, but the last worker still runs: JobBusy(orphaned=True).
SpawnRefused ==
  /\ starter.pc = "spawn"
  /\ ThreadAlive
  /\ starter' = Answer(0)
  /\ UNCHANGED <<rows, kinds, results, created, horizon, worker, current,
                 cancelling, hit>>

\* Mutant: a terminal row is taken for a finished thread.
NoOrphanCheck == TRUE

SlotIsFree == ~ThreadAlive

\* INSERT a QUEUED row and start its thread.  Thread.start() may raise after
\* the row is in: the job then has a row and no thread ("lost") and the call
\* raises.
Spawn ==
  /\ starter.pc = "spawn"
  /\ SlotIsFree
  /\ created < MaxJobs
  /\ created' = created + 1
  /\ rows' = [rows EXCEPT ![created + 1] = "QUEUED"]
  /\ kinds' = [kinds EXCEPT ![created + 1] = starter.kind]
  /\ current' = created + 1
  /\ \E t \in {"spawned", "lost"} :
        /\ worker' = [worker EXCEPT ![created + 1] = t]
        /\ starter' = Answer(IF t = "lost" THEN 0 ELSE created + 1)
  /\ UNCHANGED <<results, horizon, cancelling, hit>>

\* A statement of start() raises (the database stays locked for 30 s): the
\* lock is released and nothing more is done.
StartFails ==
  /\ starter.pc # "idle"
  /\ starter' = Answer(0)
  /\ UNCHANGED <<rows, kinds, results, created, horizon, worker, current,
                 cancelling, hit>>

-----------------------------------------------------------------------------
(* The worker thread: _execute() *)

\* Mutant: a state the JobState enum does not know.
ClaimedAsStarted(j) == [rows EXCEPT ![j] = "STARTED"]

\* The first UPDATE sets RUNNING by id, without looking at the state.
Claimed(j) == [rows EXCEPT ![j] = "RUNNING"]

Claim(j) ==
  /\ worker[j] = "spawned"
  /\ rows' = Claimed(j)
  /\ worker' = [worker EXCEPT ![j] = "working"]
  /\ UNCHANGED <<kinds, results, created, horizon, current, starter,
                 cancelling, hit>>

\* Mutant: the last update no longer looks at the state.
FinishAlways(j) == TRUE

\* The runner returned; the UPDATE applies WHERE state = RUNNING.
MayFinish(j) == rows[j] = "RUNNING"

Complete(j) ==
  /\ worker[j] = "working"
  /\ rows' = IF MayFinish(j) THEN [rows EXCEPT ![j] = "COMPLETED"] ELSE rows
  /\ results' = IF MayFinish(j) THEN results \cup {j} ELSE results
  /\ worker' = [worker EXCEPT ![j] = "exiting"]
  /\ UNCHANGED <<kinds, created, horizon, current, starter, cancelling, hit>>

\* Mutant: the exception is swallowed and the row left as it is.
SwallowedFail(j) ==
  /\ worker[j] = "working"
  /\ worker' = [worker EXCEPT ![j] = "exiting"]
  /\ UNCHANGED <<rows, kinds, results, created, horizon, current, starter,
                 cancelling, hit>>

\* The runner raised, or the COMPLETED update did; same condition.
Fail(j) ==
  /\ worker[j] = "working"
  /\ rows' = IF MayFinish(j) THEN [rows EXCEPT ![j] = "FAILED"] ELSE rows
  /\ worker' = [worker EXCEPT ![j] = "exiting"]
  /\ UNCHANGED <<kinds, results, created, horizon, current, starter,
                 cancelling, hit>>

\* The first UPDATE is outside the try, and the FAILED update inside the
\* handler: when one of them raises, the thread dies and the row stays.
Die(j) ==
  /\ worker[j] \in {"spawned", "working"}
  /\ worker' = [worker EXCEPT ![j] = "lost"]
  /\ UNCHANGED <<rows, kinds, results, created, horizon, current, starter,
                 cancelling, hit>>

\* release_memory() is done and the thread ends.
Exit(j) ==
  /\ worker[j] = "exiting"
  /\ worker' = [worker EXCEPT ![j] = "ended"]
  /\ UNCHANGED <<rows, kinds, results, created, horizon, current, starter,
                 cancelling, hit>>

-----------------------------------------------------------------------------
(* cancel(): reads the row, then writes CANCELLED by id *)

CancelRead(j) ==
  /\ rows[j] \in ActiveStates
  /\ cancelling' = cancelling \cup {j}
  /\ UNCHANGED <<rows, kinds, results, created, horizon, worker, current,
                 starter, hit>>

CancelWrite(j) ==
  /\ j \in cancelling
  /\ rows' = [rows EXCEPT ![j] = "CANCELLED"]
  /\ cancelling' = cancelling \ {j}
  /\ hit' = IF rows[j] \in ActiveStates THEN [hit EXCEPT ![j] = rows[j]] ELSE hit
  /\ UNCHANGED <<kinds, results, created, horizon, worker, current, starter>>

-----------------------------------------------------------------------------
(* The environment *)

\* Time passes: the oldest job not yet overdue becomes overdue.
Expire ==
  /\ horizon < created
  /\ horizon' = horizon + 1
  /\ UNCHANGED <<rows, kinds, results, created, worker, current, starter,
                 cancelling, hit>>

\* The process dies with its threads and calls; the new one reaps on
\* construction.
Restart ==
  /\ worker' = [j \in Jobs |-> IF Alive(j) THEN "lost" ELSE worker[j]]
  /\ current' = 0
  /\ starter' = Idle
  /\ cancelling' = {}
  /\ rows' = FailRows(Stale)
  /\ UNCHANGED <<kinds, results, created, horizon, hit>>

-----------------------------------------------------------------------------
Start ==
  \/ ReapWrite
  \/ \E j \in Jobs : LookSame(j) \/ LookBusy(j)
  \/ LookFree
  \/ SpawnRefused
  \/ Spawn

Execute(j) == Claim(j) \/ Complete(j) \/ Fail(j) \/ Die(j) \/ Exit(j)

Cancel(j) == CancelRead(j) \/ CancelWrite(j)

Next ==
  \/ \E k \in Kinds : Request(k)
  \/ Start
  \/ StartFails
  \/ \E j \in Jobs : Execute(j) \/ Cancel(j)
  \/ Expire
  \/ Restart

Spec == Init /\ [][Next]_vars

(***************************************************************************)
(* Fairness.  Time passes; the operator keeps pressing the button; a call  *)
(* inside start() and a worker thread keep being scheduled; a runner       *)
(* returns (its network calls have timeouts); and the database does not    *)
(* refuse the reaper's write for ever, nor is every press cut short before *)
(* it (strong fairness of ReapWrite).  No cancel and no restart is owed.   *)
(***************************************************************************)
Fairness ==
  /\ WF_vars(Expire)
  /\ WF_vars(\E k \in Kinds : Request(k))
  /\ SF_vars(ReapWrite)
  /\ WF_vars(Start \/ StartFails)
  /\ \A j \in Jobs : WF_vars(Execute(j))

FairSpec == Spec /\ Fairness

-----------------------------------------------------------------------------
(* Properties *)

\* Every variable has the shape the table and the threads give it.
TypeOK ==
  /\ rows \in [Jobs -> ActiveStates \cup TerminalStates \cup {"absent"}]
  /\ kinds \in [Jobs -> Kinds \cup {NoKind}]
  /\ results \subseteq Jobs
  /\ created \in 0..MaxJobs
  /\ horizon \in 0..created
  /\ worker \in [Jobs -> LiveThread \cup {"none", "lost", "ended"}]
  /\ current \in 0..created
  /\ starter \in [pc : {"idle", "reap", "look", "spawn"},
                  kind : Kinds \cup {NoKind},
                  stale : SUBSET Jobs,
                  reply : 0..created]
  /\ cancelling \subseteq Jobs
  /\ hit \in [Jobs -> ActiveStates \cup {"none"}]

\* Two full-universe runs never overlap in one process, whatever is
\* cancelled, reaped or resurrected meanwhile (start()'s orphan check).
SingleWorker == \A i, j \in Jobs : Alive(i) /\ Alive(j) => i = j

\* A job that was cancelled while RUNNING never comes back: its row stays
\* terminal, never COMPLETED, and no result is ever stored for it
\* (the WHERE state = RUNNING of _execute's last update).
CancelOfRunningSticks ==
  \A j \in Jobs :
    hit[j] = "RUNNING" => rows[j] \in {"CANCELLED", "FAILED"} /\ j \notin results

\* A live row always has a live thread behind it, unless that thread was
\* lost to a crash or to a failed write: nothing else can wedge the button.
ActiveRowHasWorker ==
  \A j \in Jobs : rows[j] \in ActiveStates => Alive(j) \/ worker[j] = "lost"

\* The job start() hands back is of the kind that was asked for
\* (the JobBusy contract).
ReplyIsOfTheKindAsked ==
  starter.reply # 0 => kinds[starter.reply] = starter.kind

\* No row is live for ever: a crash does not block the button permanently.
RowsSettle ==
  \A j \in Jobs : rows[j] \in ActiveStates ~> rows[j] \in TerminalStates

\* The slot keeps becoming free: no live row and no live thread.
SlotRecovers == []<>(Active = {} /\ ~ThreadAlive)

\* The slot is a single-flight slot.
Slot == INSTANCE SingleFlight WITH
        running <- {j \in Jobs : Alive(j)},
        begun   <- {j \in Jobs : worker[j] # "none"}

ImplementsSingleFlight == Slot!Spec

-----------------------------------------------------------------------------
(* What the repository says and the code does not do *)

\* cancel(): a cancelled job's "result is DISCARDED, because the final update is
\* conditional on the row still being RUNNING".  A row cancelled while QUEUED is
\* claimed by its worker all the same, runs, and is COMPLETED; and a cancel that
\* looked at a row before its worker finished it marks the finished row CANCELLED,
\* with its result in it.
CancelledIsDiscarded ==
  \A j \in Jobs : hit[j] # "none" \/ rows[j] = "CANCELLED" => j \notin results

\* reap_stale(): the job is "marked failed so a new analysis can start".  A
\* worker that outlives the timeout still holds the slot.
ReapedSlotIsUsable ==
  starter.pc = "spawn" /\ starter.stale # {} => ~ThreadAlive
=============================================================================
