---------------------------- MODULE JobSlotProofs ----------------------------
(***************************************************************************)
(* Theorems about the job slot for every set of kinds and every number of  *)
(* rows.  IInv is the inductive invariant behind all of them.              *)
(***************************************************************************)
EXTENDS JobSlot, TLAPS

\* The only thread that can be alive is the one start() remembers.
WorkerIsCurrent == \A j \in Jobs : Alive(j) => j = current

\* Rows and threads exist exactly for the jobs created so far, and no call
\* holds the id of a row that does not exist yet.
CreatedSoFar ==
  /\ \A j \in Jobs : worker[j] = "none" <=> j > created
  /\ \A j \in Jobs : rows[j] = "absent" <=> j > created
  /\ starter.stale \subseteq 1..created
  /\ cancelling \subseteq 1..created

\* What a row says about its thread, and a thread about its row.
RowsAndThreads ==
  \A j \in Jobs :
    /\ rows[j] = "QUEUED" => worker[j] \in {"spawned", "lost"}
    /\ rows[j] = "RUNNING" => worker[j] \in {"working", "lost"} /\ j \notin results
    /\ worker[j] = "spawned" => j \notin results /\ hit[j] # "RUNNING"
    /\ worker[j] = "none" => j \notin results /\ hit[j] = "none"

IInv ==
  /\ TypeOK
  /\ WorkerIsCurrent
  /\ CreatedSoFar
  /\ RowsAndThreads
  /\ CancelOfRunningSticks
  /\ ReplyIsOfTheKindAsked

USE MaxJobsAssumption DEF Jobs, Alive, LiveThread, ActiveStates, TerminalStates

LEMMA InitIInv == Init => IInv
BY DEF Init, IInv, TypeOK, WorkerIsCurrent, CreatedSoFar, RowsAndThreads,
       CancelOfRunningSticks, ReplyIsOfTheKindAsked, Idle

(***************************************************************************)
(* The steps of start() that leave the table and the threads alone.        *)
(***************************************************************************)
LEMMA StarterOnly ==
  ASSUME IInv,
         UNCHANGED <<rows, kinds, results, created, horizon, worker, current,
                     cancelling, hit>>,
         starter' \in [pc : {"idle", "reap", "look", "spawn"},
                       kind : Kinds \cup {NoKind},
                       stale : SUBSET Jobs,
                       reply : 0..created],
         starter'.stale \subseteq 1..created,
         starter'.reply # 0 => kinds[starter'.reply] = starter'.kind
  PROVE  IInv'
BY DEF IInv, TypeOK, WorkerIsCurrent, CreatedSoFar, RowsAndThreads,
       CancelOfRunningSticks, ReplyIsOfTheKindAsked

LEMMA StartSteps ==
  ASSUME IInv,
         \/ \E k \in Kinds : Request(k)
         \/ \E j \in Jobs : LookSame(j) \/ LookBusy(j)
         \/ LookFree \/ SpawnRefused \/ StartFails
  PROVE  IInv'
<1>0. TypeOK /\ CreatedSoFar /\ ReplyIsOfTheKindAsked
  BY DEF IInv
<1>1. ASSUME NEW k \in Kinds, Request(k) PROVE IInv'
  <2>1. Stale \subseteq 1..created
    BY <1>0 DEF Stale, Active, TypeOK, CreatedSoFar
  <2>2. starter' \in [pc : {"idle", "reap", "look", "spawn"},
                     kind : Kinds \cup {NoKind},
                     stale : SUBSET Jobs,
                     reply : 0..created]
        /\ starter'.stale = Stale /\ starter'.reply = 0
    BY <1>0, <1>1, <2>1 DEF Request, TypeOK
  <2>. QED BY <1>1, <2>1, <2>2, StarterOnly DEF Request
<1>2. ASSUME NEW j \in Jobs, LookSame(j) PROVE IInv'
  <2>1. /\ rows[j] \in ActiveStates
        /\ starter' = Answer(j)
        /\ kinds[j] = starter.kind
        /\ UNCHANGED <<rows, kinds, results, created, horizon, worker, current,
                       cancelling, hit>>
    BY <1>2 DEF LookSame, Newest, Active
  <2>2. j \in 1..created
    BY <1>0, <2>1 DEF TypeOK, CreatedSoFar
  <2>3. /\ starter' \in [pc : {"idle", "reap", "look", "spawn"},
                         kind : Kinds \cup {NoKind},
                         stale : SUBSET Jobs,
                         reply : 0..created]
        /\ starter'.stale \subseteq 1..created
        /\ starter'.reply # 0 => kinds[starter'.reply] = starter'.kind
    BY <1>0, <2>1, <2>2 DEF TypeOK, Answer
  <2>4. UNCHANGED <<rows, kinds, results, created, horizon, worker, current,
                    cancelling, hit>>
    BY <1>2 DEF LookSame
  <2>. QED BY <2>3, <2>4, StarterOnly
<1>3. ASSUME NEW j \in Jobs, LookBusy(j) PROVE IInv'
  BY <1>0, <1>3, StarterOnly DEF LookBusy, Answer, TypeOK, CreatedSoFar,
                                 ReplyIsOfTheKindAsked
<1>4. CASE LookFree
  BY <1>0, <1>4, StarterOnly DEF LookFree, TypeOK, CreatedSoFar,
                                 ReplyIsOfTheKindAsked
<1>5. CASE SpawnRefused
  BY <1>0, <1>5, StarterOnly DEF SpawnRefused, Answer, TypeOK, CreatedSoFar,
                                 ReplyIsOfTheKindAsked
<1>6. CASE StartFails
  BY <1>0, <1>6, StarterOnly DEF StartFails, Answer, TypeOK, CreatedSoFar,
                                 ReplyIsOfTheKindAsked
<1>. QED BY <1>1, <1>2, <1>3, <1>4, <1>5, <1>6

(***************************************************************************)
(* The steps that write the table or move a thread.                        *)
(***************************************************************************)
LEMMA ReapWriteIInv == IInv /\ ReapWrite => IInv'
<1>. SUFFICES ASSUME IInv, ReapWrite PROVE IInv'
  OBVIOUS
<1>. USE DEF IInv, TypeOK, CreatedSoFar, ReapWrite, FailRows
<1>1. \A j \in Jobs :
        rows'[j] = IF j \in starter.stale THEN "FAILED" ELSE rows[j]
  OBVIOUS
<1>2. TypeOK'
  OBVIOUS
<1>3. WorkerIsCurrent'
  BY DEF WorkerIsCurrent
<1>4. CreatedSoFar'
  BY <1>1
<1>5. RowsAndThreads'
  BY <1>1 DEF RowsAndThreads
<1>6. CancelOfRunningSticks'
  BY <1>1 DEF CancelOfRunningSticks
<1>7. ReplyIsOfTheKindAsked'
  BY DEF ReplyIsOfTheKindAsked
<1>. QED BY <1>2, <1>3, <1>4, <1>5, <1>6, <1>7

LEMMA SpawnIInv == IInv /\ Spawn => IInv'
<1>. SUFFICES ASSUME IInv, Spawn PROVE IInv'
  OBVIOUS
<1>. USE DEF IInv, TypeOK, CreatedSoFar, Spawn, Answer
<1>1. created + 1 \in Jobs /\ created' = created + 1
  OBVIOUS
<1>2. TypeOK'
  <2>1. /\ rows' \in [Jobs -> ActiveStates \cup TerminalStates \cup {"absent"}]
        /\ kinds' \in [Jobs -> Kinds \cup {NoKind}]
        /\ worker' \in [Jobs -> LiveThread \cup {"none", "lost", "ended"}]
    BY <1>1
  <2>2. starter' \in [pc : {"idle", "reap", "look", "spawn"},
                     kind : Kinds \cup {NoKind},
                     stale : SUBSET Jobs,
                     reply : 0..created']
    BY <1>1
  <2>. QED BY <1>1, <2>1, <2>2
<1>3. \A j \in Jobs : ~Alive(j)
  BY DEF WorkerIsCurrent, SlotIsFree, ThreadAlive
<1>4. WorkerIsCurrent'
  BY <1>3 DEF WorkerIsCurrent
<1>5. CreatedSoFar'
  BY <1>1
<1>6. RowsAndThreads'
  BY <1>1 DEF RowsAndThreads
<1>7. CancelOfRunningSticks'
  BY <1>1 DEF CancelOfRunningSticks, RowsAndThreads
<1>8. ReplyIsOfTheKindAsked'
  BY <1>1 DEF ReplyIsOfTheKindAsked
<1>. QED BY <1>2, <1>4, <1>5, <1>6, <1>7, <1>8

LEMMA ExecuteIInv == ASSUME NEW j \in Jobs, IInv, Execute(j) PROVE IInv'
<1>. USE DEF IInv, TypeOK, WorkerIsCurrent, CreatedSoFar, RowsAndThreads,
             CancelOfRunningSticks, ReplyIsOfTheKindAsked
<1>1. CASE Claim(j) BY <1>1 DEF Claim, Claimed
<1>2. CASE Complete(j) BY SMTT(40), <1>2 DEF Complete, MayFinish
<1>3. CASE Fail(j) BY <1>3 DEF Fail, MayFinish
<1>4. CASE Die(j) BY <1>4 DEF Die
<1>5. CASE Exit(j) BY <1>5 DEF Exit
<1>. QED BY <1>1, <1>2, <1>3, <1>4, <1>5 DEF Execute

LEMMA CancelIInv == ASSUME NEW j \in Jobs, IInv, Cancel(j) PROVE IInv'
<1>. USE DEF IInv, TypeOK, WorkerIsCurrent, CreatedSoFar, RowsAndThreads,
             CancelOfRunningSticks, ReplyIsOfTheKindAsked
<1>1. CASE CancelRead(j) BY <1>1 DEF CancelRead
<1>2. CASE CancelWrite(j) BY <1>2 DEF CancelWrite
<1>. QED BY <1>1, <1>2 DEF Cancel

LEMMA EnvironmentIInv == IInv /\ (Expire \/ Restart) => IInv'
<1>. USE DEF IInv, TypeOK, WorkerIsCurrent, CreatedSoFar, RowsAndThreads,
             CancelOfRunningSticks, ReplyIsOfTheKindAsked
<1>1. IInv /\ Expire => IInv'
  BY DEF Expire
<1>2. IInv /\ Restart => IInv'
  BY DEF Restart, Idle, FailRows, Stale, Active
<1>. QED BY <1>1, <1>2

LEMMA StepIInv == IInv /\ [Next]_vars => IInv'
<1>. SUFFICES ASSUME IInv, [Next]_vars PROVE IInv'
  OBVIOUS
<1>1. CASE UNCHANGED vars
  BY <1>1 DEF vars, IInv, TypeOK, WorkerIsCurrent, CreatedSoFar,
     RowsAndThreads, CancelOfRunningSticks, ReplyIsOfTheKindAsked
<1>2. CASE Next
  BY <1>2, StartSteps, ReapWriteIInv, SpawnIInv, ExecuteIInv, CancelIInv,
     EnvironmentIInv DEF Next, Start
<1>. QED BY <1>1, <1>2

-----------------------------------------------------------------------------
\* The inductive invariant holds in every behaviour of the job slot.
LEMMA Invariant == Spec => []IInv
BY InitIInv, StepIInv, PTL DEF Spec

\* Every column and every thread keeps its shape (the jobs table, Job).
THEOREM TypeCorrect == Spec => []TypeOK
<1>1. IInv => TypeOK BY DEF IInv
<1>. QED BY Invariant, <1>1, PTL

\* At most one worker thread is alive in a process, for any number of jobs,
\* cancels, reaps and restarts (JobManager.start).
THEOREM AtMostOneWorker == Spec => []SingleWorker
<1>1. IInv => SingleWorker BY DEF IInv, WorkerIsCurrent, SingleWorker
<1>. QED BY Invariant, <1>1, PTL

\* A live row without a live thread is one whose thread was lost to a crash
\* or a failed write (JobManager._execute).
THEOREM LiveRowsAreWorked == Spec => []ActiveRowHasWorker
<1>1. IInv => ActiveRowHasWorker
  BY DEF IInv, TypeOK, RowsAndThreads, ActiveRowHasWorker
<1>. QED BY Invariant, <1>1, PTL

\* A cancel that lands on a RUNNING row is final (JobManager.cancel and the
\* conditional update of _execute).
THEOREM CancelSticks == Spec => []CancelOfRunningSticks
<1>1. IInv => CancelOfRunningSticks BY DEF IInv
<1>. QED BY Invariant, <1>1, PTL

\* start() never hands back a job of a kind the caller did not ask for.
THEOREM RepliesAreOwn == Spec => []ReplyIsOfTheKindAsked
<1>1. IInv => ReplyIsOfTheKindAsked BY DEF IInv
<1>. QED BY Invariant, <1>1, PTL

-----------------------------------------------------------------------------
(***************************************************************************)
(* The rows, the lock and the timeouts implement a single-flight slot.     *)
(***************************************************************************)
Running == {j \in Jobs : Alive(j)}
Begun   == {j \in Jobs : worker[j] # "none"}

LEMMA SpawnTakesSlot ==
  ASSUME IInv, Spawn
  PROVE  \E j \in Jobs : Slot!Begin(j) \/ Slot!Abandon(j)
<1>. USE DEF IInv, TypeOK, CreatedSoFar, Spawn
<1>1. created + 1 \in Jobs /\ created + 1 \notin Begun
  BY DEF Begun
<1>2. Running = {}
  BY DEF Running, WorkerIsCurrent, SlotIsFree, ThreadAlive
<1>3. PICK t \in {"spawned", "lost"} :
        worker' = [worker EXCEPT ![created + 1] = t]
  OBVIOUS
<1>4. Begun' = Begun \cup {created + 1}
  BY <1>1, <1>3 DEF Begun
<1>5. CASE t = "spawned"
  <2>1. Running' = {created + 1}
    BY <1>1, <1>2, <1>3, <1>5 DEF Running
  <2>. QED BY <1>1, <1>2, <1>4, <2>1 DEF Slot!Begin, Running, Begun
<1>6. CASE t = "lost"
  <2>1. Running' = {}
    BY <1>1, <1>2, <1>3, <1>6 DEF Running
  <2>. QED BY <1>1, <1>2, <1>4, <2>1 DEF Slot!Abandon, Running, Begun
<1>. QED BY <1>3, <1>5, <1>6

LEMMA ExecuteOnSlot ==
  ASSUME NEW j \in Jobs, IInv, Execute(j)
  PROVE  Slot!End \/ UNCHANGED Slot!vars
<1>. USE DEF IInv, TypeOK, Slot!End, Slot!vars
<1>0. \A i \in Jobs : Alive(i) /\ Alive(j) => i = j
  BY DEF WorkerIsCurrent
<1>1. CASE Claim(j) BY <1>1 DEF Claim
<1>2. CASE Complete(j) BY <1>2 DEF Complete
<1>3. CASE Fail(j) BY <1>3 DEF Fail
<1>4. CASE Die(j) BY <1>0, <1>4 DEF Die
<1>5. CASE Exit(j) BY <1>0, <1>5 DEF Exit
<1>. QED BY <1>1, <1>2, <1>3, <1>4, <1>5 DEF Execute

LEMMA RestartOnSlot ==
  ASSUME IInv, Restart
  PROVE  Slot!End \/ UNCHANGED Slot!vars
<1>. USE DEF IInv, TypeOK, Restart
<1>1. Running' = {} /\ Begun' = Begun
  BY DEF Running, Begun
<1>. QED BY <1>1 DEF Slot!End, Slot!vars, Running, Begun

LEMMA StepOnSlot == IInv /\ [Next]_vars => [Slot!Next]_Slot!vars
<1>. SUFFICES ASSUME IInv, [Next]_vars
              PROVE  Slot!Next \/ UNCHANGED Slot!vars
  OBVIOUS
<1>1. CASE UNCHANGED worker
  BY <1>1 DEF Slot!vars
<1>2. CASE Spawn
  BY <1>2, SpawnTakesSlot DEF Slot!Next
<1>3. ASSUME NEW j \in Jobs, Execute(j) PROVE Slot!Next \/ UNCHANGED Slot!vars
  BY <1>3, ExecuteOnSlot DEF Slot!Next
<1>4. CASE Restart
  BY <1>4, RestartOnSlot DEF Slot!Next
<1>5. \/ UNCHANGED worker \/ Spawn \/ Restart
      \/ \E j \in Jobs : Execute(j)
  BY DEF Next, vars, Start, Cancel, Request, ReapWrite, LookSame, LookBusy,
         LookFree, SpawnRefused, StartFails, CancelRead, CancelWrite, Expire
<1>. QED BY <1>1, <1>2, <1>3, <1>4, <1>5

\* The job manager implements the single-flight slot: at most one job's work is
\* under way and none is performed twice, across cancels, reaps and restarts.
THEOREM ImplementsSlot == Spec => ImplementsSingleFlight
<1>1. Init => Slot!Init
  BY DEF Init, Slot!Init
<1>. QED BY <1>1, Invariant, StepOnSlot, PTL
         DEF Spec, ImplementsSingleFlight, Slot!Spec
=============================================================================
