--------------------------- MODULE StoreLockProofs ---------------------------
(***************************************************************************)
(* Theorems about the store lock for any number of feeds, ingests,         *)
(* importers, analyses and processes.  The argument: while an analysis     *)
(* holds the shared lock no ingest is writing, so the locked feeds are     *)
(* those of the moment it took the lock; while an ingest writes, nobody    *)
(* else moves them, so what it loaded is still what it replaces.           *)
(***************************************************************************)
EXTENDS StoreLock, TLAPS

\* The flock admits one ingest, or any number of analyses.
Exclusion ==
  \A i \in Ingests :
    writer[i] = "writing" =>
      /\ \A j \in Ingests : writer[j] = "writing" => i = j
      /\ \A a \in Analyses : run[a] # "reading"

\* A writer that has loaded a locked feed is an ingest that still holds the
\* lock, and the feed is as it loaded it.
LoadedIsCurrent ==
  \A w \in Writers : \A f \in loading[w] :
    /\ writer[w] = "writing"
    /\ f \in FeedsOf(w)
    /\ loading[w] = {f}
    /\ f \in Locked => w \in Ingests /\ loaded[w] = disk[f]

\* While an analysis reads, the locked feeds stay as they were.
ReaderIsCurrent ==
  \A a \in Analyses : run[a] = "reading" => \A f \in Locked : at[a][f] = disk[f]

\* An analysis that has not begun has read nothing.
IdleIsBlank ==
  \A a \in Analyses : run[a] = "idle" => \A f \in Feeds : view[a][f] = {}

\* The types the argument needs.
Types ==
  /\ disk \in Contents
  /\ writer \in [Writers -> {"idle", "waiting", "writing", "ended"}]
  /\ loading \in [Writers -> SUBSET Feeds]
  /\ loaded \in [Writers -> SUBSET Writers]
  /\ run \in [Analyses -> {"idle", "reading", "done", "failed", "refused"}]
  /\ view \in [Analyses -> [Feeds -> SUBSET SUBSET Writers]]
  /\ at \in [Analyses -> Contents]

IInv ==
  /\ Types /\ Exclusion /\ LoadedIsCurrent /\ ReaderIsCurrent /\ IdleIsBlank
  /\ LockedOneMoment

USE StoreAssumption

LEMMA LockedFeeds ==
  /\ Locked \subseteq Feeds
  /\ \A w \in Writers : \A f \in FeedsOf(w) \cap Locked : w \in Ingests
BY DEF Locked, FeedsOf, Writers

LEMMA InitIInv == Init => IInv
BY DEF Init, IInv, Types, Exclusion, LoadedIsCurrent, ReaderIsCurrent,
       IdleIsBlank, LockedOneMoment, Locked, Contents, Nothing, Unread, Writers

-----------------------------------------------------------------------------
(***************************************************************************)
(* The steps of a writer.                                                  *)
(***************************************************************************)
LEMMA WriterMoves ==
  ASSUME IInv, NEW w \in Writers, Queue(w) \/ Acquire(w) \/ Import(w)
  PROVE  IInv'
<1>. USE DEF IInv, Types, runVars, idVars
<1>1. /\ writer'[w] # writer[w]
      /\ writer[w] # "writing"
      /\ \A v \in Writers : v # w => writer'[v] = writer[v]
      /\ Types'
      /\ UNCHANGED <<disk, loading, loaded, run, view, at>>
  BY DEF Queue, Acquire, Import
<1>2. Exclusion'
  <2>1. CASE Queue(w) \/ Import(w)
    BY <1>1, <2>1 DEF Exclusion, Queue, Import, Writers
  <2>2. CASE Acquire(w)
    BY <1>1, <2>2 DEF Exclusion, Acquire, MayWrite, Exclusive, Shared, Writers
  <2>. QED BY <2>1, <2>2
<1>3. LoadedIsCurrent'
  BY <1>1 DEF LoadedIsCurrent, FeedsOf, Locked
<1>4. ReaderIsCurrent' /\ IdleIsBlank' /\ LockedOneMoment'
  BY <1>1 DEF ReaderIsCurrent, IdleIsBlank, LockedOneMoment, Locked
<1>. QED BY <1>1, <1>2, <1>3, <1>4

LEMMA WriterLoads ==
  ASSUME IInv, NEW w \in Writers, NEW f \in Feeds, Load(w, f)
  PROVE  IInv'
<1>. USE DEF IInv, Types, runVars, idVars, Load
<1>1. Types'
  BY DEF Contents
<1>2. Exclusion'
  BY DEF Exclusion
<1>3. LoadedIsCurrent'
  BY LockedFeeds DEF LoadedIsCurrent, FeedsOf, Locked
<1>4. ReaderIsCurrent' /\ IdleIsBlank' /\ LockedOneMoment'
  BY DEF ReaderIsCurrent, IdleIsBlank, LockedOneMoment, Locked
<1>. QED BY <1>1, <1>2, <1>3, <1>4

LEMMA WriterSaves ==
  ASSUME IInv, NEW w \in Writers, NEW f \in Feeds, Save(w, f)
  PROVE  /\ IInv'
         /\ f \in Locked => disk' = [disk EXCEPT ![f] = @ \cup {w}]
<1>. USE DEF IInv, Types, runVars, idVars, Save, MergedWith
<1>1. /\ loading[w] = {f}
      /\ f \in Locked => w \in Ingests /\ loaded[w] = disk[f]
  BY DEF LoadedIsCurrent
<1>2. f \in Locked => disk' = [disk EXCEPT ![f] = @ \cup {w}]
  BY <1>1
<1>3. Types'
  BY DEF Contents
<1>4. Exclusion'
  BY DEF Exclusion
<1>5. \A g \in Feeds : g # f => disk'[g] = disk[g]
  BY DEF Contents
<1>6. LoadedIsCurrent'
  <2>1. SUFFICES ASSUME NEW v \in Writers, NEW g \in loading'[v]
                 PROVE  /\ writer'[v] = "writing"
                        /\ g \in FeedsOf(v)
                        /\ loading'[v] = {g}
                        /\ g \in Locked => v \in Ingests /\ loaded'[v] = disk'[g]
    BY DEF LoadedIsCurrent, Locked, FeedsOf
  <2>2. v # w /\ loading'[v] = loading[v] /\ loaded'[v] = loaded[v]
    OBVIOUS
  <2>3. /\ writer[v] = "writing" /\ g \in FeedsOf(v) /\ loading[v] = {g}
        /\ g \in Locked => v \in Ingests /\ loaded[v] = disk[g]
    BY <2>2 DEF LoadedIsCurrent
  <2>4. g \in Locked => g # f
    BY <1>1, <2>2, <2>3 DEF Exclusion
  <2>. QED BY <1>5, <2>2, <2>3, <2>4, LockedFeeds
<1>7. ReaderIsCurrent'
  BY <1>1, <1>5, LockedFeeds DEF ReaderIsCurrent, Exclusion, Locked
<1>8. IdleIsBlank' /\ LockedOneMoment'
  BY DEF IdleIsBlank, LockedOneMoment, Locked
<1>. QED BY <1>2, <1>3, <1>4, <1>6, <1>7, <1>8

LEMMA WriterEnds ==
  ASSUME IInv, NEW w \in Writers, Leave(w) \/ Abort(w)
  PROVE  IInv'
<1>. USE DEF IInv, Types, runVars, idVars, Leave, Abort
<1>1. /\ Types'
      /\ writer' = [writer EXCEPT ![w] = "ended"]
      /\ \A v \in Writers : loading'[v] = IF v = w THEN {} ELSE loading[v]
      /\ UNCHANGED <<disk, run, view, at>>
  OBVIOUS
<1>2. \A v \in Writers : v # w => writer'[v] = writer[v] /\ loaded'[v] = loaded[v]
  OBVIOUS
<1>3. Exclusion'
  BY <1>1 DEF Exclusion, Writers
<1>4. LoadedIsCurrent'
  BY <1>1, <1>2 DEF LoadedIsCurrent, FeedsOf, Locked
<1>5. ReaderIsCurrent' /\ IdleIsBlank' /\ LockedOneMoment'
  BY <1>1 DEF ReaderIsCurrent, IdleIsBlank, LockedOneMoment, Locked
<1>. QED BY <1>1, <1>3, <1>4, <1>5

LEMMA WriteIInv == ASSUME IInv, NEW w \in Writers, Write(w) PROVE IInv'
BY WriterMoves, WriterLoads, WriterSaves, WriterEnds DEF Write

-----------------------------------------------------------------------------
(***************************************************************************)
(* The steps of an analysis and of the server.                             *)
(***************************************************************************)
LEMMA RunBegins ==
  ASSUME IInv, NEW a \in Analyses, Begin(a)
  PROVE  IInv'
<1>. USE DEF IInv, Types, storeVars, idVars, Begin
<1>1. Types'
  OBVIOUS
<1>2. Exclusion'
  BY DEF Exclusion, MayRead, Exclusive
<1>3. LoadedIsCurrent'
  BY DEF LoadedIsCurrent, FeedsOf, Locked
<1>4. ReaderIsCurrent'
  BY DEF ReaderIsCurrent, Locked
<1>5. IdleIsBlank' /\ LockedOneMoment'
  BY LockedFeeds DEF IdleIsBlank, LockedOneMoment, Locked
<1>. QED BY <1>1, <1>2, <1>3, <1>4, <1>5

LEMMA RunReads ==
  ASSUME IInv, NEW a \in Analyses, NEW f \in Feeds, Read(a, f)
  PROVE  IInv'
<1>. USE DEF IInv, Types, storeVars, idVars, Read
<1>1. /\ \A b \in Analyses : \A g \in Feeds :
           view'[b][g] = IF b = a /\ g = f THEN view[a][f] \cup {disk[f]}
                                           ELSE view[b][g]
      /\ Types'
  BY DEF Contents
<1>2. f \in Locked => at[a][f] = disk[f]
  BY DEF ReaderIsCurrent
<1>3. LockedOneMoment'
  BY <1>1, <1>2, LockedFeeds DEF LockedOneMoment, Locked
<1>4. IdleIsBlank'
  BY <1>1 DEF IdleIsBlank
<1>5. Exclusion' /\ ReaderIsCurrent'
  BY DEF Exclusion, ReaderIsCurrent, Locked
<1>6. LoadedIsCurrent'
  BY DEF LoadedIsCurrent, FeedsOf, Locked
<1>. QED BY <1>1, <1>3, <1>4, <1>5, <1>6

LEMMA RunsDrop ==
  ASSUME IInv, UNCHANGED storeVars, NEW as \in SUBSET Analyses, Drop(as)
  PROVE  IInv'
<1>. USE DEF IInv, Types, storeVars, Drop
<1>1. Types'
  BY DEF Contents, Nothing, Unread
<1>2. LoadedIsCurrent'
  BY DEF LoadedIsCurrent, FeedsOf, Locked
<1>3. Exclusion' /\ ReaderIsCurrent' /\ IdleIsBlank'
  BY DEF Exclusion, ReaderIsCurrent, IdleIsBlank, Locked
<1>4. LockedOneMoment'
  BY LockedFeeds DEF LockedOneMoment, Locked, Unread
<1>. QED BY <1>1, <1>2, <1>3, <1>4

\* Steps that touch neither the files nor what an analysis has read.
LEMMA OthersIInv ==
  ASSUME IInv, UNCHANGED <<storeVars, view, at>>,
         run' \in [Analyses -> {"idle", "reading", "done", "failed", "refused"}],
         \A a \in Analyses : run'[a] \in {"idle", "reading"} => run'[a] = run[a]
  PROVE  IInv'
<1>. USE DEF IInv, Types, storeVars
<1>1. Types'
  OBVIOUS
<1>2. LoadedIsCurrent'
  BY DEF LoadedIsCurrent, FeedsOf, Locked
<1>3. Exclusion' /\ ReaderIsCurrent' /\ IdleIsBlank' /\ LockedOneMoment'
  BY DEF Exclusion, ReaderIsCurrent, IdleIsBlank, LockedOneMoment, Locked
<1>. QED BY <1>1, <1>2, <1>3

LEMMA AnalysisIInv == ASSUME IInv, NEW a \in Analyses, Analysis(a) PROVE IInv'
<1>1. CASE Begin(a)
  BY <1>1, RunBegins
<1>2. ASSUME NEW f \in Feeds, Read(a, f) PROVE IInv'
  BY <1>2, RunReads
<1>3. CASE Fail(a)
  BY <1>3, RunsDrop DEF Fail
<1>4. CASE Refuse(a) \/ Resolve(a) \/ Finish(a)
  BY <1>4, OthersIInv DEF Refuse, Resolve, Finish, IInv, Types, runVars
<1>. QED BY <1>1, <1>2, <1>3, <1>4 DEF Analysis

LEMMA ServeIInv == ASSUME IInv, NEW s \in Servers, Serve(s) PROVE IInv'
<1>1. ASSUME NEW f \in Counted, Probe(s, f) PROVE IInv'
  BY <1>1, OthersIInv DEF Probe, IInv, Types, runVars
<1>2. CASE ProbeDone(s)
  BY <1>2, OthersIInv DEF ProbeDone, IInv, Types, runVars
<1>3. CASE Restart(s)
  BY <1>3, RunsDrop DEF Restart
<1>. QED BY <1>1, <1>2, <1>3 DEF Serve

LEMMA StepIInv == IInv /\ [Next]_vars => IInv'
<1>. SUFFICES ASSUME IInv, [Next]_vars PROVE IInv'
  OBVIOUS
<1>1. CASE UNCHANGED vars
  BY <1>1, OthersIInv DEF vars, storeVars, IInv, Types
<1>2. CASE Next
  BY <1>2, WriteIInv, AnalysisIInv, ServeIInv DEF Next
<1>. QED BY <1>1, <1>2

LEMMA Invariant == Spec => []IInv
BY InitIInv, StepIInv, PTL DEF Spec

-----------------------------------------------------------------------------
\* Whatever ingests run, wait or die, an analysis reads the locked feeds as
\* they were when it took the lock (run_analysis, store_lock).
THEOREM OneMomentOfLockedFeeds == Spec => []LockedOneMoment
<1>1. IInv => LockedOneMoment
  BY DEF IInv
<1>. QED BY <1>1, Invariant, PTL

\* Every step leaves the locked feeds alone or adds a writer's batch to one.
LEMMA LockedFeedsGrow ==
  ASSUME IInv, [Next]_vars
  PROVE  \/ \A f \in Locked : disk'[f] = disk[f]
         \/ \E f \in Locked, w \in Writers :
              /\ disk' = [disk EXCEPT ![f] = @ \cup {w}]
              /\ Save(w, f)
<1>1. ASSUME NEW w \in Writers, NEW f \in Feeds, Save(w, f), f \in Locked
      PROVE  disk' = [disk EXCEPT ![f] = @ \cup {w}]
  BY <1>1, WriterSaves
<1>2. ASSUME NEW w \in Writers, NEW f \in Feeds, Save(w, f), f \notin Locked
      PROVE  \A g \in Locked : disk'[g] = disk[g]
  BY <1>2, LockedFeeds DEF Save, IInv, Types, Contents
<1>3. \/ UNCHANGED disk
      \/ \E w \in Writers, f \in Feeds : Save(w, f)
  BY DEF Next, vars, Write, Analysis, Serve, Queue, Acquire, Import, Load, Leave,
         Abort, Begin, Refuse, Read, Resolve, Finish, Fail, Probe, ProbeDone,
         Restart, storeVars
<1>. QED BY <1>1, <1>2, <1>3

\* No writer's read-merge-replace of a locked feed loses another's batch
\* (DataStore.write_table under the exclusive lock).
THEOREM LockedFeedsKeepBatches == Spec => NoLostBatch
<1>1. IInv /\ [Next]_vars => [\A f \in Locked : disk[f] \subseteq disk'[f]]_vars
  <2>. SUFFICES ASSUME IInv, [Next]_vars, NEW f \in Locked
                PROVE  disk[f] \subseteq disk'[f]
    OBVIOUS
  <2>. QED BY LockedFeedsGrow, LockedFeeds DEF IInv, Types, Contents
<1>. QED BY <1>1, Invariant, PTL DEF Spec, NoLostBatch

-----------------------------------------------------------------------------
(***************************************************************************)
(* The locked feeds implement AtomicStore: an analysis appears to read     *)
(* everything in the step in which it finishes.                            *)
(***************************************************************************)
\* A finishing analysis saw exactly the store there is.
LEMMA FinishSawStore ==
  ASSUME IInv, NEW a \in Analyses, run[a] = "reading",
         \A f \in Feeds : view[a][f] # {}
  PROVE  Saw(a) = {[f \in Locked |-> disk[f]]}
<1>. USE LockedFeeds DEF IInv, Types, Contents
<1>1. ASSUME NEW f \in Locked PROVE view[a][f] = {disk[f]}
  <2>1. f \in Feeds /\ view[a][f] # {}
    OBVIOUS
  <2>2. view[a][f] \subseteq {disk[f]}
    BY DEF ReaderIsCurrent, LockedOneMoment
  <2>. QED BY <2>1, <2>2
<1>2. [f \in Locked |-> disk[f]] \in [Locked -> SUBSET Writers]
  OBVIOUS
<1>3. ASSUME NEW s \in [Locked -> SUBSET Writers],
             \A f \in Locked : view[a][f] = {s[f]}
      PROVE  s = [f \in Locked |-> disk[f]]
  <2>1. \A f \in Locked : s[f] = disk[f]
    BY <1>1, <1>3
  <2>. QED BY <2>1
<1>. QED BY <1>1, <1>2, <1>3 DEF Saw

\* A step that changes neither the locked feeds nor which runs are done.
LEMMA Stutters ==
  ASSUME \A f \in Locked : disk'[f] = disk[f],
         \A a \in Analyses : /\ run'[a] = "done" <=> run[a] = "done"
                             /\ run[a] = "done" => view'[a] = view[a]
  PROVE  UNCHANGED Atomic!vars
<1>1. \A a \in Analyses : run[a] = "done" => Saw(a)' = Saw(a)
  BY DEF Saw, Locked
<1>. QED BY <1>1 DEF Atomic!vars, Locked

LEMMA SaveOnAtomic ==
  ASSUME IInv, NEW w \in Writers, NEW f \in Feeds, Save(w, f)
  PROVE  Atomic!Next \/ UNCHANGED Atomic!vars
<1>. USE LockedFeeds DEF IInv, Types, Contents
<1>1. UNCHANGED <<run, view>>
  BY DEF Save, runVars
<1>2. CASE f \in Locked
  <2>1. disk' = [disk EXCEPT ![f] = @ \cup {w}]
    BY <1>2, WriterSaves
  <2>2. [g \in Locked |-> disk[g]]' =
          [[g \in Locked |-> disk[g]] EXCEPT ![f] = @ \cup {w}]
    BY <1>2, <2>1 DEF Locked
  <2>3. UNCHANGED [a \in Analyses |-> IF run[a] = "done" THEN Saw(a) ELSE {}]
    BY <1>1 DEF Saw, Locked
  <2>. QED BY <1>2, <2>2, <2>3 DEF Atomic!Next, Atomic!Land
<1>3. CASE f \notin Locked
  <2>1. \A g \in Locked : disk'[g] = disk[g]
    BY <1>3 DEF Save
  <2>. QED BY <1>1, <2>1, Stutters
<1>. QED BY <1>2, <1>3

LEMMA FinishOnAtomic ==
  ASSUME IInv, NEW a \in Analyses, Finish(a)
  PROVE  Atomic!Next
<1>. USE DEF IInv, Types
<1>1. /\ run[a] = "reading" /\ run' = [run EXCEPT ![a] = "done"]
      /\ \A f \in Feeds : view[a][f] # {}
      /\ UNCHANGED <<disk, view>>
  BY DEF Finish, storeVars
<1>2. \A b \in Analyses : Saw(b)' = Saw(b)
  BY <1>1 DEF Saw, Locked
<1>3. Saw(a) = {[f \in Locked |-> disk[f]]}
  BY <1>1, FinishSawStore
<1>4. [b \in Analyses |-> IF run[b] = "done" THEN Saw(b) ELSE {}]' =
        [[b \in Analyses |-> IF run[b] = "done" THEN Saw(b) ELSE {}]
           EXCEPT ![a] = {[f \in Locked |-> disk[f]]}]
  BY <1>1, <1>2, <1>3
<1>5. UNCHANGED [f \in Locked |-> disk[f]]
  BY <1>1 DEF Locked
<1>6. Atomic!Analyse(a)
  BY <1>1, <1>4, <1>5 DEF Atomic!Analyse
<1>. QED BY <1>6 DEF Atomic!Next

LEMMA StepOnAtomic == IInv /\ [Next]_vars => [Atomic!Next]_(Atomic!vars)
<1>. SUFFICES ASSUME IInv, [Next]_vars
              PROVE  Atomic!Next \/ UNCHANGED Atomic!vars
  OBVIOUS
<1>1. ASSUME NEW w \in Writers, NEW f \in Feeds, Save(w, f)
      PROVE  Atomic!Next \/ UNCHANGED Atomic!vars
  BY <1>1, SaveOnAtomic
<1>2. ASSUME NEW a \in Analyses, Finish(a)
      PROVE  Atomic!Next \/ UNCHANGED Atomic!vars
  BY <1>2, FinishOnAtomic
<1>3. CASE UNCHANGED <<disk, run, view>>
  BY <1>3, Stutters
<1>4. ASSUME NEW a \in Analyses, Begin(a) \/ Refuse(a)
      PROVE  UNCHANGED Atomic!vars
  BY <1>4, Stutters DEF Begin, Refuse, storeVars, IInv, Types
<1>5. ASSUME NEW a \in Analyses, NEW f \in Feeds, Read(a, f)
      PROVE  UNCHANGED Atomic!vars
  BY <1>5, Stutters DEF Read, storeVars, IInv, Types
<1>6. ASSUME NEW as \in SUBSET Analyses, Drop(as), UNCHANGED storeVars,
             \A a \in as : run[a] = "reading"
      PROVE  UNCHANGED Atomic!vars
  BY <1>6, Stutters DEF Drop, storeVars, IInv, Types
<1>7. ASSUME NEW a \in Analyses, Fail(a)
      PROVE  UNCHANGED Atomic!vars
  BY <1>6, <1>7 DEF Fail
<1>8. ASSUME NEW s \in Servers, Restart(s)
      PROVE  UNCHANGED Atomic!vars
  BY <1>6, <1>8 DEF Restart
<1>9. \/ UNCHANGED <<disk, run, view>>
      \/ \E w \in Writers, f \in Feeds : Save(w, f)
      \/ \E a \in Analyses :
           \/ Finish(a) \/ Begin(a) \/ Refuse(a) \/ Fail(a)
           \/ \E f \in Feeds : Read(a, f)
      \/ \E s \in Servers : Restart(s)
  BY DEF Next, vars, Write, Analysis, Serve, Queue, Acquire, Import, Load, Leave,
         Abort, Resolve, Probe, ProbeDone, storeVars, runVars
<1>. QED BY <1>1, <1>2, <1>3, <1>4, <1>5, <1>7, <1>8, <1>9

\* The lock makes an analysis of the locked feeds indivisible: it sees the
\* store of one moment, and no writer's batch is lost (storelock.py).
THEOREM ImplementsAtomic == Spec => ImplementsAtomicStore
<1>1. Init => Atomic!Init
  BY LockedFeeds DEF Init, Atomic!Init, Nothing
<1>. QED BY <1>1, Invariant, StepOnAtomic, PTL
         DEF Spec, ImplementsAtomicStore, Atomic!Spec

-----------------------------------------------------------------------------
(***************************************************************************)
(* The identity of a command-line run: one process, one analysis, so the   *)
(* cached identity was resolved under the lock of that very analysis.      *)
(***************************************************************************)
Names(v, a) == \A f \in Counted \cap Locked : v[f] = at[a][f]

OwnIdentity(a) ==
  /\ run[a] = "idle" => ident[Host[a]] = {}
  /\ run[a] = "reading" => \A v \in ident[Host[a]] : Names(v, a)
  /\ run[a] = "done" => \E v \in stamp[a] : Names(v, a)

CliIdentity == \A a \in Analyses : Host[a] \notin Servers => OwnIdentity(a)

\* A finished run has read every feed.
DoneHasRead ==
  \A a \in Analyses : run[a] = "done" => \A f \in Feeds : view[a][f] # {}

StampInv ==
  /\ CliIdentity /\ DoneHasRead
  /\ ident \in [Processes -> SUBSET Prints]
  /\ stamp \in [Analyses -> SUBSET Prints]

LEMMA InitStampInv == Init => StampInv
BY DEF Init, StampInv, CliIdentity, OwnIdentity, DoneHasRead

\* Steps that leave the identities of command-line processes alone, keep the
\* stamps and what was read, and begin or finish no run.
LEMMA StampUnmoved ==
  ASSUME IInv, StampInv,
         ident' \in [Processes -> SUBSET Prints],
         \A p \in Processes \ Servers : ident'[p] = ident[p],
         UNCHANGED stamp,
         \A a \in Analyses :
           run'[a] \in {"idle", "reading", "done"} =>
             run'[a] = run[a] /\ view'[a] = view[a] /\ at'[a] = at[a]
  PROVE  StampInv'
<1>. USE StoreAssumption DEF StampInv
<1>1. DoneHasRead'
  BY DEF DoneHasRead
<1>2. ASSUME NEW a \in Analyses, Host[a] \notin Servers PROVE OwnIdentity(a)'
  <2>1. OwnIdentity(a) /\ ident'[Host[a]] = ident[Host[a]]
    BY <1>2 DEF CliIdentity
  <2>2. run'[a] \in {"idle", "reading", "done"} =>
          run'[a] = run[a] /\ at'[a] = at[a] /\ stamp'[a] = stamp[a]
    OBVIOUS
  <2>. QED BY <2>1, <2>2 DEF OwnIdentity, Names, Locked
<1>3. CliIdentity'
  BY <1>2 DEF CliIdentity
<1>. QED BY <1>1, <1>3

\* A step of one analysis that leaves the identities alone, and the rest of what
\* the clause of another analysis is about.
LEMMA OthersKeepIdentity ==
  ASSUME StampInv, NEW a \in Analyses, NEW b \in Analyses, b # a,
         Host[b] \notin Servers,
         ident'[Host[b]] = ident[Host[b]], run'[b] = run[b],
         at'[b] = at[b], stamp'[b] = stamp[b]
  PROVE  OwnIdentity(b)'
<1>1. OwnIdentity(b)
  BY DEF StampInv, CliIdentity
<1>. QED BY <1>1 DEF OwnIdentity, Names, Locked

LEMMA RunStamp ==
  ASSUME IInv, StampInv, NEW a \in Analyses, Analysis(a)
  PROVE  StampInv'
<1>. USE StoreAssumption DEF IInv, Types, StampInv
<1>0. \A b \in Analyses : Host[b] \notin Servers /\ b # a => Host[b] # Host[a]
  OBVIOUS
<1>1. CASE Begin(a)
  <2>1. DoneHasRead'
    BY <1>1 DEF Begin, DoneHasRead
  <2>2. ASSUME NEW b \in Analyses, b # a, Host[b] \notin Servers
        PROVE  OwnIdentity(b)'
    BY <1>1, <2>2, OthersKeepIdentity DEF Begin, idVars
  <2>3. ASSUME Host[a] \notin Servers PROVE OwnIdentity(a)'
    <3>1. ident'[Host[a]] = {} /\ run'[a] = "reading"
      BY <1>1, <2>3 DEF Begin, CliIdentity, OwnIdentity, idVars
    <3>. QED BY <3>1 DEF OwnIdentity
  <2>4. CliIdentity'
    BY <2>2, <2>3 DEF CliIdentity
  <2>. QED BY <1>1, <2>1, <2>4 DEF Begin, idVars
<1>2. CASE Refuse(a)
  BY <1>2, StampUnmoved DEF Refuse, idVars
<1>3. ASSUME NEW f \in Feeds, Read(a, f) PROVE StampInv'
  <2>1. DoneHasRead'
    BY <1>3 DEF Read, DoneHasRead
  <2>2. ASSUME NEW b \in Analyses, Host[b] \notin Servers
        PROVE  OwnIdentity(b)'
    BY <1>3, <2>2 DEF Read, CliIdentity, OwnIdentity, Names, Locked, idVars
  <2>3. CliIdentity'
    BY <2>2 DEF CliIdentity
  <2>. QED BY <1>3, <2>1, <2>3 DEF Read, idVars
<1>4. CASE Resolve(a)
  <2>1. Fingerprint(disk) \in Prints
    BY DEF Fingerprint, Prints, Contents
  <2>2. Names(Fingerprint(disk), a)
    BY <1>4, LockedFeeds DEF Resolve, Names, Fingerprint, ReaderIsCurrent
  <2>3. DoneHasRead'
    BY <1>4 DEF Resolve, runVars, DoneHasRead
  <2>4. ident' = [ident EXCEPT ![Host[a]] = {Fingerprint(disk)}]
        /\ run[a] = "reading" /\ UNCHANGED <<run, stamp, at, view>>
    BY <1>4 DEF Resolve, runVars
  <2>5. ASSUME NEW b \in Analyses, b # a, Host[b] \notin Servers
        PROVE  OwnIdentity(b)'
    <3>1. ident'[Host[b]] = ident[Host[b]]
      BY <1>0, <2>4, <2>5
    <3>. QED BY <2>4, <2>5, <3>1, OthersKeepIdentity
  <2>6. OwnIdentity(a)'
    <3>1. ident'[Host[a]] = {Fingerprint(disk)} /\ run'[a] = "reading"
      BY <2>4
    <3>. QED BY <2>2, <2>4, <3>1 DEF OwnIdentity, Names, Locked
  <2>7. CliIdentity'
    BY <2>5, <2>6 DEF CliIdentity
  <2>. QED BY <2>1, <2>3, <2>4, <2>7
<1>5. CASE Finish(a)
  <2>1. DoneHasRead'
    BY <1>5 DEF Finish, DoneHasRead
  <2>2. ASSUME NEW b \in Analyses, b # a, Host[b] \notin Servers
        PROVE  OwnIdentity(b)'
    BY <1>5, <2>2, OthersKeepIdentity DEF Finish, idVars
  <2>3. ASSUME Host[a] \notin Servers PROVE OwnIdentity(a)'
    <3>1. /\ run[a] = "reading" /\ ident[Host[a]] # {}
          /\ run'[a] = "done" /\ stamp'[a] = ident[Host[a]] /\ at' = at
      BY <1>5 DEF Finish
    <3>2. \A v \in ident[Host[a]] : Names(v, a)
      BY <2>3, <3>1 DEF CliIdentity, OwnIdentity
    <3>3. \E v \in stamp'[a] : Names(v, a)
      BY <3>1, <3>2
    <3>. QED BY <3>1, <3>3 DEF OwnIdentity, Names, Locked
  <2>4. CliIdentity'
    BY <2>2, <2>3 DEF CliIdentity
  <2>. QED BY <1>5, <2>1, <2>4 DEF Finish, idVars
<1>6. CASE Fail(a)
  BY <1>6, StampUnmoved DEF Fail, Drop, idVars
<1>. QED BY <1>1, <1>2, <1>3, <1>4, <1>5, <1>6 DEF Analysis

LEMMA ServeStamp ==
  ASSUME IInv, StampInv, NEW s \in Servers, Serve(s),
         probe \in [Servers -> Prints]
  PROVE  StampInv'
<1>. USE StoreAssumption DEF IInv, Types, StampInv
<1>1. ASSUME NEW f \in Counted, Probe(s, f) PROVE StampInv'
  BY <1>1, StampUnmoved DEF Probe, runVars
<1>2. CASE ProbeDone(s)
  BY <1>2, StampUnmoved DEF ProbeDone, runVars
<1>3. CASE Restart(s)
  BY <1>3, StampUnmoved DEF Restart, Drop
<1>. QED BY <1>1, <1>2, <1>3 DEF Serve

ProbeType ==
  /\ probe \in [Servers -> Prints]
  /\ probing \in [Servers -> SUBSET Counted]

LEMMA StepProbeType == IInv /\ ProbeType /\ [Next]_vars => ProbeType'
<1>. SUFFICES ASSUME IInv, ProbeType, [Next]_vars PROVE ProbeType'
  OBVIOUS
<1>. USE StoreAssumption
     DEF ProbeType, IInv, Types, Contents, Prints, Fingerprint, Nothing
<1>1. ASSUME NEW s \in Servers, NEW f \in Counted, Probe(s, f) PROVE ProbeType'
  <2>1. [probe[s] EXCEPT ![f] = disk[f]] \in Prints
    OBVIOUS
  <2>2. probe' = [probe EXCEPT ![s] = [probe[s] EXCEPT ![f] = disk[f]]]
    BY <1>1 DEF Probe
  <2>3. probing' \in [Servers -> SUBSET Counted]
    BY <1>1 DEF Probe
  <2>. QED BY <2>1, <2>2, <2>3
<1>2. ASSUME NEW s \in Servers, ProbeDone(s) \/ Restart(s) PROVE ProbeType'
  <2>1. Fingerprint(Nothing) \in Prints
    OBVIOUS
  <2>2. /\ probe' = [probe EXCEPT ![s] = Fingerprint(Nothing)]
        /\ probing' = [probing EXCEPT ![s] = {}]
    BY <1>2 DEF ProbeDone, Restart
  <2>. QED BY <2>1, <2>2
<1>3. CASE UNCHANGED <<probe, probing>>
  BY <1>3
<1>4. \/ UNCHANGED <<probe, probing>>
      \/ \E s \in Servers : \/ ProbeDone(s) \/ Restart(s)
                            \/ \E f \in Counted : Probe(s, f)
  BY DEF Next, vars, Write, Analysis, Serve, Queue, Acquire, Import, Load, Save,
         Leave, Abort, Begin, Refuse, Read, Resolve, Finish, Fail, idVars
<1>. QED BY <1>1, <1>2, <1>3, <1>4

LEMMA StepStampInv == IInv /\ ProbeType /\ StampInv /\ [Next]_vars => StampInv'
<1>. SUFFICES ASSUME IInv, ProbeType, StampInv, [Next]_vars PROVE StampInv'
  OBVIOUS
<1>1. CASE UNCHANGED <<run, view, stamp, at, ident>>
  BY <1>1, StampUnmoved DEF StampInv
<1>2. ASSUME NEW a \in Analyses, Analysis(a) PROVE StampInv'
  BY <1>2, RunStamp
<1>3. ASSUME NEW s \in Servers, Serve(s) PROVE StampInv'
  BY <1>3, ServeStamp DEF ProbeType
<1>4. \/ UNCHANGED <<run, view, stamp, at, ident>>
      \/ \E a \in Analyses : Analysis(a)
      \/ \E s \in Servers : Serve(s)
  BY DEF Next, vars, Write, Queue, Acquire, Import, Load, Save, Leave, Abort,
         runVars, idVars
<1>. QED BY <1>1, <1>2, <1>3, <1>4

\* The store, the lock, the runs and the cached identities keep the shapes the
\* code gives them: a writer has at most one file loaded, and only one it
\* writes (MarketDataStore.write_table, AppConfig.identity).
THEOREM TypeCorrect == Spec => []TypeOK
<1>1. Init => ProbeType
  BY StoreAssumption DEF Init, ProbeType, Prints, Fingerprint, Nothing
<1>2. ASSUME IInv, StampInv, ProbeType PROVE TypeOK
  <2>1. ASSUME NEW w \in Writers
        PROVE  loading[w] = {} \/ \E f \in FeedsOf(w) : loading[w] = {f}
    BY <1>2 DEF IInv, LoadedIsCurrent
  <2>2. ASSUME NEW w \in Writers PROVE loaded[w] \subseteq Writers
    BY <1>2 DEF IInv, Types
  <2>. QED BY <1>2, <2>1, <2>2 DEF IInv, Types, StampInv, ProbeType, TypeOK
<1>. QED BY <1>1, <1>2, InitIInv, InitStampInv, StepProbeType, StepStampInv,
         StepIInv, PTL DEF Spec

\* The version on the row of a command-line analysis names the store that
\* analysis read (AppConfig.bind_store, AppConfig.identity).
THEOREM CliStampIsTrue == Spec => []CliStampNamesData
<1>1. Init => ProbeType
  BY StoreAssumption DEF Init, ProbeType, Prints, Fingerprint, Nothing
<1>2. IInv /\ StampInv => CliStampNamesData
  <2>. SUFFICES ASSUME IInv, StampInv, NEW a \in Analyses,
                       run[a] = "done", Host[a] \notin Servers
                PROVE  \E v \in stamp[a] :
                         \A f \in Counted \cap Locked : view[a][f] = {v[f]}
    BY DEF CliStampNamesData
  <2>1. PICK v \in stamp[a] : Names(v, a)
    BY DEF StampInv, CliIdentity, OwnIdentity
  <2>2. ASSUME NEW f \in Counted \cap Locked PROVE view[a][f] = {v[f]}
    <3>1. view[a][f] # {} /\ view[a][f] \subseteq {at[a][f]}
      BY LockedFeeds DEF StampInv, DoneHasRead, IInv, LockedOneMoment
    <3>. QED BY <2>1, <3>1 DEF Names
  <2>. QED BY <2>2
<1>. QED BY <1>1, <1>2, InitStampInv, StepProbeType, StepStampInv, Invariant, PTL
         DEF Spec
=============================================================================
