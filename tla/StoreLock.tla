------------------------------ MODULE StoreLock ------------------------------
(***************************************************************************)
(* The market-data store and the advisory flock that keeps an ingest and   *)
(* an analysis apart (data/storelock.py, data/store.py, pipeline.py,       *)
(* data/ingest.py), the `data fundamentals` command that writes without    *)
(* it (cli.py), and the identity each process resolves from the store and  *)
(* stamps on its runs (config/loader.py).                                  *)
(*                                                                         *)
(* A feed is one file of the store and its contents are the batches of     *)
(* rows merged into it; every writer brings one batch.  A write reads the  *)
(* file, merges and replaces it: two steps.                                *)
(***************************************************************************)
CONSTANTS
  Feeds,      \* the files of the store
  Imported,   \* the feeds `data fundamentals` writes
  Counted,    \* the feeds the identity covers (FINGERPRINTED_FEEDS)
  Ingests,    \* ingest runs
  Importers,  \* `data fundamentals` runs
  Analyses,   \* analysis runs
  Processes,  \* the operating-system processes that host analyses
  Servers,    \* those of them that are the web server
  Host        \* the process of each analysis

ASSUME StoreAssumption ==
  /\ Ingests \cap Importers = {}
  /\ Imported \subseteq Feeds /\ Counted \subseteq Feeds
  /\ Servers \subseteq Processes
  /\ Host \in [Analyses -> Processes]
  /\ \A a, b \in Analyses : Host[a] = Host[b] => a = b \/ Host[a] \in Servers

Writers == Ingests \cup Importers

VARIABLES
  disk,     \* the batches in each file
  writer,   \* what each writer is doing
  loading,  \* the file each writer has read to merge into: none or one
  loaded,   \* what it read there
  run,      \* what each analysis is doing
  view,     \* all the contents each analysis has read in each feed
  ident,    \* the identity cached by each process: none or one
  probing,  \* the feeds a server thread has fingerprinted so far
  probe,    \* what it read there
  stamp,    \* the identity on the row of each finished analysis
  at        \* history: the store when each analysis took the lock

vars == <<disk, writer, loading, loaded, run, view, ident, probing, probe,
          stamp, at>>

storeVars == <<disk, writer, loading, loaded>>
runVars   == <<run, view, stamp, at>>
idVars    == <<ident, probing, probe>>

Contents == [Feeds -> SUBSET Writers]
Prints   == [Counted -> SUBSET Writers]

Nothing == [f \in Feeds |-> {}]
Unread  == [f \in Feeds |-> {}]

\* Mutant: every feed is counted.
FingerprintOfAll(d) == d

\* The coverage of the counted feeds.
Fingerprint(d) == [f \in Counted |-> d[f]]

Init ==
  /\ disk = Nothing
  /\ writer = [w \in Writers |-> "idle"]
  /\ loading = [w \in Writers |-> {}]
  /\ loaded = [w \in Writers |-> {}]
  /\ run = [a \in Analyses |-> "idle"]
  /\ view = [a \in Analyses |-> Unread]
  /\ ident = [p \in Processes |-> {}]
  /\ probing = [s \in Servers |-> {}]
  /\ probe = [s \in Servers |-> Fingerprint(Nothing)]
  /\ stamp = [a \in Analyses |-> {}]
  /\ at = [a \in Analyses |-> Nothing]

\* The flock: exclusive for an ingest, shared for an analysis.
Exclusive == {i \in Ingests : writer[i] = "writing"}
Shared    == {a \in Analyses : run[a] = "reading"}

-----------------------------------------------------------------------------
(* Writers *)

\* An ingest starts and waits for the lock.
Queue(i) ==
  /\ i \in Ingests
  /\ writer[i] = "idle"
  /\ writer' = [writer EXCEPT ![i] = "waiting"]
  /\ UNCHANGED <<disk, loading, loaded, runVars, idVars>>

\* Mutant: the ingest asks for the shared lock.
SharedIngest == TRUE

\* Mutant: an analysis that fails never lets go of the lock.
HeldByFailed == Exclusive = {} /\ \A a \in Analyses : run[a] \notin {"reading", "failed"}

MayWrite == Exclusive = {} /\ Shared = {}

Acquire(i) ==
  /\ i \in Ingests
  /\ writer[i] = "waiting"
  /\ MayWrite
  /\ writer' = [writer EXCEPT ![i] = "writing"]
  /\ UNCHANGED <<disk, loading, loaded, runVars, idVars>>

\* `data fundamentals` has fetched its frame; it takes no lock.
Import(m) ==
  /\ m \in Importers
  /\ writer[m] = "idle"
  /\ writer' = [writer EXCEPT ![m] = "writing"]
  /\ UNCHANGED <<disk, loading, loaded, runVars, idVars>>

FeedsOf(w) == IF w \in Importers THEN Imported ELSE Feeds

\* write_table(), first half: read the file there is.
Load(w, f) ==
  /\ writer[w] = "writing"
  /\ loading[w] = {}
  /\ f \in FeedsOf(w)
  /\ loading' = [loading EXCEPT ![w] = {f}]
  /\ loaded' = [loaded EXCEPT ![w] = disk[f]]
  /\ UNCHANGED <<disk, writer, runVars, idVars>>

\* Mutant: the new batch replaces the file instead of being merged into it.
ReplacedWith(w) == {w}

MergedWith(w) == loaded[w] \cup {w}

\* Second half: os.replace the file with the merged frame.
Save(w, f) ==
  /\ f \in loading[w]
  /\ writer[w] = "writing"
  /\ disk' = [disk EXCEPT ![f] = MergedWith(w)]
  /\ loading' = [loading EXCEPT ![w] = {}]
  /\ loaded' = [loaded EXCEPT ![w] = {}]
  /\ UNCHANGED <<writer, runVars, idVars>>

\* The run returns, having written the feeds that had something to write,
\* and lets go of the lock.
Leave(w) ==
  /\ writer[w] = "writing"
  /\ loading[w] = {}
  /\ writer' = [writer EXCEPT ![w] = "ended"]
  /\ UNCHANGED <<disk, loading, loaded, runVars, idVars>>

\* It raises or is killed between any two steps: the lock is released, the
\* feeds written so far stay written.
Abort(w) ==
  /\ writer[w] \in {"waiting", "writing"}
  /\ writer' = [writer EXCEPT ![w] = "ended"]
  /\ loading' = [loading EXCEPT ![w] = {}]
  /\ loaded' = [loaded EXCEPT ![w] = {}]
  /\ UNCHANGED <<disk, runVars, idVars>>

-----------------------------------------------------------------------------
(* Analyses *)

\* Mutant: the analysis does not look at the lock.
UnlockedRead == TRUE

MayRead == Exclusive = {}

Begin(a) ==
  /\ run[a] = "idle"
  /\ MayRead
  /\ run' = [run EXCEPT ![a] = "reading"]
  /\ at' = [at EXCEPT ![a] = disk]
  /\ UNCHANGED <<storeVars, view, stamp, idVars>>

\* StoreBusy: the analysis does not wait.
Refuse(a) ==
  /\ run[a] = "idle"
  /\ ~MayRead
  /\ run' = [run EXCEPT ![a] = "refused"]
  /\ UNCHANGED <<storeVars, view, stamp, at, idVars>>

\* A stage reads a feed; several stages read the same one.
Read(a, f) ==
  /\ run[a] = "reading"
  /\ view' = [view EXCEPT ![a][f] = @ \cup {disk[f]}]
  /\ UNCHANGED <<storeVars, run, stamp, at, idVars>>

\* Mutant: the version is resolved before the lock is taken.
ResolveEarly(a) ==
  /\ run[a] \in {"idle", "reading"}
  /\ ident[Host[a]] = {}
  /\ ident' = [ident EXCEPT ![Host[a]] = {Fingerprint(disk)}]
  /\ UNCHANGED <<storeVars, runVars, probing, probe>>

\* First use of config.version in the process: bind_store() keeps an identity
\* resolved earlier for the same directory, otherwise it is computed here.
Resolve(a) ==
  /\ run[a] = "reading"
  /\ ident[Host[a]] = {}
  /\ ident' = [ident EXCEPT ![Host[a]] = {Fingerprint(disk)}]
  /\ UNCHANGED <<storeVars, runVars, probing, probe>>

\* The run is complete and its row is stamped with config.version.
Finish(a) ==
  /\ run[a] = "reading"
  /\ \A f \in Feeds : view[a][f] # {}
  /\ ident[Host[a]] # {}
  /\ run' = [run EXCEPT ![a] = "done"]
  /\ stamp' = [stamp EXCEPT ![a] = ident[Host[a]]]
  /\ UNCHANGED <<storeVars, view, at, idVars>>

\* Runs that end without a row take what they read with them.
Drop(as) ==
  /\ run' = [a \in Analyses |-> IF a \in as THEN "failed" ELSE run[a]]
  /\ view' = [a \in Analyses |-> IF a \in as THEN Unread ELSE view[a]]
  /\ at' = [a \in Analyses |-> IF a \in as THEN Nothing ELSE at[a]]
  /\ UNCHANGED stamp

\* A stage blocks or raises; the lock is released.
Fail(a) ==
  /\ run[a] = "reading"
  /\ Drop({a})
  /\ UNCHANGED <<storeVars, idVars>>

-----------------------------------------------------------------------------
(* The web server *)

\* /ready asks for config.version before any run has: the thread fingerprints
\* the store feed by feed, outside the lock.
Probe(s, f) ==
  /\ probing[s] # {} \/ ident[s] = {}
  /\ f \in Counted \ probing[s]
  /\ probing' = [probing EXCEPT ![s] = @ \cup {f}]
  /\ probe' = [probe EXCEPT ![s][f] = disk[f]]
  /\ UNCHANGED <<storeVars, runVars, ident>>

\* It caches what it found, over whatever another thread cached meanwhile.
ProbeDone(s) ==
  /\ probing[s] = Counted
  /\ Counted # {}
  /\ ident' = [ident EXCEPT ![s] = {probe[s]}]
  /\ probing' = [probing EXCEPT ![s] = {}]
  /\ probe' = [probe EXCEPT ![s] = Fingerprint(Nothing)]
  /\ UNCHANGED <<storeVars, runVars>>

\* The server restarts: its runs end and the cached identity is gone.
Restart(s) ==
  /\ ident' = [ident EXCEPT ![s] = {}]
  /\ probing' = [probing EXCEPT ![s] = {}]
  /\ probe' = [probe EXCEPT ![s] = Fingerprint(Nothing)]
  /\ Drop({a \in Analyses : Host[a] = s /\ run[a] = "reading"})
  /\ UNCHANGED storeVars

-----------------------------------------------------------------------------
Write(w) ==
  \/ Queue(w) \/ Acquire(w) \/ Import(w)
  \/ \E f \in Feeds : Load(w, f) \/ Save(w, f)
  \/ Leave(w) \/ Abort(w)

Analysis(a) ==
  \/ Begin(a) \/ Refuse(a)
  \/ \E f \in Feeds : Read(a, f)
  \/ Resolve(a) \/ Finish(a) \/ Fail(a)

Serve(s) == (\E f \in Counted : Probe(s, f)) \/ ProbeDone(s) \/ Restart(s)

Next ==
  \/ \E w \in Writers : Write(w)
  \/ \E a \in Analyses : Analysis(a)
  \/ \E s \in Servers : Serve(s)

Spec == Init /\ [][Next]_vars

(***************************************************************************)
(* Fairness.  The kernel wakes an ingest that can have the lock; a run     *)
(* that holds it ends, one way or the other.  A waiting ingest need not    *)
(* be interrupted, and no run need ever begin.                             *)
(***************************************************************************)
Release(i) == writer[i] = "writing" /\ (Leave(i) \/ Abort(i))

Fairness ==
  /\ \A i \in Ingests : WF_vars(Acquire(i)) /\ WF_vars(Release(i))
  /\ \A a \in Analyses : WF_vars(Finish(a) \/ Fail(a))

FairSpec == Spec /\ Fairness

-----------------------------------------------------------------------------
(* Properties *)

\* Every variable has the shape the store, the lock and the caches give it.
TypeOK ==
  /\ disk \in Contents
  /\ writer \in [Writers -> {"idle", "waiting", "writing", "ended"}]
  /\ \A w \in Writers :
       /\ loading[w] = {} \/ \E f \in FeedsOf(w) : loading[w] = {f}
       /\ loaded[w] \subseteq Writers
  /\ loading \in [Writers -> SUBSET Feeds]
  /\ loaded \in [Writers -> SUBSET Writers]
  /\ run \in [Analyses -> {"idle", "reading", "done", "failed", "refused"}]
  /\ view \in [Analyses -> [Feeds -> SUBSET SUBSET Writers]]
  /\ ident \in [Processes -> SUBSET Prints]
  /\ probing \in [Servers -> SUBSET Counted]
  /\ probe \in [Servers -> Prints]
  /\ stamp \in [Analyses -> SUBSET Prints]
  /\ at \in [Analyses -> Contents]

\* The feeds every writer of which takes the lock.
Locked == IF Importers = {} THEN Feeds ELSE Feeds \ Imported

\* Everything an analysis has read of the locked feeds is the store of the
\* moment it took the lock, however many ingests run, wait or die meanwhile.
LockedOneMoment ==
  \A a \in Analyses : \A f \in Locked : view[a][f] \subseteq {at[a][f]}

\* A batch merged into a locked feed is never lost to another writer's
\* read-merge-replace of the same file (write_table).
NoLostBatch ==
  [][\A f \in Locked : disk[f] \subseteq disk'[f]]_vars

\* The version on the row of a command-line analysis names the store it read.
CliStampNamesData ==
  \A a \in Analyses :
    run[a] = "done" /\ Host[a] \notin Servers =>
      \E v \in stamp[a] : \A f \in Counted \cap Locked : view[a][f] = {v[f]}

\* The stores that contain all an analysis has read of the locked feeds.
Saw(a) == {s \in [Locked -> SUBSET Writers] :
             \A f \in Locked : view[a][f] = {s[f]}}

\* The locked feeds behave as one store that analyses see at one moment.
Atomic == INSTANCE AtomicStore WITH
  Feeds   <- Locked,
  Batches <- Writers,
  Runs    <- Analyses,
  store   <- [f \in Locked |-> disk[f]],
  seen    <- [a \in Analyses |-> IF run[a] = "done" THEN Saw(a) ELSE {}]

ImplementsAtomicStore == Atomic!Spec

\* An ingest that waits for the lock gets it: the analyses ahead of it end.
IngestGetsIn == \A i \in Ingests : writer[i] = "waiting" ~> writer[i] # "waiting"

-----------------------------------------------------------------------------
(* What the repository says and the code does not do *)

\* run_analysis(): "Every file the stages read has to come from one moment".
\* The unlocked import changes a feed between two reads of it.
OneMoment ==
  \A a \in Analyses : \A f \in Feeds : \A x, y \in view[a][f] : x = y

\* run_analysis(): the bound version keeps two runs on different stores from
\* quoting one identity.  A server keeps the identity it resolved first.
StampNamesData ==
  \A a, b \in Analyses :
    run[a] = "done" /\ run[b] = "done" /\ stamp[a] = stamp[b] =>
      \A f \in Counted \cap Locked : view[a][f] = view[b][f]
=============================================================================
