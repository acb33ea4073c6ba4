----------------------------- MODULE AtomicStore -----------------------------
(***************************************************************************)
(* What the store lock promises: a store whose feeds only ever gain        *)
(* batches of rows, and analyses that each see the whole store as it was   *)
(* at one moment.  StoreLock implements it.                                *)
(***************************************************************************)
CONSTANTS Feeds, Batches, Runs

VARIABLES
  store,  \* the batches in each feed
  seen    \* what each finished analysis saw, as a set of at most one store

vars == <<store, seen>>

Init ==
  /\ store \in [Feeds -> SUBSET Batches]
  /\ seen = [a \in Runs |-> {}]

\* One more batch lands in one feed.
Land(f, b) ==
  /\ store' = [store EXCEPT ![f] = @ \cup {b}]
  /\ UNCHANGED seen

\* An analysis sees everything at once.
Analyse(a) ==
  /\ seen[a] = {}
  /\ seen' = [seen EXCEPT ![a] = {store}]
  /\ UNCHANGED store

Next ==
  \/ \E f \in Feeds, b \in Batches : Land(f, b)
  \/ \E a \in Runs : Analyse(a)

Spec == Init /\ [][Next]_vars
=============================================================================
