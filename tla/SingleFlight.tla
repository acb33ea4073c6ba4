---------------------------- MODULE SingleFlight ----------------------------
(***************************************************************************)
(* What the job slot promises, without rows, threads or time: at most one  *)
(* job's work is under way at any moment, and the work of a job is         *)
(* performed at most once.  JobSlot implements it.                         *)
(***************************************************************************)
CONSTANT Jobs

VARIABLES
  running,  \* the job whose work is under way, as a set of at most one job
  begun     \* every job the slot has been given to

vars == <<running, begun>>

Init == running = {} /\ begun = {}

\* The slot is free and a job that never had it takes it.
Begin(j) ==
  /\ running = {}
  /\ j \notin begun
  /\ running' = {j}
  /\ begun' = begun \cup {j}

\* A job is accepted but its work never starts.
Abandon(j) ==
  /\ running = {}
  /\ j \notin begun
  /\ begun' = begun \cup {j}
  /\ UNCHANGED running

\* The work ends, whether it finished, raised or died with its process.
End ==
  /\ running # {}
  /\ running' = {}
  /\ UNCHANGED begun

Next == (\E j \in Jobs : Begin(j) \/ Abandon(j)) \/ End

Spec == Init /\ [][Next]_vars
=============================================================================
