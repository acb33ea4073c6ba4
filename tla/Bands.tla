-------------------------------- MODULE Bands --------------------------------
(***************************************************************************)
(* The two ranks the entry stage, the screen and the simulation share: a   *)
(* name enters down to the first and stays down to the second.             *)
(***************************************************************************)
EXTENDS Lists

CONSTANTS EntryRank,   \* a name not held is admitted down to this rank; slots of the screen
          ExitRank     \* a name held or shown is kept down to this one

BandAssumption == EntryRank \in Nat /\ ExitRank \in Nat /\ EntryRank <= ExitRank
ASSUME BandAssumption
=============================================================================
