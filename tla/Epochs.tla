------------------------------- MODULE Epochs -------------------------------
(***************************************************************************)
(* Research epochs (validation/epoch.py): an append-only file of lines,    *)
(* each the whole state of one epoch; the last line of an id is its state. *)
(* The id is made of the day and the identity, so an epoch opened twice on *)
(* one day over one identity is one epoch.                                 *)
(***************************************************************************)
EXTENDS Integers, Sequences, FiniteSetsExt

CONSTANT NoEpoch  \* what a trade of no epoch is stamped with

LinesOf(lines, id) == {i \in DOMAIN lines : lines[i].id = id}
Status(lines, id) == lines[Max(LinesOf(lines, id))].status
Ids(lines) == {lines[i].id : i \in DOMAIN lines}

\* The open epoch that was first written last.
Open(lines) == {id \in Ids(lines) : Status(lines, id) = "open"}
Active(lines) ==
  IF Open(lines) = {} THEN NoEpoch
  ELSE CHOOSE id \in Open(lines) :
         \A other \in Open(lines) : Min(LinesOf(lines, other)) <= Min(LinesOf(lines, id))

\* Mutant: a trade belongs to the epoch that is open when it is resolved.
EpochWhenResolved(lines, version) == Active(lines)

\* A trade belongs to the open epoch if its configuration is the epoch's.
EpochForTrade(lines, version) ==
  IF Active(lines) = version THEN version ELSE NoEpoch
=============================================================================
