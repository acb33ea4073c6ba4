----------------------------- MODULE MCResearch -----------------------------
(***************************************************************************)
(* Research on a small instance: one name over three sessions, requests    *)
(* that overlap, and a holding window of one session.                      *)
(***************************************************************************)
EXTENDS Research, TLC

Symmetry == Permutations(Resolvers) \cup Permutations(Params)
MCRecs == {[stop |-> TRUE, close |-> TRUE], [stop |-> FALSE, close |-> TRUE]}
=============================================================================
