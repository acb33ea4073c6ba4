----------------------------- MODULE MCJobSlot -----------------------------
(***************************************************************************)
(* JobSlot on a small instance: two kinds of job and a table of a few rows *)
(***************************************************************************)
EXTENDS JobSlot

MCKinds == {"analysis", "ingest"}
=============================================================================
