------------------------------ MODULE HttpCache ------------------------------
(***************************************************************************)
(* The archive client (data/providers/http.py): what one GET answers, and  *)
(* the cache entry it leaves, a body and a sidecar written one after the   *)
(* other and served only when both are there.                              *)
(***************************************************************************)
EXTENDS Integers, Sequences

CONSTANT Retries  \* attempts after the first

HttpAssumption == Retries \in Nat
ASSUME HttpAssumption

\* "file" is what was asked for, "page" a 200 with something else in it.
Bodies == {"file", "page"}

Blank == [body |-> "none", sidecar |-> FALSE]
Entries == [body : Bodies \cup {"none"}, sidecar : BOOLEAN]

\* Only a whole entry that has not expired is served.
Served(e, expired) == e.body # "none" /\ e.sidecar /\ ~expired

\* Transport errors and retryable codes are tried again; the first other answer
\* decides, and a code that is neither 200, 404 nor retryable gives up.
Outcome(tries) ==
  LET first == {i \in DOMAIN tries : /\ tries[i] # "transient"
                                     /\ \A j \in 1..(i - 1) : tries[j] = "transient"}
  IN  IF \A i \in first : tries[i] = "refused" THEN "failed"
      ELSE tries[CHOOSE i \in first : TRUE]

Outcomes(possible) == {Outcome(tries) : tries \in [1..(Retries + 1) -> possible]}

\* Only a body is kept: a 404 and a failure leave the entry as it was.
Kept(e, outcome) == IF outcome \in Bodies THEN [body |-> outcome, sidecar |-> TRUE] ELSE e

\* The process dies between the body and the sidecar, or between their deletions.
KeptHalf(e, outcome) == [e EXCEPT !.body = outcome]
EvictedHalf(e) == [e EXCEPT !.body = "none"]
=============================================================================
