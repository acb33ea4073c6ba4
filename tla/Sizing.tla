------------------------------- MODULE Sizing -------------------------------
(***************************************************************************)
(* The capital of the book spread over the names selected: equally, but no *)
(* name beyond what its turnover lets the book hold.  Amounts are integers *)
(* in a unit small enough for the shares of a book to divide it.           *)
(***************************************************************************)
EXTENDS Integers, FiniteSets, Functions

CONSTANT Capital

SizingAssumption == Capital \in Nat \ {0}
ASSUME SizingAssumption
-----------------------------------------------------------------------------
Total(f, S) == SumFunctionOnSet(f, S)

\* What is left once the names outside open hold their caps.
Remaining(cap, names, open) == Capital - Total(cap, names \ open)

\* Mutant: what the capped names leave is not handed on.
ShareOfAll(cap, names, open) == Capital \div Cardinality(names)

\* An equal part of it for each open name.
Share(cap, names, open) == Remaining(cap, names, open) \div Cardinality(open)

\* A round: the names the equal part would push past their cap are given the cap
\* and leave, and the part grows.
AfterRound(cap, names, open) ==
  IF open = {} \/ Remaining(cap, names, open) <= 0 THEN open
  ELSE {t \in open : cap[t] >= Share(cap, names, open)}

\* The names still open when as many rounds are over as there are names.
StillOpen(cap, names) ==
  LET f[n \in 0..Cardinality(names)] ==
        IF n = 0 THEN names ELSE AfterRound(cap, names, f[n - 1])
  IN  f[Cardinality(names)]

Allocation(cap, names) ==
  LET open == StillOpen(cap, names)
  IN  [t \in names |-> IF t \in open THEN Share(cap, names, open) ELSE cap[t]]

\* Whole shares only; a name that cannot have one is dropped.
Positions(cap, price, names) ==
  LET alloc  == Allocation(cap, names)
      bought == {t \in names : alloc[t] \div price[t] > 0}
  IN  [t \in bought |-> (alloc[t] \div price[t]) * price[t]]
=============================================================================
