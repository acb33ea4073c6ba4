------------------------------- MODULE Forward -------------------------------
(***************************************************************************)
(* The forward test (validation/forward.py): what a registration and the   *)
(* ledger rows since its start say of the window.                          *)
(***************************************************************************)
EXTENDS Integers, FiniteSets, Sequences

CONSTANTS Grace,       \* sessions from which coverage is judged
          MinCoverage  \* percent of the printed sessions that need a run

ForwardAssumption == {Grace, MinCoverage} \subseteq Nat
ASSUME ForwardAssumption

\* Rows the window counts: every row with a date since the start that is no error.
Window(reg, ledger) ==
  {i \in DOMAIN ledger : ~ledger[i].error /\ ledger[i].date >= reg.start}
DaysRun(reg, ledger) == {ledger[i].date : i \in Window(reg, ledger)}
VersionsRun(reg, ledger) == {ledger[i].version : i \in Window(reg, ledger)}

\* Why a window is void: the file was edited, the engine is not the one registered
\* or was not all along, or too few of the sessions printed have a run.
OneVersion(reg, ledger) == VersionsRun(reg, ledger) \subseteq {reg.version}
Covered(reg, ledger, printed) ==
  Cardinality(printed) >= Grace =>
    100 * Cardinality(DaysRun(reg, ledger)) >= MinCoverage * Cardinality(printed)

\* Mutant: only the engine that runs now is compared with the registered one.
BrokenNowOnly(reg, ledger, live, printed) ==
  \/ ~reg.intact \/ live # reg.version
  \/ ~Covered(reg, ledger, printed)

Broken(reg, ledger, live, printed) ==
  \/ ~reg.intact \/ live # reg.version
  \/ ~OneVersion(reg, ledger)
  \/ ~Covered(reg, ledger, printed)
=============================================================================
