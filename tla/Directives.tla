----------------------------- MODULE Directives -----------------------------
(***************************************************************************)
(* What a run decides about a held name it produced no card for.           *)
(***************************************************************************)
EXTENDS Integers, FiniteSets

CONSTANTS SuspensionSessions,  \* sessions without a print that read as suspended
          DelistingSessions,   \* and as delisted
          Lookback             \* sessions of prices the review reads
-----------------------------------------------------------------------------
\* Sessions since the last print. A name silent for the whole window has no
\* frame to read, and its gap is zero.
Gap(silence) == IF silence >= Lookback THEN 0 ELSE silence

ReviewOpenPosition(silence, inUniverse) ==
  CASE Gap(silence) >= DelistingSessions -> "force_exit"
    [] /\ Gap(silence) < DelistingSessions
       /\ Gap(silence) >= SuspensionSessions \/ ~inUniverse -> "hold_and_flag"
    [] OTHER -> "hold"

Holding == {"hold", "hold_and_flag"}

\* One directive for each held name in neither list.
ReviewOpenPositions(held, buys, watch, data) ==
  [s \in held \ (buys \cup watch) |-> ReviewOpenPosition(data[s].silence, data[s].member)]
=============================================================================
