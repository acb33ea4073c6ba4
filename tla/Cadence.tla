------------------------------ MODULE Cadence ------------------------------
(***************************************************************************)
(* The entry clock: on which of the sessions the store holds may a new     *)
(* position be opened.  Sessions are counted, not days.                    *)
(***************************************************************************)
EXTENDS Integers, FiniteSets

CONSTANTS CadenceSessions,  \* sessions between entry dates
          Anchor            \* entry dates are counted from this date
-----------------------------------------------------------------------------
\* Place of a date among the stored sessions, counted from zero.
IndexOf(stored, s) == Cardinality({t \in stored : t < s})

\* The anchor stands for the first session on or after it, if there is one.
AnchorPlaced(stored) == \E t \in stored : t >= Anchor

SinceAnchor(stored, s) == IndexOf(stored, s) - IndexOf(stored, Anchor)

\* A clock that cannot place the date or the anchor leaves entries open.
Placed(stored, s) ==
  /\ CadenceSessions > 1
  /\ s \in stored /\ AnchorPlaced(stored)
  /\ SinceAnchor(stored, s) >= 0

IsEntryDate(stored, s) ==
  Placed(stored, s) => SinceAnchor(stored, s) % CadenceSessions = 0
=============================================================================
