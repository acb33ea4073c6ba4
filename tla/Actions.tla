------------------------------- MODULE Actions -------------------------------
(***************************************************************************)
(* Corporate actions of one company (data/corporate_actions.py and the     *)
(* store's writer): descriptions of splits and bonuses by several sources, *)
(* collapsed so that each event adjusts the prices once.                   *)
(***************************************************************************)
EXTENDS Integers, FiniteSets

CONSTANTS SameEvent,   \* days apart at which two descriptions are one event
          SourceRank,  \* source -> authority
          KindOrder    \* kind -> place, to break ties between rows of one day

ActionsAssumption ==
  /\ SameEvent \in Nat
  /\ SourceRank \in [DOMAIN SourceRank -> Nat]
  /\ KindOrder \in [DOMAIN KindOrder -> Nat]
  /\ \A j, k \in DOMAIN KindOrder : KindOrder[j] = KindOrder[k] => j = k
ASSUME ActionsAssumption

\* One description: when, what, the ratio it applies and who says so.
IsRow(r) ==
  /\ r.day \in Nat
  /\ r.kind \in DOMAIN KindOrder
  /\ r.source \in DOMAIN SourceRank
  /\ r.ratio \in {"none", "adjusts", "absurd"}

\* A dividend, a rights issue, an action without a ratio: prices stay as they are.
Adjusting(table) == {r \in table : r.ratio # "none"}
Neutral(table) == table \ Adjusting(table)

SameKey(r, s) == r.day = s.day /\ r.kind = s.kind

\* Of rows with one key the last written stays: a later write's, and of one
\* write the neutral one, which the collapse puts last.
LastOfKey(rows) == {r \in rows : r.ratio = "none" \/ ~\E s \in Neutral(rows) : SameKey(r, s)}
Overlay(old, new) == LastOfKey(new) \cup {r \in old : \A s \in new : ~SameKey(r, s)}

\* Two rows are one event when no gap between the rows of the table is wider
\* than SameEvent from the earlier to the later of them.
Chained(table, r, s) ==
  \A t \in table :
     r.day <= t.day /\ t.day < s.day =>
       \E u \in table : t.day < u.day /\ u.day <= t.day + SameEvent

OneEvent(table, r, s) == IF r.day <= s.day THEN Chained(table, r, s) ELSE Chained(table, s, r)

\* Authority first, then the later day, then a fixed order of kinds.
Outranks(r, s) ==
  \/ SourceRank[r.source] > SourceRank[s.source]
  \/ /\ SourceRank[r.source] = SourceRank[s.source]
     /\ \/ r.day > s.day
        \/ r.day = s.day /\ KindOrder[r.kind] < KindOrder[s.kind]

Preferred(rows, Same(_, _)) ==
  {r \in rows : \A s \in rows : s # r /\ Same(r, s) => Outranks(r, s)}

\* One row per event, and one neutral row per key.
Dedupe(table) ==
  LET rows == Adjusting(table)
  IN  Preferred(Neutral(table), SameKey)
        \cup Preferred(rows, LAMBDA r, s : OneEvent(rows, r, s))

MergeSources(yahoo, exchange, csv) == Dedupe(yahoo \cup exchange \cup csv)

\* No two adjusting rows are close enough to be one event.
Collapsed(table) ==
  \A r, s \in Adjusting(table) : r # s /\ r.day <= s.day => s.day - r.day > SameEvent
=============================================================================
