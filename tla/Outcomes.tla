------------------------------ MODULE Outcomes ------------------------------
(***************************************************************************)
(* How a past call ended (outcomes.py): entry at the open of the session   *)
(* after the signal, then bar by bar the stop, the target if the rules arm *)
(* it, the engine's own book, and the end of the holding window.           *)
(***************************************************************************)
EXTENDS Integers, Sequences, FiniteSetsExt

CONSTANTS MaxHold,   \* sessions in a holding window
          UseTarget  \* whether the rules exit on the target

OutcomesAssumption == MaxHold \in Nat \ {0} /\ UseTarget \in BOOLEAN
ASSUME OutcomesAssumption

\* A bar, by what it does to a position; "none" is no bar. A name locked at its
\* price band cannot be sold, and "noopen" is a bar without a price to enter at.
Bars == {"none", "calm", "stop", "gap", "target", "both", "locked", "lockedlow", "noopen"}

Tradeable(bar) == bar \notin {"locked", "lockedlow"}
Stops(bar) == bar \in {"stop", "gap", "both"}
Targets(bar) == bar \in {"target", "both"}

\* The sessions after d with a bar: the first is the entry.
After(bars, d) == {s \in DOMAIN bars : s > d /\ bars[s] # "none"}

\* The entry and the MaxHold sessions after it, which are walked.
Held(future) == {s \in future : Cardinality({t \in future : t < s}) <= MaxHold}

\* Mutant: the book is asked about the bar's own session.
DecidedOnTheDay(bars, future, s) == s

\* The last session before s the position could be acted on.
DecidedOn(bars, future, s) ==
  Max({Min(future)} \cup {t \in future : Min(future) < t /\ t < s /\ Tradeable(bars[t])})

\* A session without a run says nothing about the book.
ClosedByEngine(book, s, n) == s \in DOMAIN book /\ n \notin book[s]

Ends(bars, book, n, future, s) ==
  /\ Tradeable(bars[s])
  /\ \/ Stops(bars[s])
     \/ UseTarget /\ Targets(bars[s])
     \/ ClosedByEngine(book, DecidedOn(bars, future, s), n)

\* The stop is read first, the book last; a stop the bar opened under is filled there.
Reason(bar) ==
  CASE bar = "gap" -> "stop_gap"
    [] bar \in {"stop", "both"} -> "stop"
    [] UseTarget /\ bar = "target" -> "target"
    [] OTHER -> "book_exit"

\* The verdict on a call of n at session d, or none: still open, never entered, or
\* refused because the recorded prices cannot be tied to the stored ones.
Verdict(bars, book, n, d, rec) ==
  LET future == After(bars, d)
      entry  == Min(future)
      ending == {s \in Held(future) \ {entry} : Ends(bars, book, n, future, s)}
      until  == IF ending = {} THEN Max(Held(future)) ELSE Min(ending)
      low    == \E s \in Held(future) :
                  entry < s /\ s <= until /\ bars[s] = "lockedlow"
      reason == IF ending # {} THEN Reason(bars[until])
                ELSE IF low THEN "stop_unfilled" ELSE "time_exit"
  IN  IF \/ future = {} \/ bars[entry] = "noopen"
         \/ ~rec.close \/ bars[d] = "none"
         \/ ending = {} /\ Cardinality(future) <= MaxHold
      THEN {}
      ELSE {[reason |-> reason, day |-> until, late |-> ending # {} /\ low]}
=============================================================================
