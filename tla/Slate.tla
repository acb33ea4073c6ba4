-------------------------------- MODULE Slate --------------------------------
(***************************************************************************)
(* The screen: the few names shown, those already shown kept while their   *)
(* rank stays inside the exit band, the rest of the slots filled from the  *)
(* top of what the run produced.                                           *)
(***************************************************************************)
EXTENDS Bands
-----------------------------------------------------------------------------
\* Names by rank; the slate is made of names with one card each.
ByRank(names, rank) == Arranged(names, {p \in names \X names : rank[p[1]] < rank[p[2]]})

\* Names shown before that the run produced again, inside the band.
Returning(shown, pool, rank) == {s \in shown \cap pool : rank[s] <= ExitRank}

Carried(shown, pool, rank) ==
  ToSet(Prefix(ByRank(Returning(shown, pool, rank), rank), EntryRank))

Departures(shown, pool, rank) == shown \ Carried(shown, pool, rank)

\* Buys come before watched names in the pool, each part by rank. A name that
\* has just departed does not come back as fresh.
Pool(buys, watch, rank) == ByRank(buys, rank) \o ByRank(watch \ buys, rank)

\* Mutant: it may.
FreshAgain(shown, buys, watch, rank) ==
  LET pool == buys \cup watch
      list == Among(Pool(buys, watch, rank), pool \ Carried(shown, pool, rank))
  IN  ToSet(Prefix(list, EntryRank - Cardinality(Carried(shown, pool, rank))))

Fresh(shown, buys, watch, rank) ==
  LET pool == buys \cup watch
      out  == Carried(shown, pool, rank) \cup Departures(shown, pool, rank)
      list == Among(Pool(buys, watch, rank), pool \ out)
  IN  ToSet(Prefix(list, EntryRank - Cardinality(Carried(shown, pool, rank))))

\* Mutant: a name is stamped with the session after the one scored.
StampedNext(since, buys, watch, rank, session) ==
  LET carried == Carried(DOMAIN since, buys \cup watch, rank)
  IN  [s \in carried \cup Fresh(DOMAIN since, buys, watch, rank) |->
         IF s \in carried THEN since[s] ELSE session + 1]

\* The picks of a run; a name carried keeps the date it was first shown.
SelectSlate(since, buys, watch, rank, session) ==
  LET shown   == DOMAIN since
      carried == Carried(shown, buys \cup watch, rank)
  IN  [s \in carried \cup Fresh(shown, buys, watch, rank) |->
         IF s \in carried THEN since[s] ELSE session]
=============================================================================
