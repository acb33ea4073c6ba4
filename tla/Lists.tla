-------------------------------- MODULE Lists --------------------------------
(***************************************************************************)
(* Lists of names the way the stages handle them: no name twice, taken     *)
(* apart by a test, sorted by a score, cut to a length.                    *)
(***************************************************************************)
EXTENDS Integers, FiniteSets, Sequences, SequencesExt

\* Counted from 1; 0 for a name that is not on the list.
Place(list, s) ==
  IF s \in ToSet(list) THEN CHOOSE i \in DOMAIN list : list[i] = s ELSE 0

\* The list of a set in an order given by its pairs <<earlier, later>>.
Arranged(S, order) ==
  CHOOSE q \in [1..Cardinality(S) -> S] : \A i, j \in DOMAIN q : i < j => <<q[i], q[j]>> \in order

At(list, places) == [k \in DOMAIN places |-> list[places[k]]]

\* The names of a set, as the list has them.
Among(list, S) ==
  LET at == {i \in DOMAIN list : list[i] \in S}
  IN  At(list, Arranged(at, {p \in at \X at : p[1] < p[2]}))

\* Sorted by a key, highest first; the sort is stable.
HighestFirst(list, key) ==
  LET at == DOMAIN list
  IN  At(list, Arranged(at, {p \in at \X at : \/ key[list[p[1]]] > key[list[p[2]]]
                                               \/ /\ key[list[p[1]]] = key[list[p[2]]]
                                                  /\ p[1] < p[2]}))

Prefix(list, n) == SubSeq(list, 1, IF n < Len(list) THEN n ELSE Len(list))
=============================================================================
