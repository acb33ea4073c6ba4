---------------------------- MODULE LedgerProofs ----------------------------
(***************************************************************************)
(* Theorems about the ledger for any number of analyses, books, rows and   *)
(* days.  The argument: what a row records never changes once it is        *)
(* written, only its label and its bytes do; so what a run read, what a    *)
(* repair found, and what set a row aside, stay true after the step that   *)
(* looked.                                                                 *)
(***************************************************************************)
EXTENDS Ledger, TLAPS

\* Rows not written yet have no bytes, no label of a repair and no reader.
Unwritten ==
  \A r \in Rows : r > written =>
    place[r] = "absent" /\ repair.draft[r] = "absent" /\ mode[r] = "live"

\* A label is the request's, or the one the timestamps prove.
LabelIsEarned ==
  \A r \in 1..written :
    mode[r] \in {asked[r], Observed(r)} \/ mode[r] = "quarantine"

\* Two rows recorded on time disagree about date d.
Disputed(d) ==
  \E q, s \in 1..written :
    /\ Timely(q) /\ Timely(s)
    /\ date[q] = d /\ date[s] = d /\ book[q] # book[s]

\* The dates a repair set aside, and the dates of rows set aside, are disputed.
SetAside ==
  /\ \A d \in repair.suspects : Disputed(d)
  /\ \A r \in Rows : mode[r] = "quarantine" => Timely(r) /\ Disputed(date[r])

\* What a deciding run has read are written rows that agree.
Memory ==
  /\ \A p \in Runs : run[p].from \subseteq 1..written
  /\ InheritedIsSound

\* An acknowledged row has its own line, in the file and in a rewrite of it.
Kept ==
  /\ acked \subseteq 1..written
  /\ \A r \in acked : r \notin glued \cup raced =>
       /\ place[r] = "line"
       /\ repair.pc = "rewriting" => repair.draft[r] = "line"

IInv == TypeOK /\ Unwritten /\ LabelIsEarned /\ SetAside /\ Memory /\ Kept

USE LedgerAssumption DEF Rows, Days, Lineages, Requests, Places,
                         LIVE_RECORDING_LAG_DAYS

LEMMA InitIInv == Init => IInv
<1>. SUFFICES ASSUME Init PROVE IInv
  OBVIOUS
<1>. USE DEF Init, NoRepair, Idle
<1>1. TypeOK
  <2>1. [r \in Rows |-> "absent"] \in [Rows -> Places]
    OBVIOUS
  <2>2. repair \in [pc : {"idle", "classified", "rewriting"}, known : 0..MaxRows,
                   suspects : SUBSET Days, draft : [Rows -> Places]]
    BY <2>1
  <2>3. run \in [Runs -> [pc : {"idle", "deciding", "refused"}, asked : Requests,
                         date : Days, from : SUBSET Rows]]
    OBVIOUS
  <2>4. /\ date \in [Rows -> Days] /\ logged \in [Rows -> Days]
        /\ asked \in [Rows -> Requests] /\ book \in [Rows -> Books \cup {NoBook}]
        /\ mode \in [Rows -> Lineages] /\ place \in [Rows -> Places]
    BY <2>1
  <2>5. day \in Days /\ session \in 0..day /\ written \in 0..MaxRows
    OBVIOUS
  <2>6. cut \in BOOLEAN /\ acked \subseteq Rows /\ glued \subseteq Rows
        /\ raced \subseteq Rows
    OBVIOUS
  <2>. HIDE DEF Init
  <2>. QED BY <2>2, <2>3, <2>4, <2>5, <2>6 DEF TypeOK
<1>2. Unwritten /\ LabelIsEarned /\ SetAside
  BY DEF Unwritten, LabelIsEarned, SetAside
<1>3. Memory /\ Kept
  BY DEF Memory, Kept, InheritedIsSound
<1>. QED BY <1>1, <1>2, <1>3 DEF IInv

-----------------------------------------------------------------------------
(***************************************************************************)
(* A new row leaves what the older rows record, and all that was read in   *)
(* them, as it was.                                                        *)
(***************************************************************************)
LEMMA NewRow ==
  ASSUME IInv, NEW p \in Runs, NEW b \in Books, Stamp(p, b),
         UNCHANGED <<day, session, repair>>
  PROVE  /\ written' = written + 1 /\ written + 1 \in Rows
         /\ \A r \in 1..written :
              /\ date'[r] = date[r] /\ logged'[r] = logged[r]
              /\ asked'[r] = asked[r] /\ book'[r] = book[r]
              /\ mode'[r] = mode[r]
         /\ LabelIsEarned' /\ SetAside' /\ Memory'
<1>. USE DEF IInv, TypeOK, Stamp
<1>1. written' = written + 1 /\ written + 1 \in Rows
  OBVIOUS
<1>2. \A r \in Rows : r # written + 1 =>
        /\ date'[r] = date[r] /\ logged'[r] = logged[r]
        /\ asked'[r] = asked[r] /\ book'[r] = book[r]
        /\ mode'[r] = mode[r]
  BY <1>1
<1>3. \A r \in 1..written : r \in Rows /\ r # written + 1
  BY <1>1
<1>4. \A r \in 1..written : Timely(r)' = Timely(r) /\ Observed(r)' = Observed(r)
  BY <1>2, <1>3 DEF Timely, Observed
<1>5. \A d : Disputed(d) => Disputed(d)'
  BY SMTT(40), <1>1, <1>2, <1>3, <1>4 DEF Disputed
<1>6. mode'[written + 1] = asked'[written + 1] /\ mode'[written + 1] \in Requests
  BY <1>1
<1>7. LabelIsEarned'
  BY <1>1, <1>2, <1>3, <1>4, <1>6 DEF LabelIsEarned
<1>8. SetAside'
  <2>1. \A r \in Rows : mode[r] = "quarantine" => r \in 1..written
    BY DEF Unwritten
  <2>2. \A r \in Rows : mode'[r] = "quarantine" => mode[r] = "quarantine"
    BY <1>2, <1>6
  <2>3. \A r \in Rows : mode'[r] = "quarantine" =>
          Timely(r)' /\ Disputed(date[r])' /\ date'[r] = date[r]
    BY <1>2, <1>3, <1>4, <1>5, <2>1, <2>2 DEF SetAside
  <2>. QED BY <1>5, <2>3 DEF SetAside
<1>9. Memory'
  <2>1. \A q \in Runs : run'[q].from \subseteq 1..written
    BY DEF Memory, Idle
  <2>2. \A q \in Runs : run'[q].pc = "deciding" => run'[q] = run[q]
    BY DEF Idle
  <2>3. ASSUME NEW q \in Runs, run'[q].pc = "deciding"
        PROVE  /\ \A r, s \in run[q].from :
                    book'[r] = book'[s] /\ date'[r] = date'[s]
               /\ \A r \in run[q].from :
                    /\ date'[r] < run[q].date
                    /\ asked'[r] = run[q].asked \/ Observed(r)' = run[q].asked
    <3>1. run[q].from \subseteq 1..written /\ run[q].pc = "deciding"
      BY <2>2, <2>3 DEF Memory
    <3>2. /\ \A r, s \in run[q].from : book[r] = book[s] /\ date[r] = date[s]
          /\ \A r \in run[q].from :
               /\ date[r] < run[q].date
               /\ asked[r] = run[q].asked \/ Observed(r) = run[q].asked
      BY <3>1 DEF Memory, InheritedIsSound
    <3>3. \A r \in run[q].from :
            /\ r \in Rows /\ r # written + 1
            /\ Observed(r)' = Observed(r)
      BY <1>3, <1>4, <3>1
    <3>4. \A r \in run[q].from :
            /\ date'[r] = date[r] /\ book'[r] = book[r] /\ asked'[r] = asked[r]
      BY <1>2, <3>3
    <3>5. \A r, s \in run[q].from : book'[r] = book'[s] /\ date'[r] = date'[s]
      BY SMTT(40), <3>2, <3>4
    <3>6. \A r \in run[q].from :
            /\ date'[r] < run[q].date
            /\ asked'[r] = run[q].asked \/ Observed(r)' = run[q].asked
      BY SMTT(40), <3>2, <3>3, <3>4
    <3>. QED BY <3>5, <3>6
  <2>4. InheritedIsSound'
    BY SMTT(40), <2>2, <2>3 DEF InheritedIsSound
  <2>. QED BY <1>1, <2>1, <2>4 DEF Memory
<1>. QED BY <1>1, <1>2, <1>3, <1>7, <1>8, <1>9

LEMMA AppendKeepsIInv ==
  ASSUME IInv, NEW p \in Runs, NEW b \in Books, Append(p, b)
  PROVE  IInv'
<1>1. Stamp(p, b) /\ UNCHANGED <<day, session, repair>>
  BY DEF Append
<1>2. /\ written' = written + 1 /\ written + 1 \in Rows
      /\ \A r \in 1..written : mode'[r] = mode[r]
      /\ LabelIsEarned' /\ SetAside' /\ Memory'
  BY <1>1, NewRow
<1>3. TypeOK'
  <2>1. place' \in [Rows -> Places]
    BY <1>2 DEF Append, Glue, IInv, TypeOK
  <2>2. TypeOK
    BY DEF IInv
  <2>3. /\ date' \in [Rows -> Days] /\ logged' \in [Rows -> Days]
        /\ asked' \in [Rows -> Requests] /\ mode' \in [Rows -> Lineages]
    BY <1>1, <1>2, <2>2 DEF Stamp, TypeOK
  <2>4. book' \in [Rows -> Books \cup {NoBook}]
    BY <1>1, <1>2, <2>2 DEF Stamp, TypeOK
  <2>5. run' \in [Runs -> [pc : {"idle", "deciding", "refused"}, asked : Requests,
                         date : Days, from : SUBSET Rows]]
    BY <1>1, <1>2, <2>2 DEF Stamp, TypeOK, Idle
  <2>6. /\ acked' \subseteq Rows /\ glued' \subseteq Rows /\ raced' \subseteq Rows
        /\ cut' \in BOOLEAN
    BY <1>2, <2>2 DEF Append, TypeOK
  <2>7. day' \in Days /\ session' \in 0..day' /\ written' \in 0..MaxRows
    BY <1>1, <1>2, <2>2 DEF TypeOK
  <2>. QED BY <1>1, <2>1, <2>2, <2>3, <2>4, <2>5, <2>6, <2>7 DEF TypeOK
<1>4. Unwritten'
  BY <1>1, <1>2 DEF Append, Stamp, Glue, IInv, TypeOK, Unwritten
<1>5. Kept'
  <2>1. acked' \subseteq 1..written'
    BY <1>2 DEF Append, IInv, TypeOK, Kept
  <2>2. ASSUME NEW r \in acked, r \notin glued' \cup raced'
        PROVE  /\ place'[r] = "line"
               /\ repair'.pc = "rewriting" => repair'.draft[r] = "line"
    <3>1. r \notin glued \cup raced
      BY <2>2 DEF Append
    <3>2. r \in Rows /\ r # written + 1
      BY <1>2 DEF IInv, TypeOK, Kept
    <3>. QED BY <1>1, <1>2, <3>1, <3>2 DEF Append, Glue, IInv, TypeOK, Kept
  <2>3. ASSUME written + 1 \notin glued' \cup raced'
        PROVE  /\ place'[written + 1] = "line"
               /\ repair'.pc # "rewriting"
    <3>1. ~Unended /\ repair.pc # "rewriting"
      BY <2>3 DEF Append
    <3>. QED BY <1>1, <1>2, <3>1 DEF Append, Glue, IInv, TypeOK
  <2>4. acked' = acked \cup {written + 1}
    BY DEF Append
  <2>. QED BY <2>1, <2>2, <2>3, <2>4 DEF Kept
<1>. QED BY <1>2, <1>3, <1>4, <1>5 DEF IInv

LEMMA TornKeepsIInv ==
  ASSUME IInv, NEW p \in Runs, NEW b \in Books, Torn(p, b)
  PROVE  IInv'
<1>1. Stamp(p, b) /\ UNCHANGED <<day, session, repair, acked, glued, raced>>
  BY DEF Torn
<1>2. /\ written' = written + 1 /\ written + 1 \in Rows
      /\ \A r \in 1..written : mode'[r] = mode[r]
      /\ LabelIsEarned' /\ SetAside' /\ Memory'
  BY <1>1, NewRow
<1>3. PICK t \in {"tail", "garbled"} :
        /\ place' = [Glue EXCEPT ![written + 1] = IF Unended THEN "garbled" ELSE t]
        /\ cut' = (Unended \/ t = "garbled")
  BY DEF Torn
<1>4. TypeOK'
  <2>1. place' \in [Rows -> Places] /\ cut' \in BOOLEAN
    BY <1>2, <1>3 DEF Glue, IInv, TypeOK
  <2>2. TypeOK
    BY DEF IInv
  <2>3. /\ date' \in [Rows -> Days] /\ logged' \in [Rows -> Days]
        /\ asked' \in [Rows -> Requests] /\ mode' \in [Rows -> Lineages]
    BY <1>1, <1>2, <2>2 DEF Stamp, TypeOK
  <2>4. book' \in [Rows -> Books \cup {NoBook}]
    BY <1>1, <1>2, <2>2 DEF Stamp, TypeOK
  <2>5. run' \in [Runs -> [pc : {"idle", "deciding", "refused"}, asked : Requests,
                         date : Days, from : SUBSET Rows]]
    BY <1>1, <1>2, <2>2 DEF Stamp, TypeOK, Idle
  <2>6. day' \in Days /\ session' \in 0..day' /\ written' \in 0..MaxRows
    BY <1>1, <1>2, <2>2 DEF TypeOK
  <2>. QED BY <1>1, <2>1, <2>2, <2>3, <2>4, <2>5, <2>6 DEF TypeOK
<1>5. Unwritten'
  BY <1>1, <1>2, <1>3 DEF Stamp, Glue, IInv, TypeOK, Unwritten
<1>6. Kept'
  <2>1. acked' \subseteq 1..written'
    BY <1>1, <1>2 DEF IInv, TypeOK, Kept
  <2>2. ASSUME NEW r \in acked, r \notin glued \cup raced
        PROVE  place'[r] = "line"
    <3>1. r \in Rows /\ r # written + 1
      BY <1>2 DEF IInv, TypeOK, Kept
    <3>. QED BY <1>2, <1>3, <2>2, <3>1 DEF Glue, IInv, TypeOK, Kept
  <2>. QED BY <1>1, <2>1, <2>2 DEF Kept, IInv
<1>. QED BY <1>2, <1>4, <1>5, <1>6 DEF IInv

-----------------------------------------------------------------------------
(***************************************************************************)
(* Steps that write no row leave what the rows record, so what was found   *)
(* in them stays found.                                                    *)
(***************************************************************************)
LEMMA SameRows ==
  ASSUME UNCHANGED <<written, rowVars>>
  PROVE  /\ \A r : Timely(r)' = Timely(r) /\ Observed(r)' = Observed(r)
         /\ \A d : Disputed(d)' = Disputed(d)
<1>1. \A r : Timely(r)' = Timely(r) /\ Observed(r)' = Observed(r)
  BY DEF rowVars, Timely, Observed
<1>. QED BY <1>1 DEF Disputed, rowVars

LEMMA SameMemory ==
  ASSUME Memory, UNCHANGED <<written, rowVars, run>>
  PROVE  Memory'
BY SameRows DEF Memory, InheritedIsSound, rowVars

LEMMA BeginKeepsIInv ==
  ASSUME IInv, NEW p \in Runs, NEW m \in Requests, NEW d \in Days, Begin(p, m, d)
  PROVE  IInv'
<1>. USE DEF Begin
<1>1. UNCHANGED <<written, rowVars>>
  BY DEF vars
<1>2. Latest(d, m) \subseteq 1..written
  BY DEF Latest, Before, Readable, IInv, TypeOK, Unwritten
<1>3. TypeOK'
  <2>1. run' \in [Runs -> [pc : {"idle", "deciding", "refused"}, asked : Requests,
                         date : Days, from : SUBSET Rows]]
    BY <1>2 DEF IInv, TypeOK
  <2>. QED BY <2>1 DEF IInv, TypeOK, rowVars
<1>4. Unwritten' /\ Kept'
  BY DEF IInv, Unwritten, Kept
<1>5. LabelIsEarned' /\ SetAside'
  BY <1>1, SameRows DEF IInv, LabelIsEarned, SetAside, rowVars
<1>6. Memory'
  <2>1. /\ \A r, q \in Latest(d, m) : book[r] = book[q] /\ date[r] = date[q]
        /\ \A r \in Latest(d, m) :
             date[r] < d /\ (asked[r] = m \/ Observed(r) = m)
    <3>1. \A r, q \in Latest(d, m) : date[r] = date[q]
      BY SMTT(40), <1>2 DEF Latest, Before, IInv, TypeOK
    <3>2. \A r \in Latest(d, m) : mode[r] = m /\ date[r] < d
      BY DEF Latest, Before
    <3>. QED BY <1>2, <3>1, <3>2 DEF Agree, IInv, LabelIsEarned
  <2>2. \A q \in Runs : q # p => run'[q] = run[q]
    BY DEF IInv, TypeOK
  <2>3. run'[p] = [pc |-> "deciding", asked |-> m, date |-> d, from |-> Latest(d, m)]
    BY DEF IInv, TypeOK
  <2>4. \A q \in Runs : run'[q].from \subseteq 1..written
    BY <1>2, <2>2, <2>3 DEF IInv, Memory
  <2>5. InheritedIsSound'
    <3>. SUFFICES ASSUME NEW q \in Runs, run'[q].pc = "deciding"
         PROVE  /\ \A r, s \in run'[q].from :
                     book[r] = book[s] /\ date[r] = date[s]
                /\ \A r \in run'[q].from :
                     /\ date[r] < run'[q].date
                     /\ asked[r] = run'[q].asked \/ Observed(r) = run'[q].asked
      BY <1>1, SameRows DEF InheritedIsSound, rowVars
    <3>1. CASE q = p
      BY <2>1, <2>3, <3>1
    <3>2. CASE q # p
      BY <2>2, <3>2 DEF IInv, Memory, InheritedIsSound
    <3>. QED BY <3>1, <3>2
  <2>. QED BY <1>1, <2>4, <2>5 DEF Memory
<1>. QED BY <1>3, <1>4, <1>5, <1>6 DEF IInv

\* A run that stops, or refuses, forgets what it read.
LEMMA ForgettingKeepsIInv ==
  ASSUME IInv, NEW p \in Runs, NEW pc \in {"idle", "refused"},
         run' = [run EXCEPT ![p] = [Idle EXCEPT !.pc = pc]],
         UNCHANGED <<day, session, written, rowVars, mode, place, cut, repair,
                     acked, glued, raced>>
  PROVE  IInv'
<1>1. UNCHANGED <<written, rowVars>>
  OBVIOUS
<1>2. TypeOK'
  <2>1. run' \in [Runs -> [pc : {"idle", "deciding", "refused"}, asked : Requests,
                         date : Days, from : SUBSET Rows]]
    <3>1. [Idle EXCEPT !.pc = pc] = [pc |-> pc, asked |-> "live", date |-> 0,
                                     from |-> {}]
      BY DEF Idle
    <3>2. [Idle EXCEPT !.pc = pc]
            \in [pc : {"idle", "deciding", "refused"}, asked : Requests,
                date : Days, from : SUBSET Rows]
      BY <3>1
    <3>. QED BY <3>2 DEF IInv, TypeOK
  <2>. QED BY <2>1 DEF IInv, TypeOK, rowVars
<1>3. Unwritten' /\ Kept'
  BY DEF IInv, Unwritten, Kept
<1>4. LabelIsEarned' /\ SetAside'
  BY <1>1, SameRows DEF IInv, LabelIsEarned, SetAside, rowVars
<1>5. Memory'
  <2>1. \A q \in Runs : run'[q].pc = "deciding" => run'[q] = run[q]
    BY DEF IInv, TypeOK, Idle
  <2>2. \A q \in Runs : run'[q].from \subseteq 1..written
    BY DEF IInv, TypeOK, Memory, Idle
  <2>3. InheritedIsSound'
    BY <1>1, <2>1, SameRows DEF IInv, Memory, InheritedIsSound, rowVars
  <2>. QED BY <1>1, <2>2, <2>3 DEF Memory
<1>. QED BY <1>2, <1>3, <1>4, <1>5 DEF IInv

-----------------------------------------------------------------------------
(* The steps of repair_lineage() *)

LEMMA ClassifyKeepsIInv ==
  ASSUME IInv, Classify
  PROVE  IInv'
<1>. USE DEF Classify
<1>1. UNCHANGED <<written, rowVars, run>>
  OBVIOUS
<1>2. /\ repair' = [pc |-> "classified", known |-> written, suspects |-> Suspects,
                    draft |-> repair.draft]
  BY DEF IInv, TypeOK
<1>3. Suspects \subseteq Days
  BY DEF Suspects, Readable, IInv, TypeOK
<1>4. \A d \in Suspects : Disputed(d)
  <2>1. Readable \subseteq 1..written
    BY SMTT(40) DEF Readable, IInv, TypeOK, Unwritten
  <2>. QED BY <2>1 DEF Suspects, Disputed
<1>5. TypeOK'
  <2>1. repair' \in [pc : {"idle", "classified", "rewriting"}, known : 0..MaxRows,
                    suspects : SUBSET Days, draft : [Rows -> Places]]
    BY <1>2, <1>3 DEF IInv, TypeOK
  <2>. QED BY <2>1 DEF IInv, TypeOK, rowVars
<1>6. Unwritten' /\ Kept'
  BY <1>2 DEF IInv, Unwritten, Kept
<1>7. LabelIsEarned' /\ SetAside'
  BY <1>1, <1>2, <1>4, SameRows DEF IInv, LabelIsEarned, SetAside, rowVars
<1>8. Memory'
  BY <1>1, SameMemory DEF IInv
<1>. QED BY <1>5, <1>6, <1>7, <1>8 DEF IInv

LEMMA ReadTextKeepsIInv ==
  ASSUME IInv, ReadText
  PROVE  IInv'
<1>. USE DEF ReadText
<1>1. UNCHANGED <<written, rowVars, run>>
  OBVIOUS
<1>2. /\ repair' = [pc |-> "rewriting", known |-> repair.known,
                    suspects |-> repair.suspects, draft |-> place]
  BY DEF IInv, TypeOK
<1>3. TypeOK'
  <2>1. repair' \in [pc : {"idle", "classified", "rewriting"}, known : 0..MaxRows,
                    suspects : SUBSET Days, draft : [Rows -> Places]]
    BY <1>2 DEF IInv, TypeOK
  <2>. QED BY <2>1 DEF IInv, TypeOK, rowVars
<1>4. Unwritten' /\ Kept'
  BY <1>2 DEF IInv, Unwritten, Kept
<1>5. LabelIsEarned' /\ SetAside'
  BY <1>1, <1>2, SameRows DEF IInv, LabelIsEarned, SetAside, rowVars
<1>6. Memory'
  BY <1>1, SameMemory DEF IInv
<1>. QED BY <1>3, <1>4, <1>5, <1>6 DEF IInv

LEMMA NoRepairTyped ==
  NoRepair \in [pc : {"idle", "classified", "rewriting"}, known : 0..MaxRows,
                suspects : SUBSET Days, draft : [Rows -> Places]]
<1>1. [r \in Rows |-> "absent"] \in [Rows -> Places]
  OBVIOUS
<1>. QED BY <1>1 DEF NoRepair

LEMMA ReplaceKeepsIInv ==
  ASSUME IInv, Replace
  PROVE  IInv'
<1>1. UNCHANGED <<day, session, written, rowVars, run, acked, glued, raced>>
      /\ repair' = NoRepair
  BY DEF Replace
<1>2. \A r \in Rows :
        mode'[r] = mode[r] \/ (r \in Parsed /\ mode'[r] = Target(r))
  BY SMTT(40) DEF Replace, Wrong, IInv, TypeOK
<1>3. Parsed \subseteq 1..written
  BY DEF Parsed, IInv, TypeOK, Unwritten
<1>4. TypeOK'
  <2>1. \A r \in Rows : Target(r) \in Lineages
    BY DEF Target, Observed
  <2>2. mode' \in [Rows -> Lineages]
    <3>1. mode \in [Rows -> Lineages]
      BY DEF IInv, TypeOK
    <3>2. \A r \in Rows :
            (IF r \in Wrong THEN Target(r) ELSE mode[r]) \in Lineages
      BY <2>1, <3>1
    <3>3. CASE Wrong = {}
      BY <3>1, <3>3 DEF Replace
    <3>4. CASE Wrong # {}
      <4>1. mode' = [r \in Rows |-> IF r \in Wrong THEN Target(r) ELSE mode[r]]
        BY <3>4 DEF Replace
      <4>. QED BY <3>2, <4>1, Zenon
    <3>. QED BY <3>3, <3>4
  <2>3. \A r \in Rows : Rewritten(r) \in Places
    BY DEF Rewritten, IInv, TypeOK
  <2>4. place' \in [Rows -> Places] /\ cut' \in BOOLEAN
    <3>1. CASE Wrong = {}
      BY <3>1 DEF Replace, IInv, TypeOK
    <3>2. CASE Wrong # {}
      <4>1. place' = [r \in Rows |-> Rewritten(r)] /\ cut' = FALSE
        BY <3>2 DEF Replace
      <4>. QED BY <2>3, <4>1, Zenon
    <3>. QED BY <3>1, <3>2
  <2>. QED BY <1>1, <2>2, <2>4, NoRepairTyped DEF IInv, TypeOK, rowVars
<1>5. Unwritten'
  <2>1. ASSUME NEW r \in Rows, r > written
        PROVE  place'[r] = "absent" /\ mode'[r] = "live"
    <3>1. r \notin Parsed /\ repair.draft[r] = "absent" /\ place[r] = "absent"
          /\ mode[r] = "live"
      BY <2>1 DEF Parsed, IInv, Unwritten
    <3>2. Rewritten(r) = "absent" /\ r \notin Wrong
      BY <3>1 DEF Rewritten, Wrong
    <3>. QED BY <3>1, <3>2 DEF Replace
  <2>2. \A r \in Rows : repair'.draft[r] = "absent"
    BY <1>1 DEF NoRepair
  <2>. QED BY <1>1, <2>1, <2>2 DEF Unwritten
<1>6. LabelIsEarned'
  <2>1. \A r \in Rows : Target(r) \in {Observed(r), "quarantine"}
    BY DEF Target
  <2>2. 1..written \subseteq Rows
    BY DEF IInv, TypeOK
  <2>3. \A r \in 1..written :
          mode'[r] \in {asked[r], Observed(r)} \/ mode'[r] = "quarantine"
    BY <1>2, <2>1, <2>2 DEF IInv, LabelIsEarned
  <2>. QED BY <1>1, <2>3, SameRows DEF LabelIsEarned, rowVars
<1>7. SetAside'
  <2>1. \A r \in Rows : Target(r) = "quarantine" =>
          Timely(r) /\ date[r] \in repair.suspects
    BY DEF Target, Observed
  <2>2. \A r \in Rows : mode'[r] = "quarantine" => Timely(r) /\ Disputed(date[r])
    BY <1>2, <2>1 DEF IInv, SetAside
  <2>. QED BY <1>1, <2>2, SameRows DEF SetAside, rowVars, NoRepair
<1>8. Memory'
  BY <1>1, SameMemory DEF IInv
<1>9. Kept'
  <2>1. ASSUME NEW r \in acked, r \notin glued \cup raced
        PROVE  place'[r] = "line"
    <3>1. place[r] = "line" /\ repair.draft[r] = "line" /\ r \in Rows
      BY <2>1 DEF IInv, TypeOK, Kept, Replace
    <3>2. Rewritten(r) = "line"
      BY <3>1 DEF Rewritten, Parsed
    <3>. QED BY <3>1, <3>2 DEF Replace
  <2>. QED BY <1>1, <2>1 DEF IInv, Kept, NoRepair
<1>. QED BY <1>4, <1>5, <1>6, <1>7, <1>8, <1>9 DEF IInv

LEMMA RepairStopsKeepsIInv ==
  ASSUME IInv, RepairStops
  PROVE  IInv'
<1>. USE DEF RepairStops
<1>1. UNCHANGED <<written, rowVars, run>> /\ repair' = NoRepair
  OBVIOUS
<1>2. TypeOK'
  BY NoRepairTyped DEF IInv, TypeOK, rowVars
<1>3. Unwritten' /\ Kept'
  BY <1>1 DEF IInv, Unwritten, Kept, NoRepair
<1>4. LabelIsEarned' /\ SetAside'
  BY <1>1, SameRows DEF IInv, LabelIsEarned, SetAside, rowVars, NoRepair
<1>5. Memory'
  BY <1>1, SameMemory DEF IInv
<1>. QED BY <1>2, <1>3, <1>4, <1>5 DEF IInv

\* The passing of a day, an ingest and a stutter touch nothing of the ledger.
LEMMA TimeKeepsIInv ==
  ASSUME IInv, Tick \/ Ingest \/ UNCHANGED vars
  PROVE  IInv'
<1>1. UNCHANGED <<written, rowVars, mode, place, cut, run, repair, acked, glued,
                  raced>>
  BY DEF Tick, Ingest, vars
<1>2. TypeOK'
  <2>1. day' \in Days /\ session' \in 0..day'
    BY DEF Tick, Ingest, vars, IInv, TypeOK
  <2>. QED BY <1>1, <2>1 DEF IInv, TypeOK, rowVars
<1>3. Unwritten' /\ Kept'
  BY <1>1 DEF IInv, Unwritten, Kept
<1>4. LabelIsEarned' /\ SetAside'
  BY <1>1, SameRows DEF IInv, LabelIsEarned, SetAside, rowVars
<1>5. Memory'
  BY <1>1, SameMemory DEF IInv
<1>. QED BY <1>2, <1>3, <1>4, <1>5 DEF IInv

LEMMA StepIInv == IInv /\ [Next]_vars => IInv'
<1>. SUFFICES ASSUME IInv, [Next]_vars PROVE IInv'
  OBVIOUS
<1>1. ASSUME NEW p \in Runs, NEW m \in Requests, NEW d \in Days, Begin(p, m, d)
      PROVE  IInv'
  BY <1>1, BeginKeepsIInv
<1>2. ASSUME NEW p \in Runs, NEW m \in Requests, NEW d \in Days, Refuse(p, m, d)
      PROVE  IInv'
  BY <1>2, ForgettingKeepsIInv DEF Refuse
<1>3. ASSUME NEW p \in Runs, NEW b \in Books, Append(p, b)
      PROVE  IInv'
  BY <1>3, AppendKeepsIInv
<1>4. ASSUME NEW p \in Runs, NEW b \in Books, Torn(p, b)
      PROVE  IInv'
  BY <1>4, TornKeepsIInv
<1>5. ASSUME NEW p \in Runs, Stop(p)
      PROVE  IInv'
  <2>1. Idle = [Idle EXCEPT !.pc = "idle"]
    BY DEF Idle
  <2>. QED BY <1>5, <2>1, ForgettingKeepsIInv DEF Stop
<1>6. CASE Repair
  BY <1>6, ClassifyKeepsIInv, ReadTextKeepsIInv, ReplaceKeepsIInv,
     RepairStopsKeepsIInv DEF Repair
<1>7. CASE Tick \/ Ingest \/ UNCHANGED vars
  BY <1>7, TimeKeepsIInv
<1>. QED BY <1>1, <1>2, <1>3, <1>4, <1>5, <1>6, <1>7 DEF Next, Analysis

LEMMA Invariant == Spec => []IInv
BY InitIInv, StepIInv, PTL DEF Spec

-----------------------------------------------------------------------------
(* Every state of every behaviour has the shape the ledger's code relies on. *)
THEOREM TypeCorrect == Spec => []TypeOK
<1>1. IInv => TypeOK
  BY DEF IInv
<1>. QED BY <1>1, Invariant, PTL

(***************************************************************************)
(* However many analyses, crashes and repairs there are, an acknowledged   *)
(* row is lost only behind a torn line or under a rewrite of the file.     *)
(***************************************************************************)
THEOREM LossesAreExplained == Spec => []LossIsExplained
<1>1. IInv => LossIsExplained
  BY DEF IInv, TypeOK, Kept, LossIsExplained, Readable
<1>. QED BY <1>1, Invariant, PTL

(***************************************************************************)
(* What previous_run() hands to an analysis stays one earlier book of its  *)
(* own lineage until the analysis appends, whatever is written meanwhile.  *)
(***************************************************************************)
THEOREM MemoryIsSound == Spec => []InheritedIsSound
<1>1. IInv => InheritedIsSound
  BY DEF IInv, Memory
<1>. QED BY <1>1, Invariant, PTL

(* No repair sets aside a date that two timely rows do not dispute. *)
THEOREM OnlyDisputesAreSetAside == Spec => []QuarantineIsEarned
<1>1. IInv => QuarantineIsEarned
  <2>. SUFFICES ASSUME IInv, NEW r \in Rows, mode[r] = "quarantine"
       PROVE  /\ Timely(r)
              /\ \E q \in Rows : Timely(q) /\ date[q] = date[r] /\ book[q] # book[r]
    BY DEF QuarantineIsEarned
  <2>1. Timely(r) /\ Disputed(date[r])
    BY DEF IInv, SetAside
  <2>2. PICK q, s \in 1..written :
          /\ Timely(q) /\ Timely(s)
          /\ date[q] = date[r] /\ date[s] = date[r] /\ book[q] # book[s]
    BY <2>1 DEF Disputed
  <2>3. q \in Rows /\ s \in Rows
    BY DEF IInv, TypeOK
  <2>. QED BY <2>1, <2>2, <2>3
<1>. QED BY <1>1, Invariant, PTL

-----------------------------------------------------------------------------
(***************************************************************************)
(* What a repair leaves behind.  As long as no append has begun since      *)
(* Classify, the dates it suspects and the text it read are those of the   *)
(* file, so the labels it writes are the ones the file needs.              *)
(***************************************************************************)
UpToDate ==
  repair.pc # "idle" =>
    /\ repair.known <= written
    /\ repair.known = written =>
         /\ repair.suspects = Suspects
         /\ repair.pc = "rewriting" => repair.draft = place

\* A step that leaves the rows, their bytes and the repair alone.
LEMMA UntouchedUpToDate ==
  ASSUME UpToDate, UNCHANGED <<written, rowVars, place, repair>>
  PROVE  UpToDate'
<1>1. Suspects' = Suspects
  BY DEF Suspects, Readable, Timely, rowVars
<1>. QED BY <1>1 DEF UpToDate

LEMMA AppendUpToDate ==
  ASSUME IInv, UpToDate, NEW p \in Runs, NEW b \in Books, Append(p, b) \/ Torn(p, b)
  PROVE  UpToDate'
<1>1. written' = written + 1 /\ UNCHANGED repair
  BY DEF Append, Torn, Stamp
<1>2. written \in Nat /\ repair.known \in Nat
  BY DEF IInv, TypeOK
<1>. QED BY <1>1, <1>2 DEF UpToDate

LEMMA RepairUpToDate ==
  ASSUME IInv, UpToDate, Repair
  PROVE  UpToDate'
<1>. USE DEF IInv, TypeOK
<1>1. CASE Classify
  <2>1. Suspects' = Suspects
    BY <1>1 DEF Classify, Suspects, Readable, Timely, rowVars
  <2>2. /\ repair'.pc = "classified" /\ repair'.known = written
        /\ repair'.suspects = Suspects /\ written' = written
    BY <1>1 DEF Classify
  <2>. QED BY <2>1, <2>2 DEF UpToDate
<1>2. CASE ReadText
  <2>1. Suspects' = Suspects
    BY <1>2 DEF ReadText, Suspects, Readable, Timely, rowVars
  <2>2. /\ repair.pc = "classified"
        /\ repair'.known = repair.known /\ repair'.suspects = repair.suspects
        /\ repair'.draft = place /\ written' = written /\ place' = place
    BY <1>2 DEF ReadText
  <2>. QED BY <2>1, <2>2 DEF UpToDate
<1>3. CASE Replace \/ RepairStops
  BY <1>3 DEF Replace, RepairStops, NoRepair, UpToDate
<1>. QED BY <1>1, <1>2, <1>3 DEF Repair

LEMMA StepUpToDate == IInv /\ UpToDate /\ [Next]_vars => UpToDate'
<1>. SUFFICES ASSUME IInv, UpToDate, [Next]_vars PROVE UpToDate'
  OBVIOUS
<1>1. \/ UNCHANGED <<written, rowVars, place, repair>>
      \/ \E p \in Runs, b \in Books : Append(p, b) \/ Torn(p, b)
      \/ Repair
  BY DEF Next, Analysis, Begin, Refuse, Stop, Tick, Ingest, vars
<1>. QED BY <1>1, UntouchedUpToDate, AppendUpToDate, RepairUpToDate

\* Every row that can be read after such a repair carries the label the repair
\* meant for it.
LEMMA AllRelabelled ==
  ASSUME IInv, UpToDate, Replace, repair.known = written, NEW r \in Readable'
  PROVE  r \in Readable /\ mode'[r] = Target(r)
<1>1. repair.draft = place /\ Parsed = Readable
  BY DEF Replace, UpToDate, Parsed, Readable
<1>2. CASE Wrong # {}
  <2>1. place'[r] = Rewritten(r) /\ r \in Rows
    BY <1>2 DEF Replace, Readable
  <2>2. r \in Parsed
    BY <1>1, <2>1 DEF Rewritten, Parsed, Readable
  <2>. QED BY <1>1, <1>2, <2>2 DEF Replace, Wrong, Parsed
<1>3. CASE Wrong = {}
  BY <1>1, <1>3 DEF Replace, Wrong, Readable
<1>. QED BY <1>2, <1>3

(***************************************************************************)
(* A repair that ran to its end with no append meanwhile leaves no live    *)
(* date whose rows disagree, whatever the file held (repair_lineage).      *)
(***************************************************************************)
THEOREM RepairsResolve == Spec => RepairResolves
<1>1. Init => UpToDate
  BY DEF Init, UpToDate, NoRepair
<1>2. ASSUME IInv, UpToDate, Replace, repair.known = written
      PROVE  Conflicts("live")' = {}
  <2>. SUFFICES ASSUME NEW r \in Readable', NEW q \in Readable',
                       mode'[r] = "live", mode'[q] = "live",
                       date'[q] = date'[r], book'[q] # book'[r]
                PROVE  FALSE
    BY DEF Conflicts
  <2>1. /\ r \in Readable /\ Target(r) = "live"
        /\ q \in Readable /\ Target(q) = "live"
    BY <1>2, AllRelabelled
  <2>2. /\ Timely(r) /\ date[r] \notin repair.suspects
        /\ Timely(q)
    BY <2>1 DEF Target, Observed
  <2>3. date[q] = date[r] /\ book[q] # book[r]
    BY <1>2 DEF Replace, rowVars
  <2>4. repair.suspects = Suspects
    BY <1>2 DEF Replace, UpToDate
  <2>. QED BY <2>1, <2>2, <2>3, <2>4 DEF Suspects
<1>3. IInv /\ UpToDate /\ [Next]_vars =>
        [Replace /\ repair.known = written => Conflicts("live")' = {}]_vars
  BY <1>2
<1>. QED BY <1>1, <1>3, InitIInv, StepIInv, StepUpToDate, PTL
         DEF Spec, RepairResolves
=============================================================================
