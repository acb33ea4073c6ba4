------------------------------- MODULE Ledger -------------------------------
(***************************************************************************)
(* The append-only run ledger (prosignal/ledger.py): analyses that read    *)
(* the previous run of their lineage and append a row at the end, crashes  *)
(* in the middle of an append, and repair_lineage(), which rewrites the    *)
(* file while analyses keep appending to it.                               *)
(*                                                                         *)
(* Rows are numbered in the order of their appends; the order of lines in  *)
(* a file plays no part in any reading.  One year's file is modelled.      *)
(***************************************************************************)
EXTENDS Naturals

CONSTANTS
  Runs,     \* analysis processes
  Books,    \* what a row may claim was held and shown
  MaxRows,  \* bound: appends attempted
  MaxDay    \* bound: the last calendar day

ASSUME LedgerAssumption == MaxRows \in Nat /\ MaxDay \in Nat

Rows == 1..MaxRows
Days == 0..MaxDay

LIVE_RECORDING_LAG_DAYS == 1

NoBook == "nobook"  \* of a row not yet written

Lineages == {"live", "replay", "quarantine"}
Requests == {"live", "replay"}

VARIABLES
  day,      \* today
  session,  \* the last session in the store
  written,  \* appends attempted so far
  date,     \* the session each row scores
  logged,   \* the day each row was written
  asked,    \* what its run was asked for
  book,     \* the book it records
  mode,     \* its mode label
  place,    \* where its bytes are
  cut,      \* the file ends in a partial line
  run,      \* what each analysis is doing
  repair,   \* what repair_lineage() is doing
  acked,    \* the rows whose append returned
  glued,    \* history: rows appended to a line that had no end
  raced     \* history: rows appended while a repair was rewriting the file

rowVars == <<date, logged, asked, book>>
vars == <<day, session, written, rowVars, mode, place, cut, run, repair, acked,
          glued, raced>>

\* A row that was never written, on a line of its own, on the last line with
\* its newline missing, in a line that no longer parses, and gone.
Places == {"absent", "line", "tail", "garbled", "erased"}

Readable == {r \in Rows : place[r] \in {"line", "tail"}}

NoRepair == [pc |-> "idle", known |-> 0, suspects |-> {},
             draft |-> [r \in Rows |-> "absent"]]

Idle == [pc |-> "idle", asked |-> "live", date |-> 0, from |-> {}]

Init ==
  /\ day = 0
  /\ session = 0
  /\ written = 0
  /\ date = [r \in Rows |-> 0]
  /\ logged = [r \in Rows |-> 0]
  /\ asked = [r \in Rows |-> "live"]
  /\ book = [r \in Rows |-> NoBook]
  /\ mode = [r \in Rows |-> "live"]
  /\ place = [r \in Rows |-> "absent"]
  /\ cut = FALSE
  /\ run = [p \in Runs |-> Idle]
  /\ repair = NoRepair
  /\ acked = {}
  /\ glued = {}
  /\ raced = {}

-----------------------------------------------------------------------------
(* Reading the previous run *)

\* Mutant: rows of every lineage are read.
AnyLineage(d, m) == {r \in Readable : date[r] < d}

\* The rows of lineage m strictly before d.
Before(d, m) == {r \in Readable : date[r] < d /\ mode[r] = m}

\* Those of the latest such date: what previous_run() chooses from.
Latest(d, m) == {r \in Before(d, m) : \A q \in Before(d, m) : date[q] <= date[r]}

\* _book_identity: rows that name one book are no conflict.
Agree(rs) == \A r, q \in rs : book[r] = book[q]

\* An analysis resolves its date, then reads its memory.  A live run scores
\* the last session of the store; a replay any earlier or equal one.
Begin(p, m, d) ==
  /\ run[p].pc # "deciding"
  /\ d <= session /\ (m = "live" => d = session)
  /\ Agree(Latest(d, m))
  /\ run' = [run EXCEPT ![p] = [pc |-> "deciding", asked |-> m, date |-> d,
                                from |-> Latest(d, m)]]
  /\ UNCHANGED <<day, session, written, rowVars, mode, place, cut, repair, acked,
                 glued, raced>>

\* AmbiguousLedgerHistory: the run stops.
Refuse(p, m, d) ==
  /\ run[p].pc # "deciding"
  /\ d <= session /\ (m = "live" => d = session)
  /\ ~Agree(Latest(d, m))
  /\ run' = [run EXCEPT ![p] = [Idle EXCEPT !.pc = "refused"]]
  /\ UNCHANGED <<day, session, written, rowVars, mode, place, cut, repair, acked,
                 glued, raced>>

-----------------------------------------------------------------------------
(* Writing *)

\* The file does not end in a newline.
Unended == cut \/ \E r \in Rows : place[r] = "tail"

\* What an append does to the line that had no end.
Glue == [r \in Rows |-> IF place[r] = "tail" THEN "garbled" ELSE place[r]]

\* The row of run p, with the book it decided on.
Stamp(p, b) ==
  /\ run[p].pc = "deciding"
  /\ written < MaxRows
  /\ written' = written + 1
  /\ date' = [date EXCEPT ![written + 1] = run[p].date]
  /\ logged' = [logged EXCEPT ![written + 1] = day]
  /\ asked' = [asked EXCEPT ![written + 1] = run[p].asked]
  /\ book' = [book EXCEPT ![written + 1] = b]
  /\ mode' = [mode EXCEPT ![written + 1] = run[p].asked]
  /\ run' = [run EXCEPT ![p] = Idle]

\* append() writes the line and its newline, syncs, and returns.
Append(p, b) ==
  /\ Stamp(p, b)
  /\ place' = [Glue EXCEPT ![written + 1] = IF Unended THEN "garbled" ELSE "line"]
  /\ cut' = FALSE
  /\ acked' = acked \cup {written + 1}
  /\ glued' = IF Unended THEN glued \cup {written + 1} ELSE glued
  /\ raced' = IF repair.pc = "rewriting" THEN raced \cup {written + 1} ELSE raced
  /\ UNCHANGED <<day, session, repair>>

\* The process dies, or the disk fills, inside the write: part of the line
\* is in the file, perhaps all of it but the newline.
Torn(p, b) ==
  /\ Stamp(p, b)
  /\ \E t \in {"tail", "garbled"} :
       /\ place' = [Glue EXCEPT ![written + 1] = IF Unended THEN "garbled" ELSE t]
       /\ cut' = (Unended \/ t = "garbled")
  /\ UNCHANGED <<day, session, repair, acked, glued, raced>>

\* The run blocks, raises or dies before it appends.
Stop(p) ==
  /\ run[p].pc = "deciding"
  /\ run' = [run EXCEPT ![p] = Idle]
  /\ UNCHANGED <<day, session, written, rowVars, mode, place, cut, repair, acked,
                 glued, raced>>

-----------------------------------------------------------------------------
(* repair_lineage(dry_run=False) *)

\* _observed_mode: recorded on the day, or the day after.
Timely(r) == logged[r] <= date[r] + LIVE_RECORDING_LAG_DAYS

\* Mutant: a late row is labelled with a lineage nobody reads.
ObservedUnknown(r) == IF Timely(r) THEN "live" ELSE "unknown"

Observed(r) == IF Timely(r) THEN "live" ELSE "replay"

\* Mutant: late rows count as evidence of a conflict.
SuspectsOfAll == {date[r] : r \in {r \in Readable :
                    \E q \in Readable : date[q] = date[r] /\ book[q] # book[r]}}

\* The dates whose timely rows disagree.
Suspects == {date[r] : r \in {r \in Readable :
               \E q \in Readable : /\ date[q] = date[r] /\ book[q] # book[r]
                                   /\ Timely(q) /\ Timely(r)}}

Classify ==
  /\ repair.pc = "idle"
  /\ repair' = [repair EXCEPT !.pc = "classified", !.known = written,
                              !.suspects = Suspects]
  /\ UNCHANGED <<day, session, written, rowVars, mode, place, cut, run, acked,
                 glued, raced>>

ReadText ==
  /\ repair.pc = "classified"
  /\ repair' = [repair EXCEPT !.pc = "rewriting", !.draft = place]
  /\ UNCHANGED <<day, session, written, rowVars, mode, place, cut, run, acked,
                 glued, raced>>

\* Mutant: conflicting dates are not set aside.
NoQuarantine(r) == Observed(r)

Target(r) ==
  IF Timely(r) /\ date[r] \in repair.suspects THEN "quarantine" ELSE Observed(r)

Parsed == {r \in Rows : repair.draft[r] \in {"line", "tail"}}
Wrong  == {r \in Parsed : mode[r] # Target(r)}

\* Mutant: a line whose label stands is not copied over.
OnlyRestamped(r) ==
  IF r \in Wrong THEN "line" ELSE IF place[r] = "absent" THEN "absent" ELSE "erased"

\* Where a row is in the rewritten file.
Rewritten(r) ==
  CASE r \in Parsed -> "line"
    [] repair.draft[r] = "absent" /\ place[r] # "absent" -> "erased"
    [] OTHER -> repair.draft[r]

\* The file is replaced when some label changed; every line of it ends.
Replace ==
  /\ repair.pc = "rewriting"
  /\ IF Wrong # {}
       THEN /\ mode' = [r \in Rows |-> IF r \in Wrong THEN Target(r) ELSE mode[r]]
            /\ place' = [r \in Rows |-> Rewritten(r)]
            /\ cut' = FALSE
       ELSE UNCHANGED <<mode, place, cut>>
  /\ repair' = NoRepair
  /\ UNCHANGED <<day, session, written, rowVars, run, acked, glued, raced>>

\* The command dies or is interrupted before os.replace.
RepairStops ==
  /\ repair.pc # "idle"
  /\ repair' = NoRepair
  /\ UNCHANGED <<day, session, written, rowVars, mode, place, cut, run, acked,
                 glued, raced>>

-----------------------------------------------------------------------------
(* The environment *)

\* A day passes.
Tick ==
  /\ day < MaxDay
  /\ day' = day + 1
  /\ UNCHANGED <<session, written, rowVars, mode, place, cut, run, repair, acked,
                 glued, raced>>

\* An ingest brings today's session.
Ingest ==
  /\ session < day
  /\ session' = day
  /\ UNCHANGED <<day, written, rowVars, mode, place, cut, run, repair, acked,
                 glued, raced>>

Analysis(p) ==
  \/ \E m \in Requests, d \in Days : Begin(p, m, d) \/ Refuse(p, m, d)
  \/ \E b \in Books : Append(p, b) \/ Torn(p, b)
  \/ Stop(p)

Repair == Classify \/ ReadText \/ Replace \/ RepairStops

Next ==
  \/ \E p \in Runs : Analysis(p)
  \/ Repair
  \/ Tick
  \/ Ingest

Spec == Init /\ [][Next]_vars

-----------------------------------------------------------------------------
(* Properties *)

\* Every variable has the shape of a row, a file, a run or a repair.
TypeOK ==
  /\ day \in Days /\ session \in 0..day
  /\ written \in 0..MaxRows
  /\ date \in [Rows -> Days] /\ logged \in [Rows -> Days]
  /\ asked \in [Rows -> Requests]
  /\ book \in [Rows -> Books \cup {NoBook}]
  /\ mode \in [Rows -> Lineages]
  /\ place \in [Rows -> Places]
  /\ cut \in BOOLEAN
  /\ run \in [Runs -> [pc : {"idle", "deciding", "refused"}, asked : Requests,
                       date : Days, from : SUBSET Rows]]
  /\ repair \in [pc : {"idle", "classified", "rewriting"}, known : 0..MaxRows,
                 suspects : SUBSET Days, draft : [Rows -> Places]]
  /\ acked \subseteq Rows /\ glued \subseteq Rows /\ raced \subseteq Rows

\* A row whose append returned stays readable, unless it was appended to a
\* line a torn append had left without an end, or while a repair was rewriting
\* the file: no other interleaving of appends, crashes and repairs loses one.
LossIsExplained ==
  \A r \in acked : r \in Readable \/ r \in glued \/ r \in raced

\* The memory of a run is one book, from one earlier session, and of its own
\* lineage: rows asked for as the run was, or that a repair found recorded on
\* time (live) or late (replay).
InheritedIsSound ==
  \A p \in Runs : run[p].pc = "deciding" =>
    LET rs == run[p].from IN
    /\ \A r, q \in rs : book[r] = book[q] /\ date[r] = date[q]
    /\ \A r \in rs : date[r] < run[p].date
    /\ \A r \in rs : asked[r] = run[p].asked \/ Observed(r) = run[p].asked

\* A row is set aside only if it was recorded on time and another row recorded
\* on time names another book for its date.
QuarantineIsEarned ==
  \A r \in Rows : mode[r] = "quarantine" =>
    /\ Timely(r)
    /\ \E q \in Rows : Timely(q) /\ date[q] = date[r] /\ book[q] # book[r]

Conflicts(m) ==
  {date[r] : r \in {r \in Readable :
     mode[r] = m /\ \E q \in Readable :
       mode[q] = m /\ date[q] = date[r] /\ book[q] # book[r]}}

\* A repair that ran to its end with no append meanwhile leaves no live date
\* that would stop the next run (`data lineage` prints the conflicts left).
RepairResolves ==
  [][Replace /\ repair.known = written => Conflicts("live")' = {}]_vars

-----------------------------------------------------------------------------
(* What the repository says and the code does not do *)

\* The module "survives a crash mid-write with at most one truncated line": the
\* rows whose appends returned are all there, when no repair ran.
AckedReadable == raced = {} => acked \subseteq Readable
=============================================================================
