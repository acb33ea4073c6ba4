------------------------------ MODULE Research ------------------------------
(***************************************************************************)
(* The record the engine is judged by: sessions print, runs are logged,    *)
(* epochs open and close, a forward test is registered, and requests       *)
(* resolve past calls against what the market did.  Requests run in        *)
(* threads of the server and in the command line and take no lock.         *)
(*                                                                         *)
(* A configuration version covers the parameters and the store.  The       *)
(* command line resolves it anew in each process; the server reads its     *)
(* parameters once and keeps the version it first resolved.                *)
(***************************************************************************)
EXTENDS Outcomes, Epochs, Forward, Functions

CONSTANTS Names,
          Params,      \* parameter sets the engine may be given
          MaxSession,  \* bound: the last session
          MaxRuns,     \* bound: rows in the ledger
          Observed,    \* bound: the bars that may print
          Resolvers,   \* requests that resolve outcomes
          Recs,        \* bound: what a run records of a name it calls
          Events       \* bound: requests that die, sessions that come late, and changes to
                       \* the parameters, the epochs and the forward test, together

Sessions == 1..MaxSession
Versions == Params \X (0..MaxSession)

ResearchAssumption ==
  /\ MaxSession \in Nat \ {0} /\ MaxRuns \in Nat /\ Events \in Nat
  /\ IsFiniteSet(Names) /\ IsFiniteSet(Resolvers)
  /\ Observed \subseteq Bars /\ NoEpoch \notin Versions
  /\ Recs \subseteq [stop : BOOLEAN, close : BOOLEAN]
ASSUME ResearchAssumption

VARIABLES
  now,           \* the last session printed
  bars,          \* name -> session -> bar
  params,        \* the parameters on file
  loaded,        \* those the running server was started with
  bound,         \* {} or the version it has resolved
  ledger,        \* rows, in file order
  epochs,        \* lines of the epoch file
  registration,  \* {} or the registered forward test
  outcomes,      \* readable rows, in file order
  torn,          \* the file ends in the middle of a line
  pc, sawLedger, sawOutcomes, buffer,  \* each resolver's place and what it has read
  events,        \* left
  \* History, for the properties.
  revised,       \* sessions whose bars or book came too late for a request to see
  strayed        \* a run of the window was logged under a version not registered

market == <<now, bars>>
study == <<params, epochs, registration>>
server == <<loaded, bound>>
record == <<outcomes, torn>>
resolving == <<pc, sawLedger, sawOutcomes, buffer>>
history == <<revised, strayed>>
vars == <<market, ledger, study, server, record, resolving, events, history>>

Processes == {"server", "command"}

\* The version a process takes the engine to be.
Live == <<params, now>>
Served == IF bound = {} THEN <<loaded, now>> ELSE CHOOSE v \in bound : TRUE
Identity(p) == IF p = "server" THEN Served ELSE Live

\* A process that asks for the version has it from then on.
Resolves(p) ==
  /\ bound' = IF p = "server" THEN {Served} ELSE bound
  /\ UNCHANGED loaded

Init ==
  /\ now = 1 /\ bars = [n \in Names |-> [s \in Sessions |-> IF s = 1 THEN "calm" ELSE "none"]]
  /\ params \in Params /\ loaded = params /\ bound = {}
  /\ ledger = << >> /\ registration = {}
  /\ epochs \in {<< >>, <<[id |-> Live, status |-> "open"]>>}
  /\ outcomes = << >> /\ torn = FALSE
  /\ pc = [r \in Resolvers |-> "idle"]
  /\ sawLedger = [r \in Resolvers |-> 0] /\ sawOutcomes = [r \in Resolvers |-> 0]
  /\ buffer = [r \in Resolvers |-> << >>]
  /\ events = Events
  /\ revised = {} /\ strayed = FALSE
-----------------------------------------------------------------------------
(* The market and the engine *)

Event == events > 0 /\ events' = events - 1

NewSession(row) ==
  /\ now < MaxSession
  /\ now' = now + 1
  /\ bars' = [n \in Names |-> [bars[n] EXCEPT ![now + 1] = row[n]]]
  /\ UNCHANGED <<study, server, record, resolving, history, ledger, events>>

\* A later ingest brings the bar a session lacked.
LateBar(n, s, bar) ==
  /\ Event /\ s < now /\ bars[n][s] = "none"
  /\ bars' = [bars EXCEPT ![n][s] = bar]
  /\ revised' = revised \cup {s}
  /\ UNCHANGED <<study, server, record, resolving, now, ledger, strayed>>

Retune(p) ==
  /\ p # params /\ Event
  /\ params' = p
  /\ UNCHANGED <<market, server, record, resolving, history, ledger, epochs, registration>>

\* The server starts anew, with the parameters on file.
Restart ==
  /\ Event
  /\ loaded' = params /\ bound' = {}
  /\ UNCHANGED <<market, study, record, resolving, history, ledger>>

\* A page of the server asks for the version.
Ask ==
  /\ bound = {} /\ Resolves("server")
  /\ UNCHANGED <<market, study, record, resolving, history, ledger, events>>

NoRec == [stop |-> FALSE, close |-> FALSE]

\* A request has read the ledger and not yet the bars.
InFlight == \E r \in Resolvers : pc[r] = "read"

Outside(p, date) == \E reg \in registration : date >= reg.start /\ Identity(p) # reg.version

\* Mutant: a run is of the date asked for.
DatesAsked == Sessions
RunDates == 1..now

\* A run is of the last session, or of an earlier one asked for. A run that fails
\* is logged too, without a book.
Run(p, date, calls, rec, error) ==
  /\ Len(ledger) < MaxRuns
  /\ date \in RunDates
  /\ error => calls = {}
  /\ rec = NoRec <=> calls = {}
  /\ IF date < now THEN Event ELSE UNCHANGED events
  /\ ledger' = Append(ledger, [date |-> date, calls |-> calls, rec |-> rec,
                               version |-> Identity(p), error |-> error])
  /\ revised' = IF date < now \/ InFlight THEN revised \cup {date} ELSE revised
  /\ strayed' = (strayed \/ (~error /\ Outside(p, date)))
  /\ Resolves(p)
  /\ UNCHANGED <<market, study, record, resolving>>
-----------------------------------------------------------------------------
(* Epochs and the forward test *)

\* Epochs are opened and closed from the command line.
OpenEpoch(force) ==
  /\ Event
  /\ force \/ Active(epochs) = NoEpoch
  /\ epochs' = Append(epochs, [id |-> Live, status |-> "open"])
  /\ UNCHANGED <<market, server, record, resolving, history, params, ledger, registration>>

\* Any epoch on file, an already closed one included, can be closed.
CloseEpoch(id) ==
  /\ Event
  /\ id \in Ids(epochs)
  /\ epochs' = Append(epochs, [id |-> id, status |-> "closed"])
  /\ UNCHANGED <<market, server, record, resolving, history, params, ledger, registration>>

\* No restart unless the open epoch describes the engine that runs. The checks on
\* the data manifest, the universe, the costs and the findings may refuse as well.
MayRestart(p) == Active(epochs) = Identity(p)

Register(p, overwrite) ==
  /\ Event /\ MayRestart(p)
  /\ registration # {} => overwrite
  /\ registration' = {[start |-> now, version |-> Identity(p), intact |-> TRUE]}
  /\ strayed' = \E i \in DOMAIN ledger :
                  ~ledger[i].error /\ ledger[i].date >= now /\ ledger[i].version # Identity(p)
  /\ Resolves(p)
  /\ UNCHANGED <<market, record, resolving, params, ledger, epochs, revised>>

\* Somebody edits the file.
Edit ==
  /\ Event /\ \E reg \in registration : reg.intact
  /\ registration' = {[reg EXCEPT !.intact = FALSE] : reg \in registration}
  /\ UNCHANGED <<market, server, record, resolving, history, params, ledger, epochs>>
-----------------------------------------------------------------------------
(* Resolving *)

\* The book of a date is that of its last row without an error.
RunsOf(rows, d) == {i \in DOMAIN rows : rows[i].date = d /\ ~rows[i].error}
BookByDate(rows) ==
  [d \in {rows[i].date : i \in {j \in DOMAIN rows : ~rows[j].error}} |->
     rows[Max(RunsOf(rows, d))].calls]

\* Mutant: the calls of each row of a day are pending on their own.
PendingByRow(rows, filed) ==
  {c \in (DOMAIN rows) \X Names :
     /\ c[2] \in rows[c[1]].calls /\ rows[c[1]].rec.stop
     /\ ~\E k \in DOMAIN filed : filed[k].run = c[1]}

\* One entry for each call, from the first row that makes it with a stop, and none
\* for a call on file.
Pending(rows, filed) ==
  {c \in (DOMAIN rows) \X Names :
     LET i == c[1]  n == c[2]
     IN  /\ n \in rows[i].calls /\ rows[i].rec.stop
         /\ ~\E k \in DOMAIN filed : filed[k].name = n /\ filed[k].date = rows[i].date
         /\ \A j \in 1..(i - 1) :
              rows[j].date = rows[i].date /\ n \in rows[j].calls => ~rows[j].rec.stop}

Rows(r) == SubSeq(ledger, 1, sawLedger[r])
Filed(r) == SubSeq(outcomes, 1, sawOutcomes[r])

Finished(r) ==
  /\ pc' = [pc EXCEPT ![r] = "idle"]
  /\ sawLedger' = [sawLedger EXCEPT ![r] = 0]
  /\ sawOutcomes' = [sawOutcomes EXCEPT ![r] = 0]
  /\ buffer' = [buffer EXCEPT ![r] = << >>]

\* The ledger and the outcomes are read; with nothing pending that is all.
ReadFiles(r) ==
  /\ pc[r] = "idle" /\ Pending(ledger, outcomes) # {}
  /\ pc' = [pc EXCEPT ![r] = "read"]
  /\ sawLedger' = [sawLedger EXCEPT ![r] = Len(ledger)]
  /\ sawOutcomes' = [sawOutcomes EXCEPT ![r] = Len(outcomes)]
  /\ UNCHANGED <<market, study, server, record, history, ledger, buffer, events>>

\* The call c as the bars of now and the rows read show it to have ended.
VerdictOn(rows, c) ==
  LET row == rows[c[1]]
  IN  Verdict(bars[c[2]], BookByDate(rows), c[2], row.date, row.rec)

Judged(r) == {c \in Pending(Rows(r), Filed(r)) : VerdictOn(Rows(r), c) # {}}

\* The calls, in the order of their runs.
InOrder(calls) ==
  {q \in [1..Cardinality(calls) -> calls] :
     \A i, j \in DOMAIN q : i < j => q[i] # q[j] /\ q[i][1] <= q[j][1]}

Outcome(rows, c) ==
  [run |-> c[1], name |-> c[2], date |-> rows[c[1]].date,
   verdict |-> CHOOSE v \in VerdictOn(rows, c) : TRUE,
   epoch |-> EpochForTrade(epochs, rows[c[1]].version)]

\* A call without a verdict gets no row; with no row there is nothing to write.
Resolve(r) ==
  /\ pc[r] = "read"
  /\ IF Judged(r) = {} THEN Finished(r)
     ELSE /\ \E q \in InOrder(Judged(r)) :
               buffer' = [buffer EXCEPT ![r] = [k \in DOMAIN q |-> Outcome(Rows(r), q[k])]]
          /\ pc' = [pc EXCEPT ![r] = "write"]
          /\ UNCHANGED <<sawLedger, sawOutcomes>>
  /\ UNCHANGED <<market, study, server, record, history, ledger, events>>

\* What an append leaves: a row written behind an unfinished line is not readable.
Appended(rows) == outcomes \o (IF torn THEN Tail(rows) ELSE rows)

Write(r) ==
  /\ pc[r] = "write"
  /\ outcomes' = Appended(buffer[r]) /\ torn' = FALSE
  /\ Finished(r)
  /\ UNCHANGED <<market, study, server, history, ledger, events>>

\* The process of a request dies; while writing, some rows are whole and one is not.
Die(r) ==
  /\ pc[r] # "idle" /\ Event
  /\ \/ UNCHANGED record
     \/ \E k \in 0..(Len(buffer[r]) - 1) :
          /\ pc[r] = "write"
          /\ outcomes' = IF k = 0 THEN outcomes ELSE Appended(SubSeq(buffer[r], 1, k))
          /\ torn' = TRUE
  /\ Finished(r)
  /\ UNCHANGED <<market, study, server, history, ledger>>
-----------------------------------------------------------------------------
Engine ==
  \/ \E row \in [Names -> Observed] : NewSession(row)
  \/ \E n \in Names, s \in Sessions, bar \in Observed \ {"none"} : LateBar(n, s, bar)
  \/ \E p \in Params : Retune(p)
  \/ Restart
  \/ Ask
  \/ \E p \in Processes, date \in Sessions, calls \in SUBSET Names,
        rec \in Recs \cup {NoRec}, error \in BOOLEAN : Run(p, date, calls, rec, error)

Study ==
  \/ \E force \in BOOLEAN : OpenEpoch(force)
  \/ \E id \in Ids(epochs) : CloseEpoch(id)
  \/ \E p \in Processes, overwrite \in BOOLEAN : Register(p, overwrite)
  \/ Edit

Request(r) == ReadFiles(r) \/ Resolve(r) \/ Write(r) \/ Die(r)

Next == Engine \/ Study \/ \E r \in Resolvers : Request(r)

Spec == Init /\ [][Next]_vars
-----------------------------------------------------------------------------
(* Properties *)

\* Every variable is what the files and the requests can hold.
TypeOK ==
  /\ now \in 0..MaxSession /\ params \in Params
  /\ loaded \in Params /\ bound \subseteq Versions /\ \A v, w \in bound : v = w
  /\ bars \in [Names -> [Sessions -> Bars]]
  /\ \A i \in DOMAIN ledger : ledger[i].date \in 1..now /\ ledger[i].calls \subseteq Names
  /\ Ids(epochs) \subseteq Versions
  /\ \A reg \in registration : reg.start \in 0..now /\ reg.version \in Versions
  /\ \A k \in DOMAIN outcomes : outcomes[k].run \in DOMAIN ledger
  /\ torn \in BOOLEAN /\ pc \in [Resolvers -> {"idle", "read", "write"}]
  /\ \A r \in Resolvers : sawLedger[r] <= Len(ledger) /\ sawOutcomes[r] <= Len(outcomes)
  /\ events \in 0..Events /\ revised \subseteq Sessions /\ strayed \in BOOLEAN

\* What was written of a trade is what would be found with everything known today:
\* a verdict uses no bar and no book from after its exit, and none is given before it
\* is final. Two rows of one trade, which overlapping requests write, thus agree.
\* Excepted are trades over a session whose bar or book came late.
VerdictIsFinal ==
  \A k \in DOMAIN outcomes :
    LET o == outcomes[k]
    IN  revised \cap (o.date)..(o.verdict.day) = {} =>
          Verdict(bars[o.name], BookByDate(ledger), o.name, o.date, ledger[o.run].rec)
            = {o.verdict}

\* A trade is on file once for each request that overlapped another, and no more:
\* later requests and later runs of the same day add nothing, whatever was torn.
AtMostOnePerResolver ==
  \A k \in DOMAIN outcomes :
    Cardinality({j \in DOMAIN outcomes : /\ outcomes[j].name = outcomes[k].name
                                        /\ outcomes[j].date = outcomes[k].date})
      <= Cardinality(Resolvers)

\* An epoch is never credited with a trade that another configuration decided, however
\* long after the decision, and under which epoch, the trade is resolved.
EpochMatches ==
  \A k \in DOMAIN outcomes :
    outcomes[k].epoch # NoEpoch => outcomes[k].epoch = ledger[outcomes[k].run].version

\* A window in which another configuration ran is void for good, whichever process
\* reports on it and whatever that process takes the engine to be: putting the old
\* configuration back does not mend it.
StrayedStaysBroken ==
  strayed => \A reg \in registration, p \in Processes :
               Broken(reg, ledger, Identity(p), {s \in Sessions : reg.start <= s /\ s <= now})
=============================================================================
