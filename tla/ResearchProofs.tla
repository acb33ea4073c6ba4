--------------------------- MODULE ResearchProofs ---------------------------
(***************************************************************************)
(* Theorems about the record for any number of names, sessions, runs and   *)
(* requests.  The argument: rows of the ledger never change, so the epoch  *)
(* a request gives a trade stays that of the row it read; and a row that   *)
(* voids a window stays in it, whatever version a process takes the engine *)
(* to be.                                                                  *)
(***************************************************************************)
EXTENDS Research, FiniteSetTheorems, TLAPS

Row == [date : Sessions, calls : SUBSET Names, rec : Recs \cup {NoRec},
        version : Versions, error : BOOLEAN]
Line == [id : Versions, status : {"open", "closed"}]
Registration == [start : Sessions, version : Versions, intact : BOOLEAN]

\* What the variables other than the outcomes hold.
WorldOK ==
  /\ now \in Sessions /\ params \in Params
  /\ loaded \in Params /\ bound \subseteq Versions /\ \A v, w \in bound : v = w
  /\ bars \in [Names -> [Sessions -> Bars]]
  /\ ledger \in Seq(Row) /\ \A i \in DOMAIN ledger : ledger[i].date <= now
  /\ epochs \in Seq(Line)
  /\ registration \subseteq Registration
  /\ events \in 0..Events /\ revised \subseteq Sessions /\ strayed \in BOOLEAN

\* Where the requests are.
RequestsOK ==
  /\ torn \in BOOLEAN /\ pc \in [Resolvers -> {"idle", "read", "write"}]
  /\ sawLedger \in [Resolvers -> Nat] /\ sawOutcomes \in [Resolvers -> Nat]
  /\ \A r \in Resolvers : sawLedger[r] <= Len(ledger) /\ sawOutcomes[r] <= Len(outcomes)
  /\ \A r \in Resolvers : pc[r] = "write" => buffer[r] # << >>

\* A row of the outcomes names a run and, if an epoch, that of the run's version.
Credited(o) ==
  /\ o.run \in DOMAIN ledger
  /\ o.epoch # NoEpoch => o.epoch = ledger[o.run].version

\* So do the rows on file, and those a request is about to write.
OutcomesOK ==
  \E S : /\ \A o \in S : Credited(o)
         /\ outcomes \in Seq(S)
         /\ buffer \in [Resolvers -> Seq(S)]

\* There is one registration, of no later session; a window that strayed holds a row
\* of another version.
RegistrationOK ==
  /\ \A reg, other \in registration : reg = other
  /\ \A reg \in registration : reg.start <= now
  /\ strayed => \A reg \in registration :
                  \E i \in DOMAIN ledger :
                    /\ ~ledger[i].error /\ ledger[i].date >= reg.start
                    /\ ledger[i].version # reg.version

IInv == WorldOK /\ RequestsOK /\ OutcomesOK /\ RegistrationOK
-----------------------------------------------------------------------------
(* The files *)

\* Whichever process takes it, the version is one; a server keeps the one it has.
LEMMA VersionIsOne ==
  ASSUME ResearchAssumption, WorldOK
  PROVE  /\ Live \in Versions /\ Served \in Versions
         /\ \A p \in Processes : Identity(p) \in Versions
         /\ bound # {} => bound = {Served}
<1>1. now \in 0..MaxSession /\ params \in Params /\ loaded \in Params
  BY DEF WorldOK, Sessions, ResearchAssumption
<1>2. Live \in Versions
  BY <1>1 DEF Live, Versions
<1>3. Served \in Versions /\ (bound # {} => bound = {Served})
  <2>1. CASE bound = {}
    BY <1>1, <2>1 DEF Served, Versions
  <2>2. CASE bound # {}
    <3>1. Served \in bound
      BY <2>2 DEF Served
    <3> QED
      BY <3>1 DEF WorldOK
  <2> QED
    BY <2>1, <2>2
<1> QED
  BY <1>2, <1>3 DEF Identity

\* A server that asks for its version holds one from then on.
LEMMA BoundStays ==
  ASSUME ResearchAssumption, WorldOK, NEW p, Resolves(p)
  PROVE  loaded' = loaded /\ bound' \subseteq Versions /\ \A v, w \in bound' : v = w
<1>1. Served \in Versions
  BY VersionIsOne
<1> QED
  BY <1>1 DEF Resolves, WorldOK

\* An append leaves readable rows that were there or were appended, and no fewer.
LEMMA AppendedRows ==
  ASSUME NEW S, outcomes \in Seq(S), NEW rows \in Seq(S), rows # << >>
  PROVE  /\ Appended(rows) \in Seq(S)
         /\ Len(Appended(rows)) >= Len(outcomes)
BY DEF Appended

\* There are finitely many calls to judge, so there is an order to write them in.
LEMMA CallsAreFinite ==
  ASSUME ResearchAssumption, ledger \in Seq(Row), NEW r \in Resolvers,
         sawLedger[r] \in Nat, sawLedger[r] <= Len(ledger)
  PROVE  IsFiniteSet(Judged(r)) /\ Cardinality(Judged(r)) \in Nat
<1>1. Rows(r) \in Seq(Row) /\ Len(Rows(r)) = sawLedger[r]
  BY DEF Rows
<1>2. DOMAIN Rows(r) = 1..sawLedger[r]
  BY <1>1
<1>3. IsFiniteSet(DOMAIN Rows(r))
  BY <1>2, FS_Interval, 0 \in Int, 1 \in Int
<1>4. IsFiniteSet((DOMAIN Rows(r)) \X Names)
  BY <1>3, FS_Product DEF ResearchAssumption
<1>5. Judged(r) \subseteq (DOMAIN Rows(r)) \X Names
  BY DEF Judged, Pending
<1>6. IsFiniteSet(Judged(r))
  BY <1>4, <1>5, FS_Subset
<1> QED
  BY <1>6, FS_CardinalityType
-----------------------------------------------------------------------------
(* Steps *)

LEMMA InitInv ==
  ASSUME ResearchAssumption, Init
  PROVE  IInv
<1>1. WorldOK
  <2>1. now \in Sessions /\ Live \in Versions
    BY DEF ResearchAssumption, Init, Sessions, Live, Versions
  <2>2. [id |-> Live, status |-> "open"] \in Line
    BY <2>1 DEF Line
  <2> DEFINE line == [id |-> Live, status |-> "open"]
  <2> HIDE DEF line
  <2>3. <<line>> \in Seq(Line) /\ << >> \in Seq(Line)
    BY <2>2 DEF line
  <2>4. epochs \in Seq(Line)
    BY <2>3 DEF Init, line
  <2> QED
    <3>1. bars \in [Names -> [Sessions -> Bars]]
      BY DEF Init, Bars
    <3>2. ledger \in Seq(Row) /\ DOMAIN ledger = {}
      BY DEF Init
    <3>3. events \in 0..Events
      BY DEF Init, ResearchAssumption
    <3>4. /\ params \in Params /\ loaded \in Params /\ bound = {} /\ registration \subseteq Registration
          /\ revised \subseteq Sessions /\ strayed \in BOOLEAN
      BY DEF Init
    <3> QED
      BY <2>1, <2>4, <3>1, <3>2, <3>3, <3>4 DEF WorldOK
<1>2. RequestsOK
  <2>1. Len(ledger) = 0 /\ Len(outcomes) = 0
    BY DEF Init
  <2> QED
    <3>1. pc \in [Resolvers -> {"idle", "read", "write"}]
          /\ \A r \in Resolvers : pc[r] # "write"
      BY DEF Init
    <3>2. /\ sawLedger \in [Resolvers -> Nat] /\ sawOutcomes \in [Resolvers -> Nat]
          /\ \A r \in Resolvers : sawLedger[r] = 0 /\ sawOutcomes[r] = 0
      BY DEF Init
    <3>3. torn \in BOOLEAN
      BY DEF Init
    <3> QED
      BY <2>1, <3>1, <3>2, <3>3 DEF RequestsOK
<1>3. OutcomesOK
  <2>1. outcomes \in Seq({}) /\ buffer \in [Resolvers -> Seq({})]
    BY DEF Init
  <2> QED
    BY <2>1 DEF OutcomesOK
<1>4. RegistrationOK
  BY DEF Init, RegistrationOK
<1> QED
  BY <1>1, <1>2, <1>3, <1>4 DEF IInv

\* What does not touch the ledger or the rows keeps the rows as good as they were.
LEMMA RowsKept ==
  ASSUME OutcomesOK, UNCHANGED <<ledger, outcomes, buffer>>
  PROVE  OutcomesOK'
BY DEF OutcomesOK, Credited

\* What does not touch the requests keeps them where they were.
LEMMA RequestsKept ==
  ASSUME RequestsOK, UNCHANGED <<record, resolving>>, Len(ledger') >= Len(ledger),
         Len(ledger) \in Nat, Len(ledger') \in Nat
  PROVE  RequestsOK'
BY DEF RequestsOK, record, resolving

\* New sessions, late bars, other parameters, a server that starts or asks for its
\* version, and lines of the epoch file touch neither the ledger nor the registration.
LEMMA MarketStep ==
  ASSUME ResearchAssumption, IInv,
         \/ \E row \in [Names -> Observed] : NewSession(row)
         \/ \E n \in Names, s \in Sessions, bar \in Observed \ {"none"} : LateBar(n, s, bar)
         \/ \E p \in Params : Retune(p)
         \/ Restart
         \/ Ask
         \/ \E force \in BOOLEAN : OpenEpoch(force)
         \/ \E id \in Ids(epochs) : CloseEpoch(id)
  PROVE  IInv'
<1> USE DEF IInv
<1>0. UNCHANGED <<ledger, registration, strayed, outcomes, buffer>>
  BY DEF NewSession, LateBar, Retune, Restart, Ask, OpenEpoch, CloseEpoch, study, record, resolving, history,
         market
<1>1. WorldOK'
  <2>1. CASE \E row \in [Names -> Observed] : NewSession(row)
    <3>1. PICK row \in [Names -> Observed] : NewSession(row)
      BY <2>1
    <3>2. now' \in Sessions /\ now' = now + 1
      BY <3>1 DEF NewSession, WorldOK, Sessions, ResearchAssumption
    <3>3. bars' \in [Names -> [Sessions -> Bars]]
      <4>1. \A n \in Names : row[n] \in Bars
        BY DEF ResearchAssumption
      <4> QED
        BY <3>1, <4>1 DEF NewSession, WorldOK
    <3>4. \A i \in DOMAIN ledger : ledger[i].date <= now'
      <4>1. \A i \in DOMAIN ledger : ledger[i] \in Row
        BY DEF WorldOK
      <4>2. \A i \in DOMAIN ledger : ledger[i].date \in Sessions
        BY <4>1 DEF Row
      <4> QED
        BY <3>2, <4>2 DEF WorldOK, Sessions
    <3> QED
      BY <3>1, <3>2, <3>3, <3>4 DEF NewSession, WorldOK, study, server, history
  <2>2. CASE \E n \in Names, s \in Sessions, bar \in Observed \ {"none"} : LateBar(n, s, bar)
    BY <2>2 DEF LateBar, Event, WorldOK, study, server, ResearchAssumption
  <2>3. CASE \E p \in Params : Retune(p)
    BY <2>3 DEF Retune, Event, WorldOK, market, server, history, ResearchAssumption
  <2>4. CASE \E force \in BOOLEAN : OpenEpoch(force)
    <3>1. Live \in Versions
      BY VersionIsOne
    <3>2. [id |-> Live, status |-> "open"] \in Line
      BY <3>1 DEF Line
    <3>3. epochs' \in Seq(Line)
      BY <2>4, <3>2 DEF OpenEpoch, WorldOK
    <3> QED
      BY <2>4, <3>3 DEF OpenEpoch, Event, WorldOK, market, server, history, ResearchAssumption
  <2>5. CASE \E id \in Ids(epochs) : CloseEpoch(id)
    <3>1. PICK id \in Ids(epochs) : CloseEpoch(id)
      BY <2>5
    <3>2. id \in Versions
      <4>1. PICK i \in DOMAIN epochs : id = epochs[i].id
        BY DEF Ids
      <4>2. epochs[i] \in Line
        BY DEF WorldOK
      <4> QED
        BY <4>1, <4>2 DEF Line
    <3>3. [id |-> id, status |-> "closed"] \in Line
      BY <3>2 DEF Line
    <3>4. epochs' \in Seq(Line)
      BY <3>1, <3>3 DEF CloseEpoch, WorldOK
    <3> QED
      BY <3>1, <3>4 DEF CloseEpoch, Event, WorldOK, market, server, history, ResearchAssumption
  <2>6. CASE Restart
    BY <2>6 DEF Restart, Event, WorldOK, market, study, history, ResearchAssumption
  <2>7. CASE Ask
    <3>1. UNCHANGED <<now, bars, params, epochs, registration, ledger, events, revised, strayed>>
          /\ Resolves("server")
      BY <2>7 DEF Ask, market, study, history
    <3> QED
      BY <3>1, BoundStays DEF WorldOK
  <2> QED
    BY <2>1, <2>2, <2>3, <2>4, <2>5, <2>6, <2>7
<1>2. RequestsOK'
  <2>1. UNCHANGED <<record, resolving>>
    BY DEF NewSession, LateBar, Retune, Restart, Ask, OpenEpoch, CloseEpoch
  <2>2. Len(ledger) \in Nat
    BY DEF WorldOK
  <2> QED
    BY <1>0, <2>1, <2>2, RequestsKept
<1>3. OutcomesOK'
  BY <1>0, RowsKept
<1>4. RegistrationOK'
  <2>1. now' = now \/ now' = now + 1
    BY DEF NewSession, LateBar, Retune, Restart, Ask, OpenEpoch, CloseEpoch, market
  <2>2. \A reg \in registration : reg.start <= now'
    <3>1. \A reg \in registration : reg.start \in Int
      BY DEF WorldOK, Registration, Sessions
    <3>2. now \in Int
      BY DEF WorldOK, Sessions
    <3> QED
      BY <2>1, <3>1, <3>2 DEF RegistrationOK
  <2> QED
    BY <1>0, <2>2 DEF RegistrationOK
<1> QED
  BY <1>1, <1>2, <1>3, <1>4

\* A run only adds a row: what was read of the others still holds, and a row of
\* another version in a window marks it.
LEMMA RunStep ==
  ASSUME ResearchAssumption, IInv, NEW p \in Processes, NEW date \in Sessions,
         NEW calls \in SUBSET Names, NEW rec \in Recs \cup {NoRec}, NEW error \in BOOLEAN,
         Run(p, date, calls, rec, error)
  PROVE  IInv'
<1> USE DEF IInv
<1> DEFINE row == [date |-> date, calls |-> calls, rec |-> rec, version |-> Identity(p),
                   error |-> error]
<1>1. row \in Row
  <2>1. Identity(p) \in Versions
    BY VersionIsOne
  <2> QED
    BY <2>1 DEF Row
<1>2. ledger' = Append(ledger, row) /\ date \in 1..now
  BY DEF Run, RunDates
<1>3. /\ Len(ledger') = Len(ledger) + 1 /\ Len(ledger) \in Nat
      /\ \A i \in DOMAIN ledger : i \in DOMAIN ledger' /\ ledger'[i] = ledger[i]
      /\ Len(ledger) + 1 \in DOMAIN ledger' /\ ledger'[Len(ledger) + 1] = row
      /\ \A i \in DOMAIN ledger' : i \in DOMAIN ledger \/ i = Len(ledger) + 1
      /\ ledger' \in Seq(Row)
  BY <1>1, <1>2 DEF WorldOK
<1> HIDE DEF row
<1>4. WorldOK'
  <2>1. \A i \in DOMAIN ledger' : ledger'[i].date <= now
    BY <1>2, <1>3 DEF WorldOK, row
  <2>2. events' \in 0..Events
    BY DEF Run, Event, WorldOK, ResearchAssumption
  <2>3. strayed' \in BOOLEAN
    BY DEF Run
  <2>4. loaded' = loaded /\ bound' \subseteq Versions /\ \A v, w \in bound' : v = w
    BY BoundStays DEF Run
  <2> QED
    BY <1>3, <2>1, <2>2, <2>3, <2>4 DEF Run, WorldOK, market, study
<1>5. RequestsOK'
  <2>1. UNCHANGED <<record, resolving>>
    BY DEF Run
  <2> QED
    BY <1>3, <2>1, RequestsKept
<1>6. OutcomesOK'
  <2>1. PICK S : /\ \A o \in S : Credited(o)
                 /\ outcomes \in Seq(S) /\ buffer \in [Resolvers -> Seq(S)]
    BY DEF OutcomesOK
  <2>2. \A o \in S : Credited(o)'
    BY <1>3, <2>1 DEF Credited
  <2>3. UNCHANGED <<outcomes, buffer>>
    BY DEF Run, record, resolving
  <2> QED
    BY <2>1, <2>2, <2>3 DEF OutcomesOK
<1>7. RegistrationOK'
  <2>1. registration' = registration /\ now' = now
    BY DEF Run, study, market
  <2>2. ASSUME strayed', NEW reg \in registration
        PROVE  \E i \in DOMAIN ledger' :
                 /\ ~ledger'[i].error /\ ledger'[i].date >= reg.start
                 /\ ledger'[i].version # reg.version
    <3>1. CASE strayed
      BY <1>3, <3>1 DEF RegistrationOK
    <3>2. CASE ~error /\ Outside(p, date)
      <4>1. date >= reg.start /\ Identity(p) # reg.version
        BY <3>2 DEF Outside, RegistrationOK
      <4> QED
        BY <1>3, <3>2, <4>1 DEF row
    <3> QED
      BY <2>2, <3>1, <3>2 DEF Run
  <2> QED
    BY <2>1, <2>2 DEF RegistrationOK
<1> QED
  BY <1>4, <1>5, <1>6, <1>7
\* A registration is of the session it is made in; a window made over rows of other
\* versions has strayed already. Somebody's edit keeps the session and the version.
LEMMA RegistrationStep ==
  ASSUME ResearchAssumption, IInv,
         (\E p \in Processes, overwrite \in BOOLEAN : Register(p, overwrite)) \/ Edit
  PROVE  IInv'
<1> USE DEF IInv
<1>0. UNCHANGED <<market, ledger, params, epochs, revised, record, resolving>>
  BY DEF Register, Edit, history
<1>1. UNCHANGED <<now, bars, outcomes, buffer>>
  BY <1>0 DEF market, record, resolving
<1>2. RequestsOK'
  <2>1. Len(ledger) \in Nat
    BY DEF WorldOK
  <2> QED
    BY <1>0, <2>1, RequestsKept
<1>3. OutcomesOK'
  BY <1>0, <1>1, RowsKept
<1>4. CASE \E p \in Processes, overwrite \in BOOLEAN : Register(p, overwrite)
  <2>1. PICK p \in Processes, overwrite \in BOOLEAN : Register(p, overwrite)
    BY <1>4
  <2> DEFINE reg == [start |-> now, version |-> Identity(p), intact |-> TRUE]
  <2>2. registration' = {reg}
    BY <2>1 DEF Register
  <2>3. Identity(p) \in Versions
    BY VersionIsOne
  <2>4. reg \in Registration
    BY <2>3 DEF Registration, WorldOK
  <2>5. WorldOK'
    <3>1. events' \in 0..Events /\ strayed' \in BOOLEAN
      BY <2>1 DEF Register, Event, WorldOK, ResearchAssumption
    <3>2. loaded' = loaded /\ bound' \subseteq Versions /\ \A v, w \in bound' : v = w
      BY <2>1, BoundStays DEF Register
    <3> QED
      BY <1>0, <1>1, <2>2, <2>4, <3>1, <3>2 DEF WorldOK
  <2>6. RegistrationOK'
    <3>1. now <= now
      BY DEF WorldOK, Sessions
    <3> QED
      BY <1>0, <1>1, <2>1, <2>2, <2>3, <3>1 DEF Register, RegistrationOK
  <2> QED
    BY <1>2, <1>3, <2>5, <2>6
<1>5. CASE Edit
  <2>1. \A reg \in registration : reg \in Registration
    BY DEF WorldOK
  <2>2. \A new \in registration' : \E reg \in registration :
           new = [reg EXCEPT !.intact = FALSE]
    BY <1>5 DEF Edit
  <2>3. \A new \in registration' : \E reg \in registration :
           /\ new = [reg EXCEPT !.intact = FALSE]
           /\ new \in Registration
           /\ new.start = reg.start /\ new.version = reg.version
    BY <2>1, <2>2 DEF Registration
  <2>4. WorldOK'
    <3>1. events' \in 0..Events /\ strayed' = strayed
      BY <1>5 DEF Edit, Event, WorldOK, ResearchAssumption, history
    <3>2. registration' \subseteq Registration
      BY <2>3
    <3> QED
      BY <1>0, <1>1, <1>5, <3>1, <3>2 DEF Edit, WorldOK, server
  <2>5. RegistrationOK'
    <3>1. strayed' = strayed /\ ledger' = ledger
      BY <1>0, <1>5 DEF Edit, history
    <3>2. \A new, other \in registration' : new = other
      <4> TAKE new, other \in registration'
      <4>1. PICK reg \in registration : new = [reg EXCEPT !.intact = FALSE]
        BY <2>2
      <4>2. PICK second \in registration : other = [second EXCEPT !.intact = FALSE]
        BY <2>2
      <4>3. reg = second
        BY DEF RegistrationOK
      <4> QED
        BY <4>1, <4>2, <4>3
    <3> QED
      BY <1>1, <2>3, <3>1, <3>2 DEF RegistrationOK
  <2> QED
    BY <1>2, <1>3, <2>4, <2>5
<1> QED
  BY <1>4, <1>5

\* What a request resolves it credits as the row it read says, and what it appends it
\* has credited so.
LEMMA RequestStep ==
  ASSUME ResearchAssumption, IInv, NEW r \in Resolvers, Request(r)
  PROVE  IInv'
<1> USE DEF IInv
<1>1. UNCHANGED <<market, study, server, history, ledger>>
  BY DEF Request, ReadFiles, Resolve, Write, Die
<1>2. UNCHANGED <<now, bars, params, loaded, bound, epochs, registration, revised, strayed>>
  BY <1>1 DEF market, study, server, history
<1>3. WorldOK'
  <2>1. events' \in 0..Events
    BY DEF Request, ReadFiles, Resolve, Write, Die, Event, WorldOK, ResearchAssumption
  <2> QED
    BY <1>1, <1>2, <2>1 DEF WorldOK
<1>4. RegistrationOK'
  BY <1>1, <1>2 DEF RegistrationOK
<1>5. PICK S : /\ \A o \in S : Credited(o)
               /\ outcomes \in Seq(S) /\ buffer \in [Resolvers -> Seq(S)]
  BY DEF OutcomesOK
<1>6. \A o : Credited(o)' <=> Credited(o)
  BY <1>1 DEF Credited
<1>7. CASE ReadFiles(r)
  <2>1. RequestsOK'
    <3>1. Len(ledger) \in Nat /\ Len(outcomes) \in Nat
      BY <1>5 DEF WorldOK
    <3>2. UNCHANGED <<outcomes, torn, buffer>>
      BY <1>7 DEF ReadFiles, record
    <3> QED
      BY <1>1, <1>7, <3>1, <3>2 DEF ReadFiles, RequestsOK
  <2>2. OutcomesOK'
    BY <1>1, <1>7, RowsKept DEF ReadFiles, record
  <2> QED
    BY <1>3, <1>4, <2>1, <2>2
<1>8. CASE Resolve(r)
  <2>1. UNCHANGED <<outcomes, torn>>
    BY <1>8 DEF Resolve, record
  <2>2. CASE Judged(r) = {}
    <3>1. Finished(r)
      BY <1>8, <2>2 DEF Resolve
    <3>2. RequestsOK'
      <4>1. Len(ledger) \in Nat /\ Len(outcomes) \in Nat
        BY <1>5 DEF WorldOK
      <4> QED
        BY <1>1, <2>1, <3>1, <4>1 DEF Finished, RequestsOK
    <3>3. OutcomesOK'
      <4>1. buffer' \in [Resolvers -> Seq(S)]
        BY <1>5, <3>1 DEF Finished
      <4> QED
        BY <1>5, <1>6, <2>1, <4>1 DEF OutcomesOK
    <3> QED
      BY <1>3, <1>4, <3>2, <3>3
  <2>3. CASE Judged(r) # {}
    <3>1. PICK q \in InOrder(Judged(r)) :
            buffer' = [buffer EXCEPT ![r] = [k \in DOMAIN q |-> Outcome(Rows(r), q[k])]]
      BY <1>8, <2>3 DEF Resolve
    <3>2. /\ pc' = [pc EXCEPT ![r] = "write"]
          /\ UNCHANGED <<sawLedger, sawOutcomes>>
      BY <1>8, <2>3 DEF Resolve
    <3>3. Cardinality(Judged(r)) \in Nat /\ IsFiniteSet(Judged(r))
      BY CallsAreFinite DEF WorldOK, RequestsOK
    <3>4. /\ q \in [1..Cardinality(Judged(r)) -> Judged(r)]
          /\ Cardinality(Judged(r)) # 0
      BY <2>3, <3>3, FS_EmptySet DEF InOrder
    <3> DEFINE rows == [k \in DOMAIN q |-> Outcome(Rows(r), q[k])]
               T == S \cup {Outcome(Rows(r), c) : c \in Judged(r)}
    <3>5. rows \in Seq(T) /\ rows # << >>
      <4>1. \A k \in 1..Cardinality(Judged(r)) : Outcome(Rows(r), q[k]) \in T
        BY <3>4
      <4>2. rows \in [1..Cardinality(Judged(r)) -> T]
        BY <3>4, <4>1
      <4> QED
        BY <3>3, <3>4, <4>2
    <3>6. \A c \in Judged(r) : Credited(Outcome(Rows(r), c))
      <4> TAKE c \in Judged(r)
      <4>1. Rows(r) \in Seq(Row) /\ Len(Rows(r)) = sawLedger[r]
            /\ \A i \in 1..sawLedger[r] : Rows(r)[i] = ledger[i] /\ i \in DOMAIN ledger
        BY DEF Rows, WorldOK, RequestsOK
      <4>2. c[1] \in DOMAIN Rows(r)
        BY DEF Judged, Pending
      <4>3. c[1] \in DOMAIN ledger /\ Rows(r)[c[1]] = ledger[c[1]]
        BY <4>1, <4>2
      <4>4. Outcome(Rows(r), c).run = c[1]
            /\ Outcome(Rows(r), c).epoch \in {ledger[c[1]].version, NoEpoch}
        BY <4>3 DEF Outcome, EpochForTrade
      <4> QED
        BY <4>3, <4>4 DEF Credited
    <3> HIDE DEF rows
    <3>7. OutcomesOK'
      <4>1. outcomes \in Seq(T) /\ \A s \in Resolvers : buffer[s] \in Seq(T)
        <5>1. Seq(S) \subseteq Seq(T)
          OBVIOUS
        <5> QED
          BY <1>5, <5>1
      <4>2. \A o \in T : Credited(o)
        BY <1>5, <3>6
      <4> HIDE DEF T
      <4>3. buffer' \in [Resolvers -> Seq(T)]
        BY <1>5, <3>1, <3>5, <4>1 DEF rows
      <4> QED
        BY <1>6, <2>1, <4>1, <4>2, <4>3 DEF OutcomesOK
    <3>8. RequestsOK'
      BY <1>1, <1>5, <2>1, <3>1, <3>2, <3>5 DEF RequestsOK, rows
    <3> QED
      BY <1>3, <1>4, <3>7, <3>8
  <2> QED
    BY <2>2, <2>3
<1>9. CASE Write(r)
  <2>1. buffer[r] \in Seq(S) /\ buffer[r] # << >>
    BY <1>5, <1>9 DEF Write, RequestsOK
  <2>2. outcomes' \in Seq(S) /\ Len(outcomes') >= Len(outcomes)
    BY <1>5, <1>9, <2>1, AppendedRows DEF Write
  <2>3. Finished(r) /\ torn' \in BOOLEAN
    BY <1>9 DEF Write
  <2>4. RequestsOK' /\ OutcomesOK'
    <3>1. RequestsOK'
      <4>1. Len(ledger) \in Nat /\ Len(outcomes) \in Nat /\ Len(outcomes') \in Nat
        BY <1>5, <2>2 DEF WorldOK
      <4> QED
        BY <1>1, <2>2, <2>3, <4>1 DEF Finished, RequestsOK
    <3>2. buffer' \in [Resolvers -> Seq(S)]
      BY <1>5, <2>3 DEF Finished
    <3> QED
      BY <1>5, <1>6, <2>2, <3>1, <3>2 DEF OutcomesOK
  <2> QED
    BY <1>3, <1>4, <2>4
<1>10. CASE Die(r)
  <2>1. Finished(r) /\ torn' \in BOOLEAN
    BY <1>10 DEF Die, RequestsOK, record
  <2>2. outcomes' \in Seq(S) /\ Len(outcomes') >= Len(outcomes)
    <3>1. CASE UNCHANGED record
      BY <1>5, <3>1 DEF record
    <3>2. ASSUME NEW k \in 0..(Len(buffer[r]) - 1), pc[r] = "write",
                 outcomes' = IF k = 0 THEN outcomes
                             ELSE Appended(SubSeq(buffer[r], 1, k))
          PROVE  outcomes' \in Seq(S) /\ Len(outcomes') >= Len(outcomes)
      <4>1. CASE k = 0
        BY <1>5, <3>2, <4>1
      <4>2. CASE k # 0
        <5>1. buffer[r] \in Seq(S) /\ k \in 1..Len(buffer[r])
          BY <1>5, <4>2
        <5>2. SubSeq(buffer[r], 1, k) \in Seq(S) /\ SubSeq(buffer[r], 1, k) # << >>
          BY <5>1
        <5> QED
          BY <1>5, <3>2, <4>2, <5>2, AppendedRows
      <4> QED
        BY <4>1, <4>2
    <3> QED
      BY <1>10, <3>1, <3>2 DEF Die
  <2>3. RequestsOK'
    <3>1. Len(ledger) \in Nat /\ Len(outcomes) \in Nat /\ Len(outcomes') \in Nat
      BY <1>5, <2>2 DEF WorldOK
    <3> QED
      BY <1>1, <2>1, <2>2, <3>1 DEF Finished, RequestsOK
  <2>4. buffer' \in [Resolvers -> Seq(S)]
    BY <1>5, <2>1 DEF Finished
  <2> QED
    BY <1>3, <1>4, <1>5, <1>6, <2>2, <2>3, <2>4 DEF OutcomesOK
<1> QED
  BY <1>7, <1>8, <1>9, <1>10 DEF Request
-----------------------------------------------------------------------------
(* Theorems *)

LEMMA StutterStep ==
  ASSUME IInv, UNCHANGED vars
  PROVE  IInv'
<1>1. UNCHANGED <<now, bars, params, loaded, bound, ledger, epochs, registration, outcomes, torn, pc, sawLedger,
                  sawOutcomes, buffer, events, revised, strayed>>
  BY DEF vars, market, study, server, record, resolving, history
<1>2. WorldOK' /\ RequestsOK' /\ RegistrationOK'
  BY <1>1 DEF IInv, WorldOK, RequestsOK, RegistrationOK
<1>3. OutcomesOK'
  BY <1>1, RowsKept DEF IInv
<1> QED
  BY <1>2, <1>3 DEF IInv

LEMMA NextStep ==
  ASSUME ResearchAssumption, IInv, Next
  PROVE  IInv'
<1>1. CASE Engine
  BY <1>1, MarketStep, RunStep DEF Engine
<1>2. CASE Study
  BY <1>2, MarketStep, RegistrationStep DEF Study
<1>3. CASE \E r \in Resolvers : Request(r)
  BY <1>3, RequestStep
<1> QED
  BY <1>1, <1>2, <1>3 DEF Next

LEMMA Inductive == Spec => []IInv
<1>1. Init => IInv
  BY InitInv, ResearchAssumption
<1>2. IInv /\ [Next]_vars => IInv'
  BY NextStep, StutterStep, ResearchAssumption
<1> QED
  BY <1>1, <1>2, PTL DEF Spec

\* Every variable is what the files and the requests can hold.
THEOREM TypeCorrect == Spec => []TypeOK
<1>1. IInv => TypeOK
  <2> SUFFICES ASSUME IInv PROVE TypeOK
    OBVIOUS
  <2> USE DEF IInv
  <2>1. \A i \in DOMAIN ledger : ledger[i].date \in 1..now /\ ledger[i].calls \subseteq Names
    <3>1. \A i \in DOMAIN ledger : ledger[i] \in Row
      BY DEF WorldOK
    <3> QED
      BY <3>1 DEF Row, WorldOK, Sessions
  <2>2. Ids(epochs) \subseteq Versions
    <3>1. \A i \in DOMAIN epochs : epochs[i] \in Line
      BY DEF WorldOK
    <3> QED
      BY <3>1 DEF Ids, Line
  <2>3. \A reg \in registration : reg.start \in 0..now /\ reg.version \in Versions
    <3>1. \A reg \in registration : reg \in Registration
      BY DEF WorldOK
    <3> QED
      BY <3>1 DEF Registration, RegistrationOK, WorldOK, Sessions
  <2>4. \A k \in DOMAIN outcomes : outcomes[k].run \in DOMAIN ledger
    BY DEF OutcomesOK, Credited
  <2> QED
    BY <2>1, <2>2, <2>3, <2>4 DEF TypeOK, WorldOK, RequestsOK, Sessions
<1> QED
  BY <1>1, Inductive, PTL

\* No trade is credited to an epoch of another configuration than the one that decided
\* it, whenever it is resolved, by however many requests, and whatever dies or is torn.
THEOREM EpochsAreCredited == Spec => []EpochMatches
<1>1. IInv => EpochMatches
  <2> SUFFICES ASSUME IInv PROVE EpochMatches
    OBVIOUS
  <2>1. PICK S : /\ \A o \in S : Credited(o)
                 /\ outcomes \in Seq(S)
    BY DEF IInv, OutcomesOK
  <2>2. \A k \in DOMAIN outcomes : outcomes[k] \in S
    BY <2>1
  <2> QED
    BY <2>1, <2>2 DEF EpochMatches, Credited
<1> QED
  BY <1>1, Inductive, PTL

\* A window in which another configuration ran stays void to every process, however the
\* parameters, the epochs and the file change and the server starts anew afterwards.
THEOREM StrayedIsVoid == Spec => []StrayedStaysBroken
<1>1. IInv => StrayedStaysBroken
  <2> SUFFICES ASSUME IInv, strayed, NEW reg \in registration
               PROVE  ~OneVersion(reg, ledger)
    BY DEF StrayedStaysBroken, Broken
  <2>1. PICK i \in DOMAIN ledger : /\ ~ledger[i].error /\ ledger[i].date >= reg.start
                                  /\ ledger[i].version # reg.version
    BY DEF IInv, RegistrationOK
  <2>2. ledger[i].version \in VersionsRun(reg, ledger)
    BY <2>1 DEF VersionsRun, Window
  <2> QED
    BY <2>1, <2>2 DEF OneVersion
<1> QED
  BY <1>1, Inductive, PTL
=============================================================================
