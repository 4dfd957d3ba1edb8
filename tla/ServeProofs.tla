---------------------------- MODULE ServeProofs ----------------------------
(***************************************************************************)
(* What holds of the serving process for any servers, pipeline, records    *)
(* and clients, through any number of crashes and starts, proved from      *)
(* Serve, ServeHistory and the steps of the refresher in RefresherProofs.  *)
(***************************************************************************)
EXTENDS ServeHistory, RefresherProofs, SequenceTheorems

----------------------------------------------------------------------------
(* Types and phases *)

\* Before the refresher is started, and where the deferred calls run.
Starting == {"down", "seedGet", "seedSet", "start"}
Closing == {"close", "exit"}

Requests == {Idle} \cup {Asked(id) : id \in Servers}
            \cup {Answered(id, row) : id \in Servers, row \in Store!Row \cup {Nothing}}

\* The inductive invariant: types, and what each phase of the main goroutine
\* says of the refresher and of the context.
ServeInv ==
    /\ TypeOK
    /\ main \in Starting \cup {"listen", "serving", "return"} \cup Closing
    /\ seed \in Nat \ {0}
    /\ main = "seedSet" => seed <= Len(ServerIDs)
    /\ request \in [Clients -> Requests]
    /\ main \in Starting => pc = "none" /\ ~ctxDone
    /\ main \in Closing => ctxDone

\* The variables that are the process's own.
processVars == <<main, seed, shutdown, request, boots>>

\* A step of ServeNext, as the refresher and the tables see it: one of theirs,
\* the end of the process, a start of it, a record seeded, the deferred calls, or
\* nothing of it.
LEMMA ServeStep ==
    ASSUME [ServeNext]_serveVars
    PROVE  \/ Goroutine /\ pc # "none" /\ UNCHANGED processVars
           \/ StartGoroutines \/ ServeWorld \/ Gone \/ Boot \/ SeedSet
           \/ DeferredCancel \/ DeferredClose
           \/ UNCHANGED vars
  BY DEF ServeNext, serveVars, processVars, Crash, MainGoroutine, Refresh, ShutDown,
     Exit, SeedGet, SeedDone, Listen, ServeReturns, Accept, Handler, Query, Respond

\* The end of the process leaves the tables, the clock and nothing else.
LEMMA GoneType ==
    ASSUME TypeOK, Gone
    PROVE  TypeOK'
  <1>1. << >> \in Seq(Result) /\ 0 \in 0..MaxTime /\ 0 \in 0..MaxCycles
    BY RefresherAssumption
  <1>2. BuildTypeOK'
    BY <1>1, NoFactsType DEF Gone, BuildTypeOK
  <1>3. Store!StoreTypeOK'
    BY DEF Gone, TypeOK, Store!StoreTypeOK
  <1> QED BY <1>1, <1>2, <1>3 DEF Gone, TypeOK, BuildTypeOK

\* Every step of the process keeps the types of the refresher and its tables.
LEMMA ServeTypeStep ==
    ASSUME TypeOK, [ServeNext]_serveVars
    PROVE  TypeOK'
  <1>1. CASE Goroutine
    BY <1>1, TypeStep DEF Next
  <1>2. CASE StartGoroutines
    BY <1>2, TypeStep DEF StartGoroutines, Next, Goroutine
  <1>3. CASE ServeWorld
    BY <1>3, TypeStep DEF ServeWorld, Next, World
  <1>4. CASE Gone
    BY <1>4, GoneType
  <1>5. CASE Boot \/ DeferredCancel \/ DeferredClose
    BY <1>5 DEF Boot, DeferredCancel, DeferredClose, goroutineVars, TypeOK,
       Store!StoreTypeOK, Store!OpenStore, Store!CloseStore
  <1>6. CASE SeedSet
    <2>1. Store!StoreTypeOK'
      BY <1>6, ServeAssumption
      DEF SeedSet, TypeOK, Store!StoreTypeOK, Store!SetProvisioning
    <2> QED BY <1>6, <2>1 DEF SeedSet, goroutineVars, TypeOK
  <1>7. CASE UNCHANGED vars
    BY <1>7, TypeStep
  <1> QED BY <1>1, <1>2, <1>3, <1>4, <1>5, <1>6, <1>7, ServeStep

\* Requests are asked and answered about servers of the store.
LEMMA RequestTypeStep ==
    ASSUME TypeOK, request \in [Clients -> Requests], [ServeNext]_serveVars
    PROVE  request' \in [Clients -> Requests]
  <1>1. ASSUME NEW c \in Clients, Accept(c)
        PROVE  request' \in [Clients -> Requests]
    BY <1>1 DEF Accept, Requests
  <1>2. ASSUME NEW c \in Clients, Query(c)
        PROVE  request' \in [Clients -> Requests]
    <2>1. PICK id \in Servers : request[c] = Asked(id)
      BY <1>2 DEF Query, Requests, Idle, Asked, Answered
    <2>2. request[c].server = id
      BY <2>1 DEF Asked
    <2>3. \A i \in Store!GetLatestFacts(id) : rows[i] \in Store!Row
      BY DEF Store!GetLatestFacts, Store!RowsOf, TypeOK, Store!StoreTypeOK
    <2>4. \E row \in Store!Row \cup {Nothing} :
              request' = [request EXCEPT ![c] = Answered(id, row)]
      BY <1>2, <2>2, <2>3 DEF Query
    <2> QED BY <2>4 DEF Requests
  <1>3. ASSUME NEW c \in Clients, Respond(c)
        PROVE  request' \in [Clients -> Requests]
    BY <1>3 DEF Respond, Requests
  <1>4. CASE Gone
    BY <1>4 DEF Gone, Requests
  <1>5. CASE UNCHANGED request
    BY <1>5
  <1>6. \/ \E c \in Clients : Accept(c) \/ Query(c) \/ Respond(c)
        \/ Gone \/ UNCHANGED request
    BY DEF ServeNext, serveVars, Crash, Boot, MainGoroutine, Refresh, ShutDown, ServeWorld,
       Exit, SeedGet, SeedSet, SeedDone, StartGoroutines, Listen, ServeReturns,
       DeferredCancel, DeferredClose, Handler
  <1> QED BY <1>1, <1>2, <1>3, <1>4, <1>5, <1>6

\* The phases of the main goroutine bound what the refresher and the context may be.
LEMMA PhaseStep ==
    ASSUME ServeInv, [ServeNext]_serveVars
    PROVE  /\ main' \in Starting \cup {"listen", "serving", "return"} \cup Closing
           /\ seed' \in Nat \ {0}
           /\ main' = "seedSet" => seed' <= Len(ServerIDs)
           /\ main' \in Starting => pc' = "none" /\ ~ctxDone'
           /\ main' \in Closing => ctxDone'
  <1> USE DEF ServeInv, Starting, Closing
  <1>1. CASE Goroutine /\ pc # "none" /\ UNCHANGED processVars
    <2>1. ctxDone' = ctxDone
      BY <1>1 DEF Goroutine, Start, CallCollector, FinishBuild, Save, SaveFails, StopOnDone,
         RefreshOnTick
    <2> QED BY <1>1, <2>1 DEF processVars
  <1>2. CASE StartGoroutines
    BY <1>2 DEF StartGoroutines, Main
  <1>3. CASE ServeWorld
    BY <1>3 DEF ServeWorld, Cancel, TickerFires, Clock, ControlPlane, goroutineVars
  <1>4. CASE Gone
    BY <1>4 DEF Gone
  <1>5. CASE Boot \/ DeferredCancel \/ DeferredClose
    BY <1>5 DEF Boot, DeferredCancel, DeferredClose, Main, goroutineVars, Store!OpenStore,
       Store!CloseStore
  <1>6. CASE SeedSet
    BY <1>6 DEF SeedSet, Main, goroutineVars
  <1>7. CASE SeedGet \/ SeedDone \/ Listen \/ ServeReturns
    BY <1>7 DEF SeedGet, SeedDone, Listen, ServeReturns, Main, vars
  <1>8. CASE UNCHANGED <<vars, main, seed>>
    BY <1>8 DEF vars
  <1>9. \/ Goroutine /\ pc # "none" /\ UNCHANGED processVars
        \/ StartGoroutines \/ ServeWorld \/ Gone \/ Boot \/ DeferredCancel \/ DeferredClose
        \/ SeedSet \/ SeedGet \/ SeedDone \/ Listen \/ ServeReturns
        \/ UNCHANGED <<vars, main, seed>>
    BY DEF ServeNext, serveVars, processVars, Crash, MainGoroutine, Refresh, ShutDown, Exit,
       Accept, Handler, Query, Respond
  <1> QED BY <1>1, <1>2, <1>3, <1>4, <1>5, <1>6, <1>7, <1>8, <1>9

\* Types and phases, through every crash and start.
THEOREM ServeInvariant == ServeSpec => []ServeInv
  <1>1. ServeInit => ServeInv
    <2> SUFFICES ASSUME ServeInit PROVE ServeInv
      OBVIOUS
    <2>1. << >> \in Seq(Result) /\ << >> \in Seq(Store!Row)
      OBVIOUS
    <2>2. 1 \in 1..MaxTime /\ 0 \in 0..MaxTime /\ 0 \in 0..MaxCycles
      BY RefresherAssumption
    <2>3. Store!StoreTypeOK
      BY <2>1, <2>2 DEF ServeInit, Store!StoreInit, Store!StoreTypeOK
    <2>4. BuildTypeOK
      BY <2>1, NoFactsType DEF ServeInit, NotStarted, BuildTypeOK
    <2>5. TypeOK
      BY <2>2, <2>3, <2>4, TypeParts DEF ServeInit, NotStarted
    <2> QED BY <2>5 DEF ServeInit, NotStarted, ServeInv, Starting, Closing, Requests
  <1>2. ServeInv /\ [ServeNext]_serveVars => ServeInv'
    BY ServeTypeStep, RequestTypeStep, PhaseStep DEF ServeInv
  <1> QED BY <1>1, <1>2, PTL DEF ServeSpec

----------------------------------------------------------------------------
(* The rows outlive the process *)

\* The one step that changes the rows, and when it may be taken.
LEMMA ServeRowsStep ==
    ASSUME ServeInv, [ServeNext]_serveVars
    PROVE  \/ UNCHANGED rows
           \/ /\ Save /\ UNCHANGED processVars
              /\ db = "open" /\ ~ctxDone /\ main \in {"listen", "serving", "return"}
  <1>1. CASE Goroutine /\ pc # "none" /\ UNCHANGED processVars
    <2>1. CASE Save
      BY <1>1, <2>1 DEF Save, Store!CanSave, ServeInv, Starting, Closing
    <2>2. CASE ~Save
      BY <1>1, <2>2 DEF Goroutine, Start, CallCollector, FinishBuild, SaveFails, StopOnDone,
         RefreshOnTick
    <2> QED BY <2>1, <2>2
  <1>2. CASE ServeWorld
    BY <1>2 DEF ServeWorld, Cancel, TickerFires, Clock, ControlPlane, Store!SetProvisioning
  <1>3. CASE StartGoroutines \/ Gone \/ Boot \/ SeedSet \/ DeferredCancel \/ DeferredClose
    BY <1>3 DEF StartGoroutines, Start, Gone, Boot, SeedSet, DeferredCancel, DeferredClose,
       Store!OpenStore, Store!CloseStore, Store!SetProvisioning
  <1>4. CASE UNCHANGED vars
    BY <1>4 DEF vars
  <1> QED BY <1>1, <1>2, <1>3, <1>4, ServeStep

\* No crash, start, seeding, shutdown or collection ever loses or alters a row,
\* and rows are added only while the database is open and the context is not
\* cancelled (store.go:88-102, main.go:178-229).
THEOREM RowsOutlive == ServeSpec => RowsOutliveProcess
  <1>1. ServeInv /\ [ServeNext]_serveVars =>
          /\ Len(rows') >= Len(rows)
          /\ SubSeq(rows', 1, Len(rows)) = rows
          /\ rows' # rows => db = "open" /\ ~ctxDone /\ main \in {"listen", "serving", "return"}
    <2> SUFFICES ASSUME ServeInv, [ServeNext]_serveVars
                 PROVE  /\ Len(rows') >= Len(rows)
                        /\ SubSeq(rows', 1, Len(rows)) = rows
                        /\ rows' # rows => /\ db = "open" /\ ~ctxDone
                                           /\ main \in {"listen", "serving", "return"}
      OBVIOUS
    <2>1. rows \in Seq(Store!Row)
      BY DEF ServeInv, TypeOK, Store!StoreTypeOK
    <2>2. CASE UNCHANGED rows
      BY <2>1, <2>2, SubSeqFull
    <2>3. CASE Save /\ db = "open" /\ ~ctxDone /\ main \in {"listen", "serving", "return"}
      <3>1. PICK row : rows' = Append(rows, row)
        BY <2>3, SaveAppends DEF ServeInv
      <3>2. Len(rows') >= Len(rows) /\ SubSeq(rows', 1, Len(rows)) = rows
        BY <2>1, <3>1
      <3> QED BY <2>3, <3>2
    <2> QED BY <2>2, <2>3, ServeRowsStep
  <1> QED BY <1>1, ServeInvariant, PTL DEF RowsOutliveProcess, ServeSpec

----------------------------------------------------------------------------
(* The process implements the facts service *)

\* The service's current observation of a server, see the instance Service.
Served(id) == LET found == Store!GetLatestFacts(id)
              IN IF found = {} THEN Nothing ELSE rows[CHOOSE i \in found : TRUE]

\* A row that GetLatestFacts finds is the only one, and the one served.
OneServed ==
    \A id \in Servers : \A i \in Store!GetLatestFacts(id) :
        Store!GetLatestFacts(id) = {i} /\ Served(id) = rows[i]

\* The tables' types are enough for that: times and row ids are ordered.
LEMMA LatestIsServed == Store!StoreTypeOK => OneServed
  <1> SUFFICES ASSUME Store!StoreTypeOK, NEW id \in Servers, NEW i \in Store!GetLatestFacts(id)
               PROVE  Store!GetLatestFacts(id) = {i} /\ Served(id) = rows[i]
    BY DEF OneServed
  <1>1. ASSUME NEW j \in Store!GetLatestFacts(id)
        PROVE  i = j
    <2>1. \A r \in Store!Row : r.at \in Nat
      BY RefresherAssumption DEF Store!Row
    <2>2. /\ i \in 1..Len(rows) /\ j \in 1..Len(rows)
          /\ rows[i].at \in Nat /\ rows[j].at \in Nat
      BY <2>1 DEF Store!GetLatestFacts, Store!RowsOf, Store!StoreTypeOK
    <2>3. /\ rows[j].at < rows[i].at \/ (rows[j].at = rows[i].at /\ j <= i)
          /\ rows[i].at < rows[j].at \/ (rows[i].at = rows[j].at /\ i <= j)
      BY DEF Store!GetLatestFacts
    <2> QED BY <2>2, <2>3
  <1>2. Store!GetLatestFacts(id) = {i}
    BY <1>1
  <1>3. (CHOOSE j \in Store!GetLatestFacts(id) : TRUE) = i
    BY <1>2
  <1> QED BY <1>2, <1>3 DEF Served

\* What is served without a row, and of rows that stay.
LEMMA NothingServed ==
    ASSUME NEW id, Store!GetLatestFacts(id) = {}
    PROVE  Served(id) = Nothing
  BY DEF Served

\* A save is an observation of its server, or changes nothing that is served.
LEMMA SaveServed ==
    ASSUME TypeOK, Save, NEW id, id = ServerIDs[srv],
           NEW row, row = [server |-> id, at |-> at, data |-> Data]
    PROVE  /\ \A s \in Servers \ {id} : Served(s)' = Served(s)
           /\ \/ Served(id)' = Served(id)
              \/ /\ Served(id)' = row
                 /\ Served(id) = Nothing \/ row.at >= Served(id).at
  <1> DEFINE n == Len(rows) + 1
  <1>1. id \in Servers
    BY ServerIDsType DEF TypeOK, Save
  <1>2. Store!StoreTypeOK /\ Store!StoreTypeOK'
    BY SaveType DEF TypeOK
  <1>3. OneServed /\ OneServed'
    BY <1>2, LatestIsServed, PTL
  <1>4. rows' = Append(rows, row) /\ row.server = id /\ row.at = at /\ at \in Nat
    BY SaveAppends, RefresherAssumption DEF TypeOK
  <1>5. /\ DOMAIN rows = 1..Len(rows) /\ Len(rows) \in Nat
        /\ DOMAIN rows' = 1..n
        /\ \A i \in DOMAIN rows : rows'[i] = rows[i]
        /\ rows'[n] = row
    BY <1>2, <1>4 DEF Store!StoreTypeOK
  <1>6. /\ n \in DOMAIN rows' /\ n \notin DOMAIN rows
        /\ \A i \in DOMAIN rows' : i \in DOMAIN rows \/ i = n
        /\ \A i \in DOMAIN rows : i \in DOMAIN rows' /\ i <= n /\ ~(n <= i)
        /\ n <= n
    BY <1>5
  <1>7. \A i \in DOMAIN rows' : rows'[i].at \in Nat
    <2>1. \A r \in Store!Row : r.at \in Nat
      BY RefresherAssumption DEF Store!Row
    <2> QED BY <1>2, <2>1 DEF Store!StoreTypeOK
  <1> HIDE DEF n
  \* Another server's rows are untouched.
  <1>8. ASSUME NEW s \in Servers, s # id
        PROVE  Served(s)' = Served(s)
    <2>1. Store!RowsOf(s)' = Store!RowsOf(s)
      BY <1>4, <1>5, <1>6, <1>8 DEF Store!RowsOf
    <2>2. \A j \in Store!RowsOf(s) : rows'[j] = rows[j]
      BY <1>5 DEF Store!RowsOf
    <2>3. Store!GetLatestFacts(s)' = Store!GetLatestFacts(s)
      BY <2>1, <2>2 DEF Store!GetLatestFacts
    <2>4. CASE Store!GetLatestFacts(s) = {}
      BY <2>3, <2>4 DEF Served
    <2>5. ASSUME NEW i \in Store!GetLatestFacts(s)
          PROVE  Served(s)' = Served(s)
      <3>1. Served(s) = rows[i] /\ Served(s)' = rows'[i]
        BY <1>3, <2>3 DEF OneServed
      <3>2. rows'[i] = rows[i]
        BY <2>2 DEF Store!GetLatestFacts
      <3> QED BY <3>1, <3>2
    <2> QED BY <2>4, <2>5
  \* The new row is compared with the one served before.
  <1>9. Store!RowsOf(id)' = Store!RowsOf(id) \cup {n}
    BY <1>4, <1>5, <1>6 DEF Store!RowsOf
  <1>10. ASSUME n \in Store!GetLatestFacts(id)'
         PROVE  Served(id)' = row /\ (Served(id) = Nothing \/ row.at >= Served(id).at)
    <2>1. Served(id)' = row
      BY <1>1, <1>3, <1>5, <1>10 DEF OneServed
    <2>2. ASSUME NEW i \in Store!GetLatestFacts(id)
          PROVE  row.at >= Served(id).at
      <3>1. i \in Store!RowsOf(id)' /\ i \in DOMAIN rows /\ i \in DOMAIN rows'
        BY <1>6, <1>9 DEF Store!GetLatestFacts, Store!RowsOf
      <3>2. rows'[i].at < rows'[n].at \/ rows'[i].at = rows'[n].at
        BY <1>10, <3>1 DEF Store!GetLatestFacts
      <3>3. Served(id) = rows[i] /\ rows'[i] = rows[i] /\ rows'[n] = row
        BY <1>1, <1>3, <1>5, <3>1 DEF OneServed
      <3> QED BY <1>6, <1>7, <3>1, <3>2, <3>3
    <2>3. Store!GetLatestFacts(id) = {} => Served(id) = Nothing
      BY NothingServed
    <2>4. Served(id) = Nothing \/ row.at >= Served(id).at
      BY <2>2, <2>3, Zenon
    <2> QED BY <2>1, <2>4
  <1>11. ASSUME n \notin Store!GetLatestFacts(id)'
         PROVE  Served(id)' = Served(id)
    \* A row of the same server is later than the new one.
    <2>1. PICK k \in Store!RowsOf(id) : rows'[n].at < rows[k].at
      <3>1. n \in Store!RowsOf(id)'
        BY <1>9
      <3>2. PICK k \in Store!RowsOf(id)' :
               ~(rows'[k].at < rows'[n].at \/ (rows'[k].at = rows'[n].at /\ k <= n))
        BY <1>11, <3>1 DEF Store!GetLatestFacts
      <3>3. k \in DOMAIN rows' /\ k # n
        BY <1>6, <3>2 DEF Store!RowsOf
      <3>4. k \in Store!RowsOf(id) /\ k \in DOMAIN rows /\ rows'[k] = rows[k]
        BY <1>5, <1>6, <1>9, <3>2, <3>3
      <3>5. rows'[n].at < rows'[k].at
        BY <1>6, <1>7, <3>2, <3>3, <3>4
      <3> QED BY <3>4, <3>5
    <2>2. k \in DOMAIN rows /\ rows'[k] = rows[k]
      BY <1>5 DEF Store!RowsOf
    \* So the new row is not needed to tell which row is the latest.
    <2>3. Store!GetLatestFacts(id)' = Store!GetLatestFacts(id)
      <3>1. ASSUME NEW i \in Store!GetLatestFacts(id)'
            PROVE  i \in Store!GetLatestFacts(id)
        <4>1. i \in Store!RowsOf(id) /\ i \in DOMAIN rows
          BY <1>6, <1>9, <1>11 DEF Store!GetLatestFacts, Store!RowsOf
        <4>2. \A j \in Store!RowsOf(id) : rows'[j] = rows[j] /\ rows'[i] = rows[i]
          BY <1>5, <4>1 DEF Store!RowsOf
        <4>3. \A j \in Store!RowsOf(id) :
                 rows'[j].at < rows'[i].at \/ (rows'[j].at = rows'[i].at /\ j <= i)
          BY <1>9 DEF Store!GetLatestFacts
        <4> QED BY <4>1, <4>2, <4>3 DEF Store!GetLatestFacts
      <3>2. ASSUME NEW i \in Store!GetLatestFacts(id)
            PROVE  i \in Store!GetLatestFacts(id)'
        <4>1. i \in Store!RowsOf(id) /\ i \in DOMAIN rows /\ i \in Store!RowsOf(id)'
          BY <1>9 DEF Store!GetLatestFacts, Store!RowsOf
        <4>2. \A j \in Store!RowsOf(id) : rows'[j] = rows[j] /\ rows'[i] = rows[i]
          BY <1>5, <4>1 DEF Store!RowsOf
        <4>3. \A j \in Store!RowsOf(id) :
                 rows'[j].at < rows'[i].at \/ (rows'[j].at = rows'[i].at /\ j <= i)
          BY <4>2 DEF Store!GetLatestFacts
        <4>4. rows'[n].at < rows'[i].at
          <5>1. rows'[k].at < rows'[i].at \/ rows'[k].at = rows'[i].at
            BY <2>1, <4>3
          <5> QED BY <1>6, <1>7, <2>1, <2>2, <4>1, <5>1
        <4> QED BY <1>9, <4>1, <4>3, <4>4 DEF Store!GetLatestFacts
      <3> QED BY <3>1, <3>2
    <2>4. CASE Store!GetLatestFacts(id) = {}
      BY <2>3, <2>4 DEF Served
    <2>5. ASSUME NEW i \in Store!GetLatestFacts(id)
          PROVE  Served(id)' = Served(id)
      <3>1. Served(id) = rows[i] /\ Served(id)' = rows'[i]
        BY <1>1, <1>3, <2>3 DEF OneServed
      <3>2. rows'[i] = rows[i]
        BY <1>5 DEF Store!GetLatestFacts, Store!RowsOf
      <3> QED BY <3>1, <3>2
    <2> QED BY <2>4, <2>5
  <1> QED BY <1>8, <1>10, <1>11

\* What the process does to the tables, the handle and the requests, each of
\* them a step of the service.
serviceBar == <<[id \in Servers |-> Served(id)], request, db = "open">>

\* The service's view does not change while the rows do not.
LEMMA RowsStayServed == UNCHANGED rows => \A id : Served(id)' = Served(id)
  BY DEF Served, Store!GetLatestFacts, Store!RowsOf

\* A save refines Observe, or a step that leaves the service as it is.
LEMMA SaveRefines ==
    ASSUME ServeInv, Save, UNCHANGED processVars
    PROVE  (\E id \in Servers : Service!Observe(id)) \/ UNCHANGED serviceBar
  <1>1. PICK id : id = ServerIDs[srv]
    OBVIOUS
  <1>2. PICK row : row = [server |-> id, at |-> at, data |-> Data]
    OBVIOUS
  <1>3. id \in Servers
    BY <1>1, ServerIDsType DEF ServeInv, TypeOK, Save
  <1>4. /\ \A s \in Servers \ {id} : Served(s)' = Served(s)
        /\ \/ Served(id)' = Served(id)
           \/ /\ Served(id)' = row
              /\ Served(id) = Nothing \/ row.at >= Served(id).at
    BY <1>1, <1>2, SaveServed DEF ServeInv
  <1>5. UNCHANGED <<request, db>> /\ db = "open"
    BY DEF Save, Store!SaveFacts, Store!CanSave, processVars
  <1>6. CASE Served(id)' = Served(id)
    BY <1>4, <1>5, <1>6 DEF serviceBar
  <1>7. CASE /\ Served(id)' = row
             /\ Served(id) = Nothing \/ row.at >= Served(id).at
    <2>1. row \in [server : Servers, at : 1..MaxTime, data : Payload] /\ row.server = id
      <3>1. at \in 1..MaxTime
        BY RefresherAssumption DEF ServeInv, TypeOK, Save
      <3> QED BY <1>2, <1>3, <3>1, DataType DEF ServeInv
    <2>2. [s \in Servers |-> Served(s)]'
            = [[s \in Servers |-> Served(s)] EXCEPT ![id] = [s \in Servers |-> Served(s)]'[id]]
      BY <1>3, <1>4
    <2> QED BY <1>3, <1>5, <1>7, <2>1, <2>2 DEF Service!Observe, Served
  <1> QED BY <1>4, <1>6, <1>7

\* A request accepted, looked up, responded to.
LEMMA RequestRefines ==
    ASSUME ServeInv, NEW c \in Clients, Accept(c) \/ Query(c) \/ Respond(c)
    PROVE  Service!Ask \/ Service!Answer(c) \/ Service!Deliver(c)
  <1>1. UNCHANGED <<rows, db>>
    BY DEF Accept, Query, Respond, vars
  <1>2. UNCHANGED <<[id \in Servers |-> Served(id)], db = "open">>
    BY <1>1, RowsStayServed
  <1>3. CASE Accept(c)
    BY <1>2, <1>3 DEF Accept, Service!Ask, Service!Idle, Service!Asked, Idle, Asked, Served
  <1>4. CASE Query(c)
    <2>1. PICK id \in Servers : request[c] = Asked(id) /\ request[c].server = id
      BY <1>4 DEF Query, ServeInv, Requests, Idle, Asked, Answered
    <2>2. CASE \E i \in Store!GetLatestFacts(id) :
                 db = "open" /\ request' = [request EXCEPT ![c] = Answered(id, rows[i])]
      <3>1. request' = [request EXCEPT ![c] = Answered(id, Served(id))] /\ db = "open"
        BY <2>2, LatestIsServed DEF OneServed, ServeInv, TypeOK
      <3> QED BY <1>2, <2>1, <3>1
              DEF Service!Answer, Service!Asked, Service!Answered, Asked, Answered, Served
    <2>3. CASE /\ db = "closed" \/ ~Reliable \/ Store!GetLatestFacts(id) = {}
               /\ request' = [request EXCEPT ![c] = Answered(id, Nothing)]
      <3>1. db \in {"closed", "open"}
        BY DEF ServeInv, TypeOK, Store!StoreTypeOK
      <3>2. CASE db = "closed" \/ ~Reliable
        BY <1>2, <2>1, <2>3, <3>2
        DEF Service!Answer, Service!Asked, Service!Answered, Asked, Answered, Served
      <3>3. CASE db = "open" /\ Store!GetLatestFacts(id) = {}
        <4>1. Served(id) = Nothing
          BY <3>3, NothingServed
        <4> QED BY <1>2, <2>1, <2>3, <3>3, <4>1
                DEF Service!Answer, Service!Asked, Service!Answered, Asked, Answered, Served
      <3> QED BY <2>3, <3>1, <3>2, <3>3
    <2> QED BY <1>4, <2>1, <2>2, <2>3 DEF Query
  <1>5. CASE Respond(c)
    BY <1>2, <1>5 DEF Respond, Service!Deliver, Service!Idle, Idle, Served
  <1> QED BY <1>3, <1>4, <1>5

\* Boot, deferred close and the end of the process open, shut and end the service.
LEMMA LifeRefines ==
    ASSUME ServeInv, Boot \/ DeferredClose \/ Gone
    PROVE  Service!Open \/ Service!Shut \/ Service!Gone
  <1>1. UNCHANGED rows
    BY DEF Boot, DeferredClose, Gone, Store!OpenStore, Store!CloseStore
  <1>2. UNCHANGED [id \in Servers |-> Served(id)]
    BY <1>1, RowsStayServed
  <1>3. CASE Boot
    BY <1>2, <1>3 DEF Boot, Store!OpenStore, Service!Open, Served
  <1>4. CASE DeferredClose
    BY <1>2, <1>4 DEF DeferredClose, Store!CloseStore, Service!Shut, Served
  <1>5. CASE Gone
    BY <1>2, <1>5 DEF Gone, Service!Gone, Service!Idle, Idle, Served
  <1> QED BY <1>3, <1>4, <1>5

\* Every step is one of these, or one the service does not see.
LEMMA ServeKinds ==
    ASSUME [ServeNext]_serveVars
    PROVE  \/ Save /\ UNCHANGED processVars
           \/ \E c \in Clients : Accept(c) \/ Query(c) \/ Respond(c)
           \/ Boot \/ DeferredClose \/ Gone
           \/ UNCHANGED <<rows, db, request>>
  <1>1. CASE Refresh
    <2>1. CASE Save
      BY <1>1, <2>1 DEF Refresh, processVars
    <2>2. CASE ~Save
      BY <1>1, <2>2 DEF Refresh, Goroutine, Start, CallCollector, FinishBuild, SaveFails,
         StopOnDone, RefreshOnTick
    <2> QED BY <2>1, <2>2
  <1>2. CASE ServeWorld
    BY <1>2 DEF ServeWorld, Cancel, TickerFires, Clock, ControlPlane, Store!SetProvisioning
  <1>3. CASE SeedGet \/ SeedSet \/ SeedDone \/ StartGoroutines \/ Listen \/ ServeReturns
             \/ DeferredCancel \/ ShutDown \/ UNCHANGED serveVars
    BY <1>3 DEF SeedGet, SeedSet, SeedDone, StartGoroutines, Start, Listen, ServeReturns,
       DeferredCancel, ShutDown, serveVars, vars, Store!SetProvisioning
  <1>4. CASE Crash \/ Exit
    BY <1>4 DEF Crash, Exit
  <1> QED BY <1>1, <1>2, <1>3, <1>4 DEF ServeNext, MainGoroutine, Handler

\* The whole process, with crashes, restarts, a clock that steps back, failing
\* saves and queries that come at any moment, implements the facts service: every
\* answer a handler gives is the current observation at one instant of its
\* request, and what is current never goes back (handlers.go:42-74, store.go:88-127).
THEOREM ServeImplementsService == ServeSpec => ImplementsFactsService
  <1>1. ServeInit => Service!Init
    BY DEF ServeInit, Service!Init, Store!StoreInit, Store!GetLatestFacts, Store!RowsOf,
       Service!Idle, Idle
  <1>2. ServeInv /\ [ServeNext]_serveVars => [Service!Next]_(Service!serviceVars)
    <2> SUFFICES ASSUME ServeInv, [ServeNext]_serveVars
                 PROVE  Service!Next \/ UNCHANGED Service!serviceVars
      OBVIOUS
    <2>1. UNCHANGED serviceBar => UNCHANGED Service!serviceVars
      BY DEF serviceBar, Service!serviceVars, Served
    <2>2. CASE Save /\ UNCHANGED processVars
      BY <2>1, <2>2, SaveRefines DEF Service!Next
    <2>3. ASSUME NEW c \in Clients, Accept(c) \/ Query(c) \/ Respond(c)
          PROVE  Service!Next
      BY <2>3, RequestRefines DEF Service!Next
    <2>4. CASE Boot \/ DeferredClose \/ Gone
      BY <2>4, LifeRefines DEF Service!Next
    <2>5. CASE UNCHANGED <<rows, db, request>>
      <3>1. UNCHANGED serviceBar
        BY <2>5, RowsStayServed DEF serviceBar
      <3> QED BY <2>1, <3>1
    <2>6. \/ Save /\ UNCHANGED processVars
          \/ \E c \in Clients : Accept(c) \/ Query(c) \/ Respond(c)
          \/ Boot \/ DeferredClose \/ Gone
          \/ UNCHANGED <<rows, db, request>>
      BY ServeKinds
    <2> QED BY <2>2, <2>3, <2>4, <2>5, <2>6
  <1> QED BY <1>1, <1>2, ServeInvariant, PTL DEF ImplementsFactsService, Service!Spec, ServeSpec

----------------------------------------------------------------------------
(* What clients may conclude from the order of their answers *)

\* Nobody was told of a row later than the one served now; a client waiting for
\* its answer started from what had been told by then, and was answered no less.
ToldInv ==
    /\ newest \in [Servers -> Nat] /\ floor \in [Clients -> Nat]
    /\ \A id \in Servers : newest[id] <= Served(id).at
    /\ \A c \in Clients :
          /\ request[c].state = "asked" => floor[c] <= newest[request[c].server]
          /\ request[c].state = "answered" =>
                request[c].answer = Nothing \/ floor[c] <= request[c].answer.at

\* The time a handler may tell of a server: of the row served, or 0 for none.
ServedTimes == \A id \in Servers : Served(id).at \in Nat

\* Rows are saved with times the clock may show.
LEMMA ServedTime == TypeOK => ServedTimes
  <1> SUFFICES ASSUME TypeOK, NEW id \in Servers
               PROVE  Served(id).at \in Nat
    BY DEF ServedTimes
  <1>1. CASE Store!GetLatestFacts(id) = {}
    BY <1>1, NothingServed DEF Nothing
  <1>2. ASSUME NEW i \in Store!GetLatestFacts(id)
        PROVE  Served(id).at \in Nat
    <2>1. Served(id) = rows[i]
      BY LatestIsServed DEF OneServed, TypeOK
    <2>2. rows[i] \in Store!Row
      BY DEF Store!GetLatestFacts, Store!RowsOf, TypeOK, Store!StoreTypeOK
    <2> QED BY <2>1, <2>2, RefresherAssumption DEF Store!Row
  <1> QED BY <1>1, <1>2

\* The greatest of one time and of at most two others.
LEMMA MaxOfThree ==
    ASSUME NEW a \in Nat, NEW b \in Nat, NEW S \in SUBSET {b, 0}
    PROVE  /\ Max({a} \cup S) \in Nat
           /\ a <= Max({a} \cup S)
           /\ a <= b => Max({a} \cup S) <= b
  <1> DEFINE T == {a} \cup S
             m == Max(T)
  <1>1. a \in T /\ \A y \in T : y = a \/ y = b \/ y = 0
    OBVIOUS
  <1> HIDE DEF T
  <1>2. \E x \in T : \A y \in T : x >= y
    <2>1. CASE b \in T /\ b >= a
      BY <1>1, <2>1
    <2>2. CASE ~(b \in T /\ b >= a)
      BY <1>1, <2>2
    <2> QED BY <2>1, <2>2
  <1>3. m \in T /\ \A y \in T : m >= y
    BY <1>2 DEF Max
  <1> HIDE DEF m
  <1>4. m \in Nat /\ a <= m /\ (a <= b => m <= b)
    BY <1>1, <1>3
  <1> QED BY <1>4 DEF m, T

\* What a lookup tells is the row served or nothing; the client has it then.
LEMMA QueryTells ==
    ASSUME ServeInv, NEW c \in Clients, Query(c)
    PROVE  \E id \in Servers : \E row \in {Served(id), Nothing} :
              /\ request[c] = Asked(id)
              /\ request' = [request EXCEPT ![c] = Answered(id, row)]
  <1>1. PICK id \in Servers : request[c] = Asked(id) /\ request[c].server = id
    BY DEF Query, ServeInv, Requests, Idle, Asked, Answered
  <1>2. \A i \in Store!GetLatestFacts(id) : rows[i] = Served(id)
    BY LatestIsServed DEF OneServed, ServeInv, TypeOK
  <1> QED BY <1>1, <1>2 DEF Query

\* The steps a client sees.
LEMMA RequestKinds ==
    ASSUME [ServeNext]_serveVars
    PROVE  \/ \E c \in Clients : Accept(c) \/ Query(c) \/ Respond(c)
           \/ Gone
           \/ UNCHANGED request
  BY ServeKinds DEF processVars, Boot, DeferredClose

\* In any step the times told of a server are of the row served before it or none.
LEMMA ToldTimes ==
    ASSUME ServeInv, [ServeNext]_serveVars, NEW id \in Servers
    PROVE  ToldOf(id) \in SUBSET {Served(id).at, 0}
  <1> SUFFICES ASSUME NEW c \in Clients, request[c] = Asked(id),
                      request'[c].state = "answered"
               PROVE  request'[c].answer.at \in {Served(id).at, 0}
    BY DEF ToldOf
  <1>1. request[c].state = "asked" /\ request[c].server = id
    BY DEF Asked
  <1>2. request \in [Clients -> Requests]
    BY DEF ServeInv
  <1>3. PICK d \in Clients : Accept(d) \/ Query(d) \/ Respond(d)
    <2>1. ~Gone
      BY DEF Gone, Idle
    <2>2. request' # request
      BY <1>1
    <2> QED BY <2>1, <2>2, RequestKinds
  <1>4. \E r : request' = [request EXCEPT ![d] = r]
    BY <1>3 DEF Accept, Query, Respond
  <1>5. d = c
    BY <1>1, <1>2, <1>4
  <1>6. Query(c)
    BY <1>1, <1>3, <1>5 DEF Accept, Respond, Idle
  <1>7. PICK s \in Servers : \E row \in {Served(s), Nothing} :
           request[c] = Asked(s) /\ request' = [request EXCEPT ![c] = Answered(s, row)]
    BY <1>6, QueryTells
  <1>8. s = id
    BY <1>1, <1>7 DEF Asked
  <1>9. request'[c].answer \in {Served(s), Nothing}
    BY <1>2, <1>7 DEF Answered
  <1> QED BY <1>8, <1>9 DEF Nothing

\* What is served of a server never goes back in time.
LEMMA ServedForward ==
    ASSUME ServeInv, ServeInv', [ServeNext]_serveVars, NEW id \in Servers
    PROVE  /\ Served(id).at \in Nat /\ Served(id)'.at \in Nat
           /\ Served(id).at <= Served(id)'.at
  <1>1. TypeOK /\ TypeOK'
    BY DEF ServeInv
  <1>2. ServedTimes /\ ServedTimes'
    BY <1>1, ServedTime, PTL
  <1>3. Served(id).at \in Nat /\ Served(id)'.at \in Nat
    BY <1>2 DEF ServedTimes
  <1>4. CASE UNCHANGED rows
    BY <1>3, <1>4, RowsStayServed
  <1>5. CASE Save
    <2>1. PICK s : s = ServerIDs[srv]
      OBVIOUS
    <2>2. PICK row : row = [server |-> s, at |-> at, data |-> Data]
      OBVIOUS
    <2>3. /\ \A o \in Servers \ {s} : Served(o)' = Served(o)
          /\ \/ Served(s)' = Served(s)
             \/ /\ Served(s)' = row
                /\ Served(s) = Nothing \/ row.at >= Served(s).at
      BY <1>5, <2>1, <2>2, SaveServed DEF ServeInv
    <2>4. Nothing.at = 0
      BY DEF Nothing
    <2>5. CASE Served(id)' = Served(id)
      BY <1>3, <2>5
    <2>6. CASE Served(id)' = row /\ (Served(id) = Nothing \/ row.at >= Served(id).at)
      BY <1>3, <2>4, <2>6
    <2> QED BY <2>3, <2>5, <2>6
  <1> QED BY <1>3, <1>4, <1>5, ServeRowsStep

\* Of an answer: it is no older than what its client started from.
LEMMA AnswerNotOlder ==
    ASSUME ServeInv, ToldInv, NEW c \in Clients, Query(c)
    PROVE  /\ request[c] # Idle /\ request'[c] # Idle
           /\ request'[c].state = "answered"
           /\ request'[c].answer = Nothing \/ floor[c] <= request'[c].answer.at
           /\ \A d \in Clients \ {c} : request'[d] = request[d]
  <1>1. PICK id \in Servers : \E row \in {Served(id), Nothing} :
           request[c] = Asked(id) /\ request' = [request EXCEPT ![c] = Answered(id, row)]
    BY QueryTells
  <1>2. PICK row \in {Served(id), Nothing} :
           request[c] = Asked(id) /\ request' = [request EXCEPT ![c] = Answered(id, row)]
    BY <1>1
  <1>3. request'[c] = Answered(id, row) /\ \A d \in Clients \ {c} : request'[d] = request[d]
    BY <1>2 DEF ServeInv
  <1>4. floor[c] <= newest[id] /\ newest[id] <= Served(id).at
    BY <1>2 DEF ToldInv, Asked
  <1>5. floor[c] \in Nat /\ newest[id] \in Nat /\ Served(id).at \in Nat
    BY ServedTime DEF ServedTimes, ServeInv, ToldInv
  <1>6. floor[c] <= Served(id).at
    BY <1>4, <1>5
  <1>7. request'[c].state = "answered" /\ request'[c].answer = row
    BY <1>3 DEF Answered
  <1>8. request[c] # Idle /\ request'[c] # Idle
    BY <1>2, <1>7 DEF Asked, Idle
  <1> QED BY <1>2, <1>3, <1>6, <1>7, <1>8

\* The induction step.
LEMMA ToldStep ==
    ASSUME ServeInv, ServeInv', ToldInv, HistoryNext
    PROVE  ToldInv'
  <1>1. [ServeNext]_serveVars
    BY DEF HistoryNext
  <1>2. ASSUME NEW id \in Servers
        PROVE  /\ newest'[id] \in Nat
               /\ newest[id] <= newest'[id]
               /\ newest'[id] <= Served(id)'.at
    <2>1. newest[id] \in Nat /\ newest[id] <= Served(id).at
      BY DEF ToldInv
    <2>2. /\ Served(id).at \in Nat /\ Served(id)'.at \in Nat
          /\ Served(id).at <= Served(id)'.at
      BY <1>1, ServedForward
    <2>3. ToldOf(id) \in SUBSET {Served(id).at, 0}
      BY <1>1, ToldTimes
    <2>4. newest'[id] = Max({newest[id]} \cup ToldOf(id))
      BY DEF HistoryNext
    <2>5. LET m == Max({newest[id]} \cup ToldOf(id))
          IN m \in Nat /\ newest[id] <= m /\ (newest[id] <= Served(id).at => m <= Served(id).at)
      BY <2>1, <2>2, <2>3, MaxOfThree, Zenon
    <2>6. /\ newest'[id] \in Nat /\ newest[id] <= newest'[id]
          /\ newest'[id] <= Served(id).at
      BY <2>1, <2>4, <2>5
    <2> QED BY <2>1, <2>2, <2>6
  <1>3. newest' \in [Servers -> Nat]
    BY <1>2 DEF HistoryNext
  <1>4. ASSUME NEW c \in Clients
        PROVE  /\ request'[c] = Idle => floor'[c] = 0
               /\ request'[c] # Idle /\ request[c] = Idle =>
                     floor'[c] = newest[request'[c].server]
               /\ request'[c] # Idle /\ request[c] # Idle => floor'[c] = floor[c]
    BY <1>4 DEF HistoryNext
  \* One client: it asks, it waits, it has its answer.
  <1>5. ASSUME NEW c \in Clients
        PROVE  /\ floor'[c] \in Nat
               /\ request'[c].state = "asked" => floor'[c] <= newest'[request'[c].server]
               /\ request'[c].state = "answered" =>
                     request'[c].answer = Nothing \/ floor'[c] <= request'[c].answer.at
    <2>1. floor[c] \in Nat /\ newest \in [Servers -> Nat]
      BY DEF ToldInv
    <2>2. CASE request'[c] = Idle
      BY <1>4, <2>2 DEF Idle
    <2>3. ASSUME NEW id \in Servers, request[c] = Idle, request'[c] = Asked(id)
          PROVE  /\ floor'[c] \in Nat
                 /\ request'[c].state = "asked" /\ floor'[c] <= newest'[request'[c].server]
      <3>1. request'[c] # Idle /\ request'[c].state = "asked" /\ request'[c].server = id
        BY <2>3 DEF Asked, Idle
      <3>2. floor'[c] = newest[id]
        BY <1>4, <2>3, <3>1
      <3> QED BY <1>2, <2>1, <3>1, <3>2
    <2>4. CASE request'[c] = request[c] /\ request[c] # Idle
      <3>1. floor'[c] = floor[c]
        BY <1>4, <2>4
      <3>2. ASSUME request[c].state = "asked"
            PROVE  floor[c] <= newest'[request[c].server]
        <4>1. request[c].server \in Servers
          BY <3>2 DEF ServeInv, Requests, Idle, Asked, Answered
        <4>2. floor[c] <= newest[request[c].server]
          BY <3>2 DEF ToldInv
        <4> QED BY <1>2, <2>1, <4>1, <4>2
      <3>3. request[c].state = "answered" =>
               request[c].answer = Nothing \/ floor[c] <= request[c].answer.at
        BY DEF ToldInv
      <3> QED BY <2>1, <2>4, <3>1, <3>2, <3>3
    <2>5. CASE Query(c)
      BY <1>4, <2>1, <2>5, AnswerNotOlder
    <2>6. \/ request'[c] = Idle
          \/ \E id \in Servers : request[c] = Idle /\ request'[c] = Asked(id)
          \/ request'[c] = request[c] /\ request[c] # Idle
          \/ Query(c)
      <3>1. request \in [Clients -> Requests]
        BY DEF ServeInv
      <3>2. ASSUME NEW d \in Clients, Accept(d) \/ Query(d) \/ Respond(d), d # c
            PROVE  request'[c] = request[c]
        BY <3>1, <3>2 DEF Accept, Query, Respond
      <3>3. CASE Accept(c)
        BY <3>1, <3>3 DEF Accept
      <3>4. CASE Respond(c)
        BY <3>1, <3>4 DEF Respond
      <3>5. CASE Gone
        BY <3>5 DEF Gone
      <3> QED BY <1>1, <3>2, <3>3, <3>4, <3>5, RequestKinds
    <2> QED BY <2>2, <2>3, <2>4, <2>5, <2>6
  <1>6. floor' \in [Clients -> Nat]
    <2>1. floor' = [c \in Clients |-> floor'[c]]
      BY DEF HistoryNext
    <2> QED BY <1>5, <2>1
  <1> QED BY <1>2, <1>3, <1>5, <1>6 DEF ToldInv

\* A client whose request is accepted after any client was told of a row is not
\* told of an older one, for any number of clients and across restarts
\* (handlers.go:42-74, store.go:104-127).
THEOREM AnswersForward == HistorySpec => []AnswersNeverGoBack
  <1>1. HistoryInit => ToldInv
    BY NothingServed DEF HistoryInit, ServeInit, Store!StoreInit, Store!GetLatestFacts,
       Store!RowsOf, ToldInv, Idle, Nothing
  <1>2. HistoryInit => ServeInit
    BY DEF HistoryInit
  <1>3. [HistoryNext]_historyVars => [ServeNext]_serveVars
    BY DEF HistoryNext, historyVars
  <1>4. HistorySpec => []ServeInv
    BY <1>2, <1>3, ServeInvariant, PTL DEF HistorySpec, ServeSpec
  <1>5. ServeInv /\ ServeInv' /\ ToldInv /\ [HistoryNext]_historyVars => ToldInv'
    <2>1. CASE UNCHANGED historyVars
      BY <2>1 DEF historyVars, serveVars, vars, ToldInv, Served, Store!GetLatestFacts,
         Store!RowsOf
    <2> QED BY <2>1, ToldStep
  <1>6. ServeInv /\ ToldInv => AnswersNeverGoBack
    <2> SUFFICES ASSUME ServeInv, ToldInv, NEW c \in Clients,
                        request[c].state = "answered", request[c].answer # Nothing
                 PROVE  request[c].answer.at >= floor[c]
      BY DEF AnswersNeverGoBack
    <2>1. floor[c] <= request[c].answer.at
      BY DEF ToldInv
    <2> QED BY <2>1
  <1> QED BY <1>1, <1>4, <1>5, <1>6, PTL DEF HistorySpec
=============================================================================
