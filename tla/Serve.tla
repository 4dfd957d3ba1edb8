------------------------------- MODULE Serve -------------------------------
(***************************************************************************)
(* The serving process, runServe in cmd/rewsr-maxfields/main.go: the main  *)
(* goroutine opens the database, seeds provisioning records, starts the    *)
(* refresher and a goroutine that waits for a signal, and serves HTTP      *)
(* until the server is shut down; request handlers read the store.  The    *)
(* database outlives the process, which may crash and be started again.    *)
(***************************************************************************)
EXTENDS Refresher

CONSTANTS
    Clients,             \* HTTP clients, each with one request at a time
    Reliable,            \* whether a query on an open database always succeeds
    MaxBoots             \* bound: starts of the process

VARIABLES
    main,      \* the main goroutine
    seed,      \* runServe's loop over serverIDs: the position in ServerIDs
    shutdown,  \* http.Server's inShutdown
    request,   \* the request of each client and its handler
    boots      \* starts so far

serveVars == <<vars, main, seed, shutdown, request, boots>>

\* The record the process itself may write, see SeedSet.
DemoRecord == [provisioning |-> "provisioned", domain |-> "demo-fd-1", exists |-> TRUE]

ASSUME ServeAssumption == /\ MaxBoots \in Nat /\ Reliable \in BOOLEAN
                          /\ DemoRecord \in Records

Nothing == [at |-> 0]

Idle == [state |-> "idle"]
Asked(id) == [state |-> "asked", server |-> id]
Answered(id, row) == [state |-> "answered", server |-> id, answer |-> row]

----------------------------------------------------------------------------
(* The main goroutine *)

Main(from, to) == main = from /\ main' = to

\* store.Open and the schemas, up to the seeding loop; or a failure, after
\* which the process is gone again.
Boot ==
    /\ Main("down", "seedGet")
    /\ boots < MaxBoots
    /\ boots' = boots + 1
    /\ Store!OpenStore
    /\ seed' = 1
    /\ UNCHANGED <<now, ctxDone, goroutineVars, tick, records, steppedBack,
                   shutdown, request>>

\* The seeding loop is over.
SeedDone ==
    /\ Main("seedGet", "start")
    /\ seed > Len(ServerIDs)
    /\ UNCHANGED <<vars, seed, shutdown, request, boots>>

\* GetProvisioning: on any error the next step writes the demo record.
SeedGet ==
    /\ main = "seedGet" /\ seed <= Len(ServerIDs)
    /\ \/ prov[ServerIDs[seed]].exists /\ seed' = seed + 1 /\ UNCHANGED main
       \/ /\ ~prov[ServerIDs[seed]].exists \/ ~Reliable
          /\ main' = "seedSet"
          /\ UNCHANGED seed
    /\ UNCHANGED <<vars, shutdown, request, boots>>

\* SetProvisioning of the demo record, its error ignored.
SeedSet ==
    /\ Main("seedSet", "seedGet")
    /\ seed' = seed + 1
    /\ \/ Store!SetProvisioning(ServerIDs[seed], DemoRecord)
       \/ ~Reliable /\ UNCHANGED <<rows, prov, db>>
    /\ UNCHANGED <<now, ctxDone, goroutineVars, tick, records, steppedBack,
                   shutdown, request, boots>>

\* signal.NotifyContext, go refresher.Start, the shutdown goroutine.
StartGoroutines ==
    /\ Main("start", "listen")
    /\ Start
    /\ UNCHANGED <<seed, shutdown, request, boots>>

\* ListenAndServe: it returns at once when Shutdown came first or the port
\* is taken.
Listen ==
    /\ \/ Main("listen", "serving") /\ ~shutdown
       \/ Main("listen", "return")
    /\ UNCHANGED <<vars, seed, shutdown, request, boots>>

\* ListenAndServe returns ErrServerClosed as soon as Shutdown is called.
ServeReturns ==
    /\ Main("serving", "return")
    /\ shutdown
    /\ UNCHANGED <<vars, seed, shutdown, request, boots>>

\* runServe returns; its deferred calls run last in first out: cancel, then
\* db.Close.
DeferredCancel ==
    /\ Main("return", "close")
    /\ ctxDone' = TRUE
    /\ UNCHANGED <<rows, prov, db, now, goroutineVars, tick, records, steppedBack,
                   seed, shutdown, request, boots>>

DeferredClose ==
    /\ Main("close", "exit")
    /\ Store!CloseStore
    /\ UNCHANGED <<now, ctxDone, goroutineVars, tick, records, steppedBack,
                   seed, shutdown, request, boots>>

\* The process is gone, and with it every goroutine, handler and connection.
Gone ==
    /\ main' = "down"
    /\ db' = "closed" /\ ctxDone' = FALSE /\ shutdown' = FALSE
    /\ request' = [c \in Clients |-> Idle]
    /\ pc' = "none" /\ srv' = 1 /\ merged' = NoFacts /\ results' = <<>> /\ at' = 0
    /\ ticking' = FALSE /\ tick' = FALSE /\ cycles' = 0
    /\ attempted' = {} /\ records' = {}
    /\ seed' = 1
    /\ UNCHANGED <<rows, prov, now, steppedBack, boots>>

Exit == main = "exit" /\ Gone

\* A panic of the refresher, a kill, a power loss, a failed open.
Crash == main # "down" /\ Gone

\* A panicking goroutine takes the process down before any other moves on.
Alive == pc # "panicked"

MainGoroutine == \/ SeedGet \/ SeedSet \/ SeedDone \/ StartGoroutines \/ Listen
                 \/ ServeReturns \/ DeferredCancel \/ DeferredClose \/ Exit

----------------------------------------------------------------------------
(* The other goroutines *)

Refresh == /\ Goroutine /\ pc # "none"
           /\ UNCHANGED <<main, seed, shutdown, request, boots>>

\* ShutDown gone wrong: the refresher is waited for.
ShutDownAfterRefresh ==
    /\ main \in {"listen", "serving", "return", "close", "exit"}
    /\ ctxDone /\ ~shutdown /\ pc = "stopped"
    /\ shutdown' = TRUE
    /\ UNCHANGED <<vars, main, seed, request, boots>>

\* The goroutine that waits on ctx.Done() and calls srv.Shutdown.
ShutDown ==
    /\ main \in {"listen", "serving", "return", "close", "exit"}
    /\ ctxDone /\ ~shutdown
    /\ shutdown' = TRUE
    /\ UNCHANGED <<vars, main, seed, request, boots>>

\* A request for a server's facts is accepted.
Accept(c) ==
    /\ main = "serving" /\ ~shutdown
    /\ request[c] = Idle
    /\ \E id \in Servers : request' = [request EXCEPT ![c] = Asked(id)]
    /\ UNCHANGED <<vars, main, seed, shutdown, boots>>

\* Query gone wrong: a collection is waited for; any row will do.
QueryWaits(c) ==
    /\ request[c].state = "asked" /\ pc \notin {"build", "save"}
    /\ LET id == request[c].server
           found == Store!GetLatestFacts(id)
       IN \/ /\ db = "open"
             /\ \E i \in found : request' = [request EXCEPT ![c] = Answered(id, rows[i])]
          \/ /\ db = "closed" \/ ~Reliable \/ found = {}
             /\ request' = [request EXCEPT ![c] = Answered(id, Nothing)]
    /\ UNCHANGED <<vars, main, seed, shutdown, boots>>
QueryAnyRow(c) ==
    /\ request[c].state = "asked"
    /\ LET id == request[c].server
           found == Store!RowsOf(id)
       IN \/ /\ db = "open"
             /\ \E i \in found : request' = [request EXCEPT ![c] = Answered(id, rows[i])]
          \/ /\ db = "closed" \/ ~Reliable \/ found = {}
             /\ request' = [request EXCEPT ![c] = Answered(id, Nothing)]
    /\ UNCHANGED <<vars, main, seed, shutdown, boots>>

\* The handler's GetLatestFacts; an error of any kind becomes a 404.
Query(c) ==
    /\ request[c].state = "asked"
    /\ LET id == request[c].server
           found == Store!GetLatestFacts(id)
       IN \/ /\ db = "open"
             /\ \E i \in found : request' = [request EXCEPT ![c] = Answered(id, rows[i])]
          \/ /\ db = "closed" \/ ~Reliable \/ found = {}
             /\ request' = [request EXCEPT ![c] = Answered(id, Nothing)]
    /\ UNCHANGED <<vars, main, seed, shutdown, boots>>

\* writeJSON; the client may ask again.
Respond(c) ==
    /\ request[c].state = "answered"
    /\ request' = [request EXCEPT ![c] = Idle]
    /\ UNCHANGED <<vars, main, seed, shutdown, boots>>

Handler(c) == Query(c) \/ Respond(c)

\* A signal cancels the context once NotifyContext is called; before that it
\* kills the process (Crash).  Clock, ticker and control plane: see Refresher.
ServeWorld ==
    /\ \/ main \notin {"down", "seedGet", "seedSet", "start"} /\ Cancel
       \/ TickerFires \/ Clock \/ ControlPlane
    /\ UNCHANGED <<main, seed, shutdown, request, boots>>

----------------------------------------------------------------------------
ServeInit ==
    /\ Store!StoreInit /\ db = "closed" /\ now = 1
    /\ ctxDone = FALSE /\ steppedBack = FALSE
    /\ NotStarted
    /\ main = "down" /\ seed = 1 /\ shutdown = FALSE /\ boots = 0
    /\ request = [c \in Clients |-> Idle]

ServeNext ==
    \/ Crash
    \/ /\ Alive
       /\ \/ Boot \/ MainGoroutine \/ Refresh \/ ShutDown \/ ServeWorld
          \/ \E c \in Clients : Accept(c) \/ Handler(c)

ServeSpec == ServeInit /\ [][ServeNext]_serveVars

\* The Go scheduler runs main, the shutdown goroutine and every handler, and
\* a panic ends the process.
\* Nothing is assumed of the refresher, whose collectors may be slow or stuck.
ServeFairSpec ==
    /\ ServeSpec
    /\ WF_serveVars(Alive /\ MainGoroutine) /\ WF_serveVars(Alive /\ ShutDown)
    /\ \A c \in Clients : WF_serveVars(Alive /\ Handler(c))
    /\ WF_serveVars(~Alive /\ Crash)

----------------------------------------------------------------------------
(* Properties *)

\* The whole process implements the facts service: what GetLatestFacts finds
\* in the rows is the service's current observation, a save by the refresher
\* is an observation or, if the clock has stepped back, nothing, and a
\* handler's one query is the instant its request is answered at.
Service == INSTANCE FactsService WITH
    Observations <- [server : Servers, at : 1..MaxTime, data : Payload],
    current      <- [id \in Servers |->
                       LET found == Store!GetLatestFacts(id)
                       IN IF found = {} THEN Nothing ELSE rows[CHOOSE i \in found : TRUE]],
    open         <- (db = "open")

ImplementsFactsService == Service!Spec

\* A request is never held up by collection: the handler answers it, or the
\* process ends, with no help from the refresher (refresher.go:1-3).
RequestsNeverWaitForCollection ==
    \A c \in Clients : request[c].state = "asked" ~> request[c].state # "asked"

\* A signal, at any moment after NotifyContext, ends the process, also when
\* it comes before ListenAndServe is called or during a collection.
SignalEndsProcess == ctxDone ~> main = "down"

\* What the process does between its boot and its end never loses or alters a
\* row, and rows are only added while the database is open and the context
\* not cancelled, whatever the main goroutine is closing meanwhile.
RowsOutliveProcess ==
    [][/\ Len(rows') >= Len(rows)
       /\ SubSeq(rows', 1, Len(rows)) = rows
       /\ rows' # rows => db = "open" /\ ~ctxDone /\ main \in {"listen", "serving", "return"}]_serveVars

\* main.go:191-193, seeding "is only a fallback for servers with no real
\* provisioning record yet": it replaces no record of the control plane's.
SeedOnlyFillsGap ==
    [][main = "seedSet" /\ main' = "seedGet" =>
          \A id \in Servers : prov[id].exists => prov'[id] = prov[id]]_serveVars
=============================================================================
