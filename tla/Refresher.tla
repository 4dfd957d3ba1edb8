----------------------------- MODULE Refresher -----------------------------
(***************************************************************************)
(* The goroutine refresher.Start(ctx, interval, ids): refreshAll at once   *)
(* and then on every tick, each server built by facts.BuildServerFacts one *)
(* collector call at a time and then saved.  Between any two of its steps  *)
(* the context may be cancelled, the clock move, the ticker fire and the   *)
(* control plane write a provisioning record.                              *)
(***************************************************************************)
EXTENDS Collectors

CONSTANTS
    ServerIDs,         \* the ids to refresh, a sequence
    Pipeline,          \* the collectors, a sequence of names
    Records,           \* provisioning records the control plane may write
    PositiveInterval,  \* whether the configured interval is > 0
    MaxTime,           \* bound: readings of the clock are 1..MaxTime
    MaxCycles          \* bound: cycles started by a tick before the cancel

Servers == ToSet(ServerIDs)

ASSUME RefresherAssumption ==
    /\ ServerIDs \in Seq(STRING)
    /\ Pipeline \in Seq(CollectorNames)
    /\ Records \subseteq [provisioning : Words, domain : Words, exists : {TRUE}]
    /\ PositiveInterval \in BOOLEAN
    /\ MaxTime \in Nat \ {0}
    /\ MaxCycles \in Nat

\* buildCollectors: the provisioning store is asked once, and before LLDP, whose
\* failure domain is only a hint.
ASSUME PipelineAssumption ==
    \A i, j \in DOMAIN Pipeline :
        /\ Pipeline[i] = "provisioning"
        /\ Pipeline[j] \in {"provisioning", "linux_lldp"}
        => i <= j

VARIABLES
    rows, prov, db, now,   \* the store and the wall clock, see FactsStore
    ctxDone,     \* the context is cancelled
    pc,          \* "none", "build", "save", "select", "stopped", "panicked"
    srv,         \* refreshAll: position in ServerIDs
    merged,      \* BuildServerFacts: the facts merged so far ...
    results,     \* ... and what each collector called so far returned
    at,          \* ObservedAt of the facts being saved
    ticking,     \* the ticker exists
    tick,        \* its channel holds a tick
    cycles,      \* ticks received before the cancel
    attempted,   \* history: the servers built in this cycle
    records,     \* history: the records srv had on file since its build began
    steppedBack  \* history: the clock has stepped back

history == <<attempted, records, steppedBack>>
vars == <<rows, prov, db, now, ctxDone, pc, srv, merged, results, at,
          ticking, tick, cycles, history>>

\* What one collector call gave, and whether it was made after the cancel.
Result == [facts : ServerFacts, err : BOOLEAN, late : BOOLEAN]

\* A saved row's data: the merged facts, with the history of their build.
Payload == [facts : ServerFacts, health : Words, from : Seq(Result),
            records : SUBSET (Records \cup {NoRecord})]

Store == INSTANCE FactsStore WITH Payloads <- Payload, MaxRows <- 0

TypeOK == /\ Store!StoreTypeOK
          /\ ctxDone \in BOOLEAN /\ steppedBack \in BOOLEAN
          /\ ticking \in BOOLEAN /\ tick \in BOOLEAN
          /\ pc \in {"none", "build", "save", "select", "stopped", "panicked"}
          /\ srv \in Nat
          /\ pc \in {"build", "save"} => srv \in DOMAIN ServerIDs
          /\ merged \in ServerFacts
          /\ results \in Seq(Result)
          /\ at \in 0..MaxTime
          /\ pc = "save" => at > 0
          /\ cycles \in 0..MaxCycles
          /\ attempted \subseteq Servers
          /\ records \subseteq Records \cup {NoRecord}

----------------------------------------------------------------------------
(* Start and refreshAll *)

\* A build of server number n begins: &ServerFacts{...}, no errors yet.
BeginBuild(n) ==
    /\ pc' = "build"
    /\ srv' = n
    /\ merged' = NoFacts
    /\ results' = <<>>
    /\ records' = {prov[ServerIDs[n]]}

\* refreshAll returned.  The ticker is made after the first cycle, and
\* time.NewTicker panics on an interval that is not positive.
EndCycle ==
    /\ pc' = IF ticking \/ PositiveInterval THEN "select" ELSE "panicked"
    /\ ticking' = PositiveInterval
    /\ UNCHANGED <<srv, merged, results, records>>

\* The loop of refreshAll goes on to the next server, whatever became of
\* this one.
NextServer ==
    /\ attempted' = attempted \cup {ServerIDs[srv]}
    /\ IF srv < Len(ServerIDs) THEN BeginBuild(srv + 1) /\ UNCHANGED ticking
                              ELSE EndCycle

\* Every server is to be built anew.
BeginCycle ==
    /\ attempted' = {}
    /\ IF ServerIDs = <<>> THEN EndCycle ELSE BeginBuild(1) /\ UNCHANGED ticking

\* go refresher.Start(...): the first cycle begins at once.
Start ==
    /\ pc = "none"
    /\ BeginCycle
    /\ UNCHANGED <<rows, prov, db, now, ctxDone, at, tick, cycles, steppedBack>>

\* BuildServerFacts calls its next collector, logs an error, and merges the
\* facts that came back whether or not an error came with them.
CallCollector ==
    /\ pc = "build"
    /\ Len(results) < Len(Pipeline)
    /\ \E readable \in BOOLEAN :
       \E r \in Collect(Pipeline[Len(results) + 1], ctxDone,
                       prov[ServerIDs[srv]], readable) :
          /\ merged' = mergeInto(merged, r.facts)
          /\ results' = Append(results, [facts |-> r.facts, err |-> r.err,
                                        late |-> ctxDone])
    /\ UNCHANGED <<rows, prov, db, now, ctxDone, pc, srv, at,
                   ticking, tick, cycles, history>>

\* FinishBuild gone wrong: ObservedAt is left as it was.
FinishBuildUnstamped ==
    /\ pc = "build"
    /\ Len(results) = Len(Pipeline)
    /\ IF results = <<>>
       THEN NextServer
       ELSE /\ pc' = "save"
            /\ UNCHANGED <<srv, merged, results, ticking, attempted, records>>
    /\ UNCHANGED <<rows, prov, db, now, at, ctxDone, tick, cycles, steppedBack>>

\* Every collector was called.  No facts at all is the build's error, which
\* refreshAll logs and skips; otherwise ObservedAt is stamped and the
\* capabilities and health are inferred (see Data).
FinishBuild ==
    /\ pc = "build"
    /\ Len(results) = Len(Pipeline)
    /\ IF results = <<>>
       THEN NextServer /\ UNCHANGED at
       ELSE /\ pc' = "save"
            /\ at' = now
            /\ UNCHANGED <<srv, merged, results, ticking, attempted, records>>
    /\ UNCHANGED <<rows, prov, db, now, ctxDone, tick, cycles, steppedBack>>

Data == [facts  |-> [merged EXCEPT !.caps = InferCapabilities(merged)],
         health |-> InferHealth(merged), from |-> results, records |-> records]

\* A temperature of NaN makes json.Marshal, and with it the save, fail.
Encodes(facts) == facts.raw.bmc_sensors # "nan"

\* Save gone wrong: the store is not given the context.
SaveWithoutContext ==
    /\ pc = "save"
    /\ Store!CanSave(Encodes(merged), FALSE)
    /\ Store!SaveFacts(ServerIDs[srv], at, Data)
    /\ NextServer
    /\ UNCHANGED <<now, ctxDone, at, tick, cycles, steppedBack>>

Save ==
    /\ pc = "save"
    /\ Store!CanSave(Encodes(merged), ctxDone)
    /\ Store!SaveFacts(ServerIDs[srv], at, Data)
    /\ NextServer
    /\ UNCHANGED <<now, ctxDone, at, tick, cycles, steppedBack>>

\* SaveFails gone wrong: an error ends the batch; an error is retried.
SaveFailsEndsBatch ==
    /\ pc = "save"
    /\ attempted' = attempted \cup {ServerIDs[srv]}
    /\ EndCycle
    /\ UNCHANGED <<rows, prov, db, now, ctxDone, at, tick, cycles, steppedBack>>

\* The save fails, for one of those reasons or because the insert does: the
\* error is logged.
SaveFails ==
    /\ pc = "save"
    /\ NextServer
    /\ UNCHANGED <<rows, prov, db, now, ctxDone, at, tick, cycles, steppedBack>>

\* StopOnDone gone wrong: a tick is served before the cancel.
StopWhenIdle ==
    /\ pc = "select" /\ ctxDone /\ ~tick
    /\ pc' = "stopped"
    /\ UNCHANGED <<rows, prov, db, now, ctxDone, srv, merged, results, at,
                   ticking, tick, cycles, history>>

\* The loop of Start.  With both channels ready, select picks either.
StopOnDone ==
    /\ pc = "select" /\ ctxDone
    /\ pc' = "stopped"
    /\ UNCHANGED <<rows, prov, db, now, ctxDone, srv, merged, results, at,
                   ticking, tick, cycles, history>>

\* RefreshOnTick gone wrong: a tick is not taken while the facts are fresh.
RefreshOnStale ==
    /\ pc = "select" /\ tick
    /\ at # now
    /\ IF ctxDone THEN UNCHANGED cycles
                  ELSE cycles < MaxCycles /\ cycles' = cycles + 1
    /\ tick' = FALSE
    /\ BeginCycle
    /\ UNCHANGED <<rows, prov, db, now, ctxDone, at, steppedBack>>

RefreshOnTick ==
    /\ pc = "select" /\ tick
    /\ IF ctxDone THEN UNCHANGED cycles
                  ELSE cycles < MaxCycles /\ cycles' = cycles + 1
    /\ tick' = FALSE
    /\ BeginCycle
    /\ UNCHANGED <<rows, prov, db, now, ctxDone, at, steppedBack>>

Goroutine == \/ Start \/ CallCollector \/ FinishBuild \/ Save \/ SaveFails
             \/ StopOnDone \/ RefreshOnTick

----------------------------------------------------------------------------
(* The world around it *)

goroutineVars == <<pc, srv, merged, results, at, ticking, cycles, attempted>>

\* A tick that finds one still in the channel is dropped.  Returning from
\* Start stops the ticker.
TickerFires ==
    /\ ticking /\ pc # "stopped"
    /\ ~tick
    /\ tick' = TRUE
    /\ UNCHANGED <<rows, prov, db, now, ctxDone, goroutineVars, records, steppedBack>>

\* SIGINT or SIGTERM, or runServe's deferred cancel.
Cancel ==
    /\ ~ctxDone
    /\ ctxDone' = TRUE
    /\ UNCHANGED <<rows, prov, db, now, goroutineVars, tick, records, steppedBack>>

\* The wall clock runs on, or is set back.
Clock ==
    /\ now' \in (1..MaxTime) \ {now}
    /\ steppedBack' = (steppedBack \/ now' < now)
    /\ UNCHANGED <<rows, prov, db, ctxDone, goroutineVars, tick, records>>

\* The control plane writes a record, possibly for the server being built.
ControlPlane ==
    /\ \E id \in Servers, record \in Records :
          /\ Store!SetProvisioning(id, record)
          /\ records' = IF pc \in {"build", "save"} /\ id = ServerIDs[srv]
                        THEN records \cup {record} ELSE records
    /\ UNCHANGED <<now, ctxDone, goroutineVars, tick, steppedBack>>

World == TickerFires \/ Cancel \/ Clock \/ ControlPlane

----------------------------------------------------------------------------
\* No goroutine yet.
NotStarted == /\ pc = "none"
              /\ srv = 1 /\ merged = NoFacts /\ results = <<>> /\ at = 0
              /\ ticking = FALSE /\ tick = FALSE /\ cycles = 0
              /\ attempted = {} /\ records = {}

Init == /\ Store!StoreInit /\ db = "open" /\ now = 1
        /\ ctxDone = FALSE /\ steppedBack = FALSE
        /\ NotStarted

Next == Goroutine \/ World

Spec == Init /\ [][Next]_vars

\* The Go scheduler runs the goroutine, every collector returns (each has a
\* deadline), and a select that finds ctx.Done() ready again and again does
\* not pick the ticker each time: it chooses at random.
FairSpec == Spec /\ WF_vars(Goroutine) /\ SF_vars(StopOnDone)

----------------------------------------------------------------------------
(* Properties *)

\* A field of merged facts comes from the first of the results that has it
\* set, and is unset only if no result sets it.
FromFirst(typed, from) ==
    \A f \in TypedFields :
        \/ typed[f] = Zero[f] /\ \A k \in DOMAIN from : from[k].facts.typed[f] = Zero[f]
        \/ \E k \in DOMAIN from :
              /\ typed[f] # Zero[f]
              /\ typed[f] = from[k].facts.typed[f]
              /\ \A j \in 1..(k-1) : from[j].facts.typed[f] = Zero[f]

\* Every row on record carries, field by field, what the first collector to
\* know the field reported in that row's own build (merge.go:12-14), however
\* the builds of servers and cycles follow each other.
FirstCollectorWins ==
    \A i \in DOMAIN rows : FromFirst(rows[i].data.facts.typed, rows[i].data.from)

\* What LLDP reported in a build.
Hints(from) == {from[k].facts.typed.FailureDomain :
                  k \in {k \in DOMAIN from : Pipeline[k] = "linux_lldp"}}

\* The provisioning state and failure domain of a row are those of one record
\* that was on file for that server while the row's facts were collected, or of
\* none: never half of one and half of the next, never another server's.  Only
\* a record that names no domain, or a lookup that found none, leaves the
\* domain to LLDP, and then it is a hint of that very build.
NoTornRecord ==
    \A i \in DOMAIN rows :
        LET t == rows[i].data.facts.typed IN
        \E rec \in rows[i].data.records \cup {NoRecord} :
            /\ t.Provisioning = rec.provisioning
            /\ t.FailureDomain \in IF rec.domain # "" THEN {rec.domain}
                                   ELSE {""} \cup Hints(rows[i].data.from)

\* Nothing collected after the cancel is ever on record.  A cycle goes on
\* after the cancel with collectors that now fail, Redfish falling back to
\* its demo facts among them; the save has the same context and refuses.
NoRowCollectedAfterCancel ==
    \A i \in DOMAIN rows : \A k \in DOMAIN rows[i].data.from :
        ~rows[i].data.from[k].late

\* One server's failing collectors or failing save never keep another
\* server out of the batch (refresher.go:33-34): when a cycle is over every
\* server was built in it.
WholeBatchAttempted == pc = "select" => attempted = Servers

\* Unless the clock has stepped back, the single-server API and the fleet
\* queries serve the same row of every server, though one orders by
\* observed_at, stamped before the save, and the other by row id.
QueriesAgree ==
    ~steppedBack => \A id \in Servers :
                        Store!GetLatestFacts(id) = Store!FleetLatest(id)

\* A row called healthy stands on evidence: some collector saw hardware, and
\* the first to report a power state reported the server on.
HealthyHasEvidence ==
    \A i \in DOMAIN rows : rows[i].data.health = "healthy" =>
        LET from == rows[i].data.from
            powered == {k \in DOMAIN from : from[k].facts.typed.PowerState # ""}
        IN /\ \E k \in DOMAIN from : HasHardwareFacts(from[k].facts.typed)
           /\ powered # {} => from[Min(powered)].facts.typed.PowerState = "on"

\* After the cancel Start returns, even with ticks still arriving and a
\* cycle under way.
CancelStopsRefresher == ctxDone ~> pc = "stopped"

\* A cycle that has begun ends, whatever fails in it, and a tick is answered
\* unless the refresher stops.
TickAnswered ==
    /\ pc \in {"build", "save"} ~> pc \in {"select", "panicked"}
    /\ tick /\ (cycles < MaxCycles \/ ctxDone) ~> ~tick \/ pc = "stopped"

----------------------------------------------------------------------------
(* What comments of the code claim and the code does not keep; each is     *)
(* checked on its own, and violated.                                       *)

\* merge.go:16-17, "If every collector fails, BuildServerFacts returns a nil
\* ServerFacts and a combined error": then nothing is saved of such a build.
FailedBuildNeverSaved ==
    \A i \in DOMAIN rows : \E k \in DOMAIN rows[i].data.from :
        ~rows[i].data.from[k].err

\* wave2.go:24-25, "a provisioning failure domain always beats the LLDP
\* hint": a domain on file all through the build is the row's domain.
ProvisioningBeatsHint ==
    \A i \in DOMAIN rows : \A rec \in rows[i].data.records :
        rows[i].data.records = {rec} /\ rec.domain # "" =>
            rows[i].data.facts.typed.FailureDomain \in {"", rec.domain}
=============================================================================
