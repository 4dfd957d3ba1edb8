------------------------------ MODULE RowProofs ------------------------------
(***************************************************************************)
(* What a row on record says and where it has it from, for any servers,    *)
(* hardware and records, and any answers of the collectors: proved of the  *)
(* refresher by itself, and of the process around it, which may crash and  *)
(* start again on the rows it left.                                        *)
(***************************************************************************)
EXTENDS ServeProofs, MCRefresher, SumProofs

----------------------------------------------------------------------------
(* Merging *)

\* The positions of a sequence of results.
LEMMA ResultsLength ==
    ASSUME NEW from \in Seq(Result)
    PROVE  DOMAIN from = 1..Len(from) /\ Len(from) \in Nat
  OBVIOUS

\* mergeInto and the next collector's result: if the merged facts are of the
\* first collectors to know them they still are (merge.go:12-14).
LEMMA MergeFromFirst ==
    ASSUME NEW typed \in Typed, NEW from \in Seq(Result), NEW result \in Result,
           FromFirst(typed, from)
    PROVE  FromFirst(FillGaps(Zero, typed, result.facts.typed), Append(from, result))
  <1> DEFINE src == result.facts.typed
             merge == FillGaps(Zero, typed, src)
             longer == Append(from, result)
             n == Len(from) + 1
  <1>1. /\ DOMAIN longer = 1..n /\ DOMAIN from = 1..(n-1) /\ n \in Nat
        /\ n \in DOMAIN longer /\ longer[n] = result
        /\ \A k \in DOMAIN from : longer[k] = from[k]
    OBVIOUS
  <1>2. \A f \in TypedFields :
           merge[f] = IF typed[f] = Zero[f] THEN src[f] ELSE typed[f]
    BY DEF FillGaps, TypedFields
  <1> SUFFICES ASSUME NEW f \in TypedFields
               PROVE  \/ /\ merge[f] = Zero[f]
                         /\ \A k \in DOMAIN longer : longer[k].facts.typed[f] = Zero[f]
                      \/ \E k \in DOMAIN longer :
                            /\ merge[f] # Zero[f]
                            /\ merge[f] = longer[k].facts.typed[f]
                            /\ \A j \in 1..(k-1) : longer[j].facts.typed[f] = Zero[f]
    BY Zenon DEF FromFirst
  <1> HIDE DEF merge, longer, n, src
  <1>3. \/ typed[f] = Zero[f] /\ \A k \in DOMAIN from : from[k].facts.typed[f] = Zero[f]
        \/ \E k \in DOMAIN from :
              /\ typed[f] # Zero[f]
              /\ typed[f] = from[k].facts.typed[f]
              /\ \A j \in 1..(k-1) : from[j].facts.typed[f] = Zero[f]
    BY Zenon DEF FromFirst
  \* A gap so far: the new result fills it, or it stays.
  <1>4. CASE typed[f] = Zero[f] /\ \A k \in DOMAIN from : from[k].facts.typed[f] = Zero[f]
    <2>1. merge[f] = longer[n].facts.typed[f]
      BY <1>1, <1>2, <1>4 DEF src
    <2>2. \A k \in 1..(n-1) : longer[k].facts.typed[f] = Zero[f]
      BY <1>1, <1>4
    <2>3. \A k \in DOMAIN longer : k = n \/ k \in 1..(n-1)
      BY <1>1
    <2> QED BY <1>1, <2>1, <2>2, <2>3
  \* Known already: it is left alone.
  <1>5. ASSUME NEW k \in DOMAIN from, typed[f] # Zero[f],
               typed[f] = from[k].facts.typed[f],
               \A j \in 1..(k-1) : from[j].facts.typed[f] = Zero[f]
        PROVE  \E m \in DOMAIN longer :
                  /\ merge[f] # Zero[f]
                  /\ merge[f] = longer[m].facts.typed[f]
                  /\ \A j \in 1..(m-1) : longer[j].facts.typed[f] = Zero[f]
    <2>1. k \in DOMAIN longer /\ longer[k] = from[k]
      BY <1>1
    <2>2. merge[f] = typed[f]
      BY <1>2, <1>5
    <2>3. \A j \in 1..(k-1) : j \in DOMAIN from /\ longer[j] = from[j]
      BY <1>1
    <2> QED BY <1>5, <2>1, <2>2, <2>3
  <1> QED BY <1>3, <1>4, <1>5

----------------------------------------------------------------------------
(* What the collectors set of power, state and domain *)

\* The fields of partial facts are those given, else zero values.
LEMMA PartialFields ==
    ASSUME NEW source, NEW set, NEW raw
    PROVE  LET t == Partial(source, set, raw).typed
           IN /\ t.PowerState = IF "PowerState" \in DOMAIN set THEN set.PowerState ELSE ""
              /\ t.Provisioning =
                    IF "Provisioning" \in DOMAIN set THEN set.Provisioning ELSE ""
              /\ t.FailureDomain =
                    IF "FailureDomain" \in DOMAIN set THEN set.FailureDomain ELSE ""
  BY DEF Partial, Over, Zero

\* The spellings of a power state.
PowerWords == {"", "on", "off"}

\* Of the three fields a collector other than the provisioning store and LLDP sets
\* the power alone, to "on", "off" or nothing.
PowerOnly(facts) ==
    /\ facts.typed.PowerState \in PowerWords
    /\ facts.typed.Provisioning = ""
    /\ facts.typed.FailureDomain = ""

\* What a call that gives these facts leaves of the record it read.
OfRecord(facts, record) ==
    /\ facts.typed.PowerState = ""
    /\ \/ facts.typed.Provisioning = "" /\ facts.typed.FailureDomain = ""
       \/ /\ facts.typed.Provisioning = record.provisioning
          /\ facts.typed.FailureDomain = record.domain

\* Facts that set no field leave these unset.
LEMMA PartialEmpty ==
    ASSUME NEW source, NEW raw
    PROVE  /\ PowerOnly(Partial(source, Empty, raw))
           /\ Partial(source, Empty, raw).typed.PowerState = ""
  <1>1. DOMAIN Empty = {}
    BY DEF Empty
  <1> QED BY <1>1, PartialFields DEF PowerOnly, PowerWords

\* Facts that set the power leave the other two unset.
LEMMA PartialPower ==
    ASSUME NEW source, NEW raw, NEW p \in PowerWords
    PROVE  PowerOnly(Partial(source, [PowerState |-> p], raw))
  <1> DEFINE set == [PowerState |-> p]
  <1>1. /\ "PowerState" \in DOMAIN set /\ set.PowerState = p
        /\ "Provisioning" \notin DOMAIN set /\ "FailureDomain" \notin DOMAIN set
    OBVIOUS
  <1> HIDE DEF set
  <1>2. PowerOnly(Partial(source, set, raw))
    BY <1>1, PartialFields DEF PowerOnly
  <1> QED BY <1>2 DEF set

\* LinuxHostCollector.Collect sets none of them.
LEMMA LinuxHostFields ==
    ASSUME NEW cancelled \in BOOLEAN, NEW r \in LinuxHostCollect(cancelled)
    PROVE  PowerOnly(r.facts)
  <1>1. PICK broken \in SUBSET DOMAIN ToolFields :
            LET found == {f \in TypedFields :
                            \E t \in DOMAIN ToolFields \ broken : f \in ToolFields[t]}
            IN r.facts = Partial("linux_host", [f \in found |-> Hardware[f]], Empty)
    BY DEF LinuxHostCollect
  <1> DEFINE found == {f \in TypedFields :
                         \E t \in DOMAIN ToolFields \ broken : f \in ToolFields[t]}
             set == [f \in found |-> Hardware[f]]
  <1>2. found \cap {"PowerState", "Provisioning", "FailureDomain"} = {}
    BY DEF ToolFields
  <1>3. DOMAIN set = found /\ r.facts = Partial("linux_host", set, Empty)
    BY <1>1
  <1>4. /\ "PowerState" \notin DOMAIN set /\ "Provisioning" \notin DOMAIN set
        /\ "FailureDomain" \notin DOMAIN set
    BY <1>2, <1>3
  <1> HIDE DEF found, set
  <1>5. PowerOnly(Partial("linux_host", set, Empty))
    BY <1>4, PartialFields DEF PowerOnly, PowerWords
  <1> QED BY <1>3, <1>5

\* RedfishCollector.Collect sets the power, with a BMC or with the demo facts.
LEMMA RedfishFields ==
    ASSUME NEW cancelled \in BOOLEAN, NEW r \in RedfishCollect(cancelled)
    PROVE  PowerOnly(r.facts)
  <1>1. \/ r = Failed(demoRedfishFacts)
        \/ \E p \in PowerWords :
              r = Ok(Partial("redfish", [PowerState |-> p], [vendor |-> "real"]))
    BY DEF RedfishCollect, PowerWords
  <1>2. PowerOnly(demoRedfishFacts)
    BY PartialPower DEF demoRedfishFacts, PowerWords
  <1>3. CASE r = Failed(demoRedfishFacts)
    BY <1>2, <1>3 DEF Failed
  <1>4. ASSUME NEW p \in PowerWords,
               r = Ok(Partial("redfish", [PowerState |-> p], [vendor |-> "real"]))
        PROVE  PowerOnly(r.facts)
    <2>1. r.facts = Partial("redfish", [PowerState |-> p], [vendor |-> "real"])
      BY <1>4 DEF Ok
    <2> QED BY <2>1, PartialPower
  <1> QED BY <1>1, <1>3, <1>4

\* IPMICollector.Collect too.
LEMMA IPMIFields ==
    ASSUME NEW cancelled \in BOOLEAN, NEW r \in IPMICollect(cancelled)
    PROVE  PowerOnly(r.facts)
  <1>1. \E p \in PowerWords, s \in {"", "ok", "nan"} :
           r = Ok(ipmiFacts(p, s)) \/ r = Failed(ipmiFacts(p, s))
    BY DEF IPMICollect, PowerWords
  <1>2. \A p \in PowerWords : \A s : PowerOnly(ipmiFacts(p, s))
    BY PartialPower DEF ipmiFacts
  <1>3. PICK p \in PowerWords, s \in {"", "ok", "nan"} :
           r = Ok(ipmiFacts(p, s)) \/ r = Failed(ipmiFacts(p, s))
    BY <1>1
  <1>4. r.facts = ipmiFacts(p, s)
    <2>1. CASE r = Ok(ipmiFacts(p, s))
      BY <2>1 DEF Ok
    <2>2. CASE r = Failed(ipmiFacts(p, s))
      BY <2>2 DEF Failed
    <2> QED BY <1>3, <2>1, <2>2
  <1>5. PowerOnly(ipmiFacts(p, s))
    BY <1>2
  <1> QED BY <1>4, <1>5

\* LLDPCollector.Collect sets at most the failure domain.
LEMMA LLDPFields ==
    ASSUME NEW cancelled \in BOOLEAN, NEW r \in LLDPCollect(cancelled)
    PROVE  r.facts.typed.PowerState = "" /\ r.facts.typed.Provisioning = ""
  <1>1. \/ r.facts = Partial("linux_lldp", Empty, Empty)
        \/ \E d : r.facts = Partial("linux_lldp", [FailureDomain |-> d],
                                    [lldp_neighbors |-> "heard"])
    <2> DEFINE none == Partial("linux_lldp", Empty, Empty)
               heard(c) == Partial("linux_lldp", [FailureDomain |-> Hint(c)],
                                   [lldp_neighbors |-> "heard"])
    <2>1. r = Failed(none) \/ r = Ok(none) \/ \E c \in Chassis : r = Ok(heard(c))
      BY DEF LLDPCollect
    <2>2. r.facts = none \/ \E c \in Chassis : r.facts = heard(c)
      BY <2>1 DEF Ok, Failed
    <2> QED BY <2>2
  <1>2. CASE r.facts = Partial("linux_lldp", Empty, Empty)
    BY <1>2, PartialEmpty DEF PowerOnly
  <1>3. ASSUME NEW d, r.facts = Partial("linux_lldp", [FailureDomain |-> d],
                                        [lldp_neighbors |-> "heard"])
        PROVE  r.facts.typed.PowerState = "" /\ r.facts.typed.Provisioning = ""
    <2> DEFINE set == [FailureDomain |-> d]
    <2>1. "PowerState" \notin DOMAIN set /\ "Provisioning" \notin DOMAIN set
      OBVIOUS
    <2>2. r.facts = Partial("linux_lldp", set, [lldp_neighbors |-> "heard"])
      BY <1>3
    <2> HIDE DEF set
    <2>3. LET t == Partial("linux_lldp", set, [lldp_neighbors |-> "heard"]).typed
          IN t.PowerState = "" /\ t.Provisioning = ""
      BY <2>1, PartialFields
    <2> QED BY <2>2, <2>3
  <1> QED BY <1>1, <1>2, <1>3

\* ProvisioningCollector.Collect sets state and domain, of one record, or neither.
LEMMA ProvisioningFields ==
    ASSUME NEW cancelled \in BOOLEAN, NEW record, NEW readable \in BOOLEAN,
           NEW r \in ProvisioningCollect(cancelled, record, readable)
    PROVE  OfRecord(r.facts, record)
  <1> DEFINE set == [Provisioning |-> record.provisioning, FailureDomain |-> record.domain]
  <1>1. \/ r.facts = Partial("provisioning_store", Empty, Empty)
        \/ r.facts = Partial("provisioning_store", set, Empty)
    BY DEF ProvisioningCollect, Ok, Failed
  <1>2. /\ "PowerState" \notin DOMAIN set
        /\ {"Provisioning", "FailureDomain"} \subseteq DOMAIN set
        /\ set.Provisioning = record.provisioning /\ set.FailureDomain = record.domain
    OBVIOUS
  <1> HIDE DEF set
  <1>3. CASE r.facts = Partial("provisioning_store", Empty, Empty)
    BY <1>3, PartialEmpty DEF PowerOnly, OfRecord
  <1>4. CASE r.facts = Partial("provisioning_store", set, Empty)
    <2>1. OfRecord(Partial("provisioning_store", set, Empty), record)
      BY <1>2, PartialFields DEF OfRecord
    <2> QED BY <1>4, <2>1
  <1> QED BY <1>1, <1>3, <1>4

\* What a call of collector c says of the three fields.
TellsFields(c, facts, record) ==
    /\ facts.typed.PowerState \in PowerWords
    /\ c = "provisioning" => OfRecord(facts, record)
    /\ c # "provisioning" => facts.typed.Provisioning = ""
    /\ c \notin {"provisioning", "linux_lldp"} => facts.typed.FailureDomain = ""

\* The same of any result of any collector.
LEMMA CollectFields ==
    ASSUME NEW c \in CollectorNames, NEW cancelled \in BOOLEAN, NEW record,
           NEW readable \in BOOLEAN, NEW r \in Collect(c, cancelled, record, readable)
    PROVE  TellsFields(c, r.facts, record)
  <1>1. CASE c = "linux_host"
    BY <1>1, LinuxHostFields DEF TellsFields, Collect, PowerOnly
  <1>2. CASE c = "redfish"
    BY <1>2, RedfishFields DEF TellsFields, Collect, PowerOnly
  <1>3. CASE c = "provisioning"
    BY <1>3, ProvisioningFields DEF TellsFields, Collect, OfRecord, PowerWords
  <1>4. CASE c = "linux_lldp"
    BY <1>4, LLDPFields DEF TellsFields, Collect, PowerWords
  <1>5. CASE c = "ipmi"
    BY <1>5, IPMIFields DEF TellsFields, Collect, PowerOnly
  <1> QED BY <1>1, <1>2, <1>3, <1>4, <1>5 DEF TellsFields, CollectorNames

----------------------------------------------------------------------------
(* Rows on record *)

\* The only step that changes server_facts is a save, of the build's data.
RowsChange ==
    \/ UNCHANGED rows
    \/ pc = "save" /\ \E row : rows' = Append(rows, row) /\ row.data = Data

\* What a step makes of the facts being built.
BuildStays == UNCHANGED <<merged, results>>
BuildBegins == merged' = NoFacts /\ results' = <<>>
BuildGoesOn ==
    /\ CallCollector
    /\ Calling \in CollectorNames
    /\ \E readable \in BOOLEAN :
       \E r \in Collect(Calling, ctxDone, OnFile, readable) :
          r.facts \in ServerFacts /\ r.err \in BOOLEAN /\ BuildMerges(r)
BuildChange == BuildStays \/ BuildBegins \/ BuildGoesOn

LEMMA SaveAddsRow == Save => RowsChange
  <1> SUFFICES ASSUME Save PROVE RowsChange
    OBVIOUS
  <1> DEFINE row == [server |-> ServerIDs[srv], at |-> IF at = 0 THEN now ELSE at,
                     data |-> Data]
  <1>1. rows' = Append(rows, row) /\ row.data = Data
    BY DEF Save, Store!SaveFacts
  <1> QED BY <1>1 DEF Save, RowsChange

\* So it is for every step of the refresher ...
LEMMA RowsStep ==
    ASSUME [Next]_vars
    PROVE  RowsChange
  <1>1. CASE Save
    BY <1>1, SaveAddsRow
  <1>2. CASE Start \/ CallCollector \/ FinishBuild \/ SaveFails \/ StopOnDone \/ RefreshOnTick
    BY <1>2 DEF Start, CallCollector, FinishBuild, SaveFails, StopOnDone, RefreshOnTick, RowsChange
  <1>3. CASE World \/ UNCHANGED vars
    BY <1>3 DEF World, TickerFires, Cancel, Clock, ControlPlane, Store!SetProvisioning, vars,
       RowsChange
  <1> QED BY <1>1, <1>2, <1>3 DEF Next, Goroutine

\* BuildServerFacts merges what its collectors return, and nothing else touches
\* the facts being built.
LEMMA BuildStep ==
    ASSUME TypeOK, [Next]_vars
    PROVE  BuildChange
  <1>1. CASE CallCollector
    BY <1>1, CallMerges DEF BuildChange, BuildGoesOn
  <1>2. CASE Start \/ FinishBuild \/ Save \/ SaveFails \/ StopOnDone \/ RefreshOnTick
    BY <1>2 DEF Start, FinishBuild, Save, SaveFails, StopOnDone, RefreshOnTick, NextServer,
       BeginCycle, BeginBuild, EndCycle, BuildStays, BuildBegins, BuildChange
  <1>3. CASE World \/ UNCHANGED vars
    BY <1>3 DEF World, TickerFires, Cancel, Clock, ControlPlane, goroutineVars, vars, BuildStays,
       BuildChange
  <1> QED BY <1>1, <1>2, <1>3 DEF Next, Goroutine

\* The steps of the process that are none of the refresher's and of the world's:
\* a start, a record seeded and the deferred calls leave all of these alone.
Aside ==
    /\ UNCHANGED <<rows, now, steppedBack, goroutineVars, records>>
    /\ ctxDone' \in {ctxDone, TRUE}

LEMMA ServeKindOfStep ==
    ASSUME [ServeNext]_serveVars
    PROVE  \/ [Next]_vars \/ Gone
           \/ (Boot \/ SeedSet \/ DeferredCancel \/ DeferredClose) /\ Aside
  <1>1. CASE Goroutine \/ StartGoroutines \/ ServeWorld \/ UNCHANGED vars
    BY <1>1 DEF Next, Goroutine, World, StartGoroutines, ServeWorld
  <1>2. CASE Boot \/ SeedSet \/ DeferredCancel \/ DeferredClose
    BY <1>2 DEF Boot, SeedSet, DeferredCancel, DeferredClose, Aside, Store!OpenStore,
       Store!CloseStore, Store!SetProvisioning
  <1> QED BY <1>1, <1>2, ServeStep

\* ... and of the process: its end leaves the rows, and no build.
LEMMA ServeRowsChange ==
    ASSUME ServeInv, [ServeNext]_serveVars
    PROVE  RowsChange
  <1>1. CASE Save
    BY <1>1, SaveAddsRow
  <1> QED BY <1>1, ServeRowsStep DEF RowsChange

LEMMA ServeBuildChange ==
    ASSUME ServeInv, [ServeNext]_serveVars
    PROVE  BuildChange
  <1>1. CASE [Next]_vars
    BY <1>1, BuildStep DEF ServeInv
  <1>2. CASE Gone
    BY <1>2 DEF Gone, BuildBegins, BuildChange
  <1>3. CASE Aside
    BY <1>3 DEF Aside, goroutineVars, BuildStays, BuildChange
  <1> QED BY <1>1, <1>2, <1>3, ServeKindOfStep

\* If the data of every row is good, and so is what a build about to be saved has,
\* then the data of every row stays good.
LEMMA RowsStayGood ==
    ASSUME TypeOK, RowsChange, NEW Good,
           \A i \in DOMAIN rows : rows[i].data \in Good,
           pc = "save" => Data \in Good
    PROVE  \A i \in DOMAIN rows' : rows'[i].data \in Good
  <1>1. CASE UNCHANGED rows
    BY <1>1
  <1>2. ASSUME pc = "save", NEW row, rows' = Append(rows, row), row.data = Data
        PROVE  \A i \in DOMAIN rows' : rows'[i].data \in Good
    <2>1. rows \in Seq(Store!Row)
      BY DEF TypeOK, Store!StoreTypeOK
    <2>2. /\ \A i \in DOMAIN rows' : i \in DOMAIN rows \/ i = Len(rows) + 1
          /\ \A i \in DOMAIN rows : rows'[i] = rows[i]
          /\ rows'[Len(rows) + 1] = row
      BY <1>2, <2>1
    <2> QED BY <1>2, <2>2
  <1> QED BY <1>1, <1>2 DEF RowsChange

----------------------------------------------------------------------------
(* Each field from the first collector that knew it *)

\* The data of rows whose fields are of the first collectors to know them.
FirstData == {d \in Payload : FromFirst(d.facts.typed, d.from)}

\* So are those of the build under way, and of every row.
FirstInv ==
    /\ FromFirst(merged.typed, results)
    /\ \A i \in DOMAIN rows : rows[i].data \in FirstData

\* What a save would write of the build.
LEMMA DataFields ==
    ASSUME TypeOK
    PROVE  /\ Data \in Payload
           /\ Data.facts.typed = merged.typed /\ Data.from = results
           /\ Data.records = records /\ Data.health = InferHealth(merged)
  <1>1. merged \in ServerFacts
    BY DEF TypeOK
  <1>2. [merged EXCEPT !.caps = InferCapabilities(merged)].typed = merged.typed
    BY <1>1 DEF ServerFacts
  <1> QED BY <1>2, DataType DEF Data

\* Facts nobody has told anything yet come from no result.
LEMMA NothingFromFirst == FromFirst(NoFacts.typed, <<>>)
  BY DEF FromFirst, NoFacts

\* The induction step: builds and rows alike are of the first to know.
LEMMA FirstStep ==
    ASSUME TypeOK, FirstInv, RowsChange, BuildChange
    PROVE  FirstInv'
  <1>1. FromFirst(merged.typed, results)'
    <2>1. CASE BuildStays
      BY <2>1 DEF BuildStays, FirstInv, FromFirst
    <2>2. CASE BuildBegins
      BY <2>2, NothingFromFirst DEF BuildBegins, FromFirst
    <2>3. ASSUME NEW r, r.facts \in ServerFacts, r.err \in BOOLEAN, BuildMerges(r)
          PROVE  FromFirst(merged.typed, results)'
      <3> DEFINE result == [facts |-> r.facts, err |-> r.err, late |-> ctxDone]
      <3>1. result \in Result
        BY <2>3 DEF TypeOK, Result
      <3>2. results' = Append(results, result) /\ result.facts = r.facts
        BY <2>3 DEF BuildMerges
      <3> HIDE DEF result
      <3>3. merged'.typed = FillGaps(Zero, merged.typed, result.facts.typed)
        BY <2>3, <3>2 DEF BuildMerges, mergeInto
      <3>4. merged.typed \in Typed /\ results \in Seq(Result)
        BY DEF TypeOK, ServerFacts
      <3>5. FromFirst(FillGaps(Zero, merged.typed, result.facts.typed),
                      Append(results, result))
        BY <3>1, <3>4, MergeFromFirst DEF FirstInv
      <3> QED BY <3>2, <3>3, <3>5 DEF FromFirst
    <2> QED BY <2>1, <2>2, <2>3 DEF BuildChange, BuildGoesOn
  <1>2. Data \in FirstData
    BY DataFields DEF FirstData, FirstInv
  <1>3. \A i \in DOMAIN rows' : rows'[i].data \in FirstData
    BY <1>2, RowsStayGood DEF FirstInv
  <1> QED BY <1>1, <1>3 DEF FirstInv, FirstData, Payload

\* The inductive invariant, of the refresher and of the process.
LEMMA FirstInvariant == (Spec => []FirstInv) /\ (ServeSpec => []FirstInv)
  <1>1. (Init => FirstInv) /\ (ServeInit => FirstInv)
    BY NothingFromFirst DEF Init, ServeInit, NotStarted, Store!StoreInit, FirstInv
  <1>2. TypeOK /\ FirstInv /\ [Next]_vars => FirstInv'
    BY FirstStep, RowsStep, BuildStep
  <1>3. ServeInv /\ FirstInv /\ [ServeNext]_serveVars => FirstInv'
    BY FirstStep, ServeRowsChange, ServeBuildChange DEF ServeInv
  <1>4. Spec => []FirstInv
    BY <1>1, <1>2, RefresherTypeCorrect, PTL DEF Spec
  <1>5. ServeSpec => []FirstInv
    BY <1>1, <1>3, ServeInvariant, PTL DEF ServeSpec
  <1> QED BY <1>4, <1>5

\* Its rows are what the property asks for.
LEMMA FirstShows == FirstInv => FirstCollectorWins
  BY DEF FirstInv, FirstData, FirstCollectorWins

\* Every row on record carries, field by field, what the first collector to know
\* the field reported in that row's own build (merge.go:12-14), for any pipeline
\* and whatever the collectors answer.
THEOREM RowsFromFirst == Spec => []FirstCollectorWins
  BY FirstInvariant, FirstShows, PTL

\* And on record in the process, through crashes, starts and its shutdown.
THEOREM ServeRowsFromFirst == ServeSpec => []FirstCollectorWins
  BY FirstInvariant, FirstShows, PTL

----------------------------------------------------------------------------
(* A healthy row stands on evidence *)

\* Some result saw hardware, and the first that knew the power state said "on".
HasEvidence(from) ==
    LET powered == {k \in DOMAIN from : from[k].facts.typed.PowerState # ""}
    IN /\ \E k \in DOMAIN from : HasHardwareFacts(from[k].facts.typed)
       /\ powered # {} => from[Min(powered)].facts.typed.PowerState = "on"

EvidentData == {d \in Payload : d.health = "healthy" => HasEvidence(d.from)}

\* No collector words the power state in any other way.
EvidenceInv ==
    /\ FirstInv
    /\ \A k \in DOMAIN results : results[k].facts.typed.PowerState \in PowerWords
    /\ \A i \in DOMAIN rows : rows[i].data \in EvidentData

\* A position with none of the set before it is the least of them.
LEMMA FirstIsMin ==
    ASSUME NEW from \in Seq(Result), NEW S \in SUBSET DOMAIN from, NEW k \in S,
           \A j \in 1..(k-1) : j \notin S
    PROVE  Min(S) = k
  <1>1. /\ DOMAIN from = 1..Len(from) /\ Len(from) \in Nat
        /\ \A j \in S : j \in 1..Len(from)
    BY ResultsLength
  <1>2. \A j \in S : k <= j
    BY <1>1
  <1>3. \A m \in S : (\A j \in S : m <= j) => m = k
    BY <1>1, <1>2
  <1>4. Min(S) \in S /\ \A j \in S : Min(S) <= j
    BY <1>2 DEF Min
  <1> QED BY <1>3, <1>4

\* InferHealth's verdict on merged facts, traced back to the results they are of.
LEMMA HealthyEvidence ==
    ASSUME NEW f \in ServerFacts, NEW from \in Seq(Result), FromFirst(f.typed, from),
           \A k \in DOMAIN from : from[k].facts.typed.PowerState \in PowerWords,
           InferHealth(f) = "healthy"
    PROVE  HasEvidence(from)
  <1>1. /\ HasHardwareFacts(f.typed)
        /\ f.typed.PowerState # "" => Folded(f.typed.PowerState) = "on"
    BY DEF InferHealth
  <1>2. \A g \in TypedFields : f.typed[g] # Zero[g] =>
           \E k \in DOMAIN from : f.typed[g] = from[k].facts.typed[g]
    BY Zenon DEF FromFirst
  <1>3. /\ {"PowerState", "Cores", "MemoryGB", "Disks", "NICs"} \subseteq TypedFields
        /\ Zero["PowerState"] = "" /\ Zero["Cores"] = 0 /\ Zero["MemoryGB"] = 0
        /\ Zero["Disks"] = {} /\ Zero["NICs"] = {}
    BY DEF TypedFields, Zero
  <1>4. \E k \in DOMAIN from : HasHardwareFacts(from[k].facts.typed)
    <2>0. f.typed.Cores \in Nat /\ f.typed.MemoryGB \in Nat
      BY DEF ServerFacts, Typed
    <2>1. CASE f.typed.Cores > 0
      <3>0. f.typed.Cores # 0
        BY <2>0, <2>1
      <3>1. f.typed["Cores"] # Zero["Cores"]
        BY <1>3, <3>0, Zenon
      <3>2. PICK k \in DOMAIN from : f.typed["Cores"] = from[k].facts.typed["Cores"]
        BY <1>2, <1>3, <3>1, Zenon
      <3> QED BY <2>1, <3>2 DEF HasHardwareFacts
    <2>2. CASE f.typed.MemoryGB > 0
      <3>0. f.typed.MemoryGB # 0
        BY <2>0, <2>2
      <3>1. f.typed["MemoryGB"] # Zero["MemoryGB"]
        BY <1>3, <3>0, Zenon
      <3>2. PICK k \in DOMAIN from : f.typed["MemoryGB"] = from[k].facts.typed["MemoryGB"]
        BY <1>2, <1>3, <3>1, Zenon
      <3> QED BY <2>2, <3>2 DEF HasHardwareFacts
    <2>3. CASE f.typed.Disks # {}
      <3>1. PICK k \in DOMAIN from : f.typed["Disks"] = from[k].facts.typed["Disks"]
        BY <1>2, <1>3, <2>3, Zenon
      <3> QED BY <2>3, <3>1 DEF HasHardwareFacts
    <2>4. CASE f.typed.NICs # {}
      <3>1. PICK k \in DOMAIN from : f.typed["NICs"] = from[k].facts.typed["NICs"]
        BY <1>2, <1>3, <2>4, Zenon
      <3> QED BY <2>4, <3>1 DEF HasHardwareFacts
    <2> QED BY <1>1, <2>1, <2>2, <2>3, <2>4 DEF HasHardwareFacts
  <1> DEFINE powered == {k \in DOMAIN from : from[k].facts.typed.PowerState # ""}
  <1>5. ASSUME powered # {}
        PROVE  from[Min(powered)].facts.typed.PowerState = "on"
    <2>1. PICK k \in DOMAIN from :
             /\ f.typed["PowerState"] # ""
             /\ f.typed["PowerState"] = from[k].facts.typed["PowerState"]
             /\ \A j \in 1..(k-1) : from[j].facts.typed["PowerState"] = ""
      <3>1. PICK m \in DOMAIN from : from[m].facts.typed["PowerState"] # ""
        BY <1>5
      <3>2. \E k \in DOMAIN from :
               /\ f.typed["PowerState"] = from[k].facts.typed["PowerState"]
               /\ f.typed["PowerState"] # Zero["PowerState"]
               /\ \A j \in 1..(k-1) : from[j].facts.typed["PowerState"] = Zero["PowerState"]
        BY <1>3, <3>1, Zenon DEF FromFirst
      <3> QED BY <1>3, <3>2
    <2>2. k \in powered /\ \A j \in 1..(k-1) : j \notin powered
      BY <2>1
    <2>3. Min(powered) = k
      <3>1. powered \in SUBSET DOMAIN from
        OBVIOUS
      <3> HIDE DEF powered
      <3> QED BY <2>2, <3>1, FirstIsMin
    <2>4. from[k].facts.typed.PowerState \in {"on", "off"}
      BY <2>1 DEF PowerWords
    <2>5. Folded(from[k].facts.typed.PowerState) = "on"
      BY <1>1, <2>1
    <2>6. Folded("off") # "on"
      BY DEF Folded
    <2> QED BY <2>3, <2>4, <2>5, <2>6
  <1> QED BY <1>4, <1>5 DEF HasEvidence

\* The induction step: no collector of a build, and so no row, words the power in
\* any other way.
LEMMA EvidenceStep ==
    ASSUME TypeOK, EvidenceInv, FirstInv', RowsChange, BuildChange
    PROVE  EvidenceInv'
  <1>1. \A k \in DOMAIN results' : results'[k].facts.typed.PowerState \in PowerWords
    <2>1. CASE BuildStays
      BY <2>1 DEF BuildStays, EvidenceInv
    <2>2. CASE BuildBegins
      BY <2>2 DEF BuildBegins
    <2>3. ASSUME Calling \in CollectorNames, NEW readable \in BOOLEAN,
                 NEW r \in Collect(Calling, ctxDone, OnFile, readable), BuildMerges(r)
          PROVE  \A k \in DOMAIN results' :
                    results'[k].facts.typed.PowerState \in PowerWords
      <3> DEFINE result == [facts |-> r.facts, err |-> r.err, late |-> ctxDone]
      <3>1. results' = Append(results, result) /\ result.facts = r.facts
        BY <2>3 DEF BuildMerges
      <3> HIDE DEF result
      <3>2. r.facts.typed.PowerState \in PowerWords
        BY <2>3, CollectFields DEF TypeOK, TellsFields
      <3>3. results \in Seq(Result)
        BY DEF TypeOK
      <3>4. \A k \in DOMAIN results' : k \in DOMAIN results \/ k = Len(results) + 1
        BY <3>1, <3>3
      <3>5. /\ \A k \in DOMAIN results : results'[k] = results[k]
            /\ results'[Len(results) + 1] = result
        BY <3>1, <3>3
      <3>6. \A k \in DOMAIN results :
               results'[k].facts.typed.PowerState \in PowerWords
        BY <3>5 DEF EvidenceInv
      <3>7. results'[Len(results) + 1].facts.typed.PowerState \in PowerWords
        BY <3>1, <3>2, <3>5
      <3> QED BY <3>4, <3>6, <3>7, Zenon
    <2> QED BY <2>1, <2>2, <2>3 DEF BuildChange, BuildGoesOn
  <1>2. Data \in EvidentData
    <2>1. /\ merged \in ServerFacts /\ results \in Seq(Result)
          /\ FromFirst(merged.typed, results)
      BY DEF TypeOK, EvidenceInv, FirstInv
    <2>2. \A k \in DOMAIN results : results[k].facts.typed.PowerState \in PowerWords
      BY DEF EvidenceInv
    <2>3. InferHealth(merged) = "healthy" => HasEvidence(results)
      BY <2>1, <2>2, HealthyEvidence
    <2>4. Data \in Payload /\ Data.from = results /\ Data.health = InferHealth(merged)
      BY DataFields
    <2> QED BY <2>3, <2>4, Zenon DEF EvidentData
  <1>3. \A i \in DOMAIN rows' : rows'[i].data \in EvidentData
    BY <1>2, RowsStayGood DEF EvidenceInv
  <1> QED BY <1>1, <1>3, Zenon DEF EvidenceInv, EvidentData, HasEvidence, Payload, HasHardwareFacts

\* The inductive invariant, of the refresher and of the process.
LEMMA EvidenceInvariant == (Spec => []EvidenceInv) /\ (ServeSpec => []EvidenceInv)
  <1>1. (Init => EvidenceInv) /\ (ServeInit => EvidenceInv)
    BY NothingFromFirst DEF Init, ServeInit, NotStarted, Store!StoreInit, FirstInv, EvidenceInv
  <1>2. TypeOK /\ EvidenceInv /\ FirstInv' /\ [Next]_vars => EvidenceInv'
    BY EvidenceStep, RowsStep, BuildStep
  <1>3. ServeInv /\ EvidenceInv /\ FirstInv' /\ [ServeNext]_serveVars => EvidenceInv'
    BY EvidenceStep, ServeRowsChange, ServeBuildChange DEF ServeInv
  <1>4. Spec => []EvidenceInv
    BY <1>1, <1>2, FirstInvariant, RefresherTypeCorrect, PTL DEF Spec
  <1>5. ServeSpec => []EvidenceInv
    BY <1>1, <1>3, FirstInvariant, ServeInvariant, PTL DEF ServeSpec
  <1> QED BY <1>4, <1>5

\* Its rows are what the property asks for.
LEMMA EvidenceShows == EvidenceInv => HealthyHasEvidence
  BY Zenon DEF EvidenceInv, EvidentData, HasEvidence, HealthyHasEvidence

\* A row called healthy has hardware that some collector saw, and the first to
\* report a power state reported the server on (infer.go:61-83).
THEOREM HealthIsEvident == Spec => []HealthyHasEvidence
  BY EvidenceInvariant, EvidenceShows, PTL

\* And in the process, where nothing but a save of such a build writes a row.
THEOREM ServeHealthIsEvident == ServeSpec => []HealthyHasEvidence
  BY EvidenceInvariant, EvidenceShows, PTL

----------------------------------------------------------------------------
(* No torn record *)

\* The domain is the record's own or, if it names none, a hint of the build.
DomainFits(domain, rec, from) ==
    domain \in IF rec.domain # "" THEN {rec.domain} ELSE {""} \cup Hints(from)

\* State and domain are those of one of these records, or of none.
OfOneRecord(typed, recs, from) ==
    \E rec \in recs \cup {NoRecord} :
        /\ typed.Provisioning = rec.provisioning
        /\ DomainFits(typed.FailureDomain, rec, from)

LEMMA NoRecordFields == NoRecord.provisioning = "" /\ NoRecord.domain = ""
  BY Zenon DEF NoRecord

WholeData == {d \in Payload : OfOneRecord(d.facts.typed, d.records, d.from)}

\* The provisioning store is still to be asked in this build.
StillToAsk == \E i \in DOMAIN Pipeline : i > Len(results) /\ Pipeline[i] = "provisioning"

\* The record on file is among those noted for the build; until it is asked for
\* there is no state and no domain that could be mixed with it.
TornInv ==
    /\ pc = "build" => OnFile \in records
    /\ StillToAsk => merged.typed.Provisioning = "" /\ merged.typed.FailureDomain = ""
    /\ OfOneRecord(merged.typed, records, results)
    /\ \A i \in DOMAIN rows : rows[i].data \in WholeData

\* mergeInto, for the two fields of a record.
LEMMA MergeFields ==
    ASSUME NEW dst, NEW src
    PROVE  LET t == mergeInto(dst, src).typed
           IN /\ t.Provisioning = IF dst.typed.Provisioning = "" THEN src.typed.Provisioning
                                  ELSE dst.typed.Provisioning
              /\ t.FailureDomain = IF dst.typed.FailureDomain = "" THEN src.typed.FailureDomain
                                   ELSE dst.typed.FailureDomain
  BY DEF mergeInto, FillGaps, Zero

\* A record that is noted stays noted until the next build begins, and the one on
\* file is noted when a build begins and when the control plane writes it.
RecordsChange ==
    /\ BuildBegins \/ records \subseteq records'
    /\ (pc = "build" => OnFile \in records)'

LEMMA RecordsNoted ==
    ASSUME TypeOK, TornInv, [Next]_vars
    PROVE  RecordsChange
  <1>1. CASE Start \/ FinishBuild \/ Save \/ SaveFails \/ StopOnDone \/ RefreshOnTick
    <2>1. UNCHANGED prov
      BY <1>1 DEF Start, FinishBuild, Save, SaveFails, StopOnDone, RefreshOnTick,
         Store!SaveFacts
    <2>2. \/ \E n \in {1, srv + 1} : BeginBuild(n)
          \/ UNCHANGED records /\ pc' # "build"
      BY <1>1 DEF Start, FinishBuild, Save, SaveFails, StopOnDone, RefreshOnTick, NextServer,
         BeginCycle, EndCycle, history
    <2> QED BY <2>1, <2>2 DEF BeginBuild, BuildBegins, OnFile, RecordsChange
  <1>2. CASE CallCollector
    BY <1>2 DEF CallCollector, history, OnFile, TornInv, RecordsChange
  <1>3. CASE ControlPlane
    <2>1. PICK id \in Servers, record \in Records :
            /\ prov' = [prov EXCEPT ![id] = record]
            /\ records' = IF pc \in {"build", "save"} /\ id = ServerIDs[srv]
                          THEN records \cup {record} ELSE records
      BY <1>3 DEF ControlPlane, Store!SetProvisioning
    <2>2. UNCHANGED <<pc, srv>>
      BY <1>3 DEF ControlPlane, goroutineVars
    <2>3. ASSUME pc = "build"
          PROVE  prov'[ServerIDs[srv]] \in records'
      <3>1. ServerIDs[srv] \in Servers /\ prov \in [Servers -> Records \cup {NoRecord}]
        BY <2>3, ServerIDsType DEF TypeOK, Store!StoreTypeOK
      <3> QED BY <2>1, <2>3, <3>1 DEF TornInv, OnFile
    <2> QED BY <2>1, <2>2, <2>3 DEF OnFile, RecordsChange
  <1>4. CASE TickerFires \/ Cancel \/ Clock \/ UNCHANGED vars
    BY <1>4 DEF TickerFires, Cancel, Clock, goroutineVars, vars, history, OnFile, TornInv,
       RecordsChange
  <1> QED BY <1>1, <1>2, <1>3, <1>4 DEF Next, Goroutine, World

\* In the process the seeding writes a record before there is a build, and the end
\* of the process forgets the build.
LEMMA ServeRecordsNoted ==
    ASSUME ServeInv, TornInv, [ServeNext]_serveVars
    PROVE  RecordsChange
  <1>1. CASE [Next]_vars
    BY <1>1, RecordsNoted DEF ServeInv
  <1>2. CASE Gone
    BY <1>2 DEF Gone, BuildBegins, RecordsChange
  <1>3. CASE SeedSet
    <2>1. pc' # "build" /\ records' = records
      BY <1>3 DEF SeedSet, Main, goroutineVars, ServeInv, Starting
    <2> QED BY <2>1 DEF RecordsChange
  <1>4. CASE (Boot \/ DeferredCancel \/ DeferredClose) /\ Aside
    BY <1>4 DEF Boot, DeferredCancel, DeferredClose, Aside, goroutineVars, OnFile, TornInv,
       RecordsChange, Store!OpenStore, Store!CloseStore
  <1> QED BY <1>1, <1>2, <1>3, <1>4, ServeKindOfStep

\* A collector call keeps state and domain together.
LEMMA CallKeepsRecord ==
    ASSUME TypeOK, TornInv, CallCollector, Calling \in CollectorNames,
           NEW readable \in BOOLEAN,
           NEW r \in Collect(Calling, ctxDone, OnFile, readable), BuildMerges(r)
    PROVE  /\ OfOneRecord(merged'.typed, records, results')
           /\ StillToAsk' => merged'.typed.Provisioning = "" /\ merged'.typed.FailureDomain = ""
  <1> DEFINE n == Len(results) + 1
             dst == merged.typed
             src == r.facts.typed
             t == merged'.typed
  <1>1. results \in Seq(Result) /\ ctxDone \in BOOLEAN
    BY DEF TypeOK
  <1>2. n \in DOMAIN Pipeline /\ n > Len(results) /\ n \in Nat /\ Calling = Pipeline[n]
    BY <1>1, RefresherAssumption DEF CallCollector, Calling
  <1>3. Len(results') = n
    BY <1>1 DEF BuildMerges
  <1>4. /\ t.Provisioning = IF dst.Provisioning = "" THEN src.Provisioning ELSE dst.Provisioning
        /\ t.FailureDomain = IF dst.FailureDomain = "" THEN src.FailureDomain
                             ELSE dst.FailureDomain
    BY MergeFields DEF BuildMerges
  <1>5. /\ Calling = "provisioning" => OfRecord(r.facts, OnFile)
        /\ Calling # "provisioning" => src.Provisioning = ""
        /\ Calling \notin {"provisioning", "linux_lldp"} => src.FailureDomain = ""
    <2> HIDE DEF n, dst, t
    <2>1. Calling \in CollectorNames /\ r \in Collect(Calling, ctxDone, OnFile, readable)
      OBVIOUS
    <2>2. TellsFields(Calling, r.facts, OnFile)
      BY <1>1, <2>1, CollectFields
    <2> QED BY <2>2 DEF TellsFields
  \* What comes after the two is not the provisioning store (PipelineAssumption).
  <1>6. StillToAsk' => StillToAsk /\ Calling \notin {"provisioning", "linux_lldp"}
    <2> SUFFICES ASSUME NEW i \in DOMAIN Pipeline, i > n, Pipeline[i] = "provisioning"
                 PROVE  StillToAsk /\ Calling \notin {"provisioning", "linux_lldp"}
      BY <1>3 DEF StillToAsk
    <2>1. i \in Nat /\ ~(i <= n)
      BY <1>2, RefresherAssumption
    <2>2. Calling \notin {"provisioning", "linux_lldp"}
      BY <1>2, <2>1, PipelineAssumption
    <2>3. i > Len(results)
      BY <1>1, <2>1
    <2> QED BY <2>2, <2>3 DEF StillToAsk
  <1>9. /\ Hints(results) \subseteq Hints(results')
        /\ Calling = "linux_lldp" => src.FailureDomain \in Hints(results')
    <2>1. /\ DOMAIN results' = DOMAIN results \cup {n}
          /\ \A k \in DOMAIN results : results'[k] = results[k]
          /\ results'[n].facts = r.facts
      BY <1>1 DEF BuildMerges
    <2> HIDE DEF n
    <2> QED BY <1>2, <2>1 DEF Hints
  <1> HIDE DEF n, dst, src, t
  <1>7. CASE Calling = "provisioning"
    <2>1. dst.Provisioning = "" /\ dst.FailureDomain = ""
      BY <1>2, <1>7 DEF TornInv, StillToAsk, dst
    <2>2. \/ src.Provisioning = "" /\ src.FailureDomain = ""
          \/ src.Provisioning = OnFile.provisioning /\ src.FailureDomain = OnFile.domain
      BY <1>5, <1>7 DEF OfRecord, src
    <2>3. PICK rec \in records \cup {NoRecord} :
             src.Provisioning = rec.provisioning /\ src.FailureDomain = rec.domain
      BY <2>2, NoRecordFields DEF TornInv, CallCollector
    <2>4. OfOneRecord(t, records, results')
      BY <1>4, <2>1, <2>3 DEF OfOneRecord, DomainFits
    <2> QED BY <1>6, <1>7, <2>4 DEF t
  <1>8. CASE Calling # "provisioning"
    <2>1. PICK rec \in records \cup {NoRecord} :
             dst.Provisioning = rec.provisioning /\ DomainFits(dst.FailureDomain, rec, results)
      BY DEF TornInv, OfOneRecord, dst
    <2>2. t.Provisioning = dst.Provisioning
      BY <1>4, <1>5, <1>8 DEF src
    <2>3. DomainFits(t.FailureDomain, rec, results')
      <3>1. CASE dst.FailureDomain # ""
        BY <1>4, <1>9, <2>1, <3>1 DEF DomainFits
      <3>2. CASE dst.FailureDomain = ""
        <4>1. rec.domain = ""
          BY <2>1, <3>2 DEF DomainFits
        <4>2. t.FailureDomain = src.FailureDomain
          BY <1>4, <3>2
        <4>3. src.FailureDomain \in {""} \cup Hints(results')
          BY <1>5, <1>8, <1>9 DEF src
        <4> QED BY <4>1, <4>2, <4>3 DEF DomainFits
      <3> QED BY <3>1, <3>2
    <2>4. OfOneRecord(t, records, results')
      BY <2>1, <2>2, <2>3 DEF OfOneRecord
    <2>5. StillToAsk' => t.Provisioning = "" /\ t.FailureDomain = ""
      BY <1>4, <1>5, <1>6, <1>8 DEF TornInv, dst, src
    <2> QED BY <2>4, <2>5 DEF t
  <1> QED BY <1>7, <1>8

\* The induction step.
LEMMA TornStep ==
    ASSUME TypeOK, TornInv, RowsChange, BuildChange, RecordsChange
    PROVE  TornInv'
  <1>1. /\ (OfOneRecord(merged.typed, records, results))'
        /\ (StillToAsk => merged.typed.Provisioning = "" /\ merged.typed.FailureDomain = "")'
    <2>1. CASE BuildBegins
      <3>1. (merged.typed.Provisioning = "" /\ merged.typed.FailureDomain = "")'
        BY <2>1 DEF BuildBegins, NoFacts, Zero
      <3>2. OfOneRecord(merged'.typed, records', results')
        BY <3>1, NoRecordFields DEF OfOneRecord, DomainFits
      <3> QED BY <3>1, <3>2 DEF OfOneRecord
    <2>2. CASE BuildStays /\ ~BuildBegins
      <3>1. records \subseteq records' /\ merged' = merged /\ results' = results
        BY <2>2 DEF RecordsChange, BuildStays
      <3>2. OfOneRecord(merged'.typed, records', results')
        BY <3>1 DEF OfOneRecord, TornInv
      <3>3. StillToAsk' <=> StillToAsk
        BY <3>1 DEF StillToAsk
      <3> QED BY <3>1, <3>2, <3>3 DEF OfOneRecord, TornInv
    <2>3. ASSUME CallCollector, Calling \in CollectorNames, NEW readable \in BOOLEAN,
                 NEW r \in Collect(Calling, ctxDone, OnFile, readable), BuildMerges(r)
          PROVE  /\ (OfOneRecord(merged.typed, records, results))'
                 /\ (StillToAsk =>
                       merged.typed.Provisioning = "" /\ merged.typed.FailureDomain = "")'
      <3>1. records' = records
        BY <2>3 DEF CallCollector, history
      <3> QED BY <2>3, <3>1, CallKeepsRecord DEF OfOneRecord
    <2> QED BY <2>1, <2>2, <2>3 DEF BuildChange, BuildGoesOn
  <1>2. Data \in WholeData
    BY DataFields DEF WholeData, TornInv
  <1>3. \A i \in DOMAIN rows' : rows'[i].data \in WholeData
    BY <1>2, RowsStayGood DEF TornInv
  <1>4. (pc = "build" => OnFile \in records)'
    BY DEF RecordsChange
  <1> QED BY <1>1, <1>3, <1>4 DEF TornInv, WholeData, OfOneRecord, Payload

LEMMA TornInit == Init \/ ServeInit => TornInv
  <1> SUFFICES ASSUME Init \/ ServeInit PROVE TornInv
    OBVIOUS
  <1>1. pc = "none" /\ rows = <<>> /\ merged = NoFacts
    BY DEF Init, ServeInit, NotStarted, Store!StoreInit
  <1>2. NoFacts.typed.Provisioning = "" /\ NoFacts.typed.FailureDomain = ""
    BY DEF NoFacts, Zero
  <1>3. OfOneRecord(merged.typed, records, results)
    BY <1>1, <1>2, NoRecordFields DEF OfOneRecord, DomainFits
  <1>4. DOMAIN rows = {}
    BY <1>1
  <1> QED BY <1>1, <1>2, <1>3, <1>4 DEF TornInv

\* Its rows are what the property asks for.
LEMMA TornShows == TornInv => NoTornRecord
  <1> SUFFICES ASSUME TornInv, NEW i \in DOMAIN rows
               PROVE  OfOneRecord(rows[i].data.facts.typed, rows[i].data.records,
                                  rows[i].data.from)
    BY DEF OfOneRecord, DomainFits, NoTornRecord
  <1> QED BY DEF TornInv, WholeData

\* The provisioning state and the failure domain of a row are those of one record
\* that was on file while the row was collected, or of none, however the control
\* plane rewrites it (provisioning.go, wave2.go:24-25), for any pipeline that asks
\* the store once and before LLDP; the domain is LLDP's hint of that build only
\* where that record names none.
THEOREM RecordsAreWhole == Spec => []NoTornRecord
  <1>1. TypeOK /\ TornInv /\ [Next]_vars => TornInv'
    BY TornStep, RowsStep, BuildStep, RecordsNoted
  <1> QED BY <1>1, TornInit, TornShows, RefresherTypeCorrect, PTL DEF Spec

\* And in the process, which seeds records of its own before it collects.
THEOREM ServeRecordsAreWhole == ServeSpec => []NoTornRecord
  <1>1. ServeInv /\ TornInv /\ [ServeNext]_serveVars => TornInv'
    BY TornStep, ServeRowsChange, ServeBuildChange, ServeRecordsNoted DEF ServeInv
  <1> QED BY <1>1, TornInit, TornShows, ServeInvariant, PTL DEF ServeSpec

----------------------------------------------------------------------------
(* What the refresher keeps to by itself it keeps to in the process *)

\* Neither a cancel by the deferred call nor a crash in the middle of a build puts
\* on record what was collected after a cancel (main.go:204-206).
THEOREM ServeCancelKeepsRecordClean == ServeSpec => []NoRowCollectedAfterCancel
  <1>1. ServeInit => NoLateResult /\ NoRowCollectedAfterCancel
    BY DEF ServeInit, NotStarted, Store!StoreInit, NoLateResult, NoRowCollectedAfterCancel
  <1>2. ASSUME ServeInv, NoLateResult, NoRowCollectedAfterCancel, [ServeNext]_serveVars
        PROVE  NoLateResult' /\ NoRowCollectedAfterCancel'
    <2>1. CASE [Next]_vars
      BY <1>2, <2>1, CancelStep DEF CancelInv, ServeInv
    <2>2. CASE Gone
      BY <1>2, <2>2 DEF Gone, NoLateResult, NoRowCollectedAfterCancel
    <2>3. CASE Aside
      BY <1>2, <2>3 DEF Aside, goroutineVars, NoLateResult, NoRowCollectedAfterCancel
    <2> QED BY <1>2, <2>1, <2>2, <2>3, ServeKindOfStep
  <1> QED BY <1>1, <1>2, ServeInvariant, PTL DEF ServeSpec

\* A batch that is over has been through every server, in every life of the process
\* (refresher.go:33-34).
THEOREM ServeBatchIsWhole == ServeSpec => []WholeBatchAttempted
  <1>1. ServeInit => BatchInv
    BY DEF ServeInit, NotStarted, BatchInv
  <1>2. ASSUME ServeInv, BatchInv, [ServeNext]_serveVars
        PROVE  BatchInv'
    <2>1. CASE [Next]_vars
      BY <1>2, <2>1, BatchStep DEF ServeInv
    <2>2. CASE Gone
      BY <2>2 DEF Gone, BatchInv
    <2>3. CASE Aside
      BY <1>2, <2>3 DEF Aside, goroutineVars, BatchInv, Before
    <2> QED BY <1>2, <2>1, <2>2, <2>3, ServeKindOfStep
  <1>3. BatchInv => WholeBatchAttempted
    BY DEF BatchInv, WholeBatchAttempted
  <1> QED BY <1>1, <1>2, <1>3, ServeInvariant, PTL DEF ServeSpec

\* The two queries agree on the rows that earlier lives of the process left, too,
\* unless the clock has stepped back in one of them (store.go:104, list.go:45-73).
THEOREM ServeQueriesAgree == ServeSpec => []QueriesAgree
  <1>1. ServeInit => OrderInv
    BY DEF ServeInit, Store!StoreInit, NotStarted, OrderInv
  <1>2. ASSUME ServeInv, OrderInv, [ServeNext]_serveVars
        PROVE  OrderInv'
    <2>1. CASE [Next]_vars
      BY <1>2, <2>1, OrderStep DEF ServeInv
    <2>2. CASE Gone
      BY <1>2, <2>2 DEF Gone, OrderInv
    <2>3. CASE Aside
      BY <1>2, <2>3 DEF Aside, goroutineVars, OrderInv
    <2> QED BY <1>2, <2>1, <2>2, <2>3, ServeKindOfStep
  <1>3. ServeInv /\ OrderInv => QueriesAgree
    BY OrderedQueriesAgree DEF ServeInv, OrderInv, QueriesAgree
  <1> QED BY <1>1, <1>2, <1>3, ServeInvariant, PTL DEF ServeSpec

----------------------------------------------------------------------------
(* The two views of a row tell one story *)

\* Facts whose hardware is the host's or none, with no memory and no capability
\* but what is inferred later: all a collector of this pipeline can report.
Plain(f) ==
    /\ f.caps = {} /\ f.typed.MemoryGB = 0
    /\ f.typed.Disks \in {{}, Hardware.Disks}
    /\ f.typed.NICs \in {{}, Hardware.NICs}

\* The fields a collector gives, of these kinds.
PlainSet(set) ==
    /\ "MemoryGB" \notin DOMAIN set
    /\ "Disks" \in DOMAIN set => set["Disks"] = Hardware["Disks"]
    /\ "NICs" \in DOMAIN set => set["NICs"] = Hardware["NICs"]

LEMMA PartialPlain ==
    ASSUME NEW source, NEW set, NEW raw, PlainSet(set)
    PROVE  Plain(Partial(source, set, raw))
  <1>1. PICK f : f = Partial(source, set, raw)
    OBVIOUS
  <1>2. f.caps = {} /\ f.typed = Over(Zero, set)
    BY <1>1 DEF Partial
  <1>3. /\ f.typed.MemoryGB = IF "MemoryGB" \in DOMAIN set THEN set["MemoryGB"] ELSE 0
        /\ f.typed.Disks = IF "Disks" \in DOMAIN set THEN set["Disks"] ELSE {}
        /\ f.typed.NICs = IF "NICs" \in DOMAIN set THEN set["NICs"] ELSE {}
    BY <1>2 DEF Over, Zero
  <1> QED BY <1>1, <1>2, <1>3 DEF Plain, PlainSet

LEMMA EmptyPlain == PlainSet(Empty)
  <1>1. DOMAIN Empty = {}
    BY DEF Empty
  <1> QED BY <1>1 DEF PlainSet

\* LinuxHostCollector.Collect, whichever of its tools are missing.
LEMMA LinuxHostPlain ==
    ASSUME NEW cancelled \in BOOLEAN, NEW r \in LinuxHostCollect(cancelled)
    PROVE  Plain(r.facts)
  <1>1. PICK broken \in SUBSET DOMAIN ToolFields :
            LET found == {f \in TypedFields :
                            \E t \in DOMAIN ToolFields \ broken : f \in ToolFields[t]}
            IN r.facts = Partial("linux_host", [f \in found |-> Hardware[f]], Empty)
    BY DEF LinuxHostCollect
  <1> DEFINE found == {f \in TypedFields :
                         \E t \in DOMAIN ToolFields \ broken : f \in ToolFields[t]}
             set == [f \in found |-> Hardware[f]]
  <1>2. "MemoryGB" \notin found
    BY DEF ToolFields
  <1>3. DOMAIN set = found /\ r.facts = Partial("linux_host", set, Empty)
    BY <1>1
  <1>4. \A f \in DOMAIN set : set[f] = Hardware[f]
    OBVIOUS
  <1> HIDE DEF found, set
  <1>5. PlainSet(set)
    BY <1>2, <1>3, <1>4 DEF PlainSet
  <1> QED BY <1>3, <1>5, PartialPlain

\* The others set neither disks nor NICs.
LEMMA OtherSetsPlain ==
    ASSUME NEW v, NEW w
    PROVE  /\ PlainSet([PowerState |-> v])
           /\ PlainSet([FailureDomain |-> v])
           /\ PlainSet([Provisioning |-> v, FailureDomain |-> w])
  BY DEF PlainSet

LEMMA RedfishPlain ==
    ASSUME NEW cancelled \in BOOLEAN, NEW r \in RedfishCollect(cancelled)
    PROVE  Plain(r.facts)
  <1>1. PICK source, p, raw : r.facts = Partial(source, [PowerState |-> p], raw)
    <2> DEFINE demo == Partial("redfish_demo", [PowerState |-> "on"],
                               [vendor |-> "demo", demo_mode |-> "true"])
               real(p) == Partial("redfish", [PowerState |-> p], [vendor |-> "real"])
    <2>1. r = Failed(demo) \/ \E p \in {"on", "off", ""} : r = Ok(real(p))
      BY DEF RedfishCollect, demoRedfishFacts
    <2>2. r.facts = demo \/ \E p : r.facts = real(p)
      <3>1. \A x : Ok(x).facts = x /\ Failed(x).facts = x
        BY DEF Failed, Ok
      <3> QED BY <2>1, <3>1, Zenon
    <2>3. CASE r.facts = demo
      BY <2>3, Zenon
    <2>4. CASE \E p : r.facts = real(p)
      BY <2>4, Zenon
    <2> QED BY <2>2, <2>3, <2>4, Zenon
  <1>2. PICK set : set = [PowerState |-> p]
    OBVIOUS
  <1> QED BY <1>1, <1>2, OtherSetsPlain, PartialPlain

LEMMA IPMIPlain ==
    ASSUME NEW cancelled \in BOOLEAN, NEW r \in IPMICollect(cancelled)
    PROVE  Plain(r.facts)
  <1>1. \E p, s : r = Ok(ipmiFacts(p, s)) \/ r = Failed(ipmiFacts(p, s))
    BY DEF IPMICollect
  <1>2. PICK p, s : r.facts = ipmiFacts(p, s)
    BY <1>1 DEF Ok, Failed
  <1>3. PICK raw : raw = IF s = "" THEN Empty ELSE [bmc_sensors |-> s]
    OBVIOUS
  <1>4. PICK set : set = [PowerState |-> p]
    OBVIOUS
  <1>5. ipmiFacts(p, s) = Partial("ipmi", set, raw)
    BY <1>3, <1>4 DEF ipmiFacts
  <1> QED BY <1>2, <1>4, <1>5, OtherSetsPlain, PartialPlain

LEMMA LLDPPlain ==
    ASSUME NEW cancelled \in BOOLEAN, NEW r \in LLDPCollect(cancelled)
    PROVE  Plain(r.facts)
  <1>1. PICK set, raw : /\ r.facts = Partial("linux_lldp", set, raw)
                        /\ set = Empty \/ \E d : set = [FailureDomain |-> d]
    <2> DEFINE none == Partial("linux_lldp", Empty, Empty)
               heard(c) == Partial("linux_lldp", [FailureDomain |-> Hint(c)],
                                   [lldp_neighbors |-> "heard"])
    <2>1. r = Failed(none) \/ r = Ok(none) \/ \E c \in Chassis : r = Ok(heard(c))
      BY DEF LLDPCollect
    <2>2. r.facts = none \/ \E c \in Chassis : r.facts = heard(c)
      BY <2>1 DEF Ok, Failed
    <2> QED BY <2>2
  <1> QED BY <1>1, EmptyPlain, OtherSetsPlain, PartialPlain

LEMMA ProvisioningPlain ==
    ASSUME NEW cancelled \in BOOLEAN, NEW record, NEW readable \in BOOLEAN,
           NEW r \in ProvisioningCollect(cancelled, record, readable)
    PROVE  Plain(r.facts)
  <1>1. PICK set : /\ r.facts = Partial("provisioning_store", set, Empty)
                   /\ \/ set = Empty
                      \/ \E v, w : set = [Provisioning |-> v, FailureDomain |-> w]
    BY DEF ProvisioningCollect, Ok, Failed
  <1> QED BY <1>1, EmptyPlain, OtherSetsPlain, PartialPlain

LEMMA CollectPlain ==
    ASSUME NEW c \in CollectorNames, NEW cancelled \in BOOLEAN, NEW record,
           NEW readable \in BOOLEAN, NEW r \in Collect(c, cancelled, record, readable)
    PROVE  Plain(r.facts)
  <1>1. CASE c = "linux_host"
    BY <1>1, LinuxHostPlain DEF Collect
  <1>2. CASE c = "redfish"
    BY <1>2, RedfishPlain DEF Collect
  <1>3. CASE c = "provisioning"
    BY <1>3, ProvisioningPlain DEF Collect
  <1>4. CASE c = "linux_lldp"
    BY <1>4, LLDPPlain DEF Collect
  <1>5. CASE c = "ipmi"
    BY <1>5, IPMIPlain DEF Collect
  <1> QED BY <1>1, <1>2, <1>3, <1>4, <1>5 DEF CollectorNames

\* mergeInto keeps them plain: it takes the disks and the NICs of one or the other.
LEMMA MergePlain ==
    ASSUME NEW dst, Plain(dst), NEW src, Plain(src)
    PROVE  Plain(mergeInto(dst, src))
  <1>1. PICK m : m = mergeInto(dst, src)
    OBVIOUS
  <1>2. m.caps = {}
    BY <1>1 DEF mergeInto, unionStrings, Plain
  <1>3. /\ m.typed.MemoryGB \in {dst.typed.MemoryGB, src.typed.MemoryGB}
        /\ m.typed.Disks \in {dst.typed.Disks, src.typed.Disks}
        /\ m.typed.NICs \in {dst.typed.NICs, src.typed.NICs}
    BY <1>1 DEF mergeInto, FillGaps, Zero
  <1> QED BY <1>1, <1>2, <1>3 DEF Plain

\* The sum over the NICs is at least the speed of any of them.
LEMMA BandwidthOfAll ==
    ASSUME NEW nics, IsFiniteSet(nics), \A n \in nics : n.speed \in Nat, NEW n \in nics
    PROVE  totalBandwidthGbps(nics) \in Nat /\ totalBandwidthGbps(nics) >= n.speed
  <1> DEFINE w == [m \in nics |-> m.speed]
  <1>1. totalBandwidthGbps(nics) = Sums(w, nics)[nics]
    <2> DEFINE Next1(g, s) == IF s = {} THEN 0 ELSE Some(s).speed + g[s \ {Some(s)}]
               Next2(g, s) == IF s = {} THEN 0 ELSE w[Some(s)] + g[s \ {Some(s)}]
    <2>1. totalBandwidthGbps(nics)
            = (CHOOSE g : g = [s \in SUBSET nics |-> Next1(g, s)])[nics]
      BY Zenon DEF totalBandwidthGbps, MapThenSumSet, MapThenFoldSet, Some
    <2>2. \A s \in SUBSET nics : s # {} => w[Some(s)] = Some(s).speed
      BY SomeIn
    <2>3. \A g : \A s \in SUBSET nics : Next1(g, s) = Next2(g, s)
      BY <2>2
    <2>4. \A g : [s \in SUBSET nics |-> Next1(g, s)] = [s \in SUBSET nics |-> Next2(g, s)]
      BY <2>3
    <2>5. (CHOOSE g : g = [s \in SUBSET nics |-> Next1(g, s)])
            = (CHOOSE g : g = [s \in SUBSET nics |-> Next2(g, s)])
      BY <2>4
    <2>6. Sums(w, nics) = CHOOSE g : g = [s \in SUBSET nics |-> Next2(g, s)]
      BY Zenon DEF Sums, SumsUp
    <2> QED BY <2>1, <2>5, <2>6
  <1>2. Weights(w, nics) /\ w[n] = n.speed
    BY DEF Weights
  <1> HIDE DEF w
  <1>3. Sums(w, nics)[nics] \in Nat /\ Sums(w, nics)[nics] >= w[n]
    BY <1>2, SumAtLeast
  <1> QED BY <1>1, <1>2, <1>3

\* What the property asks for of one row's data: four comparisons of what the two
\* views make of the same facts.
NetworkStory(f) ==
    LET public == PublicView(f, "") IN
    "high_bandwidth_networking" \in public.features =>
        public.bandwidth >= 25 /\ HardwareView(f).nics # {}
DiskStory(f) ==
    LET public == PublicView(f, "") IN
    public.machineType # <<>> =>
        ("local_nvme" \in public.capable <=> public.machineType[3] = "nvme")
NumaStory(f) ==
    HardwareView(f).numa.topology => PublicView(f, "").machineType # <<>>
StateStory(f, health) ==
    LET public == PublicView(f, health)
        hardware == HardwareView(f)
    IN public.state = "active" =>
          /\ Folded(public.lifecycle.provisioning) \notin {"failed", "provisioning"}
          /\ hardware.cores > 0 \/ hardware.nics # {} \/ f.typed.Disks # {}

OneStory(f, health) ==
    NetworkStory(f) /\ DiskStory(f) /\ NumaStory(f) /\ StateStory(f, health)

\* The same facts with the capabilities inferred from them.
Inferred(m) == [m EXCEPT !.caps = InferCapabilities(m)]

LEMMA InferredFields ==
    ASSUME NEW m \in ServerFacts
    PROVE  Inferred(m).typed = m.typed /\ Inferred(m).caps = InferCapabilities(m)
  BY DEF Inferred, ServerFacts

\* The capabilities of facts that had none, each by what it is inferred from.
LEMMA CapsOfPlain ==
    ASSUME NEW m, Plain(m)
    PROVE  /\ "high_bandwidth_networking" \in InferCapabilities(m) =>
                 \E n \in m.typed.NICs : n.speed >= 25
           /\ "local_nvme" \in InferCapabilities(m) <=>
                 \E d \in m.typed.Disks : Folded(d) = "nvme"
  BY DEF InferCapabilities, When, Plain

\* high_bandwidth_networking is inferred from a NIC, whose speed is in the sum.
LEMMA NetworkTold ==
    ASSUME NEW m \in ServerFacts, Plain(m)
    PROVE  NetworkStory(Inferred(m))
  <1>1. PICK f : f = Inferred(m)
    OBVIOUS
  <1>2. f.typed = m.typed /\ f.caps = InferCapabilities(m)
    BY <1>1, InferredFields
  <1>3. PICK nics : nics = m.typed.NICs
    OBVIOUS
  <1>4. /\ "high_bandwidth_networking" \in PublicView(f, "").features =>
              "high_bandwidth_networking" \in f.caps
        /\ PublicView(f, "").bandwidth = totalBandwidthGbps(nics)
        /\ HardwareView(f).nics = nics
    BY <1>2, <1>3 DEF PublicView, HardwareView
  <1>5. ASSUME "high_bandwidth_networking" \in f.caps
        PROVE  totalBandwidthGbps(nics) >= 25 /\ nics # {}
    <2>1. PICK n \in nics : n.speed >= 25
      BY <1>2, <1>3, <1>5, CapsOfPlain
    <2>2. IsFiniteSet(nics)
      BY <1>3, HardwareAssumption, FS_EmptySet DEF Plain
    <2>3. \A k \in nics : k.speed \in Nat
      BY <1>3 DEF ServerFacts, Typed
    <2>4. totalBandwidthGbps(nics) \in Nat /\ totalBandwidthGbps(nics) >= n.speed
      BY <2>2, <2>3, BandwidthOfAll
    <2>5. n.speed \in Nat
      BY <2>3
    <2> QED BY <2>1, <2>4, <2>5
  <1> QED BY <1>1, <1>4, <1>5 DEF NetworkStory

\* local_nvme is inferred from a disk of the fastest type, the one the machine type
\* names.
LEMMA DiskTold ==
    ASSUME NEW m \in ServerFacts, Plain(m)
    PROVE  DiskStory(Inferred(m))
  <1>1. PICK f : f = Inferred(m)
    OBVIOUS
  <1>2. f.typed = m.typed /\ f.caps = InferCapabilities(m)
    BY <1>1, InferredFields
  <1>3. PICK disks : disks = m.typed.Disks /\ disks \subseteq {"nvme", "ssd", "hdd"}
    BY HardwareAssumption DEF Plain
  <1>4. Folded("nvme") = "nvme" /\ Folded("ssd") # "nvme" /\ Folded("hdd") # "nvme"
    BY DEF Folded
  <1>5. "local_nvme" \in f.caps <=> "nvme" \in disks
    <2>1. "local_nvme" \in f.caps <=> \E d \in disks : Folded(d) = "nvme"
      BY <1>2, <1>3, CapsOfPlain
    <2> QED BY <1>3, <1>4, <2>1
  <1>6. primaryDiskType(disks) = "nvme" <=> "nvme" \in disks
    BY DEF primaryDiskType
  <1>7. /\ "local_nvme" \in PublicView(f, "").capable <=> "local_nvme" \in f.caps
        /\ PublicView(f, "").machineType = deriveMachineType(m.typed)
    BY <1>2 DEF PublicView
  <1>8. deriveMachineType(m.typed) # <<>> =>
           deriveMachineType(m.typed)[3] = primaryDiskType(disks)
    BY <1>3 DEF deriveMachineType
  <1> QED BY <1>1, <1>5, <1>6, <1>7, <1>8 DEF DiskStory

\* A topology is of a server with cores, and so with a machine type.
LEMMA NumaTold ==
    ASSUME NEW m \in ServerFacts
    PROVE  NumaStory(Inferred(m))
  <1>1. PICK f : f = Inferred(m)
    OBVIOUS
  <1>2. f.typed = m.typed
    BY <1>1, InferredFields
  <1>3. HardwareView(f).numa.topology => m.typed.Cores > 0
    BY <1>2 DEF HardwareView, deriveNUMA
  <1>4. m.typed.Cores \in Nat
    BY DEF ServerFacts, Typed
  <1>5. m.typed.Cores > 0 => deriveMachineType(m.typed) # <<>>
    BY <1>4 DEF deriveMachineType
  <1>6. PublicView(f, "").machineType = deriveMachineType(m.typed)
    BY <1>2 DEF PublicView
  <1> QED BY <1>1, <1>3, <1>5, <1>6 DEF NumaStory

\* Only a healthy server is active: not a failed one, and one with hardware, of
\* which memory is no part here.
LEMMA StateTold ==
    ASSUME NEW m \in ServerFacts, Plain(m)
    PROVE  StateStory(Inferred(m), InferHealth(m))
  <1>1. PICK f : f = Inferred(m)
    OBVIOUS
  <1>2. f.typed = m.typed
    BY <1>1, InferredFields
  <1>3. PICK health : health = InferHealth(m)
    OBVIOUS
  <1>4. /\ PublicView(f, health).state = deriveState(m.typed, health)
        /\ PublicView(f, health).lifecycle.provisioning = m.typed.Provisioning
        /\ HardwareView(f).cores = m.typed.Cores /\ HardwareView(f).nics = m.typed.NICs
    BY <1>2 DEF PublicView, HardwareView
  <1>5. ASSUME deriveState(m.typed, health) = "active"
        PROVE  /\ Folded(m.typed.Provisioning) \notin {"failed", "provisioning"}
               /\ m.typed.Cores > 0 \/ m.typed.NICs # {} \/ m.typed.Disks # {}
    <2>1. Folded(m.typed.Provisioning) # "provisioning" /\ health = "healthy"
      BY <1>5 DEF deriveState
    <2>2. Folded(m.typed.Provisioning) # "failed" /\ HasHardwareFacts(m.typed)
      BY <1>3, <2>1 DEF InferHealth
    <2>3. ~(m.typed.MemoryGB > 0)
      BY DEF Plain
    <2> QED BY <2>1, <2>2, <2>3 DEF HasHardwareFacts
  <1> QED BY <1>1, <1>2, <1>3, <1>4, <1>5 DEF StateStory

\* The rows that tell one story; the build under way is of plain facts.
StoryData == {d \in Payload : OneStory(d.facts, d.health)}

StoryInv == Plain(merged) /\ \A i \in DOMAIN rows : rows[i].data \in StoryData

\* The induction step.
LEMMA StoryStep ==
    ASSUME TypeOK, StoryInv, RowsChange, BuildChange
    PROVE  StoryInv'
  <1>1. Plain(merged)'
    <2>1. CASE BuildStays
      BY <2>1 DEF BuildStays, StoryInv, Plain
    <2>2. CASE BuildBegins
      BY <2>2 DEF BuildBegins, Plain, NoFacts, Zero
    <2>3. ASSUME Calling \in CollectorNames, NEW readable \in BOOLEAN,
                 NEW r \in Collect(Calling, ctxDone, OnFile, readable), BuildMerges(r)
          PROVE  Plain(merged)'
      <3>1. ctxDone \in BOOLEAN
        BY DEF TypeOK
      <3>2. Plain(r.facts)
        BY <2>3, <3>1, CollectPlain
      <3>3. Plain(mergeInto(merged, r.facts))
        BY <3>2, MergePlain DEF StoryInv
      <3> QED BY <2>3, <3>3 DEF BuildMerges, Plain
    <2> QED BY <2>1, <2>2, <2>3 DEF BuildChange, BuildGoesOn
  <1>2. Data \in StoryData
    <2>1. merged \in ServerFacts /\ Plain(merged)
      BY DEF TypeOK, StoryInv
    <2>2. OneStory(Inferred(merged), InferHealth(merged))
      BY <2>1, NetworkTold, DiskTold, NumaTold, StateTold DEF OneStory
    <2>3. Data.facts = Inferred(merged) /\ Data.health = InferHealth(merged)
      BY DEF Data, Inferred
    <2> QED BY <2>2, <2>3, DataFields DEF StoryData
  <1>3. \A i \in DOMAIN rows' : rows'[i].data \in StoryData
    BY <1>2, RowsStayGood DEF StoryInv
  <1>4. StoryData' = StoryData
    BY DEF StoryData, Payload
  <1> QED BY <1>1, <1>3, <1>4 DEF StoryInv

LEMMA StoryInit == Init \/ ServeInit => StoryInv
  <1> SUFFICES ASSUME Init \/ ServeInit PROVE StoryInv
    OBVIOUS
  <1>1. rows = <<>> /\ merged = NoFacts
    BY DEF Init, ServeInit, NotStarted, Store!StoreInit
  <1>2. Plain(NoFacts)
    BY DEF Plain, NoFacts, Zero
  <1>3. DOMAIN rows = {}
    BY <1>1
  <1> QED BY <1>1, <1>2, <1>3 DEF StoryInv

\* Its rows are what the property asks for.
LEMMA StoryShows == StoryInv => ViewsTellOneStory
  <1> SUFFICES ASSUME StoryInv, NEW i \in DOMAIN rows,
                      NEW f, f = rows[i].data.facts, NEW h, h = rows[i].data.health
               PROVE  /\ NetworkStory(f) /\ DiskStory(f) /\ NumaStory(f) /\ StateStory(f, h)
    BY DEF ViewsTellOneStory, NetworkStory, DiskStory, NumaStory, StateStory, PublicView
  <1> QED BY DEF StoryInv, StoryData, OneStory

\* The two responses of the API for one server never contradict each other: the
\* capabilities, put on record by infer.go, agree with the bandwidth, the machine
\* type and the NICs that views.go computes anew, and the state with the hardware
\* and the lifecycle, for any hardware with finitely many NICs.
THEOREM ViewsAgree == Spec => []ViewsTellOneStory
  <1>1. TypeOK /\ StoryInv /\ [Next]_vars => StoryInv'
    BY StoryStep, RowsStep, BuildStep
  <1> QED BY <1>1, StoryInit, StoryShows, RefresherTypeCorrect, PTL DEF Spec

\* And so they do of every row the process has on record.
THEOREM ServeViewsAgree == ServeSpec => []ViewsTellOneStory
  <1>1. ServeInv /\ StoryInv /\ [ServeNext]_serveVars => StoryInv'
    BY StoryStep, ServeRowsChange, ServeBuildChange DEF ServeInv
  <1> QED BY <1>1, StoryInit, StoryShows, ServeInvariant, PTL DEF ServeSpec
=============================================================================
