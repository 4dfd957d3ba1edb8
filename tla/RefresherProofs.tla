-------------------------- MODULE RefresherProofs --------------------------
(***************************************************************************)
(* What holds of the refresher for any servers, pipeline, records and      *)
(* tools, and every MaxTime and MaxCycles, proved from Refresher.          *)
(***************************************************************************)
EXTENDS Refresher, TLAPS

----------------------------------------------------------------------------
(* Types of the facts *)

\* Go's zero value of ServerFacts is well typed.
LEMMA ZeroTyped == Zero \in Typed
  BY FactsAssumption DEF Zero, Typed, FixedWords

\* The facts BuildServerFacts starts from are well typed.
LEMMA NoFactsType == NoFacts \in ServerFacts
  <1>1. NoRaw \in Raw
    BY FactsAssumption DEF NoRaw, Raw, FixedWords
  <1>2. << >> \in Seq(Words) /\ {} \in SUBSET Words
    OBVIOUS
  <1> QED BY ZeroTyped, <1>1, <1>2 DEF NoFacts, ServerFacts

\* Merging keeps facts well typed.
LEMMA MergeType ==
    ASSUME NEW dst \in ServerFacts, NEW src \in ServerFacts
    PROVE  mergeInto(dst, src) \in ServerFacts
  <1>1. FillGaps(Zero, dst.typed, src.typed) \in Typed
    BY DEF FillGaps, Zero, Typed, ServerFacts
  <1>2. FillGaps(NoRaw, dst.raw, src.raw) \in Raw
    BY DEF FillGaps, NoRaw, Raw, ServerFacts
  <1>3. mergeSource(dst.source, src.source) \in Seq(Words)
    BY DEF mergeSource, ServerFacts
  <1>4. /\ unionStrings(dst.modes, src.modes) \in SUBSET Words
        /\ unionStrings(dst.caps, src.caps) \in SUBSET Words
    BY DEF unionStrings, ServerFacts
  <1> QED BY <1>1, <1>2, <1>3, <1>4 DEF mergeInto, ServerFacts

\* Inference adds only capability names, and health is a word.
LEMMA InferType ==
    ASSUME NEW f \in ServerFacts
    PROVE  /\ [f EXCEPT !.caps = InferCapabilities(f)] \in ServerFacts
           /\ InferHealth(f) \in Words
  <1>1. InferCapabilities(f) \in SUBSET Words
    BY FactsAssumption DEF FixedWords, InferCapabilities, When, ServerFacts
  <1>2. InferHealth(f) \in Words
    BY FactsAssumption DEF FixedWords, InferHealth
  <1> QED BY <1>1, <1>2 DEF ServerFacts

\* Partial facts are well typed if what they set is.
LEMMA PartialType ==
    ASSUME NEW source \in Words, NEW set, NEW raw,
           Over(Zero, set) \in Typed, Over(NoRaw, raw) \in Raw
    PROVE  Partial(source, set, raw) \in ServerFacts
  <1>1. <<source>> \in Seq(Words) /\ {} \in SUBSET Words
    OBVIOUS
  <1> QED BY <1>1 DEF Partial, ServerFacts

----------------------------------------------------------------------------
(* Types of what the collectors return *)

\* What a collector call returns.
CollectorResult == [facts : ServerFacts, err : BOOLEAN]

\* Setting some fields, or Raw keys, of a collector's partial facts keeps the
\* whole well typed: one lemma for each collector's fields.
LEMMA OverType ==
    /\ Over(Zero, Empty) \in Typed /\ Over(NoRaw, Empty) \in Raw
    /\ \A w \in Words : /\ Over(Zero, [PowerState |-> w]) \in Typed
                       /\ Over(Zero, [FailureDomain |-> w]) \in Typed
                       /\ Over(NoRaw, [vendor |-> w]) \in Raw
                       /\ Over(NoRaw, [lldp_neighbors |-> w]) \in Raw
                       /\ Over(NoRaw, [bmc_sensors |-> w]) \in Raw
    /\ \A v, w \in Words :
          /\ Over(Zero, [Provisioning |-> v, FailureDomain |-> w]) \in Typed
          /\ Over(NoRaw, [vendor |-> v, demo_mode |-> w]) \in Raw
  <1>1. DOMAIN Empty = {}
    BY DEF Empty
  <1>2. Over(Zero, Empty) = Zero /\ Over(NoRaw, Empty) = NoRaw
    BY <1>1 DEF Over, Zero, NoRaw
  <1>3. NoRaw \in Raw
    BY FactsAssumption DEF NoRaw, Raw, FixedWords
  <1>4. ASSUME NEW w \in Words
        PROVE  Over(Zero, [PowerState |-> w]) \in Typed
    BY FactsAssumption DEF Over, Zero, Typed, FixedWords
  <1>5. ASSUME NEW w \in Words
        PROVE  Over(Zero, [FailureDomain |-> w]) \in Typed
    BY FactsAssumption DEF Over, Zero, Typed, FixedWords
  <1>6. ASSUME NEW v \in Words, NEW w \in Words
        PROVE  Over(Zero, [Provisioning |-> v, FailureDomain |-> w]) \in Typed
    BY FactsAssumption DEF Over, Zero, Typed, FixedWords
  <1>7. ASSUME NEW w \in Words
        PROVE  /\ Over(NoRaw, [vendor |-> w]) \in Raw
               /\ Over(NoRaw, [lldp_neighbors |-> w]) \in Raw
               /\ Over(NoRaw, [bmc_sensors |-> w]) \in Raw
    BY FactsAssumption DEF Over, NoRaw, Raw, FixedWords
  <1>8. ASSUME NEW v \in Words, NEW w \in Words
        PROVE  Over(NoRaw, [vendor |-> v, demo_mode |-> w]) \in Raw
    BY FactsAssumption DEF Over, NoRaw, Raw, FixedWords
  <1> QED BY <1>2, <1>3, <1>4, <1>5, <1>6, <1>7, <1>8, ZeroTyped

\* What a Collect call returns is facts and an error or none.
LEMMA ResultType ==
    ASSUME NEW facts \in ServerFacts
    PROVE  Ok(facts) \in CollectorResult /\ Failed(facts) \in CollectorResult
  BY DEF Ok, Failed, CollectorResult

\* TypedFields, one by one.
Fields == {"PowerState", "Provisioning", "FailureDomain", "Vendor", "Model",
           "Sockets", "Cores", "Threads", "MemoryGB", "Disks", "NICs"}

\* A record of some of the host's fields, and zero values, is well typed.
LEMMA HostFieldsTyped ==
    ASSUME NEW o, o = [f \in Fields |-> o[f]],
           NEW found,
           found \subseteq {"Vendor", "Model", "Sockets", "Cores", "Threads", "Disks", "NICs"},
           \A f \in Fields : o[f] = IF f \in found THEN Hardware[f] ELSE Zero[f]
    PROVE  o \in Typed
  <1>1. /\ o.PowerState = ""
        /\ o.Provisioning = ""
        /\ o.FailureDomain = ""
        /\ o.MemoryGB = 0
    <2>1. /\ "PowerState" \in Fields \ found /\ "Provisioning" \in Fields \ found
          /\ "FailureDomain" \in Fields \ found /\ "MemoryGB" \in Fields \ found
      BY DEF Fields
    <2>2. /\ o.PowerState = Zero.PowerState /\ o.Provisioning = Zero.Provisioning
          /\ o.FailureDomain = Zero.FailureDomain /\ o.MemoryGB = Zero.MemoryGB
      BY <2>1, Zenon
    <2>3. Zero.PowerState = "" /\ Zero.Provisioning = "" /\ Zero.FailureDomain = ""
      BY DEF Zero
    <2>4. Zero.MemoryGB = 0
      BY DEF Zero
    <2> QED BY <2>1, <2>2, <2>3, <2>4
  <1>2. /\ o.Vendor \in {Hardware.Vendor, ""} /\ o.Model \in {Hardware.Model, ""}
        /\ o.Sockets \in {Hardware.Sockets, 0} /\ o.Cores \in {Hardware.Cores, 0}
        /\ o.Threads \in {Hardware.Threads, 0}
        /\ o.Disks \in {Hardware.Disks, {}} /\ o.NICs \in {Hardware.NICs, {}}
    <2>1. \A f \in {"Vendor", "Model", "Sockets", "Cores", "Threads", "Disks", "NICs"} :
              o[f] = Hardware[f] \/ o[f] = Zero[f]
      BY Zenon DEF Fields
    <2>2. /\ Zero.Vendor = "" /\ Zero.Model = "" /\ Zero.Disks = {} /\ Zero.NICs = {}
          /\ Zero.Sockets = 0 /\ Zero.Cores = 0 /\ Zero.Threads = 0
      BY DEF Zero
    <2>3. o.Vendor \in {Hardware.Vendor, ""} /\ o.Model \in {Hardware.Model, ""}
      BY <2>1, <2>2, Zenon
    <2>4. o.Sockets \in {Hardware.Sockets, 0} /\ o.Cores \in {Hardware.Cores, 0}
      BY <2>1, <2>2, Zenon
    <2>5. o.Threads \in {Hardware.Threads, 0}
      BY <2>1, <2>2, Zenon
    <2>6. o.Disks \in {Hardware.Disks, {}} /\ o.NICs \in {Hardware.NICs, {}}
      BY <2>1, <2>2, Zenon
    <2> QED BY <2>3, <2>4, <2>5, <2>6
  <1>3. "" \in Words
    BY FactsAssumption DEF FixedWords
  <1>4. /\ Hardware.Vendor \in Words /\ Hardware.Model \in Words
        /\ Hardware.Sockets \in Nat /\ Hardware.Cores \in Nat
        /\ Hardware.Threads \in Nat
        /\ Hardware.Disks \in SUBSET Words
        /\ Hardware.NICs \in SUBSET [name : Words, speed : Nat, features : SUBSET Words]
    BY CollectorsAssumption
  <1>5. o.PowerState \in Words /\ o.Provisioning \in Words /\ o.FailureDomain \in Words
    BY <1>1, <1>3
  <1>6. o.Vendor \in Words /\ o.Model \in Words
    BY <1>2, <1>3, <1>4
  <1>7. /\ o.Sockets \in Nat /\ o.Cores \in Nat /\ o.Threads \in Nat /\ o.MemoryGB \in Nat
    <2>1. 0 \in Nat
      OBVIOUS
    <2> QED BY <1>1, <1>2, <1>4, <2>1, Zenon
  <1>8. o.Disks \in SUBSET Words
    BY <1>2, <1>4
  <1>9. o.NICs \in SUBSET [name : Words, speed : Nat, features : SUBSET Words]
    BY <1>2, <1>4
  <1> QED BY <1>5, <1>6, <1>7, <1>8, <1>9 DEF Typed, Fields

\* LinuxHostCollector.Collect, whichever of its tools fail.
LEMMA LinuxHostType ==
    ASSUME NEW cancelled \in BOOLEAN
    PROVE  LinuxHostCollect(cancelled) \subseteq CollectorResult
  <1> SUFFICES ASSUME NEW broken \in SUBSET DOMAIN ToolFields
               PROVE  LET found == {f \in TypedFields :
                                      \E t \in DOMAIN ToolFields \ broken : f \in ToolFields[t]}
                          facts == Partial("linux_host", [f \in found |-> Hardware[f]], Empty)
                      IN [facts |-> facts, err |-> broken # {}] \in CollectorResult
    BY DEF LinuxHostCollect
  <1> DEFINE found == {f \in TypedFields :
                         \E t \in DOMAIN ToolFields \ broken : f \in ToolFields[t]}
             set == [f \in found |-> Hardware[f]]
  <1>1. found \subseteq {"Vendor", "Model", "Sockets", "Cores", "Threads", "Disks", "NICs"}
    BY DEF ToolFields, TypedFields, Zero
  <1>2. DOMAIN set = found /\ \A f \in found : set[f] = Hardware[f]
    OBVIOUS
  <1> HIDE DEF found, set
  <1>3. Over(Zero, set) \in Typed
    <2>1. DOMAIN Zero = Fields
      BY DEF Zero, Fields
    <2>2. Over(Zero, set) = [f \in Fields |-> Over(Zero, set)[f]]
      BY <2>1 DEF Over
    <2>3. \A f \in Fields : Over(Zero, set)[f] = IF f \in found THEN Hardware[f] ELSE Zero[f]
      BY <1>2, <2>1 DEF Over
    <2> QED BY <1>1, <2>2, <2>3, HostFieldsTyped
  <1>4. "linux_host" \in Words
    BY FactsAssumption DEF FixedWords
  <1>5. Partial("linux_host", set, Empty) \in ServerFacts
    BY <1>3, <1>4, OverType, PartialType
  <1> QED BY <1>5 DEF CollectorResult, found, set

\* RedfishCollector.Collect, with a BMC or with the demo facts.
LEMMA RedfishType ==
    ASSUME NEW cancelled \in BOOLEAN
    PROVE  RedfishCollect(cancelled) \subseteq CollectorResult
  <1>1. {"redfish", "redfish_demo", "on", "off", "", "demo", "true", "real"} \subseteq Words
    BY FactsAssumption DEF FixedWords
  <1>2. demoRedfishFacts \in ServerFacts
    BY <1>1, OverType, PartialType DEF demoRedfishFacts
  <1>3. ASSUME NEW p \in {"on", "off", ""}
        PROVE  Partial("redfish", [PowerState |-> p], [vendor |-> "real"]) \in ServerFacts
    BY <1>1, OverType, PartialType
  <1> QED BY <1>2, <1>3, ResultType DEF RedfishCollect

\* ProvisioningCollector.Collect, with and without a record on file.
LEMMA ProvisioningType ==
    ASSUME NEW cancelled \in BOOLEAN, NEW readable \in BOOLEAN,
           NEW record \in [provisioning : Words, domain : Words, exists : BOOLEAN]
    PROVE  ProvisioningCollect(cancelled, record, readable) \subseteq CollectorResult
  <1>1. "provisioning_store" \in Words
    BY FactsAssumption DEF FixedWords
  <1>2. Partial("provisioning_store", Empty, Empty) \in ServerFacts
    BY <1>1, OverType, PartialType
  <1>3. Partial("provisioning_store", [Provisioning |-> record.provisioning,
                                      FailureDomain |-> record.domain], Empty) \in ServerFacts
    BY <1>1, OverType, PartialType
  <1> QED BY <1>2, <1>3, ResultType DEF ProvisioningCollect

\* The failure domain hint of LLDPCollector.Collect is a word.
LEMMA HintType ==
    ASSUME NEW chassis \in Chassis
    PROVE  Hint(chassis) \in Words
  <1>1. "" \in Words
    BY FactsAssumption DEF FixedWords
  <1>2. chassis \ {""} \subseteq UNION Chassis
    OBVIOUS
  <1>3. ASSUME NEW n \in chassis \ {""}
        PROVE  SwitchDomain[CHOOSE m \in chassis \ {""} : TRUE] \in Words
    <2>1. (CHOOSE m \in chassis \ {""} : TRUE) \in UNION Chassis
      BY <1>2, <1>3
    <2> QED BY <2>1, CollectorsAssumption
  <1> QED BY <1>1, <1>3 DEF Hint

\* LLDPCollector.Collect, whatever neighbours are heard.
LEMMA LLDPType ==
    ASSUME NEW cancelled \in BOOLEAN
    PROVE  LLDPCollect(cancelled) \subseteq CollectorResult
  <1>1. {"linux_lldp", "heard"} \subseteq Words
    BY FactsAssumption DEF FixedWords
  <1>2. Partial("linux_lldp", Empty, Empty) \in ServerFacts
    BY <1>1, OverType, PartialType
  <1>3. ASSUME NEW chassis \in Chassis
        PROVE  Partial("linux_lldp", [FailureDomain |-> Hint(chassis)],
                       [lldp_neighbors |-> "heard"]) \in ServerFacts
    BY <1>1, OverType, PartialType, HintType
  <1> QED BY <1>2, <1>3, ResultType DEF LLDPCollect

\* IPMICollector.Collect, with either, both or none of its two readings.
LEMMA IPMIType ==
    ASSUME NEW cancelled \in BOOLEAN
    PROVE  IPMICollect(cancelled) \subseteq CollectorResult
  <1>1. {"ipmi", "", "on", "off", "ok", "nan"} \subseteq Words
    BY FactsAssumption DEF FixedWords
  <1>2. ASSUME NEW p \in {"", "on", "off"}, NEW s \in {"", "ok", "nan"}
        PROVE  ipmiFacts(p, s) \in ServerFacts
    BY <1>1, OverType, PartialType DEF ipmiFacts
  <1>3. \A p \in {"", "on", "off"}, s \in {"", "ok", "nan"} :
          {Ok(ipmiFacts(p, s)), Failed(ipmiFacts(p, s))} \subseteq CollectorResult
    BY <1>2, ResultType
  <1> QED BY <1>3 DEF IPMICollect

\* Every collector returns facts, also beside an error.
LEMMA CollectType ==
    ASSUME NEW c \in CollectorNames, NEW cancelled \in BOOLEAN, NEW readable \in BOOLEAN,
           NEW record \in [provisioning : Words, domain : Words, exists : BOOLEAN]
    PROVE  Collect(c, cancelled, record, readable) \subseteq CollectorResult
  BY LinuxHostType, RedfishType, ProvisioningType, LLDPType, IPMIType
  DEF Collect, CollectorNames

----------------------------------------------------------------------------
(* Type correctness of the refresher *)

\* The part of TypeOK about refreshAll and the build under way.
BuildTypeOK ==
    /\ ticking \in BOOLEAN
    /\ pc \in {"none", "build", "save", "select", "stopped", "panicked"}
    /\ srv \in Nat
    /\ pc \in {"build", "save"} => srv \in DOMAIN ServerIDs
    /\ merged \in ServerFacts
    /\ results \in Seq(Result)
    /\ attempted \subseteq Servers
    /\ records \subseteq Records \cup {NoRecord}

\* TypeOK by its parts: what a build changes and what it leaves alone.
LEMMA TypeParts ==
    TypeOK <=> /\ BuildTypeOK
               /\ Store!StoreTypeOK
               /\ ctxDone \in BOOLEAN /\ steppedBack \in BOOLEAN /\ tick \in BOOLEAN
               /\ at \in 0..MaxTime
               /\ pc = "save" => at > 0
               /\ cycles \in 0..MaxCycles
  BY DEF TypeOK, BuildTypeOK

\* The ids refreshAll ranges over are the servers of the store.
LEMMA ServerIDsType ==
    /\ Len(ServerIDs) \in Nat
    /\ DOMAIN ServerIDs = 1..Len(ServerIDs)
    /\ \A n \in DOMAIN ServerIDs : ServerIDs[n] \in Servers
    /\ ServerIDs # <<>> => 1 \in DOMAIN ServerIDs
  BY RefresherAssumption DEF Servers, ToSet

\* A build begins with nothing.
LEMMA BeginBuildType ==
    ASSUME TypeOK, NEW n \in DOMAIN ServerIDs, BeginBuild(n)
    PROVE  /\ pc' = "build" /\ srv' \in Nat /\ srv' \in DOMAIN ServerIDs
           /\ merged' \in ServerFacts /\ results' \in Seq(Result)
           /\ records' \subseteq Records \cup {NoRecord}
  <1>1. n \in Nat /\ ServerIDs[n] \in Servers
    BY ServerIDsType
  <1>2. prov[ServerIDs[n]] \in Records \cup {NoRecord}
    BY <1>1 DEF TypeOK, Store!StoreTypeOK
  <1>3. << >> \in Seq(Result)
    OBVIOUS
  <1> QED BY <1>1, <1>2, <1>3, NoFactsType DEF BeginBuild

\* The end of refreshAll keeps the build's variables well typed and leads to the
\* select, or to NewTicker's panic.
LEMMA EndCycleType ==
    ASSUME TypeOK, EndCycle, attempted' \subseteq Servers
    PROVE  BuildTypeOK' /\ pc' \in {"select", "panicked"}
  BY RefresherAssumption DEF EndCycle, TypeOK, BuildTypeOK

\* So does refreshAll's step to the next server or to the end.
LEMMA NextServerType ==
    ASSUME TypeOK, NextServer, pc \in {"build", "save"}
    PROVE  BuildTypeOK' /\ pc' # "save"
  <1>1. srv \in DOMAIN ServerIDs /\ srv \in Nat
    BY DEF TypeOK
  <1>2. attempted' \subseteq Servers
    BY <1>1, ServerIDsType DEF NextServer, TypeOK
  <1>3. CASE srv < Len(ServerIDs)
    <2>1. srv + 1 \in DOMAIN ServerIDs
      BY <1>1, <1>3, ServerIDsType
    <2>2. BeginBuild(srv + 1) /\ UNCHANGED ticking
      BY <1>3 DEF NextServer
    <2> QED BY <2>1, <2>2, <1>2, BeginBuildType DEF BuildTypeOK, TypeOK
  <1>4. CASE ~(srv < Len(ServerIDs))
    BY <1>4, <1>2, EndCycleType DEF NextServer
  <1> QED BY <1>3, <1>4

\* And the first server of a cycle, or the end of an empty one.
LEMMA BeginCycleType ==
    ASSUME TypeOK, BeginCycle
    PROVE  BuildTypeOK' /\ pc' # "save"
  <1>1. attempted' \subseteq Servers
    BY DEF BeginCycle
  <1>2. CASE ServerIDs = <<>>
    BY <1>1, <1>2, EndCycleType DEF BeginCycle
  <1>3. CASE ServerIDs # <<>>
    <2>1. 1 \in DOMAIN ServerIDs /\ BeginBuild(1) /\ UNCHANGED ticking
      BY <1>3, ServerIDsType DEF BeginCycle
    <2> QED BY <2>1, <1>1, BeginBuildType DEF BuildTypeOK, TypeOK
  <1> QED BY <1>2, <1>3

\* What is saved is well typed.
LEMMA DataType ==
    ASSUME TypeOK
    PROVE  Data \in Payload
  <1>1. /\ [merged EXCEPT !.caps = InferCapabilities(merged)] \in ServerFacts
        /\ InferHealth(merged) \in Words
    BY InferType DEF TypeOK
  <1> QED BY <1>1 DEF Data, Payload, TypeOK

\* SaveFacts appends a row with the time of the build.
LEMMA SaveAppends ==
    ASSUME TypeOK, Save
    PROVE  rows' = Append(rows, [server |-> ServerIDs[srv], at |-> at, data |-> Data])
  <1>1. at # 0
    BY RefresherAssumption DEF TypeOK, Save
  <1> QED BY <1>1 DEF Save, Store!SaveFacts

\* SaveFacts appends a well-typed row.
LEMMA SaveType ==
    ASSUME TypeOK, Save
    PROVE  Store!StoreTypeOK'
  <1>1. ServerIDs[srv] \in Servers
    BY ServerIDsType DEF TypeOK, Save
  <1> DEFINE row == [server |-> ServerIDs[srv], at |-> IF at = 0 THEN now ELSE at,
                     data |-> Data]
  <1>2. (IF at = 0 THEN now ELSE at) \in 1..MaxTime
    BY RefresherAssumption DEF TypeOK, Store!StoreTypeOK
  <1>3. row \in Store!Row
    BY <1>1, <1>2, DataType DEF Store!Row
  <1>4. rows' = Append(rows, row) /\ UNCHANGED <<prov, db, now>>
    BY DEF Save, Store!SaveFacts
  <1> HIDE DEF row
  <1>5. rows' \in Seq(Store!Row)
    BY <1>3, <1>4 DEF TypeOK, Store!StoreTypeOK
  <1> QED BY <1>4, <1>5 DEF TypeOK, Store!StoreTypeOK

\* The collector that is called, and the record it may find.
Calling == Pipeline[Len(results) + 1]
OnFile == prov[ServerIDs[srv]]

\* BuildServerFacts merges a result and notes it.
BuildMerges(r) ==
    /\ merged' = mergeInto(merged, r.facts)
    /\ results' = Append(results, [facts |-> r.facts, err |-> r.err, late |-> ctxDone])

\* What it merges is a well-typed result of the collector whose turn it is.
LEMMA CallMerges ==
    ASSUME TypeOK, CallCollector
    PROVE  /\ Calling \in CollectorNames
           /\ \E readable \in BOOLEAN :
              \E r \in Collect(Calling, ctxDone, OnFile, readable) :
                 r.facts \in ServerFacts /\ r.err \in BOOLEAN /\ BuildMerges(r)
  <1>1. Calling \in CollectorNames
    BY RefresherAssumption DEF CallCollector, TypeOK, Calling
  <1>2. OnFile \in [provisioning : Words, domain : Words, exists : BOOLEAN]
    <2>1. ServerIDs[srv] \in Servers
      BY ServerIDsType DEF TypeOK, CallCollector
    <2>2. OnFile \in Records \cup {NoRecord}
      BY <2>1 DEF TypeOK, Store!StoreTypeOK, OnFile
    <2>3. NoRecord \in [provisioning : Words, domain : Words, exists : BOOLEAN]
      BY FactsAssumption DEF NoRecord, FixedWords
    <2>4. Records \subseteq [provisioning : Words, domain : Words, exists : BOOLEAN]
      BY RefresherAssumption
    <2> QED BY <2>2, <2>3, <2>4
  <1>3. PICK readable \in BOOLEAN : \E r \in Collect(Calling, ctxDone, OnFile, readable) :
            BuildMerges(r)
    BY DEF CallCollector, Calling, OnFile, BuildMerges
  <1>4. PICK r \in Collect(Calling, ctxDone, OnFile, readable) : BuildMerges(r)
    BY <1>3
  <1>5. r \in CollectorResult
    BY <1>1, <1>2, <1>4, CollectType DEF TypeOK
  <1>6. r.facts \in ServerFacts /\ r.err \in BOOLEAN
    BY <1>5 DEF CollectorResult
  <1> QED BY <1>1, <1>4, <1>6

\* One collector call of BuildServerFacts, merged, keeps the types.
LEMMA CallCollectorType ==
    ASSUME TypeOK, CallCollector
    PROVE  merged' \in ServerFacts /\ results' \in Seq(Result)
  <1>1. PICK r : r.facts \in ServerFacts /\ r.err \in BOOLEAN /\ BuildMerges(r)
    BY CallMerges
  <1>2. ctxDone \in BOOLEAN /\ merged \in ServerFacts /\ results \in Seq(Result)
    BY DEF TypeOK
  <1>3. [facts |-> r.facts, err |-> r.err, late |-> ctxDone] \in Result
    BY <1>1, <1>2 DEF Result
  <1> QED BY <1>1, <1>2, <1>3, MergeType DEF BuildMerges

\* Ticker, cancel, clock and control plane keep the types.
LEMMA WorldType ==
    ASSUME TypeOK, World
    PROVE  TypeOK'
  <1>1. CASE TickerFires
    BY <1>1 DEF TickerFires, goroutineVars, TypeOK, Store!StoreTypeOK
  <1>2. CASE Cancel
    BY <1>2 DEF Cancel, goroutineVars, TypeOK, Store!StoreTypeOK
  <1>3. CASE Clock
    BY <1>3 DEF Clock, goroutineVars, TypeOK, Store!StoreTypeOK
  <1>4. CASE ControlPlane
    <2>1. PICK id \in Servers, record \in Records :
            /\ Store!SetProvisioning(id, record)
            /\ records' \in {records, records \cup {record}}
      BY <1>4 DEF ControlPlane
    <2>2. Store!StoreTypeOK'
      BY <2>1, <1>4 DEF ControlPlane, Store!SetProvisioning, TypeOK, Store!StoreTypeOK
    <2>3. records' \subseteq Records \cup {NoRecord}
      BY <2>1 DEF TypeOK
    <2> QED BY <2>2, <2>3, <1>4 DEF ControlPlane, goroutineVars, TypeOK
  <1> QED BY <1>1, <1>2, <1>3, <1>4 DEF World

\* Every step of the goroutine and of the world around it keeps the types.
LEMMA TypeStep ==
    ASSUME TypeOK, [Next]_vars
    PROVE  TypeOK'
  <1>1. CASE Start
    <2>1. BuildTypeOK' /\ pc' # "save"
      BY <1>1, BeginCycleType DEF Start
    <2> QED BY <1>1, <2>1 DEF Start, TypeOK, BuildTypeOK, Store!StoreTypeOK
  <1>2. CASE CallCollector
    BY <1>2, CallCollectorType DEF CallCollector, history, TypeOK, Store!StoreTypeOK
  <1>3. CASE FinishBuild
    <2>1. CASE results = <<>>
      <3>1. BuildTypeOK' /\ pc' # "save"
        BY <1>3, <2>1, NextServerType DEF FinishBuild
      <3> QED BY <1>3, <2>1, <3>1 DEF FinishBuild, TypeOK, BuildTypeOK, Store!StoreTypeOK
    <2>2. CASE results # <<>>
      BY <1>3, <2>2, RefresherAssumption
      DEF FinishBuild, TypeOK, Store!StoreTypeOK
    <2> QED BY <2>1, <2>2
  <1>4. CASE Save
    <2>1. BuildTypeOK' /\ pc' # "save"
      BY <1>4, NextServerType DEF Save
    <2>2. Store!StoreTypeOK'
      BY <1>4, SaveType
    <2> QED BY <1>4, <2>1, <2>2 DEF Save, TypeOK, BuildTypeOK
  <1>5. CASE SaveFails
    <2>1. BuildTypeOK' /\ pc' # "save"
      BY <1>5, NextServerType DEF SaveFails
    <2> QED BY <1>5, <2>1 DEF SaveFails, TypeOK, BuildTypeOK, Store!StoreTypeOK
  <1>6. CASE StopOnDone
    BY <1>6 DEF StopOnDone, history, TypeOK, Store!StoreTypeOK
  <1>7. CASE RefreshOnTick
    <2>1. BuildTypeOK' /\ pc' # "save"
      BY <1>7, BeginCycleType DEF RefreshOnTick
    <2>2. cycles' \in 0..MaxCycles
      BY <1>7, RefresherAssumption DEF RefreshOnTick, TypeOK
    <2> QED BY <1>7, <2>1, <2>2 DEF RefreshOnTick, TypeOK, BuildTypeOK, Store!StoreTypeOK
  <1>8. CASE World
    BY <1>8, WorldType
  <1>9. CASE UNCHANGED vars
    BY <1>9 DEF vars, history, TypeOK, Store!StoreTypeOK
  <1> QED BY <1>1, <1>2, <1>3, <1>4, <1>5, <1>6, <1>7, <1>8, <1>9 DEF Next, Goroutine

\* Type correctness: in particular every row saved holds well-typed merged
\* facts, whatever the collectors answered.
THEOREM RefresherTypeCorrect == Spec => []TypeOK
  <1>1. Init => TypeOK
    <2> SUFFICES ASSUME Init PROVE TypeOK
      OBVIOUS
    <2>1. << >> \in Seq(Result) /\ << >> \in Seq(Store!Row)
      OBVIOUS
    <2>2. 1 \in 1..MaxTime /\ 0 \in 0..MaxTime /\ 0 \in 0..MaxCycles
      BY RefresherAssumption
    <2>3. Store!StoreTypeOK
      BY <2>1, <2>2 DEF Init, Store!StoreInit, Store!StoreTypeOK
    <2>4. BuildTypeOK
      BY <2>1, NoFactsType DEF Init, NotStarted, BuildTypeOK
    <2> QED BY <2>2, <2>3, <2>4, TypeParts DEF Init, NotStarted
  <1>2. TypeOK /\ [Next]_vars => TypeOK'
    BY TypeStep
  <1> QED BY <1>1, <1>2, PTL DEF Spec

----------------------------------------------------------------------------
(* Nothing collected after the cancel is on record *)

\* Until the cancel no result of the build under way is late; from the cancel
\* on nothing is saved.  Together this keeps late results off the record.
NoLateResult == ~ctxDone => \A k \in DOMAIN results : ~results[k].late

CancelInv == TypeOK /\ NoLateResult /\ NoRowCollectedAfterCancel

\* The induction step: before the cancel no result is late, and after it no save
\* succeeds.
LEMMA CancelStep ==
    ASSUME CancelInv, [Next]_vars
    PROVE  NoLateResult' /\ NoRowCollectedAfterCancel'
  <1>1. results \in Seq(Result) /\ ctxDone \in BOOLEAN /\ rows \in Seq(Store!Row)
    BY DEF CancelInv, TypeOK, Store!StoreTypeOK
  <1>2. CASE Save
    <2>1. ~ctxDone /\ ctxDone' = ctxDone
      BY <1>2 DEF Save, Store!CanSave
    <2>2. results' = results \/ results' = <<>>
      BY <1>2 DEF Save, NextServer, BeginBuild, EndCycle
    <2>3. PICK row : rows' = Append(rows, row) /\ row.data = Data
      BY <1>2 DEF Save, Store!SaveFacts
    <2>4. NoRowCollectedAfterCancel'
      <3> SUFFICES ASSUME NEW i \in DOMAIN rows'
                   PROVE  \A k \in DOMAIN rows'[i].data.from : ~rows'[i].data.from[k].late
        BY DEF NoRowCollectedAfterCancel
      <3>1. CASE i \in DOMAIN rows
        <4>1. rows'[i] = rows[i]
          BY <1>1, <2>3, <3>1
        <4> QED BY <3>1, <4>1 DEF CancelInv, NoRowCollectedAfterCancel
      <3>2. CASE i \notin DOMAIN rows
        <4>1. rows'[i].data.from = results
          BY <1>1, <2>3, <3>2 DEF Data
        <4> QED BY <4>1, <2>1 DEF CancelInv, NoLateResult
      <3> QED BY <3>1, <3>2
    <2> QED BY <2>1, <2>2, <2>4 DEF CancelInv, NoLateResult
  <1>3. CASE CallCollector
    <2>1. PICK result : results' = Append(results, result) /\ result.late = ctxDone
      BY <1>3 DEF CallCollector
    <2>2. NoLateResult'
      <3> SUFFICES ASSUME ~ctxDone', NEW k \in DOMAIN results'
                   PROVE  ~results'[k].late
        BY DEF NoLateResult
      <3>1. ~ctxDone
        BY <1>3 DEF CallCollector
      <3>2. CASE k \in DOMAIN results
        BY <1>1, <2>1, <3>1, <3>2 DEF CancelInv, NoLateResult
      <3>3. CASE k \notin DOMAIN results
        BY <1>1, <2>1, <3>1, <3>3
      <3> QED BY <3>2, <3>3
    <2> QED BY <2>2, <1>3 DEF CallCollector, CancelInv, NoRowCollectedAfterCancel
  <1>4. CASE Start \/ FinishBuild \/ SaveFails \/ StopOnDone \/ RefreshOnTick
    <2>1. UNCHANGED <<rows, ctxDone>> /\ (results' = results \/ results' = <<>>)
      BY <1>4 DEF Start, FinishBuild, SaveFails, StopOnDone, RefreshOnTick, NextServer,
         BeginCycle, BeginBuild, EndCycle
    <2> QED BY <2>1 DEF CancelInv, NoLateResult, NoRowCollectedAfterCancel
  <1>5. CASE World \/ UNCHANGED vars
    <2>1. UNCHANGED <<rows, results>> /\ (ctxDone' = ctxDone \/ ctxDone' = TRUE)
      BY <1>5 DEF World, TickerFires, Cancel, Clock, ControlPlane, goroutineVars, vars,
         Store!SetProvisioning
    <2> QED BY <2>1 DEF CancelInv, NoLateResult, NoRowCollectedAfterCancel
  <1> QED BY <1>2, <1>3, <1>4, <1>5 DEF Next, Goroutine

\* No row holds a result collected after the context was cancelled, though
\* refreshAll goes on collecting.
THEOREM CancelKeepsRecordClean == Spec => []NoRowCollectedAfterCancel
  <1>1. Init => NoLateResult /\ NoRowCollectedAfterCancel
    BY DEF Init, NotStarted, Store!StoreInit, NoLateResult, NoRowCollectedAfterCancel
  <1>2. CancelInv /\ TypeOK' /\ [Next]_vars => CancelInv'
    BY CancelStep DEF CancelInv
  <1>3. TypeOK /\ NoLateResult /\ NoRowCollectedAfterCancel => CancelInv
    BY DEF CancelInv
  <1>4. CancelInv => NoRowCollectedAfterCancel
    BY DEF CancelInv
  <1> QED BY <1>1, <1>2, <1>3, <1>4, RefresherTypeCorrect, PTL DEF Spec

----------------------------------------------------------------------------
(* Every server gets its turn *)

\* The servers refreshAll has been through when it is at position n.
Before(n) == {ServerIDs[k] : k \in 1..(n-1)}

\* In a cycle the servers attempted are exactly those before the one at hand.
BatchInv ==
    /\ pc \in {"build", "save"} => attempted = Before(srv)
    /\ pc = "select" => attempted = Servers

\* refreshAll's loop goes on to the next server or has been through them all.
LEMMA NextServerBatch ==
    ASSUME TypeOK, BatchInv, pc \in {"build", "save"}, NextServer
    PROVE  BatchInv'
  <1>1. srv \in Nat /\ srv \in DOMAIN ServerIDs /\ attempted = Before(srv)
    BY DEF TypeOK, BatchInv
  <1>2. attempted' = Before(srv + 1)
    BY <1>1 DEF NextServer, Before
  <1>3. CASE srv < Len(ServerIDs)
    BY <1>2, <1>3 DEF NextServer, BeginBuild, BatchInv, Before
  <1>4. CASE ~(srv < Len(ServerIDs))
    <2>1. srv \in 1..Len(ServerIDs) /\ Len(ServerIDs) \in Nat
      BY <1>1, ServerIDsType
    <2>2. srv = Len(ServerIDs)
      BY <1>4, <2>1
    <2>3. attempted' = Servers
      BY <1>1, <1>2, <2>2, ServerIDsType DEF Before, Servers, ToSet
    <2>4. pc' \in {"select", "panicked"}
      BY <1>4 DEF NextServer, EndCycle
    <2> QED BY <2>3, <2>4 DEF BatchInv, Servers
  <1> QED BY <1>3, <1>4

\* A new cycle starts with nobody attempted.
LEMMA BeginCycleBatch ==
    ASSUME BeginCycle
    PROVE  BatchInv'
  <1>1. attempted' = {}
    BY DEF BeginCycle
  <1>2. CASE ServerIDs = <<>>
    <2>1. Servers = {} /\ pc' \in {"select", "panicked"}
      BY <1>2 DEF Servers, ToSet, BeginCycle, EndCycle
    <2> QED BY <1>1, <2>1 DEF BatchInv, Servers
  <1>3. CASE ServerIDs # <<>>
    <2>1. pc' = "build" /\ srv' = 1
      BY <1>3 DEF BeginCycle, BeginBuild
    <2> QED BY <1>1, <2>1 DEF BatchInv, Before
  <1> QED BY <1>2, <1>3

\* No other step of the refresher touches the batch.
LEMMA BatchStep ==
    ASSUME TypeOK, BatchInv, [Next]_vars
    PROVE  BatchInv'
  <1>1. CASE Start \/ RefreshOnTick
    BY <1>1, BeginCycleBatch DEF Start, RefreshOnTick
  <1>2. CASE Save \/ SaveFails
    BY <1>2, NextServerBatch DEF Save, SaveFails
  <1>3. CASE FinishBuild
    <2>1. CASE results = <<>>
      BY <1>3, <2>1, NextServerBatch DEF FinishBuild
    <2>2. CASE results # <<>>
      BY <1>3, <2>2 DEF FinishBuild, BatchInv, Before
    <2> QED BY <2>1, <2>2
  <1>4. CASE StopOnDone
    BY <1>4 DEF StopOnDone, BatchInv
  <1>5. CASE CallCollector \/ World \/ UNCHANGED vars
    <2>1. UNCHANGED <<pc, srv, attempted>>
      BY <1>5 DEF CallCollector, history, World, TickerFires, Cancel, Clock, ControlPlane,
         goroutineVars, vars
    <2> QED BY <2>1 DEF BatchInv, Before
  <1> QED BY <1>1, <1>2, <1>3, <1>4, <1>5 DEF Next, Goroutine

\* One server's failing collectors or failing save never keep another out of
\* the batch (refresher.go:33-34), with any number of servers, also when an id
\* is listed twice.
THEOREM BatchIsWhole == Spec => []WholeBatchAttempted
  <1>1. Init => BatchInv
    BY DEF Init, NotStarted, BatchInv
  <1>2. TypeOK /\ BatchInv /\ [Next]_vars => BatchInv'
    BY BatchStep
  <1>3. BatchInv => WholeBatchAttempted
    BY DEF BatchInv, WholeBatchAttempted
  <1> QED BY <1>1, <1>2, <1>3, RefresherTypeCorrect, PTL DEF Spec

----------------------------------------------------------------------------
(* Rows in time order *)

\* ObservedAt is stamped by the one goroutine that saves: until the clock steps
\* back the rows are in time order, none is of the future, and the row about to
\* be saved is of no earlier time than those on record.
OrderInv ==
    ~steppedBack =>
        /\ \A i, j \in DOMAIN rows : i < j => rows[i].at <= rows[j].at
        /\ \A i \in DOMAIN rows : rows[i].at <= now
        /\ pc = "save" => at <= now /\ \A i \in DOMAIN rows : rows[i].at <= at

\* The times of rows are numbers.
LEMMA RowTimes ==
    ASSUME TypeOK
    PROVE  /\ rows \in Seq(Store!Row)
           /\ \A i \in DOMAIN rows : i \in Nat /\ rows[i].at \in Nat
           /\ now \in Nat /\ at \in Nat
  <1>1. \A r \in Store!Row : r.at \in Nat
    BY RefresherAssumption DEF Store!Row
  <1> QED BY <1>1, RefresherAssumption DEF TypeOK, Store!StoreTypeOK

\* A save of refreshAll keeps the rows in time order.
LEMMA SaveInOrder ==
    ASSUME TypeOK, OrderInv, Save
    PROVE  OrderInv'
  <1> DEFINE row == [server |-> ServerIDs[srv], at |-> at, data |-> Data]
  <1>1. rows' = Append(rows, row) /\ row.at = at
    BY SaveAppends
  <1> HIDE DEF row
  <1>2. pc = "save" /\ pc' # "save" /\ steppedBack' = steppedBack /\ now' = now
    BY NextServerType DEF Save
  <1> SUFFICES ASSUME ~steppedBack
               PROVE  /\ \A i, j \in DOMAIN rows' : i < j => rows'[i].at <= rows'[j].at
                      /\ \A i \in DOMAIN rows' : rows'[i].at <= now
    BY <1>2 DEF OrderInv
  <1>3. /\ \A i, j \in DOMAIN rows : i < j => rows[i].at <= rows[j].at
        /\ \A i \in DOMAIN rows : rows[i].at <= now
        /\ at <= now /\ \A i \in DOMAIN rows : rows[i].at <= at
    BY <1>2 DEF OrderInv
  <1>4. /\ DOMAIN rows = 1..Len(rows) /\ Len(rows) \in Nat
        /\ DOMAIN rows' = 1..(Len(rows) + 1)
        /\ \A i \in DOMAIN rows : rows'[i] = rows[i]
        /\ rows'[Len(rows) + 1] = row
    BY <1>1, RowTimes
  <1>5. \A i \in DOMAIN rows' : i \in DOMAIN rows \/ i = Len(rows) + 1
    BY <1>4
  <1>6. \A i \in DOMAIN rows' : rows'[i].at <= now
    BY <1>1, <1>3, <1>4, <1>5
  <1>7. ASSUME NEW i \in DOMAIN rows', NEW j \in DOMAIN rows', i < j
        PROVE  rows'[i].at <= rows'[j].at
    <2>1. i \in DOMAIN rows
      BY <1>4, <1>7
    <2>2. CASE j \in DOMAIN rows
      BY <1>3, <1>4, <1>7, <2>1, <2>2
    <2>3. CASE j = Len(rows) + 1
      BY <1>1, <1>3, <1>4, <2>1, <2>3
    <2> QED BY <1>5, <2>2, <2>3
  <1> QED BY <1>6, <1>7

\* No other step saves; the end of a build stamps the time.
LEMMA OrderStep ==
    ASSUME TypeOK, OrderInv, [Next]_vars
    PROVE  OrderInv'
  <1>1. CASE Save
    BY <1>1, SaveInOrder
  <1>2. CASE FinishBuild
    <2>1. UNCHANGED <<rows, now, steppedBack>>
      BY <1>2 DEF FinishBuild
    <2>2. pc' = "save" => at' = now
      <3>1. CASE results = <<>>
        BY <1>2, <3>1, NextServerType DEF FinishBuild
      <3>2. CASE results # <<>>
        BY <1>2, <3>2 DEF FinishBuild
      <3> QED BY <3>1, <3>2
    <2> QED BY <2>1, <2>2, RowTimes DEF OrderInv
  <1>3. CASE Clock
    <2>1. UNCHANGED <<rows, pc, at>> /\ steppedBack' = (steppedBack \/ now' < now)
      BY <1>3 DEF Clock, goroutineVars
    <2>2. now' \in Nat
      BY <1>3, RefresherAssumption DEF Clock
    <2>3. CASE steppedBack'
      BY <2>3 DEF OrderInv
    <2>4. CASE ~steppedBack'
      <3>1. ~steppedBack /\ ~(now' < now)
        BY <2>1, <2>4, Zenon
      <3>2. \A t \in Nat : t <= now => t <= now'
        BY <2>2, <3>1, RowTimes
      <3> QED BY <2>1, <2>4, <3>1, <3>2, RowTimes DEF OrderInv
    <2> QED BY <2>3, <2>4
  <1>4. CASE Start \/ CallCollector \/ SaveFails \/ StopOnDone \/ RefreshOnTick
    <2>1. UNCHANGED <<rows, now, at, steppedBack>>
      BY <1>4 DEF Start, CallCollector, history, SaveFails, StopOnDone, RefreshOnTick
    <2>2. pc' # "save"
      BY <1>4, BeginCycleType, NextServerType
      DEF Start, CallCollector, SaveFails, StopOnDone, RefreshOnTick
    <2> QED BY <2>1, <2>2 DEF OrderInv
  <1>5. CASE TickerFires \/ Cancel \/ ControlPlane \/ UNCHANGED vars
    <2>1. UNCHANGED <<rows, now, at, pc, steppedBack>>
      BY <1>5 DEF TickerFires, Cancel, ControlPlane, Store!SetProvisioning, goroutineVars,
         vars, history
    <2> QED BY <2>1 DEF OrderInv
  <1> QED BY <1>1, <1>2, <1>3, <1>4, <1>5 DEF Next, Goroutine, World

\* Rows in time order get the same answer from both queries, ties included.
LEMMA OrderedQueriesAgree ==
    ASSUME TypeOK, NEW id \in Servers,
           \A i, j \in DOMAIN rows : i < j => rows[i].at <= rows[j].at
    PROVE  Store!GetLatestFacts(id) = Store!FleetLatest(id)
  <1>1. \A i \in Store!RowsOf(id) : i \in DOMAIN rows /\ i \in Nat /\ rows[i].at \in Nat
    BY RowTimes DEF Store!RowsOf
  <1>2. Store!GetLatestFacts(id) \subseteq Store!FleetLatest(id)
    BY <1>1 DEF Store!GetLatestFacts, Store!FleetLatest
  <1>3. Store!FleetLatest(id) \subseteq Store!GetLatestFacts(id)
    BY <1>1 DEF Store!GetLatestFacts, Store!FleetLatest
  <1> QED BY <1>2, <1>3

\* Unless the clock has stepped back the API and the fleet tools serve the same
\* row of every server, though one goes by observed_at and the other by row id
\* (store.go:104, list.go:45-73).
THEOREM RefresherQueriesAgree == Spec => []QueriesAgree
  <1>1. Init => OrderInv
    BY DEF Init, Store!StoreInit, NotStarted, OrderInv
  <1>2. TypeOK /\ OrderInv /\ [Next]_vars => OrderInv'
    BY OrderStep
  <1>3. TypeOK /\ OrderInv => QueriesAgree
    BY OrderedQueriesAgree DEF OrderInv, QueriesAgree
  <1> QED BY <1>1, <1>2, <1>3, RefresherTypeCorrect, PTL DEF Spec
=============================================================================
