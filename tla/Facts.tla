------------------------------- MODULE Facts -------------------------------
(***************************************************************************)
(* The normalized ServerFacts of package facts: the merge of what several  *)
(* collectors report about one server (facts/merge.go) and the values      *)
(* derived from the merged facts (facts/infer.go).                         *)
(*                                                                         *)
(* A value of ServerFacts is a record of                                   *)
(*   typed   the single-valued fields, each with Go's zero value for       *)
(*           "nobody set it"; the disks are the set of their types and the *)
(*           NICs a set of names, speeds and features, because nothing     *)
(*           merged, inferred or served reads more of them, or their       *)
(*           order;                                                        *)
(*   source  the "+"-joined Source string as a sequence of its parts;      *)
(*   modes, caps   NetworkModes and Capabilities, as sets;                 *)
(*   raw     the Raw map.                                                  *)
(* ServerID is the argument of BuildServerFacts throughout, and the        *)
(* ObservedAt that collectors set is overwritten at the end of the build;  *)
(* both live in the row of the store that is written (FactsStore).         *)
(***************************************************************************)
EXTENDS Naturals, Sequences, FiniteSets, SequencesExt

CONSTANT Words   \* the strings a field may hold

\* Those the code itself writes: Go's zero value, the names of sources, power
\* states, Raw values, capabilities and health words.
FixedWords == {"", "linux_host", "redfish", "redfish_demo", "provisioning_store",
               "linux_lldp", "ipmi", "on", "off", "demo", "true", "real", "heard",
               "ok", "nan", "local_nvme", "high_bandwidth_networking", "sriov",
               "rdma", "power_control", "unknown", "degraded", "healthy"}

ASSUME FactsAssumption == FixedWords \subseteq Words

\* The zero value of every single-valued field.
Zero == [PowerState |-> "", Provisioning |-> "", FailureDomain |-> "",
         Vendor |-> "", Model |-> "", Sockets |-> 0, Cores |-> 0,
         Threads |-> 0, MemoryGB |-> 0, Disks |-> {}, NICs |-> {}]

TypedFields == DOMAIN Zero

Typed == [PowerState : Words, Provisioning : Words, FailureDomain : Words,
          Vendor : Words, Model : Words, Sockets : Nat, Cores : Nat,
          Threads : Nat, MemoryGB : Nat, Disks : SUBSET Words,
          NICs : SUBSET [name : Words, speed : Nat, features : SUBSET Words]]

\* The Raw keys that are told apart; a key the map does not have is "".
NoRaw == [vendor |-> "", demo_mode |-> "", lldp_neighbors |-> "", bmc_sensors |-> ""]
Raw == [vendor : Words, demo_mode : Words, lldp_neighbors : Words,
        bmc_sensors : Words]

ServerFacts == [typed : Typed, source : Seq(Words), modes : SUBSET Words,
                caps : SUBSET Words, raw : Raw]

\* &ServerFacts{ServerID: id, Raw: map[string]any{}}
NoFacts == [typed |-> Zero, source |-> <<>>, modes |-> {}, caps |-> {},
            raw |-> NoRaw]

----------------------------------------------------------------------------
(* Merging *)

\* FillGaps gone wrong: the last collector wins.
FillGapsLastWins(nothing, dst, src) ==
    [f \in DOMAIN nothing |-> IF src[f] = nothing[f] THEN dst[f] ELSE src[f]]

\* What mergeInto and mergeCPU do to every single-valued field, and to every
\* key of Raw: fill it if dst has nothing, else leave it alone.
FillGaps(nothing, dst, src) ==
    [f \in DOMAIN nothing |-> IF dst[f] = nothing[f] THEN src[f] ELSE dst[f]]

\* Source is recorded once per contributing collector, in merge order.  A
\* collector's own source is a sequence of one name, or empty.
mergeSource(dst, src) ==
    IF src = <<>> \/ Contains(dst, Head(src)) THEN dst ELSE dst \o src

\* unionStrings drops "" and duplicates.
unionStrings(dst, src) == dst \cup (src \ {""})

mergeInto(dst, src) ==
    [typed  |-> FillGaps(Zero, dst.typed, src.typed),
     source |-> mergeSource(dst.source, src.source),
     modes  |-> unionStrings(dst.modes, src.modes),
     caps   |-> unionStrings(dst.caps, src.caps),
     raw    |-> FillGaps(NoRaw, dst.raw, src.raw)]

----------------------------------------------------------------------------
(* Inference.  EqualFold compares without case; the spellings a collector  *)
(* or the control plane may use are listed.                                *)

Folded(word) ==
    CASE word \in {"nvme", "NVMe"}     -> "nvme"
      [] word \in {"SRIOV", "sr-iov"}  -> "sriov"
      [] word \in {"on", "On"}         -> "on"
      [] word \in {"failed", "Failed"} -> "failed"
      [] word \in {"provisioning", "Provisioning"} -> "provisioning"
      [] word \in {"rescue", "Rescue"} -> "rescue"
      [] OTHER                         -> word

When(capability, observed) == IF observed THEN {capability} ELSE {}

\* The result is sorted and free of duplicates in the code: a set.
InferCapabilities(f) ==
    LET t == f.typed
        features == {Folded(c) : c \in UNION {n.features : n \in t.NICs}}
    IN f.caps
       \cup When("local_nvme", \E d \in t.Disks : Folded(d) = "nvme")
       \cup When("high_bandwidth_networking", \E n \in t.NICs : n.speed >= 25)
       \cup (features \cap {"sriov", "rdma"})
       \cup When("power_control", t.PowerState # "")

HasHardwareFacts(t) ==
    t.Cores > 0 \/ t.MemoryGB > 0 \/ t.Disks # {} \/ t.NICs # {}

\* InferHealth gone wrong: the power state is not looked at.
InferHealthPowerIgnored(f) ==
    LET t == f.typed IN
    IF ~HasHardwareFacts(t) /\ t.PowerState = "" /\ t.Provisioning = "" THEN "unknown"
    ELSE IF Folded(t.Provisioning) \in {"failed", "error"} \/ ~HasHardwareFacts(t)
         THEN "degraded" ELSE "healthy"

InferHealth(f) ==
    LET t == f.typed IN
    IF ~HasHardwareFacts(t) /\ t.PowerState = "" /\ t.Provisioning = ""
    THEN "unknown"
    ELSE IF \/ Folded(t.Provisioning) \in {"failed", "error"}
            \/ t.PowerState # "" /\ Folded(t.PowerState) # "on"
            \/ ~HasHardwareFacts(t)
         THEN "degraded"
         ELSE "healthy"
=============================================================================
