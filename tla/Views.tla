------------------------------- MODULE Views -------------------------------
(***************************************************************************)
(* Package api's curated views of ServerFacts (views.go).  Each response   *)
(* field is computed from typed facts only.                                *)
(***************************************************************************)
EXTENDS Facts

networkFeatureCapabilities == {"sriov", "rdma", "high_bandwidth_networking"}

\* The sum over all NICs, which differ in name.
totalBandwidthGbps(nics) == MapThenSumSet(LAMBDA n : n.speed, nics)

deriveState(t, health) ==
    IF Folded(t.Provisioning) = "provisioning" THEN "provisioning"
    ELSE IF health = "healthy" THEN "active"
         ELSE IF health = "degraded" THEN "degraded" ELSE "unknown"

\* primaryDiskType gone wrong: the cheapest tier first.
primaryDiskTypeCheapest(disks) ==
    IF "hdd" \in disks THEN "hdd"
    ELSE IF "ssd" \in disks THEN "ssd"
         ELSE IF "nvme" \in disks THEN "nvme" ELSE ""

\* The fastest tier present; a type of disk that has no rank is passed over.
primaryDiskType(disks) ==
    IF "nvme" \in disks THEN "nvme"
    ELSE IF "ssd" \in disks THEN "ssd"
         ELSE IF "hdd" \in disks THEN "hdd" ELSE ""

\* "8c-32gb-nvme", by its three parts.
deriveMachineType(t) ==
    IF t.Cores = 0 /\ t.MemoryGB = 0 THEN <<>>
    ELSE <<t.Cores, t.MemoryGB, primaryDiskType(t.Disks)>>

deriveNUMA(t) == [available |-> t.Sockets > 1,
                  topology  |-> t.Sockets > 0 /\ t.Cores > 0 /\ t.Threads > 0]

PublicView(f, health) ==
    LET t == f.typed IN
    [state       |-> deriveState(t, health),
     machineType |-> deriveMachineType(t),
     region      |-> t.FailureDomain,
     publicIPv4  |-> "public_ipv4" \in f.modes,
     privateNets |-> f.modes \ {"public_ipv4"},
     bandwidth   |-> totalBandwidthGbps(t.NICs),
     features    |-> f.caps \cap networkFeatureCapabilities,
     capable     |-> f.caps \cap {"local_nvme", "sriov", "rdma", "secure_boot"},
     lifecycle   |-> [provisioning |-> t.Provisioning, health |-> health,
                      rescue |-> Folded(t.Provisioning) = "rescue"]]

HardwareView(f) ==
    LET t == f.typed IN
    [model |-> t.Model, sockets |-> t.Sockets, cores |-> t.Cores,
     memoryGB |-> t.MemoryGB, nics |-> t.NICs, numa |-> deriveNUMA(t)]
=============================================================================
