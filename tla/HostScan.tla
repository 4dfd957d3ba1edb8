----------------------------- MODULE HostScan -----------------------------
(***************************************************************************)
(* Builds of the local host's facts by collectors of Wave2, one source     *)
(* read at a time, over and over, while the host changes under them:       *)
(* devices come and go, modules are loaded and unloaded, links go up and   *)
(* down.  What the refresher does between builds is Refresher's concern.   *)
(***************************************************************************)
EXTENDS Wave2

CONSTANTS
    Pipelines,     \* choices of collectors, each in the order of Wave2Collectors
    Relevant,      \* for each of them, features that may come and go and that no
                   \* other collector reports on
    Outages,       \* commands not installed and files not there (missing), with
                   \* commands that are installed and fail (failing)
    MaxChanges     \* bound: changes of the host

Wave2Collectors == <<"linux_pci", "linux_rdma", "linux_numa", "linux_hugepages",
                     "linux_iommu", "linux_tee", "linux_nic_offload",
                     "linux_net_topology", "linux_kernel", "linux_gpu">>

ASSUME HostScanAssumption ==
    /\ Pipelines \subseteq Seq(ToSet(Wave2Collectors))
    /\ \A p \in Pipelines : p = SelectSeq(Wave2Collectors, LAMBDA c : c \in ToSet(p))
    /\ Relevant \in [Pipelines -> SUBSET Features]
    /\ Outages \subseteq [missing : SUBSET Sources, failing : SUBSET Sources]
    /\ MaxChanges \in Nat

\* nvidia-smi works only with the driver loaded; everything else that is there
\* can be read.
ReadOf(source, present, unread) ==
    IF source \in unread \/ (source = "nvidia_smi" /\ "nvidia_driver" \notin present)
    THEN {} ELSE {present \cap Displays[source]}

\* Collectors left out of a choice would have nothing to say of its features.
ASSUME RelevantAssumption ==
    \A p \in Pipelines, m \in Outages : \A c \in ToSet(Wave2Collectors) \ ToSet(p) :
        Wave2Collect(c, [s \in ToSet(Reads[c]) |->
                            ReadOf(s, Relevant[p] \cup {"node0"}, m.missing \cup m.failing)],
                     m.missing)
          = Result({}, {})

VARIABLES
    pipeline, missing, failing,  \* chosen once
    host,      \* the features the host has now
    changes,   \* so far
    pos,       \* the collector at work, a position in pipeline; 0 between builds
    obs,       \* what its Collect has read so far
    merged,    \* the build's capabilities and modes so far
    during, always,  \* history: features the host had at some, at every instant
                     \* of the build
    row        \* the latest row on record

vars == <<pipeline, missing, failing, host, changes, pos, obs, merged, during, always, row>>

NoRow == [caps |-> {}, modes |-> {}, during |-> Features, always |-> {}]

----------------------------------------------------------------------------
Unread == missing \cup failing
Read(source) == ReadOf(source, host, Unread)

\* BeginBuild gone wrong: what the last build merged is kept.
BeginBuildKeeps ==
    /\ pos = 0
    /\ pos' = 1
    /\ during' = host /\ always' = host
    /\ UNCHANGED <<pipeline, missing, failing, host, changes, obs, merged, row>>

\* BuildServerFacts starts from empty facts.
BeginBuild ==
    /\ pos = 0
    /\ pos' = 1
    /\ merged' = Result({}, {})
    /\ during' = host /\ always' = host
    /\ UNCHANGED <<pipeline, missing, failing, host, changes, obs, row>>

\* A result is merged and the next collector's turn comes.
Merge(result) ==
    /\ pos' = pos + 1
    /\ merged' = Result(unionStrings(merged.caps, result.caps),
                        unionStrings(merged.modes, result.modes))
    /\ obs' = <<>>

\* The collector at work reads its next source; its last one completes it.
ReadSource ==
    /\ pos \in DOMAIN pipeline
    /\ LET c == pipeline[pos]
           next == Reads[c][Cardinality(DOMAIN obs) + 1]
           o == [s \in DOMAIN obs \cup {next} |-> IF s = next THEN Read(s) ELSE obs[s]]
       IN IF DOMAIN o # ToSet(Reads[c])
          THEN obs' = o /\ UNCHANGED <<pos, merged>>
          ELSE Merge(Wave2Collect(c, o, missing))
    /\ UNCHANGED <<pipeline, missing, failing, host, changes, during, always, row>>

Save ==
    /\ pos = Len(pipeline) + 1
    /\ pos' = 0
    /\ row' = [caps |-> merged.caps, modes |-> merged.modes,
               during |-> during, always |-> always]
    /\ UNCHANGED <<pipeline, missing, failing, host, changes, obs, merged, during, always>>

HostChanges ==
    /\ changes < MaxChanges
    /\ changes' = changes + 1
    /\ \E f \in Relevant[pipeline] :
          host' = IF f \in host THEN host \ {f} ELSE host \cup {f}
    /\ during' = during \cup host'
    /\ always' = always \cap host'
    /\ UNCHANGED <<pipeline, missing, failing, pos, obs, merged, row>>

Init == /\ pipeline \in Pipelines
        /\ \E outage \in Outages : missing = outage.missing /\ failing = outage.failing
        /\ \E present \in SUBSET Relevant[pipeline] : host = present \cup {"node0"}
        /\ changes = 0 /\ pos = 0 /\ obs = <<>> /\ merged = Result({}, {})
        /\ during = host /\ always = host
        /\ row = NoRow

Build == BeginBuild \/ ReadSource \/ Save

Next == Build \/ HostChanges

\* The refresher goes on building, and its commands and reads return.
FairSpec == Init /\ [][Next]_vars /\ WF_vars(Build)

----------------------------------------------------------------------------
(* Properties *)

\* What each capability and network mode stands for, as sets of features any
\* one of which is evidence enough.  Where the kvm parameters cannot be read
\* the CPU's flag alone counts (linux_tee.go:98-102).
SEV(flag, on) == IF kvmParam[flag] \in Unread THEN {{flag}} ELSE {{flag, on}}
TEEs == [sev |-> SEV("sev", "sev_on"), sev_es |-> SEV("sev_es", "sev_es_on"),
         sev_snp |-> SEV("sev_snp", "sev_snp_on"), sgx |-> {{"sgx"}},
         tdx |-> {{"tdx_guest"}, {"tdx_on"}, {"tdx_device"}}]

Evidence ==
    [sev             |-> TEEs.sev,           sev_es      |-> TEEs.sev_es,
     sev_snp         |-> TEEs.sev_snp,       sgx         |-> TEEs.sgx,
     tdx             |-> TEEs.tdx,
     tee_capable     |-> UNION {TEEs[t] : t \in DOMAIN TEEs},
     pcie_gen5       |-> {{"gpu"}},          pcie_gen4   |-> {{"dpu"}},
     gpu_accelerator |-> {{"gpu"}},          sriov       |-> {{"dpu"}},
     rdma            |-> {{"ib_hca"}, {"roce_hca"}},
     infiniband      |-> {{"ib_hca"}},       roce        |-> {{"roce_hca"}},
     rdma_active     |-> {{"roce_hca", "roce_up"}},
     multi_numa      |-> {{"node0", "node1"}},
     hugepages       |-> {{"huge_2m"}, {"huge_1g"}},
     hugepages_1g    |-> {{"huge_1g"}},
     iommu           |-> {{"iommu_groups"}}, iommu_passthrough |-> {{"iommu_groups", "iommu_pt"}},
     ptp_hardware_clock |-> {{"nic", "phc"}},
     bonded          |-> {{"bond"}},         lacp        |-> {{"bond", "lacp"}},
     vlan_tagged     |-> {{"vlan"}},         bridged     |-> {{"bridge"}},
     vfio            |-> {{"vfio_pci"}},
     gpu             |-> {{"gpu"}},          nvidia_gpu  |-> {{"gpu"}},
     gpu_cuda        |-> {{"nvidia_driver"}}, bluefield_dpu |-> {{"dpu"}},
     doca            |-> {{"mst"}, {"doca_tool"}},
     gpudirect_rdma  |-> {{"peermem", "ib_hca"}, {"peermem", "roce_hca"}}]

OnRecord == row.caps \cup row.modes

\* "only added for features actually observed on the host" (linux_gpu.go:85-87,
\* linux_tee.go:43-45): all the evidence for a capability or mode on record
\* was there while its build ran, whatever came and went meanwhile, whatever
\* could not be read, and nothing is left of an earlier build.
CapabilitiesWereThere ==
    LET evidence == Evidence
    IN \A c \in OnRecord : \E e \in evidence[c] : e \subseteq row.during

\* All that cannot be read is a tool another source stands in for; a failing
\* rdma tool is not replaced (linux_rdma.go:132-137).
Replaced == missing \subseteq {"rdma", "numactl", "nvidia_smi"}
            /\ failing \subseteq {"numactl", "nvidia_smi"}

\* What the record should say of features there all through and ever there:
\* only the best PCIe generation is reported (linux_pci.go:144-146).
Expected(there, ever) ==
    LET evidence == Evidence
    IN {c \in DOMAIN evidence : /\ \E e \in evidence[c] : e \subseteq there
                                /\ c = "pcie_gen4" => "gpu" \notin ever}

\* Evidence that was there all through a build is on record, also with a tool
\* missing or failing that another source stands in for.
NothingMissed ==
    Replaced => Expected(row.always, row.during) \subseteq OnRecord

\* A host that changes no more is soon on record exactly as it is: nothing
\* that is gone stays, nothing that came stays out.
RecordCatchesUp ==
    Replaced => <>[](OnRecord = Expected(host, host))
=============================================================================
