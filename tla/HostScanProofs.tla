--------------------------- MODULE HostScanProofs ---------------------------
(***************************************************************************)
(* The record of a build says what was on the host while it ran, for every *)
(* choice of collectors and whatever comes and goes, proved from HostScan. *)
(***************************************************************************)
EXTENDS HostScan, FiniteSetTheorems, TLAPS

\* Evidence for a capability or mode among the features D.
Has(x, D) == \E e \in Evidence[x] : e \subseteq D

\* The capabilities and modes each collector reports.
ReportedBy ==
    [linux_pci          |-> {"pcie_gen5", "pcie_gen4", "gpu_accelerator", "sriov"},
     linux_rdma         |-> {"rdma", "infiniband", "roce", "rdma_active"},
     linux_numa         |-> {"multi_numa"},
     linux_hugepages    |-> {"hugepages", "hugepages_1g"},
     linux_iommu        |-> {"iommu", "iommu_passthrough"},
     linux_tee          |-> {"sev", "sev_es", "sev_snp", "sgx", "tdx", "tee_capable"},
     linux_nic_offload  |-> {"ptp_hardware_clock"},
     linux_net_topology |-> {"bonded", "lacp", "vlan_tagged", "bridged"},
     linux_kernel       |-> {"vfio"},
     linux_gpu          |-> {"gpu", "nvidia_gpu", "gpu_cuda", "bluefield_dpu", "doca",
                             "gpudirect_rdma"}]

\* What a Collect may have read of a host that had the features there all the
\* while and others, of ever, for some of it.
Shows(o, there, ever) ==
    \A s \in DOMAIN o :
        /\ Seen(o, s) \subseteq ever \cap Displays[s]
        /\ o[s] = {} => s \in Unread \/ s = "nvidia_smi"
        /\ s \in Unread => o[s] = {} /\ Seen(o, s) = {}
        /\ \/ there \cap Displays[s] \subseteq Seen(o, s)
           \/ s \in Unread
           \/ s = "nvidia_smi" /\ "nvidia_driver" \notin there
        /\ s = "nvidia_smi" /\ Seen(o, s) # {} => "nvidia_driver" \in ever

Reported(result) == result.caps \cup result.modes

\* Only what there is evidence for is expected.
LEMMA OnlyExpected ==
    ASSUME NEW there, NEW ever
    PROVE  \A x \in Expected(there, ever) :
              /\ x \in DOMAIN Evidence /\ Has(x, there)
              /\ x = "pcie_gen4" => "gpu" \notin ever
  BY DEF Expected, Has

\* A result says nothing without evidence, and all there is evidence for.
Faithful(c, result, there, ever) ==
    /\ \A x \in Reported(result) : x # "" /\ Has(x, ever)
    /\ Replaced =>
          ReportedBy[c] \cap Expected(there, ever) \subseteq Reported(result)

-----------------------------------------------------------------------------
(* The collectors, one after the other. What a Collect found follows from  *)
(* what it read, what it read was there, and what was there is evidence.   *)

\* The modules loaded (KernelCollector).
LEMMA KernelReports ==
    ASSUME NEW o, NEW there, NEW ever, Shows(o, there, ever),
           DOMAIN o = ToSet(Reads.linux_kernel)
    PROVE  Faithful("linux_kernel", KernelCollect(o), there, ever)
  <1> DEFINE S == Reported(KernelCollect(o))
             vfio == "vfio_pci" \in Seen(o, "modules")
  <1>1. DOMAIN o = {"modules"}
    BY DEF Reads, ToSet
  <1>2. /\ vfio => "vfio_pci" \in ever
        /\ Replaced => ("vfio_pci" \in there => vfio)
    BY <1>1 DEF Shows, Displays, Replaced, Unread
  <1>3. /\ "vfio" \in S <=> vfio
        /\ S \subseteq {"vfio"}
    BY DEF KernelCollect, Result, When, Reported
  <1>4. \A D : /\ Has("vfio", D) <=> "vfio_pci" \in D
    BY DEF Has, Evidence
  <1> HIDE DEF S, vfio
  <1>5. \A x \in S : x # "" /\ Has(x, ever)
    BY <1>2, <1>3, <1>4
  <1>6. Replaced => ReportedBy.linux_kernel \cap Expected(there, ever) \subseteq S
    BY <1>2, <1>3, <1>4, OnlyExpected DEF ReportedBy
  <1> QED BY <1>5, <1>6 DEF Faithful, S

\* The clock of a network card (NICOffloadCollector).
LEMMA NICOffloadReports ==
    ASSUME NEW o, NEW there, NEW ever, Shows(o, there, ever),
           DOMAIN o = ToSet(Reads.linux_nic_offload)
    PROVE  Faithful("linux_nic_offload", NICOffloadCollect(o), there, ever)
  <1> DEFINE S == Reported(NICOffloadCollect(o))
             nic == "nic" \in Seen(o, "ip_link")
             phc == "phc" \in Seen(o, "ethtool")
  <1>1. DOMAIN o = {"ip_link", "ethtool"}
    BY DEF Reads, ToSet
  <1>2. /\ nic => "nic" \in ever
        /\ phc => "phc" \in ever
        /\ Replaced => /\ "nic" \in there => nic
                       /\ "phc" \in there => phc
    BY <1>1 DEF Shows, Displays, Replaced, Unread
  <1>3. /\ "ptp_hardware_clock" \in S <=> nic /\ phc
        /\ S \subseteq {"ptp_hardware_clock"}
    BY DEF NICOffloadCollect, Result, When, Reported
  <1>4. \A D : /\ Has("ptp_hardware_clock", D) <=> "nic" \in D /\ "phc" \in D
    BY DEF Has, Evidence
  <1> HIDE DEF S, nic, phc
  <1>5. \A x \in S : x # "" /\ Has(x, ever)
    BY <1>2, <1>3, <1>4
  <1>6. Replaced => ReportedBy.linux_nic_offload \cap Expected(there, ever) \subseteq S
    BY <1>2, <1>3, <1>4, OnlyExpected DEF ReportedBy
  <1> QED BY <1>5, <1>6 DEF Faithful, S

\* Bonds, VLANs and bridges (NetTopologyCollector).
LEMMA NetTopologyReports ==
    ASSUME NEW o, NEW there, NEW ever, Shows(o, there, ever),
           DOMAIN o = ToSet(Reads.linux_net_topology)
    PROVE  Faithful("linux_net_topology", NetTopologyCollect(o), there, ever)
  <1> DEFINE S == Reported(NetTopologyCollect(o))
             link(f) == f \in Seen(o, "ip_detail")
             lacp == "lacp" \in Seen(o, "bonding")
  <1>1. DOMAIN o = {"ip_detail", "bonding"}
    BY DEF Reads, ToSet
  <1>2. /\ \A f \in {"bond", "vlan", "bridge"} :
              /\ link(f) => f \in ever
              /\ Replaced => (f \in there => link(f))
        /\ lacp => "lacp" \in ever
        /\ Replaced => ("lacp" \in there => lacp)
    BY <1>1 DEF Shows, Displays, Replaced, Unread
  <1>3. /\ "bonded" \in S <=> link("bond")
        /\ "lacp" \in S <=> link("bond") /\ lacp
        /\ "vlan_tagged" \in S <=> link("vlan")
        /\ "bridged" \in S <=> link("bridge")
        /\ S \subseteq {"bonded", "lacp", "vlan_tagged", "bridged"}
    BY DEF NetTopologyCollect, Result, When, Reported
  <1>4. \A D : /\ Has("bonded", D) <=> "bond" \in D
               /\ Has("lacp", D) <=> "bond" \in D /\ "lacp" \in D
               /\ Has("vlan_tagged", D) <=> "vlan" \in D
               /\ Has("bridged", D) <=> "bridge" \in D
    BY DEF Has, Evidence
  <1> HIDE DEF S, link, lacp
  <1>5. \A x \in S : x # "" /\ Has(x, ever)
    BY <1>2, <1>3, <1>4
  <1>6. Replaced => ReportedBy.linux_net_topology \cap Expected(there, ever) \subseteq S
    BY <1>2, <1>3, <1>4, OnlyExpected DEF ReportedBy
  <1> QED BY <1>5, <1>6 DEF Faithful, S

\* The IOMMU's groups and the kernel's command line (IOMMUCollector).
LEMMA IOMMUReports ==
    ASSUME NEW o, NEW there, NEW ever, Shows(o, there, ever),
           DOMAIN o = ToSet(Reads.linux_iommu)
    PROVE  Faithful("linux_iommu", IOMMUCollect(o), there, ever)
  <1> DEFINE S == Reported(IOMMUCollect(o))
             groups == "iommu_groups" \in Seen(o, "iommu_groups")
             pt == "iommu_pt" \in Seen(o, "cmdline")
  <1>1. DOMAIN o = {"iommu_groups", "cmdline"}
    BY DEF Reads, ToSet
  <1>2. /\ groups => "iommu_groups" \in ever
        /\ pt => "iommu_pt" \in ever
        /\ Replaced => /\ "iommu_groups" \in there => groups
                       /\ "iommu_pt" \in there => pt
    BY <1>1 DEF Shows, Displays, Replaced, Unread
  <1>3. /\ "iommu" \in S <=> groups
        /\ "iommu_passthrough" \in S <=> groups /\ pt
        /\ S \subseteq {"iommu", "iommu_passthrough"}
    BY DEF IOMMUCollect, Result, When, Reported
  <1>4. \A D : /\ Has("iommu", D) <=> "iommu_groups" \in D
               /\ Has("iommu_passthrough", D) <=> "iommu_groups" \in D /\ "iommu_pt" \in D
    BY DEF Has, Evidence
  <1> HIDE DEF S, groups, pt
  <1>5. \A x \in S : x # "" /\ Has(x, ever)
    BY <1>2, <1>3, <1>4
  <1>6. Replaced => ReportedBy.linux_iommu \cap Expected(there, ever) \subseteq S
    BY <1>2, <1>3, <1>4, OnlyExpected DEF ReportedBy
  <1> QED BY <1>5, <1>6 DEF Faithful, S

\* Pages of either size (HugepagesCollector).
LEMMA HugepagesReports ==
    ASSUME NEW o, NEW there, NEW ever, Shows(o, there, ever),
           DOMAIN o = ToSet(Reads.linux_hugepages)
    PROVE  Faithful("linux_hugepages", HugepagesCollect(o), there, ever)
  <1> DEFINE S == Reported(HugepagesCollect(o))
             total == "huge_2m" \in Seen(o, "meminfo")
             reserved(f) == f \in Seen(o, "huge_sysfs")
  <1>1. DOMAIN o = {"meminfo", "huge_sysfs"}
    BY DEF Reads, ToSet
  <1>2. /\ total => "huge_2m" \in ever
        /\ Seen(o, "huge_sysfs") \subseteq {"huge_2m", "huge_1g"}
        /\ \A f \in {"huge_2m", "huge_1g"} :
              /\ reserved(f) => f \in ever
              /\ Replaced => (f \in there => reserved(f))
    BY <1>1 DEF Shows, Displays, Replaced, Unread
  <1>3. /\ "hugepages" \in S <=> total \/ reserved("huge_2m") \/ reserved("huge_1g")
        /\ "hugepages_1g" \in S <=> reserved("huge_1g")
        /\ S \subseteq {"hugepages", "hugepages_1g"}
    BY <1>2 DEF HugepagesCollect, Result, When, Reported
  <1>4. \A D : /\ Has("hugepages", D) <=> "huge_2m" \in D \/ "huge_1g" \in D
               /\ Has("hugepages_1g", D) <=> "huge_1g" \in D
    BY DEF Has, Evidence
  <1> HIDE DEF S, total, reserved
  <1>5. \A x \in S : x # "" /\ Has(x, ever)
    BY <1>2, <1>3, <1>4
  <1>6. Replaced => ReportedBy.linux_hugepages \cap Expected(there, ever) \subseteq S
    BY <1>2, <1>3, <1>4, OnlyExpected DEF ReportedBy
  <1> QED BY <1>5, <1>6 DEF Faithful, S

\* A generation of SEV: the CPU's flag and, where it can be read, its parameter
\* (sevEnabled).
LEMMA SEVReports ==
    ASSUME NEW o, NEW there, NEW ever, Shows(o, there, ever), NEW flag, NEW on,
           "cpuinfo" \in DOMAIN o, kvmParam[flag] \in DOMAIN o,
           kvmParam[flag] # "nvidia_smi",
           flag \in Displays["cpuinfo"], Displays[kvmParam[flag]] = {on},
           Evidence[flag] = SEV(flag, on)
    PROVE  /\ sevEnabled(o, flag) => Has(flag, ever)
           /\ Replaced /\ Has(flag, there) => sevEnabled(o, flag)
  <1>1. PICK k : k = kvmParam[flag]
    OBVIOUS
  <1>2. /\ flag \in Seen(o, "cpuinfo") => flag \in ever
        /\ Replaced /\ flag \in there => flag \in Seen(o, "cpuinfo")
    BY DEF Shows, Replaced, Unread
  <1>3. /\ o[k] = {} <=> k \in Unread
        /\ Seen(o, k) # {} => on \in ever
        /\ k \notin Unread /\ on \in there => Seen(o, k) # {}
    BY <1>1 DEF Shows
  <1>4. sevEnabled(o, flag) <=> flag \in Seen(o, "cpuinfo") /\ (k \in Unread \/ Seen(o, k) # {})
    BY <1>1, <1>3 DEF sevEnabled
  <1>5. CASE k \in Unread
    <2>1. Evidence[flag] = {{flag}}
      BY <1>1, <1>5 DEF SEV
    <2>2. \A D : Has(flag, D) <=> flag \in D
      BY <2>1 DEF Has
    <2> QED BY <1>2, <1>4, <1>5, <2>2
  <1>6. CASE k \notin Unread
    <2>1. Evidence[flag] = {{flag, on}}
      BY <1>1, <1>6 DEF SEV
    <2>2. \A D : Has(flag, D) <=> flag \in D /\ on \in D
      BY <2>1 DEF Has
    <2> QED BY <1>2, <1>3, <1>4, <1>6, <2>2
  <1> QED BY <1>5, <1>6

\* The CPU's flags, the kvm parameters and the guest's device (TEECollector).
LEMMA TEEReports ==
    ASSUME NEW o, NEW there, NEW ever, Shows(o, there, ever),
           DOMAIN o = ToSet(Reads.linux_tee)
    PROVE  Faithful("linux_tee", TEECollect(o), there, ever)
  <1> DEFINE S == Reported(TEECollect(o))
             on(f) == sevEnabled(o, f)
             sgx == "sgx" \in Seen(o, "cpuinfo")
             tdx == \/ Seen(o, "kvm_tdx") # {} \/ Seen(o, "tee_dev") # {}
                    \/ "tdx_guest" \in Seen(o, "cpuinfo")
  <1>1. DOMAIN o = {"cpuinfo", "kvm_sev", "kvm_sev_es", "kvm_sev_snp", "kvm_tdx", "tee_dev"}
    BY DEF Reads, ToSet
  <1>2. /\ Displays["cpuinfo"] = {"sev", "sev_es", "sev_snp", "tdx_guest", "sgx"}
        /\ Displays["kvm_tdx"] = {"tdx_on"} /\ Displays["tee_dev"] = {"tdx_device"}
    BY DEF Displays
  <1>3. /\ Evidence["sgx"] = {{"sgx"}}
        /\ Evidence["tdx"] = {{"tdx_guest"}, {"tdx_on"}, {"tdx_device"}}
    BY DEF Evidence, TEEs
  <1>4. /\ on("sev") => Has("sev", ever)
        /\ Replaced /\ Has("sev", there) => on("sev")
    <2>1. /\ kvmParam["sev"] = "kvm_sev" /\ Displays["kvm_sev"] = {"sev_on"}
          /\ Evidence["sev"] = SEV("sev", "sev_on")
      BY DEF kvmParam, Displays, Evidence, TEEs
    <2> QED BY <1>1, <1>2, <2>1, SEVReports
  <1>5. /\ on("sev_es") => Has("sev_es", ever)
        /\ Replaced /\ Has("sev_es", there) => on("sev_es")
    <2>1. /\ kvmParam["sev_es"] = "kvm_sev_es" /\ Displays["kvm_sev_es"] = {"sev_es_on"}
          /\ Evidence["sev_es"] = SEV("sev_es", "sev_es_on")
      BY DEF kvmParam, Displays, Evidence, TEEs
    <2> QED BY <1>1, <1>2, <2>1, SEVReports
  <1>6. /\ on("sev_snp") => Has("sev_snp", ever)
        /\ Replaced /\ Has("sev_snp", there) => on("sev_snp")
    <2>1. /\ kvmParam["sev_snp"] = "kvm_sev_snp" /\ Displays["kvm_sev_snp"] = {"sev_snp_on"}
          /\ Evidence["sev_snp"] = SEV("sev_snp", "sev_snp_on")
      BY DEF kvmParam, Displays, Evidence, TEEs
    <2> QED BY <1>1, <1>2, <2>1, SEVReports
  <1>7. /\ sgx => Has("sgx", ever)
        /\ Replaced /\ Has("sgx", there) => sgx
    <2>1. \A D : Has("sgx", D) <=> "sgx" \in D
      BY <1>3 DEF Has
    <2>2. /\ sgx => "sgx" \in ever
          /\ Replaced /\ "sgx" \in there => sgx
      BY <1>1, <1>2 DEF Shows, Replaced, Unread
    <2> QED BY <2>1, <2>2
  <1>8. /\ tdx => Has("tdx", ever)
        /\ Replaced /\ Has("tdx", there) => tdx
    <2>1. \A D : Has("tdx", D) <=> "tdx_guest" \in D \/ "tdx_on" \in D \/ "tdx_device" \in D
      BY <1>3 DEF Has
    <2>2. /\ "tdx_guest" \in Seen(o, "cpuinfo") => "tdx_guest" \in ever
          /\ Seen(o, "kvm_tdx") # {} => "tdx_on" \in ever
          /\ Seen(o, "tee_dev") # {} => "tdx_device" \in ever
      BY <1>1, <1>2 DEF Shows
    <2>3. Replaced => /\ "tdx_guest" \in there => "tdx_guest" \in Seen(o, "cpuinfo")
                      /\ "tdx_on" \in there => Seen(o, "kvm_tdx") # {}
                      /\ "tdx_device" \in there => Seen(o, "tee_dev") # {}
      BY <1>1, <1>2 DEF Shows, Replaced, Unread
    <2> QED BY <2>1, <2>2, <2>3
  <1>9. /\ "sev" \in S <=> on("sev")
        /\ "sev_es" \in S <=> on("sev_es")
        /\ "sev_snp" \in S <=> on("sev_snp")
        /\ "sgx" \in S <=> sgx
        /\ "tdx" \in S <=> tdx
        /\ "tee_capable" \in S <=> on("sev") \/ on("sev_es") \/ on("sev_snp") \/ sgx \/ tdx
        /\ S \subseteq {"sev", "sev_es", "sev_snp", "sgx", "tdx", "tee_capable"}
    <2>1. PICK sevIs, esIs, snpIs :
             /\ sevIs = When("sev", sevEnabled(o, "sev"))
             /\ esIs = When("sev_es", sevEnabled(o, "sev_es"))
             /\ snpIs = When("sev_snp", sevEnabled(o, "sev_snp"))
      OBVIOUS
    <2>2. PICK tdxIs, sgxIs : tdxIs = When("tdx", tdx) /\ sgxIs = When("sgx", sgx)
      OBVIOUS
    <2>3. PICK all : all = sevIs \cup esIs \cup snpIs \cup tdxIs \cup sgxIs
      OBVIOUS
    <2>4. S = all \cup When("tee_capable", all # {})
      BY <2>1, <2>2, <2>3 DEF TEECollect, Result, Reported
    <2> HIDE DEF S, on, sgx, tdx
    <2>5. /\ sevIs = IF on("sev") THEN {"sev"} ELSE {}
          /\ esIs = IF on("sev_es") THEN {"sev_es"} ELSE {}
          /\ snpIs = IF on("sev_snp") THEN {"sev_snp"} ELSE {}
      BY <2>1 DEF When, on
    <2>6. /\ tdxIs = IF tdx THEN {"tdx"} ELSE {}
          /\ sgxIs = IF sgx THEN {"sgx"} ELSE {}
      BY <2>2 DEF When
    <2>7. all # {} <=> on("sev") \/ on("sev_es") \/ on("sev_snp") \/ sgx \/ tdx
      BY <2>3, <2>5, <2>6
    <2> QED BY <2>3, <2>4, <2>5, <2>6, <2>7 DEF When
  <1>10. ASSUME NEW D
         PROVE  Has("tee_capable", D) <=> \/ Has("sev", D) \/ Has("sev_es", D) \/ Has("sev_snp", D)
                                          \/ Has("sgx", D) \/ Has("tdx", D)
    <2>1. DOMAIN TEEs = {"sev", "sev_es", "sev_snp", "sgx", "tdx"}
      BY DEF TEEs
    <2>2. /\ Evidence["sev"] = TEEs.sev /\ Evidence["sev_es"] = TEEs.sev_es
          /\ Evidence["sev_snp"] = TEEs.sev_snp /\ Evidence["sgx"] = TEEs.sgx
          /\ Evidence["tdx"] = TEEs.tdx
          /\ Evidence["tee_capable"] = UNION {TEEs[t] : t \in DOMAIN TEEs}
      BY DEF Evidence
    <2> QED BY <2>1, <2>2 DEF Has
  <1> HIDE DEF S, on, sgx, tdx
  <1>11. \A x \in S : x # "" /\ Has(x, ever)
    BY <1>4, <1>5, <1>6, <1>7, <1>8, <1>9, <1>10
  <1>12. Replaced => ReportedBy.linux_tee \cap Expected(there, ever) \subseteq S
    <2>1. \A x \in Expected(there, ever) : Has(x, there)
      BY OnlyExpected
    <2>2. ReportedBy.linux_tee = {"sev", "sev_es", "sev_snp", "sgx", "tdx", "tee_capable"}
      BY DEF ReportedBy
    <2> QED BY <1>4, <1>5, <1>6, <1>7, <1>8, <1>9, <1>10, <2>1, <2>2
  <1> QED BY <1>11, <1>12 DEF Faithful, S

\* More than one of two things is both.
LEMMA BothOfTwo ==
    ASSUME NEW a, NEW b, a # b, NEW T \in SUBSET {a, b}
    PROVE  Cardinality(T) > 1 <=> a \in T /\ b \in T
  <1>1. Cardinality({}) = 0 /\ Cardinality({a}) = 1 /\ Cardinality({b}) = 1
    BY FS_EmptySet, FS_Singleton
  <1>2. Cardinality({a, b}) = 2
    <2>1. {a, b} = {a} \cup {b} /\ b \notin {a}
      OBVIOUS
    <2>2. IsFiniteSet({a})
      BY FS_Singleton
    <2> QED BY <1>1, <2>1, <2>2, FS_AddElement
  <1>3. T = {} \/ T = {a} \/ T = {b} \/ T = {a, b}
    OBVIOUS
  <1> QED BY <1>1, <1>2, <1>3

\* NUMA nodes, of numactl or of sysfs (NUMACollector).
LEMMA NUMAReports ==
    ASSUME NEW o, NEW there, NEW ever, Shows(o, there, ever),
           DOMAIN o = ToSet(Reads.linux_numa)
    PROVE  Faithful("linux_numa", NUMACollect(o), there, ever)
  <1> DEFINE S == Reported(NUMACollect(o))
             nodes == IF Seen(o, "numactl") = {} THEN Seen(o, "node_sysfs") ELSE Seen(o, "numactl")
  <1>1. DOMAIN o = {"numactl", "node_sysfs"}
    BY DEF Reads, ToSet
  <1>2. /\ nodes \in SUBSET {"node0", "node1"} /\ nodes \subseteq ever
        /\ Replaced /\ {"node0", "node1"} \subseteq there
              => {"node0", "node1"} \subseteq nodes
    <2>1. \A s \in {"numactl", "node_sysfs"} :
             Seen(o, s) \in SUBSET {"node0", "node1"} /\ Seen(o, s) \subseteq ever
      BY <1>1 DEF Shows, Displays
    <2>2. Replaced /\ {"node0", "node1"} \subseteq there
             => {"node0", "node1"} \subseteq Seen(o, "node_sysfs")
      BY <1>1 DEF Shows, Displays, Replaced, Unread
    <2>3. /\ "numactl" \in Unread => Seen(o, "numactl") = {}
          /\ Replaced /\ {"node0", "node1"} \subseteq there
                => Seen(o, "numactl") = {} \/ {"node0", "node1"} \subseteq Seen(o, "numactl")
      BY <1>1 DEF Shows, Displays, Replaced, Unread
    <2> QED BY <2>1, <2>2, <2>3
  <1>3. /\ "multi_numa" \in S <=> Cardinality(nodes) > 1
        /\ S \subseteq {"multi_numa"}
    BY DEF NUMACollect, Result, When, Reported
  <1>4. \A D : Has("multi_numa", D) <=> "node0" \in D /\ "node1" \in D
    BY DEF Has, Evidence
  <1> HIDE DEF S, nodes
  <1>5. Cardinality(nodes) > 1 <=> "node0" \in nodes /\ "node1" \in nodes
    <2>1. \A a, b : a # b => \A T \in SUBSET {a, b} : Cardinality(T) > 1 <=> a \in T /\ b \in T
      BY BothOfTwo
    <2>2. "node0" # "node1" /\ nodes \in SUBSET {"node0", "node1"}
      BY <1>2
    <2> QED BY <2>1, <2>2, Zenon
  <1>6. \A x \in S : x # "" /\ Has(x, ever)
    BY <1>2, <1>3, <1>4, <1>5
  <1>7. Replaced => ReportedBy.linux_numa \cap Expected(there, ever) \subseteq S
    BY <1>2, <1>3, <1>4, <1>5, OnlyExpected DEF ReportedBy
  <1> QED BY <1>6, <1>7 DEF Faithful, S

\* RDMA devices, of the rdma tool or, where it is not installed, of ibv_devinfo
\* (RDMACollector).
LEMMA RDMAReports ==
    ASSUME NEW o, NEW there, NEW ever, Shows(o, there, ever),
           DOMAIN o = ToSet(Reads.linux_rdma)
    PROVE  Faithful("linux_rdma", RDMACollect(o, missing), there, ever)
  <1> DEFINE S == Reported(RDMACollect(o, missing))
             listed(f) == f \in gather(o, missing)
             layer(f) == "rdma" \in missing \/ f \in Seen(o, "infiniband")
  <1>1. DOMAIN o = {"rdma", "ibv_devinfo", "infiniband"}
    BY DEF Reads, ToSet
  <1>2. \A f \in {"ib_hca", "roce_hca", "roce_up"} :
           /\ listed(f) => f \in ever
           /\ Replaced => (f \in there => listed(f))
    BY <1>1 DEF Shows, Displays, Replaced, Unread, gather, HCAs
  <1>3. \A f \in {"ib_hca", "roce_hca"} : Replaced => (f \in there => layer(f))
    BY <1>1 DEF Shows, Displays, Replaced, Unread, HCAs
  <1>4. /\ "rdma" \in S <=> listed("ib_hca") \/ listed("roce_hca")
        /\ "infiniband" \in S <=> listed("ib_hca") /\ layer("ib_hca")
        /\ "roce" \in S <=> listed("roce_hca") /\ layer("roce_hca")
        /\ "rdma_active" \in S <=> listed("roce_hca") /\ listed("roce_up")
        /\ S \subseteq {"rdma", "infiniband", "roce", "rdma_active"}
    BY DEF RDMACollect, Result, When, Reported, HCAs
  <1>5. \A D : /\ Has("rdma", D) <=> "ib_hca" \in D \/ "roce_hca" \in D
               /\ Has("infiniband", D) <=> "ib_hca" \in D
               /\ Has("roce", D) <=> "roce_hca" \in D
               /\ Has("rdma_active", D) <=> "roce_hca" \in D /\ "roce_up" \in D
    BY DEF Has, Evidence
  <1> HIDE DEF S, listed, layer
  <1>6. \A x \in S : x # "" /\ Has(x, ever)
    BY <1>2, <1>4, <1>5
  <1>7. Replaced => ReportedBy.linux_rdma \cap Expected(there, ever) \subseteq S
    BY <1>2, <1>3, <1>4, <1>5, OnlyExpected DEF ReportedBy
  <1> QED BY <1>6, <1>7 DEF Faithful, S

\* Which of the two generations the greatest link speed makes.
LEMMA Fastest ==
    ASSUME NEW T \in SUBSET {0, 16, 32}, 0 \in T
    PROVE  /\ Max(T) >= 32 <=> 32 \in T
           /\ Max(T) \in 16 .. 31 <=> 16 \in T /\ 32 \notin T
  <1>1. \E x \in T : \A y \in T : x >= y
    <2>1. CASE 32 \in T
      BY <2>1
    <2>2. CASE 32 \notin T /\ 16 \in T
      BY <2>2
    <2>3. CASE 32 \notin T /\ 16 \notin T
      BY <2>3
    <2> QED BY <2>1, <2>2, <2>3
  <1> DEFINE m == Max(T)
  <1>2. m \in T /\ \A y \in T : m >= y
    BY <1>1 DEF Max
  <1> HIDE DEF m
  <1>3. /\ m >= 32 <=> 32 \in T
        /\ m \in 16 .. 31 <=> 16 \in T /\ 32 \notin T
    BY <1>2
  <1> QED BY <1>3 DEF m

\* PCI functions and their links (PCICollector).
LEMMA PCIReports ==
    ASSUME NEW o, NEW there, NEW ever, Shows(o, there, ever),
           DOMAIN o = ToSet(Reads.linux_pci)
    PROVE  Faithful("linux_pci", PCICollect(o), there, ever)
  <1> DEFINE S == Reported(PCICollect(o))
             listed(f) == f \in Seen(o, "lspci")
             attrs(f) == f \in Seen(o, "pci_attrs")
             kept == {f \in Seen(o, "lspci") : PCIFunctions[f].class \in interestingPCIClasses}
             speeds == {0} \cup {enrichFromSysfs(o, f).gts : f \in kept}
  <1>1. DOMAIN o = {"lspci", "pci_attrs"}
    BY DEF Reads, ToSet
  <1>2. /\ Seen(o, "lspci") \subseteq {"gpu", "dpu", "root_port"}
        /\ \A f \in {"gpu", "dpu", "root_port"} :
              /\ listed(f) => f \in ever
              /\ Replaced => (f \in there => listed(f) /\ attrs(f))
    BY <1>1 DEF Shows, Displays, Replaced, Unread, PCIFunctions
  <1>3. \A f : f \in kept <=> listed(f) /\ f \in {"gpu", "dpu"}
    BY <1>2 DEF PCIFunctions, interestingPCIClasses
  <1>4. \A f \in kept : /\ enrichFromSysfs(o, f).gts = IF ~attrs(f) THEN 0 ELSE IF f = "gpu" THEN 32 ELSE 16
                        /\ enrichFromSysfs(o, f).vfs > 0 <=> attrs(f) /\ f = "dpu"
    BY <1>3 DEF enrichFromSysfs, PCIFunctions
  <1>5. /\ speeds \in SUBSET {0, 16, 32} /\ 0 \in speeds
        /\ 32 \in speeds <=> listed("gpu") /\ attrs("gpu")
        /\ 16 \in speeds <=> listed("dpu") /\ attrs("dpu")
    BY <1>3, <1>4
  <1>6. /\ Max(speeds) >= 32 <=> listed("gpu") /\ attrs("gpu")
        /\ Max(speeds) \in 16 .. 31 <=> /\ listed("dpu") /\ attrs("dpu")
                                        /\ ~(listed("gpu") /\ attrs("gpu"))
    BY <1>5, Fastest
  <1>7. /\ (\E f \in kept : PCIFunctions[f].class \in {"0302", "1200", "0b40"}) <=> listed("gpu")
        /\ (\E f \in kept : enrichFromSysfs(o, f).vfs > 0) <=> listed("dpu") /\ attrs("dpu")
    BY <1>3, <1>4 DEF PCIFunctions
  <1>8. /\ "pcie_gen5" \in S <=> listed("gpu") /\ attrs("gpu")
        /\ "pcie_gen4" \in S <=> listed("dpu") /\ attrs("dpu") /\ ~(listed("gpu") /\ attrs("gpu"))
        /\ "gpu_accelerator" \in S <=> listed("gpu")
        /\ "sriov" \in S <=> listed("dpu") /\ attrs("dpu")
        /\ S \subseteq {"pcie_gen5", "pcie_gen4", "gpu_accelerator", "sriov"}
    <2>1. PCICollect(o) = Result(When("pcie_gen5", Max(speeds) >= 32)
              \cup When("pcie_gen4", Max(speeds) \in 16 .. 31)
              \cup When("gpu_accelerator", \E f \in kept : PCIFunctions[f].class \in {"0302", "1200", "0b40"})
              \cup When("sriov", \E f \in kept : enrichFromSysfs(o, f).vfs > 0), {})
      BY Zenon DEF PCICollect
    <2> HIDE DEF speeds, kept
    <2> QED BY <1>6, <1>7, <2>1 DEF Result, When, Reported
  <1>9. \A D : /\ Has("pcie_gen5", D) <=> "gpu" \in D
               /\ Has("pcie_gen4", D) <=> "dpu" \in D
               /\ Has("gpu_accelerator", D) <=> "gpu" \in D
               /\ Has("sriov", D) <=> "dpu" \in D
    BY DEF Has, Evidence
  <1> HIDE DEF S, listed, attrs, kept, speeds
  <1>10. \A x \in S : x # "" /\ Has(x, ever)
    BY <1>2, <1>8, <1>9
  <1>11. Replaced => ReportedBy.linux_pci \cap Expected(there, ever) \subseteq S
    BY <1>2, <1>8, <1>9, OnlyExpected DEF ReportedBy
  <1> QED BY <1>10, <1>11 DEF Faithful, S

\* Accelerators, their drivers and tools (GPUCollector).
LEMMA GPUReports ==
    ASSUME NEW o, NEW there, NEW ever, Shows(o, there, ever),
           DOMAIN o = ToSet(Reads.linux_gpu)
    PROVE  Faithful("linux_gpu", GPUCollect(o), there, ever)
  <1> DEFINE S == Reported(GPUCollect(o))
             device(f) == f \in Seen(o, "pci_sysfs")
             smi == Seen(o, "nvidia_smi") # {}
             node(f) == f \in Seen(o, "dev")
             tool == "doca_tool" \in Seen(o, "path")
             peermem == "peermem" \in Seen(o, "modules")
             hca(f) == f \in Seen(o, "infiniband")
             saw == sawAnySource(o)
  <1>1. DOMAIN o = {"pci_sysfs", "nvidia_smi", "modules", "infiniband", "dev", "path"}
    BY DEF Reads, ToSet
  <1>2. /\ Seen(o, "pci_sysfs") \subseteq {"gpu", "dpu", "root_port"}
        /\ Seen(o, "infiniband") \subseteq {"ib_hca", "roce_hca"}
        /\ smi => "gpu" \in ever /\ "nvidia_driver" \in ever
    <2>1. Seen(o, "nvidia_smi") \subseteq ever \cap {"gpu"} /\ (smi => "nvidia_driver" \in ever)
      BY <1>1 DEF Shows, Displays
    <2>2. /\ Seen(o, "pci_sysfs") \subseteq {"gpu", "dpu", "root_port"}
          /\ Seen(o, "infiniband") \subseteq {"ib_hca", "roce_hca"}
      BY <1>1 DEF Shows, Displays, PCIFunctions, HCAs
    <2> QED BY <2>1, <2>2
  <1>3. /\ \A f \in {"gpu", "dpu"} : /\ device(f) => f \in ever
                                     /\ Replaced => (f \in there => device(f))
        /\ \A f \in {"ib_hca", "roce_hca"} :
              /\ hca(f) => f \in ever
              /\ Replaced => (f \in there => hca(f))
    BY <1>1 DEF Shows, Displays, Replaced, Unread, PCIFunctions, HCAs
  <1>4. /\ \A f \in {"nvidia_driver", "mst"} :
              /\ node(f) => f \in ever
              /\ Replaced => (f \in there => node(f))
        /\ tool => "doca_tool" \in ever
        /\ peermem => "peermem" \in ever
        /\ Replaced => /\ "doca_tool" \in there => tool
                       /\ "peermem" \in there => peermem
    BY <1>1 DEF Shows, Displays, Replaced, Unread
  <1>5. /\ scanPCI(o).nvidia_gpu <=> device("gpu")
        /\ scanPCI(o).bluefield_dpu <=> device("dpu")
    <2>1. /\ PCIFunctions["gpu"].vendor = "nvidia" /\ PCIFunctions["gpu"].class = "0302"
          /\ PCIFunctions["dpu"].vendor = "bluefield" /\ PCIFunctions["root_port"].vendor = "nvidia"
          /\ PCIFunctions["root_port"].class = "0604"
      BY DEF PCIFunctions
    <2> QED BY <1>2, <2>1 DEF scanPCI
  <1>6. gpudirect(o) <=> peermem /\ (hca("ib_hca") \/ hca("roce_hca"))
    BY <1>2 DEF gpudirect
  <1>7. device("gpu") \/ device("dpu") \/ smi \/ node("nvidia_driver") \/ node("mst") \/ peermem => saw
    BY DEF sawAnySource, Seen
  <1>8. Replaced => saw
    BY <1>1 DEF Shows, Replaced, Unread, sawAnySource
  <1>9. /\ "gpu" \in S <=> device("gpu") \/ smi
        /\ "nvidia_gpu" \in S <=> device("gpu") \/ smi
        /\ "gpu_cuda" \in S <=> smi \/ node("nvidia_driver")
        /\ "bluefield_dpu" \in S <=> device("dpu")
        /\ "doca" \in S <=> saw /\ (node("mst") \/ tool)
        /\ "gpudirect_rdma" \in S <=> peermem /\ (hca("ib_hca") \/ hca("roce_hca"))
        /\ S \subseteq {"gpu", "nvidia_gpu", "gpu_cuda", "bluefield_dpu", "doca", "gpudirect_rdma"}
    <2>1. CASE saw
      BY <1>5, <1>6, <2>1 DEF GPUCollect, Result, When, Reported
    <2>2. CASE ~saw
      <3>1. S = {}
        BY <2>2 DEF GPUCollect, Result, Reported
      <3> QED BY <1>7, <2>2, <3>1
    <2> QED BY <2>1, <2>2
  <1>10. \A D : /\ Has("gpu", D) <=> "gpu" \in D
                /\ Has("nvidia_gpu", D) <=> "gpu" \in D
                /\ Has("gpu_cuda", D) <=> "nvidia_driver" \in D
                /\ Has("bluefield_dpu", D) <=> "dpu" \in D
                /\ Has("doca", D) <=> "mst" \in D \/ "doca_tool" \in D
                /\ Has("gpudirect_rdma", D)
                     <=> "peermem" \in D /\ ("ib_hca" \in D \/ "roce_hca" \in D)
    <2> TAKE D
    <2>1. Has("gpu", D) <=> "gpu" \in D
      BY DEF Has, Evidence
    <2>2. Has("nvidia_gpu", D) <=> "gpu" \in D
      BY DEF Has, Evidence
    <2>3. Has("gpu_cuda", D) <=> "nvidia_driver" \in D
      BY DEF Has, Evidence
    <2>4. Has("bluefield_dpu", D) <=> "dpu" \in D
      BY DEF Has, Evidence
    <2>5. Has("doca", D) <=> "mst" \in D \/ "doca_tool" \in D
      BY DEF Has, Evidence
    <2>6. Has("gpudirect_rdma", D) <=> "peermem" \in D /\ ("ib_hca" \in D \/ "roce_hca" \in D)
      BY DEF Has, Evidence
    <2> QED BY <2>1, <2>2, <2>3, <2>4, <2>5, <2>6
  <1> HIDE DEF S, device, smi, node, tool, peermem, hca, saw
  <1>11. \A x \in S : x # "" /\ Has(x, ever)
    <2>1. /\ "gpu" \in S => Has("gpu", ever)
          /\ "nvidia_gpu" \in S => Has("nvidia_gpu", ever)
      BY <1>2, <1>3, <1>9, <1>10
    <2>2. "gpu_cuda" \in S => Has("gpu_cuda", ever)
      BY <1>2, <1>4, <1>9, <1>10
    <2>3. "bluefield_dpu" \in S => Has("bluefield_dpu", ever)
      BY <1>3, <1>9, <1>10
    <2>4. "doca" \in S => Has("doca", ever)
      BY <1>4, <1>9, <1>10
    <2>5. "gpudirect_rdma" \in S => Has("gpudirect_rdma", ever)
      BY <1>3, <1>4, <1>9, <1>10
    <2>6. S \subseteq {"gpu", "nvidia_gpu", "gpu_cuda", "bluefield_dpu", "doca", "gpudirect_rdma"}
      BY <1>9
    <2>7. ASSUME NEW x \in S PROVE Has(x, ever)
      <3>1. x \in {"gpu", "nvidia_gpu", "gpu_cuda", "bluefield_dpu", "doca", "gpudirect_rdma"}
        BY <2>6
      <3> QED BY <2>1, <2>2, <2>3, <2>4, <2>5, <3>1
    <2> QED BY <2>6, <2>7
  <1>12. Replaced => ReportedBy.linux_gpu \cap Expected(there, ever) \subseteq S
    BY <1>3, <1>4, <1>8, <1>9, <1>10, OnlyExpected DEF ReportedBy
  <1> QED BY <1>11, <1>12 DEF Faithful, S

\* Every collector is faithful.
LEMMA CollectorsReport ==
    ASSUME NEW c \in ToSet(Wave2Collectors), NEW o, NEW there, NEW ever, Shows(o, there, ever),
           DOMAIN o = ToSet(Reads[c])
    PROVE  Faithful(c, Wave2Collect(c, o, missing), there, ever)
  <1>1. c \in {"linux_pci", "linux_rdma", "linux_numa", "linux_hugepages", "linux_iommu",
               "linux_tee", "linux_nic_offload", "linux_net_topology", "linux_kernel",
               "linux_gpu"}
    BY DEF Wave2Collectors, ToSet
  <1>2. CASE c = "linux_pci"
    BY <1>2, PCIReports DEF Wave2Collect
  <1>3. CASE c = "linux_rdma"
    BY <1>3, RDMAReports DEF Wave2Collect
  <1>4. CASE c = "linux_numa"
    BY <1>4, NUMAReports DEF Wave2Collect
  <1>5. CASE c = "linux_hugepages"
    BY <1>5, HugepagesReports DEF Wave2Collect
  <1>6. CASE c = "linux_iommu"
    BY <1>6, IOMMUReports DEF Wave2Collect
  <1>7. CASE c = "linux_tee"
    BY <1>7, TEEReports DEF Wave2Collect
  <1>8. CASE c = "linux_nic_offload"
    BY <1>8, NICOffloadReports DEF Wave2Collect
  <1>9. CASE c = "linux_net_topology"
    BY <1>9, NetTopologyReports DEF Wave2Collect
  <1>10. CASE c = "linux_kernel"
    BY <1>10, KernelReports DEF Wave2Collect
  <1>11. CASE c = "linux_gpu"
    BY <1>11, GPUReports DEF Wave2Collect
  <1> QED BY <1>1, <1>2, <1>3, <1>4, <1>5, <1>6, <1>7, <1>8, <1>9, <1>10, <1>11

-----------------------------------------------------------------------------
(* Builds *)

\* Reading one more source of a host that has what was there all the while, and
\* nothing that was never there.
LEMMA ReadShows ==
    ASSUME NEW o, NEW there, NEW ever, NEW present, NEW s, Shows(o, there, ever),
           there \subseteq present, present \subseteq ever
    PROVE  Shows([t \in DOMAIN o \cup {s} |-> IF t = s THEN ReadOf(t, present, Unread) ELSE o[t]],
                 there, ever)
  <1> DEFINE r == ReadOf(s, present, Unread)
             longer == [t \in DOMAIN o \cup {s} |-> IF t = s THEN r ELSE o[t]]
  <1>1. \/ r = {} /\ (s \in Unread \/ (s = "nvidia_smi" /\ "nvidia_driver" \notin present))
        \/ /\ r = {present \cap Displays[s]} /\ s \notin Unread
           /\ s = "nvidia_smi" => "nvidia_driver" \in present
    BY DEF ReadOf
  <1>2. UNION r = {} \/ UNION r = present \cap Displays[s]
    BY <1>1
  <1> HIDE DEF r
  <1>3. /\ DOMAIN longer = DOMAIN o \cup {s}
        /\ Seen(longer, s) = UNION r /\ longer[s] = r
        /\ \A t \in DOMAIN o : t # s => longer[t] = o[t] /\ Seen(longer, t) = Seen(o, t)
    BY DEF Seen
  <1> HIDE DEF longer
  <1>4. ASSUME NEW t \in DOMAIN o, t # s
        PROVE  /\ Seen(longer, t) \subseteq ever \cap Displays[t]
               /\ longer[t] = {} => t \in Unread \/ t = "nvidia_smi"
               /\ t \in Unread => longer[t] = {} /\ Seen(longer, t) = {}
               /\ \/ there \cap Displays[t] \subseteq Seen(longer, t)
                  \/ t \in Unread
                  \/ t = "nvidia_smi" /\ "nvidia_driver" \notin there
               /\ t = "nvidia_smi" /\ Seen(longer, t) # {} => "nvidia_driver" \in ever
    BY <1>3, <1>4 DEF Shows
  <1>5. /\ Seen(longer, s) \subseteq ever \cap Displays[s]
        /\ longer[s] = {} => s \in Unread \/ s = "nvidia_smi"
    BY <1>1, <1>2, <1>3
  <1>6. /\ s \in Unread => longer[s] = {} /\ Seen(longer, s) = {}
        /\ s = "nvidia_smi" /\ Seen(longer, s) # {} => "nvidia_driver" \in ever
    BY <1>1, <1>3
  <1>7. \/ there \cap Displays[s] \subseteq Seen(longer, s)
        \/ s \in Unread
        \/ s = "nvidia_smi" /\ "nvidia_driver" \notin there
    BY <1>1, <1>3
  <1>8. Shows(longer, there, ever)
    BY <1>3, <1>4, <1>5, <1>6, <1>7 DEF Shows
  <1> QED BY <1>8 DEF longer, r

\* What was read stays true of a build in which more has come or gone.
LEMMA ShowsStill ==
    ASSUME NEW o, NEW there, NEW ever, NEW less, NEW more, Shows(o, there, ever),
           less \subseteq there, ever \subseteq more
    PROVE  Shows(o, less, more)
  BY DEF Shows

\* As more comes and goes there is more evidence of what was there at some time,
\* and less is expected.
LEMMA EvidenceStill ==
    ASSUME NEW there, NEW ever, NEW less \in SUBSET there, NEW more, ever \subseteq more
    PROVE  /\ \A x : Has(x, ever) => Has(x, more)
           /\ Expected(less, more) \subseteq Expected(there, ever)
  BY DEF Has, Expected

\* Every capability and mode is some collector's.
LEMMA EveryOneReported ==
    ASSUME NEW x \in DOMAIN Evidence
    PROVE  \E c \in ToSet(Wave2Collectors) : x \in ReportedBy[c]
  <1>1. DOMAIN Evidence = UNION {ReportedBy[c] : c \in DOMAIN ReportedBy}
    BY DEF Evidence, ReportedBy
  <1>2. DOMAIN ReportedBy = ToSet(Wave2Collectors)
    BY DEF ReportedBy, Wave2Collectors, ToSet
  <1> QED BY <1>1, <1>2

\* All the host may ever have.
Possible == Relevant[pipeline] \cup {"node0"}

\* What cannot be read was chosen.
OutageChosen == \E m \in Outages : missing = m.missing /\ failing = m.failing

\* What is expected of a build is left to a collector that was chosen.
LEMMA ExpectedOfChosen ==
    ASSUME pipeline \in Pipelines, OutageChosen, Replaced,
           NEW there \in SUBSET Possible, NEW ever, NEW x \in Expected(there, ever)
    PROVE  \E j \in DOMAIN pipeline : x \in ReportedBy[pipeline[j]]
  <1>1. PICK c \in ToSet(Wave2Collectors) : x \in ReportedBy[c]
    BY EveryOneReported DEF Expected
  <1>2. CASE c \in ToSet(pipeline)
    BY <1>1, <1>2 DEF ToSet
  <1>3. CASE c \notin ToSet(pipeline)
    <2> DEFINE o == [s \in ToSet(Reads[c]) |-> ReadOf(s, Possible, Unread)]
    <2>1. Wave2Collect(c, o, missing) = Result({}, {})
      <3>1. PICK m \in Outages : missing = m.missing /\ failing = m.failing
        BY DEF OutageChosen
      <3>2. m.missing \cup m.failing = Unread
        BY <3>1 DEF Unread
      <3>3. Wave2Collect(c, [s \in ToSet(Reads[c]) |-> ReadOf(s, Possible, m.missing \cup m.failing)],
                         m.missing)
              = Result({}, {})
        BY <1>3, RelevantAssumption DEF Possible
      <3> QED BY <3>1, <3>2, <3>3
    <2>2. Shows(o, Possible, Possible)
      BY DEF Shows, ReadOf, Seen
    <2>3. DOMAIN o = ToSet(Reads[c])
      OBVIOUS
    <2> HIDE DEF o
    <2>4. Faithful(c, Result({}, {}), Possible, Possible)
      BY <2>1, <2>2, <2>3, CollectorsReport
    <2>5. ReportedBy[c] \cap Expected(Possible, Possible) = {}
      BY <2>4 DEF Faithful, Reported, Result
    <2>6. \A y \in DOMAIN Evidence : Has(y, there) => Has(y, Possible)
      BY DEF Has
    <2>7. x \in DOMAIN Evidence /\ Has(x, there)
      BY DEF Expected, Has
    <2>8. CASE x # "pcie_gen4"
      BY <1>1, <2>5, <2>6, <2>7, <2>8 DEF Expected, Has
    <2>9. CASE x = "pcie_gen4"
      <3>1. c = "linux_pci"
        BY <1>1, <2>9 DEF ReportedBy, Wave2Collectors, ToSet
      <3>2. "sriov" \in DOMAIN Evidence /\ Evidence["sriov"] = Evidence["pcie_gen4"]
        BY DEF Evidence
      <3>3. "sriov" \in Expected(Possible, Possible)
        BY <2>6, <2>7, <2>9, <3>2 DEF Expected, Has
      <3>4. "sriov" \in ReportedBy["linux_pci"]
        BY DEF ReportedBy
      <3> QED BY <2>5, <3>1, <3>3, <3>4
    <2> QED BY <2>8, <2>9
  <1> QED BY <1>2, <1>3

\* What a build knows of the host.
BuildHost ==
    /\ pipeline \in Pipelines /\ OutageChosen /\ pos \in Nat
    /\ always \subseteq host /\ host \subseteq during
    /\ host \subseteq Possible /\ always \subseteq Possible

\* The collector at work has read what was there.
BuildReads ==
    /\ Shows(obs, always, during)
    /\ pos \notin DOMAIN pipeline => DOMAIN obs = {}

\* What is merged is from evidence, and is all there is of the collectors done.
BuildMerged ==
    /\ \A x \in Reported(merged) : Has(x, during)
    /\ Replaced =>
          \A j \in DOMAIN pipeline : j < pos =>
              ReportedBy[pipeline[j]] \cap Expected(always, during) \subseteq Reported(merged)

\* The same of the record, when its build was done.
RowTrue ==
    /\ \A x \in OnRecord : Has(x, row.during)
    /\ Replaced => Expected(row.always, row.during) \subseteq OnRecord

ScanInv == BuildHost /\ BuildReads /\ BuildMerged /\ RowTrue

\* Nothing is expected of a host that never had anything.
LEMMA NothingExpected == ASSUME NEW ever PROVE Expected({}, ever) = {}
  <1>1. /\ {} \notin Evidence["pcie_gen5"] /\ {} \notin Evidence["pcie_gen4"]
        /\ {} \notin Evidence["gpu_accelerator"] /\ {} \notin Evidence["sriov"]
        /\ {} \notin Evidence["rdma"] /\ {} \notin Evidence["infiniband"]
        /\ {} \notin Evidence["roce"] /\ {} \notin Evidence["rdma_active"]
        /\ {} \notin Evidence["multi_numa"] /\ {} \notin Evidence["hugepages"]
        /\ {} \notin Evidence["hugepages_1g"] /\ {} \notin Evidence["iommu"]
    BY DEF Evidence
  <1>2. /\ {} \notin Evidence["iommu_passthrough"] /\ {} \notin Evidence["ptp_hardware_clock"]
        /\ {} \notin Evidence["bonded"] /\ {} \notin Evidence["lacp"]
        /\ {} \notin Evidence["vlan_tagged"] /\ {} \notin Evidence["bridged"]
        /\ {} \notin Evidence["vfio"] /\ {} \notin Evidence["gpu"]
        /\ {} \notin Evidence["nvidia_gpu"] /\ {} \notin Evidence["gpu_cuda"]
        /\ {} \notin Evidence["bluefield_dpu"] /\ {} \notin Evidence["doca"]
        /\ {} \notin Evidence["gpudirect_rdma"]
    BY DEF Evidence
  <1>3. \A x \in ReportedBy.linux_tee : {} \notin Evidence[x]
    <2>1. \A flag, on : {} \notin SEV(flag, on)
      BY DEF SEV
    <2>2. \A t \in DOMAIN TEEs : {} \notin TEEs[t]
      BY <2>1 DEF TEEs
    <2>3. /\ Evidence["sev"] = TEEs.sev /\ Evidence["sev_es"] = TEEs.sev_es
          /\ Evidence["sev_snp"] = TEEs.sev_snp /\ Evidence["sgx"] = TEEs.sgx
          /\ Evidence["tdx"] = TEEs.tdx
          /\ Evidence["tee_capable"] = UNION {TEEs[t] : t \in DOMAIN TEEs}
      BY DEF Evidence
    <2>4. DOMAIN TEEs = {"sev", "sev_es", "sev_snp", "sgx", "tdx"}
      BY DEF TEEs
    <2> QED BY <2>2, <2>3, <2>4 DEF ReportedBy
  <1>4. \A x \in DOMAIN Evidence : \E c \in ToSet(Wave2Collectors) : x \in ReportedBy[c]
    BY EveryOneReported
  <1>5. \A c \in ToSet(Wave2Collectors) : \A x \in ReportedBy[c] : {} \notin Evidence[x]
    BY <1>1, <1>2, <1>3 DEF ReportedBy, Wave2Collectors, ToSet
  <1> QED BY <1>4, <1>5 DEF Expected

LEMMA ScanInit == Init => ScanInv
  <1> SUFFICES ASSUME Init
               PROVE  ScanInv
    OBVIOUS
  <1>1. BuildHost
    BY DEF Init, BuildHost, Possible, OutageChosen
  <1>2. BuildReads
    BY DEF Init, BuildReads, Shows
  <1>3. BuildMerged
    <2>1. pipeline \in Seq(ToSet(Wave2Collectors)) /\ pos = 0
      BY HostScanAssumption DEF Init
    <2> QED BY <2>1 DEF Init, BuildMerged, Reported, Result
  <1>4. RowTrue
    BY NothingExpected DEF Init, RowTrue, OnRecord, NoRow
  <1> QED BY <1>1, <1>2, <1>3, <1>4 DEF ScanInv

\* The evidence for a thing is the same in every state: what is missing was
\* chosen once.
LEMMA EvidenceFixed ==
    ASSUME UNCHANGED <<missing, failing>>
    PROVE  Evidence' = Evidence /\ Unread' = Unread /\ (Replaced' <=> Replaced)
  BY DEF Evidence, TEEs, SEV, Unread, Replaced

LEMMA ScanBegin == ScanInv /\ BeginBuild => ScanInv'
  <1> SUFFICES ASSUME ScanInv, BeginBuild
               PROVE  ScanInv'
    OBVIOUS
  <1>1. Evidence' = Evidence /\ Unread' = Unread /\ (Replaced' <=> Replaced)
    BY EvidenceFixed DEF BeginBuild
  <1>2. pipeline \in Seq(ToSet(Wave2Collectors))
    BY HostScanAssumption DEF ScanInv, BuildHost
  <1>3. BuildHost'
    BY DEF ScanInv, BuildHost, Possible, OutageChosen, BeginBuild
  <1>4. BuildReads'
    <2>1. DOMAIN obs = {}
      BY <1>2 DEF ScanInv, BuildReads, BeginBuild
    <2> QED BY <2>1 DEF BuildReads, Shows, BeginBuild
  <1>5. BuildMerged'
    BY <1>2 DEF BuildMerged, Reported, Result, BeginBuild
  <1>6. RowTrue'
    BY <1>1 DEF ScanInv, RowTrue, OnRecord, Has, Expected, BeginBuild
  <1> QED BY <1>3, <1>4, <1>5, <1>6 DEF ScanInv

LEMMA ScanRead == ScanInv /\ ReadSource => ScanInv'
  <1> SUFFICES ASSUME ScanInv, ReadSource
               PROVE  ScanInv'
    OBVIOUS
  <1> DEFINE c == pipeline[pos]
             next == Reads[c][Cardinality(DOMAIN obs) + 1]
             o == [s \in DOMAIN obs \cup {next} |-> IF s = next THEN Read(s) ELSE obs[s]]
  <1>1. /\ pos \in DOMAIN pipeline
        /\ UNCHANGED <<pipeline, missing, failing, host, changes, during, always, row>>
        /\ IF DOMAIN o # ToSet(Reads[c])
           THEN obs' = o /\ UNCHANGED <<pos, merged>>
           ELSE Merge(Wave2Collect(c, o, missing))
    BY DEF ReadSource
  <1>2. Shows(o, always, during)
    <2>1. Shows(obs, always, during) /\ always \subseteq host /\ host \subseteq during
      BY DEF ScanInv, BuildReads, BuildHost
    <2> HIDE DEF next
    <2>2. Shows([t \in DOMAIN obs \cup {next} |-> IF t = next THEN ReadOf(t, host, Unread) ELSE obs[t]],
                always, during)
      BY <2>1, ReadShows
    <2> QED BY <2>2 DEF Read
  <1>3. pipeline \in Seq(ToSet(Wave2Collectors)) /\ pos \in Nat
    BY HostScanAssumption DEF ScanInv, BuildHost
  <1>4. c \in ToSet(Wave2Collectors)
    BY <1>1, <1>3
  <1> HIDE DEF next, o
  <1>5. Evidence' = Evidence /\ Unread' = Unread /\ (Replaced' <=> Replaced)
    BY <1>1, EvidenceFixed
  <1>6. RowTrue'
    BY <1>1, <1>5 DEF ScanInv, RowTrue, OnRecord, Has, Expected
  <1>7. CASE DOMAIN o # ToSet(Reads[c])
    <2>1. obs' = o /\ UNCHANGED <<pos, merged>>
      BY <1>1, <1>7
    <2>2. BuildHost'
      BY <1>1, <2>1 DEF ScanInv, BuildHost, Possible, OutageChosen
    <2>3. BuildReads'
      BY <1>1, <1>2, <1>5, <2>1 DEF BuildReads, Shows
    <2>4. BuildMerged'
      BY <1>1, <1>5, <2>1 DEF ScanInv, BuildMerged, Has, Expected
    <2> QED BY <1>6, <2>2, <2>3, <2>4 DEF ScanInv
  <1>8. CASE DOMAIN o = ToSet(Reads[c])
    <2> DEFINE result == Wave2Collect(c, o, missing)
    <2>1. Merge(result)
      BY <1>1, <1>8
    <2>2. Faithful(c, result, always, during)
      BY <1>2, <1>4, <1>8, CollectorsReport
    <2> HIDE DEF result
    <2>3. pos' = pos + 1 /\ DOMAIN obs' = {}
      BY <2>1 DEF Merge
    <2>4. Reported(merged') = Reported(merged) \cup Reported(result)
      <3>1. "" \notin Reported(result)
        BY <2>2 DEF Faithful
      <3>2. /\ merged'.caps = merged.caps \cup (result.caps \ {""})
            /\ merged'.modes = merged.modes \cup (result.modes \ {""})
        BY <2>1 DEF Merge, Result, unionStrings
      <3> QED BY <3>1, <3>2 DEF Reported
    <2>5. BuildHost'
      BY <1>1, <1>3, <2>3 DEF ScanInv, BuildHost, Possible, OutageChosen
    <2>6. BuildReads'
      BY <1>1, <1>5, <2>3 DEF BuildReads, Shows
    <2>7. BuildMerged'
      <3>1. \A x \in Reported(merged)' : Has(x, during)'
        BY <1>1, <1>5, <2>2, <2>4 DEF ScanInv, BuildMerged, Faithful, Has, Reported
      <3>2. ASSUME Replaced, NEW j \in DOMAIN pipeline, j < pos + 1
            PROVE  ReportedBy[pipeline[j]] \cap Expected(always, during) \subseteq Reported(merged')
        <4>1. CASE j < pos
          BY <2>4, <3>2, <4>1 DEF ScanInv, BuildMerged
        <4>2. CASE j = pos
          BY <2>2, <2>4, <3>2, <4>2 DEF Faithful
        <4> QED BY <1>3, <3>2, <4>1, <4>2
      <3> QED BY <1>1, <1>5, <2>3, <3>1, <3>2 DEF BuildMerged, Expected, Reported
    <2> QED BY <1>6, <2>5, <2>6, <2>7 DEF ScanInv
  <1> QED BY <1>7, <1>8

LEMMA ScanSave == ScanInv /\ Save => ScanInv'
  <1> SUFFICES ASSUME ScanInv, Save
               PROVE  ScanInv'
    OBVIOUS
  <1>1. Evidence' = Evidence /\ Unread' = Unread /\ (Replaced' <=> Replaced)
    BY EvidenceFixed DEF Save
  <1>2. pipeline \in Seq(ToSet(Wave2Collectors)) /\ pos = Len(pipeline) + 1
    BY HostScanAssumption DEF ScanInv, BuildHost, Save
  <1>3. BuildHost'
    BY DEF ScanInv, BuildHost, Possible, OutageChosen, Save
  <1>4. BuildReads'
    BY <1>1, <1>2 DEF ScanInv, BuildReads, Shows, Save
  <1>5. BuildMerged'
    <2>1. \A x \in Reported(merged') : Has(x, during)'
      BY <1>1 DEF ScanInv, BuildMerged, Has, Save
    <2> QED BY <1>2, <2>1 DEF BuildMerged, Save
  <1>6. RowTrue'
    <2>1. OnRecord' = Reported(merged) /\ row'.during = during /\ row'.always = always
      BY DEF Save, OnRecord, Reported
    <2>2. \A x \in OnRecord' : Has(x, row.during)'
      BY <1>1, <2>1 DEF ScanInv, BuildMerged, Has
    <2>3. ASSUME Replaced, NEW x \in Expected(always, during)
          PROVE  x \in Reported(merged)
      <3>1. PICK j \in DOMAIN pipeline : x \in ReportedBy[pipeline[j]]
        BY <2>3, ExpectedOfChosen DEF ScanInv, BuildHost
      <3>2. j < pos
        BY <1>2
      <3> QED BY <2>3, <3>1, <3>2 DEF ScanInv, BuildMerged
    <2>4. Expected(row.always, row.during)' = Expected(always, during)
      BY <1>1, <2>1 DEF Expected
    <2> QED BY <1>1, <2>1, <2>2, <2>3, <2>4 DEF RowTrue, Save
  <1> QED BY <1>3, <1>4, <1>5, <1>6 DEF ScanInv

LEMMA ScanHost == ScanInv /\ HostChanges => ScanInv'
  <1> SUFFICES ASSUME ScanInv, HostChanges
               PROVE  ScanInv'
    OBVIOUS
  <1>1. Evidence' = Evidence /\ Unread' = Unread /\ (Replaced' <=> Replaced)
    BY EvidenceFixed DEF HostChanges
  <1>2. /\ during' = during \cup host' /\ always' = always \cap host'
        /\ UNCHANGED <<pipeline, missing, failing, pos, obs, merged, row>>
    BY DEF HostChanges
  <1>3. host' \subseteq Possible
    BY DEF HostChanges, ScanInv, BuildHost, Possible
  <1>4. BuildHost'
    BY <1>2, <1>3 DEF ScanInv, BuildHost, Possible, OutageChosen
  <1>5. BuildReads'
    <2>1. Shows(obs, always', during')
      BY <1>2, ShowsStill DEF ScanInv, BuildReads
    <2> QED BY <1>1, <1>2, <2>1 DEF ScanInv, BuildReads, Shows
  <1>6. BuildMerged'
    <2>1. /\ \A x : Has(x, during) => Has(x, during')
          /\ Expected(always', during') \subseteq Expected(always, during)
      BY <1>2, EvidenceStill
    <2>2. \A x : Has(x, during') => Has(x, during)'
      BY <1>1 DEF Has
    <2>3. Expected(always, during)' = Expected(always', during')
      BY <1>1 DEF Expected
    <2> QED BY <1>1, <1>2, <2>1, <2>2, <2>3 DEF ScanInv, BuildMerged, Reported
  <1>7. RowTrue'
    BY <1>1, <1>2 DEF ScanInv, RowTrue, OnRecord, Has, Expected
  <1> QED BY <1>4, <1>5, <1>6, <1>7 DEF ScanInv

LEMMA ScanStep == ScanInv /\ [Next]_vars => ScanInv'
  <1> SUFFICES ASSUME ScanInv, [Next]_vars
               PROVE  ScanInv'
    OBVIOUS
  <1>1. CASE Next
    BY <1>1, ScanBegin, ScanRead, ScanSave, ScanHost DEF Next, Build
  <1>2. CASE UNCHANGED vars
    <2>1. Evidence' = Evidence /\ Unread' = Unread /\ (Replaced' <=> Replaced)
      BY <1>2, EvidenceFixed DEF vars
    <2> QED BY <1>2, <2>1
        DEF vars, ScanInv, BuildHost, BuildReads, BuildMerged, RowTrue, Possible, OutageChosen, Shows,
            OnRecord, Has, Expected
  <1> QED BY <1>1, <1>2

\* Only features observed on the host are added: whatever comes and goes while
\* the collectors read one source after another, all the evidence for what is on
\* record was there during the build (linux_gpu.go:85-87, linux_tee.go:43-45).
THEOREM CapabilitiesHaveEvidence == FairSpec => []CapabilitiesWereThere
  <1>1. ScanInv => CapabilitiesWereThere
    BY DEF ScanInv, RowTrue, CapabilitiesWereThere, Has
  <1> QED BY <1>1, ScanInit, ScanStep, PTL DEF FairSpec

\* Evidence that was there all through a build is on record, with any choice of
\* collectors that covers the features that come and go, and with tools missing
\* or failing wherever another source stands in for them (NUMACollector.Collect,
\* RDMACollector.gather, GPUCollector.Collect).
THEOREM EvidenceIsRecorded == FairSpec => []NothingMissed
  <1>1. ScanInv => NothingMissed
    BY DEF ScanInv, RowTrue, NothingMissed
  <1> QED BY <1>1, ScanInit, ScanStep, PTL DEF FairSpec
=============================================================================
