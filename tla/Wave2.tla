------------------------------- MODULE Wave2 -------------------------------
(***************************************************************************)
(* The collectors of collectors.Wave2Collectors that set capabilities and  *)
(* network modes: what one Collect makes of the sources it read.           *)
(*                                                                         *)
(* A host is the set of its features.  A source is a command's output, a   *)
(* file or a directory, and shows some of the features.  What a Collect    *)
(* read is a function o from sources: {} where the source could not be     *)
(* read, {shown} otherwise.  An error of a collector is only logged, and   *)
(* comes with no capability or mode: it is nothing here.                   *)
(***************************************************************************)
EXTENDS Facts

\* PCI functions a host may have: class, vendor, fastest link and VFs.
PCIFunctions ==
    [gpu       |-> [class |-> "0302", vendor |-> "nvidia", gts |-> 32, vfs |-> 0],
     dpu       |-> [class |-> "0200", vendor |-> "bluefield", gts |-> 16, vfs |-> 8],
     root_port |-> [class |-> "0604", vendor |-> "nvidia", gts |-> 32, vfs |-> 0]]

HCAs == {"ib_hca", "roce_hca"}

\* The features each source shows.
Displays ==
    [lspci        |-> DOMAIN PCIFunctions,  pci_attrs    |-> DOMAIN PCIFunctions,
     rdma         |-> HCAs \cup {"roce_up"}, ibv_devinfo |-> HCAs \cup {"roce_up"},
     infiniband   |-> HCAs,
     numactl      |-> {"node0", "node1"},   node_sysfs   |-> {"node0", "node1"},
     meminfo      |-> {"huge_2m"},          huge_sysfs   |-> {"huge_2m", "huge_1g"},
     iommu_groups |-> {"iommu_groups"},     cmdline      |-> {"iommu_pt"},
     cpuinfo      |-> {"sev", "sev_es", "sev_snp", "tdx_guest", "sgx"},
     kvm_sev      |-> {"sev_on"},           kvm_sev_es  |-> {"sev_es_on"},
     kvm_sev_snp  |-> {"sev_snp_on"},       kvm_tdx     |-> {"tdx_on"},
     tee_dev      |-> {"tdx_device"},
     ip_link      |-> {"nic"},              ethtool      |-> {"phc"},
     ip_detail    |-> {"bond", "vlan", "bridge"},
     bonding      |-> {"lacp"},
     modules      |-> {"vfio_pci", "peermem"},
     pci_sysfs    |-> DOMAIN PCIFunctions,  nvidia_smi   |-> {"gpu"},
     dev          |-> {"nvidia_driver", "mst"},  path    |-> {"doca_tool"}]

Sources == DOMAIN Displays
Features == UNION {Displays[s] : s \in Sources}

Seen(o, source) == UNION o[source]

Result(caps, modes) == [caps |-> caps, modes |-> modes]

----------------------------------------------------------------------------
\* Only functions of these classes are kept, so a bridge's link is no evidence
\* of a generation.
interestingPCIClasses == {"0100", "0104", "0106", "0107", "0108", "0200", "0207",
                          "0280", "0300", "0302", "0b40", "1200"}

\* Link speed and VF count of a function whose files can be read, else zero.
enrichFromSysfs(o, f) ==
    IF f \in Seen(o, "pci_attrs") THEN [gts |-> PCIFunctions[f].gts, vfs |-> PCIFunctions[f].vfs]
                                  ELSE [gts |-> 0, vfs |-> 0]

PCICollect(o) ==
    LET kept == {f \in Seen(o, "lspci") : PCIFunctions[f].class \in interestingPCIClasses}
        maxGTs == Max({0} \cup {enrichFromSysfs(o, f).gts : f \in kept})
    IN Result(When("pcie_gen5", maxGTs >= 32)
              \cup When("pcie_gen4", maxGTs \in 16..31)
              \cup When("gpu_accelerator",
                        \E f \in kept : PCIFunctions[f].class \in {"0302", "1200", "0b40"})
              \cup When("sriov", \E f \in kept : enrichFromSysfs(o, f).vfs > 0), {})

\* gather: ibv_devinfo is asked only where the rdma tool is not installed; one
\* that is installed and fails is an error and shows nothing.
gather(o, missing) == Seen(o, IF "rdma" \in missing THEN "ibv_devinfo" ELSE "rdma")

\* ibv_devinfo gives a port's link layer itself, the rdma tool leaves it to
\* /sys/class/infiniband.
RDMACollect(o, missing) ==
    LET devices == gather(o, missing) \cap HCAs
        layered == IF "rdma" \in missing THEN devices
                   ELSE devices \cap Seen(o, "infiniband")
    IN IF devices = {} THEN Result({}, {})
       ELSE Result({"rdma"} \cup When("infiniband", "ib_hca" \in layered)
                            \cup When("roce", "roce_hca" \in layered)
                            \cup When("rdma_active", {"roce_hca", "roce_up"} \subseteq gather(o, missing)),
                   {"rdma"})

\* NUMACollect gone wrong: no fallback.
NUMACollectNumactlOnly(o) ==
    Result(When("multi_numa", Cardinality(Seen(o, "numactl")) > 1), {})

\* sysfs stands in for a numactl that is missing, fails or lists no node.
NUMACollect(o) ==
    LET nodes == IF Seen(o, "numactl") = {} THEN Seen(o, "node_sysfs") ELSE Seen(o, "numactl")
    IN Result(When("multi_numa", Cardinality(nodes) > 1), {})

\* HugePages_Total counts pages of the default size, so pages of 1 GB alone
\* are seen by their own directory only.
HugepagesCollect(o) ==
    LET reserved == Seen(o, "huge_sysfs")
    IN Result(When("hugepages", "huge_2m" \in Seen(o, "meminfo") \/ reserved # {})
              \cup When("hugepages_1g", "huge_1g" \in reserved), {})

IOMMUCollect(o) ==
    LET groups == "iommu_groups" \in Seen(o, "iommu_groups")
    IN Result(When("iommu", groups)
              \cup When("iommu_passthrough", groups /\ "iommu_pt" \in Seen(o, "cmdline")), {})

\* The kvm_amd parameter of each generation of SEV.
kvmParam == [sev |-> "kvm_sev", sev_es |-> "kvm_sev_es", sev_snp |-> "kvm_sev_snp"]

\* A kvm parameter that can be read and is off overrides the CPU's flag.
sevEnabled(o, flag) ==
    /\ flag \in Seen(o, "cpuinfo")
    /\ o[kvmParam[flag]] = {} \/ Seen(o, kvmParam[flag]) # {}

\* With no source readable there is an error, and no capability either way.
TEECollect(o) ==
    LET caps == When("sev", sevEnabled(o, "sev")) \cup When("sev_es", sevEnabled(o, "sev_es"))
                \cup When("sev_snp", sevEnabled(o, "sev_snp"))
                \cup When("tdx", \/ Seen(o, "kvm_tdx") # {} \/ Seen(o, "tee_dev") # {}
                                 \/ "tdx_guest" \in Seen(o, "cpuinfo"))
                \cup When("sgx", "sgx" \in Seen(o, "cpuinfo"))
    IN Result(caps \cup When("tee_capable", caps # {}), {})

\* ethtool is asked about the interfaces that ip listed.
NICOffloadCollect(o) ==
    Result(When("ptp_hardware_clock",
                "nic" \in Seen(o, "ip_link") /\ "phc" \in Seen(o, "ethtool")), {})

NetTopologyCollect(o) ==
    LET links == Seen(o, "ip_detail")
    IN Result({}, When("bonded", "bond" \in links)
                  \cup When("lacp", "bond" \in links /\ "lacp" \in Seen(o, "bonding"))
                  \cup When("vlan_tagged", "vlan" \in links)
                  \cup When("bridged", "bridge" \in links))

KernelCollect(o) == Result(When("vfio", "vfio_pci" \in Seen(o, "modules")), {})

\* The functions the GPU collector tells apart.
scanPCI(o) ==
    LET of(vendor) == {f \in Seen(o, "pci_sysfs") : PCIFunctions[f].vendor = vendor}
    IN [nvidia_gpu    |-> \E f \in of("nvidia") : PCIFunctions[f].class \in {"0300", "0302"},
        bluefield_dpu |-> of("bluefield") # {}]

\* gpudirect gone wrong: half of it will do.
gpudirectEitherHalf(o) == "peermem" \in Seen(o, "modules") \/ Seen(o, "infiniband") # {}

\* The module is looked for first, the RDMA device after it.
gpudirect(o) == "peermem" \in Seen(o, "modules") /\ Seen(o, "infiniband") # {}

\* A tool on the path is no source; with none at all the collector fails.
sawAnySource(o) ==
    \/ o["pci_sysfs"] # {} \/ o["nvidia_smi"] # {} \/ o["modules"] # {}
    \/ Seen(o, "infiniband") # {} \/ Seen(o, "dev") # {}

GPUCollect(o) ==
    LET smiGPUs == Seen(o, "nvidia_smi") # {}
        gpu == scanPCI(o).nvidia_gpu \/ smiGPUs
    IN IF ~sawAnySource(o) THEN Result({}, {})
       ELSE Result(When("gpu", gpu) \cup When("nvidia_gpu", gpu)
                   \cup When("gpu_cuda", smiGPUs \/ "nvidia_driver" \in Seen(o, "dev"))
                   \cup When("bluefield_dpu", scanPCI(o).bluefield_dpu)
                   \cup When("doca", "mst" \in Seen(o, "dev") \/ "doca_tool" \in Seen(o, "path"))
                   \cup When("gpudirect_rdma", gpudirect(o)), {})

----------------------------------------------------------------------------
\* The sources each collector reads, in the order it reads them.
Reads == [linux_pci          |-> <<"lspci", "pci_attrs">>,
          linux_rdma         |-> <<"rdma", "ibv_devinfo", "infiniband">>,
          linux_numa         |-> <<"numactl", "node_sysfs">>,
          linux_hugepages    |-> <<"meminfo", "huge_sysfs">>,
          linux_iommu        |-> <<"iommu_groups", "cmdline">>,
          linux_tee          |-> <<"cpuinfo", "kvm_sev", "kvm_sev_es", "kvm_sev_snp", "kvm_tdx",
                                 "tee_dev">>,
          linux_nic_offload  |-> <<"ip_link", "ethtool">>,
          linux_net_topology |-> <<"ip_detail", "bonding">>,
          linux_kernel       |-> <<"modules">>,
          linux_gpu          |-> <<"pci_sysfs", "nvidia_smi", "modules", "infiniband", "dev",
                                 "path">>]

Wave2Collect(c, o, missing) ==
    CASE c = "linux_pci"          -> PCICollect(o)
      [] c = "linux_rdma"         -> RDMACollect(o, missing)
      [] c = "linux_numa"         -> NUMACollect(o)
      [] c = "linux_hugepages"    -> HugepagesCollect(o)
      [] c = "linux_iommu"        -> IOMMUCollect(o)
      [] c = "linux_tee"          -> TEECollect(o)
      [] c = "linux_nic_offload"  -> NICOffloadCollect(o)
      [] c = "linux_net_topology" -> NetTopologyCollect(o)
      [] c = "linux_kernel"       -> KernelCollect(o)
      [] c = "linux_gpu"          -> GPUCollect(o)
=============================================================================
