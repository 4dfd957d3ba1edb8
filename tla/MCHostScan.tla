---------------------------- MODULE MCHostScan ----------------------------
(* Values of HostScan's constants for model checking.                      *)
EXTENDS HostScan

MCWords == STRING

MCRelevant ==
    <<"linux_pci", "linux_gpu">> :>
        {"gpu", "dpu", "root_port", "nvidia_driver"}
    @@ <<"linux_rdma", "linux_gpu">> :>
        {"ib_hca", "roce_hca", "roce_up", "peermem"}
    @@ <<"linux_numa", "linux_iommu", "linux_kernel">> :>
        {"node1", "iommu_groups", "iommu_pt", "vfio_pci"}
    @@ <<"linux_tee">> :>
        {"sev", "sev_on", "sev_snp", "sev_snp_on", "tdx_on", "tdx_device"}
    @@ <<"linux_hugepages">> :>
        {"huge_2m", "huge_1g"}
    @@ <<"linux_nic_offload", "linux_net_topology">> :>
        {"nic", "phc", "bond", "lacp"}

MCPipelines == DOMAIN MCRelevant

Outage(absent, failed) == [missing |-> absent, failing |-> failed]

\* Nothing wrong, tools that others stand in for, an rdma tool that fails, a
\* kernel without a parameter for SEV-SNP, and files of which there is no other
\* copy.
MCOutages ==
    {Outage({}, {}), Outage({"rdma"}, {"numactl", "nvidia_smi"}),
     Outage({"numactl", "nvidia_smi"}, {"rdma"}), Outage({"kvm_sev_snp"}, {}),
     Outage({"pci_attrs", "pci_sysfs", "modules", "infiniband", "meminfo", "cmdline",
             "bonding", "dev"}, {})}
=============================================================================
