---------------------------- MODULE MCRefresher ----------------------------
(***************************************************************************)
(* Values of Refresher's constants for model checking, and what the API's  *)
(* views make of the rows on record.                                       *)
(***************************************************************************)
EXTENDS Refresher, Views

MCWords == STRING

MCHardware == [Vendor |-> "v", Model |-> "m", Sockets |-> 2, Cores |-> 8,
               Threads |-> 16, Disks |-> {"nvme", "hdd"},
               NICs |-> {[name |-> "ens1", speed |-> 25, features |-> {"rdma", "tso"}]}]

\* Two switches, and one beside a neighbour that names no chassis.
MCChassis == {{"leaf1", "leaf2"}, {"", "leaf1"}}

MCSwitchDomain == [n \in UNION Chassis |-> "switch:" \o n]

MCRecords == {Record("Provisioning", "fd1"), Record("failed", "")}

OneServer == <<"a">>
TwoServers == <<"a", "b">>

\* buildCollectors: the order the serving pipeline merges in.
ServePipeline == <<"linux_host", "redfish", "provisioning", "linux_lldp", "ipmi">>
\* For the runs about interleaving: fewer collectors and answers.
DomainPipeline == <<"provisioning", "linux_lldp">>
LivePipeline == <<"linux_lldp">>
OneRecord == {Record("provisioned", "fd1")}
OneSwitch == {{"leaf1"}}
NoRecords == {}

\* The two responses for one server tell one story.  The network features and
\* capabilities that InferCapabilities put on record agree with the bandwidth,
\* the machine type and the NICs that views.go computes anew from the same
\* row, and the state with what is shown of the hardware and the lifecycle.
ViewsTellOneStory ==
    \A i \in DOMAIN rows :
        LET data == rows[i].data
            public == PublicView(data.facts, data.health)
            hardware == HardwareView(data.facts)
        IN /\ "high_bandwidth_networking" \in public.features =>
                 public.bandwidth >= 25 /\ hardware.nics # {}
           /\ public.machineType # <<>> =>
                 ("local_nvme" \in public.capable <=> public.machineType[3] = "nvme")
           /\ hardware.numa.topology => public.machineType # <<>>
           /\ public.state = "active" =>
                 /\ Folded(public.lifecycle.provisioning) \notin {"failed", "provisioning"}
                 /\ hardware.cores > 0 \/ hardware.nics # {} \/ data.facts.typed.Disks # {}
=============================================================================
