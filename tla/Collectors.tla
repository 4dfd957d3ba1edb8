---------------------------- MODULE Collectors ----------------------------
(***************************************************************************)
(* The collectors that set a single-valued field of ServerFacts, each as   *)
(* the set of results one call of Collect may return.  A result is the     *)
(* partial facts and whether an error came with them; no collector of      *)
(* package collectors returns nil facts.                                   *)
(*                                                                         *)
(* What the outside world answers is chosen freely: which tools are        *)
(* installed and succeed, what the BMC says, which neighbours are heard.   *)
(* A cancelled context makes every command, HTTP request and query fail.   *)
(***************************************************************************)
EXTENDS Facts

CONSTANTS
    Hardware,     \* what the host's tools report: the typed fields they set
    Chassis,      \* the sets of chassis names the LLDP neighbours may give: for
                  \* an unnamed neighbour, some key of its chassis object
    SwitchDomain  \* the failure domain a chassis name stands for: its name
                  \* after "switch:"

\* The typed fields each tool of the host collector fills in.
ToolFields == [lscpu |-> {"Vendor", "Model", "Sockets", "Cores", "Threads"},
               lsblk |-> {"Disks"},
               ip    |-> {"NICs"}]

ASSUME CollectorsAssumption ==
    /\ Hardware \in [Vendor : Words, Model : Words, Sockets : Nat, Cores : Nat,
                     Threads : Nat, Disks : SUBSET Words,
                     NICs : SUBSET [name : Words, speed : Nat,
                                    features : SUBSET Words]]
    /\ Chassis \subseteq SUBSET Words
    /\ SwitchDomain \in [UNION Chassis -> Words]

\* ip lists finitely many interfaces, and diskType knows three types of disk.
ASSUME HardwareAssumption ==
    IsFiniteSet(Hardware.NICs) /\ Hardware.Disks \subseteq {"nvme", "ssd", "hdd"}

\* The values given in set, and nothing elsewhere.
Over(nothing, set) ==
    [f \in DOMAIN nothing |-> IF f \in DOMAIN set THEN set[f] ELSE nothing[f]]

\* Facts of one named source that set the given fields and Raw keys.
Partial(source, set, raw) ==
    [typed |-> Over(Zero, set), source |-> <<source>>, modes |-> {}, caps |-> {},
     raw |-> Over(NoRaw, raw)]

Empty == << >>

Ok(facts) == [facts |-> facts, err |-> FALSE]
Failed(facts) == [facts |-> facts, err |-> TRUE]

\* lscpu, lsblk and ip are independent: each missing or failing tool leaves
\* its fields unset, and any failure makes the whole call an error.
LinuxHostCollect(cancelled) ==
    {LET found == {f \in TypedFields : \E t \in DOMAIN ToolFields \ broken :
                                           f \in ToolFields[t]}
         facts == Partial("linux_host", [f \in found |-> Hardware[f]], Empty)
     IN [facts |-> facts, err |-> broken # {}] :
        broken \in IF cancelled THEN {DOMAIN ToolFields}
                                ELSE SUBSET DOMAIN ToolFields}

\* The canned facts that stand in for an unreachable BMC.
demoRedfishFacts ==
    Partial("redfish_demo", [PowerState |-> "on"],
            [vendor |-> "demo", demo_mode |-> "true"])

\* A reachable BMC gives its power state in lower case, "" when it has none.
RedfishCollect(cancelled) ==
    {Failed(demoRedfishFacts)}
    \cup IF cancelled THEN {}
         ELSE {Ok(Partial("redfish", [PowerState |-> p], [vendor |-> "real"])) :
                 p \in {"on", "off", ""}}

\* The server's record in the provisioning store; NoRecord when there is none.
NoRecord == [provisioning |-> "", domain |-> "", exists |-> FALSE]
Record(p, d) == [provisioning |-> p, domain |-> d, exists |-> TRUE]

\* No record, a failing query or a cancelled context: empty facts, an error.
\* readable says whether the query can be answered.
ProvisioningCollect(cancelled, record, readable) ==
    IF cancelled \/ ~record.exists \/ ~readable
    THEN {Failed(Partial("provisioning_store", Empty, Empty))}
    ELSE {Ok(Partial("provisioning_store",
                     [Provisioning |-> record.provisioning,
                      FailureDomain |-> record.domain], Empty))}

\* A single named chassis over all ports is a failure domain hint; none is
\* given for two, and a neighbour without a chassis object has the name "".
Hint(chassis) ==
    LET named == chassis \ {""} IN
    IF \E n \in named : named = {n} THEN SwitchDomain[CHOOSE n \in named : TRUE] ELSE ""

\* No neighbour at all is a valid answer.
LLDPCollect(cancelled) ==
    LET none == Partial("linux_lldp", Empty, Empty)
        heard(chassis) == Partial("linux_lldp", [FailureDomain |-> Hint(chassis)],
                                  [lldp_neighbors |-> "heard"])
    IN {Failed(none)}
       \cup IF cancelled THEN {} ELSE {Ok(none)} \cup {Ok(heard(c)) : c \in Chassis}

\* Power state and sensors are read by two commands; either one alone makes
\* the call a success.  "nan" is a temperature that ParseFloat accepts.
ipmiFacts(power, sensors) ==
    Partial("ipmi", [PowerState |-> power],
            IF sensors = "" THEN Empty ELSE [bmc_sensors |-> sensors])

IPMICollect(cancelled) ==
    {Failed(ipmiFacts("", ""))}
    \cup IF cancelled THEN {}
         ELSE {Ok(ipmiFacts(r.power, r.sensors)) :
                  r \in [power : {"", "on", "off"}, sensors : {"", "ok", "nan"}]
                          \ {[power |-> "", sensors |-> ""]}}

----------------------------------------------------------------------------
\* Every result the collector named c may return for a server with this
\* provisioning record.
Collect(c, cancelled, record, readable) ==
    CASE c = "linux_host"   -> LinuxHostCollect(cancelled)
      [] c = "redfish"      -> RedfishCollect(cancelled)
      [] c = "provisioning" -> ProvisioningCollect(cancelled, record, readable)
      [] c = "linux_lldp"   -> LLDPCollect(cancelled)
      [] c = "ipmi"         -> IPMICollect(cancelled)

CollectorNames == {"linux_host", "redfish", "provisioning", "linux_lldp", "ipmi"}
=============================================================================
