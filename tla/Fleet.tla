------------------------------- MODULE Fleet -------------------------------
(***************************************************************************)
(* Package fleet: what operators are told of the whole fleet, computed     *)
(* from one row of each server.  A row's data is the facts, the health, the *)
(* sizes of the disks in GB, and the parts: the drives and NICs of its Raw  *)
(* entries as a sequence of components, which keep their kind as a prefix,  *)
(* and firmware versions, "" where the version is unknown.                  *)
(***************************************************************************)
EXTENDS Facts

Count(test(_), rows) == Cardinality({r \in rows : test(r)})
Tally(values(_), rows) ==
    [v \in UNION {values(r) : r \in rows} |-> Count(LAMBDA r : v \in values(r), rows)]
Total(value(_), rows) == MapThenSumSet(value, rows)

TypedOf(r) == r.data.facts.typed
DomainOf(r) == IF TypedOf(r).FailureDomain = "" THEN "unassigned" ELSE TypedOf(r).FailureDomain

\* Any other word counts as unknown.
UnknownHealth(all) == Count(LAMBDA r : r.data.health \notin {"healthy", "degraded"}, all)

Aggregate(all) ==
    [Servers           |-> Cardinality(all),
     Healthy           |-> Count(LAMBDA r : r.data.health = "healthy", all),
     Degraded          |-> Count(LAMBDA r : r.data.health = "degraded", all),
     Unknown           |-> UnknownHealth(all),
     PoweredOn         |-> Count(LAMBDA r : TypedOf(r).PowerState = "on", all),
     TotalCores        |-> Total(LAMBDA r : TypedOf(r).Cores, all),
     TotalThreads      |-> Total(LAMBDA r : TypedOf(r).Threads, all),
     TotalMemoryGB     |-> Total(LAMBDA r : TypedOf(r).MemoryGB, all),
     TotalDiskGB       |-> Total(LAMBDA r : FoldSeq(+, 0, r.data.sizes), all),
     TotalNICGbps      |-> Total(LAMBDA r : MapThenSumSet(LAMBDA n : n.speed, TypedOf(r).NICs), all),
     NICSpeedPorts     |->
        [s \in {n.speed : n \in UNION {TypedOf(r).NICs : r \in all}} \ {0} |->
            Total(LAMBDA r : Cardinality({n \in TypedOf(r).NICs : n.speed = s}), all)],
     CapabilityCounts  |-> Tally(LAMBDA r : r.data.facts.caps, all),
     NetworkModeCounts |-> Tally(LAMBDA r : r.data.facts.modes, all),
     CPUModels         |-> Tally(LAMBDA r : {TypedOf(r).Model} \ {""}, all),
     FailureDomains    |->
        [d \in {DomainOf(r) : r \in all} |-> {r.server : r \in {x \in all : DomainOf(x) = d}}]]

\* FindCapable gone wrong: one of the capabilities will do.
FindCapableAny(all, required) ==
    {r.server : r \in {x \in all : required \cap x.data.facts.caps # {}}}

FindCapable(all, required) ==
    {r.server : r \in {x \in all : required \subseteq x.data.facts.caps}}

\* A (component, version) is bumped once per server, where it is first seen.
PartsBumped(parts) == {i \in DOMAIN parts : \A j \in 1..i-1 : parts[j] # parts[i]}

\* Unknown components and versions are passed over.
FirmwareSpread(all) ==
    LET parts(r) == r.data.parts
        bumps(r, p) == Cardinality({i \in PartsBumped(parts(r)) : parts(r)[i] = p})
        known == {p \in UNION {ToSet(parts(r)) : r \in all} : p.component # "" /\ p.version # ""}
    IN [p \in known |-> Total(LAMBDA r : bumps(r, p), all)]
=============================================================================
