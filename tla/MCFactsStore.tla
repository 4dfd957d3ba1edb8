--------------------------- MODULE MCFactsStore ---------------------------
(***************************************************************************)
(* Model-checking instance of FactsStore: two servers, three saves of a    *)
(* few facts, and what the fleet queries and the API make of the rows.     *)
(***************************************************************************)
EXTENDS FactsStore, Fleet, Views

MCWords == STRING

Built(set, caps, parts, sizes) ==
    LET f == [NoFacts EXCEPT !.typed = [field \in TypedFields |->
                 IF field \in DOMAIN set THEN set[field] ELSE Zero[field]], !.caps = caps]
    IN [facts |-> [f EXCEPT !.caps = InferCapabilities(f)],
        health |-> InferHealth(f), parts |-> parts, sizes |-> sizes]

Drive(version) == [component |-> "nvme:d", version |-> version]
Ports == {[name |-> "p0", speed |-> 25, features |-> {"rdma"}],
          [name |-> "p1", speed |-> 25, features |-> {}]}

\* A server in use with two drives alike, one being provisioned with a drive
\* of another firmware, and one of which nothing is known but a sensor.
MCPayloads ==
    {Built([Cores |-> 8, NICs |-> Ports, PowerState |-> "on", FailureDomain |-> "fd1",
            Model |-> "m"], {"sriov"}, <<Drive("1"), Drive("1")>>,
           <<480, 480>>),
     Built([Cores |-> 4, Provisioning |-> "Provisioning", Model |-> "m"], {"sriov"},
           <<Drive("2"), Drive("")>>, <<960>>),
     Built(<<>>, {}, <<>>, <<>>)}

\* A server has finitely many NICs, each with a speed; its parts are a list, and
\* so are its disks, which have sizes.
ASSUME FleetAssumption ==
    \A payload \in Payloads :
        /\ IsFiniteSet(payload.facts.typed.NICs)
        /\ \A n \in payload.facts.typed.NICs : n.speed \in Nat
        /\ payload.parts \in Seq([component : STRING, version : STRING])
        /\ payload.sizes \in Seq(Nat)

\* The report over the latest rows counts every server with rows once, in one
\* state of health and one failure domain, its bandwidth is that of its ports
\* speed by speed, and a drive model's firmware is counted once per server
\* (fleet.go:169-170).  Where each server's rows were saved in time order it
\* agrees with the row the API serves of each server: as many healthy servers
\* as pages show, and found by the capabilities of their pages.
FleetAddsUp ==
    LET all == {rows[i] : i \in GetAllLatestFacts}
        served == {rows[i] : i \in UNION {GetLatestFacts(id) : id \in Servers}}
        inOrder == \A id \in Servers : \A i, j \in RowsOf(id) : i < j => rows[i].at <= rows[j].at
        s == Aggregate(all)
        page(r) == PublicView(r.data.facts, r.data.health)
        in(states) == {r \in served : page(r).state \in states}
        spread == FirmwareSpread(all)
    IN /\ s.Servers = Cardinality(ListServerIDs)
       /\ s.Healthy + s.Degraded + s.Unknown = s.Servers
       /\ MapThenSumSet(Cardinality, {s.FailureDomains[d] : d \in DOMAIN s.FailureDomains}) = s.Servers
       /\ s.TotalNICGbps = MapThenSumSet(LAMBDA g : g * s.NICSpeedPorts[g], DOMAIN s.NICSpeedPorts)
       /\ \A p \in DOMAIN spread : spread[p] \in 1..s.Servers
       /\ inOrder =>
             /\ s.Healthy \in Cardinality(in({"active"}))
                               .. Cardinality(in({"active", "provisioning"}))
             /\ \A caps \in SUBSET {"sriov", "rdma"} :
                   FindCapable(all, caps)
                     = {r.server : r \in {x \in served : caps \subseteq page(x).capable}}
=============================================================================
