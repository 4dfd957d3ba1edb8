------------------------------ MODULE MCServe ------------------------------
(* Values of Serve's constants for model checking.                         *)
EXTENDS Serve

MCWords == STRING

\* The host collector is in none of these pipelines.
MCHardware == [Vendor |-> "", Model |-> "", Sockets |-> 0, Cores |-> 0,
               Threads |-> 0, Disks |-> {}, NICs |-> {}]

\* One switch, named by every neighbour.
MCChassis == {{"leaf1"}}
MCSwitchDomain == [n \in {"leaf1"} |-> "switch:leaf1"]

OneServer == <<"a">>
TwoServers == <<"a", "b">>

\* What may be on file: the demo record, or another one as well.
DemoRecords == {DemoRecord}
MCRecords == {DemoRecord, [DemoRecord EXCEPT !.domain = "fd2"]}

StorePipeline == <<"provisioning">>
=============================================================================
