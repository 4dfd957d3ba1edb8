-------------------------------- MODULE DevScan --------------------------------
(***************************************************************************)
(* The directory scans of the C probes, while devices come and go:         *)
(* rewsr_pci_scan_root and rewsr_sysfs_scan_net read a device's attributes *)
(* as readdir hands out its name; rewsr_block_scan lists all the names,    *)
(* sorts them, and then reads. Names are numbers, in strcmp's order.       *)
(***************************************************************************)
EXTENDS Integers, Sequences, SequencesExt, FiniteSetsExt

CONSTANTS
    Scans,              \* [kind, cap, max]: kind, the caller's array, SCAN_MAX
    Names,              \* directory entries there may be
    Files,              \* those that are plain files, as bonding_masters is
    MaxHotplug          \* bound: devices that come or go during a scan

VARIABLES
    sysfs,              \* the directory and what readdir has yet to say
    st                  \* the scan's variables

Unknown == "unknown"
Value(name, attr) == <<name, attr>>

scan == sysfs.scan
IsDir(name) == name \in sysfs.present \ Files

\* A result before its attributes, of which the first and the last are told apart.
NoEntry(name) == [name |-> name, vendor |-> Unknown, driver |-> Unknown]

Init ==
    /\ \E s \in Scans, present \in SUBSET Names :
            sysfs = [scan |-> s, present |-> present, unread |-> present, handed |-> {},
                     always |-> present, hotplugs |-> 0]
    /\ st = [pc |-> "readdir", total |-> 0, names |-> <<>>, out |-> <<>>, entry |-> NoEntry(0)]

(* The kernel adds or removes a device. What is there all the time is      *)
(* handed out once; of one that comes or goes readdir may know or not.     *)
Hotplug ==
    /\ st.pc # "done"
    /\ sysfs.hotplugs < MaxHotplug
    /\ \E name \in Names \ Files, known \in BOOLEAN :
         sysfs' = [sysfs EXCEPT
            !.present = IF name \in @ THEN @ \ {name} ELSE @ \cup {name},
            !.unread = IF known /\ name \notin sysfs.handed THEN @ \cup {name} ELSE @ \ {name},
            !.always = @ \ {name},
            !.hotplugs = @ + 1]
    /\ UNCHANGED st

Readdir(name) == sysfs' = [sysfs EXCEPT !.unread = @ \ {name}, !.handed = @ \cup {name}]

(* qsort leaves one of the arrangements of its array that are in order.    *)
Arrangements(array) ==
    {[i \in DOMAIN array |-> array[p[i]]] : p \in Bijection(DOMAIN array, DOMAIN array)}

-----------------------------------------------------------------------------
(* rewsr_pci_scan_root; rewsr_sysfs_scan_net has the same loop.            *)

NextEntry ==
    /\ scan.kind = "pci" /\ st.pc = "readdir"
    /\ \E name \in sysfs.unread :
            /\ Readdir(name)
            /\ st' = [st EXCEPT !.pc = "stat", !.entry = NoEntry(name)]

\* counting, gone wrong: what the array has no room for is not counted.
StatCountsStored ==
    /\ st.pc = "stat"
    /\ st' = IF ~IsDir(st.entry.name) \/ Len(st.out) = scan.cap THEN [st EXCEPT !.pc = "readdir"]
             ELSE [st EXCEPT !.total = @ + 1, !.pc = "vendor"]
    /\ UNCHANGED sysfs

Stat ==
    /\ st.pc = "stat"
    /\ st' = IF ~IsDir(st.entry.name) THEN [st EXCEPT !.pc = "readdir"]
             ELSE [st EXCEPT !.total = @ + 1,
                             !.pc = IF Len(st.out) < scan.cap THEN "vendor" ELSE "readdir"]
    /\ UNCHANGED sysfs

EndOfDir ==
    /\ scan.kind = "pci" /\ st.pc = "readdir" /\ sysfs.unread = {}
    /\ \E out \in Arrangements(st.out) :
            /\ \A i, j \in DOMAIN out : i < j => out[i].name <= out[j].name
            /\ st' = [st EXCEPT !.pc = "done", !.out = out]
    /\ UNCHANGED sysfs

-----------------------------------------------------------------------------
(* The attributes of a device, one file after the other; a file that is    *)
(* gone leaves its default.                                                *)

Read(attr) == IF IsDir(st.entry.name) THEN Value(st.entry.name, attr) ELSE Unknown

ReadFirst ==
    /\ st.pc = "vendor"
    /\ st' = [st EXCEPT !.pc = "driver", !.entry.vendor = Read("vendor")]
    /\ UNCHANGED sysfs

ReadLast ==
    /\ st.pc = "driver"
    /\ st' = [st EXCEPT !.pc = IF scan.kind = "pci" THEN "readdir" ELSE "device",
                        !.out = Append(@, [st.entry EXCEPT !.driver = Read("driver")])]
    /\ UNCHANGED sysfs

-----------------------------------------------------------------------------
(* rewsr_list_dir and rewsr_block_scan.                                    *)

ListEntry ==
    /\ scan.kind = "block" /\ st.pc = "readdir"
    /\ \E name \in sysfs.unread :
            /\ Readdir(name)
            /\ st' = [st EXCEPT !.total = @ + 1,
                                !.names = IF Len(@) < scan.max THEN Append(@, name) ELSE @]

ListEnds ==
    /\ scan.kind = "block" /\ st.pc = "readdir" /\ sysfs.unread = {}
    /\ \E names \in Arrangements(st.names) :
            /\ \A i, j \in DOMAIN names : i < j => names[i] <= names[j]
            /\ st' = [st EXCEPT !.pc = "device", !.names = names]
    /\ UNCHANGED sysfs

\* passing over a name, gone wrong: the next turn looks at it again.
NextDeviceStays ==
    /\ st.pc = "device" /\ st.names # <<>> /\ Len(st.out) < scan.cap
    /\ st' = IF IsDir(Head(st.names))
             THEN [st EXCEPT !.names = Tail(@), !.entry = NoEntry(Head(st.names)), !.pc = "vendor"]
             ELSE st
    /\ UNCHANGED sysfs

NextDevice ==
    /\ st.pc = "device" /\ st.names # <<>> /\ Len(st.out) < scan.cap
    /\ st' = [st EXCEPT !.names = Tail(@), !.entry = NoEntry(Head(st.names)),
                        !.pc = IF IsDir(Head(st.names)) THEN "vendor" ELSE "device"]
    /\ UNCHANGED sysfs

DevicesEnd ==
    /\ st.pc = "device" /\ (st.names = <<>> \/ Len(st.out) = scan.cap)
    /\ st' = [st EXCEPT !.pc = "done"]
    /\ UNCHANGED sysfs

Proceed ==
        \/ NextEntry \/ Stat \/ EndOfDir
        \/ ReadFirst \/ ReadLast
        \/ ListEntry \/ ListEnds \/ NextDevice \/ DevicesEnd

Next == Proceed \/ Hotplug

-----------------------------------------------------------------------------
\* No room in the array, as the caller sees; none in the list of names, which
\* the caller of the block scan is not told.
NoRoom ==
    IF scan.kind = "pci" THEN st.total > scan.cap
    ELSE Len(st.out) = scan.cap \/ st.total > scan.max

(* Whatever comes and goes during a scan, the devices that stay are in the *)
(* result, each once, in order and with all their attributes, unless there *)
(* was no room; a directory that holds still is reported exactly, in       *)
(* whatever order readdir gave its names                                   *)
(* (rewsr_pci_scan_root, rewsr_sysfs_scan_net, rewsr_block_scan).          *)
SteadyDevicesReported ==
    st.pc = "done" =>
        LET reported == {st.out[i].name : i \in DOMAIN st.out}
            steady == sysfs.always \ Files
        IN /\ \A i, j \in DOMAIN st.out : i < j => st.out[i].name < st.out[j].name
           /\ \A i \in DOMAIN st.out : st.out[i].name \in steady =>
                /\ st.out[i].vendor = Value(st.out[i].name, "vendor")
                /\ st.out[i].driver = Value(st.out[i].name, "driver")
           /\ ~NoRoom => steady \subseteq reported
           /\ sysfs.hotplugs = 0 =>
                /\ reported \subseteq steady
                /\ Cardinality(reported) = Cardinality(steady) \/ NoRoom
================================================================================
