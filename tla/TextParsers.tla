------------------------------ MODULE TextParsers ------------------------------
(***************************************************************************)
(* The parsers of package collectors that carry state from one line of a   *)
(* tool's output to the next. A parser gets its output whole; here it is   *)
(* dealt out line by line, so that every state holds a text and what the   *)
(* loop makes of it, and every prefix of a text is a text of its own.      *)
(* A line is a record of its key (which case of the switch takes it) and   *)
(* of the value behind the colon. Absent stands for the zero value.        *)
(***************************************************************************)
EXTENDS Integers, Sequences, SequencesExt, FiniteSetsExt, Orders

CONSTANTS
    Lines(_, _),        \* Lines(tool, n): what line n of a tool may be
    MaxLines

VARIABLES
    tool,               \* whose output is parsed
    text,               \* the lines so far
    st                  \* the parser's local variables

Absent == 0
NotANumber == -1        \* a text that is no number
NotAvailable == -2      \* "n/a", or nothing behind the colon

\* A text that is no number is zero as well.
atoiOrZero(val) == IF val = NotANumber THEN 0 ELSE val

\* Go's m[key] = val.
Put(m, key, val) == [k \in DOMAIN m \cup {key} |-> IF k = key THEN val ELSE m[k]]

-----------------------------------------------------------------------------
(* parseIbvDevinfo: cur is nil, <<>>, or the port block that is open; the  *)
(* closure flush appends it. It is flushed a last time when the text ends. *)

IbvStart == [devices |-> <<>>, cur |-> <<>>, hca_id |-> Absent,
             transport |-> Absent, fw_ver |-> Absent]

Flush(s) == s.devices \o s.cur

\* flush at a stanza only, gone wrong: the next port drops the open block.
IbvLineDropsPort(s, l) ==
    CASE l.key = "hca_id" -> [IbvStart EXCEPT !.devices = Flush(s), !.hca_id = l.val]
      [] l.key \in {"transport", "fw_ver"} -> [s EXCEPT ![l.key] = l.val]
      [] l.key = "port" ->
           [s EXCEPT !.cur = <<[device |-> s.hca_id, port |-> l.val, transport |-> s.transport,
                                fw_ver |-> s.fw_ver, state |-> Absent, link_layer |-> Absent]>>]
      [] OTHER -> IF s.cur = <<>> THEN s ELSE [s EXCEPT !.cur[1][l.key] = l.val]

IbvLine(s, l) ==
    CASE l.key = "hca_id" -> [IbvStart EXCEPT !.devices = Flush(s), !.hca_id = l.val]
      [] l.key \in {"transport", "fw_ver"} -> [s EXCEPT ![l.key] = l.val]
      [] l.key = "port" ->
           [s EXCEPT !.devices = Flush(s),
                     !.cur = <<[device |-> s.hca_id, port |-> l.val, transport |-> s.transport,
                                fw_ver |-> s.fw_ver, state |-> Absent, link_layer |-> Absent]>>]
      [] OTHER -> IF s.cur = <<>> THEN s ELSE [s EXCEPT !.cur[1][l.key] = l.val]

IbvDevices(s) == Flush(s)

-----------------------------------------------------------------------------
(* parseBondFile: cur points to the last slave once there is one.          *)

BondKeys == {"Bonding Mode", "MII Status", "LACP active"}
SlaveKeys == {"MII Status", "Speed"}

BondStart == [bond |-> [k \in BondKeys |-> Absent], slaves |-> <<>>]

BondLine(s, l) ==
    LET last == Len(s.slaves)
    IN CASE l.key = "Slave Interface" ->
              [s EXCEPT !.slaves = Append(@, Put([k \in SlaveKeys |-> Absent], "name", l.val))]
         [] s.slaves # <<>> /\ l.key \in SlaveKeys -> [s EXCEPT !.slaves[last][l.key] = l.val]
         [] s.slaves = <<>> /\ l.key \in BondKeys -> [s EXCEPT !.bond[l.key] = l.val]
         [] OTHER -> s

-----------------------------------------------------------------------------
(* parseNumactlHardware: the slice topo.Nodes and the map nodesByID of     *)
(* pointers into it. arrays[g] is the slice's g-th backing array, of       *)
(* capacity 2^(g-1); an append to a full one copies it to the next, and    *)
(* pointers taken before keep pointing into the old.                       *)

NumaKeys == {"cpus", "size", "free"}

NumaStart == [arrays |-> <<>>, nodesByID |-> <<>>, distances |-> <<>>, inDistances |-> FALSE]

Nodes(s) == IF s.arrays = <<>> THEN <<>> ELSE Last(s.arrays)

Appended(s, id) ==
    LET n == Put([k \in NumaKeys |-> Absent], "ID", id)
        g == Len(s.arrays)
        arrays == IF g > 0 /\ Len(s.arrays[g]) < 2^(g - 1)
                  THEN [s.arrays EXCEPT ![g] = Append(@, n)]
                  ELSE Append(s.arrays, Append(Nodes(s), n))
    IN [s EXCEPT !.arrays = arrays,
                 !.nodesByID = Put(@, id, [array |-> Len(arrays), index |-> Len(Nodes(s)) + 1])]

\* the lookup in the map, gone wrong: every line makes a node of its own.
NodeAlwaysNew(s, id) == Appended(s, id)

Node(s, id) == IF id \in DOMAIN s.nodesByID THEN s ELSE Appended(s, id)

NumaLine(s, l) ==
    CASE l.key = "distances" -> [s EXCEPT !.inDistances = TRUE]
      [] s.inDistances /\ l.key = "row" -> [s EXCEPT !.distances = Append(@, l.val)]
      [] ~s.inDistances /\ l.key \in NumaKeys ->
           LET t == Node(s, l.id)
               p == t.nodesByID[l.id]
           IN [t EXCEPT !.arrays[p.array][p.index][l.key] = l.val]
      [] OTHER -> s

-----------------------------------------------------------------------------
(* parseEthtoolMaxCurrent: the section header decides which map is filled. *)

RingKeys == {"rx", "tx"}

RingsStart == [target |-> "max", max |-> [k \in RingKeys |-> NotAvailable],
               current |-> [k \in RingKeys |-> NotAvailable]]

RingsLine(s, l) ==
    CASE l.key \in {"max", "current"} -> [s EXCEPT !.target = l.key]
      [] l.key \in RingKeys /\ l.val # NotAvailable ->
           [s EXCEPT ![s.target][l.key] = atoiOrZero(l.val)]
      [] OTHER -> s

(* parseEthtoolTimestamping: zero counts only where the text is "0".       *)

StampsStart == [caps |-> <<>>, inCaps |-> FALSE, phcIndex |-> -1]

\* the zero, gone wrong: whatever atoiOrZero returns is a clock's index.
StampsLineAnyZero(s, l) ==
    LET n == atoiOrZero(l.val)
    IN CASE l.key = "Capabilities" -> [s EXCEPT !.inCaps = TRUE]
         [] l.key = "clock" -> [s EXCEPT !.inCaps = FALSE, !.phcIndex = n]
         [] l.key = "section" -> [s EXCEPT !.inCaps = FALSE]
         [] OTHER -> IF s.inCaps THEN [s EXCEPT !.caps = Append(@, l.val)] ELSE s

StampsLine(s, l) ==
    LET n == atoiOrZero(l.val)
    IN CASE l.key = "Capabilities" -> [s EXCEPT !.inCaps = TRUE]
         [] l.key = "clock" ->
              [s EXCEPT !.inCaps = FALSE, !.phcIndex = IF n > 0 \/ l.val = 0 THEN n ELSE @]
         [] l.key = "section" -> [s EXCEPT !.inCaps = FALSE]
         [] OTHER -> IF s.inCaps THEN [s EXCEPT !.caps = Append(@, l.val)] ELSE s

-----------------------------------------------------------------------------
(* parseSdrElist: a line is one sensor; key is the unit of its reading.    *)

SdrStart == [SensorCount |-> 0, NotOK |-> <<>>, TempsC |-> <<>>, FansRPM |-> <<>>,
             PowerWatts |-> 0]

\* keep the largest, gone wrong: keep the last.
SdrLineLastWatts(s, l) ==
    LET t == [s EXCEPT !.SensorCount = @ + 1,
                       !.NotOK = IF l.status \in {"ok", "ns"} THEN @ ELSE Append(@, l.name)]
    IN IF l.key = "short" \/ l.name = "" THEN s
       ELSE CASE l.key = "degrees_C" -> [t EXCEPT !.TempsC = Put(@, l.name, l.val)]
              [] l.key = "RPM" -> [t EXCEPT !.FansRPM = Put(@, l.name, l.val)]
              [] l.key = "Watts" -> [t EXCEPT !.PowerWatts = l.val]
              [] OTHER -> t

SdrLine(s, l) ==
    LET t == [s EXCEPT !.SensorCount = @ + 1,
                       !.NotOK = IF l.status \in {"ok", "ns"} THEN @ ELSE Append(@, l.name)]
    IN IF l.key = "short" \/ l.name = "" THEN s
       ELSE CASE l.key = "degrees_C" -> [t EXCEPT !.TempsC = Put(@, l.name, l.val)]
              [] l.key = "RPM" -> [t EXCEPT !.FansRPM = Put(@, l.name, l.val)]
              [] l.key = "Watts" -> [t EXCEPT !.PowerWatts = IF l.val > @ THEN l.val ELSE @]
              [] OTHER -> t

-----------------------------------------------------------------------------
(* parseLldpctlJSON, and the loop of Collect over what it returns. A line  *)
(* is one interface of the document, switch the switch behind it and val   *)
(* the keys of its chassis object: the neighbour's system name, or for a   *)
(* neighbour without one the fields themselves, of which Go's map          *)
(* iteration hands out any first, whichever switch it is.                  *)

LldpStart == [neighbors |-> <<>>, chassis |-> "", single |-> TRUE]

\* the comparison, gone wrong: a neighbour without a chassis is a second one.
SeenCountsNameless(s, name) ==
    CASE s.chassis = "" /\ name # "" -> [s EXCEPT !.chassis = name]
      [] s.chassis # "" /\ name # s.chassis -> [s EXCEPT !.single = FALSE]
      [] OTHER -> s

Seen(s, name) ==
    IF name = "" \/ ~s.single \/ s.chassis = name THEN s
    ELSE IF s.chassis = "" THEN [s EXCEPT !.chassis = name]
    ELSE [s EXCEPT !.single = FALSE]

LldpLine(s, l) ==
    {Seen([s EXCEPT !.neighbors = Append(@, name)], name) :
        name \in IF l.val = {} THEN {""} ELSE l.val}

FailureDomain(s) == IF s.single THEN s.chassis ELSE ""

-----------------------------------------------------------------------------
Starts == [ibv_devinfo |-> IbvStart, bonding |-> BondStart, numactl |-> NumaStart,
           ethtool_g |-> RingsStart, ethtool_T |-> StampsStart, sdr |-> SdrStart,
           lldpctl |-> LldpStart]

Init == /\ tool \in DOMAIN Starts
        /\ text = <<>>
        /\ st = Starts[tool]

Parse(l) ==
    \/ tool = "ibv_devinfo" /\ st' = IbvLine(st, l)
    \/ tool = "bonding" /\ st' = BondLine(st, l)
    \/ tool = "numactl" /\ st' = NumaLine(st, l)
    \/ tool = "ethtool_g" /\ st' = RingsLine(st, l)
    \/ tool = "ethtool_T" /\ st' = StampsLine(st, l)
    \/ tool = "sdr" /\ st' = SdrLine(st, l)
    \/ tool = "lldpctl" /\ st' \in LldpLine(st, l)

Next ==
    /\ Len(text) < MaxLines
    /\ \E l \in Lines(tool, Len(text) + 1) : text' = Append(text, l) /\ Parse(l)
    /\ UNCHANGED tool

-----------------------------------------------------------------------------
(* What a text says, told from the positions of its lines alone.           *)

Positions(keys) == {i \in DOMAIN text : text[i].key \in keys}

LastIn(keys, from, upto) == Max({i \in Positions(keys) : from <= i /\ i <= upto} \cup {0})
FirstIn(keys, from) == Min({i \in Positions(keys) : from <= i} \cup {Len(text) + 1})

\* The value of the last line of the key between two lines, if there is one.
Said(key, from, upto) ==
    LET i == LastIn({key}, from, upto) IN IF i = 0 THEN Absent ELSE text[i].val

(* Every port block of ibv_devinfo becomes one device, in order, with the  *)
(* name, transport and firmware of its own stanza (never those of the      *)
(* stanza before) and the state and link layer of its own block; the block *)
(* still open when the text ends is not lost (parseIbvDevinfo's flush). A  *)
(* bond's own MII status is never that of one of its slaves, which have    *)
(* the same key, and no slave takes another's (parseBondFile).             *)
BlocksKeepTheirLines ==
    /\ tool = "ibv_devinfo" =>
        IbvDevices(st) =
            [k \in DOMAIN InOrder(Positions({"port"})) |->
                LET p == InOrder(Positions({"port"}))[k]
                    hca == LastIn({"hca_id"}, 1, p)
                    end == FirstIn({"hca_id", "port"}, p + 1)
                IN [device |-> Said("hca_id", 1, p), port |-> text[p].val,
                    transport |-> Said("transport", hca + 1, p),
                    fw_ver |-> Said("fw_ver", hca + 1, p),
                    state |-> Said("state", p, end), link_layer |-> Said("link_layer", p, end)]]
    /\ tool = "bonding" =>
        LET slaves == InOrder(Positions({"Slave Interface"}))
            first == FirstIn({"Slave Interface"}, 1)
        IN /\ \A k \in BondKeys : st.bond[k] = Said(k, 1, first)
           /\ Len(st.slaves) = Len(slaves)
           /\ \A i \in DOMAIN slaves :
                LET end == FirstIn({"Slave Interface"}, slaves[i] + 1)
                IN /\ st.slaves[i].name = text[slaves[i]].val
                   /\ \A k \in SlaveKeys : st.slaves[i][k] = Said(k, slaves[i], end)

(* numactl's nodes are reported once each, in the order they come, and     *)
(* when the lines of a node stand together, as numactl prints them, with   *)
(* the last value each line gave: the pointer of an earlier node may be    *)
(* into an array that append has left, but nothing is written through it   *)
(* any more (parseNumactlHardware). Rows are those below the header.       *)
NumaNodesComplete ==
    tool = "numactl" =>
        LET header == FirstIn({"distances"}, 1)
            lines == {i \in Positions(NumaKeys) : i < header}
            Of(id) == {i \in lines : text[i].id = id}
            ids == {text[i].id : i \in lines}
            order == InOrder({Min(Of(id)) : id \in ids})
            together == \A i, j \in lines : \A m \in lines :
                            i < m /\ m < j /\ text[i].id = text[j].id => text[m].id = text[i].id
        IN /\ [k \in DOMAIN Nodes(st) |-> Nodes(st)[k].ID] = [k \in DOMAIN order |-> text[order[k]].id]
           /\ together => \A n \in Range(Nodes(st)) : \A k \in NumaKeys :
                    n[k] = LET i == Max({i \in Of(n.ID) : text[i].key = k} \cup {0})
                           IN IF i = 0 THEN Absent ELSE text[i].val
           /\ st.distances = [r \in DOMAIN InOrder({i \in Positions({"row"}) : i > header}) |->
                                text[InOrder({i \in Positions({"row"}) : i > header})[r]].val]

(* A ring setting is read from its own section, n/a leaves no entry, and   *)
(* zero, a legal setting, is not taken for n/a; a text that is no number   *)
(* is stored as that legal zero (parseEthtoolMaxCurrent, atoiOrZero).      *)
(* Only what stands under Capabilities is a capability, and a clock index  *)
(* is one the tool printed as a number; the capability ptp_hardware_clock  *)
(* follows from it (parseEthtoolTimestamping).                             *)
EthtoolAsPrinted ==
    /\ tool = "ethtool_g" =>
        \A section \in {"max", "current"}, k \in RingKeys :
            LET mine == {i \in Positions({k}) : /\ text[i].val # NotAvailable
                                                /\ LET h == LastIn({"max", "current"}, 1, i)
                                                   IN section = IF h = 0 THEN "max" ELSE text[h].key}
            IN st[section][k] = IF mine = {} THEN NotAvailable ELSE atoiOrZero(text[Max(mine)].val)
    /\ tool = "ethtool_T" =>
        LET mine == {i \in Positions({"line"}) :
                        LET h == LastIn({"Capabilities", "clock", "section"}, 1, i)
                        IN h > 0 /\ text[h].key = "Capabilities"}
            clocks == {i \in Positions({"clock"}) : text[i].val # NotANumber}
        IN /\ st.caps = [k \in DOMAIN InOrder(mine) |-> text[InOrder(mine)[k]].val]
           /\ st.phcIndex = IF clocks = {} THEN -1 ELSE text[Max(clocks)].val

(* Every sensor is counted, every one whose status is neither ok nor ns is *)
(* listed, whatever its reading; each temperature and each fan is kept,    *)
(* with the last reading of its name and no other's, and the power is the  *)
(* largest of the watt readings (parseSdrElist).                           *)
SensorsAddUp ==
    tool = "sdr" =>
        LET sensors == {i \in DOMAIN text : text[i].key # "short" /\ text[i].name # ""}
            bad == InOrder({i \in sensors : text[i].status \notin {"ok", "ns"}})
            In(unit) == sensors \cap Positions({unit})
            Readings(unit) == [n \in {text[i].name : i \in In(unit)} |->
                                 text[Max({i \in In(unit) : text[i].name = n})].val]
        IN /\ st.SensorCount = Cardinality(sensors)
           /\ st.NotOK = [k \in DOMAIN bad |-> text[bad[k]].name]
           /\ st.TempsC = Readings("degrees_C")
           /\ st.FansRPM = Readings("RPM")
           /\ st.PowerWatts = Max({text[i].val : i \in In("Watts")} \cup {0})

(* Where a neighbour has a system name, a hint is given exactly if the     *)
(* host is on no other switch, and it is that name, in whatever order and  *)
(* map iteration; without any chassis there is none                        *)
(* (LLDPCollector.Collect).                                                *)
HintIsTheOneSwitch ==
    tool = "lldpctl" =>
        LET chassis == {i \in DOMAIN text : text[i].val # {}}
            named == {i \in chassis : text[i].val = {text[i].switch}}
            switches == {text[i].switch : i \in chassis}
        IN /\ \A i \in named :
                FailureDomain(st) = IF switches = {text[i].switch} THEN text[i].switch ELSE ""
           /\ chassis = {} => FailureDomain(st) = ""

(* "Multiple chassis (dual-homed) means no single domain, so no hint is    *)
(* set" (linux_lldp.go:84-85).                                             *)
SeveralSwitchesNoHint ==
    tool = "lldpctl" =>
        \A i, j \in DOMAIN text :
            text[i].val # {} /\ text[j].val # {} /\ text[i].switch # text[j].switch =>
                FailureDomain(st) = ""
================================================================================
