--------------------------------- MODULE Probes ---------------------------------
(***************************************************************************)
(* The parsers, decoders and probes beneath the collectors, one of them a  *)
(* behaviour: routine says which, world is its input or surroundings, st   *)
(* its local variables. Each routine is a module of its own.               *)
(***************************************************************************)
EXTENDS Integers, Sequences, FiniteSets

CONSTANTS
    Routines,           \* those that are looked at
    ToolLines(_, _),    \* ToolLines(tool, n): what line n of a tool may be
    MaxLines,           \* bound: lines of a tool's output
    DecoderItems(_),    \* what an item of a decoder's list may be
    MaxItems,           \* bound: items of a list
    Bits,               \* CPUs a bitmap has room for
    BufferSizes,        \* sizes of a caller's buffer for names
    ReadLoops,          \* [kind, cap]: the read loops and their first capacities
    MaxTable,           \* REWSR_DMI_MAX_TABLE
    MaxLength,          \* bound: lengths of files
    MaxInterrupts,      \* bound: EINTRs in a row
    DirScans,           \* [kind, cap, max]: the directory scans
    DirNames,           \* directory entries there may be
    PlainFiles,         \* those of them that are no directories
    MaxHotplug,         \* bound: devices that come or go during a scan
    KernelWords,        \* numbers of mask words kernels have
    MaxWords,           \* REWSR_ETHTOOL_MAX_LMODE_WORDS
    MaxChanges,         \* bound: changes of a link between two calls
    MaxOutput,          \* bound: lines a command writes
    DmiTables,          \* [structs, cells]: SMBIOS tables, and what is read of them
    MaxProcessors,      \* REWSR_DMI_MAX_PROCESSORS
    MaxMemdevs          \* REWSR_DMI_MAX_MEMDEVS

\* A buffer with no room at all is refused at entry (rewsr_read_first_line and
\* rewsr_read_file), or is one the loop has allocated itself.
ASSUME ReadAssumption ==
    /\ ReadLoops \subseteq [kind : {"line", "file", "slurp", "table"}, cap : Nat \ {0}]
    /\ MaxTable \in Nat /\ MaxLength \in Nat

\* The kernel answers with an s8, the negated number of its words.
ASSUME ModesAssumption == KernelWords \subseteq Nat /\ MaxWords \in Nat

\* A name is its rank in strcmp's order; arrays have sizes.
ASSUME ScanAssumption ==
    /\ DirNames \subseteq Nat
    /\ DirScans \subseteq [kind : {"pci", "block"}, cap : Nat, max : Nat]

\* Elements of a cpulist: a range without a dash is a single CPU; numbers have no
\* sign.
ASSUME CpulistAssumption ==
    /\ Bits \in Nat
    /\ \A e \in DecoderItems("cpulist") :
        /\ e \in [range : BOOLEAN, tail : BOOLEAN, dash : BOOLEAN, lo : Nat, hi : Nat]
        /\ e.range /\ ~e.dash => e.lo = e.hi

\* Level types and processor counts of CPUID are unsigned fields.
ASSUME TopologyAssumption == DecoderItems("topology") \subseteq [type : Nat, nlog : Nat]

\* Names have lengths, and a buffer has a size, possibly none.
ASSUME NamesAssumption == DecoderItems("names") \subseteq Nat /\ BufferSizes \subseteq Nat

NeighbourLines == UNION {ToolLines("lldpctl", n) : n \in 1 .. MaxLines}

\* A chassis object is keyed by the name of the switch or, for a switch without one,
\* by its fields; no name is empty or that of a field, and it is one switch's alone.
ASSUME LldpAssumption ==
    /\ MaxLines \in Nat
    /\ \A l \in NeighbourLines : "" \notin l.val
    /\ \A l \in NeighbourLines : \A m \in NeighbourLines :
            l.val = {l.switch} /\ m.val # {} /\ m.val # {m.switch} =>
                l.switch \notin m.val /\ l.switch # m.switch

\* A line of ethtool -T is a header or stands under one; the index of a clock
\* has no sign, and a clock that has none is no number (NotANumber).
ASSUME StampsAssumption ==
    \A n \in 1 .. MaxLines : \A l \in ToolLines("ethtool_T", n) :
        /\ l.key \in {"Capabilities", "clock", "section", "line"}
        /\ l.key = "clock" => l.val \in Nat \cup {-1}

\* A line of ibv_devinfo sets the field it names; none has the name of the one
\* that is its stanza's (device).
ASSUME IbvAssumption ==
    \A n \in 1 .. MaxLines : \A l \in ToolLines("ibv_devinfo", n) : l.key # "device"

\* Readings in watts are compared as numbers are: ipmitool prints no NaN.
ASSUME SdrAssumption ==
    \A n \in 1 .. MaxLines : \A l \in ToolLines("sdr", n) : l.key = "Watts" => l.val \in Int

VARIABLES routine, world, st
vars == <<routine, world, st>>

Text == INSTANCE TextParsers WITH tool <- routine, text <- world, Lines <- ToolLines

TextTools == DOMAIN Text!Starts

Lists == INSTANCE Decoders WITH decoder <- routine, list <- world,
            Items <- DecoderItems, Caps <- BufferSizes

Decoders == {"cpulist", "topology", "names"}

Read == INSTANCE FileRead WITH file <- world, Loops <- ReadLoops

Scan == INSTANCE DevScan WITH sysfs <- world, Scans <- DirScans,
            Names <- DirNames, Files <- PlainFiles

Modes == INSTANCE LinkModes WITH kernel <- world

Runner == INSTANCE CommandRunner WITH os <- world

Dmi == INSTANCE DmiWalk WITH table <- world, Tables <- DmiTables

\* Structures of a table are no padding, and those with a length have it; no string
\* holds a NUL, and memory modules have a size if they have room for one. What is
\* read is what was laid out, cut anywhere.
ASSUME DmiAssumption ==
    /\ MaxProcessors \in Nat /\ MaxMemdevs \in Nat
    /\ \A t \in DmiTables :
        /\ Len(t.structs) \in Nat /\ DOMAIN t.structs = 1 .. Len(t.structs)
        /\ \A i \in DOMAIN t.structs :
              LET s == t.structs[i]
              IN /\ s.type \in Nat /\ s.flen \in Nat /\ (s.type # 0 \/ s.flen # 0)
                 /\ s.fields \in Seq(Nat) /\ (s.flen >= 4 => s.flen = 4 + Len(s.fields))
                 /\ s.strings \in Seq(Nat \ {0})
                 /\ s.type = 17 /\ s.fields # <<>> => Dmi!SizeEncoded(s)
        /\ t.cells \in Seq(Nat)
        /\ Dmi!LaidOut(t.structs, t.cells)

-----------------------------------------------------------------------------
Init ==
    /\ \/ Text!Init
       \/ Lists!Init
       \/ routine = "read" /\ Read!Init
       \/ routine = "scan" /\ Scan!Init
       \/ routine = "modes" /\ Modes!Init
       \/ routine = "runner" /\ Runner!Init
       \/ routine = "dmi" /\ Dmi!Init
    /\ routine \in Routines

\* A step the routine takes by itself, whatever its surroundings do.
Proceed ==
    \/ routine = "read" /\ Read!Next
    \/ routine = "scan" /\ Scan!Proceed
    \/ routine = "modes" /\ Modes!Proceed
    \/ routine = "runner" /\ Runner!Runtime
    \/ routine = "dmi" /\ Dmi!Next

Next ==
    /\ \/ Proceed
       \/ routine \in TextTools /\ Text!Next
       \/ routine \in Decoders /\ Lists!Next
       \/ routine = "scan" /\ Scan!Hotplug
       \/ routine = "modes" /\ Modes!LinkChanges
       \/ routine = "runner" /\ Runner!Surroundings
    /\ UNCHANGED routine

\* The Go runtime and the kernel let a routine that can go on go on.
FairSpec == Init /\ [][Next]_vars /\ WF_vars(Proceed /\ UNCHANGED routine)

-----------------------------------------------------------------------------
(* The properties are those of the routines' modules.                      *)

(* parseIbvDevinfo, parseBondFile: TextParsers!BlocksKeepTheirLines.      *)
BlocksKeepTheirLines == routine \in TextTools => Text!BlocksKeepTheirLines
(* parseNumactlHardware: TextParsers!NumaNodesComplete.                    *)
NumaNodesComplete == routine \in TextTools => Text!NumaNodesComplete
(* parseEthtoolMaxCurrent, parseEthtoolTimestamping:                       *)
(* TextParsers!EthtoolAsPrinted.                                           *)
EthtoolAsPrinted == routine \in TextTools => Text!EthtoolAsPrinted
(* parseSdrElist: TextParsers!SensorsAddUp.                                *)
SensorsAddUp == routine \in TextTools => Text!SensorsAddUp
(* LLDPCollector.Collect: TextParsers!HintIsTheOneSwitch.                  *)
HintIsTheOneSwitch == routine \in TextTools => Text!HintIsTheOneSwitch
(* LLDPCollector.Collect: TextParsers!SeveralSwitchesNoHint.               *)
SeveralSwitchesNoHint == routine \in TextTools => Text!SeveralSwitchesNoHint
(* rewsr_parse_cpulist and countCPUList: Decoders!CpulistReadAlike.        *)
CpulistReadAlike == routine \in Decoders => Lists!CpulistReadAlike
(* rewsr_cpuid_topology_decode: Decoders!TopologyMultiplies.               *)
TopologyMultiplies == routine \in Decoders => Lists!TopologyMultiplies
(* rewsr_cpuid_features_string: Decoders!NeedTellsTruncation.              *)
NeedTellsTruncation == routine \in Decoders => Lists!NeedTellsTruncation
(* The read loops of the C probes: FileRead!WholeOrRefused.                *)
WholeOrRefused == routine = "read" => Read!WholeOrRefused
(* The directory scans: DevScan!SteadyDevicesReported.                     *)
SteadyDevicesReported == routine = "scan" => Scan!SteadyDevicesReported
(* rewsr_ethtool_link_settings: LinkModes!OneAnswerOfTheKernel.            *)
OneAnswerOfTheKernel == routine = "modes" => Modes!OneAnswerOfTheKernel
(* LocalRunner.Run: CommandRunner!SuccessIsWhole.                          *)
SuccessIsWhole == routine = "runner" => Runner!SuccessIsWhole
(* rewsr_dmi_next: DmiWalk!WalkIsTheTable.                                 *)
WalkIsTheTable == routine = "dmi" => Dmi!WalkIsTheTable
(* rewsr_dmi_parse: DmiWalk!DecodedFromItsOwn.                             *)
DecodedFromItsOwn == routine = "dmi" => Dmi!DecodedFromItsOwn

Looping == routine \in {"read", "scan", "dmi"}

(* Every scan, read loop and table walk comes to its end, whatever comes   *)
(* and goes meanwhile: each step of its loop gets on (rewsr_slurp,         *)
(* rewsr_pci_scan_root, rewsr_dmi_next and their like).                    *)
LoopsEnd == Looping ~> (Looping /\ st.pc = "done")

Waiting == routine = "runner" /\ st.pc = "wait"

(* A stuck command is killed and Run returns, unless a process the command *)
(* left behind holds its pipe (LocalRunner.Run).                           *)
RunReturns == Waiting ~> (routine = "runner" /\ (st.pc = "done" \/ world.helper))

(* "Every invocation is bounded by Timeout so a stuck command can't hang   *)
(* facts collection indefinitely." (runner/runner.go:25-27)                *)
BoundedByTimeout == Waiting ~> (routine = "runner" /\ st.pc = "done")
================================================================================
