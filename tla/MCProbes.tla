-------------------------------- MODULE MCProbes --------------------------------
(* Values of Probes' constants for model checking.                         *)
EXTENDS Probes, SequencesExt

AllRoutines == TextTools \cup Decoders \cup {"read", "scan", "modes", "runner", "dmi"}

-----------------------------------------------------------------------------
(* What the tools may print. A value that has to be told from others is    *)
(* the number of its line.                                                 *)

NotANumber == -1
NotAvailable == -2

MCToolLines(tool, n) ==
    CASE tool = "ibv_devinfo" ->
           [key : {"hca_id", "transport", "fw_ver", "port", "state", "link_layer"}, val : {n}]
      [] tool = "bonding" ->
           [key : {"Bonding Mode", "MII Status", "Speed", "Slave Interface"}, val : {n}]
      [] tool = "numactl" ->
           [key : {"cpus", "size"}, id : 0 .. 2, val : {n}]
             \cup [key : {"distances", "row", "header"}, val : {n}]
      [] tool = "ethtool_g" ->
           [key : {"max", "current", "header"}, val : {NotAvailable}]
             \cup [key : {"rx"}, val : {NotAvailable, NotANumber, 0, n}]
             \cup [key : {"tx"}, val : {n}]
      [] tool = "ethtool_T" ->
           [key : {"Capabilities", "section", "line"}, val : {n}]
             \cup [key : {"clock"}, val : {NotANumber, 0, 2}]
      [] tool = "sdr" ->
           [key : {"degrees_C"}, name : {"a", ""}, status : {"ok", "cr"}, val : {n}]
             \cup [key : {"Watts"}, name : {"a"}, status : {"ok"}, val : {100, 300}]
             \cup [key : {"RPM"}, name : {"a", "b"}, status : {"ns"}, val : {n}]
             \cup [key : {"text", "short"}, name : {"b"}, status : {"ns"}, val : {n}]
      [] tool = "lldpctl" ->
           {[key |-> "interface", switch |-> "", val |-> {}]}
             \cup {[key |-> "interface", switch |-> s, val |-> {s}] : s \in {"leaf01", "leaf02"}}
             \cup [key : {"interface"}, switch : {"nameless1", "nameless2"}, val : {{"id", "descr"}}]

-----------------------------------------------------------------------------
Elements ==
    [range : {TRUE}, tail : {FALSE}, dash : {TRUE}, lo : 0 .. 3, hi : 0 .. 4]
      \cup {[range |-> TRUE, tail |-> tail, dash |-> FALSE, lo |-> n, hi |-> n] :
               tail \in BOOLEAN, n \in 0 .. 4}
      \cup [range : {TRUE}, tail : {TRUE}, dash : {TRUE}, lo : {0, 2}, hi : {1, 3, 4}]
      \cup [range : {FALSE}, tail : {FALSE}, dash : BOOLEAN, lo : {0}, hi : {0}]

MCDecoderItems(decoder) ==
    CASE decoder = "cpulist" -> Elements
      [] decoder = "topology" -> [type : {0, 1, 2}, nlog : {0, 1, 2, 4, 6}]
      [] decoder = "names" -> {3, 4, 7}

-----------------------------------------------------------------------------
MCReadLoops == {[kind |-> "line", cap |-> 4], [kind |-> "file", cap |-> 4],
                [kind |-> "slurp", cap |-> 2], [kind |-> "table", cap |-> 2]}

MCDirScans == [kind : {"pci"}, cap : {2, 4}, max : {0}]
              \cup [kind : {"block"}, cap : {2, 4}, max : {3}]

-----------------------------------------------------------------------------
(* Tables the firmware lays out, cut anywhere: up to three structures with *)
(* a BIOS and a processor that name a string they have, or one they do not *)
(* have, and every encoding of a module's size.                            *)

NamedOrNot == {[flen |-> 5, fields |-> <<2>>, strings |-> <<65, 66>>],
               [flen |-> 5, fields |-> <<1>>, strings |-> <<>>]}

\* The extended size is a dword, low word first; the firmware may have set its bit 31.
Module(raw, ext, bit31, kb) ==
    [type |-> 17, flen |-> 7, strings |-> <<>>, kb |-> kb,
     fields |-> <<raw, ext % 65536, ext \div 65536 + (IF bit31 THEN 32768 ELSE 0)>>]

Structures ==
    {[type |-> t] @@ s : t \in {0, 4}, s \in NamedOrNot}
      \cup {[type |-> 127, flen |-> 4, fields |-> <<>>, strings |-> <<>>],
            [type |-> 4, flen |-> 4, fields |-> <<>>, strings |-> <<68>>],
            [type |-> 9, flen |-> 3, fields |-> <<>>, strings |-> <<67>>],
            Module(32768 + 512, 0, FALSE, 512)}

Modules ==
    {Module(0, 0, FALSE, 0), Module(32768 + 1025, 0, FALSE, 1025),
     Module(16384, 0, FALSE, 16384 * 1024), Module(65535, 0, FALSE, 0)}
      \cup {Module(32767, mb, bit31, mb * 1024) : mb \in {32768, 65536 + 1}, bit31 \in BOOLEAN}
      \cup {[type |-> 17, flen |-> 4 + Len(fields), fields |-> fields, strings |-> <<>>, kb |-> 0] :
               fields \in {<<>>, <<32767>>, <<32767, 0>>}}

LaidOut(s) ==
    <<s.type, s.flen, 0, 0>> \o s.fields
      \o (IF s.strings = <<>> THEN <<0, 0>>
          ELSE FlattenSeq([i \in DOMAIN s.strings |-> <<s.strings[i], 0>>]) \o <<0>>)

MCDmiTables ==
    UNION {LET cells == FlattenSeq([i \in DOMAIN ss |-> LaidOut(ss[i])]) \o <<0, 0, 0, 0>>
           IN {[structs |-> ss, cells |-> SubSeq(cells, 1, cut)] : cut \in 0 .. Len(cells)} :
             ss \in UNION {[1 .. n -> Structures] : n \in 0 .. 3} \cup {<<m>> : m \in Modules}}
================================================================================
