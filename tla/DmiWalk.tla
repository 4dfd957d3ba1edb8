-------------------------------- MODULE DmiWalk --------------------------------
(***************************************************************************)
(* rewsr_dmi_parse: the cursor over an SMBIOS structure table and the      *)
(* decoding of what it passes. The table is what the firmware laid out,    *)
(* cut anywhere. A cell stands for a byte; in the formatted area behind    *)
(* the header a cell stands for one field of a byte or a word; a dword is  *)
(* two cells, the low word first.                                          *)
(***************************************************************************)
EXTENDS Integers, Sequences, SequencesExt, FiniteSetsExt, Orders

CONSTANTS
    Tables,             \* [structs, cells]: what was laid out, what is read
    MaxProcessors,      \* REWSR_DMI_MAX_PROCESSORS
    MaxMemdevs          \* REWSR_DMI_MAX_MEMDEVS

VARIABLES
    table,
    st                  \* the cursor, the loop and rewsr_dmi_info

EPROTO == -71
EINVAL == -22
NULL == 0

len == Len(table.cells)
Cell(p) == table.cells[p + 1]       \* buf[p]

(* What the spec lays out: header (type, formatted length, handle), the    *)
(* fields, and the strings, each ended by a NUL and all of them by another.*)
StringSet(s) ==
    LET n == Len(s.strings)
    IN [k \in 1 .. (IF n = 0 THEN 2 ELSE 2 * n + 1) |->
           IF k % 2 = 1 /\ k < 2 * n THEN s.strings[(k + 1) \div 2] ELSE 0]

Layout(s) == <<s.type, s.flen, 0, 0>> \o s.fields \o StringSet(s)

(* One structure is laid out behind the other, and zeros behind the last.  *)
OffsetIn(ss, i) == MapThenSumSet(LAMBDA j : Len(Layout(ss[j])), 1 .. i - 1)

LaidOut(ss, cells) ==
    /\ \A i \in DOMAIN ss : LET laid == Layout(ss[i])
                                 before == OffsetIn(ss, i)
                             IN \A k \in DOMAIN laid :
                                   before + k <= Len(cells) => cells[before + k] = laid[k]
    /\ LET all == OffsetIn(ss, Len(ss) + 1)
       IN \A p \in DOMAIN cells : all < p => cells[p] = 0

(* The size of a memory module, in kilobytes, by the encodings of SMBIOS:  *)
(* a word, and for large ones the bits 30:0 of a dword behind it.          *)
Low31(low, high) == low + (high % 2^15) * 2^16

SizeEncoded(s) ==
    LET raw == s.fields[1]
    IN /\ s.kb \in Nat /\ raw <= 65535
       /\ raw < 32767 => s.kb = 1024 * raw
       /\ raw = 32767 /\ Len(s.fields) > 2 => s.kb = 1024 * Low31(s.fields[2], s.fields[3])
       /\ 32768 <= raw /\ raw < 65535 => s.kb = raw - 32768

-----------------------------------------------------------------------------
(* rewsr_dmi_next: where the string set that starts at soff ends, the      *)
(* position behind its two NULs, or behind the one that ends the table.    *)

\* the single NUL, gone wrong: a set may end on any NUL.
SetEndsAnyNUL(soff) == {p \in soff .. len - 1 : Cell(p) = 0}

SetEnds(soff) ==
    {p \in soff .. len - 1 : Cell(p) = 0 /\ (p + 1 = len \/ Cell(p + 1) = 0)}

Refusal(off) ==
    LET flen == Cell(off + 1)
    IN flen < 4 \/ off + flen > len \/ SetEnds(off + flen) = {}

\* A structure, when there is one at off and it is not refused.
StructAt(off) ==
    LET soff == off + Cell(off + 1)
        last == Min(SetEnds(soff))
    IN [type |-> Cell(off), formatted |-> off, flen |-> Cell(off + 1), strings |-> soff,
        end |-> IF last + 1 = len THEN last + 1 ELSE last + 2,
        last |-> last + 1 = len \/ Cell(off) = 127]

(* rewsr_dmi_string and dmi_field: the string a reference in the formatted *)
(* area names, NULL if the field, the reference or the string is missing.  *)

Field(s, at) == IF at >= s.flen THEN NULL ELSE Cell(s.formatted + at)

String(s, index) ==
    LET starts == InOrder({p \in s.strings .. s.end - 1 :
                              Cell(p) # 0 /\ (p = s.strings \/ Cell(p - 1) = 0)})
    IN IF s.end - s.strings < 2 \/ Cell(s.strings) = 0 \/ index \notin DOMAIN starts
       THEN NULL ELSE Cell(starts[index])

\* The extended size: dmi_field has all of its four bytes or none.
Extended(s) == IF s.flen < 7 THEN <<0, 0>> ELSE <<Field(s, 5), Field(s, 6)>>

\* rewsr_dmi_mem_size_mb: megabytes, bit 15 for kilobytes, two escapes.
RoundedUp(kb) == (kb + 1023) \div 1024
Unknown == -1                                       \* UINT64_MAX

MemSize(raw, ext) ==
    CASE raw = 0 -> 0
      [] raw = 65535 -> Unknown
      [] raw = 32767 -> Low31(ext[1], ext[2])
      [] 32768 <= raw /\ raw < 65535 -> RoundedUp(raw - 32768)
      [] OTHER -> raw

-----------------------------------------------------------------------------
(* The switch of rewsr_dmi_parse: the first BIOS wins, processors and      *)
(* memory modules beyond their arrays are counted as dropped.              *)

\* first one wins, gone wrong: the last one does.
DecodeLastBios(info, s) ==
    CASE s.type = 0 -> [info EXCEPT !.bios = <<String(s, Field(s, 4))>>]
      [] s.type = 4 /\ Len(info.processors) < MaxProcessors ->
           [info EXCEPT !.processors = Append(@, String(s, Field(s, 4)))]
      [] s.type = 4 /\ Len(info.processors) >= MaxProcessors ->
           [info EXCEPT !.processors_dropped = @ + 1]
      [] s.type = 17 /\ Len(info.memdevs) < MaxMemdevs ->
           [info EXCEPT !.memdevs = Append(@, MemSize(Field(s, 4), Extended(s)))]
      [] s.type = 17 /\ Len(info.memdevs) >= MaxMemdevs -> [info EXCEPT !.memdevs_dropped = @ + 1]
      [] OTHER -> info

Decode(info, s) ==
    CASE s.type = 0 /\ info.bios = <<>> -> [info EXCEPT !.bios = <<String(s, Field(s, 4))>>]
      [] s.type = 4 /\ Len(info.processors) < MaxProcessors ->
           [info EXCEPT !.processors = Append(@, String(s, Field(s, 4)))]
      [] s.type = 4 /\ Len(info.processors) >= MaxProcessors ->
           [info EXCEPT !.processors_dropped = @ + 1]
      [] s.type = 17 /\ Len(info.memdevs) < MaxMemdevs ->
           [info EXCEPT !.memdevs = Append(@, MemSize(Field(s, 4), Extended(s)))]
      [] s.type = 17 /\ Len(info.memdevs) >= MaxMemdevs -> [info EXCEPT !.memdevs_dropped = @ + 1]
      [] OTHER -> info

NoInfo == [bios |-> <<>>, processors |-> <<>>, processors_dropped |-> 0,
           memdevs |-> <<>>, memdevs_dropped |-> 0]

Init == /\ table \in Tables
        /\ st = [pc |-> "parse", off |-> 0, done |-> FALSE, count |-> 0, rc |-> 0,
                 info |-> NoInfo]

Return(rc) == st' = [st EXCEPT !.pc = "done", !.rc = rc]

More == /\ ~st.done
        /\ st.off + 4 <= len
        /\ Cell(st.off) # 0 \/ Cell(st.off + 1) # 0         \* padding ends the table

Begin == /\ st.pc = "parse"
         /\ IF len < 6 THEN Return(EINVAL) ELSE st' = [st EXCEPT !.pc = "walk"]

Step == /\ st.pc = "walk"
        /\ More
        /\ ~Refusal(st.off)
        /\ LET s == StructAt(st.off)
           IN st' = [st EXCEPT !.off = s.end, !.done = s.last, !.count = @ + 1,
                               !.info = Decode(@, s)]

Refuse == st.pc = "walk" /\ More /\ Refusal(st.off) /\ Return(EPROTO)

EndOfTable == st.pc = "walk" /\ ~More /\ Return(0)

Next == (Begin \/ Step \/ Refuse \/ EndOfTable) /\ UNCHANGED table

-----------------------------------------------------------------------------
(* The table as the firmware meant it. Structure i starts at Offset(i).    *)

structs == table.structs
Offset(i) == OffsetIn(structs, i)
Whole(i) == Offset(i + 1) <= len

\* Cut inside its strings, right behind the NUL of one of them.
CutAtString(i) ==
    /\ Offset(i) + structs[i].flen < len
    /\ len < Offset(i + 1)
    /\ Cell(len - 1) = 0

Proper(i) == structs[i].flen >= 4 /\ (Whole(i) \/ CutAtString(i))

\* The structures a correct walk passes.
Walked == {i \in DOMAIN structs :
              /\ \A j \in 1 .. i : Proper(j)
              /\ \A j \in 1 .. i - 1 : structs[j].type # 127}

\* The string a reference means, if it was laid out and is not cut off.
Meant(i, ref) ==
    IF ref \in DOMAIN structs[i].strings
         /\ Offset(i) + structs[i].flen + 2 * ref <= len
    THEN structs[i].strings[ref] ELSE NULL

Types(t) == InOrder({i \in Walked : structs[i].type = t})
FirstOf(n, s) == [k \in DOMAIN s \cap 1 .. n |-> s[k]]
\* The reference a structure has, unless it is too short for one.
Ref(s) == IF s.fields = <<>> THEN NULL ELSE s.fields[1]
StringsOf(order) == [k \in DOMAIN order |-> Meant(order[k], Ref(structs[order[k]]))]

\* The megabytes of a module, unless the firmware knows none.
Megabytes(s) ==
    IF s.fields = <<>> \/ (s.fields[1] = 32767 /\ Len(s.fields) < 3) THEN 0
    ELSE IF s.fields[1] = 65535 THEN Unknown ELSE RoundedUp(s.kb)

SizesOf(order) == [k \in DOMAIN order |-> Megabytes(structs[order[k]])]

(* The walk passes each structure of the table once, in order, up to the   *)
(* first that is cut or misshapen, and no bytes that are not one; a cut    *)
(* inside a structure is an error, unless it fell behind the NUL of a      *)
(* string or left less than a header (rewsr_dmi_next).                     *)
WalkIsTheTable ==
    st.pc = "done" =>
        LET n == Cardinality(Walked)
            ended == n > 0 /\ structs[n].type = 127
        IN /\ st.count = IF len < 6 THEN 0 ELSE n
           /\ st.rc = IF len < 6 THEN EINVAL
                      ELSE IF ended \/ n = Len(structs) \/ len - Offset(n + 1) < 4 THEN 0
                      ELSE EPROTO

(* What is decoded belongs to its own structure: strings are never those   *)
(* of a later one, however the table is cut; the first BIOS wins, and the  *)
(* processors and the memory modules kept and those dropped are all of the *)
(* table, the first of them kept. A module's size is the megabytes it has, *)
(* rounded up, by each of the encodings, -1 where the firmware knows none, *)
(* and none where the structure is too short for the extended field        *)
(* (rewsr_dmi_parse, rewsr_dmi_mem_size_mb).                               *)
DecodedFromItsOwn ==
    (st.pc = "done" /\ len >= 6) =>
        LET cpus == StringsOf(Types(4))
            modules == SizesOf(Types(17))
        IN /\ st.info.bios = FirstOf(1, StringsOf(Types(0)))
           /\ st.info.processors = FirstOf(MaxProcessors, cpus)
           /\ st.info.processors_dropped + Len(st.info.processors) = Len(cpus)
           /\ st.info.memdevs = FirstOf(MaxMemdevs, modules)
           /\ st.info.memdevs_dropped + Len(st.info.memdevs) = Len(modules)
================================================================================
