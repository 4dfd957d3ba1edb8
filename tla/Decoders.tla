-------------------------------- MODULE Decoders --------------------------------
(***************************************************************************)
(* The loops of the C probes over a list: a cpulist string, the CPUID      *)
(* topology subleaves, the names of set flags. As in TextParsers the list  *)
(* is dealt out item by item; a state holds a list and what the loop makes *)
(* of it.                                                                  *)
(***************************************************************************)
EXTENDS Integers, Sequences, SequencesExt, FiniteSetsExt

CONSTANTS
    Items(_),           \* Items(decoder): what an item of the list may be
    MaxItems,
    Bits,               \* CPUs the caller's bitmap has room for
    Caps                \* sizes of a caller's buffer, in characters

VARIABLES
    decoder,
    list,
    st

EINVAL == -22
ERANGE == -34

-----------------------------------------------------------------------------
(* rewsr_parse_cpulist and countCPUList, C's and Go's reading of the same  *)
(* kernel string. An item is an element between commas: a range, which is  *)
(* a single CPU where dash is not set, or text that does not start with    *)
(* one, as "x". tail says that more text stands behind the range: "0-3x",  *)
(* "1-2-3", "5 6"; no space stands at a dash. The C loop sets the CPUs of  *)
(* a range before it looks at what stands behind it, and stops at the      *)
(* first element it refuses; Go counts text without a dash as a CPU and    *)
(* skips a range it cannot read.                                           *)

CpulistStart == [bitmap |-> {}, rc |-> 0, goCount |-> 0]

GoCount(e) ==
    CASE ~e.dash -> 1
      [] e.dash /\ e.range /\ ~e.tail /\ e.lo <= e.hi -> e.hi - e.lo + 1
      [] OTHER -> 0

\* the range check, gone wrong: it looks at where the range starts.
CpulistItemStartChecked(s, e) ==
    LET t == [s EXCEPT !.goCount = @ + GoCount(e)]
    IN IF s.rc # 0 THEN t
       ELSE CASE ~e.range \/ e.hi < e.lo -> [t EXCEPT !.rc = EINVAL]
              [] e.range /\ e.lo <= e.hi /\ Bits <= e.lo -> [t EXCEPT !.rc = ERANGE]
              [] OTHER -> [t EXCEPT !.bitmap = @ \cup {cpu \in e.lo .. e.hi : cpu < Bits},
                                    !.rc = IF e.tail THEN EINVAL ELSE 0]

CpulistItem(s, e) ==
    LET t == [s EXCEPT !.goCount = @ + GoCount(e)]
    IN IF s.rc # 0 THEN t
       ELSE CASE ~e.range \/ e.hi < e.lo -> [t EXCEPT !.rc = EINVAL]
              [] e.range /\ e.lo <= e.hi /\ Bits <= e.hi -> [t EXCEPT !.rc = ERANGE]
              [] OTHER -> [t EXCEPT !.bitmap = @ \cup e.lo .. e.hi,
                                    !.rc = IF e.tail THEN EINVAL ELSE 0]

(* rewsr_cpuid_topology_decode: an item is a subleaf, its level type and   *)
(* the logical processors at it; the type INVALID ends the list.           *)

INVALID == 0
SMT == 1

TopologyStart == [ended |-> FALSE, saw_level |-> FALSE, smt_width |-> 0, deepest_count |-> 0]

\* the end of the list, gone wrong: subleaves behind it count as well.
TopologyItemGoesOn(s, leaf) ==
    IF leaf.type = INVALID THEN s
    ELSE [s EXCEPT !.saw_level = TRUE,
                   !.smt_width = IF leaf.type = SMT THEN leaf.nlog ELSE @,
                   !.deepest_count = Max({@, leaf.nlog})]

TopologyItem(s, leaf) ==
    IF s.ended THEN s
    ELSE IF leaf.type = INVALID THEN [s EXCEPT !.ended = TRUE]
    ELSE [s EXCEPT !.saw_level = TRUE,
                   !.smt_width = IF leaf.type = SMT THEN leaf.nlog ELSE @,
                   !.deepest_count = Max({@, leaf.nlog})]

NoTopology == [valid |-> FALSE, threads |-> 0, logical |-> 0, cores |-> 0]

\* Without a level the structure stays as memset left it.
Topology(s) ==
    LET threads == IF s.smt_width = 0 THEN 1 ELSE s.smt_width
        logical == IF s.deepest_count = 0 THEN 1 ELSE s.deepest_count
    IN IF ~s.saw_level THEN NoTopology
       ELSE [valid |-> TRUE, threads |-> threads, logical |-> logical,
             cores |-> logical \div threads]

(* rewsr_cpuid_features_string and rewsr_ethtool_link_modes_string: an     *)
(* item is the length of a name; a name that does not fit is left out and  *)
(* counted all the same.                                                   *)

NamesStart(cap) == [cap |-> cap, need |-> 0, used |-> 0, shown |-> <<>>]

\* the first flag, gone wrong: it stays set until a name is shown.
NamesItemSeparatesShown(s, nlen) ==
    LET add == nlen + (IF s.shown = <<>> THEN 0 ELSE 1)
    IN IF s.cap > 0 /\ s.used + add < s.cap
       THEN [s EXCEPT !.need = @ + add, !.used = @ + add, !.shown = Append(@, Len(list) + 1)]
       ELSE [s EXCEPT !.need = @ + add]

NamesItem(s, nlen) ==
    LET add == nlen + (IF list = <<>> THEN 0 ELSE 1)
    IN IF s.cap > 0 /\ s.used + add < s.cap
       THEN [s EXCEPT !.need = @ + add, !.used = @ + add, !.shown = Append(@, Len(list) + 1)]
       ELSE [s EXCEPT !.need = @ + add]

-----------------------------------------------------------------------------
Init == /\ list = <<>>
        /\ \/ decoder = "cpulist" /\ st = CpulistStart
           \/ decoder = "topology" /\ st = TopologyStart
           \/ decoder = "names" /\ \E cap \in Caps : st = NamesStart(cap)

Take(e) ==
    \/ decoder = "cpulist" /\ st' = CpulistItem(st, e)
    \/ decoder = "topology" /\ st' = TopologyItem(st, e)
    \/ decoder = "names" /\ st' = NamesItem(st, e)

Next ==
    /\ Len(list) < MaxItems
    /\ \E e \in Items(decoder) : list' = Append(list, e) /\ Take(e)
    /\ UNCHANGED decoder

-----------------------------------------------------------------------------
\* An element that is read as a range and fits the bitmap.
Fits(e) == e.range /\ e.lo <= e.hi /\ e.hi < Bits

\* The CPUs of the elements up to one of them that are read as ranges.
Elements(upto) ==
    UNION {list[i].lo .. list[i].hi : i \in {j \in DOMAIN list : j <= upto /\ Fits(list[j])}}

(* A cpulist is refused exactly when an element is no range, is beyond the *)
(* bitmap or has text behind it. The mask then holds the elements before   *)
(* the refused one and, where only the text behind it was wrong, that one: *)
(* none of a later element, and never a part of a range                    *)
(* (rewsr_parse_cpulist). A list the kernel prints, of ranges that do not  *)
(* meet, has as many CPUs for Go's countCPUList as for the C parser.       *)
CpulistReadAlike ==
    decoder = "cpulist" =>
        LET bad == {i \in DOMAIN list : ~Fits(list[i]) \/ list[i].tail}
            first == Min(bad \cup {Len(list) + 1})
            apart == \A i, j \in DOMAIN list :
                        i # j => (list[i].lo .. list[i].hi) \cap (list[j].lo .. list[j].hi) = {}
        IN /\ (st.rc = 0) <=> (bad = {})
           /\ st.bitmap = Elements(first)
           /\ bad = {} /\ apart => st.goCount = Cardinality(st.bitmap)

(* Threads per core are those of the SMT level and processors per package  *)
(* those of the widest level, of the levels before the first invalid one,  *)
(* and nothing is reported where there is no level; when each level's      *)
(* count is a multiple of the one inside it, cores times threads are the   *)
(* processors (rewsr_cpuid_topology_decode).                               *)
TopologyMultiplies ==
    decoder = "topology" =>
        LET end == Min({i \in DOMAIN list : list[i].type = INVALID} \cup {Len(list) + 1})
            levels == {i \in DOMAIN list : i < end}
            smt == {i \in levels : list[i].type = SMT}
            t == Topology(st)
        IN IF levels = {} THEN t = NoTopology
           ELSE /\ t.valid
                /\ t.threads = IF smt = {} \/ list[Max(smt)].nlog = 0 THEN 1
                               ELSE list[Max(smt)].nlog
                /\ t.logical = Max({list[i].nlog : i \in levels} \cup {1})
                /\ (\A i \in levels : list[i].nlog % t.threads = 0) =>
                       t.cores * t.threads = t.logical

(* The length returned says whether names are missing, and a caller that   *)
(* comes back with one character more than it gets them all; names are     *)
(* never cut and stay in order (rewsr_cpuid_features_string).              *)
NeedTellsTruncation ==
    decoder = "names" =>
        LET whole == FoldSeq(+, 0, list) + Max({Len(list) - 1, 0})
        IN /\ st.need = whole
           /\ (whole < st.cap) => st.shown = [i \in DOMAIN list |-> i]
           /\ (whole >= st.cap /\ list # <<>>) => Len(st.shown) < Len(list)
           /\ st.used < st.cap \/ st.used = 0
================================================================================
