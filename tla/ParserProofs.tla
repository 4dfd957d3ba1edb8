------------------------------ MODULE ParserProofs ------------------------------
(***************************************************************************)
(* The parsers that carry state from line to line, for texts of any        *)
(* length, and the lists of names, for buffers of any size. Proved from    *)
(* Probes.                                                                 *)
(***************************************************************************)
EXTENDS ProbesProofs, SumProofs

-----------------------------------------------------------------------------
(* Positions in order *)

LEMMA GreatestOfText ==
    ASSUME NEW S \in SUBSET Int, NEW m \in S, \A x \in S : x <= m
    PROVE  Text!Max(S) = m
  <1>1. \A x \in S : (\A y \in S : x >= y) => x = m
    OBVIOUS
  <1>2. \A x \in S : m >= x
    OBVIOUS
  <1> QED BY <1>1, <1>2 DEF Text!Max

\* The greatest of some positions is one of them.
LEMMA GreatestPosition ==
    ASSUME NEW n \in Nat, NEW S \in SUBSET (0 .. n), S # {}
    PROVE  Text!Max(S) \in S /\ \A x \in S : x <= Text!Max(S)
  <1> DEFINE T == {n - x : x \in S}
  <1>1. T \in SUBSET Nat /\ T # {}
    <2>1. \A x \in S : n - x \in Nat
      OBVIOUS
    <2> QED BY <2>1
  <1>2. PICK t \in T : \A u \in T : t <= u
    BY <1>1, LeastNatural
  <1>3. PICK m \in S : t = n - m
    BY <1>2
  <1>4. \A x \in S : x <= m
    <2> SUFFICES ASSUME NEW x \in S
                 PROVE  x <= m
      OBVIOUS
    <2>1. n - x \in T /\ m \in 0 .. n /\ x \in 0 .. n
      OBVIOUS
    <2>2. n - m <= n - x
      BY <1>2, <1>3, <2>1
    <2> QED BY <2>1, <2>2
  <1> HIDE DEF T
  <1>5. Text!Max(S) = m
    <2>1. S \in SUBSET Int
      OBVIOUS
    <2> QED BY <1>4, <2>1, GreatestOfText
  <1> QED BY <1>4, <1>5

LEMMA SameCardinalityOfText == \A S : Text!Cardinality(S) = Cardinality(S)
  BY DEF Cardinality, Text!Cardinality

Smaller(P, p) == {q \in P : q < p}

\* Each place of an order is taken.
LEMMA PlaceTaken ==
    ASSUME NEW P \in SUBSET Nat, IsFiniteSet(P)
    PROVE  \A k \in 1 .. Cardinality(P) : \E p \in P : Cardinality(Smaller(P, p)) = k - 1
  <1> DEFINE Free == {k \in 1 .. Cardinality(P) : ~ \E p \in P : Cardinality(Smaller(P, p)) = k - 1}
  <1>1. PICK n \in Nat : n = Cardinality(P)
    BY FS_CardinalityType
  <1> SUFFICES ASSUME Free # {}
               PROVE  FALSE
    OBVIOUS
  <1>2. PICK k \in Free : \A j \in Free : k <= j
    <2>1. Free \in SUBSET Nat
      BY <1>1
    <2> HIDE DEF Free
    <2> QED BY <2>1, LeastNatural
  <1>3. k \in 1 .. n
    BY <1>1
  <1>4. CASE k = 1
    <2>1. P # {}
      BY <1>1, <1>3, FS_EmptySet
    <2>2. PICK p \in P : \A q \in P : p <= q
      BY <2>1, LeastNatural
    <2>4. \A q \in P : ~(q < p)
      BY <2>2
    <2>3. Smaller(P, p) = {}
      BY <2>4 DEF Smaller
    <2> QED BY <1>4, <2>3, FS_EmptySet
  <1>5. CASE k # 1
    <2>1. k - 1 \in 1 .. n /\ k - 1 \notin Free
      BY <1>2, <1>3, <1>5
    <2>2. PICK p \in P : Cardinality(Smaller(P, p)) = k - 2
      BY <1>1, <2>1
    <2> DEFINE R == Smaller(P, p) \cup {p}
    <2>3. IsFiniteSet(R) /\ Cardinality(R) = k - 1
      <3>1. IsFiniteSet(Smaller(P, p)) /\ p \notin Smaller(P, p)
        BY FS_Subset DEF Smaller
      <3> QED BY <1>3, <2>2, <3>1, FS_AddElement
    <2>4. P \ R # {}
      <3>1. R \in SUBSET P
        BY DEF Smaller
      <3> HIDE DEF R
      <3>2. R # P
        BY <1>1, <1>3, <2>3
      <3> QED BY <3>1, <3>2
    <2>5. PICK r \in P \ R : \A q \in P \ R : r <= q
      <3>1. P \ R \in SUBSET Nat
        OBVIOUS
      <3> HIDE DEF R
      <3> QED BY <2>4, <3>1, LeastNatural
    <2>6. Smaller(P, r) = R
      <3>1. r > p
        BY <2>5 DEF Smaller
      <3>2. \A q \in P : q \in R <=> q < p \/ q = p
        BY DEF Smaller
      <3>3. \A q \in P : q < r <=> q \in R
        BY <2>5, <3>1, <3>2
      <3>4. R \subseteq P
        BY DEF Smaller
      <3> HIDE DEF R
      <3> QED BY <3>3, <3>4 DEF Smaller
    <2> QED BY <2>3, <2>5, <2>6
  <1> QED BY <1>4, <1>5

LEMMA PlaceIs ==
    ASSUME NEW P \in SUBSET Nat, IsFiniteSet(P), NEW k \in Nat,
           NEW p \in P, Cardinality(Smaller(P, p)) = k - 1
    PROVE  Text!Place(P, k) = p
  <1>1. ASSUME NEW q \in P, Cardinality(Smaller(P, q)) = k - 1
        PROVE  q = p
    <2>1. \A a, b \in P : a < b => Cardinality(Smaller(P, a)) # Cardinality(Smaller(P, b))
      <3> SUFFICES ASSUME NEW a \in P, NEW b \in P, a < b
                   PROVE  Cardinality(Smaller(P, a)) # Cardinality(Smaller(P, b))
        OBVIOUS
      <3>1. /\ Smaller(P, a) \in SUBSET Smaller(P, b)
            /\ a \in Smaller(P, b) /\ a \notin Smaller(P, a)
        <4>1. \A x \in P : x < a => x < b
          OBVIOUS
        <4>2. ~(a < a)
          OBVIOUS
        <4> QED BY <4>1, <4>2 DEF Smaller
      <3>2. IsFiniteSet(Smaller(P, b))
        BY FS_Subset DEF Smaller
      <3> QED BY <3>1, <3>2, FS_Subset
    <2>2. ~(q < p) /\ ~(p < q)
      BY <1>1, <2>1
    <2> QED BY <2>2
  <1>2. \A q \in P : Text!Cardinality({r \in P : r < q}) = k - 1 <=> q = p
    BY <1>1, SameCardinalityOfText DEF Smaller
  <1> QED BY <1>2 DEF Text!Place

LEMMA PlacesOf ==
    ASSUME NEW P \in SUBSET Nat, IsFiniteSet(P)
    PROVE  /\ DOMAIN Text!InOrder(P) = 1 .. Cardinality(P) /\ Cardinality(P) \in Nat
           /\ \A k \in 1 .. Cardinality(P) :
                /\ Text!InOrder(P)[k] = Text!Place(P, k)
                /\ Text!InOrder(P)[k] \in P
                /\ Cardinality(Smaller(P, Text!InOrder(P)[k])) = k - 1
  <1>1. Text!InOrder(P) = [k \in 1 .. Cardinality(P) |-> Text!Place(P, k)]
    BY SameCardinalityOfText DEF Text!InOrder
  <1>2. PICK n \in Nat : n = Cardinality(P)
    BY FS_CardinalityType
  <1>3. ASSUME NEW k \in 1 .. n
        PROVE  Text!Place(P, k) \in P /\ Cardinality(Smaller(P, Text!Place(P, k))) = k - 1
    <2>1. PICK p \in P : Cardinality(Smaller(P, p)) = k - 1
      BY <1>2, PlaceTaken
    <2>2. Text!Place(P, k) = p
      BY <2>1, PlaceIs
    <2> QED BY <2>1, <2>2
  <1> QED BY <1>1, <1>2, <1>3

\* One more position behind them all is the last.
LEMMA OneMorePlace ==
    ASSUME NEW P \in SUBSET Nat, IsFiniteSet(P), NEW m \in Nat, \A p \in P : p < m
    PROVE  /\ IsFiniteSet(P \cup {m}) /\ Cardinality(P \cup {m}) = Cardinality(P) + 1
           /\ \A k \in 1 .. Cardinality(P) : Text!InOrder(P \cup {m})[k] = Text!InOrder(P)[k]
           /\ Text!InOrder(P \cup {m})[Cardinality(P) + 1] = m
  <1> DEFINE Q == P \cup {m}
  <1>1. PICK n \in Nat : n = Cardinality(P)
    BY FS_CardinalityType
  <1>2. IsFiniteSet(Q) /\ Cardinality(Q) = n + 1 /\ Q \in SUBSET Nat
    BY <1>1, FS_AddElement
  <1>3. Smaller(Q, m) = P /\ \A p \in P : Smaller(Q, p) = Smaller(P, p)
    <2>1. \A q \in Q : q < m <=> q \in P
      OBVIOUS
    <2>2. \A p \in P : \A q \in Q : q < p <=> q \in P /\ q < p
      OBVIOUS
    <2>3. P \subseteq Q
      OBVIOUS
    <2> HIDE DEF Q
    <2>4. Smaller(Q, m) = P
      BY <2>1, <2>3 DEF Smaller
    <2>5. \A p \in P : Smaller(Q, p) = Smaller(P, p)
      BY <2>2, <2>3 DEF Smaller
    <2> QED BY <2>4, <2>5
  <1>4. \A p \in P : Cardinality(Smaller(P, p)) \in Nat /\ Cardinality(Smaller(P, p)) < n
    <2> SUFFICES ASSUME NEW p \in P
                 PROVE  Cardinality(Smaller(P, p)) \in Nat /\ Cardinality(Smaller(P, p)) < n
      OBVIOUS
    <2>1. Smaller(P, p) \in SUBSET P /\ Smaller(P, p) # P
      BY DEF Smaller
    <2>2. /\ IsFiniteSet(Smaller(P, p)) /\ Cardinality(Smaller(P, p)) <= n
          /\ Cardinality(Smaller(P, p)) # n
      BY <1>1, <2>1, FS_Subset
    <2>3. Cardinality(Smaller(P, p)) \in Nat
      BY <2>2, FS_CardinalityType
    <2> QED BY <2>2, <2>3
  <1> HIDE DEF Q
  <1>7. m \in Q /\ P \subseteq Q
    BY DEF Q
  <1>5. ASSUME NEW k \in 1 .. n
        PROVE  Text!InOrder(Q)[k] = Text!InOrder(P)[k]
    <2>1. PICK p \in P : Text!InOrder(P)[k] = p /\ Cardinality(Smaller(P, p)) = k - 1
      BY <1>1, PlacesOf
    <2>2. Text!Place(Q, k) = p
      BY <1>2, <1>3, <1>7, <2>1, PlaceIs
    <2> QED BY <1>2, <2>1, <2>2, PlacesOf
  <1>6. Text!InOrder(Q)[n + 1] = m
    <2>1. Text!Place(Q, n + 1) = m
      BY <1>1, <1>2, <1>3, <1>7, PlaceIs
    <2> QED BY <1>2, <2>1, PlacesOf
  <1> QED BY <1>1, <1>2, <1>5, <1>6 DEF Q

-----------------------------------------------------------------------------
(* Texts that grow by a line *)

LEMMA TextStep ==
    ASSUME routine \in TextTools, Next
    PROVE  Text!Next /\ UNCHANGED routine
  BY AloneNotFed, ToolsNotDecoders DEF Next, Proceed, Alone

LEMMA AppendOne ==
    ASSUME NEW S, NEW seq \in Seq(S), NEW x \in S
    PROVE  /\ Append(seq, x) \in Seq(S)
           /\ Len(Append(seq, x)) = Len(seq) + 1
           /\ \A i \in 1 .. Len(seq) : Append(seq, x)[i] = seq[i]
           /\ Append(seq, x)[Len(seq) + 1] = x
  OBVIOUS

\* The text has L lines and gets one more.
Grows(L, line) ==
    /\ L = Len(world) /\ Len(world') = L + 1
    /\ DOMAIN world = 1 .. L /\ DOMAIN world' = 1 .. L + 1
    /\ \A i \in 1 .. L : world'[i] = world[i]
    /\ world'[L + 1] = line

LEMMA OneMoreLine ==
    ASSUME routine \in TextTools, Next, NEW S, world \in Seq(S),
           \A n \in 1 .. MaxLines : ToolLines(routine, n) \subseteq S
    PROVE  \E L \in Nat, line \in S :
              Grows(L, line) /\ Text!Parse(line) /\ world' \in Seq(S) /\ UNCHANGED routine
  <1>1. Text!Next /\ UNCHANGED routine
    BY TextStep
  <1>2. PICK L \in Nat : L = Len(world) /\ DOMAIN world = 1 .. L
    OBVIOUS
  <1>3. PICK line \in ToolLines(routine, L + 1) : world' = Append(world, line) /\ Text!Parse(line)
    BY <1>1, <1>2 DEF Text!Next
  <1>4. line \in S
    <2>1. L < MaxLines /\ MaxLines \in Nat
      BY <1>1, <1>2, LldpAssumption DEF Text!Next
    <2>2. L + 1 \in 1 .. MaxLines
      BY <2>1
    <2> QED BY <1>3, <2>2
  <1>5. /\ Append(world, line) \in Seq(S)
        /\ Len(Append(world, line)) = Len(world) + 1
        /\ \A i \in 1 .. Len(world) : Append(world, line)[i] = world[i]
        /\ Append(world, line)[Len(world) + 1] = line
    BY <1>4, AppendOne, Zenon
  <1>6. /\ world' \in Seq(S) /\ Len(world') = L + 1
        /\ \A i \in 1 .. L : world'[i] = world[i]
        /\ world'[L + 1] = line
    BY <1>2, <1>3, <1>5, Zenon
  <1>7. DOMAIN world' = 1 .. L + 1
    BY <1>6
  <1> QED BY <1>1, <1>2, <1>3, <1>4, <1>6, <1>7 DEF Grows

\* The last line of the keys up to a line already there stays what it was.
LEMMA LastStays ==
    ASSUME NEW L \in Nat, NEW line, Grows(L, line), NEW keys, NEW i \in 0 .. L
    PROVE  /\ Text!LastIn(keys, 1, i)' = Text!LastIn(keys, 1, i)
           /\ Text!LastIn(keys, 1, i) \in 0 .. i
           /\ Text!LastIn(keys, 1, i) # 0 => world[Text!LastIn(keys, 1, i)].key \in keys
  <1> DEFINE S == {j \in Text!Positions(keys) : 1 <= j /\ j <= i} \cup {0}
  <1>1. S' = S
    <2>1. \A j : j \in Text!Positions(keys)' /\ 1 <= j /\ j <= i
                   <=> j \in Text!Positions(keys) /\ 1 <= j /\ j <= i
      BY DEF Grows, Text!Positions
    <2> QED BY <2>1
  <1>2. S \in SUBSET (0 .. i) /\ S # {}
    BY DEF Grows, Text!Positions
  <1>3. \A j \in S : j # 0 => world[j].key \in keys
    BY DEF Text!Positions
  <1>4. Text!Max(S)' = Text!Max(S)
    BY <1>1 DEF Text!Max
  <1>5. Text!LastIn(keys, 1, i) = Text!Max(S) /\ Text!LastIn(keys, 1, i)' = Text!Max(S)'
    BY DEF Text!LastIn
  <1> HIDE DEF S
  <1>6. Text!Max(S) \in S
    BY <1>2, GreatestPosition
  <1> QED BY <1>2, <1>3, <1>4, <1>5, <1>6

\* With the new line, the last of the keys is that line or the last before it.
LEMMA LastMoves ==
    ASSUME NEW L \in Nat, NEW line, Grows(L, line), NEW keys
    PROVE  Text!LastIn(keys, 1, L + 1)' =
              IF line.key \in keys THEN L + 1 ELSE Text!LastIn(keys, 1, L)
  <1> DEFINE S == {j \in Text!Positions(keys) : 1 <= j /\ j <= L} \cup {0}
             T == {j \in Text!Positions(keys)' : 1 <= j /\ j <= L + 1} \cup {0}
  <1>1. Text!LastIn(keys, 1, L) = Text!Max(S) /\ Text!LastIn(keys, 1, L + 1)' = Text!Max(T)
    BY DEF Text!LastIn, Text!Max
  <1>2. CASE line.key \in keys
    <2>1. L + 1 \in T /\ T \in SUBSET Int /\ \A j \in T : j <= L + 1
      BY <1>2 DEF Grows, Text!Positions
    <2> HIDE DEF T
    <2> QED BY <1>1, <1>2, <2>1, GreatestOfText
  <1>3. CASE line.key \notin keys
    <2>1. \A j : j \in Text!Positions(keys)' /\ 1 <= j /\ j <= L + 1
                   <=> j \in Text!Positions(keys) /\ 1 <= j /\ j <= L
      BY <1>3 DEF Grows, Text!Positions
    <2>2. T = S
      BY <2>1
    <2> QED BY <1>1, <1>3, <2>2
  <1> QED BY <1>2, <1>3

-----------------------------------------------------------------------------
(* Text parsers: the neighbours of LLDP *)

SystemNames == {""} \cup UNION {l.val : l \in NeighbourLines}
Chassis == {world[i].val : i \in DOMAIN world} \ {{}}

HintLines == world \in Seq(NeighbourLines)

HintState == st \in [neighbors : Seq(SystemNames), chassis : SystemNames, single : BOOLEAN]

\* As long as there is one name, it is one that every neighbour may have had;
\* once there are two, they come from two chassis, or from two keys of one.
HintInv ==
    /\ HintLines /\ HintState
    /\ st.single /\ st.chassis = "" => Chassis = {}
    /\ st.single /\ st.chassis # "" => Chassis # {} /\ \A c \in Chassis : st.chassis \in c
    /\ ~st.single => \E c, d \in Chassis : \E a \in c, b \in d : a # b

LEMMA NeighborsSet ==
    ASSUME NEW A, NEW B, NEW r \in [neighbors : A, chassis : B, single : BOOLEAN], NEW x \in A
    PROVE  /\ [r EXCEPT !.neighbors = x] \in [neighbors : A, chassis : B, single : BOOLEAN]
           /\ [r EXCEPT !.neighbors = x].chassis = r.chassis
           /\ [r EXCEPT !.neighbors = x].single = r.single
  OBVIOUS

LEMMA HintStep ==
    ASSUME routine = "lldpctl", HintInv, Next
    PROVE  HintInv'
  <1>14. HintLines /\ HintState
    BY Zenon DEF HintInv
  <1>1. PICK L \in Nat : L = Len(world) /\ DOMAIN world = 1 .. L
    BY <1>14 DEF HintLines
  <1>2. PICK line \in ToolLines("lldpctl", L + 1) :
           /\ L + 1 \in 1 .. MaxLines
           /\ world' = Append(world, line) /\ st' \in Text!LldpLine(st, line)
    <2>1. Text!Next
      BY TextStep DEF TextTools, Text!Starts
    <2>2. L < MaxLines
      BY <1>1, <2>1 DEF Text!Next
    <2>5. MaxLines \in Nat
      BY Zenon, LldpAssumption
    <2>3. L + 1 \in 1 .. MaxLines
      BY <1>1, <2>2, <2>5
    <2>4. PICK line \in ToolLines(routine, Len(world) + 1) :
             world' = Append(world, line) /\ Text!Parse(line)
      BY <2>1 DEF Text!Next
    <2> QED BY <1>1, <2>3, <2>4 DEF Text!Parse
  <1>3. line \in NeighbourLines /\ line.val \subseteq SystemNames /\ "" \notin line.val
    BY <1>2, LldpAssumption DEF NeighbourLines, SystemNames
  <1>4. /\ world' \in Seq(NeighbourLines) /\ DOMAIN world' = (1 .. L) \cup {L + 1}
        /\ \A i \in 1 .. L : world'[i] = world[i]
        /\ world'[L + 1] = line
    <2>1. world \in Seq(NeighbourLines) /\ line \in NeighbourLines
      BY <1>3, <1>14 DEF HintLines
    <2>2. /\ Append(world, line) \in Seq(NeighbourLines)
          /\ Len(Append(world, line)) = Len(world) + 1
          /\ \A i \in 1 .. Len(world) : Append(world, line)[i] = world[i]
          /\ Append(world, line)[Len(world) + 1] = line
      BY <2>1, AppendOne, Zenon
    <2>3. /\ world' \in Seq(NeighbourLines) /\ Len(world') = L + 1
          /\ \A i \in 1 .. L : world'[i] = world[i]
          /\ world'[L + 1] = line
      BY <1>1, <1>2, <2>2, Zenon
    <2>4. DOMAIN world' = 1 .. L + 1
      BY <2>3
    <2> QED BY <2>3, <2>4
  <1>5. Chassis' = Chassis \cup ({line.val} \ {{}})
    <2>1. {world'[i].val : i \in DOMAIN world'} = {world[i].val : i \in DOMAIN world} \cup {line.val}
      BY <1>1, <1>4
    <2> QED BY <2>1 DEF Chassis
  <1>6. PICK name \in IF line.val = {} THEN {""} ELSE line.val :
           st' = Text!Seen([st EXCEPT !.neighbors = Append(@, name)], name)
    BY <1>2 DEF Text!LldpLine
  <1> DEFINE s == [st EXCEPT !.neighbors = Append(@, name)]
  <1>7. name \in SystemNames /\ (name = "" <=> line.val = {}) /\ (name # "" => name \in line.val)
    BY <1>3, <1>6 DEF SystemNames
  <1>8. /\ s \in [neighbors : Seq(SystemNames), chassis : SystemNames, single : BOOLEAN]
        /\ s.chassis = st.chassis /\ s.single = st.single
    <2>1. st \in [neighbors : Seq(SystemNames), chassis : SystemNames, single : BOOLEAN]
      BY <1>14 DEF HintState
    <2>2. PICK ms \in Seq(SystemNames) : ms = Append(st.neighbors, name)
      <3>1. \A A, B : \A r \in [neighbors : A, chassis : B, single : BOOLEAN] : r.neighbors \in A
        OBVIOUS
      <3> QED BY <1>7, <2>1, <3>1, AppendOne, Zenon
    <2>3. s = [st EXCEPT !.neighbors = ms]
      BY <2>2, Zenon DEF s
    <2> QED BY <2>1, <2>3, NeighborsSet, Zenon
  <1> HIDE DEF s
  <1>9. CASE name = ""
    <2>1. st' = s /\ Chassis' = Chassis
      BY <1>5, <1>6, <1>7, <1>9 DEF Text!Seen, s
    <2> QED BY <1>4, <1>8, <2>1 DEF HintInv, HintLines, HintState, NeighbourLines, SystemNames
  <1>10. CASE name # "" /\ ~st.single
    <2>1. st' = s /\ Chassis \subseteq Chassis'
      BY <1>5, <1>6, <1>8, <1>10 DEF Text!Seen, s
    <2>2. \E c, d \in Chassis' : \E a \in c, b \in d : a # b
      BY <1>10, <2>1 DEF HintInv
    <2> QED BY <1>4, <1>8, <1>10, <2>1, <2>2 DEF HintInv, HintLines, HintState
  <1>11. CASE name # "" /\ st.single /\ st.chassis = ""
    <2>1. st' = [s EXCEPT !.chassis = name]
      BY <1>6, <1>8, <1>11 DEF Text!Seen, s
    <2>2. /\ st' \in [neighbors : Seq(SystemNames), chassis : SystemNames, single : BOOLEAN]
          /\ st'.chassis = name /\ st'.single
      BY <1>7, <1>8, <1>11, <2>1
    <2>3. Chassis' = {line.val}
      BY <1>5, <1>7, <1>11 DEF HintInv
    <2> QED BY <1>4, <1>7, <1>11, <2>2, <2>3 DEF HintInv, HintLines, HintState
  <1>12. CASE name # "" /\ st.single /\ st.chassis = name
    <2>1. st' = s
      BY <1>6, <1>8, <1>12 DEF Text!Seen, s
    <2>2. Chassis' # {} /\ \A c \in Chassis' : name \in c
      BY <1>5, <1>7, <1>12 DEF HintInv
    <2> QED BY <1>4, <1>8, <1>12, <2>1, <2>2 DEF HintInv, HintLines, HintState
  <1>13. CASE name # "" /\ st.single /\ st.chassis # "" /\ st.chassis # name
    <2>1. st' = [s EXCEPT !.single = FALSE]
      BY <1>6, <1>8, <1>13 DEF Text!Seen, s
    <2>2. /\ st' \in [neighbors : Seq(SystemNames), chassis : SystemNames, single : BOOLEAN]
          /\ ~st'.single
      BY <1>8, <2>1
    <2>3. PICK c \in Chassis : st.chassis \in c
      BY <1>13 DEF HintInv
    <2>4. c \in Chassis' /\ line.val \in Chassis' /\ name \in line.val
      BY <1>5, <1>7, <1>13, <2>3
    <2>5. \E x, y \in Chassis' : \E a \in x, b \in y : a # b
      BY <1>13, <2>3, <2>4
    <2> QED BY <1>4, <2>2, <2>5 DEF HintInv, HintLines, HintState
  <1> QED BY <1>9, <1>10, <1>11, <1>12, <1>13

\* Whatever neighbours there are, in whatever order and under whatever keys: where
\* one has a system name, a failure domain is given exactly if the host is on no
\* other switch, and it is that name (LLDPCollector.Collect).
THEOREM HintsAreTheOneSwitch == FairSpec => []HintIsTheOneSwitch
  <1> DEFINE Inv == routine = "lldpctl" => HintInv
  <1>1. Init => Inv
    <2> SUFFICES ASSUME Init, routine = "lldpctl"
                 PROVE  HintInv
      OBVIOUS
    <2>1. Text!Init
      BY AloneNotFed, ToolsNotDecoders DEF Init, Alone, Decoders, Lists!Init, TextTools, Text!Starts
    <2>2. world = <<>> /\ st = Text!LldpStart
      BY <2>1 DEF Text!Init, Text!Starts
    <2>5. "" \in SystemNames /\ <<>> \in Seq(SystemNames)
      BY DEF SystemNames
    <2>3. st \in [neighbors : Seq(SystemNames), chassis : SystemNames, single : BOOLEAN]
          /\ st.single /\ st.chassis = ""
      BY <2>2, <2>5 DEF Text!LldpStart
    <2>7. world \in Seq(NeighbourLines)
      BY <2>2
    <2>6. HintLines /\ HintState
      BY <2>3, <2>7, Zenon DEF HintLines, HintState
    <2>4. Chassis = {}
      BY <2>2 DEF Chassis
    <2> QED BY <2>3, <2>4, <2>6 DEF HintInv
  <1>2. Inv /\ [Next]_vars => Inv'
    <2> SUFFICES ASSUME Inv, [Next]_vars, routine' = "lldpctl"
                 PROVE  HintInv'
      OBVIOUS
    <2>1. CASE Next
      BY <2>1, HintStep DEF Next
    <2>2. CASE UNCHANGED vars
      <3>1. HintLines' = HintLines /\ HintState' = HintState /\ Chassis' = Chassis /\ st' = st
        BY <2>2 DEF vars, HintLines, HintState, Chassis
      <3> QED BY <2>2, <3>1 DEF vars, HintInv
    <2> QED BY <2>1, <2>2
  <1>3. Inv => HintIsTheOneSwitch
    <2> SUFFICES ASSUME routine = "lldpctl", HintInv
                 PROVE  Text!HintIsTheOneSwitch
      BY DEF HintIsTheOneSwitch, Text!HintIsTheOneSwitch
    <2>4. HintLines
      BY Zenon DEF HintInv
    <2> DEFINE domain == Text!FailureDomain(st)
               chassis == {j \in DOMAIN world : world[j].val # {}}
               named == {j \in chassis : world[j].val = {world[j].switch}}
               switches == {world[j].switch : j \in chassis}
    <2>1. domain = IF st.single THEN st.chassis ELSE ""
      BY DEF Text!FailureDomain
    <2> HIDE DEF domain
    <2>2. domain # "" => \A c \in Chassis : domain \in c
      BY <2>1 DEF HintInv
    <2>3. ASSUME Chassis = {}
          PROVE  domain = ""
      BY <2>1, <2>3 DEF HintInv
    <2>5. \A j \in chassis : world[j].val \in Chassis
      BY DEF Chassis
    <2>6. \A j \in DOMAIN world : world[j] \in NeighbourLines
      BY <2>4 DEF HintLines
    <2>7. ASSUME NEW i \in named
          PROVE  domain = IF switches = {world[i].switch} THEN world[i].switch ELSE ""
      <3>1. PICK s : s = world[i].switch
        OBVIOUS
      <3>2. world[i].val = {s} /\ world[i] \in NeighbourLines /\ {s} \in Chassis
        BY <2>5, <2>6, <2>7, <3>1
      <3>3. \A j \in chassis : \/ world[j].val = {world[j].switch}
                              \/ (s \notin world[j].val /\ s # world[j].switch)
        <4> SUFFICES ASSUME NEW j \in chassis, world[j].val # {world[j].switch}
                     PROVE  s \notin world[j].val /\ s # world[j].switch
          OBVIOUS
        <4>1. world[j] \in NeighbourLines /\ world[j].val # {}
          BY <2>6
        <4> QED BY <3>1, <3>2, <4>1, LldpAssumption DEF NeighbourLines
      <3>4. CASE switches = {s}
        <4>1. \A j \in chassis : world[j].switch = s
          BY <3>4
        <4>2. \A j \in chassis : world[j].val = {s}
          BY <3>3, <4>1
        <4>3. \A c \in Chassis : c = {s}
          BY <4>2 DEF Chassis
        <4>4. domain # ""
          BY <2>1, <3>2, <4>3 DEF HintInv
        <4>5. domain = s
          BY <2>2, <3>2, <4>4
        <4> QED BY <3>1, <3>4, <4>5
      <3>5. CASE switches # {s}
        <4>1. PICK j \in chassis : world[j].switch # s
          BY <2>7, <3>1, <3>5
        <4>2. s \notin world[j].val
          BY <3>3, <4>1
        <4>3. domain = ""
          BY <2>2, <2>5, <3>2, <4>2
        <4> QED BY <3>1, <3>5, <4>3
      <3> QED BY <3>1, <3>4, <3>5
    <2>8. chassis = {} => Chassis = {}
      BY DEF Chassis
    <2> QED BY <2>3, <2>7, <2>8 DEF Text!HintIsTheOneSwitch, domain
  <1> QED BY <1>1, <1>2, <1>3, PTL DEF FairSpec

-----------------------------------------------------------------------------
(* Text parsers: the ring sizes of ethtool -g *)

RingLines == UNION {ToolLines("ethtool_g", n) : n \in 1 .. MaxLines}
RingValues == {Text!NotAvailable} \cup {Text!atoiOrZero(l.val) : l \in RingLines}
Sections == {"max", "current"}

\* The section line i stands in.
SectionAt(i) ==
    LET h == Text!LastIn(Sections, 1, i) IN IF h = 0 THEN "max" ELSE world[h].key

Mine(section, k) ==
    {i \in Text!Positions({k}) : world[i].val # Text!NotAvailable /\ section = SectionAt(i)}

Given(positions) ==
    IF positions = {} THEN Text!NotANumber ELSE world[Text!Max(positions)].val

RingState ==
    st \in [target : Sections, max : [Text!RingKeys -> RingValues],
            current : [Text!RingKeys -> RingValues]]

Stored(positions) ==
    IF positions = {} THEN Text!NotAvailable ELSE Text!atoiOrZero(Given(positions))

\* The section the parser is in is that of the last line, and what it has read
\* in each section was given there.
RingsInv ==
    /\ world \in Seq(RingLines)
    /\ RingState
    /\ st.target = SectionAt(Len(world))
    /\ \A section \in Sections, k \in Text!RingKeys : st[section][k] = Stored(Mine(section, k))

\* What some positions give is what they gave before the last line, or is
\* given by that line.
LEMMA GivenStays ==
    ASSUME NEW L \in Nat, NEW line, Grows(L, line), NEW P \in SUBSET (1 .. L)
    PROVE  /\ Given(P)' = Given(P)
           /\ Given(P \cup {L + 1})' = line.val
  <1>1. P # {} => Text!Max(P) \in 1 .. L
    <2>1. P \in SUBSET (0 .. L)
      OBVIOUS
    <2>2. P # {} => Text!Max(P) \in P
      BY <2>1, GreatestPosition
    <2> QED BY <2>2
  <1>2. Text!Max(P \cup {L + 1}) = L + 1
    <2>1. L + 1 \in P \cup {L + 1} /\ P \cup {L + 1} \in SUBSET Int
          /\ \A x \in P \cup {L + 1} : x <= L + 1
      OBVIOUS
    <2> QED BY <2>1, GreatestOfText
  <1>3. /\ Text!Max(P)' = Text!Max(P) /\ Text!Max(P \cup {L + 1})' = Text!Max(P \cup {L + 1})
        /\ Text!NotANumber' = Text!NotANumber
    BY DEF Text!Max, Text!NotANumber
  <1>4. Given(P)' = IF P = {} THEN Text!NotANumber ELSE world'[Text!Max(P)].val
    BY <1>3 DEF Given
  <1>5. Given(P \cup {L + 1})' = world'[L + 1].val
    BY <1>2, <1>3 DEF Given
  <1> QED BY <1>1, <1>4, <1>5 DEF Grows, Given

LEMMA SectionMoves ==
    ASSUME NEW L \in Nat, NEW line, Grows(L, line)
    PROVE  /\ \A i \in 0 .. L : SectionAt(i)' = SectionAt(i)
           /\ SectionAt(L + 1)' = IF line.key \in Sections THEN line.key ELSE SectionAt(L)
           /\ \A i \in 0 .. L : SectionAt(i) \in Sections
  <1>1. \A i \in 0 .. L : SectionAt(i)' = SectionAt(i) /\ SectionAt(i) \in Sections
    <2> SUFFICES ASSUME NEW i \in 0 .. L
                 PROVE  SectionAt(i)' = SectionAt(i) /\ SectionAt(i) \in Sections
      OBVIOUS
    <2>1. PICK h \in 0 .. i : /\ h = Text!LastIn(Sections, 1, i) /\ h = Text!LastIn(Sections, 1, i)'
                              /\ h # 0 => world[h].key \in Sections
      BY LastStays
    <2>2. SectionAt(i) = IF h = 0 THEN "max" ELSE world[h].key
      BY <2>1 DEF SectionAt
    <2>3. SectionAt(i)' = IF h = 0 THEN "max" ELSE world'[h].key
      BY <2>1 DEF SectionAt, Sections
    <2>4. h # 0 => world'[h] = world[h]
      BY DEF Grows
    <2> QED BY <2>1, <2>2, <2>3, <2>4 DEF Sections
  <1>2. SectionAt(L + 1)' = IF line.key \in Sections THEN line.key ELSE SectionAt(L)
    <2>1. PICK h \in 0 .. L : h = Text!LastIn(Sections, 1, L)
      BY LastStays
    <2>2. Text!LastIn(Sections, 1, L + 1)' = IF line.key \in Sections THEN L + 1 ELSE h
      BY <2>1, LastMoves
    <2>3. SectionAt(L + 1)' = IF line.key \in Sections THEN world'[L + 1].key
                              ELSE IF h = 0 THEN "max" ELSE world'[h].key
      BY <2>2 DEF SectionAt, Sections
    <2>4. h # 0 => world'[h] = world[h]
      BY DEF Grows
    <2> QED BY <2>1, <2>3, <2>4 DEF SectionAt, Grows
  <1> QED BY <1>1, <1>2

LEMMA RingsStep ==
    ASSUME routine = "ethtool_g", RingsInv, Next
    PROVE  RingsInv'
  <1>1. PICK L \in Nat, line \in RingLines :
           Grows(L, line) /\ Text!Parse(line) /\ world' \in Seq(RingLines)
    <2>1. world \in Seq(RingLines)
      BY Zenon DEF RingsInv
    <2>2. \A n \in 1 .. MaxLines : ToolLines(routine, n) \subseteq RingLines
      BY DEF RingLines
    <2>3. routine \in TextTools
      BY DEF TextTools, Text!Starts
    <2> QED BY <2>1, <2>2, <2>3, OneMoreLine, Zenon
  <1>2. st' = Text!RingsLine(st, line)
    BY <1>1 DEF Text!Parse
  <1>3. RingState /\ st.target = SectionAt(L)
    BY <1>1, Zenon DEF RingsInv, Grows
  <1>4. \A section \in Sections, k \in Text!RingKeys :
           Mine(section, k) \in SUBSET (1 .. L) /\ st[section][k] = Stored(Mine(section, k))
    <2>1. \A section \in Sections, k \in Text!RingKeys : st[section][k] = Stored(Mine(section, k))
      BY Zenon DEF RingsInv
    <2>2. \A section, k : Mine(section, k) \in SUBSET (1 .. L)
      BY <1>1 DEF Mine, Grows, Text!Positions
    <2> QED BY <2>1, <2>2
  <1>5. ASSUME NEW section \in Sections, NEW k \in Text!RingKeys
        PROVE  Mine(section, k)' =
                  IF line.key = k /\ line.val # Text!NotAvailable /\ section = st.target
                  THEN Mine(section, k) \cup {L + 1} ELSE Mine(section, k)
    <2>1. k \notin Sections
      BY DEF Sections, Text!RingKeys
    <2>2. line.key = k => SectionAt(L + 1)' = st.target
      BY <1>1, <1>3, <2>1, SectionMoves
    <2>3. \A i \in 1 .. L : i \in Mine(section, k)' <=> i \in Mine(section, k)
      BY <1>1, SectionMoves DEF Mine, Grows, Text!Positions, Text!NotAvailable
    <2>4. L + 1 \in Mine(section, k)' <=>
             line.key = k /\ line.val # Text!NotAvailable /\ section = st.target
      BY <1>1, <2>2 DEF Mine, Grows, Text!Positions, Text!NotAvailable
    <2>5. Mine(section, k)' \in SUBSET (1 .. L + 1) /\ Mine(section, k) \in SUBSET (1 .. L)
      BY <1>1 DEF Mine, Grows, Text!Positions
    <2>6. 1 .. L + 1 = (1 .. L) \cup {L + 1} /\ L + 1 \notin 1 .. L
      OBVIOUS
    <2> QED BY <2>3, <2>4, <2>5, <2>6
  <1>6. ASSUME NEW section \in Sections, NEW k \in Text!RingKeys
        PROVE  Stored(Mine(section, k))' =
                  IF line.key = k /\ line.val # Text!NotAvailable /\ section = st.target
                  THEN Text!atoiOrZero(line.val) ELSE st[section][k]
    <2>1. PICK P \in SUBSET (1 .. L) : P = Mine(section, k)
      BY <1>4
    <2>2. /\ Stored(P)' = st[section][k]
          /\ Stored(P \cup {L + 1})' = Text!atoiOrZero(line.val)
      <3>1. Given(P)' = Given(P) /\ Given(P \cup {L + 1})' = line.val
        BY <1>1, <2>1, GivenStays
      <3>2. Stored(P) = st[section][k]
        BY <1>4, <2>1
      <3> QED BY <3>1, <3>2 DEF Stored, Text!atoiOrZero, Text!NotANumber, Text!NotAvailable
    <2>3. PICK Q : Q = Mine(section, k)'
      OBVIOUS
    <2>4. Stored(Mine(section, k))' = Stored(Q)'
      BY <2>3 DEF Stored, Given, Text!atoiOrZero, Text!NotANumber, Text!NotAvailable
    <2> QED BY <1>5, <2>1, <2>2, <2>3, <2>4
  <1> DEFINE read == line.key \in Text!RingKeys /\ line.val # Text!NotAvailable
  <1>7. /\ RingState'
        /\ st'.target = SectionAt(L + 1)'
        /\ \A section \in Sections, k \in Text!RingKeys :
              st'[section][k] = IF line.key = k /\ line.val # Text!NotAvailable /\ section = st.target
                                THEN Text!atoiOrZero(line.val) ELSE st[section][k]
    <2>1. PICK val \in RingValues : val = Text!atoiOrZero(line.val)
      BY <1>1 DEF RingValues
    <2>5. RingValues' = RingValues
      BY DEF RingValues, Text!NotAvailable, Text!atoiOrZero, Text!NotANumber
    <2>2. CASE line.key \in Sections
      <3>1. st' = [st EXCEPT !.target = line.key]
        BY <1>2, <2>2 DEF Text!RingsLine, Sections, Text!RingKeys
      <3>2. line.key \notin Text!RingKeys
        BY <2>2 DEF Sections, Text!RingKeys
      <3>3. RingState' /\ st'.target = line.key /\ st'.max = st.max /\ st'.current = st.current
        BY <1>3, <2>2, <2>5, <3>1 DEF RingState, Sections, Text!RingKeys
      <3> QED BY <1>1, <2>2, <3>2, <3>3, SectionMoves DEF Sections
    <2>3. CASE read
      <3>1. line.key \notin Sections
        BY <2>3 DEF Sections, Text!RingKeys
      <3>2. st' = [st EXCEPT ![st.target][line.key] = val]
        BY <1>2, <2>1, <2>3, <3>1 DEF Text!RingsLine, Sections
      <3>3. CASE st.target = "max"
        <4>1. /\ RingState' /\ st'.target = st.target /\ st'.current = st.current
              /\ \A k \in Text!RingKeys : st'.max[k] = IF k = line.key THEN val ELSE st.max[k]
          BY <1>3, <2>3, <2>5, <3>2, <3>3 DEF RingState, Sections, Text!RingKeys
        <4> QED BY <1>1, <1>3, <2>1, <2>3, <3>1, <3>3, <4>1, SectionMoves DEF Sections
      <3>4. CASE st.target = "current"
        <4>1. /\ RingState' /\ st'.target = st.target /\ st'.max = st.max
              /\ \A k \in Text!RingKeys :
                    st'.current[k] = IF k = line.key THEN val ELSE st.current[k]
          BY <1>3, <2>3, <2>5, <3>2, <3>4 DEF RingState, Sections, Text!RingKeys
        <4> QED BY <1>1, <1>3, <2>1, <2>3, <3>1, <3>4, <4>1, SectionMoves DEF Sections
      <3> QED BY <1>3, <3>3, <3>4 DEF RingState, Sections
    <2>4. CASE line.key \notin Sections /\ ~read
      <3>1. st' = st
        BY <1>2, <2>4 DEF Text!RingsLine, Sections
      <3>2. RingState'
        BY <1>3, <2>5, <3>1 DEF RingState, Sections, Text!RingKeys
      <3> QED BY <1>1, <1>3, <2>4, <3>1, <3>2, SectionMoves
    <2> QED BY <2>2, <2>3, <2>4
  <1>8. \A section \in Sections, k \in Text!RingKeys : st'[section][k] = Stored(Mine(section, k))'
    BY <1>6, <1>7
  <1>9. Len(world') = L + 1
    BY <1>1 DEF Grows
  <1>10. /\ st'.target = SectionAt(Len(world))'
         /\ world' \in Seq(RingLines)'
    BY <1>1, <1>7, <1>9 DEF SectionAt, Sections, RingLines
  <1> QED BY <1>7, <1>8, <1>10 DEF RingsInv, Sections, Text!RingKeys

-----------------------------------------------------------------------------
(* Text parsers: the capabilities and the clock of ethtool -T *)

\* What the lines at some positions say in a field, in order.
Told(positions, field) ==
    [k \in DOMAIN Text!InOrder(positions) |-> world[Text!InOrder(positions)[k]][field]]

LEMMA LongerByOne ==
    ASSUME NEW S, NEW seq \in Seq(S), NEW x \in S, NEW other \in Seq(S),
           NEW n \in Nat, Len(seq) = n, Len(other) = n + 1,
           \A k \in 1 .. n : other[k] = seq[k], other[n + 1] = x
    PROVE  other = Append(seq, x)
  <1>2. PICK longer : longer = Append(seq, x)
    OBVIOUS
  <1>3. /\ longer = [k \in 1 .. n + 1 |-> longer[k]]
        /\ \A k \in 1 .. n : longer[k] = seq[k]
        /\ longer[n + 1] = x
    <2>1. /\ longer \in Seq(S) /\ Len(longer) = n + 1
          /\ \A k \in 1 .. n : longer[k] = seq[k]
          /\ longer[n + 1] = x
      BY <1>2, AppendOne
    <2>2. longer = [k \in 1 .. n + 1 |-> longer[k]]
      BY <2>1
    <2> QED BY <2>1, <2>2
  <1>4. \A k \in 1 .. n + 1 : k \in 1 .. n \/ k = n + 1
    OBVIOUS
  <1>5. \A k \in 1 .. n + 1 : other[k] = longer[k]
    BY <1>3, <1>4
  <1>6. other = [k \in 1 .. n + 1 |-> other[k]]
    OBVIOUS
  <1> QED BY <1>2, <1>3, <1>5, <1>6

\* Lines already there say what they said, and the new one comes last.
LEMMA ToldGrows ==
    ASSUME NEW L \in Nat, NEW line, Grows(L, line), NEW P \in SUBSET (1 .. L), NEW field
    PROVE  /\ Told(P, field)' = Told(P, field)
           /\ Told(P \cup {L + 1}, field)' = Append(Told(P, field), line[field])
  <1> DEFINE S == {world[i][field] : i \in 1 .. L} \cup {line[field]}
  <1> HIDE DEF S
  <1>1. /\ P \in SUBSET Nat /\ IsFiniteSet(P) /\ L + 1 \in Nat /\ \A p \in P : p < L + 1
        /\ P \cup {L + 1} \in SUBSET Nat
    <2>1. IsFiniteSet(1 .. L)
      BY FS_Interval
    <2>2. IsFiniteSet(P)
      BY <2>1, FS_Subset
    <2> QED BY <2>2
  <1>2. PICK n \in Nat : n = Cardinality(P)
    BY <1>1, FS_CardinalityType
  <1>3. PICK order : /\ order = Text!InOrder(P) /\ DOMAIN order = 1 .. n
                     /\ \A k \in 1 .. n : order[k] \in P
    BY <1>1, <1>2, PlacesOf
  <1>4. PICK longer : /\ longer = Text!InOrder(P \cup {L + 1}) /\ DOMAIN longer = 1 .. n + 1
                      /\ \A k \in 1 .. n : longer[k] = order[k]
                      /\ longer[n + 1] = L + 1
    <2>1. /\ IsFiniteSet(P \cup {L + 1}) /\ Cardinality(P \cup {L + 1}) = n + 1
          /\ \A k \in 1 .. n : Text!InOrder(P \cup {L + 1})[k] = order[k]
          /\ Text!InOrder(P \cup {L + 1})[n + 1] = L + 1
      BY <1>1, <1>2, <1>3, OneMorePlace
    <2>2. DOMAIN Text!InOrder(P \cup {L + 1}) = 1 .. n + 1
      BY <1>1, <2>1, PlacesOf
    <2> QED BY <2>1, <2>2
  <1>5. /\ Text!InOrder(P)' = order /\ Text!InOrder(P \cup {L + 1})' = longer
    BY <1>3, <1>4 DEF Text!InOrder, Text!Place, Text!Cardinality
  <1>6. /\ Told(P, field) = [k \in 1 .. n |-> world[order[k]][field]]
        /\ Told(P, field)' = [k \in 1 .. n |-> world'[order[k]][field]]
        /\ Told(P \cup {L + 1}, field)' = [k \in 1 .. n + 1 |-> world'[longer[k]][field]]
    BY <1>3, <1>4, <1>5 DEF Told
  <1>7. \A k \in 1 .. n : /\ world'[order[k]] = world[order[k]]
                           /\ world'[longer[k]] = world[order[k]]
                           /\ world[order[k]][field] \in S
    BY <1>3, <1>4 DEF Grows, S
  <1>8. world'[longer[n + 1]] = line
    BY <1>4 DEF Grows
  <1>9. line[field] \in S
    BY DEF S
  <1>10. Told(P, field) \in Seq(S) /\ Len(Told(P, field)) = n
    BY <1>6, <1>7
  <1>11. Told(P, field)' = Told(P, field)
    BY <1>6, <1>7
  <1>12. PICK other : other = Told(P \cup {L + 1}, field)'
    OBVIOUS
  <1>13. /\ other = [k \in 1 .. n + 1 |-> other[k]]
         /\ \A k \in 1 .. n : other[k] = Told(P, field)[k]
         /\ other[n + 1] = line[field]
    <2>1. other = [k \in 1 .. n + 1 |-> world'[longer[k]][field]]
      BY <1>6, <1>12, Zenon
    <2>2. \A k \in 1 .. n + 1 : other[k] = world'[longer[k]][field]
      BY <2>1
    <2>3. DOMAIN other = 1 .. n + 1 /\ other = [k \in DOMAIN other |-> other[k]]
      BY <2>1
    <2>4. \A k \in 1 .. n : Told(P, field)[k] = world[order[k]][field]
      BY <1>6
    <2>5. \A k \in 1 .. n : k \in 1 .. n + 1
      OBVIOUS
    <2>6. n + 1 \in 1 .. n + 1
      OBVIOUS
    <2> QED BY <1>7, <1>8, <2>2, <2>3, <2>4, <2>5, <2>6
  <1>14. other = Append(Told(P, field), line[field])
    <2>1. \A k \in 1 .. n + 1 : other[k] \in S
      <3>1. \A k \in 1 .. n + 1 : k \in 1 .. n \/ k = n + 1
        OBVIOUS
      <3>2. \A k \in 1 .. n : Told(P, field)[k] \in S
        BY <1>10
      <3> QED BY <1>9, <1>13, <3>1, <3>2, Zenon
    <2>2. other \in Seq(S) /\ Len(other) = n + 1
      BY <1>13, <2>1
    <2>3. (\A k \in 1 .. n : other[k] = Told(P, field)[k]) /\ other[n + 1] = line[field]
      BY <1>13
    <2>4. PICK T : T = S
      OBVIOUS
    <2>5. PICK told \in Seq(T), x \in T : told = Told(P, field) /\ x = line[field]
      BY <1>9, <1>10, <2>4
    <2>6. /\ other \in Seq(T) /\ Len(other) = n + 1 /\ Len(told) = n
          /\ (\A k \in 1 .. n : other[k] = told[k]) /\ other[n + 1] = x
      BY <1>10, <2>2, <2>3, <2>4, <2>5
    <2>7. other = Append(told, x)
      BY <2>5, <2>6, LongerByOne
    <2> QED BY <2>5, <2>7
  <1> QED BY <1>11, <1>12, <1>14

\* The positions of some lines are those before, with the new one or without.
LEMMA WithOrWithout ==
    ASSUME NEW L \in Nat, NEW P \in SUBSET (1 .. L), NEW Q \in SUBSET (1 .. L + 1),
           \A i \in 1 .. L : i \in Q <=> i \in P
    PROVE  Q = IF L + 1 \in Q THEN P \cup {L + 1} ELSE P
  <1>1. \A i \in 1 .. L + 1 : i \in 1 .. L \/ i = L + 1
    OBVIOUS
  <1>2. CASE L + 1 \in Q
    <2>1. \A i : i \in Q <=> i \in P \/ i = L + 1
      BY <1>1, <1>2
    <2> QED BY <1>2, <2>1
  <1>3. CASE L + 1 \notin Q
    <2>1. \A i : i \in Q <=> i \in P
      BY <1>1, <1>3
    <2> QED BY <1>3, <2>1
  <1> QED BY <1>2, <1>3

StampLines == UNION {ToolLines("ethtool_T", n) : n \in 1 .. MaxLines}
StampHeaders == {"Capabilities", "clock", "section"}

\* Line i stands under Capabilities.
InCaps(i) ==
    LET h == Text!LastIn(StampHeaders, 1, i) IN h > 0 /\ world[h].key = "Capabilities"

Capable == {i \in Text!Positions({"line"}) : InCaps(i)}
Clocks == {i \in Text!Positions({"clock"}) : world[i].val # Text!NotANumber}

StampState ==
    st \in [caps : Seq({l.val : l \in StampLines}), inCaps : BOOLEAN, phcIndex : Nat \cup {-1}]

\* inCaps tells whose section it is, caps what stood in that of the
\* capabilities, and the clock is the last one that was a number.
StampsInv ==
    /\ world \in Seq(StampLines)
    /\ StampState
    /\ st.inCaps <=> InCaps(Len(world))
    /\ st.caps = Told(Capable, "val")
    /\ st.phcIndex = Given(Clocks)

LEMMA UnderMoves ==
    ASSUME NEW L \in Nat, NEW line, Grows(L, line)
    PROVE  /\ \A i \in 0 .. L : InCaps(i)' <=> InCaps(i)
           /\ InCaps(L + 1)' <=> IF line.key \in StampHeaders THEN line.key = "Capabilities"
                                 ELSE InCaps(L)
  <1>1. \A i \in 0 .. L : InCaps(i)' <=> InCaps(i)
    <2> SUFFICES ASSUME NEW i \in 0 .. L
                 PROVE  InCaps(i)' <=> InCaps(i)
      OBVIOUS
    <2>1. PICK h \in 0 .. i : /\ h = Text!LastIn(StampHeaders, 1, i)
                              /\ h = Text!LastIn(StampHeaders, 1, i)'
      BY LastStays
    <2>2. InCaps(i) <=> h > 0 /\ world[h].key = "Capabilities"
      BY <2>1 DEF InCaps
    <2>3. InCaps(i)' <=> h > 0 /\ world'[h].key = "Capabilities"
      BY <2>1 DEF InCaps, StampHeaders
    <2>4. h > 0 => world'[h] = world[h]
      BY DEF Grows
    <2> QED BY <2>2, <2>3, <2>4
  <1>2. InCaps(L + 1)' <=> IF line.key \in StampHeaders THEN line.key = "Capabilities"
                          ELSE InCaps(L)
    <2>1. PICK h \in 0 .. L : h = Text!LastIn(StampHeaders, 1, L)
      BY LastStays
    <2>2. PICK g : g = Text!LastIn(StampHeaders, 1, L + 1)'
                   /\ g = IF line.key \in StampHeaders THEN L + 1 ELSE h
      BY <2>1, LastMoves
    <2>3. InCaps(L + 1)' <=> g > 0 /\ world'[g].key = "Capabilities"
      BY <2>2 DEF InCaps, StampHeaders
    <2>4. InCaps(L) <=> h > 0 /\ world[h].key = "Capabilities"
      BY <2>1 DEF InCaps
    <2>5. (h > 0 => world'[h] = world[h]) /\ world'[L + 1] = line
      BY DEF Grows
    <2> QED BY <2>2, <2>3, <2>4, <2>5
  <1> QED BY <1>1, <1>2

LEMMA StampsStep ==
    ASSUME routine = "ethtool_T", StampsInv, Next
    PROVE  StampsInv'
  <1>1. PICK L \in Nat, line \in StampLines :
           Grows(L, line) /\ Text!Parse(line) /\ world' \in Seq(StampLines)
    <2>1. world \in Seq(StampLines)
      BY Zenon DEF StampsInv
    <2>2. \A n \in 1 .. MaxLines : ToolLines(routine, n) \subseteq StampLines
      BY DEF StampLines
    <2>3. routine \in TextTools
      BY DEF TextTools, Text!Starts
    <2> QED BY <2>1, <2>2, <2>3, OneMoreLine, Zenon
  <1>2. st' = Text!StampsLine(st, line)
    BY <1>1 DEF Text!Parse
  <1>3. /\ StampState /\ (st.inCaps <=> InCaps(L))
        /\ st.caps = Told(Capable, "val") /\ st.phcIndex = Given(Clocks)
    BY <1>1, Zenon DEF StampsInv, Grows
  <1>4. /\ line.key \in StampHeaders \cup {"line"}
        /\ line.key = "clock" => line.val \in Nat \cup {-1}
        /\ line.val \in {l.val : l \in StampLines}
    <2>1. PICK n \in 1 .. MaxLines : line \in ToolLines("ethtool_T", n)
      BY DEF StampLines
    <2> QED BY <2>1, StampsAssumption DEF StampHeaders
  <1>5. PICK C \in SUBSET (1 .. L), D \in SUBSET (1 .. L) : C = Capable /\ D = Clocks
    BY <1>1 DEF Capable, Clocks, Grows, Text!Positions
  <1>6. PICK X, Y : X = Capable' /\ Y = Clocks'
    OBVIOUS
  <1>7. X = IF line.key = "line" /\ st.inCaps THEN C \cup {L + 1} ELSE C
    <2>1. \A i \in 1 .. L : i \in X <=> i \in C
      BY <1>1, <1>5, <1>6, UnderMoves DEF Capable, Grows, Text!Positions
    <2>2. L + 1 \in X <=> line.key = "line" /\ st.inCaps
      BY <1>1, <1>3, <1>6, UnderMoves DEF Capable, Grows, Text!Positions, StampHeaders
    <2>3. X \in SUBSET (1 .. L + 1)
      BY <1>1, <1>6 DEF Capable, Grows, Text!Positions
    <2> QED BY <1>5, <2>1, <2>2, <2>3, WithOrWithout
  <1>8. Y = IF line.key = "clock" /\ line.val # -1 THEN D \cup {L + 1} ELSE D
    <2>1. \A i \in 1 .. L : i \in Y <=> i \in D
      BY <1>1, <1>5, <1>6 DEF Clocks, Grows, Text!Positions, Text!NotANumber
    <2>2. L + 1 \in Y <=> line.key = "clock" /\ line.val # -1
      BY <1>1, <1>6 DEF Clocks, Grows, Text!Positions, Text!NotANumber
    <2>3. Y \in SUBSET (1 .. L + 1)
      BY <1>1, <1>6 DEF Clocks, Grows, Text!Positions
    <2> QED BY <1>5, <2>1, <2>2, <2>3, WithOrWithout
  <1>9. Told(Capable, "val")' =
           IF line.key = "line" /\ st.inCaps THEN Append(st.caps, line.val) ELSE st.caps
    <2>3. /\ Told(C, "val")' = Told(C, "val")
          /\ Told(C \cup {L + 1}, "val")' = Append(Told(C, "val"), line["val"])
      BY <1>1, <1>5, ToldGrows
    <2>5. Told(C, "val") = st.caps
      BY <1>3, <1>5, Zenon
    <2>4. Told(Capable, "val")' = Told(X, "val")'
      BY <1>6 DEF Told
    <2> QED BY <1>7, <2>3, <2>4, <2>5
  <1>10. Given(Clocks)' = IF line.key = "clock" /\ line.val # -1 THEN line.val ELSE st.phcIndex
    <2>1. Given(D)' = st.phcIndex /\ Given(D \cup {L + 1})' = line.val
      BY <1>1, <1>3, <1>5, GivenStays
    <2>2. Given(Clocks)' = Given(Y)'
      BY <1>6 DEF Given, Text!NotANumber
    <2> QED BY <1>8, <2>1, <2>2
  <1>11. /\ StampState'
         /\ st'.inCaps <=> IF line.key \in StampHeaders THEN line.key = "Capabilities"
                           ELSE st.inCaps
         /\ st'.caps = IF line.key = "line" /\ st.inCaps THEN Append(st.caps, line.val)
                       ELSE st.caps
         /\ st'.phcIndex = IF line.key = "clock" /\ line.val # -1 THEN line.val ELSE st.phcIndex
    <2> DEFINE V == {l.val : l \in StampLines}
    <2>1. st \in [caps : Seq(V), inCaps : BOOLEAN, phcIndex : Nat \cup {-1}] /\ line.val \in V
      BY <1>3, <1>4 DEF StampState
    <2>2. V' = V
      OBVIOUS
    <2>3. StampState' <=> st' \in [caps : Seq(V), inCaps : BOOLEAN, phcIndex : Nat \cup {-1}]
      BY <2>2 DEF StampState
    <2>4. Append(st.caps, line.val) \in Seq(V)
      BY <2>1
    <2> HIDE DEF V
    <2>5. CASE line.key = "Capabilities"
      <3>1. st' = [st EXCEPT !.inCaps = TRUE]
        BY <1>2, <2>5 DEF Text!StampsLine
      <3> QED BY <2>1, <2>3, <2>5, <3>1 DEF StampHeaders
    <2>6. CASE line.key = "section"
      <3>1. st' = [st EXCEPT !.inCaps = FALSE]
        BY <1>2, <2>6 DEF Text!StampsLine
      <3> QED BY <2>1, <2>3, <2>6, <3>1 DEF StampHeaders
    <2>7. CASE line.key = "clock"
      <3>1. st' = [st EXCEPT !.inCaps = FALSE,
                             !.phcIndex = IF line.val # -1 THEN line.val ELSE st.phcIndex]
        <4>1. CASE line.val = -1
          BY <1>2, <2>1, <2>7, <4>1 DEF Text!StampsLine, Text!atoiOrZero, Text!NotANumber
        <4>2. CASE line.val \in Nat
          <5>1. (line.val > 0 \/ line.val = 0) /\ line.val # -1
            BY <4>2
          <5> QED BY <1>2, <2>1, <2>7, <4>2, <5>1
                  DEF Text!StampsLine, Text!atoiOrZero, Text!NotANumber
        <4> QED BY <1>4, <2>7, <4>1, <4>2
      <3> QED BY <1>4, <2>1, <2>3, <2>7, <3>1 DEF StampHeaders
    <2>8. CASE line.key = "line"
      <3>1. st' = IF st.inCaps THEN [st EXCEPT !.caps = Append(st.caps, line.val)] ELSE st
        BY <1>2, <2>8 DEF Text!StampsLine
      <3> QED BY <2>1, <2>3, <2>4, <2>8, <3>1 DEF StampHeaders
    <2> QED BY <1>4, <2>5, <2>6, <2>7, <2>8 DEF StampHeaders
  <1>12. st'.inCaps <=> InCaps(L + 1)'
    BY <1>1, <1>3, <1>11, UnderMoves
  <1>13. InCaps(Len(world))' <=> InCaps(L + 1)'
    BY <1>1 DEF InCaps, Grows, StampHeaders
  <1>14. world' \in Seq(StampLines)'
    BY <1>1 DEF StampLines
  <1> QED BY <1>9, <1>10, <1>11, <1>12, <1>13, <1>14 DEF StampsInv

LEMMA TextInit ==
    ASSUME Init, routine \in TextTools
    PROVE  world = <<>> /\ st = Text!Starts[routine]
  <1>1. Text!Init
    BY AloneNotFed, ToolsNotDecoders DEF Init, Alone, Decoders, Lists!Init, TextTools, Text!Starts
  <1> QED BY <1>1 DEF Text!Init

LEMMA NothingTold ==
    ASSUME NEW field
    PROVE  Told({}, field) = <<>>
  <1>1. DOMAIN Text!InOrder({}) = 1 .. 0
    BY FS_EmptySet, PlacesOf
  <1>2. 1 .. 0 = {}
    OBVIOUS
  <1>3. DOMAIN Told({}, field) = {}
    BY <1>1, <1>2 DEF Told
  <1>4. Told({}, field) = [k \in {} |-> world[Text!InOrder({})[k]][field]]
    BY <1>1, <1>2 DEF Told
  <1> QED BY <1>4

EthtoolInv ==
    /\ routine = "ethtool_g" => RingsInv
    /\ routine = "ethtool_T" => StampsInv

(* Each ring setting is that of its own section (a text that is no number  *)
(* stored as zero), the capabilities are the lines under their header, in  *)
(* order, and the clock is the last index printed as a number, however     *)
(* long the output and wherever its headers stand (parseEthtoolMaxCurrent, *)
(* parseEthtoolTimestamping).                                              *)
THEOREM EthtoolReadAsPrinted == FairSpec => []EthtoolAsPrinted
  <1>1. Init => EthtoolInv
    <2>1. ASSUME Init, routine = "ethtool_g"
          PROVE  RingsInv
      <3>1. world = <<>> /\ st = Text!RingsStart
        BY <2>1, TextInit DEF TextTools, Text!Starts
      <3>2. Text!LastIn(Sections, 1, 0) = 0
        <4>1. {j \in Text!Positions(Sections) : 1 <= j /\ j <= 0} \cup {0} = {0}
          BY <3>1 DEF Text!Positions
        <4> QED BY <4>1, GreatestOfText DEF Text!LastIn
      <3>3. SectionAt(Len(world)) = "max"
        BY <3>1, <3>2 DEF SectionAt
      <3>4. \A section, k : Mine(section, k) = {}
        BY <3>1 DEF Mine, Text!Positions
      <3>5. Stored({}) = Text!NotAvailable
        BY DEF Stored
      <3>6. Text!NotAvailable \in RingValues
        BY DEF RingValues
      <3>7. RingState /\ st.target = "max"
            /\ \A section \in Sections, k \in Text!RingKeys : st[section][k] = Text!NotAvailable
        BY <3>1, <3>6 DEF RingState, Sections, Text!RingsStart, Text!RingKeys
      <3>8. world \in Seq(RingLines)
        BY <3>1
      <3> QED BY <3>3, <3>4, <3>5, <3>7, <3>8 DEF RingsInv
    <2>2. ASSUME Init, routine = "ethtool_T"
          PROVE  StampsInv
      <3>1. world = <<>> /\ st = Text!StampsStart
        BY <2>2, TextInit DEF TextTools, Text!Starts
      <3>2. Text!LastIn(StampHeaders, 1, 0) = 0
        <4>1. {j \in Text!Positions(StampHeaders) : 1 <= j /\ j <= 0} \cup {0} = {0}
          BY <3>1 DEF Text!Positions
        <4> QED BY <4>1, GreatestOfText DEF Text!LastIn
      <3>3. ~InCaps(Len(world))
        BY <3>1, <3>2 DEF InCaps
      <3>4. Capable = {} /\ Clocks = {}
        BY <3>1 DEF Capable, Clocks, Text!Positions
      <3>5. Given({}) = -1
        BY DEF Given, Text!NotANumber
      <3>6. StampState /\ ~st.inCaps /\ st.caps = <<>> /\ st.phcIndex = -1
        BY <3>1 DEF StampState, Text!StampsStart
      <3>7. Told(Capable, "val") = <<>>
        BY <3>4, NothingTold, Zenon
      <3>8. world \in Seq(StampLines)
        BY <3>1
      <3>9. Given(Clocks) = -1
        BY <3>4, <3>5
      <3> QED BY <3>3, <3>6, <3>7, <3>8, <3>9 DEF StampsInv
    <2> QED BY <2>1, <2>2 DEF EthtoolInv
  <1>2. EthtoolInv /\ [Next]_vars => EthtoolInv'
    <2>1. CASE Next
      BY <2>1, RingsStep, StampsStep, Zenon DEF EthtoolInv, Next
    <2>2. CASE UNCHANGED vars
      <3>1. world' = world /\ st' = st /\ routine' = routine
        BY <2>2 DEF vars
      <3>2. \A keys, i : /\ Text!Positions(keys)' = Text!Positions(keys)
                         /\ Text!LastIn(keys, 1, i)' = Text!LastIn(keys, 1, i)
        BY <3>1 DEF Text!Positions, Text!LastIn, Text!Max
      <3>3. \A i : SectionAt(i)' = SectionAt(i) /\ InCaps(i)' = InCaps(i)
        BY <3>1, <3>2 DEF SectionAt, InCaps, Sections, StampHeaders
      <3>4. \A P : Given(P)' = Given(P)
        BY <3>1 DEF Given, Text!NotANumber, Text!Max
      <3>5. \A section, k : Mine(section, k)' = Mine(section, k)
        BY <3>1, <3>2, <3>3 DEF Mine, Text!NotAvailable
      <3>6. \A section, k : Stored(Mine(section, k))' = Stored(Mine(section, k))
        <4> SUFFICES ASSUME NEW section, NEW k
                     PROVE  Stored(Mine(section, k))' = Stored(Mine(section, k))
          OBVIOUS
        <4>1. PICK P : P = Mine(section, k)
          OBVIOUS
        <4>2. PICK Q : Q = Mine(section, k)'
          OBVIOUS
        <4>3. P = Q
          BY <3>5, <4>1, <4>2
        <4>4. Stored(Mine(section, k))' = Stored(Q)'
          BY <4>2 DEF Stored, Given, Text!atoiOrZero, Text!NotANumber, Text!NotAvailable, Text!Max
        <4>5. Stored(Mine(section, k)) = Stored(P)
          BY <4>1
        <4>6. Given(P)' = Given(P)
          BY <3>4
        <4>7. Stored(P)' = Stored(P)
          BY <4>6 DEF Stored, Text!atoiOrZero, Text!NotANumber, Text!NotAvailable
        <4> QED BY <4>3, <4>4, <4>5, <4>7
      <3>7. RingsInv' <=> RingsInv
        <4>1. RingState' <=> RingState
          BY <3>1 DEF RingState, RingValues, Text!atoiOrZero, Text!NotANumber,
                      Text!NotAvailable, Sections, Text!RingKeys
        <4>2. SectionAt(Len(world))' = SectionAt(Len(world))
          BY <3>1, <3>2 DEF SectionAt, Sections
        <4> QED BY <3>1, <3>6, <4>1, <4>2 DEF RingsInv, Sections, Text!RingKeys, RingLines
      <3>8. /\ StampState' <=> StampState
            /\ Capable' = Capable /\ Clocks' = Clocks
        BY <3>1, <3>2, <3>3 DEF StampState, Capable, Clocks, StampLines, Text!NotANumber
      <3>9. Told(Capable, "val")' = Told(Capable, "val") /\ Given(Clocks)' = Given(Clocks)
        <4>1. PICK C, D : C = Capable /\ C = Capable' /\ D = Clocks /\ D = Clocks'
          BY <3>8
        <4>2. Told(C, "val")' = Told(C, "val")
          BY <3>1 DEF Told, Text!InOrder, Text!Place, Text!Cardinality
        <4>3. Told(Capable, "val")' = Told(C, "val")' /\ Given(Clocks)' = Given(D)'
          BY <4>1 DEF Told, Given, Text!NotANumber
        <4> QED BY <3>4, <4>1, <4>2, <4>3
      <3>10. (InCaps(Len(world)))' <=> InCaps(Len(world))
        BY <3>1, <3>2 DEF InCaps, StampHeaders
      <3>11. StampsInv' <=> StampsInv
        BY <3>1, <3>8, <3>9, <3>10 DEF StampsInv
      <3> QED BY <3>1, <3>7, <3>11, Zenon DEF EthtoolInv
    <2> QED BY <2>1, <2>2
  <1>3. EthtoolInv => EthtoolAsPrinted
    <2>1. ASSUME routine = "ethtool_g", RingsInv
          PROVE  Text!EthtoolAsPrinted
      <3>1. \A section \in Sections, k \in Text!RingKeys : st[section][k] = Stored(Mine(section, k))
        BY <2>1, Zenon DEF RingsInv
      <3>2. routine # "ethtool_T"
        BY <2>1
      <3> QED BY <3>1, <3>2 DEF Text!EthtoolAsPrinted, Stored, Given, Mine, SectionAt, Sections
    <2>2. ASSUME routine = "ethtool_T", StampsInv
          PROVE  Text!EthtoolAsPrinted
      <3>1. st.caps = Told(Capable, "val") /\ st.phcIndex = Given(Clocks)
        BY <2>2, Zenon DEF StampsInv
      <3>2. routine # "ethtool_g"
        BY <2>2
      <3> QED BY <3>1, <3>2 DEF Text!EthtoolAsPrinted, Given, Told, Capable, Clocks, InCaps,
                                StampHeaders, Text!NotANumber
    <2>3. routine \notin {"ethtool_g", "ethtool_T"} => Text!EthtoolAsPrinted
      BY DEF Text!EthtoolAsPrinted
    <2> QED BY <2>1, <2>2, <2>3 DEF EthtoolInv, EthtoolAsPrinted
  <1> QED BY <1>1, <1>2, <1>3, PTL DEF FairSpec

-----------------------------------------------------------------------------
(* Text parsers: the sensors of ipmitool sdr elist *)

SdrLines == UNION {ToolLines("sdr", n) : n \in 1 .. MaxLines}

IsSensor(line) == line.key # "short" /\ line.name # ""
IsBad(line) == IsSensor(line) /\ line.status \notin {"ok", "ns"}
IsWatts(line) == IsSensor(line) /\ line.key = "Watts"
Reads(line, unit) == IsSensor(line) /\ line.key = unit

Sensors == {i \in DOMAIN world : IsSensor(world[i])}
Bad == {i \in Sensors : world[i].status \notin {"ok", "ns"}}

\* Line i is the last of its name with a reading in the unit.
LastReading(lines, i, unit) ==
    /\ i \in DOMAIN lines /\ Reads(lines[i], unit)
    /\ \A j \in DOMAIN lines :
          Reads(lines[j], unit) /\ lines[j].name = lines[i].name => j <= i

\* The map has a name for each reading, with what was read last.
Remembered(lines, m, unit) ==
    /\ m = [n \in DOMAIN m |-> m[n]]
    /\ \A i \in DOMAIN lines : Reads(lines[i], unit) => lines[i].name \in DOMAIN m
    /\ \A n \in DOMAIN m : \E i \in DOMAIN lines :
          LastReading(lines, i, unit) /\ lines[i].name = n /\ lines[i].val = m[n]

\* Each of the five fields is what the lines so far make it.
SensorsInv ==
    /\ world \in Seq(SdrLines)
    /\ st = [SensorCount |-> st.SensorCount, NotOK |-> st.NotOK, TempsC |-> st.TempsC,
             FansRPM |-> st.FansRPM, PowerWatts |-> st.PowerWatts]
    /\ st.SensorCount = Cardinality(Sensors)
    /\ st.NotOK = Told(Bad, "name")
    /\ st.PowerWatts \in Int /\ st.PowerWatts >= 0
    /\ \A i \in DOMAIN world : IsWatts(world[i]) => world[i].val <= st.PowerWatts
    /\ st.PowerWatts # 0 =>
          \E i \in DOMAIN world : IsWatts(world[i]) /\ world[i].val = st.PowerWatts
    /\ Remembered(world, st.TempsC, "degrees_C") /\ Remembered(world, st.FansRPM, "RPM")

LEMMA SdrUpdates ==
    ASSUME NEW c, NEW m, NEW tc, NEW fr, NEW pw, NEW s,
           s = [SensorCount |-> c, NotOK |-> m, TempsC |-> tc, FansRPM |-> fr, PowerWatts |-> pw],
           NEW x, NEW y
    PROVE  /\ [s EXCEPT !.SensorCount = x, !.NotOK = y] =
                [SensorCount |-> x, NotOK |-> y, TempsC |-> tc, FansRPM |-> fr, PowerWatts |-> pw]
           /\ [s EXCEPT !.PowerWatts = x] =
                [SensorCount |-> c, NotOK |-> m, TempsC |-> tc, FansRPM |-> fr, PowerWatts |-> x]
  <1>1. PICK u : u = [s EXCEPT !.SensorCount = x]
    OBVIOUS
  <1>2. u = [SensorCount |-> x, NotOK |-> m, TempsC |-> tc, FansRPM |-> fr, PowerWatts |-> pw]
    BY <1>1
  <1>3. [u EXCEPT !.NotOK = y] =
           [SensorCount |-> x, NotOK |-> y, TempsC |-> tc, FansRPM |-> fr, PowerWatts |-> pw]
    BY <1>2
  <1>4. [s EXCEPT !.SensorCount = x, !.NotOK = y] = [u EXCEPT !.NotOK = y]
    BY <1>1
  <1>5. [s EXCEPT !.PowerWatts = x] =
           [SensorCount |-> c, NotOK |-> m, TempsC |-> tc, FansRPM |-> fr, PowerWatts |-> x]
    OBVIOUS
  <1> QED BY <1>3, <1>4, <1>5

\* What a line makes of each field.
LEMMA SdrFields ==
    ASSUME NEW s, NEW line,
           s = [SensorCount |-> s.SensorCount, NotOK |-> s.NotOK, TempsC |-> s.TempsC,
                FansRPM |-> s.FansRPM, PowerWatts |-> s.PowerWatts],
           NEW t, t = Text!SdrLine(s, line)
    PROVE  /\ t = [SensorCount |-> t.SensorCount, NotOK |-> t.NotOK, TempsC |-> t.TempsC,
                   FansRPM |-> t.FansRPM, PowerWatts |-> t.PowerWatts]
           /\ t.SensorCount = IF IsSensor(line) THEN s.SensorCount + 1 ELSE s.SensorCount
           /\ t.NotOK = IF IsBad(line) THEN Append(s.NotOK, line.name) ELSE s.NotOK
           /\ t.TempsC = IF Reads(line, "degrees_C")
                         THEN Text!Put(s.TempsC, line.name, line.val) ELSE s.TempsC
           /\ t.FansRPM = IF Reads(line, "RPM")
                          THEN Text!Put(s.FansRPM, line.name, line.val) ELSE s.FansRPM
           /\ t.PowerWatts = IF IsWatts(line) /\ line.val > s.PowerWatts THEN line.val
                             ELSE s.PowerWatts
  <1> DEFINE u == [s EXCEPT !.SensorCount = @ + 1,
                            !.NotOK = IF line.status \in {"ok", "ns"} THEN @
                                      ELSE Append(@, line.name)]
  <1>1. CASE ~IsSensor(line)
    <2>1. t = s
      BY <1>1 DEF IsSensor, Text!SdrLine
    <2> QED BY <1>1, <2>1 DEF IsBad, Reads, IsWatts
  <1>2. CASE IsSensor(line)
    <2>1. u = [SensorCount |-> s.SensorCount + 1,
               NotOK |-> IF IsBad(line) THEN Append(s.NotOK, line.name) ELSE s.NotOK,
               TempsC |-> s.TempsC, FansRPM |-> s.FansRPM, PowerWatts |-> s.PowerWatts]
      <3>1. CASE line.status \in {"ok", "ns"}
        <4>1. u = [s EXCEPT !.SensorCount = s.SensorCount + 1, !.NotOK = s.NotOK]
          BY <3>1
        <4> HIDE DEF u
        <4> QED BY <3>1, <4>1, SdrUpdates DEF IsBad
      <3>2. CASE line.status \notin {"ok", "ns"}
        <4>1. u = [s EXCEPT !.SensorCount = s.SensorCount + 1,
                            !.NotOK = Append(s.NotOK, line.name)]
          BY <3>2
        <4> HIDE DEF u
        <4> QED BY <1>2, <3>2, <4>1, SdrUpdates DEF IsBad
      <3> QED BY <3>1, <3>2
    <2>2. t = CASE line.key = "degrees_C" -> [u EXCEPT !.TempsC = Text!Put(@, line.name, line.val)]
                [] line.key = "RPM" -> [u EXCEPT !.FansRPM = Text!Put(@, line.name, line.val)]
                [] line.key = "Watts" -> [u EXCEPT !.PowerWatts = IF line.val > @ THEN line.val
                                                                  ELSE @]
                [] OTHER -> u
      BY <1>2 DEF IsSensor, Text!SdrLine
    <2> HIDE DEF u
    <2>3. CASE line.key = "degrees_C"
      <3>1. t = [u EXCEPT !.TempsC = Text!Put(u.TempsC, line.name, line.val)]
        BY <2>2, <2>3
      <3> QED BY <1>2, <2>1, <2>3, <3>1 DEF Reads, IsWatts
    <2>4. CASE line.key = "RPM"
      <3>1. t = [u EXCEPT !.FansRPM = Text!Put(u.FansRPM, line.name, line.val)]
        BY <2>2, <2>4
      <3> QED BY <1>2, <2>1, <2>4, <3>1 DEF Reads, IsWatts
    <2>5. CASE line.key = "Watts"
      <3>1. CASE line.val > u.PowerWatts
        <4>1. t = [u EXCEPT !.PowerWatts = line.val]
          BY <2>2, <2>5, <3>1
        <4> QED BY <1>2, <2>1, <2>5, <3>1, <4>1 DEF Reads, IsWatts
      <3>2. CASE ~(line.val > u.PowerWatts)
        <4>1. t = [u EXCEPT !.PowerWatts = u.PowerWatts]
          BY <2>2, <2>5, <3>2
        <4>2. t = u
          BY <2>1, <4>1, SdrUpdates
        <4> QED BY <1>2, <2>1, <2>5, <3>2, <4>2 DEF Reads, IsWatts
      <3> QED BY <3>1, <3>2
    <2>6. CASE line.key \notin {"degrees_C", "RPM", "Watts"}
      <3>1. t = u
        BY <2>2, <2>6
      <3>2. ~Reads(line, "degrees_C") /\ ~Reads(line, "RPM") /\ ~IsWatts(line)
        BY <2>6 DEF Reads, IsWatts
      <3> QED BY <1>2, <2>1, <3>1, <3>2
    <2> QED BY <2>3, <2>4, <2>5, <2>6
  <1> QED BY <1>1, <1>2

\* What a map keeps when a line is read, whether it is a reading of the unit or not.
LEMMA RememberedStep ==
    ASSUME NEW L \in Nat, NEW line, Grows(L, line), NEW unit, NEW m, Remembered(world, m, unit),
           NEW u, u = IF Reads(line, unit) THEN Text!Put(m, line.name, line.val) ELSE m
    PROVE  Remembered(world', u, unit)
  <1>1. /\ DOMAIN world = 1 .. L /\ DOMAIN world' = (1 .. L) \cup {L + 1}
        /\ \A i \in 1 .. L : world'[i] = world[i]
        /\ world'[L + 1] = line
        /\ \A i \in 1 .. L : i <= L + 1
    BY DEF Grows
  <1>2. /\ m = [n \in DOMAIN m |-> m[n]]
        /\ \A i \in 1 .. L : Reads(world[i], unit) => world[i].name \in DOMAIN m
        /\ \A n \in DOMAIN m : \E i \in 1 .. L :
              LastReading(world, i, unit) /\ world[i].name = n /\ world[i].val = m[n]
    BY <1>1 DEF Remembered
  <1>3. ASSUME NEW i \in 1 .. L, LastReading(world, i, unit),
               ~(Reads(line, unit) /\ line.name = world[i].name)
        PROVE  LastReading(world', i, unit)
    BY <1>1, <1>3 DEF LastReading
  <1>4. CASE Reads(line, unit)
    <2>1. /\ u = [n \in DOMAIN m \cup {line.name} |-> IF n = line.name THEN line.val ELSE m[n]]
          /\ DOMAIN u = DOMAIN m \cup {line.name}
      BY <1>4 DEF Text!Put
    <2>2. LastReading(world', L + 1, unit)
      BY <1>1, <1>4 DEF LastReading
    <2>3. u = [n \in DOMAIN u |-> u[n]]
      BY <2>1
    <2>4. \A i \in DOMAIN world' : Reads(world'[i], unit) => world'[i].name \in DOMAIN u
      BY <1>1, <1>2, <2>1
    <2>5. ASSUME NEW n \in DOMAIN u
          PROVE  \E i \in DOMAIN world' :
                    LastReading(world', i, unit) /\ world'[i].name = n /\ world'[i].val = u[n]
      <3>1. CASE n = line.name
        BY <1>1, <2>1, <2>2, <3>1
      <3>2. CASE n # line.name
        <4>1. PICK i \in 1 .. L : LastReading(world, i, unit) /\ world[i].name = n /\ world[i].val = m[n]
          BY <1>2, <2>1, <3>2
        <4>2. LastReading(world', i, unit)
          BY <1>3, <3>2, <4>1
        <4> QED BY <1>1, <2>1, <3>2, <4>1, <4>2
      <3> QED BY <3>1, <3>2
    <2> QED BY <2>3, <2>4, <2>5 DEF Remembered
  <1>5. CASE ~Reads(line, unit)
    <2>1. u = m
      BY <1>5
    <2>2. \A i \in DOMAIN world' : Reads(world'[i], unit) => world'[i].name \in DOMAIN u
      BY <1>1, <1>2, <1>5, <2>1
    <2>3. ASSUME NEW n \in DOMAIN u
          PROVE  \E i \in DOMAIN world' :
                    LastReading(world', i, unit) /\ world'[i].name = n /\ world'[i].val = u[n]
      <3>1. PICK i \in 1 .. L : LastReading(world, i, unit) /\ world[i].name = n /\ world[i].val = m[n]
        BY <1>2, <2>1
      <3>2. LastReading(world', i, unit)
        BY <1>3, <1>5, <3>1
      <3> QED BY <1>1, <2>1, <3>1, <3>2
    <2> QED BY <1>2, <2>1, <2>2, <2>3 DEF Remembered
  <1> QED BY <1>4, <1>5

\* What a map keeps is what the lines tell.
LEMMA RememberedTold ==
    ASSUME NEW unit, NEW m, Remembered(world, m, unit), world \in Seq(SdrLines)
    PROVE  LET mine == Sensors \cap Text!Positions({unit})
           IN m = [n \in {world[i].name : i \in mine} |->
                      world[Text!Max({i \in mine : world[i].name = n})].val]
  <1> DEFINE mine == Sensors \cap Text!Positions({unit})
  <1>1. \A i : i \in mine <=> i \in DOMAIN world /\ Reads(world[i], unit)
    BY DEF Sensors, Text!Positions, Reads
  <1> HIDE DEF mine
  <1>2. PICK L \in Nat : DOMAIN world = 1 .. L
    OBVIOUS
  <1>3. mine \in SUBSET Int
    BY <1>1, <1>2
  <1>4. DOMAIN m = {world[i].name : i \in mine}
    <2>1. \A i \in mine : world[i].name \in DOMAIN m
      BY <1>1 DEF Remembered
    <2>2. \A n \in DOMAIN m : \E i \in mine : world[i].name = n
      BY <1>1 DEF Remembered, LastReading
    <2> QED BY <2>1, <2>2, Zenon
  <1>5. ASSUME NEW n \in DOMAIN m
        PROVE  m[n] = world[Text!Max({i \in mine : world[i].name = n})].val
    <2>1. PICK i \in DOMAIN world : LastReading(world, i, unit) /\ world[i].name = n /\ world[i].val = m[n]
      BY DEF Remembered
    <2> DEFINE same == {j \in mine : world[j].name = n}
    <2>2. same \in SUBSET Int /\ i \in same /\ \A j \in same : j <= i
      BY <1>1, <1>3, <2>1 DEF LastReading
    <2> HIDE DEF same
    <2>3. Text!Max(same) = i
      BY <2>2, GreatestOfText
    <2> QED BY <2>1, <2>3 DEF same
  <1>6. m = [n \in DOMAIN m |-> m[n]]
    BY DEF Remembered
  <1> QED BY <1>4, <1>5, <1>6, Zenon DEF mine

LEMMA SensorsStep ==
    ASSUME routine = "sdr", SensorsInv, Next
    PROVE  SensorsInv'
  <1>1. PICK L \in Nat, line \in SdrLines :
           Grows(L, line) /\ Text!Parse(line) /\ world' \in Seq(SdrLines)
    <2>1. world \in Seq(SdrLines)
      BY Zenon DEF SensorsInv
    <2>2. \A n \in 1 .. MaxLines : ToolLines(routine, n) \subseteq SdrLines
      BY DEF SdrLines
    <2>3. routine \in TextTools
      BY DEF TextTools, Text!Starts
    <2> QED BY <2>1, <2>2, <2>3, OneMoreLine, Zenon
  <1>2. st' = Text!SdrLine(st, line)
    BY <1>1 DEF Text!Parse
  <1>3. /\ DOMAIN world = 1 .. L /\ DOMAIN world' = (1 .. L) \cup {L + 1}
        /\ \A i \in 1 .. L : world'[i] = world[i]
        /\ world'[L + 1] = line
    BY <1>1 DEF Grows
  <1>4. /\ st' = [SensorCount |-> st'.SensorCount, NotOK |-> st'.NotOK, TempsC |-> st'.TempsC,
                  FansRPM |-> st'.FansRPM, PowerWatts |-> st'.PowerWatts]
        /\ st'.SensorCount = IF IsSensor(line) THEN st.SensorCount + 1 ELSE st.SensorCount
        /\ st'.NotOK = IF IsBad(line) THEN Append(st.NotOK, line.name) ELSE st.NotOK
        /\ st'.TempsC = IF Reads(line, "degrees_C")
                        THEN Text!Put(st.TempsC, line.name, line.val) ELSE st.TempsC
        /\ st'.FansRPM = IF Reads(line, "RPM")
                         THEN Text!Put(st.FansRPM, line.name, line.val) ELSE st.FansRPM
        /\ st'.PowerWatts = IF IsWatts(line) /\ line.val > st.PowerWatts THEN line.val
                            ELSE st.PowerWatts
    BY <1>2, SdrFields DEF SensorsInv
  <1>5. PICK S \in SUBSET (1 .. L), B \in SUBSET (1 .. L) : S = Sensors /\ B = Bad
    BY <1>3 DEF Sensors, Bad
  <1>6. PICK X, Y : X = Sensors' /\ Y = Bad'
    OBVIOUS
  <1>7. X = IF IsSensor(line) THEN S \cup {L + 1} ELSE S
    <2>1. \A i \in 1 .. L : i \in X <=> i \in S
      BY <1>3, <1>5, <1>6 DEF Sensors, IsSensor
    <2>2. L + 1 \in X <=> IsSensor(line)
      BY <1>3, <1>6 DEF Sensors, IsSensor
    <2>3. X \in SUBSET (1 .. L + 1)
      BY <1>3, <1>6 DEF Sensors
    <2> QED BY <1>5, <2>1, <2>2, <2>3, WithOrWithout
  <1>8. Y = IF IsBad(line) THEN B \cup {L + 1} ELSE B
    <2>1. \A i \in 1 .. L : i \in Y <=> i \in B
      BY <1>3, <1>5, <1>6 DEF Sensors, Bad, IsSensor
    <2>2. L + 1 \in Y <=> IsBad(line)
      BY <1>3, <1>6 DEF Sensors, Bad, IsSensor, IsBad
    <2>3. Y \in SUBSET (1 .. L + 1)
      BY <1>3, <1>6 DEF Sensors, Bad
    <2> QED BY <1>5, <2>1, <2>2, <2>3, WithOrWithout
  <1>9. st'.SensorCount = Cardinality(X)
    <2>1. IsFiniteSet(S) /\ L + 1 \notin S
      <3>1. IsFiniteSet(1 .. L) /\ L + 1 \notin 1 .. L
        BY FS_Interval
      <3> QED BY <1>5, <3>1, FS_Subset
    <2>2. Cardinality(S \cup {L + 1}) = Cardinality(S) + 1
      BY <2>1, FS_AddElement
    <2>3. st.SensorCount = Cardinality(S)
      BY <1>5, Zenon DEF SensorsInv
    <2> QED BY <1>4, <1>7, <2>2, <2>3
  <1>10. st'.NotOK = Told(Bad, "name")'
    <2>1. /\ Told(B, "name")' = Told(B, "name")
          /\ Told(B \cup {L + 1}, "name")' = Append(Told(B, "name"), line["name"])
      BY <1>1, <1>5, ToldGrows
    <2>2. Told(B, "name") = st.NotOK
      BY <1>5, Zenon DEF SensorsInv
    <2>3. Told(Bad, "name")' = Told(Y, "name")'
      BY <1>6 DEF Told
    <2> QED BY <1>4, <1>8, <2>1, <2>2, <2>3
  <1>11. /\ st'.PowerWatts \in Int /\ st'.PowerWatts >= 0
         /\ \A i \in DOMAIN world' : IsWatts(world'[i]) => world'[i].val <= st'.PowerWatts
         /\ st'.PowerWatts # 0 =>
               \E i \in DOMAIN world' : IsWatts(world'[i]) /\ world'[i].val = st'.PowerWatts
    <2>1. \A l \in SdrLines : IsWatts(l) => l.val \in Int
      BY SdrAssumption DEF SdrLines, IsWatts
    <2>2. \A i \in 1 .. L : world[i] \in SdrLines
      BY <1>3 DEF SensorsInv
    <2>3. /\ st.PowerWatts \in Int /\ st.PowerWatts >= 0
          /\ \A i \in 1 .. L : IsWatts(world[i]) => world[i].val <= st.PowerWatts
          /\ st.PowerWatts # 0 =>
                \E i \in 1 .. L : IsWatts(world[i]) /\ world[i].val = st.PowerWatts
      BY <1>3 DEF SensorsInv
    <2>4. PICK w : w = st.PowerWatts
      OBVIOUS
    <2>5. PICK v : v = st'.PowerWatts /\ v = IF IsWatts(line) /\ line.val > w THEN line.val ELSE w
      BY <1>4, <2>4
    <2>6. /\ v \in Int /\ v >= 0 /\ v >= w
          /\ IsWatts(line) => line.val <= v
      BY <2>1, <2>3, <2>4, <2>5
    <2>7. \A i \in 1 .. L : IsWatts(world[i]) => world[i].val <= v
      BY <2>1, <2>2, <2>3, <2>4, <2>6
    <2>8. v # 0 => \E i \in DOMAIN world' : IsWatts(world'[i]) /\ world'[i].val = v
      <3>1. CASE IsWatts(line) /\ line.val > w
        BY <1>3, <2>5, <3>1
      <3>2. CASE ~(IsWatts(line) /\ line.val > w)
        BY <1>3, <2>3, <2>4, <2>5, <3>2
      <3> QED BY <3>1, <3>2
    <2> QED BY <1>3, <2>5, <2>6, <2>7, <2>8
  <1>12. Remembered(world', st'.TempsC, "degrees_C") /\ Remembered(world', st'.FansRPM, "RPM")
    <2>1. PICK temps, fans : temps = st.TempsC /\ fans = st.FansRPM
      OBVIOUS
    <2>2. PICK temps1, fans1 : temps1 = st'.TempsC /\ fans1 = st'.FansRPM
      OBVIOUS
    <2>3. Remembered(world, temps, "degrees_C") /\ Remembered(world, fans, "RPM")
      BY <2>1, Zenon DEF SensorsInv
    <2>4. Remembered(world', temps1, "degrees_C") /\ Remembered(world', fans1, "RPM")
      BY <1>1, <1>4, <2>1, <2>2, <2>3, RememberedStep
    <2> QED BY <2>2, <2>4 DEF Remembered
  <1>13. world' \in Seq(SdrLines)'
    BY <1>1 DEF SdrLines
  <1>14. st'.SensorCount = Cardinality(Sensors)'
    BY <1>6, <1>9
  <1> QED BY <1>4, <1>10, <1>11, <1>12, <1>13, <1>14 DEF SensorsInv, IsWatts, IsSensor

(* However many sensors there are, each one is counted, each one that is   *)
(* neither ok nor ns is listed, in order, the power is the largest reading *)
(* in watts, and every temperature and every fan is kept with what its     *)
(* sensor gave last (parseSdrElist).                                       *)
THEOREM SensorsAddUpAlways == FairSpec => []SensorsAddUp
  <1> DEFINE Inv == routine = "sdr" => SensorsInv
  <1>1. Init => Inv
    <2> SUFFICES ASSUME Init, routine = "sdr"
                 PROVE  SensorsInv
      OBVIOUS
    <2>1. world = <<>> /\ st = Text!SdrStart
      BY TextInit DEF TextTools, Text!Starts
    <2>2. Sensors = {} /\ Bad = {} /\ DOMAIN world = {}
      BY <2>1 DEF Sensors, Bad
    <2>3. Cardinality(Sensors) = 0
      BY <2>2, FS_EmptySet
    <2>4. Told(Bad, "name") = <<>>
      BY <2>2, NothingTold, Zenon
    <2>5. /\ st = [SensorCount |-> st.SensorCount, NotOK |-> st.NotOK, TempsC |-> st.TempsC,
                   FansRPM |-> st.FansRPM, PowerWatts |-> st.PowerWatts]
          /\ st.SensorCount = 0 /\ st.NotOK = <<>> /\ st.PowerWatts = 0
          /\ st.TempsC = <<>> /\ st.FansRPM = <<>>
      BY <2>1 DEF Text!SdrStart
    <2>6. world \in Seq(SdrLines)
      BY <2>1
    <2>7. \A unit : Remembered(world, <<>>, unit)
      BY <2>2 DEF Remembered
    <2> QED BY <2>2, <2>3, <2>4, <2>5, <2>6, <2>7 DEF SensorsInv
  <1>2. Inv /\ [Next]_vars => Inv'
    <2>1. CASE Next
      BY <2>1, SensorsStep DEF Next
    <2>2. CASE UNCHANGED vars
      <3>1. world' = world /\ st' = st /\ routine' = routine
        BY <2>2 DEF vars
      <3>2. PICK B : B = Bad /\ B = Bad'
        BY <3>1 DEF Bad, Sensors
      <3>3. Told(B, "name")' = Told(B, "name")
        BY <3>1 DEF Told, Text!InOrder, Text!Place, Text!Cardinality
      <3>4. Told(Bad, "name")' = Told(B, "name")'
        BY <3>2 DEF Told
      <3>5. Told(Bad, "name")' = Told(Bad, "name")
        BY <3>2, <3>3, <3>4
      <3>6. Cardinality(Sensors)' = Cardinality(Sensors)
        BY <3>1 DEF Sensors
      <3>7. CASE routine = "sdr" /\ SensorsInv
        <4>1. /\ world' \in Seq(SdrLines)
              /\ st' = [SensorCount |-> st'.SensorCount, NotOK |-> st'.NotOK,
                        TempsC |-> st'.TempsC, FansRPM |-> st'.FansRPM,
                        PowerWatts |-> st'.PowerWatts]
          BY <3>1, <3>7, Zenon DEF SensorsInv
        <4>2. st'.SensorCount = Cardinality(Sensors)' /\ st'.NotOK = Told(Bad, "name")'
          BY <3>1, <3>5, <3>6, <3>7, Zenon DEF SensorsInv
        <4>3. /\ st'.PowerWatts \in Int /\ st'.PowerWatts >= 0
              /\ \A i \in DOMAIN world' : IsWatts(world'[i]) => world'[i].val <= st'.PowerWatts
              /\ st'.PowerWatts # 0 =>
                    \E i \in DOMAIN world' : IsWatts(world'[i]) /\ world'[i].val = st'.PowerWatts
          BY <3>1, <3>7, Zenon DEF SensorsInv
        <4>4. Remembered(world', st'.TempsC, "degrees_C") /\ Remembered(world', st'.FansRPM, "RPM")
          <5>1. Remembered(world, st.TempsC, "degrees_C") /\ Remembered(world, st.FansRPM, "RPM")
            BY <3>7, Zenon DEF SensorsInv
          <5> QED BY <3>1, <5>1 DEF Remembered
        <4> QED BY <4>1, <4>2, <4>3, <4>4, Zenon DEF SensorsInv, IsWatts, IsSensor, SdrLines
      <3> QED BY <3>1, <3>7
    <2> QED BY <2>1, <2>2
  <1>3. Inv => SensorsAddUp
    <2> SUFFICES ASSUME routine = "sdr", SensorsInv
                 PROVE  Text!SensorsAddUp
      BY DEF SensorsAddUp, Text!SensorsAddUp
    <2> DEFINE watts == {world[i].val : i \in Sensors \cap Text!Positions({"Watts"})} \cup {0}
    <2>1. st.SensorCount = Text!Cardinality(Sensors) /\ st.NotOK = Told(Bad, "name")
      BY SameCardinalityOfText, Zenon DEF SensorsInv
    <2>2. \A x : x \in watts <=> x = 0 \/ \E i \in DOMAIN world : IsWatts(world[i]) /\ x = world[i].val
      BY DEF Sensors, Text!Positions, IsWatts
    <2> HIDE DEF watts
    <2>3. st.PowerWatts = Text!Max(watts)
      <3>1. \A i \in DOMAIN world : IsWatts(world[i]) => world[i].val \in Int
        <4>1. \A l \in SdrLines : IsWatts(l) => l.val \in Int
          BY SdrAssumption DEF SdrLines, IsWatts
        <4>2. \A i \in DOMAIN world : world[i] \in SdrLines
          BY DEF SensorsInv
        <4> QED BY <4>1, <4>2
      <3>2. watts \in SUBSET Int
        BY <2>2, <3>1
      <3>3. st.PowerWatts \in watts /\ \A x \in watts : x <= st.PowerWatts
        BY <2>2 DEF SensorsInv
      <3> QED BY <3>2, <3>3, GreatestOfText
    <2>4. PICK temps, fans : temps = st.TempsC /\ fans = st.FansRPM
      OBVIOUS
    <2>5. world \in Seq(SdrLines) /\ Remembered(world, temps, "degrees_C") /\ Remembered(world, fans, "RPM")
      BY <2>4, Zenon DEF SensorsInv
    <2> DEFINE In(unit) == Sensors \cap Text!Positions({unit})
               Readings(unit) == [n \in {world[i].name : i \in In(unit)} |->
                                    world[Text!Max({i \in In(unit) : world[i].name = n})].val]
    <2>6. st.TempsC = Readings("degrees_C") /\ st.FansRPM = Readings("RPM")
      BY <2>4, <2>5, RememberedTold
    <2> QED BY <2>1, <2>3, <2>6, Zenon DEF Text!SensorsAddUp, watts, Told, Sensors, Bad, IsSensor
  <1> QED BY <1>1, <1>2, <1>3, PTL DEF FairSpec


-----------------------------------------------------------------------------
(* Decoders: names in a buffer *)

NameLengths == DecoderItems("names")

Buffers == [cap : Nat, need : Nat, used : Nat, shown : Seq(Nat)]

\* The length of all names, one blank between each two.
WholeLength == Sums(world, DOMAIN world)[DOMAIN world]
                 + IF Len(world) = 0 THEN 0 ELSE Len(world) - 1

\* Every name is in the buffer, in order.
AllShown == st.shown = [i \in DOMAIN world |-> i] /\ st.used = st.need

\* The buffer shows all names unless one did not fit, and one that did not fit is
\* missed for good.
NamesInv ==
    /\ world \in Seq(NameLengths) /\ st \in Buffers
    /\ st.need = WholeLength
    /\ Len(st.shown) <= Len(world)
    /\ Len(st.shown) = Len(world) \/ st.need < st.cap => AllShown
    /\ st.used < st.cap \/ st.used = 0
    /\ st.cap = 0 => st.shown = <<>>

\* Positions of a list are finitely many, and each has a length.
LEMMA LengthsAreWeights ==
    ASSUME NEW names \in Seq(NameLengths)
    PROVE  /\ IsFiniteSet(DOMAIN names) /\ Weights(names, DOMAIN names)
           /\ AddsUp(Sums(names, DOMAIN names), names, SUBSET DOMAIN names)
  <1>1. DOMAIN names = 1 .. Len(names) /\ Len(names) \in Nat
    OBVIOUS
  <1>2. IsFiniteSet(1 .. Len(names))
    BY <1>1, FS_Interval
  <1>3. \A i \in DOMAIN names : names[i] \in Nat
    BY NamesAssumption DEF NameLengths
  <1>4. IsFiniteSet(DOMAIN names) /\ Weights(names, DOMAIN names)
    BY <1>1, <1>2, <1>3 DEF Weights
  <1>5. AddsUp(Sums(names, DOMAIN names), names, SUBSET DOMAIN names)
    BY <1>4, SumsExist, SumsOfNaturals
  <1> QED BY <1>4, <1>5

\* One more name adds its length.
LEMMA OneMoreName ==
    ASSUME NEW names \in Seq(NameLengths), NEW nlen \in NameLengths,
           NEW longer, longer = Append(names, nlen)
    PROVE  Sums(longer, DOMAIN longer)[DOMAIN longer]
             = Sums(names, DOMAIN names)[DOMAIN names] + nlen
  <1>1. PICK n \in Nat : n = Len(names)
    OBVIOUS
  <1>2. /\ longer \in Seq(NameLengths) /\ Len(longer) = n + 1
        /\ \A i \in 1 .. n : longer[i] = names[i]
        /\ longer[n + 1] = nlen
    BY <1>1, AppendOne
  <1>3. DOMAIN longer = 1 .. n + 1 /\ DOMAIN names = 1 .. n
    BY <1>1, <1>2
  <1>4. Weights(longer, 1 .. n + 1)
    BY <1>2, <1>3, LengthsAreWeights
  <1>5. Agree(longer, names, 1 .. n)
    BY <1>2 DEF Agree
  <1>6. Sums(longer, 1 .. n + 1)[1 .. n + 1] = nlen + Sums(names, 1 .. n)[1 .. n]
    <2>1. Sums(longer, 1 .. n + 1)[1 .. n + 1] = longer[n + 1] + Sums(names, 1 .. n)[1 .. n]
      BY <1>4, <1>5, SumOfLonger
    <2> QED BY <1>2, <2>1
  <1>7. Sums(names, 1 .. n)[1 .. n] \in Nat /\ nlen \in Nat
    BY <1>3, LengthsAreWeights, NamesAssumption DEF AddsUp, NameLengths
  <1> QED BY <1>3, <1>6, <1>7

LEMMA NamesStep ==
    ASSUME routine = "names", NamesInv, Next
    PROVE  NamesInv'
  <1>1. PICK nlen \in NameLengths : world' = Append(world, nlen) /\ st' = Lists!NamesItem(st, nlen)
    BY FedStep DEF Decoders, Lists!Next, Lists!Take, NameLengths
  <1>2. PICK n \in Nat : n = Len(world)
    BY DEF NamesInv
  <1>3. /\ world' \in Seq(NameLengths) /\ Len(world') = n + 1
        /\ DOMAIN world = 1 .. n /\ DOMAIN world' = 1 .. n + 1
    BY <1>1, <1>2 DEF NamesInv
  <1>4. nlen \in Nat /\ (world = <<>> <=> n = 0)
    BY <1>2, NamesAssumption DEF NameLengths, NamesInv
  <1>5. PICK add \in Nat : add = nlen + IF n = 0 THEN 0 ELSE 1
    BY <1>4
  <1>6. st' = IF st.cap > 0 /\ st.used + add < st.cap
              THEN [st EXCEPT !.need = @ + add, !.used = @ + add, !.shown = Append(@, n + 1)]
              ELSE [st EXCEPT !.need = @ + add]
    BY <1>1, <1>2, <1>4, <1>5 DEF Lists!NamesItem
  <1>7. st \in Buffers
    BY DEF NamesInv
  <1>8. PICK cap \in Nat, need \in Nat, used \in Nat, shown \in Seq(Nat) :
           st.cap = cap /\ st.need = need /\ st.used = used /\ st.shown = shown
    BY <1>7 DEF Buffers
  <1>9. WholeLength' = need + add
    <2>1. PICK old : old = Sums(world, DOMAIN world)[DOMAIN world]
      OBVIOUS
    <2>2. need = old + (IF n = 0 THEN 0 ELSE n - 1)
      BY <1>2, <1>8, <2>1 DEF NamesInv, WholeLength
    <2>3. Sums(world', DOMAIN world')[DOMAIN world'] = old + nlen
      BY <1>1, <2>1, OneMoreName DEF NamesInv
    <2>4. old \in Nat
      BY <2>1, LengthsAreWeights DEF AddsUp, NamesInv
    <2> QED BY <1>3, <1>4, <1>5, <2>2, <2>3, <2>4 DEF WholeLength
  <1>10. /\ Len(shown) <= n
         /\ Len(shown) = n \/ need < cap => shown = [i \in 1 .. n |-> i] /\ used = need
         /\ used < cap \/ used = 0
         /\ cap = 0 => shown = <<>>
    BY <1>2, <1>3, <1>8 DEF NamesInv, AllShown
  <1>11. CASE cap > 0 /\ used + add < cap
    <2>0. st' = [cap |-> cap, need |-> need + add, used |-> used + add,
                 shown |-> Append(shown, n + 1)]
      BY <1>6, <1>7, <1>8, <1>11 DEF Buffers
    <2>1. /\ st' \in Buffers /\ st'.cap = cap /\ st'.need = need + add
          /\ st'.used = used + add /\ st'.shown = Append(shown, n + 1)
      <3>1. PICK more \in Seq(Nat) : more = Append(shown, n + 1)
        <4>1. PICK k \in Nat : k = n + 1
          OBVIOUS
        <4> QED BY <4>1, AppendOne
      <3> QED BY <2>0, <3>1 DEF Buffers
    <2>2. Len(st'.shown) = Len(shown) + 1
      BY <2>1
    <2>3. Len(st'.shown) = n + 1 \/ need + add < cap
             => /\ st'.shown = [i \in 1 .. n + 1 |-> i]
                /\ st'.used = need + add
      <3> SUFFICES ASSUME Len(st'.shown) = n + 1 \/ need + add < cap
                   PROVE  st'.shown = [i \in 1 .. n + 1 |-> i] /\ st'.used = need + add
        OBVIOUS
      <3>1. shown = [i \in 1 .. n |-> i] /\ used = need
        BY <1>10, <2>2
      <3>2. Append(shown, n + 1) = [i \in 1 .. n + 1 |-> i]
        BY <3>1
      <3> QED BY <2>1, <3>1, <3>2
    <2> QED BY <1>3, <1>9, <1>10, <1>11, <2>1, <2>2, <2>3 DEF NamesInv, AllShown
  <1>12. CASE ~(cap > 0 /\ used + add < cap)
    <2>1. /\ st' \in Buffers /\ st'.cap = cap /\ st'.need = need + add
          /\ st'.used = used /\ st'.shown = shown
      BY <1>6, <1>7, <1>8, <1>12 DEF Buffers
    <2>2. Len(shown) # n + 1 /\ ~(need + add < cap)
      BY <1>10, <1>12
    <2> QED BY <1>3, <1>9, <1>10, <2>1, <2>2 DEF NamesInv, AllShown
  <1> QED BY <1>11, <1>12

\* The fold of the community modules is the sum.
LEMMA LengthsFolded ==
    Lists!FoldSeq(+, 0, world) = Sums(world, DOMAIN world)[DOMAIN world]
  BY Zenon DEF Lists!FoldSeq, Lists!FoldFunction, Lists!FoldFunctionOnSet, Lists!MapThenFoldSet,
               Sums, SumsUp, Some

\* The length returned tells whether names are missing, for lists and buffers of any
\* size (rewsr_cpuid_features_string, rewsr_ethtool_link_modes_string).
THEOREM NeedAlwaysTells == FairSpec => []NeedTellsTruncation
  <1> DEFINE Inv == routine = "names" => NamesInv
  <1>1. Init => Inv
    <2> SUFFICES ASSUME Init, routine = "names"
                 PROVE  NamesInv
      OBVIOUS
    <2>1. PICK cap \in BufferSizes : world = <<>> /\ st = Lists!NamesStart(cap)
      BY AloneNotFed, ToolsNotDecoders DEF Init, Alone, Decoders, Text!Init, TextTools, Lists!Init
    <2>2. cap \in Nat
      BY NamesAssumption
    <2>3. st \in Buffers /\ st.cap = cap /\ st.need = 0 /\ st.used = 0 /\ st.shown = <<>>
      BY <2>1, <2>2 DEF Lists!NamesStart, Buffers
    <2>4. world \in Seq(NameLengths) /\ Len(world) = 0 /\ DOMAIN world = {}
      BY <2>1
    <2>5. Sums(world, DOMAIN world)[DOMAIN world] = 0
      BY <2>4, LengthsAreWeights DEF AddsUp
    <2>6. AllShown
      BY <2>3, <2>4 DEF AllShown
    <2> QED BY <2>3, <2>4, <2>5, <2>6 DEF NamesInv, WholeLength
  <1>2. Inv /\ [Next]_vars => Inv'
    <2> SUFFICES ASSUME Inv, [Next]_vars, routine' = "names"
                 PROVE  NamesInv'
      OBVIOUS
    <2>1. CASE Next
      BY <2>1, NamesStep DEF Next
    <2>2. CASE UNCHANGED vars
      BY <2>2 DEF vars, NamesInv, WholeLength, AllShown
    <2> QED BY <2>1, <2>2
  <1>3. Inv => NeedTellsTruncation
    <2> SUFFICES ASSUME NamesInv, routine = "names"
                 PROVE  Lists!NeedTellsTruncation
      BY DEF NeedTellsTruncation, Lists!NeedTellsTruncation
    <2>1. PICK n \in Nat : n = Len(world)
      BY DEF NamesInv
    <2>2. Lists!Max({n - 1, 0}) = IF n = 0 THEN 0 ELSE n - 1
      <3>1. CASE n = 0
        BY <2>1, <3>1, GreatestOf
      <3>2. CASE n # 0
        BY <2>1, <3>2, GreatestOf
      <3> QED BY <3>1, <3>2
    <2>3. WholeLength = Lists!FoldSeq(+, 0, world) + Lists!Max({Len(world) - 1, 0})
      BY <2>1, <2>2, LengthsFolded DEF WholeLength
    <2>4. PICK whole : whole = WholeLength
      OBVIOUS
    <2>5. /\ st.need = whole
          /\ whole < st.cap => st.shown = [i \in DOMAIN world |-> i]
          /\ whole >= st.cap /\ world # <<>> => Len(st.shown) < Len(world)
          /\ st.used < st.cap \/ st.used = 0
      <3>1. /\ st.cap \in Nat /\ st.need \in Nat /\ st.used \in Nat
            /\ st.shown \in Seq(Nat) /\ Len(st.shown) \in Nat
        BY DEF NamesInv, Buffers
      <3>2. world # <<>> => n # 0
        BY <2>1 DEF NamesInv
      <3>3. ASSUME whole >= st.cap, world # <<>>, Len(st.shown) = n
            PROVE  FALSE
        <4>1. st.used = st.need /\ st.need = whole
          BY <2>1, <2>4, <3>3 DEF NamesInv, AllShown
        <4>2. st.cap = 0
          BY <3>1, <3>3, <4>1 DEF NamesInv
        <4> QED BY <3>2, <3>3, <4>2 DEF NamesInv
      <3> QED BY <2>1, <2>4, <3>1, <3>3 DEF NamesInv, AllShown
    <2> QED BY <2>3, <2>4, <2>5, Zenon DEF Lists!NeedTellsTruncation
  <1> QED BY <1>1, <1>2, <1>3, PTL DEF FairSpec

-----------------------------------------------------------------------------
(* Text parsers: what the lines between two headers say *)

\* What a key said between two lines already there stays, and what it says from one
\* of them to the end of the text, or behind it, is what the new line says or what
\* was said before.
LEMMA SaidMoves ==
    ASSUME NEW L \in Nat, NEW line, Grows(L, line), NEW key, NEW from \in 1 .. L + 1
    PROVE  /\ \A upto \in 0 .. L : Text!Said(key, from, upto)' = Text!Said(key, from, upto)
           /\ Text!Said(key, from, L + 1) = Text!Said(key, from, L)
           /\ \A upto \in {L + 1, L + 2} :
                Text!Said(key, from, upto)' =
                    IF line.key = key THEN line.val ELSE Text!Said(key, from, L)
  <1> DEFINE S(upto) == {i \in Text!Positions({key}) : from <= i /\ i <= upto} \cup {0}
             Value(m) == IF m = 0 THEN Text!Absent ELSE world[m].val
             NewValue(m) == IF m = 0 THEN Text!Absent ELSE world'[m].val
  <1>1. \A upto : Text!Said(key, from, upto) = Value(Text!Max(S(upto)))
    BY DEF Text!Said, Text!LastIn
  <1>2. \A upto : Text!Said(key, from, upto)' = NewValue(Text!Max(S(upto)'))
    BY DEF Text!Said, Text!LastIn, Text!Max, Text!Absent
  <1>3. \A upto \in 0 .. L : /\ S(upto)' = S(upto)
                             /\ Text!Max(S(upto)) \in 0 .. L
    <2> SUFFICES ASSUME NEW upto \in 0 .. L
                 PROVE  S(upto)' = S(upto) /\ Text!Max(S(upto)) \in 0 .. L
      OBVIOUS
    <2>1. \A i : (i \in Text!Positions({key})' /\ i <= upto)
                   <=> (i \in Text!Positions({key}) /\ i <= upto)
      BY DEF Grows, Text!Positions
    <2>2. S(upto)' = S(upto)
      BY <2>1
    <2>3. S(upto) \in SUBSET (0 .. L) /\ S(upto) # {}
      BY DEF Grows, Text!Positions
    <2> HIDE DEF S
    <2>4. Text!Max(S(upto)) \in S(upto)
      BY <2>3, GreatestPosition
    <2> QED BY <2>2, <2>3, <2>4
  <1>4. S(L + 1) = S(L)
    BY DEF Grows, Text!Positions
  <1>5. \A upto \in {L + 1, L + 2} :
           Text!Max(S(upto)') = IF line.key = key THEN L + 1 ELSE Text!Max(S(L))
    <2> SUFFICES ASSUME NEW upto \in {L + 1, L + 2}
                 PROVE  Text!Max(S(upto)') = IF line.key = key THEN L + 1 ELSE Text!Max(S(L))
      OBVIOUS
    <2>1. CASE line.key = key
      <3>1. /\ L + 1 \in S(upto)' /\ S(upto)' \in SUBSET Int
            /\ \A i \in S(upto)' : i <= L + 1
        BY <2>1 DEF Grows, Text!Positions
      <3> HIDE DEF S
      <3>2. PICK T : T = S(upto)'
        OBVIOUS
      <3> QED BY <2>1, <3>1, <3>2, GreatestOfText
    <2>2. CASE line.key # key
      <3>1. \A i : (i \in Text!Positions({key})' /\ i <= upto)
                     <=> (i \in Text!Positions({key}) /\ i <= L)
        BY <2>2 DEF Grows, Text!Positions
      <3>2. S(upto)' = S(L)
        BY <3>1
      <3> QED BY <2>2, <3>2
    <2> QED BY <2>1, <2>2
  <1>6. \A m \in 0 .. L : NewValue(m) = Value(m)
    BY DEF Grows, Text!Absent
  <1>7. NewValue(L + 1) = line.val
    BY DEF Grows
  <1> HIDE DEF S, Value, NewValue
  <1>8. \A upto \in 0 .. L : Text!Said(key, from, upto)' = Text!Said(key, from, upto)
    <2> SUFFICES ASSUME NEW upto \in 0 .. L
                 PROVE  Text!Said(key, from, upto)' = Text!Said(key, from, upto)
      OBVIOUS
    <2>1. PICK m \in 0 .. L : m = Text!Max(S(upto)) /\ m = Text!Max(S(upto)')
      BY <1>3
    <2>2. Text!Said(key, from, upto)' = NewValue(m)
      BY <1>2, <2>1
    <2>3. Text!Said(key, from, upto) = Value(m)
      BY <1>1, <2>1
    <2> QED BY <1>6, <2>2, <2>3
  <1>9. Text!Said(key, from, L + 1) = Text!Said(key, from, L)
    BY <1>1, <1>4
  <1>10. \A upto \in {L + 1, L + 2} :
            Text!Said(key, from, upto)' =
                IF line.key = key THEN line.val ELSE Text!Said(key, from, L)
    <2> SUFFICES ASSUME NEW upto \in {L + 1, L + 2}
                 PROVE  Text!Said(key, from, upto)' =
                            IF line.key = key THEN line.val ELSE Text!Said(key, from, L)
      OBVIOUS
    <2>1. PICK m \in 0 .. L : m = Text!Max(S(L)) /\ Text!Said(key, from, L) = Value(m)
      BY <1>1, <1>3
    <2>2. PICK new : new = Text!Max(S(upto)') /\ new = IF line.key = key THEN L + 1 ELSE m
      BY <1>5, <2>1
    <2>3. Text!Said(key, from, upto)' = NewValue(new)
      BY <1>2, <2>2
    <2> QED BY <1>6, <1>7, <2>1, <2>2, <2>3
  <1> QED BY <1>8, <1>9, <1>10

\* Where what stands below line p ends: at the next header, or behind the text.
End(heads, p) == Text!FirstIn(heads, p + 1)

LEMMA LeastOfText ==
    ASSUME NEW S \in SUBSET Int, NEW m \in S, \A x \in S : m <= x
    PROVE  Text!Min(S) = m
  <1>1. \A x \in S : (\A y \in S : x <= y) => x = m
    OBVIOUS
  <1> QED BY <1>1 DEF Text!Min

\* An end that is in the text stays; one behind it is where the new line is if that
\* is a header, and else behind the text still.
LEMMA EndMoves ==
    ASSUME NEW L \in Nat, NEW line, Grows(L, line), NEW heads, NEW p \in 0 .. L
    PROVE  /\ End(heads, p) \in p + 1 .. L + 1
           /\ End(heads, p)' = IF End(heads, p) <= L THEN End(heads, p)
                               ELSE IF line.key \in heads THEN L + 1 ELSE L + 2
           /\ End(heads, L + 1)' = L + 2
  <1> DEFINE S(from) == {i \in Text!Positions(heads) : from <= i} \cup {Len(world) + 1}
  <1>1. /\ \A q : End(heads, q) = Text!Min(S(q + 1))
        /\ \A q : End(heads, q)' = Text!Min(S(q + 1)')
    BY DEF End, Text!FirstIn, Text!Min
  <1>2. S(p + 1) \in SUBSET (p + 1 .. L + 1) /\ L + 1 \in S(p + 1)
    BY DEF Grows, Text!Positions
  <1>3. /\ L + 2 \in S(p + 1)'
        /\ \A i : i \in S(p + 1)' <=> \/ i \in S(p + 1) \ {L + 1}
                                      \/ i = L + 1 /\ line.key \in heads
                                      \/ i = L + 2
    BY DEF Grows, Text!Positions
  <1>4. S(L + 2)' = {L + 2}
    BY DEF Grows, Text!Positions
  <1>5. PICK T \in SUBSET (p + 1 .. L + 1) : T = S(p + 1)
    BY <1>2
  <1>6. PICK U : U = S(p + 1)'
    OBVIOUS
  <1> HIDE DEF S
  <1>7. PICK m \in T : \A i \in T : m <= i
    <2>1. T \in SUBSET Nat /\ T # {}
      BY <1>2, <1>5
    <2> QED BY <2>1, LeastNatural
  <1>8. End(heads, p) = m
    <2>1. T \in SUBSET Int
      OBVIOUS
    <2>2. Text!Min(T) = m
      BY <1>7, <2>1, LeastOfText
    <2> QED BY <1>1, <1>5, <2>2
  <1>9. PICK u : u = IF m <= L THEN m ELSE IF line.key \in heads THEN L + 1 ELSE L + 2
    OBVIOUS
  <1>10. u \in U /\ U \in SUBSET Int /\ \A i \in U : u <= i
    BY <1>2, <1>3, <1>5, <1>6, <1>7, <1>9
  <1>11. End(heads, p)' = u
    <2>1. Text!Min(U) = u
      BY <1>10, LeastOfText
    <2> QED BY <1>1, <1>6, <2>1
  <1>12. End(heads, L + 1)' = L + 2
    <2>1. PICK k \in Int : k = L + 2
      OBVIOUS
    <2>2. Text!Min({k}) = k
      BY LeastOfText
    <2>3. (L + 1) + 1 = L + 2
      OBVIOUS
    <2>4. S((L + 1) + 1)' = {k}
      BY <1>4, <2>1, <2>3
    <2> QED BY <1>1, <2>1, <2>2, <2>4
  <1>13. m \in p + 1 .. L + 1
    OBVIOUS
  <1> QED BY <1>8, <1>9, <1>11, <1>12, <1>13

\* What a key says below a header: what the new line says if nothing has ended it,
\* and else what it said.
LEMMA BelowMoves ==
    ASSUME NEW L \in Nat, NEW line, Grows(L, line), NEW heads, NEW key, key \notin heads,
           NEW p \in 0 .. L, NEW from \in 1 .. L + 1
    PROVE  Text!Said(key, from, End(heads, p))' =
              IF line.key = key /\ End(heads, p) = L + 1 THEN line.val
              ELSE Text!Said(key, from, End(heads, p))
  <1>1. PICK e \in 0 .. L + 1 : e = End(heads, p)
    BY EndMoves
  <1>2. PICK f : /\ f = End(heads, p)'
                 /\ f = IF e <= L THEN e ELSE IF line.key \in heads THEN L + 1 ELSE L + 2
    BY <1>1, EndMoves
  <1>3. Text!Said(key, from, End(heads, p))' = Text!Said(key, from, f)'
    BY <1>2 DEF Text!Said, Text!LastIn, Text!Max, Text!Absent
  <1>4. CASE e <= L
    <2>1. e \in 0 .. L
      BY <1>4
    <2>2. Text!Said(key, from, e)' = Text!Said(key, from, e)
      BY <2>1, SaidMoves
    <2> QED BY <1>1, <1>2, <1>3, <1>4, <2>2
  <1>5. CASE e = L + 1
    <2>1. f \in {L + 1, L + 2}
      BY <1>2, <1>5
    <2>2. /\ Text!Said(key, from, f)' = IF line.key = key THEN line.val
                                        ELSE Text!Said(key, from, L)
          /\ Text!Said(key, from, L + 1) = Text!Said(key, from, L)
      BY <2>1, SaidMoves
    <2> QED BY <1>1, <1>3, <1>5, <2>2
  <1> QED BY <1>4, <1>5

-----------------------------------------------------------------------------
(* Text parsers: the slaves of a bond *)

BondLines == UNION {ToolLines("bonding", n) : n \in 1 .. MaxLines}
BondValues == {Text!Absent} \cup {l.val : l \in BondLines}

SlaveHeader == {"Slave Interface"}
Slaves == Text!Positions(SlaveHeader)
SlaveRecords == [Text!SlaveKeys \cup {"name"} -> BondValues]

BondState == st \in [bond : [Text!BondKeys -> BondValues], slaves : Seq(SlaveRecords)]

\* The slave whose header is line p is told by the lines below it.
IsSlaveAt(slave, p) ==
    /\ slave.name = world[p].val
    /\ \A k \in Text!SlaveKeys : slave[k] = Text!Said(k, p, End(SlaveHeader, p))

\* The same, with the next line.
WillBeSlaveAt(slave, p) == IsSlaveAt(slave, p)'

\* Slave i is that of the i-th header, and its lines have ended unless it is the last.
IsSlave(i) ==
    /\ IsSlaveAt(st.slaves[i], Text!InOrder(Slaves)[i])
    /\ End(SlaveHeader, Text!InOrder(Slaves)[i]) = Len(world) + 1 <=> i = Len(st.slaves)

\* The bond's own lines have ended when there is a slave.
BondInv ==
    /\ world \in Seq(BondLines)
    /\ BondState
    /\ Len(st.slaves) = Cardinality(Slaves)
    /\ st.slaves = <<>> <=> End(SlaveHeader, 0) = Len(world) + 1
    /\ \A k \in Text!BondKeys : st.bond[k] = Text!Said(k, 1, End(SlaveHeader, 0))
    /\ \A i \in 1 .. Len(st.slaves) : IsSlave(i)

\* The positions of some headers, in order, before a line and with it.
LEMMA HeadersMove ==
    ASSUME NEW L \in Nat, NEW line, Grows(L, line), NEW heads
    PROVE  /\ Text!Positions(heads) \in SUBSET (1 .. L)
           /\ IsFiniteSet(Text!Positions(heads))
           /\ Cardinality(Text!Positions(heads)) \in Nat
           /\ Cardinality(Text!Positions(heads)') =
                Cardinality(Text!Positions(heads)) + IF line.key \in heads THEN 1 ELSE 0
           /\ \A k \in 1 .. Cardinality(Text!Positions(heads)) :
                /\ Text!InOrder(Text!Positions(heads))[k] \in 1 .. L
                /\ Text!InOrder(Text!Positions(heads))'[k] = Text!InOrder(Text!Positions(heads))[k]
           /\ line.key \in heads =>
                Text!InOrder(Text!Positions(heads))'[Cardinality(Text!Positions(heads)) + 1] = L + 1
  <1>1. PICK P \in SUBSET (1 .. L) : P = Text!Positions(heads)
    BY DEF Grows, Text!Positions
  <1>2. PICK Q \in SUBSET (1 .. L + 1) : Q = Text!Positions(heads)'
    BY DEF Grows, Text!Positions
  <1>3. \A i \in 1 .. L : i \in Q <=> i \in P
    BY <1>1, <1>2 DEF Grows, Text!Positions
  <1>4. L + 1 \in Q <=> line.key \in heads
    BY <1>2 DEF Grows, Text!Positions
  <1>5. Q = IF L + 1 \in Q THEN P \cup {L + 1} ELSE P
    BY <1>3, WithOrWithout
  <1>6. IsFiniteSet(P)
    <2>1. IsFiniteSet(1 .. L)
      BY FS_Interval
    <2> QED BY <2>1, FS_Subset
  <1>7. PICK n \in Nat : n = Cardinality(P)
    BY <1>6, FS_CardinalityType
  <1>8. PICK order : order = Text!InOrder(P) /\ \A k \in 1 .. n : order[k] \in 1 .. L
    <2>1. P \in SUBSET Nat
      OBVIOUS
    <2>2. \A k \in 1 .. n : Text!InOrder(P)[k] \in P
      BY <1>6, <1>7, <2>1, PlacesOf
    <2> QED BY <2>2
  <1>9. PICK later : later = Text!InOrder(Q)
    OBVIOUS
  <1>10. PICK more \in Nat : more = Cardinality(Q)
    <2>1. IsFiniteSet(1 .. L + 1)
      BY FS_Interval
    <2> QED BY <2>1, FS_Subset, FS_CardinalityType
  <1>11. /\ more = n + IF line.key \in heads THEN 1 ELSE 0
         /\ \A k \in 1 .. n : later[k] = order[k]
         /\ line.key \in heads => later[n + 1] = L + 1
    <2>1. CASE line.key \in heads
      <3>1. L + 1 \in Nat /\ P \in SUBSET Nat /\ \A p \in P : p < L + 1
        OBVIOUS
      <3>2. /\ Cardinality(P \cup {L + 1}) = Cardinality(P) + 1
            /\ \A k \in 1 .. Cardinality(P) :
                  Text!InOrder(P \cup {L + 1})[k] = Text!InOrder(P)[k]
            /\ Text!InOrder(P \cup {L + 1})[Cardinality(P) + 1] = L + 1
        BY <1>6, <3>1, OneMorePlace
      <3>3. Q = P \cup {L + 1}
        BY <1>4, <1>5, <2>1
      <3>4. /\ more = n + 1 /\ later[n + 1] = L + 1
            /\ \A k \in 1 .. n : later[k] = order[k]
        BY <1>7, <1>8, <1>9, <1>10, <3>2, <3>3, Zenon
      <3> QED BY <2>1, <3>4
    <2>2. CASE line.key \notin heads
      <3>1. Q = P
        BY <1>4, <1>5, <2>2
      <3> QED BY <1>7, <1>8, <1>9, <1>10, <2>2, <3>1
    <2> QED BY <2>1, <2>2
  <1>12. /\ Text!InOrder(Text!Positions(heads))' = later
         /\ Cardinality(Text!Positions(heads))' = more
    BY <1>2, <1>9, <1>10 DEF Text!InOrder, Text!Place, Text!Cardinality
  <1> QED BY <1>1, <1>6, <1>7, <1>8, <1>11, <1>12

\* No key of a bond or a slave is a header.
LEMMA KeysAreNoHeaders ==
    /\ \A k \in Text!BondKeys \cup Text!SlaveKeys : k \notin SlaveHeader
    /\ "name" \notin Text!SlaveKeys
  BY Zenon DEF Text!BondKeys, Text!SlaveKeys, SlaveHeader

LEMMA KeysAreConstant ==
    /\ SlaveHeader' = SlaveHeader
    /\ Text!BondKeys' = Text!BondKeys /\ Text!SlaveKeys' = Text!SlaveKeys
  BY Zenon DEF Text!BondKeys, Text!SlaveKeys, SlaveHeader

\* A slave's lines are read below its header alone.
LEMMA SlaveMoves ==
    ASSUME NEW L \in Nat, NEW line, Grows(L, line), NEW p \in 1 .. L, NEW slave,
           IsSlaveAt(slave, p), NEW other, other.name = slave.name,
           \A k \in Text!SlaveKeys :
              other[k] = IF line.key = k /\ End(SlaveHeader, p) = L + 1 THEN line.val ELSE slave[k]
    PROVE  WillBeSlaveAt(other, p)
  <1>1. world'[p] = world[p]
    BY DEF Grows
  <1>2. \A k \in Text!SlaveKeys : other[k] = Text!Said(k, p, End(SlaveHeader, p))'
    <2> SUFFICES ASSUME NEW k \in Text!SlaveKeys
                 PROVE  other[k] = Text!Said(k, p, End(SlaveHeader, p))'
      OBVIOUS
    <2>1. k \notin SlaveHeader
      BY KeysAreNoHeaders
    <2>2. p \in 0 .. L /\ p \in 1 .. L + 1
      OBVIOUS
    <2>3. Text!Said(k, p, End(SlaveHeader, p))' =
              IF line.key = k /\ End(SlaveHeader, p) = L + 1 THEN line.val
              ELSE Text!Said(k, p, End(SlaveHeader, p))
      BY <2>1, <2>2, BelowMoves
    <2> QED BY <2>3 DEF IsSlaveAt
  <1>3. other.name = world'[p].val
    BY <1>1 DEF IsSlaveAt
  <1> QED BY <1>2, <1>3, KeysAreConstant DEF WillBeSlaveAt, IsSlaveAt

\* Nothing has been said yet below the new line.
LEMMA NothingSaid ==
    ASSUME NEW L \in Nat, NEW line, Grows(L, line), NEW key
    PROVE  Text!Said(key, L + 1, L) = Text!Absent
  <1>1. {i \in Text!Positions({key}) : L + 1 <= i /\ i <= L} \cup {0} = {0}
    BY DEF Grows, Text!Positions
  <1>2. Text!Max({0}) = 0
    BY GreatestOfText
  <1> QED BY <1>1, <1>2 DEF Text!Said, Text!LastIn

\* A slave that has just been met.
LEMMA NewSlave ==
    ASSUME NEW L \in Nat, NEW line, Grows(L, line), line.key \in SlaveHeader,
           NEW slave, slave.name = line.val, \A k \in Text!SlaveKeys : slave[k] = Text!Absent
    PROVE  WillBeSlaveAt(slave, L + 1)
  <1>1. world'[L + 1].val = line.val
    BY DEF Grows
  <1>2. ASSUME NEW k \in Text!SlaveKeys
        PROVE  slave[k] = Text!Said(k, L + 1, End(SlaveHeader, L + 1))'
    <2>1. PICK e : e = End(SlaveHeader, L + 1)'
      OBVIOUS
    <2>2. e = L + 2
      <3>1. 0 \in 0 .. L
        OBVIOUS
      <3>2. End(SlaveHeader, L + 1)' = L + 2
        BY <3>1, EndMoves
      <3> QED BY <2>1, <3>2
    <2>3. Text!Said(k, L + 1, End(SlaveHeader, L + 1))' = Text!Said(k, L + 1, e)'
      BY <2>1 DEF Text!Said, Text!LastIn, Text!Max, Text!Absent
    <2>4. line.key # k
      BY KeysAreNoHeaders
    <2>5. Text!Said(k, L + 1, e)' = Text!Said(k, L + 1, L)
      <3>1. L + 1 \in 1 .. L + 1 /\ e \in {L + 1, L + 2}
        BY <2>2
      <3> QED BY <2>4, <3>1, SaidMoves
    <2> QED BY <2>3, <2>5, NothingSaid
  <1> QED BY <1>1, <1>2, KeysAreConstant DEF WillBeSlaveAt, IsSlaveAt

LEMMA SlaveRecord ==
    ASSUME NEW v \in BondValues, NEW r, r = Text!Put([k \in Text!SlaveKeys |-> Text!Absent], "name", v)
    PROVE  r \in SlaveRecords /\ r.name = v /\ \A k \in Text!SlaveKeys : r[k] = Text!Absent
  BY KeysAreNoHeaders DEF SlaveRecords, BondValues, Text!Put

\* What a line does to the bond and its slaves.
LEMMA BondUpdates ==
    ASSUME NEW line, NEW s, NEW t, t = Text!BondLine(s, line)
    PROVE  /\ line.key \in SlaveHeader =>
                t = [s EXCEPT !.slaves =
                        Append(s.slaves, Text!Put([k \in Text!SlaveKeys |-> Text!Absent],
                                                  "name", line.val))]
           /\ s.slaves # <<>> /\ line.key \in Text!SlaveKeys =>
                t = [s EXCEPT !.slaves =
                        [s.slaves EXCEPT ![Len(s.slaves)] =
                            [s.slaves[Len(s.slaves)] EXCEPT ![line.key] = line.val]]]
           /\ s.slaves = <<>> /\ line.key \in Text!BondKeys =>
                t = [s EXCEPT !.bond = [s.bond EXCEPT ![line.key] = line.val]]
           /\ (/\ line.key \notin SlaveHeader
               /\ ~(s.slaves # <<>> /\ line.key \in Text!SlaveKeys)
               /\ ~(s.slaves = <<>> /\ line.key \in Text!BondKeys)) => t = s
  <1>1. line.key \in SlaveHeader => line.key \notin Text!SlaveKeys /\ line.key \notin Text!BondKeys
    BY KeysAreNoHeaders
  <1> QED BY <1>1, Zenon DEF Text!BondLine, SlaveHeader

LEMMA BondStep ==
    ASSUME routine = "bonding", BondInv, Next
    PROVE  BondInv'
  <1>1. PICK L \in Nat, line \in BondLines :
           Grows(L, line) /\ Text!Parse(line) /\ world' \in Seq(BondLines)
    <2>1. world \in Seq(BondLines)
      BY Zenon DEF BondInv
    <2>2. \A n \in 1 .. MaxLines : ToolLines(routine, n) \subseteq BondLines
      BY DEF BondLines
    <2>3. routine \in TextTools
      BY DEF TextTools, Text!Starts
    <2> QED BY <2>1, <2>2, <2>3, OneMoreLine, Zenon
  <1>2. st' = Text!BondLine(st, line)
    BY <1>1 DEF Text!Parse
  <1>3. PICK bond \in [Text!BondKeys -> BondValues], slaves \in Seq(SlaveRecords) :
           st = [bond |-> bond, slaves |-> slaves]
    BY DEF BondInv, BondState
  <1>0. /\ st.bond = bond /\ st.slaves = slaves
        /\ \A x : [st EXCEPT !.bond = x] = [bond |-> x, slaves |-> slaves]
        /\ \A x : [st EXCEPT !.slaves = x] = [bond |-> bond, slaves |-> x]
    BY <1>3
  <1>4. PICK n \in Nat : n = Len(slaves)
    BY <1>3
  <1>5. PICK order : order = Text!InOrder(Slaves)
    OBVIOUS
  <1>6. Cardinality(Slaves) = n
    BY <1>3, <1>4 DEF BondInv
  <1>7. PICK later : later = Text!InOrder(Slaves)'
    OBVIOUS
  <1>8. /\ \A i \in 1 .. n : order[i] \in 1 .. L /\ later[i] = order[i]
        /\ line.key \in SlaveHeader => later[n + 1] = L + 1
        /\ Cardinality(Slaves)' = n + IF line.key \in SlaveHeader THEN 1 ELSE 0
    BY <1>1, <1>5, <1>6, <1>7, HeadersMove DEF Slaves
  <1>9. Len(world) = L /\ Len(world') = L + 1
    BY <1>1 DEF Grows
  <1>10. /\ slaves = <<>> <=> n = 0
         /\ n = 0 <=> End(SlaveHeader, 0) = L + 1
         /\ \A k \in Text!BondKeys : bond[k] = Text!Said(k, 1, End(SlaveHeader, 0))
         /\ \A i \in 1 .. n : /\ IsSlaveAt(slaves[i], order[i])
                              /\ End(SlaveHeader, order[i]) = L + 1 <=> i = n
    <2>1. slaves = <<>> <=> n = 0
      BY <1>4
    <2> QED BY <1>3, <1>4, <1>5, <1>9, <2>1 DEF BondInv, IsSlave
  <1>11. \A p \in 0 .. L : End(SlaveHeader, p)' = L + 2
                             <=> End(SlaveHeader, p) = L + 1 /\ line.key \notin SlaveHeader
    <2> SUFFICES ASSUME NEW p \in 0 .. L
                 PROVE  End(SlaveHeader, p)' = L + 2
                          <=> End(SlaveHeader, p) = L + 1 /\ line.key \notin SlaveHeader
      OBVIOUS
    <2>1. /\ End(SlaveHeader, p) \in p + 1 .. L + 1
          /\ End(SlaveHeader, p)' = IF End(SlaveHeader, p) <= L THEN End(SlaveHeader, p)
                                    ELSE IF line.key \in SlaveHeader THEN L + 1 ELSE L + 2
      BY <1>1, EndMoves
    <2> QED BY <2>1
  <1>12. ASSUME NEW k \in Text!BondKeys
         PROVE  Text!Said(k, 1, End(SlaveHeader, 0))' =
                   IF line.key = k /\ n = 0 THEN line.val ELSE bond[k]
    <2>1. k \notin SlaveHeader
      BY KeysAreNoHeaders
    <2>2. 0 \in 0 .. L /\ 1 \in 1 .. L + 1
      OBVIOUS
    <2>3. Text!Said(k, 1, End(SlaveHeader, 0))' =
             IF line.key = k /\ End(SlaveHeader, 0) = L + 1 THEN line.val
             ELSE Text!Said(k, 1, End(SlaveHeader, 0))
      BY <1>1, <2>1, <2>2, BelowMoves
    <2> QED BY <1>10, <2>3
  <1>13. line.val \in BondValues
    BY <1>1 DEF BondValues
  \* What each case has to show.
  <1> DEFINE Good(b, s) ==
                /\ b \in [Text!BondKeys -> BondValues] /\ s \in Seq(SlaveRecords)
                /\ Len(s) = n + IF line.key \in SlaveHeader THEN 1 ELSE 0
                /\ \A k \in Text!BondKeys : b[k] = IF line.key = k /\ n = 0 THEN line.val ELSE bond[k]
                /\ \A i \in 1 .. Len(s) : WillBeSlaveAt(s[i], later[i])
  <1>14. ASSUME line.key \in SlaveHeader
         PROVE  \E b, s : st' = [bond |-> b, slaves |-> s] /\ Good(b, s)
    <2>1. line.key \in SlaveHeader /\ line.key \notin Text!BondKeys /\ line.key \notin Text!SlaveKeys
      BY <1>14, KeysAreNoHeaders
    <2>2. PICK new : new = Text!Put([k \in Text!SlaveKeys |-> Text!Absent], "name", line.val)
      OBVIOUS
    <2>3. PICK grown : grown = Append(slaves, new)
      OBVIOUS
    <2>4. st' = [bond |-> bond, slaves |-> grown]
      <3>1. st' = [st EXCEPT !.slaves = grown]
        BY <1>0, <1>2, <1>14, <2>2, <2>3, BondUpdates
      <3> QED BY <1>0, <3>1, Zenon
    <2>5. new \in SlaveRecords /\ WillBeSlaveAt(new, L + 1)
      BY <1>1, <1>13, <2>1, <2>2, SlaveRecord, NewSlave
    <2>6. /\ grown \in Seq(SlaveRecords) /\ Len(grown) = n + 1
          /\ \A i \in 1 .. n : grown[i] = slaves[i]
          /\ grown[n + 1] = new
      BY <1>4, <2>3, <2>5, AppendOne
    <2>7. \A i \in 1 .. n : WillBeSlaveAt(slaves[i], order[i])
      BY <1>1, <1>8, <1>10, <2>1, SlaveMoves
    <2>8. \A i \in 1 .. n + 1 : WillBeSlaveAt(grown[i], later[i])
      BY <1>8, <2>1, <2>5, <2>6, <2>7
    <2>9. Good(bond, grown)
      BY <2>1, <2>6, <2>8
    <2> QED BY <2>4, <2>9
  <1>15. ASSUME slaves # <<>> /\ line.key \in Text!SlaveKeys
         PROVE  \E b, s : st' = [bond |-> b, slaves |-> s] /\ Good(b, s)
    <2>1. line.key \notin SlaveHeader /\ n # 0 /\ n \in 1 .. n
      BY <1>4, <1>15, KeysAreNoHeaders
    <2>2. PICK s : s = [slaves EXCEPT ![n][line.key] = line.val]
      OBVIOUS
    <2>3. st' = [bond |-> bond, slaves |-> s]
      <3>1. st' = [st EXCEPT !.slaves = s]
        BY <1>0, <1>2, <1>4, <1>15, <2>2, BondUpdates
      <3> QED BY <1>0, <3>1, Zenon
    <2>4. PICK other : other = [slaves[n] EXCEPT ![line.key] = line.val]
      OBVIOUS
    <2>5. slaves[n] \in SlaveRecords
      BY <1>4, <2>1
    <2>6. /\ other \in SlaveRecords /\ other.name = slaves[n].name
          /\ \A k \in Text!SlaveKeys : other[k] = IF line.key = k THEN line.val ELSE slaves[n][k]
      BY <1>13, <1>15, <2>4, <2>5, KeysAreNoHeaders DEF SlaveRecords
    <2>7. /\ s \in Seq(SlaveRecords) /\ Len(s) = n /\ s[n] = other
          /\ \A i \in 1 .. n : i # n => s[i] = slaves[i]
      BY <1>4, <2>1, <2>2, <2>4, <2>6
    <2>8. WillBeSlaveAt(other, order[n])
      <3>1. PICK p, slave :
               /\ p \in 1 .. L /\ p = order[n] /\ slave = slaves[n] /\ IsSlaveAt(slave, p)
               /\ End(SlaveHeader, p) = L + 1
        BY <1>8, <1>10, <2>1
      <3>2. /\ other.name = slave.name
            /\ \A k \in Text!SlaveKeys :
                  other[k] = IF line.key = k /\ End(SlaveHeader, p) = L + 1 THEN line.val
                             ELSE slave[k]
        BY <2>6, <3>1
      <3>3. WillBeSlaveAt(other, p)
        BY <1>1, <3>1, <3>2, SlaveMoves
      <3> QED BY <3>1, <3>3
    <2>9. ASSUME NEW i \in 1 .. n, i # n
          PROVE  WillBeSlaveAt(slaves[i], order[i])
      BY <1>1, <1>8, <1>10, <2>9, SlaveMoves
    <2>10. \A i \in 1 .. n : WillBeSlaveAt(s[i], later[i])
      BY <1>8, <2>7, <2>8, <2>9
    <2>11. Good(bond, s)
      BY <2>1, <2>7, <2>10
    <2> QED BY <2>3, <2>11
  <1>16. ASSUME slaves = <<>> /\ line.key \in Text!BondKeys
         PROVE  \E b, s : st' = [bond |-> b, slaves |-> s] /\ Good(b, s)
    <2>1. line.key \notin SlaveHeader /\ n = 0
      BY <1>4, <1>16, KeysAreNoHeaders
    <2>2. PICK b : b = [bond EXCEPT ![line.key] = line.val]
      OBVIOUS
    <2>3. st' = [bond |-> b, slaves |-> slaves]
      <3>1. st.slaves = <<>> /\ line.key \in Text!BondKeys
        BY <1>0, <1>16
      <3>2. st' = [st EXCEPT !.bond = [st.bond EXCEPT ![line.key] = line.val]]
        BY <1>2, <3>1, BondUpdates, Zenon
      <3> QED BY <1>0, <2>2, <3>2, Zenon
    <2>4. Good(b, slaves)
      BY <1>4, <1>13, <1>16, <2>1, <2>2
    <2> QED BY <2>3, <2>4
  <1>17. ASSUME /\ line.key \notin SlaveHeader
                /\ ~(slaves # <<>> /\ line.key \in Text!SlaveKeys)
                /\ ~(slaves = <<>> /\ line.key \in Text!BondKeys)
         PROVE  \E b, s : st' = [bond |-> b, slaves |-> s] /\ Good(b, s)
    <2>1. line.key \notin SlaveHeader
      BY <1>17
    <2>2. st' = [bond |-> bond, slaves |-> slaves]
      <3>1. st' = st
        BY <1>0, <1>2, <1>17, BondUpdates
      <3> QED BY <1>3, <3>1, Zenon
    <2>3. ASSUME NEW i \in 1 .. n
          PROVE  WillBeSlaveAt(slaves[i], later[i])
      <3>1. slaves # <<>> /\ line.key \notin Text!SlaveKeys
        BY <1>4, <1>17
      <3>2. WillBeSlaveAt(slaves[i], order[i])
        BY <1>1, <1>8, <1>10, <3>1, SlaveMoves
      <3> QED BY <1>8, <3>2
    <2>4. \A k \in Text!BondKeys : ~(line.key = k /\ n = 0)
      BY <1>10, <1>17
    <2>5. Good(bond, slaves)
      BY <1>4, <2>1, <2>3, <2>4
    <2> QED BY <2>2, <2>5
  <1> HIDE DEF Good
  <1>18. PICK b, s : st' = [bond |-> b, slaves |-> s] /\ Good(b, s)
    BY <1>14, <1>15, <1>16, <1>17, Zenon
  <1>19. PICK m \in Nat : /\ m = Len(s) /\ m = n + IF line.key \in SlaveHeader THEN 1 ELSE 0
                          /\ s = <<>> <=> m = 0
    BY <1>18 DEF Good
  <1>20. BondState'
    BY <1>18, KeysAreConstant DEF Good, BondState, BondValues, SlaveRecords, BondLines, Text!Absent
  <1>21. m = 0 <=> End(SlaveHeader, 0)' = L + 2
    <2>1. 0 \in 0 .. L
      OBVIOUS
    <2> QED BY <1>10, <1>11, <1>19, <2>1
  <1>22. \A i \in 1 .. m : End(SlaveHeader, later[i])' = L + 2 <=> i = m
    <2> SUFFICES ASSUME NEW i \in 1 .. m
                 PROVE  End(SlaveHeader, later[i])' = L + 2 <=> i = m
      OBVIOUS
    <2>1. CASE i \in 1 .. n
      <3>1. PICK p \in 0 .. L : p = order[i] /\ p = later[i]
        BY <1>8, <2>1
      <3>2. End(SlaveHeader, p)' = L + 2 <=> i = n /\ line.key \notin SlaveHeader
        BY <1>10, <1>11, <2>1, <3>1
      <3> QED BY <1>19, <2>1, <3>1, <3>2
    <2>2. CASE i \notin 1 .. n
      <3>1. i = n + 1 /\ line.key \in SlaveHeader /\ i = m
        BY <1>19, <2>2
      <3>2. 0 \in 0 .. L
        OBVIOUS
      <3>3. End(SlaveHeader, L + 1)' = L + 2
        BY <1>1, <3>2, EndMoves
      <3> QED BY <1>8, <3>1, <3>3
    <2> QED BY <2>1, <2>2
  <1>23. \A k \in Text!BondKeys : b[k] = Text!Said(k, 1, End(SlaveHeader, 0))'
    BY <1>12, <1>18 DEF Good
  <1>24. \A i \in 1 .. m : WillBeSlaveAt(s[i], later[i])
    BY <1>18, <1>19 DEF Good
  <1>25. world' \in Seq(BondLines)'
    BY <1>1 DEF BondLines
  <1>26. Len(st'.slaves) = Cardinality(Slaves)'
    BY <1>8, <1>18, <1>19
  <1>27. /\ st'.slaves = <<>> <=> End(SlaveHeader, 0)' = Len(world') + 1
         /\ \A k \in Text!BondKeys : st'.bond[k] = Text!Said(k, 1, End(SlaveHeader, 0))'
    BY <1>9, <1>18, <1>19, <1>21, <1>23
  <1>28. ASSUME NEW i \in 1 .. m
         PROVE  IsSlave(i)'
    <2>1. PICK p, slave : p = later[i] /\ slave = s[i]
      OBVIOUS
    <2>2. WillBeSlaveAt(slave, p) /\ (End(SlaveHeader, p)' = L + 2 <=> i = m)
      BY <1>22, <1>24, <2>1
    <2>3. IsSlaveAt(st.slaves[i], Text!InOrder(Slaves)[i])'
      BY <1>7, <1>18, <2>1, <2>2, KeysAreConstant DEF WillBeSlaveAt, IsSlaveAt
    <2>4. End(SlaveHeader, Text!InOrder(Slaves)[i])' = End(SlaveHeader, p)'
      BY <1>7, <2>1, KeysAreConstant DEF End, Text!FirstIn, Text!Min, Text!Positions
    <2>5. Len(st'.slaves) = m /\ Len(world') + 1 = L + 2
      <3>1. st'.slaves = s
        BY <1>18
      <3>2. Len(st'.slaves) = m
        BY <1>19, <3>1
      <3>3. Len(world') + 1 = L + 2
        BY <1>9
      <3> QED BY <3>2, <3>3
    <2>6. End(SlaveHeader, Text!InOrder(Slaves)[i])' = Len(world') + 1 <=> i = Len(st'.slaves)
      <3>1. PICK e : e = End(SlaveHeader, p)' /\ (e = L + 2 <=> i = m)
        BY <2>2
      <3>2. End(SlaveHeader, Text!InOrder(Slaves)[i])' = e
        BY <2>4, <3>1, Zenon
      <3> QED BY <2>5, <3>1, <3>2, Zenon
    <2> QED BY <2>3, <2>6 DEF IsSlave
  <1> QED BY <1>18, <1>19, <1>20, <1>25, <1>26, <1>27, <1>28, KeysAreConstant DEF BondInv

-----------------------------------------------------------------------------
(* Text parsers: the ports of ibv_devinfo *)

IbvLines == UNION {ToolLines("ibv_devinfo", n) : n \in 1 .. MaxLines}
IbvValues == {Text!Absent} \cup {l.val : l \in IbvLines}

BlockHeads == {"hca_id", "port"}
PortLines == Text!Positions({"port"})

Ports == [device : IbvValues, port : IbvValues, transport : IbvValues, fw_ver : IbvValues,
          state : IbvValues, link_layer : IbvValues]

IbvState == st \in [devices : Seq(Ports), cur : Seq(Ports), hca_id : IbvValues,
                    transport : IbvValues, fw_ver : IbvValues]

\* The line at which the stanza begins that a line stands in.
Stanza(p) == Text!LastIn({"hca_id"}, 1, p)

\* What has been said up to a line of its device, and of the stanza it stands in.
DeviceAt(p) == Text!Said("hca_id", 1, p)
InStanza(key, p) == Text!Said(key, Stanza(p) + 1, p)

\* The port whose block opens at line p is told by its stanza and by its block.
IsPortAt(block, p) ==
    /\ block.device = DeviceAt(p)
    /\ block.port = world[p].val
    /\ block.transport = InStanza("transport", p)
    /\ block.fw_ver = InStanza("fw_ver", p)
    /\ block.state = Text!Said("state", p, End(BlockHeads, p))
    /\ block.link_layer = Text!Said("link_layer", p, End(BlockHeads, p))

\* The same, with the next line.
WillBePortAt(block, p) == IsPortAt(block, p)'

\* What the stanza has said so far.
StanzaSays(s) ==
    /\ s.hca_id = DeviceAt(Len(world))
    /\ s.transport = InStanza("transport", Len(world))
    /\ s.fw_ver = InStanza("fw_ver", Len(world))

\* Block k is that of the k-th port line, and only cur, behind the devices, is open.
IsPort(k) ==
    /\ IsPortAt((st.devices \o st.cur)[k], Text!InOrder(PortLines)[k])
    /\ End(BlockHeads, Text!InOrder(PortLines)[k]) = Len(world) + 1 <=> k = Len(st.devices) + 1

IbvInv ==
    /\ world \in Seq(IbvLines)
    /\ IbvState
    /\ Len(st.cur) <= 1
    /\ StanzaSays(st)
    /\ Len(st.devices \o st.cur) = Cardinality(PortLines)
    /\ \A k \in 1 .. Len(st.devices \o st.cur) : IsPort(k)

\* Nothing is said between a line and one before it.
LEMMA NothingSaidYet ==
    ASSUME NEW L \in Nat, NEW line, Grows(L, line), NEW key
    PROVE  Text!Said(key, L + 2, L + 1)' = Text!Absent
  <1>1. {i \in Text!Positions({key})' : L + 2 <= i /\ i <= L + 1} \cup {0} = {0}
    BY DEF Grows, Text!Positions
  <1>2. Text!Max({0}) = 0
    BY GreatestOfText
  <1> QED BY <1>1, <1>2 DEF Text!Said, Text!LastIn, Text!Max, Text!Absent

\* Between equal lines the same is said with the next line too.
LEMMA SaidAlike ==
    ASSUME NEW key, NEW from, NEW upto, NEW f, NEW u, f = from, u = upto
    PROVE  Text!Said(key, from, upto)' = Text!Said(key, f, u)'
  OBVIOUS

LEMMA SaidInStanza ==
    ASSUME NEW key, NEW p, NEW h, h = Stanza(p)'
    PROVE  InStanza(key, p)' = Text!Said(key, h + 1, p)'
  BY DEF InStanza, Text!Said, Text!LastIn, Text!Max, Text!Absent

\* What the device line last said stays, and the new line may say it anew.
LEMMA DeviceMoves ==
    ASSUME NEW L \in Nat, NEW line, Grows(L, line), NEW p \in 0 .. L
    PROVE  /\ DeviceAt(p)' = DeviceAt(p)
           /\ DeviceAt(L + 1)' = IF line.key = "hca_id" THEN line.val ELSE DeviceAt(L)
  <1>0. PICK key : key = "hca_id"
    OBVIOUS
  <1>1. PICK from \in 1 .. L + 1, upto \in {L + 1, L + 2} : from = 1 /\ upto = L + 1
    OBVIOUS
  <1>2. /\ Text!Said(key, from, p)' = Text!Said(key, from, p)
        /\ Text!Said(key, from, upto)' =
              IF line.key = key THEN line.val ELSE Text!Said(key, from, L)
    BY <1>1, SaidMoves
  <1> QED BY <1>0, <1>1, <1>2 DEF DeviceAt

\* What the stanza of a line has said stays, and the new line adds to the last stanza.
LEMMA StanzaMoves ==
    ASSUME NEW L \in Nat, NEW line, Grows(L, line), NEW key, key # "hca_id",
           NEW p \in 0 .. L
    PROVE  /\ InStanza(key, p)' = InStanza(key, p)
           /\ InStanza(key, L + 1)' =
                IF line.key = "hca_id" THEN Text!Absent
                ELSE IF line.key = key THEN line.val ELSE InStanza(key, L)
  <1>1. PICK h \in 0 .. p : h = Stanza(p) /\ h = Stanza(p)'
    BY LastStays DEF Stanza
  <1>2. PICK g \in 0 .. L : g = Stanza(L)
    <2>1. L \in 0 .. L
      OBVIOUS
    <2> QED BY <2>1, LastStays DEF Stanza
  <1>3. PICK e \in 0 .. L + 1 : e = Stanza(L + 1)' /\ e = IF line.key = "hca_id" THEN L + 1 ELSE g
    BY <1>2, LastMoves DEF Stanza
  <1>4. PICK from \in 1 .. L + 1, last \in 1 .. L + 1, next \in Nat, upto \in {L + 1, L + 2} :
           from = h + 1 /\ last = g + 1 /\ next = e + 1 /\ upto = L + 1
    <2>1. h + 1 \in 1 .. L + 1 /\ g + 1 \in 1 .. L + 1
      OBVIOUS
    <2> QED BY <2>1
  <1>5. /\ InStanza(key, p) = Text!Said(key, from, p)
        /\ InStanza(key, L) = Text!Said(key, last, L)
    BY <1>1, <1>2, <1>4 DEF InStanza
  <1>6. InStanza(key, p)' = Text!Said(key, from, p)'
    BY <1>1, <1>4 DEF InStanza, Text!Said, Text!LastIn, Text!Max, Text!Absent
  <1>7. InStanza(key, L + 1)' = Text!Said(key, next, upto)'
    <2>1. InStanza(key, L + 1)' = Text!Said(key, e + 1, L + 1)'
      BY <1>3, SaidInStanza
    <2>2. next = e + 1 /\ upto = L + 1
      BY <1>4
    <2> QED BY <2>1, <2>2, SaidAlike
  <1>8. Text!Said(key, from, p)' = Text!Said(key, from, p)
    BY <1>4, SaidMoves
  <1>9. CASE line.key = "hca_id"
    <2>1. next = L + 2 /\ upto = L + 1
      BY <1>3, <1>4, <1>9
    <2>2. Text!Said(key, next, upto)' = Text!Said(key, L + 2, L + 1)'
      BY <2>1, SaidAlike
    <2> QED BY <1>5, <1>6, <1>7, <1>8, <1>9, <2>2, NothingSaidYet
  <1>10. CASE line.key # "hca_id"
    <2>1. next = last
      BY <1>3, <1>4, <1>10
    <2>2. Text!Said(key, last, upto)' =
             IF line.key = key THEN line.val ELSE Text!Said(key, last, L)
      <3>1. last \in 1 .. L + 1 /\ upto \in {L + 1, L + 2}
        BY <1>4
      <3> QED BY <3>1, SaidMoves
    <2>3. Text!Said(key, next, upto)' = Text!Said(key, last, upto)'
      BY <2>1, SaidAlike
    <2> QED BY <1>5, <1>6, <1>7, <1>8, <1>10, <2>2, <2>3
  <1> QED BY <1>9, <1>10

\* A block's lines are read below its own header alone, its stanza's above it.
LEMMA PortMoves ==
    ASSUME NEW L \in Nat, NEW line, Grows(L, line), NEW p \in 1 .. L, NEW block,
           IsPortAt(block, p), NEW other,
           other.device = block.device, other.port = block.port,
           other.transport = block.transport, other.fw_ver = block.fw_ver,
           other.state = IF line.key = "state" /\ End(BlockHeads, p) = L + 1 THEN line.val
                         ELSE block.state,
           other.link_layer = IF line.key = "link_layer" /\ End(BlockHeads, p) = L + 1
                              THEN line.val ELSE block.link_layer
    PROVE  WillBePortAt(other, p)
  <1>1. p \in 0 .. L /\ p \in 1 .. L + 1 /\ 1 \in 1 .. L + 1
    OBVIOUS
  <1>2. DeviceAt(p)' = DeviceAt(p)
    BY <1>1, DeviceMoves
  <1>3. \A key \in {"transport", "fw_ver"} :
           InStanza(key, p)' =
                InStanza(key, p)
    <2> SUFFICES ASSUME NEW key \in {"transport", "fw_ver"}
                 PROVE  InStanza(key, p)' =
                            InStanza(key, p)
      OBVIOUS
    <2>1. key # "hca_id"
      OBVIOUS
    <2> QED BY <1>1, <2>1, StanzaMoves
  <1>4. \A key \in {"state", "link_layer"} :
           Text!Said(key, p, End(BlockHeads, p))' =
                IF line.key = key /\ End(BlockHeads, p) = L + 1 THEN line.val
                ELSE Text!Said(key, p, End(BlockHeads, p))
    <2> SUFFICES ASSUME NEW key \in {"state", "link_layer"}
                 PROVE  Text!Said(key, p, End(BlockHeads, p))' =
                            IF line.key = key /\ End(BlockHeads, p) = L + 1 THEN line.val
                            ELSE Text!Said(key, p, End(BlockHeads, p))
      OBVIOUS
    <2>1. key \notin BlockHeads
      BY DEF BlockHeads
    <2> QED BY <1>1, <2>1, BelowMoves
  <1>5. world'[p].val = world[p].val
    BY DEF Grows
  <1>6. /\ other.transport = InStanza("transport", p)'
        /\ other.fw_ver = InStanza("fw_ver", p)'
        /\ other.device = DeviceAt(p)' /\ other.port = world'[p].val
    BY <1>2, <1>3, <1>5 DEF IsPortAt
  <1>7. /\ other.state = Text!Said("state", p, End(BlockHeads, p))'
        /\ other.link_layer = Text!Said("link_layer", p, End(BlockHeads, p))'
    BY <1>4 DEF IsPortAt
  <1>8. BlockHeads' = BlockHeads
    BY DEF BlockHeads
  <1> QED BY <1>6, <1>7, <1>8, Zenon DEF WillBePortAt, IsPortAt

\* A port that has just been met.
LEMMA NewPort ==
    ASSUME NEW L \in Nat, NEW line, Grows(L, line), line.key = "port", NEW block,
           block.device = DeviceAt(L), block.port = line.val,
           block.transport = InStanza("transport", L),
           block.fw_ver = InStanza("fw_ver", L),
           block.state = Text!Absent, block.link_layer = Text!Absent
    PROVE  WillBePortAt(block, L + 1)
  <1>1. L \in 0 .. L /\ 1 \in 1 .. L + 1 /\ L + 1 \in {L + 1, L + 2} /\ L + 1 \in 1 .. L + 1
        /\ L + 2 \in {L + 1, L + 2}
    OBVIOUS
  <1>2. DeviceAt(L + 1)' = DeviceAt(L)
    BY <1>1, DeviceMoves
  <1>3. \A key \in {"transport", "fw_ver"} :
           InStanza(key, L + 1)' =
                InStanza(key, L)
    <2> SUFFICES ASSUME NEW key \in {"transport", "fw_ver"}
                 PROVE  InStanza(key, L + 1)' =
                            InStanza(key, L)
      OBVIOUS
    <2>1. key # "hca_id" /\ line.key # "hca_id" /\ line.key # key
      OBVIOUS
    <2> QED BY <1>1, <2>1, StanzaMoves
  <1>4. PICK e : e = End(BlockHeads, L + 1)' /\ e = L + 2
    BY <1>1, EndMoves
  <1>5. \A key \in {"state", "link_layer"} :
           Text!Said(key, L + 1, End(BlockHeads, L + 1))' = Text!Absent
    <2> SUFFICES ASSUME NEW key \in {"state", "link_layer"}
                 PROVE  Text!Said(key, L + 1, End(BlockHeads, L + 1))' = Text!Absent
      OBVIOUS
    <2>1. Text!Said(key, L + 1, End(BlockHeads, L + 1))' = Text!Said(key, L + 1, e)'
      BY <1>4 DEF Text!Said, Text!LastIn, Text!Max, Text!Absent
    <2>2. line.key # key
      OBVIOUS
    <2>3. Text!Said(key, L + 1, e)' = Text!Said(key, L + 1, L)
      BY <1>1, <1>4, <2>2, SaidMoves
    <2> QED BY <2>1, <2>3, NothingSaid
  <1>6. /\ block.transport = InStanza("transport", L + 1)'
     /\ block.fw_ver = InStanza("fw_ver", L + 1)'
     /\ block.device = DeviceAt(L + 1)'
    BY <1>2, <1>3
  <1>7. block.port = world'[L + 1].val
    BY DEF Grows
  <1>8. /\ block.state = Text!Said("state", L + 1, End(BlockHeads, L + 1))'
     /\ block.link_layer = Text!Said("link_layer", L + 1, End(BlockHeads, L + 1))'
    BY <1>5
  <1>9. BlockHeads' = BlockHeads
    BY DEF BlockHeads
  <1> QED BY <1>6, <1>7, <1>8, <1>9, Zenon DEF WillBePortAt, IsPortAt

\* A line that names a field of an open block sets it there.
LEMMA PortUpdates ==
    ASSUME NEW V, NEW block \in [device : V, port : V, transport : V, fw_ver : V,
                                 state : V, link_layer : V],
           NEW key, key \notin {"device", "port", "transport", "fw_ver"}, NEW v \in V,
           NEW other, other = [block EXCEPT ![key] = v]
    PROVE  /\ other \in [device : V, port : V, transport : V, fw_ver : V,
                         state : V, link_layer : V]
           /\ other.device = block.device /\ other.port = block.port
           /\ other.transport = block.transport /\ other.fw_ver = block.fw_ver
           /\ other.state = IF key = "state" THEN v ELSE block.state
           /\ other.link_layer = IF key = "link_layer" THEN v ELSE block.link_layer
  OBVIOUS

\* Two fields of the parser's variables set at once.
Locals(d, c, h, tr, fw) ==
    [devices |-> d, cur |-> c, hca_id |-> h, transport |-> tr, fw_ver |-> fw]

OpenNext(s, d, c) == [s EXCEPT !.devices = d, !.cur = c]
StanzaNext(s, d, h) == [s EXCEPT !.devices = d, !.hca_id = h]

LEMMA TwoFields ==
    ASSUME NEW d, NEW c, NEW h, NEW tr, NEW fw, NEW x, NEW y, NEW r, r = Locals(d, c, h, tr, fw)
    PROVE  OpenNext(r, x, y) = Locals(x, y, h, tr, fw) /\ StanzaNext(r, x, y) = Locals(x, c, y, tr, fw)
  <1>1. /\ [r EXCEPT !.devices = x, !.cur = y] = [[r EXCEPT !.devices = x] EXCEPT !.cur = y]
        /\ [r EXCEPT !.devices = x, !.hca_id = y] = [[r EXCEPT !.devices = x] EXCEPT !.hca_id = y]
    BY Zenon
  <1>2. [r EXCEPT !.devices = x] =
            [devices |-> x, cur |-> c, hca_id |-> h, transport |-> tr, fw_ver |-> fw]
    BY DEF Locals
  <1>3. PICK s : /\ s = [r EXCEPT !.devices = x]
                 /\ s = [devices |-> x, cur |-> c, hca_id |-> h, transport |-> tr, fw_ver |-> fw]
    BY <1>2
  <1>4. s = [devices |-> x, cur |-> c, hca_id |-> h, transport |-> tr, fw_ver |-> fw]
    BY <1>3
  <1>5. /\ [s EXCEPT !.cur = y] =
                [devices |-> x, cur |-> y, hca_id |-> h, transport |-> tr, fw_ver |-> fw]
        /\ [s EXCEPT !.hca_id = y] =
                [devices |-> x, cur |-> c, hca_id |-> y, transport |-> tr, fw_ver |-> fw]
    BY <1>4
  <1> QED BY <1>1, <1>3, <1>5, Zenon DEF Locals, OpenNext, StanzaNext

LEMMA Concatenated ==
    ASSUME NEW S, NEW a \in Seq(S), NEW b \in Seq(S), NEW all, all = a \o b
    PROVE  /\ all \in Seq(S) /\ Len(all) = Len(a) + Len(b)
           /\ \A k \in 1 .. Len(a) : all[k] = a[k]
           /\ \A k \in 1 .. Len(b) : all[Len(a) + k] = b[k]
  OBVIOUS

\* What a line does to the stanza, the devices and the open block.
LEMMA IbvUpdates ==
    ASSUME NEW line, NEW s, NEW t, t = Text!IbvLine(s, line)
    PROVE  /\ line.key = "hca_id" =>
                t = [Text!IbvStart EXCEPT !.devices = s.devices \o s.cur, !.hca_id = line.val]
           /\ line.key \in {"transport", "fw_ver"} => t = [s EXCEPT ![line.key] = line.val]
           /\ line.key = "port" =>
                t = [s EXCEPT !.devices = s.devices \o s.cur,
                              !.cur = <<[device |-> s.hca_id, port |-> line.val,
                                         transport |-> s.transport, fw_ver |-> s.fw_ver,
                                         state |-> Text!Absent, link_layer |-> Text!Absent]>>]
           /\ line.key \notin {"hca_id", "transport", "fw_ver", "port"} =>
                t = IF s.cur = <<>> THEN s ELSE [s EXCEPT !.cur[1][line.key] = line.val]
  BY Zenon DEF Text!IbvLine, Text!Flush

LEMMA IbvStep ==
    ASSUME routine = "ibv_devinfo", IbvInv, Next
    PROVE  IbvInv'
  <1>1. PICK L \in Nat, line \in IbvLines :
           Grows(L, line) /\ Text!Parse(line) /\ world' \in Seq(IbvLines)
    <2>1. world \in Seq(IbvLines)
      BY Zenon DEF IbvInv
    <2>2. \A n \in 1 .. MaxLines : ToolLines(routine, n) \subseteq IbvLines
      BY DEF IbvLines
    <2>3. routine \in TextTools
      BY DEF TextTools, Text!Starts
    <2> QED BY <2>1, <2>2, <2>3, OneMoreLine, Zenon
  <1>2. st' = Text!IbvLine(st, line)
    BY <1>1 DEF Text!Parse
  <1>3. PICK devices \in Seq(Ports), cur \in Seq(Ports), hca \in IbvValues,
             transport \in IbvValues, fw_ver \in IbvValues :
           st = [devices |-> devices, cur |-> cur, hca_id |-> hca,
                 transport |-> transport, fw_ver |-> fw_ver]
    BY DEF IbvInv, IbvState
  <1>0. /\ st.devices = devices /\ st.cur = cur /\ st.hca_id = hca
        /\ st.transport = transport /\ st.fw_ver = fw_ver
    BY <1>3
  <1>4. PICK all \in Seq(Ports), n \in Nat, c \in {0, 1} :
           /\ all = devices \o cur /\ n = Len(devices) /\ c = Len(cur) /\ Len(all) = n + c
           /\ \A k \in 1 .. n : all[k] = devices[k]
           /\ c = 1 => all[n + 1] = cur[1]
    <2>0. PICK all : all = devices \o cur
      OBVIOUS
    <2>1. /\ all \in Seq(Ports)
          /\ Len(all) = Len(devices) + Len(cur)
          /\ \A k \in 1 .. Len(devices) : all[k] = devices[k]
          /\ \A k \in 1 .. Len(cur) : all[Len(devices) + k] = cur[k]
      BY <1>3, <2>0, Concatenated
    <2>2. PICK n \in Nat : n = Len(devices)
      BY <1>3
    <2>3. PICK c \in {0, 1} : c = Len(cur)
      <3>1. Len(cur) <= 1
        BY <1>0, Zenon DEF IbvInv
      <3>2. PICK m \in Nat : m = Len(cur)
        BY <1>3
      <3>3. m \in {0, 1}
        BY <3>1, <3>2
      <3> QED BY <3>2, <3>3
    <2>4. c = 1 => all[n + 1] = cur[1]
      BY <2>1, <2>2, <2>3
    <2> QED BY <2>0, <2>1, <2>2, <2>3, <2>4
  <1>5. PICK order, later :
           order = Text!InOrder(PortLines) /\ later = Text!InOrder(PortLines)'
    OBVIOUS
  <1>6. Cardinality(PortLines) = n + c
    BY <1>0, <1>4 DEF IbvInv
  <1>7. /\ \A k \in 1 .. n + c : order[k] \in 1 .. L /\ later[k] = order[k]
        /\ line.key = "port" => later[n + c + 1] = L + 1
        /\ Cardinality(PortLines)' = n + c + IF line.key = "port" THEN 1 ELSE 0
    BY <1>1, <1>5, <1>6, HeadersMove DEF PortLines
  <1>8. Len(world) = L /\ Len(world') = L + 1
    BY <1>1 DEF Grows
  <1>9. \A k \in 1 .. n + c : /\ IsPortAt(all[k], order[k])
                              /\ End(BlockHeads, order[k]) = L + 1 <=> k = n + 1
    BY <1>0, <1>4, <1>5, <1>8 DEF IbvInv, IsPort
  <1>10. /\ hca = DeviceAt(L) /\ transport = InStanza("transport", L)
         /\ fw_ver = InStanza("fw_ver", L)
    BY <1>0, <1>8 DEF IbvInv, StanzaSays
  <1>11. ASSUME NEW k \in 1 .. n + c, line.key \notin {"state", "link_layer"} \/ k # n + 1
         PROVE  WillBePortAt(all[k], later[k])
    <2>0. PICK block : block = all[k]
      OBVIOUS
    <2>1. PICK p \in 1 .. L : p = order[k] /\ block = all[k] /\ IsPortAt(block, p)
      BY <1>7, <1>9, <2>0
    <2>2. ~(line.key = "state" /\ End(BlockHeads, p) = L + 1)
          /\ ~(line.key = "link_layer" /\ End(BlockHeads, p) = L + 1)
      BY <1>9, <1>11, <2>1
    <2>3. WillBePortAt(block, p)
      BY <1>1, <2>1, <2>2, PortMoves
    <2> QED BY <1>7, <2>1, <2>3
  <1>12. line.val \in IbvValues /\ Text!Absent \in IbvValues
    BY <1>1 DEF IbvValues
  \* What each case has to show.
  <1> DEFINE Good(ds, cr, h, tr, fw) ==
                /\ ds \in Seq(Ports) /\ cr \in Seq(Ports)
                /\ h \in IbvValues /\ tr \in IbvValues /\ fw \in IbvValues
                /\ Len(ds) = IF line.key \in BlockHeads THEN n + c ELSE n
                /\ Len(cr) = IF line.key = "port" THEN 1
                             ELSE IF line.key = "hca_id" THEN 0 ELSE c
                /\ h = IF line.key = "hca_id" THEN line.val ELSE hca
                /\ tr = IF line.key = "hca_id" THEN Text!Absent
                        ELSE IF line.key = "transport" THEN line.val ELSE transport
                /\ fw = IF line.key = "hca_id" THEN Text!Absent
                        ELSE IF line.key = "fw_ver" THEN line.val ELSE fw_ver
                /\ \A k \in 1 .. Len(ds) : WillBePortAt(ds[k], later[k])
                /\ Len(cr) = 1 => WillBePortAt(cr[1], later[Len(ds) + 1])
             Reached == \E ds, cr, h, tr, fw :
                            /\ st' = [devices |-> ds, cur |-> cr, hca_id |-> h,
                                      transport |-> tr, fw_ver |-> fw]
                            /\ Good(ds, cr, h, tr, fw)
  <1>13. ASSUME line.key = "hca_id"
         PROVE  Reached
    <2>1. st' = [devices |-> all, cur |-> <<>>, hca_id |-> line.val,
                 transport |-> Text!Absent, fw_ver |-> Text!Absent]
      <3>1. st' = [Text!IbvStart EXCEPT !.devices = st.devices \o st.cur, !.hca_id = line.val]
        BY <1>2, <1>13, IbvUpdates, Zenon
      <3>2. Text!IbvStart = Locals(<<>>, <<>>, Text!Absent, Text!Absent, Text!Absent)
        BY Zenon DEF Text!IbvStart, Locals
      <3>4. \A x, v : StanzaNext(Text!IbvStart, x, v) =
                        Locals(x, <<>>, v, Text!Absent, Text!Absent)
        BY <3>2, TwoFields
      <3>3. st.devices \o st.cur = all
        BY <1>0, <1>4, Zenon
      <3> QED BY <3>1, <3>3, <3>4, Zenon DEF StanzaNext, Locals
    <2>2. \A k \in 1 .. n + c : WillBePortAt(all[k], later[k])
      BY <1>11, <1>13
    <2>3. Good(all, <<>>, line.val, Text!Absent, Text!Absent)
      BY <1>4, <1>12, <1>13, <2>2 DEF BlockHeads
    <2> QED BY <2>1, <2>3
  <1>14. ASSUME line.key \in {"transport", "fw_ver"}
         PROVE  Reached
    <2>1. PICK tr, fw : /\ tr = IF line.key = "transport" THEN line.val ELSE transport
                        /\ fw = IF line.key = "fw_ver" THEN line.val ELSE fw_ver
      OBVIOUS
    <2>2. st' = [devices |-> devices, cur |-> cur, hca_id |-> hca,
                 transport |-> tr, fw_ver |-> fw]
      <3>1. st' = [st EXCEPT ![line.key] = line.val]
        BY <1>2, <1>14, IbvUpdates, Zenon
      <3> QED BY <1>3, <1>14, <2>1, <3>1
    <2>3. \A k \in 1 .. n + c : WillBePortAt(all[k], later[k])
      BY <1>11, <1>14
    <2>4. Good(devices, cur, hca, tr, fw)
      BY <1>3, <1>4, <1>12, <1>14, <2>1, <2>3 DEF BlockHeads
    <2> QED BY <2>2, <2>4
  <1>15. ASSUME line.key = "port"
         PROVE  Reached
    <2>1. PICK new : new = [device |-> hca, port |-> line.val, transport |-> transport,
                            fw_ver |-> fw_ver, state |-> Text!Absent, link_layer |-> Text!Absent]
      OBVIOUS
    <2>2. st' = [devices |-> all, cur |-> <<new>>, hca_id |-> hca,
                 transport |-> transport, fw_ver |-> fw_ver]
      <3>1. st' = [st EXCEPT !.devices = st.devices \o st.cur,
                             !.cur = <<[device |-> st.hca_id, port |-> line.val,
                                        transport |-> st.transport, fw_ver |-> st.fw_ver,
                                        state |-> Text!Absent, link_layer |-> Text!Absent]>>]
        BY <1>2, <1>15, IbvUpdates, Zenon
      <3>2. \A x, y : OpenNext(st, x, y) = Locals(x, y, hca, transport, fw_ver)
        <4>1. st = Locals(devices, cur, hca, transport, fw_ver)
          BY <1>3, Zenon DEF Locals
        <4> QED BY <4>1, TwoFields
      <3>3. st.devices \o st.cur = all
        BY <1>0, <1>4, Zenon
      <3>4. new = [device |-> st.hca_id, port |-> line.val, transport |-> st.transport,
                   fw_ver |-> st.fw_ver, state |-> Text!Absent, link_layer |-> Text!Absent]
        BY <1>0, <2>1, Zenon
      <3> QED BY <3>1, <3>2, <3>3, <3>4, Zenon DEF OpenNext, Locals
    <2>3. \A k \in 1 .. n + c : WillBePortAt(all[k], later[k])
      BY <1>11, <1>15
    <2>4. new \in Ports /\ WillBePortAt(new, L + 1)
      <3>1. new \in Ports
        BY <1>3, <1>12, <2>1 DEF Ports
      <3>2. /\ new.device = DeviceAt(L) /\ new.port = line.val
            /\ new.transport = InStanza("transport", L)
            /\ new.fw_ver = InStanza("fw_ver", L)
            /\ new.state = Text!Absent /\ new.link_layer = Text!Absent
        BY <1>10, <2>1
      <3> QED BY <1>1, <1>15, <3>1, <3>2, NewPort
    <2>5. Good(all, <<new>>, hca, transport, fw_ver)
      BY <1>3, <1>4, <1>7, <1>15, <2>3, <2>4 DEF BlockHeads
    <2> QED BY <2>2, <2>5
  <1>16. ASSUME line.key \notin {"hca_id", "transport", "fw_ver", "port"}, cur = <<>>
         PROVE  Reached
    <2>1. st' = [devices |-> devices, cur |-> cur, hca_id |-> hca,
                 transport |-> transport, fw_ver |-> fw_ver]
      <3>1. st' = IF st.cur = <<>> THEN st ELSE [st EXCEPT !.cur[1][line.key] = line.val]
        BY <1>2, <1>16, IbvUpdates, Zenon
      <3>2. st.cur = <<>>
        BY <1>0, <1>16
      <3>3. st' = st
        BY <3>1, <3>2
      <3> QED BY <1>3, <3>3, Zenon
    <2>2. \A k \in 1 .. n : WillBePortAt(all[k], later[k])
      BY <1>11
    <2>3. Good(devices, cur, hca, transport, fw_ver)
      <3>1. c = 0
        BY <1>4, <1>16
      <3>2. /\ line.key \notin BlockHeads /\ line.key # "port" /\ line.key # "hca_id"
            /\ line.key # "transport" /\ line.key # "fw_ver"
        BY <1>16 DEF BlockHeads
      <3>3. \A k \in 1 .. Len(devices) : WillBePortAt(devices[k], later[k])
        BY <1>4, <2>2
      <3> QED BY <1>3, <1>4, <3>1, <3>2, <3>3
    <2> QED BY <2>1, <2>3
  <1>17. ASSUME line.key \notin {"hca_id", "transport", "fw_ver", "port"}, cur # <<>>
         PROVE  Reached
    <2>0. c = 1 /\ cur[1] \in Ports /\ DOMAIN cur = {1}
      BY <1>3, <1>4, <1>17
    <2>1. PICK other : other = [cur[1] EXCEPT ![line.key] = line.val]
      OBVIOUS
    <2>2. line.key # "device"
      BY <1>1, IbvAssumption DEF IbvLines
    <2>3. /\ other \in Ports
          /\ other.device = cur[1].device /\ other.port = cur[1].port
          /\ other.transport = cur[1].transport /\ other.fw_ver = cur[1].fw_ver
          /\ other.state = IF line.key = "state" THEN line.val ELSE cur[1].state
          /\ other.link_layer = IF line.key = "link_layer" THEN line.val ELSE cur[1].link_layer
      <3>1. line.key \notin {"device", "port", "transport", "fw_ver"}
        BY <1>17, <2>2
      <3> QED BY <1>12, <2>0, <2>1, <3>1, PortUpdates DEF Ports
    <2>4. st' = [devices |-> devices, cur |-> <<other>>, hca_id |-> hca,
                 transport |-> transport, fw_ver |-> fw_ver]
      <3>1. st' = [st EXCEPT !.cur[1][line.key] = line.val]
        <4>1. st' = IF st.cur = <<>> THEN st ELSE [st EXCEPT !.cur[1][line.key] = line.val]
          BY <1>2, <1>17, IbvUpdates, Zenon
        <4> QED BY <1>0, <1>17, <4>1, Zenon
      <3>2. [cur EXCEPT ![1][line.key] = line.val] = <<other>>
        BY <1>3, <1>4, <2>0, <2>1
      <3>3. \A x : [st EXCEPT !.cur = x] = [devices |-> devices, cur |-> x, hca_id |-> hca,
                                             transport |-> transport, fw_ver |-> fw_ver]
        BY <1>3
      <3>4. st' = [st EXCEPT !.cur = [cur EXCEPT ![1][line.key] = line.val]]
        BY <1>0, <3>1, Zenon
      <3> QED BY <3>2, <3>3, <3>4, Zenon
    <2>5. WillBePortAt(other, later[n + 1])
      <3>0. PICK block : block = cur[1]
        OBVIOUS
      <3>1. PICK p \in 1 .. L :
               /\ p = order[n + 1] /\ p = later[n + 1] /\ block = cur[1]
               /\ IsPortAt(block, p) /\ End(BlockHeads, p) = L + 1
        <4>1. n + 1 \in 1 .. n + c /\ all[n + 1] = cur[1]
          BY <1>4, <2>0
        <4> QED BY <1>7, <1>9, <3>0, <4>1
      <3>2. /\ other.device = block.device /\ other.port = block.port
            /\ other.transport = block.transport /\ other.fw_ver = block.fw_ver
            /\ other.state = IF line.key = "state" /\ End(BlockHeads, p) = L + 1 THEN line.val
                             ELSE block.state
            /\ other.link_layer = IF line.key = "link_layer" /\ End(BlockHeads, p) = L + 1
                                  THEN line.val ELSE block.link_layer
        BY <2>3, <3>1
      <3>3. p \in 1 .. L /\ IsPortAt(block, p)
        BY <3>1
      <3>4. WillBePortAt(other, p)
        BY <1>1, <3>2, <3>3, PortMoves
      <3> QED BY <3>1, <3>4
    <2>6. \A k \in 1 .. n : WillBePortAt(all[k], later[k])
      BY <1>11
    <2>7. Good(devices, <<other>>, hca, transport, fw_ver)
      BY <1>3, <1>4, <1>17, <2>0, <2>3, <2>5, <2>6 DEF BlockHeads
    <2> QED BY <2>4, <2>7
  <1> HIDE DEF Good
  <1>18. PICK ds, cr, h, tr, fw :
            /\ st' = [devices |-> ds, cur |-> cr, hca_id |-> h,
                      transport |-> tr, fw_ver |-> fw]
            /\ Good(ds, cr, h, tr, fw)
    BY <1>13, <1>14, <1>15, <1>16, <1>17, Zenon
  <1>19. PICK last : last = Len(ds) + 1
    OBVIOUS
  <1>20. PICK both \in Seq(Ports), m \in Nat :
            /\ both = ds \o cr /\ m = Len(both) /\ m = Len(ds) + Len(cr)
            /\ \A k \in 1 .. Len(ds) : both[k] = ds[k]
            /\ \A k \in 1 .. Len(cr) : both[Len(ds) + k] = cr[k]
    <2>1. PICK both : both = ds \o cr
      OBVIOUS
    <2>2. ds \in Seq(Ports) /\ cr \in Seq(Ports)
      BY <1>18, Zenon DEF Good
    <2>3. /\ both \in Seq(Ports) /\ Len(both) = Len(ds) + Len(cr)
          /\ \A k \in 1 .. Len(ds) : both[k] = ds[k]
          /\ \A k \in 1 .. Len(cr) : both[Len(ds) + k] = cr[k]
      BY <2>1, <2>2, Concatenated
    <2>4. Len(both) \in Nat
      BY <2>3
    <2> QED BY <2>1, <2>3, <2>4
  <1>21. PICK d \in Nat, e \in {0, 1} :
            /\ d = Len(ds) /\ e = Len(cr) /\ m = d + e
            /\ d = IF line.key \in BlockHeads THEN n + c ELSE n
            /\ e = IF line.key = "port" THEN 1 ELSE IF line.key = "hca_id" THEN 0 ELSE c
    <2>1. /\ Len(ds) = IF line.key \in BlockHeads THEN n + c ELSE n
          /\ Len(cr) = IF line.key = "port" THEN 1 ELSE IF line.key = "hca_id" THEN 0 ELSE c
      BY <1>18, Zenon DEF Good
    <2>2. Len(ds) \in Nat /\ Len(cr) \in {0, 1}
      BY <1>4, <2>1
    <2> QED BY <1>20, <2>1, <2>2
  <1>22. m = n + c + IF line.key = "port" THEN 1 ELSE 0
    <2>1. n \in Nat /\ c \in {0, 1}
      BY <1>4
    <2>2. CASE line.key = "port"
      BY <1>21, <2>1, <2>2 DEF BlockHeads
    <2>3. CASE line.key = "hca_id"
      BY <1>21, <2>1, <2>3 DEF BlockHeads
    <2>4. CASE line.key \notin BlockHeads
      BY <1>21, <2>1, <2>4 DEF BlockHeads
    <2> QED BY <2>2, <2>3, <2>4 DEF BlockHeads
  <1>23. \A k \in 1 .. m : WillBePortAt(both[k], later[k])
    <2> SUFFICES ASSUME NEW k \in 1 .. m
                 PROVE  WillBePortAt(both[k], later[k])
      OBVIOUS
    <2>1. CASE k \in 1 .. d
      <3>1. both[k] = ds[k] /\ WillBePortAt(ds[k], later[k])
        BY <1>18, <1>20, <1>21, <2>1 DEF Good
      <3> QED BY <3>1
    <2>2. CASE k \notin 1 .. d
      <3>1. e = 1 /\ k = d + 1
        BY <1>21, <2>2
      <3>2. both[k] = cr[1] /\ WillBePortAt(cr[1], later[k])
        BY <1>18, <1>20, <1>21, <3>1 DEF Good
      <3> QED BY <3>2
    <2> QED BY <2>1, <2>2
  <1>24. \A k \in 1 .. m : End(BlockHeads, later[k])' = L + 2 <=> k = d + 1
    <2> SUFFICES ASSUME NEW k \in 1 .. m
                 PROVE  End(BlockHeads, later[k])' = L + 2 <=> k = d + 1
      OBVIOUS
    <2>1. CASE k \in 1 .. n + c
      <3>1. PICK p \in 1 .. L : /\ p = order[k] /\ p = later[k]
                                /\ End(BlockHeads, p) = L + 1 <=> k = n + 1
        BY <1>7, <1>9, <2>1
      <3>2. p \in 0 .. L
        OBVIOUS
      <3>3. /\ End(BlockHeads, p) \in p + 1 .. L + 1
            /\ End(BlockHeads, p)' = IF End(BlockHeads, p) <= L THEN End(BlockHeads, p)
                                     ELSE IF line.key \in BlockHeads THEN L + 1 ELSE L + 2
        BY <1>1, <3>2, EndMoves
      <3>4. End(BlockHeads, p)' = L + 2 <=> k = n + 1 /\ line.key \notin BlockHeads
        BY <3>1, <3>3
      <3>5. k = d + 1 <=> k = n + 1 /\ line.key \notin BlockHeads
        BY <1>4, <1>21, <2>1
      <3> QED BY <3>1, <3>4, <3>5
    <2>2. CASE k \notin 1 .. n + c
      <3>1. line.key = "port" /\ k = n + c + 1
        BY <1>22, <2>2
      <3>2. k = d + 1
        BY <1>21, <3>1 DEF BlockHeads
      <3>3. 0 \in 0 .. L
        OBVIOUS
      <3>4. End(BlockHeads, L + 1)' = L + 2
        BY <1>1, <3>3, EndMoves
      <3> QED BY <1>7, <3>1, <3>2, <3>4
    <2> QED BY <2>1, <2>2
  <1>25. IbvState'
    <2>1. /\ ds \in Seq(Ports) /\ cr \in Seq(Ports)
          /\ h \in IbvValues /\ tr \in IbvValues /\ fw \in IbvValues
      BY <1>18, Zenon DEF Good
    <2> QED BY <1>18, <2>1 DEF IbvState, Ports, IbvValues, IbvLines, Text!Absent
  <1>26. /\ st'.devices = ds /\ st'.cur = cr /\ st'.hca_id = h
         /\ st'.transport = tr /\ st'.fw_ver = fw
    BY <1>18
  <1>27. StanzaSays(st)'
    <2>1. h = DeviceAt(L + 1)'
      <3>1. h = IF line.key = "hca_id" THEN line.val ELSE hca
        BY <1>18, Zenon DEF Good
      <3>2. L \in 0 .. L
        OBVIOUS
      <3> QED BY <1>1, <1>10, <3>1, <3>2, DeviceMoves
    <2>2. tr = InStanza("transport", L + 1)' /\ fw = InStanza("fw_ver", L + 1)'
      <3>1. /\ tr = IF line.key = "hca_id" THEN Text!Absent
                    ELSE IF line.key = "transport" THEN line.val ELSE transport
            /\ fw = IF line.key = "hca_id" THEN Text!Absent
                    ELSE IF line.key = "fw_ver" THEN line.val ELSE fw_ver
        BY <1>18, Zenon DEF Good
      <3>2. L \in 0 .. L /\ "transport" # "hca_id" /\ "fw_ver" # "hca_id"
        OBVIOUS
      <3>3. \A key : key # "hca_id" =>
               InStanza(key, L + 1)' =
                    IF line.key = "hca_id" THEN Text!Absent
                    ELSE IF line.key = key THEN line.val ELSE InStanza(key, L)
        BY <1>1, <3>2, StanzaMoves
      <3> QED BY <1>10, <3>1, <3>2, <3>3
    <2>3. /\ DeviceAt(Len(world))' = DeviceAt(L + 1)'
          /\ InStanza("transport", Len(world))' = InStanza("transport", L + 1)'
          /\ InStanza("fw_ver", Len(world))' = InStanza("fw_ver", L + 1)'
      <3>1. Len(world') = L + 1
        BY <1>8
      <3>2. Stanza(Len(world))' = Stanza(L + 1)'
        BY <3>1, Zenon DEF Stanza, Text!LastIn, Text!Max
      <3>3. PICK g : g = Stanza(L + 1)' /\ g = Stanza(Len(world))'
        BY <3>2
      <3>4. ASSUME NEW key
            PROVE  InStanza(key, Len(world))' = Text!Said(key, g + 1, L + 1)'
        BY <3>1, <3>3 DEF InStanza, Text!Said, Text!LastIn, Text!Max, Text!Absent
      <3>5. ASSUME NEW key
            PROVE  InStanza(key, L + 1)' = Text!Said(key, g + 1, L + 1)'
        BY <3>3, SaidInStanza
      <3>6. DeviceAt(Len(world))' = DeviceAt(L + 1)'
        BY <3>1 DEF DeviceAt, Text!Said, Text!LastIn, Text!Max, Text!Absent
      <3> QED BY <3>4, <3>5, <3>6
    <2> QED BY <1>26, <2>1, <2>2, <2>3 DEF StanzaSays
  <1>28. ASSUME NEW k \in 1 .. m
         PROVE  IsPort(k)'
    <2>1. PICK p, block : p = later[k] /\ block = both[k]
      OBVIOUS
    <2>2. WillBePortAt(block, p) /\ (End(BlockHeads, p)' = L + 2 <=> k = d + 1)
      BY <1>23, <1>24, <2>1
    <2>3. (st'.devices \o st'.cur)[k] = block /\ Text!InOrder(PortLines)'[k] = p
      BY <1>5, <1>20, <1>26, <2>1
    <2>4. IsPortAt((st.devices \o st.cur)[k], Text!InOrder(PortLines)[k])'
      BY <2>2, <2>3, Zenon DEF WillBePortAt, IsPortAt
    <2>5. End(BlockHeads, Text!InOrder(PortLines)[k])' = End(BlockHeads, p)'
      BY <2>3, Zenon DEF End, Text!FirstIn, Text!Min, Text!Positions
    <2>6. Len(st'.devices) + 1 = d + 1 /\ Len(world') + 1 = L + 2
      <3>1. Len(st'.devices) = d
        BY <1>21, <1>26
      <3>2. Len(world') + 1 = L + 2
        BY <1>8
      <3> QED BY <3>1, <3>2
    <2>7. End(BlockHeads, Text!InOrder(PortLines)[k])' = Len(world') + 1
            <=> k = Len(st'.devices) + 1
      BY <2>2, <2>5, <2>6, Zenon
    <2> QED BY <2>4, <2>7 DEF IsPort
  <1>29. Len(st'.devices \o st'.cur) = m /\ m = Cardinality(PortLines)'
    BY <1>7, <1>20, <1>22, <1>26
  <1>30. Len(st'.cur) <= 1
    <2>1. Len(st'.cur) = e
      BY <1>21, <1>26, Zenon
    <2>2. e \in {0, 1}
      BY <1>21
    <2> QED BY <2>1, <2>2
  <1>31. world' \in Seq(IbvLines)'
    BY <1>1 DEF IbvLines
  <1> QED BY <1>25, <1>27, <1>28, <1>29, <1>30, <1>31 DEF IbvInv

BlocksInv ==
    /\ routine = "ibv_devinfo" => IbvInv
    /\ routine = "bonding" => BondInv

LEMMA NothingOpen ==
    ASSUME world = <<>>, NEW heads
    PROVE  /\ Text!Positions(heads) = {} /\ Cardinality(Text!Positions(heads)) = 0
           /\ End(heads, 0) = 1
           /\ \A key, from, upto : Text!Said(key, from, upto) = Text!Absent
  <1>1. \A keys : Text!Positions(keys) = {}
    BY DEF Text!Positions
  <1>2. End(heads, 0) = 1
    <2>1. {i \in Text!Positions(heads) : 0 + 1 <= i} \cup {Len(world) + 1} = {1}
      BY <1>1
    <2>2. Text!Min({1}) = 1
      BY LeastOfText
    <2> QED BY <2>1, <2>2 DEF End, Text!FirstIn
  <1>3. ASSUME NEW key, NEW from, NEW upto
        PROVE  Text!Said(key, from, upto) = Text!Absent
    <2>1. {i \in Text!Positions({key}) : from <= i /\ i <= upto} \cup {0} = {0}
      BY <1>1
    <2>2. Text!Max({0}) = 0
      BY GreatestOfText
    <2> QED BY <2>1, <2>2 DEF Text!Said, Text!LastIn
  <1> QED BY <1>1, <1>2, <1>3, FS_EmptySet

LEMMA IbvInit ==
    ASSUME Init, routine = "ibv_devinfo"
    PROVE  IbvInv
  <1>1. world = <<>> /\ st = Text!IbvStart
    BY TextInit DEF TextTools, Text!Starts
  <1>2. /\ st.devices = <<>> /\ st.cur = <<>> /\ st.hca_id = Text!Absent
        /\ st.transport = Text!Absent /\ st.fw_ver = Text!Absent
    BY <1>1 DEF Text!IbvStart
  <1>3. IbvState
    BY <1>1 DEF IbvState, IbvValues, Text!IbvStart
  <1>4. StanzaSays(st)
    BY <1>1, <1>2, NothingOpen DEF StanzaSays, DeviceAt, InStanza
  <1>5. Len(st.cur) = 0 /\ Len(st.devices \o st.cur) = 0
    BY <1>2
  <1>6. Cardinality(PortLines) = 0
    BY <1>1, NothingOpen DEF PortLines
  <1>7. world \in Seq(IbvLines)
    BY <1>1
  <1> QED BY <1>3, <1>4, <1>5, <1>6, <1>7 DEF IbvInv

LEMMA BondInit ==
    ASSUME Init, routine = "bonding"
    PROVE  BondInv
  <1>1. world = <<>> /\ st = Text!BondStart
    BY TextInit DEF TextTools, Text!Starts
  <1>2. st.slaves = <<>> /\ st.bond = [k \in Text!BondKeys |-> Text!Absent]
    BY <1>1, Zenon DEF Text!BondStart
  <1>3. BondState
    <2>1. st = [bond |-> [k \in Text!BondKeys |-> Text!Absent], slaves |-> <<>>]
      BY <1>1, Zenon DEF Text!BondStart
    <2> QED BY <2>1 DEF BondState, BondValues
  <1>4. /\ Cardinality(Slaves) = 0 /\ End(SlaveHeader, 0) = Len(world) + 1
        /\ \A k \in Text!BondKeys : st.bond[k] = Text!Said(k, 1, End(SlaveHeader, 0))
    BY <1>1, <1>2, NothingOpen DEF Slaves
  <1>5. Len(st.slaves) = 0 /\ world \in Seq(BondLines)
    BY <1>1, <1>2
  <1> QED BY <1>2, <1>3, <1>4, <1>5 DEF BondInv

LEMMA SaidBelow ==
    ASSUME NEW key, NEW from, NEW heads, NEW p, NEW e, e = End(heads, p)'
    PROVE  Text!Said(key, from, End(heads, p))' = Text!Said(key, from, e)'
  BY DEF Text!Said, Text!LastIn, Text!Max, Text!Absent

\* A step that changes nothing keeps what the blocks are told by.
LEMMA BlocksStay ==
    ASSUME BlocksInv, UNCHANGED vars
    PROVE  BlocksInv'
  <1>1. world' = world /\ st' = st /\ routine' = routine
    BY DEF vars
  <1>2. /\ \A keys : Text!Positions(keys)' = Text!Positions(keys)
        /\ \A keys, from, upto : Text!LastIn(keys, from, upto)' = Text!LastIn(keys, from, upto)
        /\ \A keys, from : Text!FirstIn(keys, from)' = Text!FirstIn(keys, from)
    BY <1>1 DEF Text!Positions, Text!LastIn, Text!Max, Text!FirstIn, Text!Min
  <1>3. \A key, from, upto : Text!Said(key, from, upto)' = Text!Said(key, from, upto)
    BY <1>1, <1>2 DEF Text!Said, Text!Absent
  <1>4. \A heads, p : End(heads, p)' = End(heads, p)
    BY <1>2 DEF End
  <1>5. /\ PortLines' = PortLines /\ Slaves' = Slaves
        /\ BlockHeads' = BlockHeads
    BY <1>2, KeysAreConstant, Zenon DEF PortLines, Slaves, BlockHeads
  <1>6. /\ Text!InOrder(PortLines)' = Text!InOrder(PortLines)
        /\ Text!InOrder(Slaves)' = Text!InOrder(Slaves)
        /\ Cardinality(PortLines)' = Cardinality(PortLines)
        /\ Cardinality(Slaves)' = Cardinality(Slaves)
    BY <1>5 DEF Text!InOrder, Text!Place, Text!Cardinality
  <1>7. PICK L : L = Len(world) /\ L = Len(world')
    BY <1>1
  <1>8. ASSUME IbvInv
        PROVE  IbvInv'
    <2>1. /\ \A p : DeviceAt(p)' = DeviceAt(p) /\ Stanza(p)' = Stanza(p)
      BY <1>2, <1>3 DEF DeviceAt, Stanza
    <2>2. \A key, p : InStanza(key, p)' = InStanza(key, p)
      <3> SUFFICES ASSUME NEW key, NEW p
                   PROVE  InStanza(key, p)' = InStanza(key, p)
        OBVIOUS
      <3>1. PICK h : h = Stanza(p) /\ h = Stanza(p)'
        BY <2>1
      <3>2. InStanza(key, p)' = Text!Said(key, h + 1, p)'
        BY <3>1, SaidInStanza
      <3> QED BY <1>3, <3>1, <3>2 DEF InStanza
    <2>3. StanzaSays(st)'
      <3>1. /\ st'.hca_id = DeviceAt(L)' /\ st'.transport = InStanza("transport", L)'
            /\ st'.fw_ver = InStanza("fw_ver", L)'
        BY <1>1, <1>7, <1>8, <2>1, <2>2 DEF IbvInv, StanzaSays
      <3>2. DeviceAt(Len(world))' = DeviceAt(L)'
        BY <1>7 DEF DeviceAt, Text!Said, Text!LastIn, Text!Max, Text!Absent
      <3>3. PICK g : g = Stanza(L)' /\ g = Stanza(Len(world))'
        BY <1>7 DEF Stanza, Text!LastIn, Text!Max
      <3>4. ASSUME NEW key
            PROVE  InStanza(key, Len(world))' = Text!Said(key, g + 1, L)'
        BY <1>7, <3>3 DEF InStanza, Text!Said, Text!LastIn, Text!Max, Text!Absent
      <3>5. ASSUME NEW key
            PROVE  InStanza(key, L)' = Text!Said(key, g + 1, L)'
        BY <3>3, SaidInStanza
      <3> QED BY <3>1, <3>2, <3>4, <3>5 DEF StanzaSays
    <2>4. ASSUME NEW block, NEW p, IsPortAt(block, p)
          PROVE  WillBePortAt(block, p)
      <3>1. /\ block.device = DeviceAt(p)' /\ block.port = world'[p].val
            /\ block.transport = InStanza("transport", p)' /\ block.fw_ver = InStanza("fw_ver", p)'
        BY <1>1, <2>1, <2>2, <2>4 DEF IsPortAt
      <3>2. PICK e : e = End(BlockHeads, p) /\ e = End(BlockHeads, p)'
        BY <1>4, <1>5 DEF BlockHeads
      <3>3. \A key : Text!Said(key, p, End(BlockHeads, p))' = Text!Said(key, p, e)'
        BY <3>2 DEF Text!Said, Text!LastIn, Text!Max, Text!Absent
      <3>4. /\ block.state = Text!Said("state", p, End(BlockHeads, p))'
            /\ block.link_layer = Text!Said("link_layer", p, End(BlockHeads, p))'
        BY <1>3, <2>4, <3>2, <3>3 DEF IsPortAt
      <3> QED BY <3>1, <3>4, Zenon DEF WillBePortAt, IsPortAt
    <2>5. ASSUME NEW k \in 1 .. Len(st.devices \o st.cur)
          PROVE  IsPort(k)'
      <3>1. PICK p, block : p = Text!InOrder(PortLines)[k] /\ block = (st.devices \o st.cur)[k]
        OBVIOUS
      <3>2. IsPortAt(block, p) /\ (End(BlockHeads, p) = L + 1 <=> k = Len(st.devices) + 1)
        BY <1>7, <1>8, <3>1 DEF IbvInv, IsPort
      <3>3. (st'.devices \o st'.cur)[k] = block /\ Text!InOrder(PortLines)'[k] = p
        BY <1>1, <1>6, <3>1, Zenon
      <3>4. IsPortAt((st.devices \o st.cur)[k], Text!InOrder(PortLines)[k])'
        <4>1. WillBePortAt(block, p)
          BY <2>4, <3>2
        <4> QED BY <3>3, <4>1, Zenon DEF WillBePortAt, IsPortAt
      <3>5. End(BlockHeads, Text!InOrder(PortLines)[k])' = End(BlockHeads, p)'
        BY <3>3 DEF End, Text!FirstIn, Text!Min, Text!Positions
      <3>6. End(BlockHeads, p)' = End(BlockHeads, p)
        BY <1>4, <1>5 DEF BlockHeads
      <3>7. Len(world') + 1 = L + 1 /\ Len(st'.devices) + 1 = Len(st.devices) + 1
        BY <1>1, <1>7, Zenon
      <3> QED BY <3>2, <3>4, <3>5, <3>6, <3>7, Zenon DEF IsPort
    <2>6. /\ IbvState' /\ world' \in Seq(IbvLines)' /\ Len(st'.cur) <= 1
      BY <1>1, <1>8 DEF IbvInv, IbvState, Ports, IbvValues, IbvLines, Text!Absent
    <2>7. /\ Len(st'.devices \o st'.cur) = Len(st.devices \o st.cur)
          /\ Len(st'.devices \o st'.cur) = Cardinality(PortLines)'
      <3>1. Len(st.devices \o st.cur) = Cardinality(PortLines)
        BY <1>8, Zenon DEF IbvInv
      <3> QED BY <1>1, <1>6, <3>1, Zenon
    <2> QED BY <2>3, <2>5, <2>6, <2>7 DEF IbvInv
  <1>9. ASSUME BondInv
        PROVE  BondInv'
    <2>1. ASSUME NEW slave, NEW p, IsSlaveAt(slave, p)
          PROVE  WillBeSlaveAt(slave, p)
      <3>1. PICK e : e = End(SlaveHeader, p) /\ e = End(SlaveHeader, p)'
        BY <1>4
      <3>2. \A key : Text!Said(key, p, End(SlaveHeader, p))' = Text!Said(key, p, e)'
        BY <3>1 DEF Text!Said, Text!LastIn, Text!Max, Text!Absent
      <3>3. \A k \in Text!SlaveKeys : slave[k] = Text!Said(k, p, End(SlaveHeader, p))'
        BY <1>3, <2>1, <3>1, <3>2 DEF IsSlaveAt
      <3>4. slave.name = world'[p].val
        BY <1>1, <2>1 DEF IsSlaveAt
      <3> QED BY <3>3, <3>4, KeysAreConstant DEF WillBeSlaveAt, IsSlaveAt
    <2>2. ASSUME NEW k \in 1 .. Len(st.slaves)
          PROVE  IsSlave(k)'
      <3>1. PICK p, slave : p = Text!InOrder(Slaves)[k] /\ slave = st.slaves[k]
        OBVIOUS
      <3>2. IsSlaveAt(slave, p) /\ (End(SlaveHeader, p) = L + 1 <=> k = Len(st.slaves))
        BY <1>7, <1>9, <3>1 DEF BondInv, IsSlave
      <3>3. st'.slaves[k] = slave /\ Text!InOrder(Slaves)'[k] = p
        BY <1>1, <1>6, <3>1, Zenon
      <3>4. WillBeSlaveAt(slave, p)
        BY <2>1, <3>2
      <3>5. IsSlaveAt(st.slaves[k], Text!InOrder(Slaves)[k])'
        BY <3>3, <3>4, KeysAreConstant DEF WillBeSlaveAt, IsSlaveAt
      <3>6. End(SlaveHeader, Text!InOrder(Slaves)[k])' = End(SlaveHeader, p)'
        BY <3>3, KeysAreConstant DEF End, Text!FirstIn, Text!Min, Text!Positions
      <3>7. End(SlaveHeader, p)' = End(SlaveHeader, p)
        BY <1>4
      <3>8. Len(world') + 1 = L + 1 /\ Len(st'.slaves) = Len(st.slaves)
        BY <1>1, <1>7, Zenon
      <3> QED BY <3>2, <3>5, <3>6, <3>7, <3>8, Zenon DEF IsSlave
    <2>3. BondState' /\ world' \in Seq(BondLines)'
      BY <1>1, <1>9, KeysAreConstant DEF BondInv, BondState, BondValues, SlaveRecords, BondLines,
                                        Text!Absent
    <2>4. /\ Len(st'.slaves) = Len(st.slaves) /\ Len(st'.slaves) = Cardinality(Slaves)'
          /\ st'.slaves = <<>> <=> End(SlaveHeader, 0)' = Len(world') + 1
      BY <1>1, <1>4, <1>6, <1>9, Zenon DEF BondInv
    <2>5. \A k \in Text!BondKeys : st'.bond[k] = Text!Said(k, 1, End(SlaveHeader, 0))'
      <3>1. PICK e : e = End(SlaveHeader, 0) /\ e = End(SlaveHeader, 0)'
        BY <1>4
      <3>2. ASSUME NEW key
            PROVE  Text!Said(key, 1, End(SlaveHeader, 0))' = Text!Said(key, 1, e)'
        <4>1. PICK heads : heads = SlaveHeader
          OBVIOUS
        <4>2. e = End(heads, 0)'
          BY <3>1, <4>1, KeysAreConstant DEF End, Text!FirstIn, Text!Min, Text!Positions
        <4>3. Text!Said(key, 1, End(heads, 0))' = Text!Said(key, 1, e)'
          BY <4>2, SaidBelow
        <4>4. Text!Said(key, 1, End(SlaveHeader, 0))' = Text!Said(key, 1, End(heads, 0))'
          BY <4>1, KeysAreConstant DEF End, Text!Said, Text!LastIn, Text!Max, Text!Absent
        <4> QED BY <4>3, <4>4
      <3> QED BY <1>1, <1>3, <1>9, <3>1, <3>2 DEF BondInv
    <2> QED BY <2>2, <2>3, <2>4, <2>5, KeysAreConstant DEF BondInv
  <1> QED BY <1>1, <1>8, <1>9 DEF BlocksInv

PortOf(p) ==
    [device |-> DeviceAt(p), port |-> world[p].val,
     transport |-> InStanza("transport", p), fw_ver |-> InStanza("fw_ver", p),
     state |-> Text!Said("state", p, End(BlockHeads, p)),
     link_layer |-> Text!Said("link_layer", p, End(BlockHeads, p))]

LEMMA PortsAreTheirs ==
    ASSUME IbvInv
    PROVE  st.devices \o st.cur =
              [k \in DOMAIN Text!InOrder(PortLines) |-> PortOf(Text!InOrder(PortLines)[k])]
  <1>1. PICK all \in Seq(Ports) : all = st.devices \o st.cur
    <2>1. IbvState
      BY Zenon DEF IbvInv
    <2>2. PICK devices \in Seq(Ports), cur \in Seq(Ports) : devices = st.devices /\ cur = st.cur
      BY <2>1 DEF IbvState
    <2>3. PICK all : all = devices \o cur
      OBVIOUS
    <2>4. all \in Seq(Ports)
      BY <2>2, <2>3, Concatenated
    <2>5. all = st.devices \o st.cur
      BY <2>2, <2>3, Zenon
    <2> QED BY <2>4, <2>5
  <1>2. PICK n \in Nat : n = Len(all) /\ DOMAIN all = 1 .. n /\ n = Cardinality(PortLines)
    <2>1. Len(all) = Cardinality(PortLines)
      BY <1>1, Zenon DEF IbvInv
    <2>2. all \in Seq(Ports)
      BY <1>1
    <2>3. Len(all) \in Nat /\ DOMAIN all = 1 .. Len(all)
      BY <2>2
    <2> QED BY <2>1, <2>3
  <1>3. PICK order : order = Text!InOrder(PortLines) /\ DOMAIN order = 1 .. n
    <2>1. PICK L \in Nat : L = Len(world) /\ DOMAIN world = 1 .. L
      BY DEF IbvInv
    <2>2. PICK P \in SUBSET (1 .. L) : P = PortLines
      BY <2>1 DEF PortLines, Text!Positions
    <2>3. IsFiniteSet(1 .. L)
      BY FS_Interval
    <2>4. P \in SUBSET Nat /\ IsFiniteSet(P)
      <3>1. P \in SUBSET (1 .. L)
        BY <2>2
      <3>2. IsFiniteSet(P)
        BY <2>3, <3>1, FS_Subset
      <3>3. P \in SUBSET Nat
        BY <3>1
      <3> QED BY <3>2, <3>3
    <2>5. DOMAIN Text!InOrder(P) = 1 .. Cardinality(P)
      BY <2>4, PlacesOf
    <2> QED BY <1>2, <2>2, <2>5
  <1>4. ASSUME NEW k \in 1 .. n
        PROVE  all[k] = PortOf(order[k])
    <2>1. PICK block \in Ports : block = all[k]
      BY <1>2
    <2>2. IsPortAt(block, order[k])
      BY <1>1, <1>2, <1>3, <2>1 DEF IbvInv, IsPort
    <2>3. block = [device |-> block.device, port |-> block.port, transport |-> block.transport,
                   fw_ver |-> block.fw_ver, state |-> block.state,
                   link_layer |-> block.link_layer]
      BY DEF Ports
    <2> QED BY <2>1, <2>2, <2>3, Zenon DEF IsPortAt, PortOf
  <1>5. all = [k \in 1 .. n |-> all[k]]
    BY <1>2
  <1> QED BY <1>1, <1>3, <1>4, <1>5, Zenon

LEMMA SlavesAreTheirs ==
    ASSUME BondInv
    PROVE  /\ \A k \in Text!BondKeys : st.bond[k] = Text!Said(k, 1, Text!FirstIn(SlaveHeader, 1))
           /\ Len(st.slaves) = Len(Text!InOrder(Slaves))
           /\ \A i \in DOMAIN Text!InOrder(Slaves) :
                IsSlaveAt(st.slaves[i], Text!InOrder(Slaves)[i])
  <1>1. PICK n \in Nat : n = Len(st.slaves) /\ n = Cardinality(Slaves)
    BY DEF BondInv, BondState
  <1>2. DOMAIN Text!InOrder(Slaves) = 1 .. n
    <2>1. PICK L \in Nat : L = Len(world) /\ DOMAIN world = 1 .. L
      BY DEF BondInv
    <2>2. PICK P \in SUBSET (1 .. L) : P = Slaves
      BY <2>1 DEF Slaves, Text!Positions
    <2>3. IsFiniteSet(1 .. L)
      BY FS_Interval
    <2>4. P \in SUBSET Nat /\ IsFiniteSet(P)
      <3>1. P \in SUBSET (1 .. L)
        BY <2>2
      <3>2. IsFiniteSet(P)
        BY <2>3, <3>1, FS_Subset
      <3>3. P \in SUBSET Nat
        BY <3>1
      <3> QED BY <3>2, <3>3
    <2>5. DOMAIN Text!InOrder(P) = 1 .. Cardinality(P)
      BY <2>4, PlacesOf
    <2> QED BY <1>1, <2>2, <2>5
  <1>3. Len(Text!InOrder(Slaves)) = n
    BY <1>2
  <1>4. \A i \in 1 .. n : IsSlaveAt(st.slaves[i], Text!InOrder(Slaves)[i])
    BY <1>1 DEF BondInv, IsSlave
  <1>5. End(SlaveHeader, 0) = Text!FirstIn(SlaveHeader, 1)
    <2>1. 0 + 1 = 1
      OBVIOUS
    <2> QED BY <2>1, Zenon DEF End
  <1>6. \A k \in Text!BondKeys : st.bond[k] = Text!Said(k, 1, End(SlaveHeader, 0))
    BY Zenon DEF BondInv
  <1> QED BY <1>1, <1>2, <1>3, <1>4, <1>5, <1>6

(* Every port block of ibv_devinfo becomes one device with the name,       *)
(* transport and firmware of its own stanza and the state of its own       *)
(* block, and every slave of a bond keeps its own lines and leaves the     *)
(* bond's to the bond, however many of them there are (parseIbvDevinfo,    *)
(* parseBondFile).                                                         *)
THEOREM BlocksKeepLines == FairSpec => []BlocksKeepTheirLines
  <1>1. Init => BlocksInv
    BY IbvInit, BondInit DEF BlocksInv
  <1>2. BlocksInv /\ [Next]_vars => BlocksInv'
    <2>1. CASE Next
      BY <2>1, IbvStep, BondStep, Zenon DEF BlocksInv, Next
    <2>2. CASE UNCHANGED vars
      BY <2>2, BlocksStay
    <2> QED BY <2>1, <2>2
  <1>3. BlocksInv => BlocksKeepTheirLines
    <2>1. ASSUME routine = "ibv_devinfo", IbvInv
          PROVE  Text!BlocksKeepTheirLines
      <3>1. st.devices \o st.cur = [k \in DOMAIN Text!InOrder(PortLines) |->
                                        PortOf(Text!InOrder(PortLines)[k])]
        BY <2>1, PortsAreTheirs
      <3>2. routine # "bonding"
        BY <2>1
      <3> QED BY <3>1, <3>2, Zenon
              DEF Text!BlocksKeepTheirLines, Text!IbvDevices, Text!Flush, PortLines, PortOf,
                  DeviceAt, InStanza, Stanza, End, BlockHeads
    <2>2. ASSUME routine = "bonding", BondInv
          PROVE  Text!BlocksKeepTheirLines
      <3>1. routine # "ibv_devinfo"
        BY <2>2
      <3>2. /\ \A k \in Text!BondKeys : st.bond[k] = Text!Said(k, 1, Text!FirstIn(SlaveHeader, 1))
            /\ Len(st.slaves) = Len(Text!InOrder(Slaves))
            /\ \A i \in DOMAIN Text!InOrder(Slaves) :
                  IsSlaveAt(st.slaves[i], Text!InOrder(Slaves)[i])
        BY <2>2, SlavesAreTheirs
      <3> QED BY <3>1, <3>2, Zenon DEF Text!BlocksKeepTheirLines, Slaves, SlaveHeader, IsSlaveAt, End
    <2>3. routine \notin {"ibv_devinfo", "bonding"} => Text!BlocksKeepTheirLines
      BY Zenon DEF Text!BlocksKeepTheirLines
    <2> QED BY <2>1, <2>2, <2>3 DEF BlocksInv, BlocksKeepTheirLines
  <1> QED BY <1>1, <1>2, <1>3, PTL DEF FairSpec

-----------------------------------------------------------------------------
(* Text parsers: the nodes of numactl *)

NumaLines == UNION {ToolLines("numactl", n) : n \in 1 .. MaxLines}
NumaValues == {Text!Absent} \cup {l.val : l \in NumaLines} \cup {l.id : l \in NumaLines}

NumaNodes == [Text!NumaKeys \cup {"ID"} -> NumaValues]

\* The header of the distances, the lines about nodes above it and the rows below.
Header == Text!FirstIn({"distances"}, 1)
NodeLines == {i \in Text!Positions(Text!NumaKeys) : i < Header}
RowLines == {i \in Text!Positions({"row"}) : i > Header}

NodeIds == {world[i].id : i \in NodeLines}

\* The first line of each node.
Firsts == {i \in NodeLines : \A j \in NodeLines : j < i => world[j].id # world[i].id}

\* The last value that a key was given for a node.
GivenBy(id, key) == {i \in NodeLines : world[i].id = id /\ world[i].key = key}
ValueOf(id, key) ==
    LET i == Text!Max(GivenBy(id, key) \cup {0}) IN IF i = 0 THEN Text!Absent ELSE world[i].val

\* The lines of each node stand together.
Together ==
    \A i, j \in NodeLines : \A m \in NodeLines :
        i < m /\ m < j /\ world[i].id = world[j].id => world[m].id = world[i].id

\* The new line is about a node.
Counts(line, L) == line.key \in Text!NumaKeys /\ Header = L + 1

LEMMA HeaderMoves ==
    ASSUME NEW L \in Nat, NEW line, Grows(L, line)
    PROVE  /\ Header \in 1 .. L + 1
           /\ Header' = IF Header <= L THEN Header
                        ELSE IF line.key = "distances" THEN L + 1 ELSE L + 2
  <1>1. 0 \in 0 .. L
    OBVIOUS
  <1>2. PICK heads : heads = {"distances"}
    OBVIOUS
  <1>3. /\ End(heads, 0) \in 0 + 1 .. L + 1
        /\ End(heads, 0)' = IF End(heads, 0) <= L THEN End(heads, 0)
                            ELSE IF line.key \in heads THEN L + 1 ELSE L + 2
    BY <1>1, EndMoves
  <1>6. 0 + 1 = 1
    OBVIOUS
  <1>4. Header = End(heads, 0)
    BY <1>2, <1>6, Zenon DEF Header, End
  <1>5. Header' = End(heads, 0)'
    BY <1>2, <1>6 DEF Header, End, Text!FirstIn, Text!Min, Text!Positions
  <1> QED BY <1>2, <1>3, <1>4, <1>5

LEMMA NodeLinesMove ==
    ASSUME NEW L \in Nat, NEW line, Grows(L, line)
    PROVE  /\ NodeLines \in SUBSET (1 .. L)
           /\ NodeLines' = IF Counts(line, L) THEN NodeLines \cup {L + 1} ELSE NodeLines
           /\ NodeIds' = IF Counts(line, L) THEN NodeIds \cup {line.id} ELSE NodeIds
  <1>1. PICK h \in 1 .. L + 1, g \in 1 .. L + 2 :
           /\ h = Header /\ g = Header'
           /\ g = IF h <= L THEN h ELSE IF line.key = "distances" THEN L + 1 ELSE L + 2
    BY HeaderMoves
  <1>2. PICK keys : keys = Text!NumaKeys
    OBVIOUS
  <1>13. PICK N, M : N = NodeLines /\ M = NodeLines'
    OBVIOUS
  <1>3. N = NodeLines /\ \A i : i \in N <=> i \in 1 .. L /\ world[i].key \in keys /\ i < h
    <2>1. \A i : i \in N <=> i \in DOMAIN world /\ world[i].key \in keys /\ i < h
      BY <1>1, <1>2, <1>13, Zenon DEF NodeLines, Text!Positions
    <2> QED BY <1>13, <2>1 DEF Grows
  <1>4. M = NodeLines' /\ \A i : i \in M <=> i \in 1 .. L + 1 /\ world'[i].key \in keys /\ i < g
    <2>1. Text!NumaKeys' = keys
      BY <1>2 DEF Text!NumaKeys
    <2>2. \A i : i \in M <=> i \in DOMAIN world' /\ world'[i].key \in keys /\ i < g
      BY <1>1, <1>13, <2>1, Zenon DEF NodeLines, Text!Positions
    <2> QED BY <1>13, <2>2 DEF Grows
  <1>5. \A i \in 1 .. L : i \in M <=> i \in N
    <2>1. \A i \in 1 .. L : world'[i] = world[i] /\ i \in 1 .. L + 1 /\ (i < g <=> i < h)
      BY <1>1 DEF Grows
    <2> QED BY <1>3, <1>4, <2>1
  <1>6. L + 1 \in M <=> Counts(line, L)
    <2>1. L + 1 \in M <=> line.key \in Text!NumaKeys /\ L + 1 < g
      <3>1. world'[L + 1] = line /\ L + 1 \in 1 .. L + 1
        BY DEF Grows
      <3> QED BY <1>2, <1>4, <3>1
    <2>2. line.key \in Text!NumaKeys => line.key # "distances"
      BY DEF Text!NumaKeys
    <2> QED BY <1>1, <2>1, <2>2 DEF Counts
  <1>12. N \in SUBSET (1 .. L) /\ M \in SUBSET (1 .. L + 1)
    BY <1>3, <1>4
  <1>7. M = IF L + 1 \in M THEN N \cup {L + 1} ELSE N
    BY <1>5, <1>12, WithOrWithout
  <1>8. \A i \in N : world'[i] = world[i]
    BY <1>12 DEF Grows
  <1>9. world'[L + 1] = line
    BY DEF Grows
  <1>10. NodeIds = {world[i].id : i \in N} /\ NodeIds' = {world'[i].id : i \in M}
    BY <1>3, <1>4 DEF NodeIds
  <1>11. NodeIds' = IF Counts(line, L) THEN NodeIds \cup {line.id} ELSE NodeIds
    BY <1>6, <1>7, <1>8, <1>9, <1>10
  <1> QED BY <1>3, <1>4, <1>6, <1>7, <1>11, <1>12

LEMMA FirstsMove ==
    ASSUME NEW L \in Nat, NEW line, Grows(L, line)
    PROVE  /\ Firsts \in SUBSET (1 .. L)
           /\ Firsts' = IF Counts(line, L) /\ line.id \notin NodeIds THEN Firsts \cup {L + 1}
                        ELSE Firsts
  <1>1. PICK N \in SUBSET (1 .. L) : N = NodeLines
    BY NodeLinesMove
  <1>2. PICK M \in SUBSET (1 .. L + 1) :
           M = NodeLines' /\ M = IF Counts(line, L) THEN N \cup {L + 1} ELSE N
    BY <1>1, NodeLinesMove
  <1>3. PICK F \in SUBSET (1 .. L) : F = Firsts
    BY <1>1 DEF Firsts
  <1>4. PICK G \in SUBSET (1 .. L + 1) : G = Firsts'
    BY <1>2 DEF Firsts
  <1>5. \A i \in 1 .. L : world'[i] = world[i]
    BY DEF Grows
  <1>6. world'[L + 1] = line
    BY DEF Grows
  <1>7. /\ \A i : i \in F <=> i \in N /\ \A j \in N : j < i => world[j].id # world[i].id
        /\ \A i : i \in G <=> i \in M /\ \A j \in M : j < i => world'[j].id # world'[i].id
    BY <1>1, <1>2, <1>3, <1>4 DEF Firsts
  <1>8. \A i \in 1 .. L : i \in G <=> i \in F
    <2> SUFFICES ASSUME NEW i \in 1 .. L
                 PROVE  i \in G <=> i \in F
      OBVIOUS
    <2>1. \A j \in M : j < i => j \in N
      BY <1>2
    <2>2. \A j \in N : j \in M
      BY <1>2
    <2>3. i \in M <=> i \in N
      BY <1>2
    <2> QED BY <1>5, <1>7, <2>1, <2>2, <2>3
  <1>9. L + 1 \in G <=> Counts(line, L) /\ line.id \notin NodeIds
    <2>1. line.id \in NodeIds <=> \E j \in N : world[j].id = line.id
      BY <1>1 DEF NodeIds
    <2>2. L + 1 \in M <=> Counts(line, L)
      BY <1>2
    <2>3. \A j \in M : j < L + 1 <=> j \in N
      BY <1>2
    <2>4. \A j \in N : j \in M /\ world'[j] = world[j]
      BY <1>2, <1>5
    <2> QED BY <1>6, <1>7, <2>1, <2>2, <2>3, <2>4
  <1>10. G = IF L + 1 \in G THEN F \cup {L + 1} ELSE F
    BY <1>3, <1>4, <1>8, WithOrWithout
  <1> QED BY <1>3, <1>4, <1>9, <1>10

LEMMA RowLinesMove ==
    ASSUME NEW L \in Nat, NEW line, Grows(L, line)
    PROVE  /\ RowLines \in SUBSET (1 .. L)
           /\ RowLines' = IF line.key = "row" /\ Header <= L THEN RowLines \cup {L + 1}
                          ELSE RowLines
  <1>1. PICK h \in 1 .. L + 1, g \in 1 .. L + 2 :
           /\ h = Header /\ g = Header'
           /\ g = IF h <= L THEN h ELSE IF line.key = "distances" THEN L + 1 ELSE L + 2
    BY HeaderMoves
  <1>7. PICK R, Q : R = RowLines /\ Q = RowLines'
    OBVIOUS
  <1>2. R = RowLines /\ \A i : i \in R <=> i \in 1 .. L /\ world[i].key = "row" /\ i > h
    <2>1. \A i : i \in R <=> i \in DOMAIN world /\ world[i].key \in {"row"} /\ i > h
      BY <1>1, <1>7, Zenon DEF RowLines, Text!Positions
    <2> QED BY <1>7, <2>1 DEF Grows
  <1>3. Q = RowLines' /\ \A i : i \in Q <=> i \in 1 .. L + 1 /\ world'[i].key = "row" /\ i > g
    <2>1. \A i : i \in Q <=> i \in DOMAIN world' /\ world'[i].key \in {"row"} /\ i > g
      BY <1>1, <1>7, Zenon DEF RowLines, Text!Positions
    <2> QED BY <1>7, <2>1 DEF Grows
  <1>4. \A i \in 1 .. L : i \in Q <=> i \in R
    <2>1. \A i \in 1 .. L : world'[i] = world[i] /\ i \in 1 .. L + 1 /\ (i > g <=> i > h)
      BY <1>1 DEF Grows
    <2> QED BY <1>2, <1>3, <2>1
  <1>5. L + 1 \in Q <=> line.key = "row" /\ h <= L
    <2>1. world'[L + 1] = line /\ L + 1 \in 1 .. L + 1 /\ (L + 1 > g <=> h <= L)
      BY <1>1 DEF Grows
    <2> QED BY <1>3, <2>1
  <1>6. Q = IF L + 1 \in Q THEN R \cup {L + 1} ELSE R
    <2>1. R \in SUBSET (1 .. L) /\ Q \in SUBSET (1 .. L + 1)
      BY <1>2, <1>3
    <2> QED BY <1>4, <2>1, WithOrWithout
  <1> QED BY <1>1, <1>2, <1>3, <1>5, <1>6

LEMMA ValueMoves ==
    ASSUME NEW L \in Nat, NEW line, Grows(L, line), NEW id, NEW key
    PROVE  /\ ValueOf(id, key)' =
                IF Counts(line, L) /\ line.id = id /\ line.key = key THEN line.val
                ELSE ValueOf(id, key)
           /\ id \notin NodeIds => ValueOf(id, key) = Text!Absent
  <1>1. PICK N \in SUBSET (1 .. L) : N = NodeLines
    BY NodeLinesMove
  <1>2. PICK M \in SUBSET (1 .. L + 1) :
           M = NodeLines' /\ M = IF Counts(line, L) THEN N \cup {L + 1} ELSE N
    BY <1>1, NodeLinesMove
  <1>3. \A i \in 1 .. L : world'[i] = world[i]
    BY DEF Grows
  <1>4. world'[L + 1] = line
    BY DEF Grows
  <1>13. PICK S, T : S = GivenBy(id, key) \cup {0} /\ T = GivenBy(id, key)' \cup {0}
    OBVIOUS
  <1>5. /\ S = GivenBy(id, key) \cup {0} /\ S \in SUBSET (0 .. L)
        /\ \A i \in 1 .. L : i \in S <=> i \in N /\ world[i].id = id /\ world[i].key = key
    <2>1. \A i : i \in S <=> i = 0 \/ (i \in N /\ world[i].id = id /\ world[i].key = key)
      BY <1>1, <1>13, Zenon DEF GivenBy
    <2>2. S \in SUBSET (0 .. L)
      <3>1. \A i \in S : i = 0 \/ i \in N
        BY <2>1, Zenon
      <3>2. \A i \in N : i \in 0 .. L
        BY <1>1
      <3>4. 0 \in 0 .. L
        OBVIOUS
      <3>3. \A i \in S : i \in 0 .. L
        BY <3>1, <3>2, <3>4, Zenon
      <3> QED BY <3>3
    <2>3. \A i \in 1 .. L : i # 0
      OBVIOUS
    <2> QED BY <1>13, <2>1, <2>2, <2>3
  <1>6. /\ T = GivenBy(id, key)' \cup {0} /\ T \in SUBSET (0 .. L + 1)
        /\ \A i \in 1 .. L + 1 : i \in T <=> i \in M /\ world'[i].id = id /\ world'[i].key = key
    <2>1. \A i : i \in T <=> i = 0 \/ (i \in M /\ world'[i].id = id /\ world'[i].key = key)
      BY <1>2, <1>13, Zenon DEF GivenBy
    <2>2. T \in SUBSET (0 .. L + 1)
      <3>1. \A i \in T : i = 0 \/ i \in M
        BY <2>1, Zenon
      <3>2. \A i \in M : i \in 0 .. L + 1
        BY <1>2
      <3>4. 0 \in 0 .. L + 1
        OBVIOUS
      <3>3. \A i \in T : i \in 0 .. L + 1
        BY <3>1, <3>2, <3>4, Zenon
      <3> QED BY <3>3
    <2>3. \A i \in 1 .. L + 1 : i # 0
      OBVIOUS
    <2> QED BY <1>13, <2>1, <2>2, <2>3
  <1>7. 0 \in S /\ 0 \in T
    BY <1>5, <1>6
  <1>8. PICK m \in S : m = Text!Max(S)
    BY <1>5, <1>7, GreatestPosition
  <1>9. ValueOf(id, key) = IF m = 0 THEN Text!Absent ELSE world[m].val
    BY <1>5, <1>8 DEF ValueOf
  <1>10. ValueOf(id, key)' = LET i == Text!Max(T) IN IF i = 0 THEN Text!Absent ELSE world'[i].val
    BY <1>6 DEF ValueOf, Text!Max, Text!Absent
  <1>11. CASE Counts(line, L) /\ line.id = id /\ line.key = key
    <2>1. L + 1 \in T /\ T \in SUBSET Int /\ \A i \in T : i <= L + 1
      BY <1>2, <1>4, <1>6, <1>11
    <2>2. Text!Max(T) = L + 1
      BY <2>1, GreatestOfText
    <2>3. ValueOf(id, key)' = line.val
      BY <1>4, <1>10, <2>2
    <2>4. id \in NodeIds \/ ValueOf(id, key) = Text!Absent
      BY <1>1, <1>5, <1>8, <1>9 DEF NodeIds
    <2> QED BY <1>11, <2>3, <2>4
  <1>12. CASE ~(Counts(line, L) /\ line.id = id /\ line.key = key)
    <2>1. L + 1 \notin T
      BY <1>2, <1>4, <1>6, <1>12
    <2>2. \A i \in 0 .. L : i \in T <=> i \in S
      BY <1>2, <1>3, <1>5, <1>6, <1>7
    <2>3. T = S
      BY <1>5, <1>6, <2>1, <2>2
    <2>4. m = 0 \/ m \in 1 .. L
      BY <1>5, <1>8
    <2>5. ValueOf(id, key)' = ValueOf(id, key)
      BY <1>3, <1>8, <1>9, <1>10, <2>3, <2>4 DEF Text!Absent
    <2>6. id \in NodeIds \/ ValueOf(id, key) = Text!Absent
      BY <1>1, <1>5, <1>8, <1>9, <2>4 DEF NodeIds
    <2> QED BY <1>12, <2>5, <2>6
  <1> QED BY <1>11, <1>12

\* The nodes are those in the last array.
NodesIn(a) == IF a = <<>> THEN <<>> ELSE a[Len(a)]

\* What a sequence is after one place is written, or one is added behind.
Written(a, b, g, w, W) ==
    /\ b \in Seq(W) /\ Len(b) = Len(a) /\ b # <<>> /\ b[g] = w
    /\ \A h \in 1 .. Len(a) : h # g => b[h] = a[h]

Added(a, b, w, W) ==
    /\ b \in Seq(W) /\ b # <<>> /\ Len(b) \in 1 .. Len(b) /\ b[Len(b)] = w
    /\ \A h \in 1 .. Len(a) : h \in 1 .. Len(b) /\ b[h] = a[h]

LEMMA PutAt ==
    ASSUME NEW W, NEW a \in Seq(W), NEW g \in 1 .. Len(a), NEW w \in W
    PROVE  Written(a, [a EXCEPT ![g] = w], g, w, W)
  BY DEF Written

LEMMA AddOne ==
    ASSUME NEW W, NEW a \in Seq(W), NEW w \in W
    PROVE  Added(a, Append(a, w), w, W)
  BY DEF Added

LEMMA ElementOf ==
    ASSUME NEW W, NEW a \in Seq(W), NEW g \in 1 .. Len(a)
    PROVE  a[g] \in W
  OBVIOUS

LEMMA NodesInAre ==
    ASSUME NEW V, NEW W, W = Seq(V), NEW a \in Seq(W)
    PROVE  /\ NodesIn(a) \in W
           /\ a # <<>> => Len(a) \in 1 .. Len(a) /\ NodesIn(a) = a[Len(a)]
  <1>1. CASE a = <<>>
    <2>1. <<>> \in Seq(V)
      OBVIOUS
    <2> QED BY <1>1, <2>1, Zenon DEF NodesIn
  <1>2. CASE a # <<>>
    <2>1. Len(a) \in 1 .. Len(a)
      BY <1>2
    <2>2. a[Len(a)] \in W
      BY <2>1, ElementOf, Zenon
    <2> QED BY <1>2, <2>1, <2>2, Zenon DEF NodesIn
  <1> QED BY <1>1, <1>2

\* What a place of an array holds.
Holds(a, g, i, v) == g \in 1 .. Len(a) /\ i \in 1 .. Len(a[g]) /\ a[g][i] = v

\* An append writes behind the array or copies it to a new one; the old arrays keep
\* what is in them.
AppendOf(a, b, v, fits) ==
    b = IF fits THEN [a EXCEPT ![Len(a)] = Append(a[Len(a)], v)]
        ELSE Append(a, Append(NodesIn(a), v))

Extended(a, b, v, W) ==
    /\ b \in Seq(W) /\ b # <<>> /\ NodesIn(b) = Append(NodesIn(a), v)
    /\ \A g, i, u : Holds(a, g, i, u) => Holds(b, g, i, u)

LEMMA NodeAppended ==
    ASSUME NEW V, NEW W, W = Seq(V), NEW a \in Seq(W), NEW v \in V,
           NEW fits \in BOOLEAN, fits => a # <<>>,
           NEW b, AppendOf(a, b, v, fits)
    PROVE  Extended(a, b, v, W)
  <1>1. PICK n \in Nat : n = Len(a)
    OBVIOUS
  <1>2. PICK nodes \in Seq(V) : nodes = NodesIn(a)
    BY NodesInAre, Zenon
  <1>7. PICK more : more = Append(nodes, v)
    OBVIOUS
  <1>3. Added(nodes, more, v, V)
    BY <1>2, <1>7, AddOne, Zenon
  <1>6. more \in W
    BY <1>3, Zenon DEF Added
  <1>4. CASE fits
    <2>1. n \in 1 .. n /\ nodes = a[n]
      BY <1>1, <1>2, <1>4, NodesInAre, Zenon
    <2>2. b = [a EXCEPT ![n] = more]
      BY <1>1, <1>7, <1>4, <2>1, Zenon DEF AppendOf
    <2>3. Written(a, b, n, more, W)
      <3>1. n \in 1 .. Len(a)
        BY <1>1, <2>1
      <3>2. Written(a, [a EXCEPT ![n] = more], n, more, W)
        BY <1>6, <3>1, PutAt, Zenon
      <3> QED BY <2>2, <3>2, Zenon
    <2>4. NodesIn(b) = more
      BY <1>1, <2>3, Zenon DEF NodesIn, Written
    <2>5. ASSUME NEW g, NEW i, NEW u, Holds(a, g, i, u)
          PROVE  Holds(b, g, i, u)
      <3>0. g \in 1 .. Len(a) /\ i \in 1 .. Len(a[g]) /\ a[g][i] = u
        BY <2>5 DEF Holds
      <3>1. CASE g = n
        <4>1. i \in 1 .. Len(nodes) /\ nodes[i] = u
          BY <2>1, <3>0, <3>1, Zenon
        <4>2. i \in 1 .. Len(more) /\ more[i] = u
          BY <1>3, <4>1, Zenon DEF Added
        <4>3. b[g] = more /\ g \in 1 .. Len(b)
          BY <2>3, <3>0, <3>1, Zenon DEF Written
        <4> QED BY <4>2, <4>3, Zenon DEF Holds
      <3>2. CASE g # n
        <4>1. b[g] = a[g] /\ g \in 1 .. Len(b)
          BY <2>3, <3>0, <3>2, Zenon DEF Written
        <4> QED BY <3>0, <4>1, Zenon DEF Holds
      <3> QED BY <3>1, <3>2
    <2> QED BY <1>2, <1>7, <2>3, <2>4, <2>5, Zenon DEF Written, Extended
  <1>5. CASE ~fits
    <2>1. b = Append(a, more)
      BY <1>2, <1>7, <1>5, Zenon DEF AppendOf
    <2>2. Added(a, b, more, W)
      BY <1>6, <2>1, AddOne, Zenon
    <2>4. NodesIn(b) = more
      BY <2>2, Zenon DEF NodesIn, Added
    <2>5. ASSUME NEW g, NEW i, NEW u, Holds(a, g, i, u)
          PROVE  Holds(b, g, i, u)
      <3>0. g \in 1 .. Len(a) /\ i \in 1 .. Len(a[g]) /\ a[g][i] = u
        BY <2>5 DEF Holds
      <3>1. b[g] = a[g] /\ g \in 1 .. Len(b)
        BY <2>2, <3>0, Zenon DEF Added
      <3> QED BY <3>0, <3>1, Zenon DEF Holds
    <2> QED BY <1>2, <1>7, <2>2, <2>4, <2>5, Zenon DEF Added, Extended
  <1> QED BY <1>4, <1>5

\* A pointer into the arrays is to a node of the id.
Points(a, b, id) == \E v : Holds(a, b[id].array, b[id].index, v) /\ v.ID = id

\* A write through a pointer changes one node, and no id.
WriteOf(a, b, g, i, key, v) == b = [a EXCEPT ![g][i][key] = v]

NodeChanged(node, other, key, v) ==
    /\ other \in NumaNodes /\ other.ID = node.ID
    /\ \A k \in Text!NumaKeys : other[k] = IF k = key THEN v ELSE node[k]

WrittenThrough(a, b, g, i, other, W) ==
    /\ b \in Seq(W) /\ Len(b) = Len(a) /\ b # <<>> /\ Holds(b, g, i, other)
    /\ \A h, j, u : Holds(a, h, j, u) /\ ~(h = g /\ j = i) => Holds(b, h, j, u)
    /\ \A h \in 1 .. Len(a) : Len(b[h]) = Len(a[h])

LEMMA NodeWritten ==
    ASSUME NEW W, W = Seq(NumaNodes), NEW a \in Seq(W), NEW g, NEW i, NEW node, Holds(a, g, i, node),
           NEW key \in Text!NumaKeys, NEW v \in NumaValues,
           NEW b, WriteOf(a, b, g, i, key, v)
    PROVE  \E other : NodeChanged(node, other, key, v) /\ WrittenThrough(a, b, g, i, other, W)
  <1>0. g \in 1 .. Len(a) /\ i \in 1 .. Len(a[g]) /\ a[g][i] = node
    BY DEF Holds
  <1>3. PICK row \in Seq(NumaNodes) : row = a[g]
    <2>1. a[g] \in W
      BY <1>0, ElementOf, Zenon
    <2> QED BY <2>1
  <1>1. i \in 1 .. Len(row) /\ node = row[i] /\ node \in NumaNodes
    <2>1. i \in 1 .. Len(row) /\ node = row[i]
      BY <1>0, <1>3, Zenon
    <2> QED BY <2>1, ElementOf, Zenon
  <1>2. PICK other \in NumaNodes :
           /\ other = [node EXCEPT ![key] = v] /\ other.ID = node.ID
           /\ \A k \in Text!NumaKeys : other[k] = IF k = key THEN v ELSE node[k]
    <2>1. key # "ID" /\ key \in Text!NumaKeys \cup {"ID"}
      BY DEF Text!NumaKeys
    <2>2. [node EXCEPT ![key] = v] \in NumaNodes
      BY <1>1, <2>1 DEF NumaNodes
    <2>3. DOMAIN node = Text!NumaKeys \cup {"ID"}
      BY <1>1 DEF NumaNodes
    <2>4. /\ [node EXCEPT ![key] = v].ID = node.ID
          /\ \A k \in Text!NumaKeys : [node EXCEPT ![key] = v][k] = IF k = key THEN v ELSE node[k]
      BY <2>1, <2>3
    <2> QED BY <2>2, <2>4, Zenon
  <1>10. PICK wrote : wrote = [row EXCEPT ![i] = other]
    OBVIOUS
  <1>4. Written(row, wrote, i, other, NumaNodes)
    BY <1>1, <1>2, <1>3, <1>10, PutAt, Zenon
  <1>5. b = [a EXCEPT ![g] = wrote]
    BY <1>1, <1>2, <1>3, <1>10, Zenon DEF WriteOf
  <1>6. Written(a, b, g, wrote, W)
    <2>1. wrote \in W
      BY <1>4, Zenon DEF Written
    <2>2. Written(a, [a EXCEPT ![g] = wrote], g, wrote, W)
      BY <1>0, <2>1, PutAt, Zenon
    <2> QED BY <1>5, <2>2, Zenon
  <1>7. Len(b[g]) = Len(a[g]) /\ Holds(b, g, i, other)
    BY <1>0, <1>1, <1>3, <1>4, <1>6, Zenon DEF Holds, Written
  <1>8. ASSUME NEW h, NEW j, NEW u, Holds(a, h, j, u), ~(h = g /\ j = i)
        PROVE  Holds(b, h, j, u)
    <2>0. h \in 1 .. Len(a) /\ j \in 1 .. Len(a[h]) /\ a[h][j] = u
      BY <1>8 DEF Holds
    <2>1. CASE h = g
      <3>1. j \in 1 .. Len(row) /\ j # i /\ row[j] = u
        BY <1>3, <1>8, <2>0, <2>1, Zenon
      <3> QED BY <1>0, <1>4, <1>6, <2>1, <3>1, Zenon DEF Holds, Written
    <2>2. CASE h # g
      <3>1. b[h] = a[h]
        BY <1>6, <2>0, <2>2, Zenon DEF Written
      <3> QED BY <1>6, <2>0, <3>1, Zenon DEF Holds, Written
    <2> QED BY <2>1, <2>2
  <1>9. \A h \in 1 .. Len(a) : Len(b[h]) = Len(a[h])
    BY <1>6, <1>7, Zenon DEF Written
  <1>11. NodeChanged(node, other, key, v)
    BY <1>2, Zenon DEF NodeChanged
  <1>12. WrittenThrough(a, b, g, i, other, W)
    BY <1>6, <1>7, <1>8, <1>9, Zenon DEF Written, WrittenThrough
  <1> QED BY <1>11, <1>12

\* Nodes have names of their own.
Distinct(nodes) ==
    \A m, n \in DOMAIN nodes : nodes[m].ID = nodes[n].ID => m = n

PointsLast(a, b, id) == b[id].array = Len(a) /\ b[id].index = Len(NodesIn(a))

\* The arrays and the pointers into them are those of some nodes.
Table(a, b, ids) ==
    /\ a \in Seq(Seq(NumaNodes)) /\ DOMAIN b = ids
    /\ \A id \in ids : Points(a, b, id)
    /\ Distinct(NodesIn(a)) /\ \A n \in DOMAIN NodesIn(a) : NodesIn(a)[n].ID \in ids

Blank(id) == Text!Put([k \in Text!NumaKeys |-> Text!Absent], "ID", id)

LEMMA BlankNode ==
    ASSUME NEW id \in NumaValues
    PROVE  /\ Blank(id) \in NumaNodes /\ Blank(id).ID = id
           /\ \A k \in Text!NumaKeys : Blank(id)[k] = Text!Absent
  <1>1. "ID" \notin Text!NumaKeys
    BY DEF Text!NumaKeys
  <1> QED BY <1>1 DEF Blank, NumaNodes, NumaValues, Text!Put

\* A node entered in the table.
Entered(a, c, t, ids, id) ==
    /\ Table(c, t, ids \cup {id}) /\ PointsLast(c, t, id)
    /\ NodesIn(a) \in Seq(NumaNodes) /\ NodesIn(c) = Append(NodesIn(a), Blank(id))

LEMMA NodeEntered ==
    ASSUME NEW a, NEW b, NEW ids, Table(a, b, ids), NEW id \in NumaValues, id \notin ids,
           NEW fits \in BOOLEAN, fits => a # <<>>,
           NEW c, AppendOf(a, c, Blank(id), fits),
           NEW t, t = Text!Put(b, id, [array |-> Len(c), index |-> Len(NodesIn(a)) + 1])
    PROVE  Entered(a, c, t, ids, id)
  <1>1. PICK W : W = Seq(NumaNodes)
    OBVIOUS
  <1>2. a \in Seq(W)
    BY <1>1, Zenon DEF Table
  <1>3. PICK nodes \in Seq(NumaNodes) : nodes = NodesIn(a)
    BY <1>1, <1>2, NodesInAre, Zenon
  <1>4. PICK node \in NumaNodes : node = Blank(id) /\ node.ID = id
    BY BlankNode, Zenon
  <1>15. PICK n \in Nat : n = Len(nodes) /\ DOMAIN nodes = 1 .. n
    BY <1>3
  <1>16. PICK more : more = Append(nodes, node)
    OBVIOUS
  <1>5. /\ more \in Seq(NumaNodes) /\ more = Append(nodes, node) /\ Len(more) = n + 1
        /\ DOMAIN more = 1 .. n + 1 /\ n = Len(nodes) /\ DOMAIN nodes = 1 .. n
        /\ more[n + 1] = node /\ \A i \in 1 .. n : more[i] = nodes[i]
    BY <1>3, <1>4, <1>15, <1>16, AppendOne
  <1>6. /\ c \in Seq(W) /\ c # <<>> /\ NodesIn(c) = more
        /\ \A g, i, u : Holds(a, g, i, u) => Holds(c, g, i, u)
    <2>1. AppendOf(a, c, node, fits)
      BY <1>4, Zenon
    <2>2. Extended(a, c, node, W)
      BY <1>1, <1>2, <1>4, <2>1, NodeAppended
    <2> QED BY <1>3, <1>5, <2>2, Zenon DEF Extended
  <1>7. Len(c) \in 1 .. Len(c) /\ c[Len(c)] = more
    BY <1>1, <1>6, NodesInAre, Zenon
  <1>8. PICK p : p = [array |-> Len(c), index |-> n + 1]
    OBVIOUS
  <1>9. /\ DOMAIN t = ids \cup {id} /\ t[id].array = Len(c) /\ t[id].index = n + 1
        /\ \A x \in ids : t[x] = b[x]
    <2>1. t = Text!Put(b, id, p)
      BY <1>3, <1>5, <1>8, Zenon
    <2>2. DOMAIN b = ids
      BY Zenon DEF Table
    <2>3. DOMAIN t = ids \cup {id} /\ t[id] = p /\ \A x \in ids : t[x] = b[x]
      BY <2>1, <2>2 DEF Text!Put
    <2> QED BY <1>8, <2>3
  <1>10. \A x \in ids \cup {id} : Points(c, t, x)
    <2>1. ASSUME NEW x \in ids
          PROVE  Points(c, t, x)
      BY <1>6, <1>9, Zenon DEF Table, Points
    <2>2. Points(c, t, id)
      <3>1. n + 1 \in 1 .. Len(more)
        BY <1>5
      <3>2. Holds(c, Len(c), n + 1, node)
        BY <1>5, <1>7, <3>1, Zenon DEF Holds
      <3> QED BY <1>4, <1>9, <3>2, Zenon DEF Points
    <2> QED BY <2>1, <2>2
  <1>11. \A i \in 1 .. n : more[i].ID \in ids
    BY <1>3, <1>5, Zenon DEF Table
  <1>12. \A i \in DOMAIN more : more[i].ID \in ids \cup {id}
    <2>1. \A i \in 1 .. n + 1 : i \in 1 .. n \/ i = n + 1
      OBVIOUS
    <2> QED BY <1>4, <1>5, <1>11, <2>1, Zenon
  <1>13. Distinct(more)
    <2>1. \A i \in 1 .. n + 1 : i \in 1 .. n \/ i = n + 1
      OBVIOUS
    <2>2. \A i, j \in 1 .. n : nodes[i].ID = nodes[j].ID => i = j
      BY <1>3, <1>5, Zenon DEF Table, Distinct
    <2>4. \A i \in 1 .. n : more[i].ID # id /\ more[n + 1].ID = id
      BY <1>4, <1>5, <1>11, Zenon
    <2>3. ASSUME NEW i \in 1 .. n + 1, NEW j \in 1 .. n + 1, more[i].ID = more[j].ID
          PROVE  i = j
      <3>1. CASE i \in 1 .. n /\ j \in 1 .. n
        BY <1>5, <2>2, <2>3, <3>1, Zenon
      <3>2. CASE i = n + 1
        BY <2>1, <2>3, <2>4, <3>2, Zenon
      <3>3. CASE j = n + 1
        BY <2>1, <2>3, <2>4, <3>3, Zenon
      <3> QED BY <2>1, <3>1, <3>2, <3>3
    <2> QED BY <1>5, <2>3, Zenon DEF Distinct
  <1>14. PointsLast(c, t, id)
    BY <1>5, <1>6, <1>9, Zenon DEF PointsLast
  <1> QED BY <1>1, <1>3, <1>4, <1>5, <1>6, <1>9, <1>10, <1>12, <1>13, <1>14, Zenon DEF Table, Entered

\* A value written through a node's pointer.
LEMMA TableWritten ==
    ASSUME NEW a, NEW b, NEW ids, Table(a, b, ids), NEW id \in ids,
           NEW key \in Text!NumaKeys, NEW v \in NumaValues,
           NEW c, WriteOf(a, c, b[id].array, b[id].index, key, v)
    PROVE  /\ Table(c, b, ids)
           /\ DOMAIN NodesIn(c) = DOMAIN NodesIn(a)
           /\ \A n \in DOMAIN NodesIn(a) : NodesIn(c)[n].ID = NodesIn(a)[n].ID
           /\ PointsLast(a, b, id) =>
                /\ PointsLast(c, b, id)
                /\ \A n \in DOMAIN NodesIn(a) : \A k \in Text!NumaKeys :
                      NodesIn(c)[n][k] = IF NodesIn(a)[n].ID = id /\ k = key THEN v
                                         ELSE NodesIn(a)[n][k]
  <1>1. PICK W : W = Seq(NumaNodes)
    OBVIOUS
  <1>2. a \in Seq(W)
    BY <1>1, Zenon DEF Table
  <1>3. PICK g, i : g = b[id].array /\ i = b[id].index
    OBVIOUS
  <1>4. PICK node : Holds(a, g, i, node) /\ node.ID = id
    BY <1>3, Zenon DEF Table, Points
  <1>5. PICK other : NodeChanged(node, other, key, v) /\ WrittenThrough(a, c, g, i, other, W)
    <2>1. WriteOf(a, c, g, i, key, v)
      BY <1>3, Zenon
    <2> QED BY <1>1, <1>2, <1>4, <2>1, NodeWritten
  <1>6. ASSUME NEW h, NEW j, NEW u, Holds(a, h, j, u)
        PROVE  \E w : Holds(c, h, j, w) /\ w.ID = u.ID
    <2>1. CASE h = g /\ j = i
      <3>1. u = node
        BY <1>4, <1>6, <2>1, Zenon DEF Holds
      <3> QED BY <1>5, <2>1, <3>1, Zenon DEF NodeChanged, WrittenThrough
    <2>2. CASE ~(h = g /\ j = i)
      BY <1>5, <1>6, <2>2, Zenon DEF WrittenThrough
    <2> QED BY <2>1, <2>2
  <1>7. \A x \in ids : Points(c, b, x)
    <2> SUFFICES ASSUME NEW x \in ids
                 PROVE  Points(c, b, x)
      OBVIOUS
    <2>1. PICK u : Holds(a, b[x].array, b[x].index, u) /\ u.ID = x
      BY Zenon DEF Table, Points
    <2>2. PICK h, j : h = b[x].array /\ j = b[x].index
      OBVIOUS
    <2>3. Holds(a, h, j, u)
      BY <2>1, <2>2, Zenon
    <2>4. PICK w : Holds(c, h, j, w) /\ w.ID = u.ID
      BY <1>6, <2>3
    <2> QED BY <2>1, <2>2, <2>4, Zenon DEF Points
  <1>8. a # <<>>
    <2>1. g \in 1 .. Len(a)
      BY <1>4, Zenon DEF Holds
    <2> QED BY <2>1
  <1>9. PICK last, nodes, wrote :
          /\ last = Len(a) /\ last = Len(c) /\ last \in 1 .. Len(a)
          /\ nodes = NodesIn(a) /\ nodes = a[last] /\ wrote = NodesIn(c) /\ wrote = c[last]
    <2>1. PICK last : last = Len(a)
      OBVIOUS
    <2>2. c \in Seq(W) /\ Len(c) = last /\ c # <<>>
      BY <1>5, <2>1, Zenon DEF WrittenThrough
    <2>3. last \in 1 .. Len(a) /\ NodesIn(a) = a[last]
      BY <1>1, <1>2, <1>8, <2>1, NodesInAre, Zenon
    <2>4. NodesIn(c) = c[last]
      BY <1>1, <2>2, NodesInAre, Zenon
    <2> QED BY <2>1, <2>2, <2>3, <2>4, Zenon
  <1>10. nodes \in Seq(NumaNodes) /\ wrote \in Seq(NumaNodes) /\ Len(wrote) = Len(nodes)
    <2>3. c \in Seq(W)
      BY <1>5, Zenon DEF WrittenThrough
    <2>4. NodesIn(a) \in W /\ NodesIn(c) \in W
      BY <1>1, <1>2, <2>3, NodesInAre, Zenon
    <2>1. nodes \in W /\ wrote \in W
      BY <1>9, <2>4, Zenon
    <2>2. Len(wrote) = Len(nodes)
      BY <1>5, <1>9, Zenon DEF WrittenThrough
    <2> QED BY <1>1, <2>1, <2>2, Zenon
  <1>11. PICK l \in Nat : l = Len(nodes) /\ DOMAIN nodes = 1 .. l /\ DOMAIN wrote = 1 .. l
    BY <1>10
  <1>12. ASSUME NEW n \in 1 .. l
         PROVE  wrote[n].ID = nodes[n].ID
    <2>1. Holds(a, last, n, nodes[n])
      BY <1>9, <1>11, Zenon DEF Holds
    <2>2. PICK w : Holds(c, last, n, w) /\ w.ID = nodes[n].ID
      BY <1>6, <2>1
    <2> QED BY <1>9, <2>2, Zenon DEF Holds
  <1>13. Table(c, b, ids)
    <2>1. Distinct(nodes) /\ DOMAIN b = ids /\ \A n \in 1 .. l : nodes[n].ID \in ids
      BY <1>9, <1>11, Zenon DEF Table
    <2>2. Distinct(wrote)
      BY <1>11, <1>12, <2>1, Zenon DEF Distinct
    <2>3. \A n \in DOMAIN wrote : wrote[n].ID \in ids
      BY <1>11, <1>12, <2>1, Zenon
    <2> QED BY <1>1, <1>5, <1>7, <1>9, <2>1, <2>2, <2>3, Zenon DEF Table, WrittenThrough
  <1>14. ASSUME PointsLast(a, b, id)
         PROVE  PointsLast(c, b, id)
    BY <1>9, <1>10, <1>14, Zenon DEF PointsLast
  <1>15. ASSUME PointsLast(a, b, id), NEW n \in 1 .. l, NEW k \in Text!NumaKeys
         PROVE  wrote[n][k] = IF nodes[n].ID = id /\ k = key THEN v ELSE nodes[n][k]
    <2>1. g = last /\ i = l
      BY <1>3, <1>9, <1>11, <1>15, Zenon DEF PointsLast
    <2>2. l \in 1 .. l /\ node = nodes[l] /\ wrote[l] = other
      BY <1>4, <1>5, <1>9, <1>11, <2>1, Zenon DEF Holds, WrittenThrough
    <2>3. CASE n = l
      BY <1>4, <1>5, <2>2, <2>3, Zenon DEF NodeChanged
    <2>4. CASE n # l
      <3>1. nodes[n].ID # id
        BY <1>4, <1>9, <1>11, <2>2, <2>4, Zenon DEF Table, Distinct
      <3>2. Holds(a, last, n, nodes[n])
        BY <1>9, <1>11, Zenon DEF Holds
      <3>3. Holds(c, last, n, nodes[n])
        BY <1>5, <2>1, <2>4, <3>2, Zenon DEF WrittenThrough
      <3>4. wrote[n] = nodes[n]
        BY <1>9, <3>3, Zenon DEF Holds
      <3> QED BY <3>1, <3>4, Zenon
    <2> QED BY <2>3, <2>4
  <1>16. /\ DOMAIN NodesIn(c) = 1 .. l /\ DOMAIN NodesIn(a) = 1 .. l
         /\ NodesIn(c) = wrote /\ NodesIn(a) = nodes
    BY <1>9, <1>11, Zenon
  <1> QED BY <1>12, <1>13, <1>14, <1>15, <1>16, Zenon

IdsOf(nodes) == [n \in DOMAIN nodes |-> nodes[n].ID]

\* Nodes have the values of their lines.
HaveValues(nodes) ==
    \A n \in DOMAIN nodes : \A k \in Text!NumaKeys : \A id :
        id = nodes[n].ID => nodes[n][k] = ValueOf(id, k)

\* The last line is about the last node.
LastInTable(a, b) ==
    \A i \in NodeLines : (\A j \in NodeLines : j <= i) => PointsLast(a, b, world[i].id)

\* The table is that of the lines so far. A pointer may be into an array left behind,
\* and what is written through it is lost, unless it is the last node's.
TableInv(a, b) ==
    /\ Table(a, b, NodeIds)
    /\ IdsOf(NodesIn(a)) = Told(Firsts, "id")
    /\ Together => HaveValues(NodesIn(a)) /\ LastInTable(a, b)

WillBeTable(a, b) == TableInv(a, b)'

LEMMA TogetherWas ==
    ASSUME NEW L \in Nat, NEW line, Grows(L, line), Together'
    PROVE  /\ Together
           /\ Counts(line, L) /\ line.id \in NodeIds =>
                \E i \in NodeLines : (\A j \in NodeLines : j <= i) /\ world[i].id = line.id
  <1>1. PICK N \in SUBSET (1 .. L) : N = NodeLines
    BY NodeLinesMove
  <1>2. PICK M \in SUBSET (1 .. L + 1) :
           M = NodeLines' /\ M = IF Counts(line, L) THEN N \cup {L + 1} ELSE N
    BY <1>1, NodeLinesMove
  <1>3. \A i \in 1 .. L : world'[i] = world[i]
    BY DEF Grows
  <1>4. world'[L + 1] = line
    BY DEF Grows
  <1>5. \A i, j, m \in M :
           i < m /\ m < j /\ world'[i].id = world'[j].id => world'[m].id = world'[i].id
    BY <1>2, Zenon DEF Together
  <1>6. \A i \in N : i \in M /\ world'[i] = world[i] /\ i < L + 1
    BY <1>1, <1>2, <1>3
  <1>7. \A i, j, m \in N : i < m /\ m < j /\ world[i].id = world[j].id => world[m].id = world[i].id
    <2> SUFFICES ASSUME NEW i \in N, NEW j \in N, NEW m \in N,
                        i < m, m < j, world[i].id = world[j].id
                 PROVE  world[m].id = world[i].id
      OBVIOUS
    <2>1. world'[i].id = world'[j].id
      BY <1>6
    <2>2. world'[m].id = world'[i].id
      BY <1>5, <1>6, <2>1, Zenon
    <2> QED BY <1>6, <2>2
  <1>8. Together
    BY <1>1, <1>7, Zenon DEF Together
  <1>9. ASSUME Counts(line, L), line.id \in NodeIds
        PROVE  \E i \in N : (\A j \in N : j <= i) /\ world[i].id = line.id
    <2>1. PICK i \in N : world[i].id = line.id
      BY <1>1, <1>9 DEF NodeIds
    <2>2. N \in SUBSET (0 .. L) /\ N # {}
      BY <1>1, <2>1
    <2>3. PICK m \in N : \A j \in N : j <= m
      BY <2>2, GreatestPosition
    <2>4. CASE m = i
      BY <2>1, <2>3, <2>4
    <2>5. CASE m # i
      <3>1. i < m /\ m < L + 1
        BY <1>6, <2>1, <2>3, <2>5
      <3>2. L + 1 \in M
        BY <1>2, <1>9
      <3>3. world'[i].id = world'[L + 1].id
        BY <1>4, <1>6, <2>1
      <3>4. world'[m].id = world'[i].id
        BY <1>5, <1>6, <3>1, <3>2, <3>3, Zenon
      <3> QED BY <1>6, <2>1, <2>3, <3>4
    <2> QED BY <2>4, <2>5
  <1> QED BY <1>1, <1>8, <1>9

LEMMA FirstsTold ==
    ASSUME NEW L \in Nat, NEW line, Grows(L, line)
    PROVE  Told(Firsts, "id")' = IF Counts(line, L) /\ line.id \notin NodeIds
                                 THEN Append(Told(Firsts, "id"), line.id) ELSE Told(Firsts, "id")
  <1>1. PICK F \in SUBSET (1 .. L) : F = Firsts
    BY FirstsMove
  <1>2. PICK G : /\ G = Firsts'
                 /\ G = IF Counts(line, L) /\ line.id \notin NodeIds THEN F \cup {L + 1} ELSE F
    BY <1>1, FirstsMove
  <1>3. /\ Told(F, "id")' = Told(F, "id")
        /\ Told(F \cup {L + 1}, "id")' = Append(Told(F, "id"), line["id"])
    BY <1>1, ToldGrows
  <1>4. Told(Firsts, "id")' = Told(G, "id")'
    BY <1>2 DEF Told
  <1> QED BY <1>1, <1>2, <1>3, <1>4

\* A line about no node leaves the table what it was.
LEMMA TableStays ==
    ASSUME NEW L \in Nat, NEW line, Grows(L, line), ~Counts(line, L), NEW a, NEW b, TableInv(a, b)
    PROVE  WillBeTable(a, b)
  <1>1. PICK N \in SUBSET (1 .. L) : N = NodeLines /\ N = NodeLines'
    BY NodeLinesMove
  <1>2. NodeIds' = NodeIds
    BY NodeLinesMove
  <1>3. Told(Firsts, "id")' = Told(Firsts, "id")
    BY FirstsTold
  <1>4. ASSUME Together'
        PROVE  HaveValues(NodesIn(a))' /\ LastInTable(a, b)'
    <2>1. HaveValues(NodesIn(a)) /\ LastInTable(a, b)
      BY <1>4, TogetherWas DEF TableInv
    <2>2. \A id, k : ValueOf(id, k)' = ValueOf(id, k)
      BY ValueMoves
    <2>3. \A i \in N : world'[i] = world[i]
      BY DEF Grows
    <2>4. Text!NumaKeys' = Text!NumaKeys
      BY DEF Text!NumaKeys
    <2>5. PICK nodes : nodes = NodesIn(a)
      OBVIOUS
    <2>6. HaveValues(NodesIn(a))'
      BY <2>1, <2>2, <2>4, Zenon DEF HaveValues, NodesIn
    <2>7. LastInTable(a, b)'
      BY <1>1, <2>1, <2>3, Zenon DEF LastInTable, PointsLast, NodesIn
    <2> QED BY <2>6, <2>7
  <1>5. Table(a, b, NodeIds)'
    <2>1. PICK ids : ids = NodeIds
      OBVIOUS
    <2>2. Table(a, b, ids)'
      BY <2>1, Zenon DEF TableInv, Table, NumaNodes, NumaValues, NumaLines, Points, Distinct, NodesIn, Holds, Text!NumaKeys
    <2> QED BY <1>2, <2>1, <2>2, Zenon
  <1>6. (IdsOf(NodesIn(a)) = Told(Firsts, "id"))'
    BY <1>3, Zenon DEF TableInv, IdsOf, NodesIn
  <1> QED BY <1>4, <1>5, <1>6, Zenon DEF WillBeTable, TableInv

LEMMA OneMoreId ==
    ASSUME NEW nodes \in Seq(NumaNodes), NEW node \in NumaNodes
    PROVE  IdsOf(Append(nodes, node)) = Append(IdsOf(nodes), node.ID)
  <1>1. PICK n \in Nat : n = Len(nodes) /\ DOMAIN nodes = 1 .. n
    OBVIOUS
  <1>2. PICK more : more = Append(nodes, node)
    OBVIOUS
  <1>3. /\ DOMAIN more = 1 .. n + 1
        /\ more[n + 1] = node /\ \A i \in 1 .. n : more[i] = nodes[i]
    BY <1>1, <1>2, AppendOne
  <1>4. PICK ids, longer : ids = IdsOf(nodes) /\ longer = IdsOf(more)
    OBVIOUS
  <1>5. \A x \in NumaNodes : x.ID \in NumaValues
    BY DEF NumaNodes
  <1>6. ids = [i \in 1 .. n |-> nodes[i].ID] /\ longer = [i \in 1 .. n + 1 |-> more[i].ID]
    BY <1>1, <1>3, <1>4, Zenon DEF IdsOf
  <1>7. \A i \in 1 .. n : nodes[i].ID \in NumaValues
    BY <1>1, <1>5
  <1>8. ids \in Seq(NumaValues) /\ Len(ids) = n
    BY <1>6, <1>7
  <1>9. \A i \in 1 .. n + 1 : more[i].ID \in NumaValues
    <2>1. \A i \in 1 .. n + 1 : i \in 1 .. n \/ i = n + 1
      OBVIOUS
    <2> QED BY <1>3, <1>5, <1>7, <2>1, Zenon
  <1>10. longer \in Seq(NumaValues) /\ Len(longer) = n + 1
    BY <1>6, <1>9
  <1>11. (\A i \in 1 .. n : longer[i] = ids[i]) /\ longer[n + 1] = node.ID
    BY <1>3, <1>6
  <1>12. node.ID \in NumaValues
    BY <1>5, Zenon
  <1>13. longer = Append(ids, node.ID)
    BY <1>8, <1>10, <1>11, <1>12, LongerByOne
  <1> QED BY <1>2, <1>4, <1>13, Zenon

\* A line about a node enters it if it is new, and writes its value.
LEMMA TableGrows ==
    ASSUME NEW L \in Nat, NEW line \in NumaLines, Grows(L, line), Counts(line, L),
           NEW a, NEW b, TableInv(a, b), NEW c, NEW t, NEW e,
           Table(c, t, NodeIds \cup {line.id}),
           line.id \in NodeIds => c = a /\ t = b,
           line.id \notin NodeIds => /\ PointsLast(c, t, line.id) /\ NodesIn(a) \in Seq(NumaNodes)
                                     /\ NodesIn(c) = Append(NodesIn(a), Blank(line.id)),
           WriteOf(c, e, t[line.id].array, t[line.id].index, line.key, line.val)
    PROVE  WillBeTable(e, t)
  <1>1. PICK id \in NumaValues, key \in Text!NumaKeys, v \in NumaValues :
           id = line.id /\ key = line.key /\ v = line.val
    BY DEF NumaValues, Counts
  <1>2. PICK ids, old : old = NodeIds /\ ids = old \cup {id}
    OBVIOUS
  <1>3. NodeIds' = ids
    BY <1>1, <1>2, NodeLinesMove
  <1>4. PICK nodes, wrote : nodes = NodesIn(c) /\ wrote = NodesIn(e)
    OBVIOUS
  <1>5. /\ Table(e, t, ids)
        /\ DOMAIN wrote = DOMAIN nodes
        /\ \A n \in DOMAIN nodes : wrote[n].ID = nodes[n].ID
        /\ PointsLast(c, t, id) =>
             /\ PointsLast(e, t, id)
             /\ \A n \in DOMAIN nodes : \A k \in Text!NumaKeys :
                   wrote[n][k] = IF nodes[n].ID = id /\ k = key THEN v ELSE nodes[n][k]
    <2>1. Table(c, t, ids) /\ id \in ids
      BY <1>1, <1>2, Zenon
    <2>2. WriteOf(c, e, t[id].array, t[id].index, key, v)
      BY <1>1, Zenon
    <2> QED BY <1>4, <2>1, <2>2, TableWritten
  <1>6. IdsOf(wrote) = IdsOf(nodes)
    BY <1>5, Zenon DEF IdsOf
  <1>7. PICK before : before = NodesIn(a)
    OBVIOUS
  <1>8. /\ IdsOf(wrote) = Told(Firsts, "id")'
        /\ Together' => PointsLast(c, t, id) /\ HaveValues(nodes)
    <2>1. CASE id \in old
      <3>1. c = a /\ t = b /\ nodes = before
        BY <1>1, <1>2, <1>4, <1>7, <2>1, Zenon
      <3>2. IdsOf(wrote) = Told(Firsts, "id")'
        <4>1. Told(Firsts, "id")' = Told(Firsts, "id")
          BY <1>1, <1>2, <2>1, FirstsTold
        <4> QED BY <1>6, <1>7, <3>1, <4>1, Zenon DEF TableInv
      <3>3. ASSUME Together'
            PROVE  PointsLast(c, t, id) /\ HaveValues(nodes)
        <4>1. HaveValues(nodes) /\ LastInTable(c, t)
          BY <1>7, <3>1, <3>3, TogetherWas, Zenon DEF TableInv
        <4>2. \E i \in NodeLines : (\A j \in NodeLines : j <= i) /\ world[i].id = line.id
          BY <1>1, <1>2, <2>1, <3>3, TogetherWas
        <4> QED BY <1>1, <4>1, <4>2, Zenon DEF LastInTable
      <3> QED BY <3>2, <3>3
    <2>2. CASE id \notin old
      <3>1. /\ PointsLast(c, t, id) /\ before \in Seq(NumaNodes)
            /\ nodes = Append(before, Blank(id))
        BY <1>1, <1>2, <1>4, <1>7, <2>2, Zenon
      <3>2. PICK node \in NumaNodes :
               /\ node = Blank(id) /\ node.ID = id
               /\ \A k \in Text!NumaKeys : node[k] = Text!Absent
        BY BlankNode, Zenon
      <3>3. IdsOf(wrote) = Told(Firsts, "id")'
        <4>1. Told(Firsts, "id")' = Append(Told(Firsts, "id"), id)
          BY <1>1, <1>2, <2>2, FirstsTold
        <4>2. IdsOf(nodes) = Append(IdsOf(before), id)
          BY <3>1, <3>2, OneMoreId
        <4>3. IdsOf(before) = Told(Firsts, "id")
          BY <1>7, Zenon DEF TableInv
        <4> QED BY <1>6, <4>1, <4>2, <4>3, Zenon
      <3>4. ASSUME Together'
            PROVE  HaveValues(nodes)
        <4>1. HaveValues(before)
          BY <1>7, <3>4, TogetherWas, Zenon DEF TableInv
        <4>2. PICK m \in Nat : m = Len(before) /\ DOMAIN before = 1 .. m
          BY <3>1
        <4>3. /\ DOMAIN nodes = 1 .. m + 1
              /\ nodes[m + 1] = node /\ \A i \in 1 .. m : nodes[i] = before[i]
          BY <3>1, <3>2, <4>2, AppendOne
        <4>4. \A k : ValueOf(id, k) = Text!Absent
          BY <1>2, <2>2, ValueMoves
        <4>5. \A i \in 1 .. m + 1 : i \in 1 .. m \/ i = m + 1
          OBVIOUS
        <4>6. \A i \in 1 .. m : \A k \in Text!NumaKeys : nodes[i][k] = ValueOf(nodes[i].ID, k)
          <5>1. \A i \in 1 .. m : \A k \in Text!NumaKeys : before[i][k] = ValueOf(before[i].ID, k)
            BY <4>1, <4>2, Zenon DEF HaveValues
          <5>2. ASSUME NEW i \in 1 .. m, NEW k \in Text!NumaKeys
                PROVE  nodes[i][k] = ValueOf(nodes[i].ID, k)
            BY <4>3, <5>1, Zenon
          <5> QED BY <5>2
        <4>7. \A k \in Text!NumaKeys : nodes[m + 1][k] = ValueOf(nodes[m + 1].ID, k)
          BY <3>2, <4>3, <4>4, Zenon
        <4>8. \A i \in DOMAIN nodes : \A k \in Text!NumaKeys :
                 nodes[i][k] = ValueOf(nodes[i].ID, k)
          BY <4>3, <4>5, <4>6, <4>7, Zenon
        <4> QED BY <4>8, Zenon DEF HaveValues
      <3> QED BY <3>1, <3>3, <3>4
    <2> QED BY <2>1, <2>2
  <1>10. ASSUME Together'
         PROVE  HaveValues(NodesIn(e))' /\ LastInTable(e, t)'
    <2>1. PointsLast(c, t, id) /\ HaveValues(nodes)
      BY <1>8, <1>10, Zenon
    <2>2. PointsLast(e, t, id) /\ \A n \in DOMAIN nodes : \A k \in Text!NumaKeys :
             wrote[n][k] = IF nodes[n].ID = id /\ k = key THEN v ELSE nodes[n][k]
      BY <1>5, <2>1, Zenon
    <2>3. \A x, k : ValueOf(x, k)' = IF id = x /\ key = k THEN v ELSE ValueOf(x, k)
      BY <1>1, ValueMoves
    <2>4. \A n \in DOMAIN wrote : \A k \in Text!NumaKeys : wrote[n][k] = ValueOf(wrote[n].ID, k)'
      <3> SUFFICES ASSUME NEW n \in DOMAIN wrote, NEW k \in Text!NumaKeys
                   PROVE  wrote[n][k] = ValueOf(wrote[n].ID, k)'
        OBVIOUS
      <3>1. PICK x : x = nodes[n].ID
        OBVIOUS
      <3>2. n \in DOMAIN nodes /\ wrote[n].ID = x
        BY <1>5, <3>1, Zenon
      <3>3. nodes[n][k] = ValueOf(x, k)
        BY <2>1, <3>1, <3>2, Zenon DEF HaveValues
      <3>4. wrote[n][k] = IF x = id /\ k = key THEN v ELSE nodes[n][k]
        BY <2>2, <3>1, <3>2, Zenon
      <3>5. wrote[n][k] = ValueOf(x, k)'
        BY <2>3, <3>3, <3>4
      <3>6. PICK y : y = wrote[n].ID
        OBVIOUS
      <3> QED BY <3>2, <3>5, Zenon
    <2>5. HaveValues(NodesIn(e))'
      <3>1. NodesIn(e)' = wrote /\ Text!NumaKeys' = Text!NumaKeys
        BY <1>4 DEF NodesIn, Text!NumaKeys
      <3> QED BY <2>4, <3>1, Zenon DEF HaveValues
    <2>6. LastInTable(e, t)'
      <3>1. PICK M : M = NodeLines'
        OBVIOUS
      <3>2. L + 1 \in M /\ M \in SUBSET (1 .. L + 1)
        <4>1. PICK N \in SUBSET (1 .. L) : N = NodeLines
          BY NodeLinesMove
        <4>2. M = N \cup {L + 1}
          BY <3>1, <4>1, NodeLinesMove
        <4> QED BY <4>2
      <3>3. world'[L + 1].id = id
        BY <1>1 DEF Grows
      <3>4. \A i \in M : (\A j \in M : j <= i) => i = L + 1
        BY <3>2
      <3>5. \A i \in M : (\A j \in M : j <= i) => PointsLast(e, t, world'[i].id)
        BY <2>2, <3>3, <3>4, Zenon
      <3> QED BY <3>1, <3>5, Zenon DEF LastInTable, PointsLast, NodesIn
    <2> QED BY <2>5, <2>6
  <1>11. Table(e, t, NodeIds)'
    <2>2. Table(e, t, ids)'
      BY <1>5, Zenon DEF Table, NumaNodes, NumaValues, NumaLines, Points, Distinct, NodesIn, Holds, Text!NumaKeys
    <2> QED BY <1>3, <2>2, Zenon
  <1>12. (IdsOf(NodesIn(e)) = Told(Firsts, "id"))'
    BY <1>4, <1>8, Zenon DEF IdsOf, NodesIn
  <1> QED BY <1>10, <1>11, <1>12, Zenon DEF WillBeTable, TableInv

NumaLocals(a, b, d, e) ==
    [arrays |-> a, nodesByID |-> b, distances |-> d, inDistances |-> e]

\* The table is that of the lines above the header, the distances those below.
NumaInv ==
    /\ world \in Seq(NumaLines)
    /\ st = NumaLocals(st.arrays, st.nodesByID, st.distances, st.inDistances)
    /\ st.inDistances \in BOOLEAN /\ (st.inDistances <=> Header <= Len(world))
    /\ st.distances = Told(RowLines, "val")
    /\ TableInv(st.arrays, st.nodesByID)

\* The locals are fields of their own.
Fields(s, a, b, d, e, x, y) ==
    /\ s.arrays = a /\ s.nodesByID = b /\ s.distances = d /\ s.inDistances = e
    /\ [s EXCEPT !.arrays = x] = NumaLocals(x, b, d, e)
    /\ [s EXCEPT !.distances = x] = NumaLocals(a, b, x, e)
    /\ [s EXCEPT !.inDistances = x] = NumaLocals(a, b, d, x)
    /\ [s EXCEPT !.arrays = x, !.nodesByID = y] = NumaLocals(x, y, d, e)

LEMMA NumaFields ==
    ASSUME NEW a, NEW b, NEW d, NEW e, NEW x, NEW y, NEW s, s = NumaLocals(a, b, d, e)
    PROVE  Fields(s, a, b, d, e, x, y)
  <1>1. s.arrays = a /\ s.nodesByID = b /\ s.distances = d /\ s.inDistances = e
    BY DEF NumaLocals
  <1>2. [s EXCEPT !.arrays = x] = NumaLocals(x, b, d, e)
    BY DEF NumaLocals
  <1>3. [s EXCEPT !.distances = x] = NumaLocals(a, b, x, e)
    BY DEF NumaLocals
  <1>4. [s EXCEPT !.inDistances = x] = NumaLocals(a, b, d, x)
    BY DEF NumaLocals
  <1>5. PICK r : r = [s EXCEPT !.arrays = x]
    OBVIOUS
  <1>6. r = NumaLocals(x, b, d, e)
    BY <1>2, <1>5, Zenon
  <1>7. [r EXCEPT !.nodesByID = y] = NumaLocals(x, y, d, e)
    BY <1>6 DEF NumaLocals
  <1>9. [s EXCEPT !.arrays = x, !.nodesByID = y] = [r EXCEPT !.nodesByID = y]
    BY <1>5, Zenon
  <1>8. [s EXCEPT !.arrays = x, !.nodesByID = y] = NumaLocals(x, y, d, e)
    BY <1>7, <1>9, Zenon
  <1> QED BY <1>1, <1>2, <1>3, <1>4, <1>8, Zenon DEF Fields

\* What a line does to the table.
Reaches(a, b, id, c, t) ==
    IF id \in DOMAIN b THEN c = a /\ t = b
    ELSE /\ \E fits \in BOOLEAN : (fits => a # <<>>) /\ AppendOf(a, c, Blank(id), fits)
         /\ t = Text!Put(b, id, [array |-> Len(c), index |-> Len(NodesIn(a)) + 1])

LEMMA NodeReached ==
    ASSUME NEW a, a \in Seq(Seq(NumaNodes)), NEW b, NEW d, NEW e, NEW id
    PROVE  \E c, t : /\ Text!Node(NumaLocals(a, b, d, e), id) = NumaLocals(c, t, d, e)
                     /\ Reaches(a, b, id, c, t)
  <1>1. PICK s : s = NumaLocals(a, b, d, e)
    OBVIOUS
  <1>2. /\ s.arrays = a /\ s.nodesByID = b
        /\ \A x, y : [s EXCEPT !.arrays = x, !.nodesByID = y] = NumaLocals(x, y, d, e)
    <2>1. \A x, y : Fields(s, a, b, d, e, x, y)
      BY <1>1, NumaFields
    <2> QED BY <2>1, Zenon DEF Fields
  <1>3. CASE id \in DOMAIN b
    <2>1. Text!Node(s, id) = s
      BY <1>2, <1>3, Zenon DEF Text!Node
    <2> QED BY <1>1, <1>3, <2>1, Zenon DEF Reaches
  <1>4. CASE id \notin DOMAIN b
    <2>1. Text!Node(s, id) = Text!Appended(s, id)
      BY <1>2, <1>4, Zenon DEF Text!Node
    <2>2. Text!Nodes(s) = NodesIn(a)
      BY <1>2, Zenon DEF Text!Nodes, NodesIn, Text!Last
    <2>3. PICK fits \in BOOLEAN :
             fits <=> Len(a) > 0 /\ Len(a[Len(a)]) < 2^(Len(a) - 1)
      OBVIOUS
    <2>4. fits => a # <<>>
      <3>1. fits => Len(a) > 0
        BY <2>3, Zenon
      <3>2. a = <<>> => ~(Len(a) > 0)
        OBVIOUS
      <3> QED BY <3>1, <3>2
    <2>5. PICK c : c = IF fits THEN [a EXCEPT ![Len(a)] = Append(a[Len(a)], Blank(id))]
                       ELSE Append(a, Append(NodesIn(a), Blank(id)))
      OBVIOUS
    <2>6. AppendOf(a, c, Blank(id), fits)
      BY <2>5, Zenon DEF AppendOf
    <2>7. PICK t : t = Text!Put(b, id, [array |-> Len(c), index |-> Len(NodesIn(a)) + 1])
      OBVIOUS
    <2>8. Text!Appended(s, id) = [s EXCEPT !.arrays = c, !.nodesByID = t]
      BY <1>2, <2>2, <2>3, <2>5, <2>7, Zenon DEF Text!Appended, Blank
    <2>9. Text!Node(s, id) = NumaLocals(c, t, d, e)
      BY <1>2, <2>1, <2>8, Zenon
    <2> QED BY <1>1, <1>4, <2>4, <2>6, <2>7, <2>9, Zenon DEF Reaches
  <1> QED BY <1>3, <1>4

Updated(a, b, d, e, line, u) ==
    /\ line.key = "distances" => u = NumaLocals(a, b, d, TRUE)
    /\ e /\ line.key = "row" => u = NumaLocals(a, b, Append(d, line.val), e)
    /\ ~e /\ line.key \in Text!NumaKeys =>
         \E c, t, w : /\ Reaches(a, b, line.id, c, t)
                      /\ WriteOf(c, w, t[line.id].array, t[line.id].index, line.key, line.val)
                      /\ u = NumaLocals(w, t, d, e)
    /\ (/\ line.key # "distances" /\ ~(e /\ line.key = "row")
        /\ ~(~e /\ line.key \in Text!NumaKeys)) => u = NumaLocals(a, b, d, e)

LEMMA NumaUpdates ==
    ASSUME NEW a, a \in Seq(Seq(NumaNodes)), NEW b, NEW d, NEW e \in BOOLEAN, NEW line,
           NEW u, u = Text!NumaLine(NumaLocals(a, b, d, e), line)
    PROVE  Updated(a, b, d, e, line, u)
  <1>1. PICK s : s = NumaLocals(a, b, d, e)
    OBVIOUS
  <1>2. /\ s.inDistances = e /\ s.distances = d
        /\ [s EXCEPT !.inDistances = TRUE] = NumaLocals(a, b, d, TRUE)
        /\ \A x : [s EXCEPT !.distances = x] = NumaLocals(a, b, x, e)
    <2>1. \A x, y : Fields(s, a, b, d, e, x, y)
      BY <1>1, NumaFields
    <2> QED BY <2>1, Zenon DEF Fields
  <1>3. line.key \in Text!NumaKeys => line.key # "distances" /\ line.key # "row"
    BY DEF Text!NumaKeys
  <1>5. "row" # "distances"
    OBVIOUS
  <1>4. line.key = "distances" => u = NumaLocals(a, b, d, TRUE)
    BY <1>1, <1>2, <1>3, <1>5, Zenon DEF Text!NumaLine
  <1>6. ASSUME e, line.key = "row"
        PROVE  u = NumaLocals(a, b, Append(d, line.val), e)
    <2>1. u = [s EXCEPT !.distances = Append(@, line.val)]
      BY <1>1, <1>2, <1>5, <1>6, Zenon DEF Text!NumaLine
    <2> QED BY <1>2, <2>1, Zenon
  <1>7. ASSUME ~e, line.key \in Text!NumaKeys
        PROVE  \E c, t, w :
                  /\ Reaches(a, b, line.id, c, t)
                  /\ WriteOf(c, w, t[line.id].array, t[line.id].index, line.key, line.val)
                  /\ u = NumaLocals(w, t, d, e)
    <2>1. PICK c, t : /\ Text!Node(s, line.id) = NumaLocals(c, t, d, e)
                      /\ Reaches(a, b, line.id, c, t)
      BY <1>1, NodeReached
    <2>2. PICK n : n = NumaLocals(c, t, d, e)
      OBVIOUS
    <2>3. PICK g, i, key, v : g = t[line.id].array /\ i = t[line.id].index
                              /\ key = line.key /\ v = line.val
      OBVIOUS
    <2>4. /\ n.arrays = c /\ n.nodesByID = t
          /\ \A x : [n EXCEPT !.arrays = x] = NumaLocals(x, t, d, e)
      <3>1. \A x, y : Fields(n, c, t, d, e, x, y)
        BY <2>2, NumaFields
      <3> QED BY <3>1, Zenon DEF Fields
    <2>5. u = [n EXCEPT !.arrays[g][i][key] = v]
      BY <1>1, <1>2, <1>3, <1>7, <2>1, <2>2, <2>3, <2>4, Zenon DEF Text!NumaLine
    <2>6. PICK w : w = [c EXCEPT ![g][i][key] = v]
      OBVIOUS
    <2>7. u = [n EXCEPT !.arrays = w]
      BY <2>4, <2>5, <2>6, Zenon
    <2>8. u = NumaLocals(w, t, d, e)
      BY <2>4, <2>7, Zenon
    <2>9. WriteOf(c, w, t[line.id].array, t[line.id].index, line.key, line.val)
      BY <2>3, <2>6, Zenon DEF WriteOf
    <2> QED BY <2>1, <2>8, <2>9, Zenon
  <1>8. ASSUME line.key # "distances", ~(e /\ line.key = "row"), ~(~e /\ line.key \in Text!NumaKeys)
        PROVE  u = s
    BY <1>1, <1>2, <1>8, Zenon DEF Text!NumaLine
  <1> QED BY <1>1, <1>4, <1>6, <1>7, <1>8, Zenon DEF Updated

LEMMA RowsTold ==
    ASSUME NEW L \in Nat, NEW line, Grows(L, line)
    PROVE  Told(RowLines, "val")' = IF line.key = "row" /\ Header <= L
                                    THEN Append(Told(RowLines, "val"), line.val)
                                    ELSE Told(RowLines, "val")
  <1>1. PICK R \in SUBSET (1 .. L) : R = RowLines
    BY RowLinesMove
  <1>2. PICK Q : /\ Q = RowLines'
                 /\ Q = IF line.key = "row" /\ Header <= L THEN R \cup {L + 1} ELSE R
    BY <1>1, RowLinesMove
  <1>3. /\ Told(R, "val")' = Told(R, "val")
        /\ Told(R \cup {L + 1}, "val")' = Append(Told(R, "val"), line["val"])
    BY <1>1, ToldGrows
  <1>4. Told(RowLines, "val")' = Told(Q, "val")'
    BY <1>2 DEF Told
  <1> QED BY <1>1, <1>2, <1>3, <1>4

\* The nodes may be named by another term of the same value.
LEMMA ValuesOf ==
    ASSUME NEW nodes
    PROVE  /\ nodes = NodesIn(st.arrays)' /\ HaveValues(nodes)' => HaveValues(NodesIn(st.arrays))'
           /\ \A a : nodes = NodesIn(a)' /\ HaveValues(NodesIn(a))' => HaveValues(nodes)'
  <1>1. ASSUME nodes = NodesIn(st.arrays)', HaveValues(nodes)'
        PROVE  HaveValues(NodesIn(st.arrays))'
    BY <1>1, Zenon DEF HaveValues
  <1>2. ASSUME NEW a, nodes = NodesIn(a)', HaveValues(NodesIn(a))'
        PROVE  HaveValues(nodes)'
    BY <1>2, Zenon DEF HaveValues
  <1> QED BY <1>1, <1>2

\* What has to be shown of the locals after a line.
LEMMA NumaNext ==
    ASSUME NEW n, n = Len(world'), world' \in Seq(NumaLines),
           NEW a, NEW b, NEW d, NEW e \in BOOLEAN, st' = NumaLocals(a, b, d, e),
           e <=> Header' <= n, d = Told(RowLines, "val")', WillBeTable(a, b)
    PROVE  NumaInv'
  <1>1. st'.arrays = a /\ st'.nodesByID = b /\ st'.distances = d /\ st'.inDistances = e
    BY DEF NumaLocals
  <1>2. st' = NumaLocals(st'.arrays, st'.nodesByID, st'.distances, st'.inDistances)
    BY <1>1, Zenon
  <1>3. TableInv(st.arrays, st.nodesByID)'
    <2>1. /\ Table(a, b, NodeIds)' /\ (IdsOf(NodesIn(a)) = Told(Firsts, "id"))'
          /\ Together' => HaveValues(NodesIn(a))' /\ LastInTable(a, b)'
      BY Zenon DEF WillBeTable, TableInv
    <2>2. Table(st.arrays, st.nodesByID, NodeIds)'
      <3>1. PICK ids : ids = NodeIds'
        OBVIOUS
      <3>2. Table(a, b, ids)
        BY <2>1, <3>1, Zenon DEF Table, NumaNodes, NumaValues, NumaLines, Points, Distinct,
                                 NodesIn, Holds, Text!NumaKeys
      <3>3. Table(st'.arrays, st'.nodesByID, NodeIds')
        BY <1>1, <3>1, <3>2, Zenon
      <3> QED BY <3>3, Zenon DEF Table, NumaNodes, NumaValues, NumaLines, Points, Distinct,
                                 NodesIn, Holds, Text!NumaKeys
    <2>3. (IdsOf(NodesIn(st.arrays)) = Told(Firsts, "id"))'
      <3>1. PICK seq : seq = Told(Firsts, "id")'
        OBVIOUS
      <3>2. IdsOf(NodesIn(a)) = seq
        BY <2>1, <3>1, Zenon DEF IdsOf, NodesIn
      <3>3. IdsOf(NodesIn(st'.arrays)) = seq
        BY <1>1, <3>2, Zenon
      <3>4. IdsOf(NodesIn(st.arrays))' = IdsOf(NodesIn(st'.arrays))
        BY Zenon DEF IdsOf, NodesIn
      <3>5. IdsOf(NodesIn(st.arrays))' = seq
        BY <3>3, <3>4, Zenon
      <3> QED BY <3>1, <3>5
    <2>4. HaveValues(NodesIn(a))' => HaveValues(NodesIn(st.arrays))'
      <3>1. PICK nodes : nodes = NodesIn(a)
        OBVIOUS
      <3>2. nodes = NodesIn(a)' /\ nodes = NodesIn(st.arrays)'
        BY <1>1, <3>1, Zenon DEF NodesIn
      <3> QED BY <3>2, ValuesOf
    <2>5. LastInTable(a, b)' => LastInTable(st.arrays, st.nodesByID)'
      BY <1>1, Zenon DEF LastInTable, PointsLast, NodesIn
    <2> QED BY <2>1, <2>2, <2>3, <2>4, <2>5, Zenon DEF TableInv
  <1>5. world' \in Seq(NumaLines)'
    BY DEF NumaLines
  <1>6. (st = NumaLocals(st.arrays, st.nodesByID, st.distances, st.inDistances))'
    BY <1>2, Zenon DEF NumaLocals
  <1>7. (st.inDistances <=> Header <= Len(world))'
    BY <1>1, Zenon
  <1>8. (st.distances = Told(RowLines, "val"))' /\ (st.inDistances \in BOOLEAN)'
    BY <1>1, Zenon
  <1> QED BY <1>3, <1>5, <1>6, <1>7, <1>8, Zenon DEF NumaInv

LEMMA NumaStep ==
    ASSUME routine = "numactl", NumaInv, Next
    PROVE  NumaInv'
  <1>1. PICK L \in Nat, line \in NumaLines :
           Grows(L, line) /\ Text!Parse(line) /\ world' \in Seq(NumaLines)
    <2>1. world \in Seq(NumaLines)
      BY Zenon DEF NumaInv
    <2>2. \A n \in 1 .. MaxLines : ToolLines(routine, n) \subseteq NumaLines
      BY DEF NumaLines
    <2>3. routine \in TextTools
      BY DEF TextTools, Text!Starts
    <2> QED BY <2>1, <2>2, <2>3, OneMoreLine, Zenon
  <1>16. L + 1 = Len(world')
    BY <1>1 DEF Grows
  <1>2. st' = Text!NumaLine(st, line)
    BY <1>1 DEF Text!Parse
  <1>3. PICK a, b, d, e : /\ st = NumaLocals(a, b, d, e)
                          /\ a = st.arrays /\ b = st.nodesByID
                          /\ d = st.distances /\ e = st.inDistances
    BY Zenon DEF NumaInv
  <1>4. /\ e \in BOOLEAN /\ d = Told(RowLines, "val") /\ TableInv(a, b)
        /\ a \in Seq(Seq(NumaNodes)) /\ DOMAIN b = NodeIds
    BY <1>3, Zenon DEF NumaInv, TableInv, Table
  <1>5. PICK h \in 1 .. L + 1, g \in 1 .. L + 2 :
           /\ h = Header /\ g = Header'
           /\ g = IF h <= L THEN h ELSE IF line.key = "distances" THEN L + 1 ELSE L + 2
    BY <1>1, HeaderMoves
  <1>6. e <=> h <= L
    <2>1. Len(world) = L
      BY <1>1 DEF Grows
    <2> QED BY <1>3, <1>5, <2>1, Zenon DEF NumaInv
  <1>7. Told(RowLines, "val")' = IF line.key = "row" /\ e THEN Append(d, line.val) ELSE d
    BY <1>1, <1>4, <1>5, <1>6, RowsTold
  <1>8. Counts(line, L) <=> ~e /\ line.key \in Text!NumaKeys
    BY <1>5, <1>6 DEF Counts
  <1>9. line.key \in Text!NumaKeys => line.key # "distances" /\ line.key # "row"
    BY DEF Text!NumaKeys
  <1>10. ~Counts(line, L) => WillBeTable(a, b)
    BY <1>1, <1>4, TableStays
  <1>11. Updated(a, b, d, e, line, st')
    <2>1. PICK u : u = st'
      OBVIOUS
    <2>2. u = Text!NumaLine(NumaLocals(a, b, d, e), line)
      BY <1>2, <1>3, <2>1, Zenon
    <2> QED BY <1>4, <2>1, <2>2, NumaUpdates
  <1>12. CASE line.key = "distances"
    <2>1. ~Counts(line, L) /\ g <= L + 1 /\ line.key # "row"
      BY <1>5, <1>8, <1>9, <1>12
    <2>2. WillBeTable(a, b) /\ st' = NumaLocals(a, b, d, TRUE) /\ d = Told(RowLines, "val")'
      BY <1>7, <1>10, <1>11, <1>12, <2>1 DEF Updated
    <2> QED BY <1>1, <1>16, <1>5, <2>1, <2>2, NumaNext
  <1>13. CASE e /\ line.key = "row"
    <2>1. ~Counts(line, L) /\ g <= L + 1
      BY <1>5, <1>6, <1>8, <1>13
    <2>2. PICK more : more = Append(d, line.val)
      OBVIOUS
    <2>3. WillBeTable(a, b) /\ st' = NumaLocals(a, b, more, e) /\ more = Told(RowLines, "val")'
      BY <1>7, <1>10, <1>11, <1>13, <2>1, <2>2 DEF Updated
    <2> QED BY <1>1, <1>16, <1>4, <1>5, <1>13, <2>1, <2>3, NumaNext
  <1>14. CASE ~e /\ line.key \in Text!NumaKeys
    <2>1. PICK c, t, w : /\ Reaches(a, b, line.id, c, t)
                         /\ WriteOf(c, w, t[line.id].array, t[line.id].index, line.key, line.val)
                         /\ st' = NumaLocals(w, t, d, e)
      BY <1>11, <1>14 DEF Updated
    <2>2. Counts(line, L) /\ ~(g <= L + 1) /\ d = Told(RowLines, "val")'
      BY <1>5, <1>6, <1>7, <1>8, <1>9, <1>14
    <2>3. PICK id \in NumaValues : id = line.id
      BY <1>1 DEF NumaValues
    <2>4. WillBeTable(w, t)
      <3>1. CASE id \in NodeIds
        <4>1. c = a /\ t = b
          BY <1>4, <2>1, <2>3, <3>1, Zenon DEF Reaches
        <4>2. NodeIds \cup {line.id} = NodeIds
          BY <2>3, <3>1
        <4>3. Table(c, t, NodeIds \cup {line.id})
          BY <1>4, <4>1, <4>2, Zenon DEF TableInv
        <4>4. line.id \in NodeIds
          BY <2>3, <3>1
        <4> QED BY <1>1, <1>4, <2>1, <2>2, <4>1, <4>3, <4>4, TableGrows
      <3>2. CASE id \notin NodeIds
        <4>1. PICK fits \in BOOLEAN : (fits => a # <<>>) /\ AppendOf(a, c, Blank(id), fits)
          BY <1>4, <2>1, <2>3, <3>2, Zenon DEF Reaches
        <4>2. t = Text!Put(b, id, [array |-> Len(c), index |-> Len(NodesIn(a)) + 1])
          BY <1>4, <2>1, <2>3, <3>2, Zenon DEF Reaches
        <4>3. Table(a, b, NodeIds)
          BY <1>4, Zenon DEF TableInv
        <4>4. PICK ids : ids = NodeIds
          OBVIOUS
        <4>8. Table(a, b, ids) /\ id \notin ids
          BY <3>2, <4>3, <4>4, Zenon
        <4>5. Entered(a, c, t, ids, id)
          BY <2>3, <4>1, <4>2, <4>8, NodeEntered
        <4>6. line.id \notin NodeIds
          BY <2>3, <3>2
        <4>7. /\ Table(c, t, NodeIds \cup {line.id}) /\ PointsLast(c, t, line.id)
              /\ NodesIn(a) \in Seq(NumaNodes)
              /\ NodesIn(c) = Append(NodesIn(a), Blank(line.id))
          BY <2>3, <4>4, <4>5, Zenon DEF Entered
        <4> QED BY <1>1, <1>4, <2>1, <2>2, <4>6, <4>7, TableGrows
      <3> QED BY <3>1, <3>2
    <2> QED BY <1>1, <1>16, <1>4, <1>5, <1>14, <2>1, <2>2, <2>4, NumaNext
  <1>15. CASE /\ line.key # "distances" /\ ~(e /\ line.key = "row")
              /\ ~(~e /\ line.key \in Text!NumaKeys)
    <2>1. ~Counts(line, L) /\ (e <=> g <= L + 1)
      BY <1>5, <1>6, <1>8, <1>15
    <2>2. WillBeTable(a, b) /\ st' = NumaLocals(a, b, d, e) /\ d = Told(RowLines, "val")'
      BY <1>7, <1>10, <1>11, <1>15, <2>1 DEF Updated
    <2> QED BY <1>1, <1>16, <1>4, <1>5, <2>1, <2>2, NumaNext
  <1> QED BY <1>12, <1>13, <1>14, <1>15

LEMMA NumaInit ==
    ASSUME Init, routine = "numactl"
    PROVE  NumaInv
  <1>1. world = <<>> /\ st = Text!NumaStart
    BY TextInit DEF TextTools, Text!Starts
  <1>2. st = NumaLocals(<<>>, <<>>, <<>>, FALSE)
    BY <1>1, Zenon DEF Text!NumaStart, NumaLocals
  <1>3. /\ st.arrays = <<>> /\ st.nodesByID = <<>> /\ st.distances = <<>> /\ st.inDistances = FALSE
        /\ st = NumaLocals(st.arrays, st.nodesByID, st.distances, st.inDistances)
    BY <1>2 DEF NumaLocals
  <1>4. world \in Seq(NumaLines) /\ Len(world) = 0
    BY <1>1
  <1>5. Header = 1
    <2>1. End({"distances"}, 0) = 1
      BY <1>1, NothingOpen
    <2>2. 0 + 1 = 1
      OBVIOUS
    <2> QED BY <2>1, <2>2, Zenon DEF Header, End
  <1>6. NodeLines = {} /\ RowLines = {}
    BY <1>1, NothingOpen DEF NodeLines, RowLines
  <1>7. NodeIds = {} /\ Firsts = {}
    BY <1>6 DEF NodeIds, Firsts
  <1>8. Told(RowLines, "val") = <<>> /\ Told(Firsts, "id") = <<>>
    BY <1>6, <1>7, NothingTold, Zenon
  <1>9. TableInv(<<>>, <<>>)
    <2>1. NodesIn(<<>>) = <<>>
      BY DEF NodesIn
    <2>2. DOMAIN <<>> = {} /\ <<>> \in Seq(Seq(NumaNodes))
      OBVIOUS
    <2>3. Distinct(<<>>)
      BY <2>2, Zenon DEF Distinct
    <2>4. Table(<<>>, <<>>, NodeIds)
      BY <1>7, <2>1, <2>2, <2>3 DEF Table
    <2>5. IdsOf(<<>>) = <<>>
      <3>1. IdsOf(<<>>) = [n \in {} |-> <<>>[n].ID]
        BY <2>2 DEF IdsOf
      <3> QED BY <3>1
    <2>6. HaveValues(<<>>) /\ LastInTable(<<>>, <<>>)
      BY <1>6, <2>2 DEF HaveValues, LastInTable
    <2> QED BY <1>8, <2>1, <2>4, <2>5, <2>6, Zenon DEF TableInv
  <1>10. TableInv(st.arrays, st.nodesByID)
    BY <1>3, <1>9, Zenon
  <1>11. st.inDistances <=> Header <= Len(world)
    BY <1>3, <1>4, <1>5
  <1> QED BY <1>3, <1>4, <1>8, <1>10, <1>11 DEF NumaInv

\* A step that changes nothing keeps what the table is told by.
LEMMA NumaStay ==
    ASSUME NumaInv, UNCHANGED vars
    PROVE  NumaInv'
  <1>1. world' = world /\ st' = st
    BY DEF vars
  <1>2. Header' = Header
    BY <1>1 DEF Header, Text!FirstIn, Text!Min, Text!Positions
  <1>3. NodeLines' = NodeLines /\ RowLines' = RowLines
    BY <1>1, <1>2 DEF NodeLines, RowLines, Text!Positions, Text!NumaKeys
  <1>4. NodeIds' = NodeIds /\ Firsts' = Firsts
    BY <1>1, <1>3 DEF NodeIds, Firsts
  <1>5. \A field : \A P : Told(P, field)' = Told(P, field)
    BY <1>1 DEF Told, Text!InOrder, Text!Place, Text!Cardinality
  <1>6. Told(RowLines, "val")' = Told(RowLines, "val") /\ Told(Firsts, "id")' = Told(Firsts, "id")
    <2>1. PICK R, F : R = RowLines /\ R = RowLines' /\ F = Firsts /\ F = Firsts'
      BY <1>3, <1>4
    <2>2. Told(RowLines, "val")' = Told(R, "val")' /\ Told(Firsts, "id")' = Told(F, "id")'
      BY <2>1 DEF Told
    <2> QED BY <1>5, <2>1, <2>2
  <1>7. \A id, k : ValueOf(id, k)' = ValueOf(id, k)
    <2>1. \A id, k : GivenBy(id, k)' = GivenBy(id, k)
      BY <1>1, <1>3 DEF GivenBy
    <2>2. ASSUME NEW id, NEW k
          PROVE  ValueOf(id, k)' = ValueOf(id, k)
      <3>1. PICK S, T : S = GivenBy(id, k) \cup {0} /\ T = GivenBy(id, k)' \cup {0}
        OBVIOUS
      <3>2. ValueOf(id, k) = LET i == Text!Max(S) IN IF i = 0 THEN Text!Absent ELSE world[i].val
        BY <3>1, Zenon DEF ValueOf
      <3>3. ValueOf(id, k)' = LET i == Text!Max(T) IN IF i = 0 THEN Text!Absent ELSE world'[i].val
        BY <3>1 DEF ValueOf, Text!Max, Text!Absent
      <3>4. S = T
        BY <2>1, <3>1, Zenon
      <3> QED BY <1>1, <3>2, <3>3, <3>4, Zenon
    <2> QED BY <2>2
  <1>8. Together' => Together
    BY <1>1, <1>3 DEF Together
  <1>9. PICK a, b, d, e : /\ st = NumaLocals(a, b, d, e)
                          /\ a = st.arrays /\ b = st.nodesByID
                          /\ d = st.distances /\ e = st.inDistances
    BY Zenon DEF NumaInv
  <1>10. WillBeTable(a, b)
    <2>1. TableInv(a, b)
      BY <1>9, Zenon DEF NumaInv
    <2>2. Table(a, b, NodeIds)'
      <3>1. PICK ids : ids = NodeIds
        OBVIOUS
      <3>2. Table(a, b, ids)'
        BY <2>1, <3>1, Zenon DEF TableInv, Table, NumaNodes, NumaValues, NumaLines, Points,
                                 Distinct, NodesIn, Holds, Text!NumaKeys
      <3> QED BY <1>4, <3>1, <3>2, Zenon
    <2>3. (IdsOf(NodesIn(a)) = Told(Firsts, "id"))'
      BY <1>6, <2>1, Zenon DEF TableInv, IdsOf, NodesIn
    <2>4. ASSUME Together'
          PROVE  HaveValues(NodesIn(a))' /\ LastInTable(a, b)'
      <3>1. HaveValues(NodesIn(a)) /\ LastInTable(a, b)
        BY <1>8, <2>1, <2>4, Zenon DEF TableInv
      <3>2. Text!NumaKeys' = Text!NumaKeys
        BY DEF Text!NumaKeys
      <3>3. HaveValues(NodesIn(a))'
        BY <1>7, <3>1, <3>2, Zenon DEF HaveValues, NodesIn
      <3>4. LastInTable(a, b)'
        BY <1>1, <1>3, <3>1, Zenon DEF LastInTable, PointsLast, NodesIn
      <3> QED BY <3>3, <3>4
    <2> QED BY <2>2, <2>3, <2>4, Zenon DEF WillBeTable, TableInv
  <1>11. PICK n : n = Len(world) /\ n = Len(world')
    BY <1>1
  <1>12. world' \in Seq(NumaLines) /\ e \in BOOLEAN /\ (e <=> Header' <= n)
    BY <1>1, <1>2, <1>9, <1>11, Zenon DEF NumaInv
  <1>13. st' = NumaLocals(a, b, d, e) /\ d = Told(RowLines, "val")'
    BY <1>1, <1>6, <1>9, Zenon DEF NumaInv
  <1> QED BY <1>10, <1>11, <1>12, <1>13, NumaNext

\* The lines about a node.
LinesOf(id) == {i \in NodeLines : world[i].id = id}

LEMMA FirstsAre ==
    ASSUME NumaInv
    PROVE  Firsts = {Text!Min(LinesOf(id)) : id \in NodeIds}
  <1>1. PICK N \in SUBSET Nat : N = NodeLines
    <2>1. PICK L \in Nat : L = Len(world) /\ DOMAIN world = 1 .. L
      BY DEF NumaInv
    <2>2. \A i \in NodeLines : i \in 1 .. L
      BY <2>1, Zenon DEF NodeLines, Text!Positions
    <2> QED BY <2>2
  <1>2. ASSUME NEW f \in Firsts
        PROVE  f \in N /\ world[f].id \in NodeIds /\ Text!Min(LinesOf(world[f].id)) = f
    <2>1. f \in N /\ \A j \in N : j < f => world[j].id # world[f].id
      BY <1>1 DEF Firsts
    <2>2. PICK S \in SUBSET N : S = LinesOf(world[f].id)
      BY <1>1 DEF LinesOf
    <2>6. \A i : i \in S <=> i \in N /\ world[i].id = world[f].id
      BY <1>1, <2>2, Zenon DEF LinesOf
    <2>7. f \in S /\ \A j \in S : j \in N /\ ~(j < f)
      BY <2>1, <2>6, Zenon
    <2>3. f \in S /\ \A j \in S : f <= j
      BY <2>7
    <2>4. S \in SUBSET Int
      <3>1. \A j \in S : j \in N
        BY <2>7, Zenon
      <3>2. \A j \in N : j \in Int
        OBVIOUS
      <3> QED BY <3>1, <3>2
    <2>5. Text!Min(S) = f
      BY <2>3, <2>4, LeastOfText
    <2> QED BY <1>1, <2>1, <2>2, <2>5 DEF NodeIds
  <1>3. ASSUME NEW id \in NodeIds
        PROVE  Text!Min(LinesOf(id)) \in Firsts
    <2>6. PICK S : S = LinesOf(id)
      OBVIOUS
    <2>1. S = LinesOf(id) /\ \A i : i \in S <=> i \in N /\ world[i].id = id
      BY <1>1, <2>6, Zenon DEF LinesOf
    <2>2. S # {} /\ S \in SUBSET Nat
      BY <1>1, <2>1 DEF NodeIds
    <2>3. PICK m \in S : \A j \in S : m <= j
      BY <2>2, LeastNatural
    <2>4. Text!Min(S) = m
      <3>1. S \in SUBSET Int
        BY <2>2
      <3> QED BY <2>3, <3>1, LeastOfText
    <2>5. \A j \in N : j < m => world[j].id # world[m].id
      <3>1. \A j \in N : world[j].id = world[m].id => m <= j
        BY <2>1, <2>3, Zenon
      <3>2. \A j \in N : j \in Nat
        OBVIOUS
      <3>3. m \in Nat
        BY <2>2, <2>3
      <3> QED BY <3>1, <3>2, <3>3
    <2> QED BY <1>1, <2>1, <2>3, <2>4, <2>5 DEF Firsts
  <1>4. \A f : f \in Firsts <=> \E id \in NodeIds : f = Text!Min(LinesOf(id))
    BY <1>2, <1>3
  <1> QED BY <1>4

LEMMA NumaTold ==
    ASSUME NumaInv
    PROVE  /\ IdsOf(Text!Nodes(st)) = Told({Text!Min(LinesOf(id)) : id \in NodeIds}, "id")
           /\ Together => \A n \in Text!Range(Text!Nodes(st)) : \A k \in Text!NumaKeys :
                 n[k] = LET i == Text!Max({i \in LinesOf(n.ID) : world[i].key = k} \cup {0})
                        IN IF i = 0 THEN Text!Absent ELSE world[i].val
           /\ st.distances = Told(RowLines, "val")
  <1>1. PICK nodes : nodes = Text!Nodes(st) /\ nodes = NodesIn(st.arrays)
    BY Zenon DEF Text!Nodes, NodesIn, Text!Last
  <1>2. /\ IdsOf(nodes) = Told(Firsts, "id") /\ (Together => HaveValues(nodes))
        /\ st.distances = Told(RowLines, "val")
    BY <1>1, Zenon DEF NumaInv, TableInv
  <1>3. \A id, k : ValueOf(id, k) =
           LET i == Text!Max({i \in LinesOf(id) : world[i].key = k} \cup {0})
           IN IF i = 0 THEN Text!Absent ELSE world[i].val
    <2>1. \A id, k : GivenBy(id, k) = {i \in LinesOf(id) : world[i].key = k}
      BY DEF GivenBy, LinesOf
    <2> QED BY <2>1, Zenon DEF ValueOf
  <1>4. ASSUME Together, NEW n \in Text!Range(nodes), NEW k \in Text!NumaKeys
        PROVE  n[k] = ValueOf(n.ID, k)
    BY <1>2, <1>4, Zenon DEF HaveValues, Text!Range
  <1> QED BY <1>1, <1>2, <1>3, <1>4, FirstsAre, Zenon

(* The nodes of numactl are reported once each, in the order they come,    *)
(* with the values of their lines when those stand together, and the       *)
(* distances are the rows below the header, however often append leaves an *)
(* array behind that the map still points into (parseNumactlHardware).     *)
THEOREM NumaNodesReported == FairSpec => []NumaNodesComplete
  <1> DEFINE Inv == routine = "numactl" => NumaInv
  <1>1. Init => Inv
    BY NumaInit
  <1>2. Inv /\ [Next]_vars => Inv'
    <2>1. CASE Next
      BY <2>1, NumaStep, Zenon DEF Next
    <2>2. CASE UNCHANGED vars
      BY <2>2, NumaStay, Zenon DEF vars
    <2> QED BY <2>1, <2>2
  <1>3. Inv => NumaNodesComplete
    <2> SUFFICES ASSUME routine = "numactl", NumaInv
                 PROVE  Text!NumaNodesComplete
      BY Zenon DEF NumaNodesComplete, Text!NumaNodesComplete
    <2> QED BY NumaTold, Zenon DEF Text!NumaNodesComplete, IdsOf, Told, Together, LinesOf,
                                   NodeIds, NodeLines, RowLines, Header
  <1> QED BY <1>1, <1>2, <1>3, PTL DEF FairSpec
================================================================================
