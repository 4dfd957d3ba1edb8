---------------------------- MODULE ProbesProofs ----------------------------
(***************************************************************************)
(* What the command runner, the link mode query, the read loops, the scans,*)
(* the decoders of lists and the walk of the SMBIOS table return is whole, *)
(* for files, commands, kernels, directories, lists, buffers and tables of *)
(* any size, proved from Probes.                                           *)
(***************************************************************************)
EXTENDS Probes, SumProofs, FiniteSetTheorems, SequenceTheorems, TLAPS

\* The routines that are not fed a text or a list.
Alone == {"read", "scan", "modes", "runner", "dmi"}

\* A routine is one of those alone or fed, never both.
LEMMA AloneNotFed == Alone \cap (TextTools \cup Decoders) = {}
  BY DEF Alone, TextTools, Decoders, Text!Starts

LEMMA ToolsNotDecoders == TextTools \cap Decoders = {}
  BY DEF TextTools, Decoders, Text!Starts

-----------------------------------------------------------------------------
(* CommandRunner *)

\* What the processes and Run's variables are records of.
RunnerTypes ==
    /\ world \in [child : {"none", "running", "succeeded", "failed", "killed"},
                  written : Nat, helper : BOOLEAN, done : BOOLEAN]
    /\ st \in [pc : {"start", "wait", "done"}, out : Nat, err : BOOLEAN]

\* With the types, success is whole by itself: once Run has returned it, nobody
\* is left that could write, fork or exit.
RunnerInv == RunnerTypes /\ Runner!SuccessIsWhole

LEMMA RunnerStep ==
    ASSUME RunnerInv, Runner!Runtime \/ Runner!Surroundings
    PROVE  RunnerInv'
  <1> USE DEF RunnerInv, RunnerTypes, Runner!SuccessIsWhole, Runner!Running
  <1>1. ASSUME Runner!Runtime
        PROVE  RunnerInv'
    <2>1. CASE Runner!StartFails
      BY <2>1 DEF Runner!StartFails
    <2>2. CASE Runner!StartCommand
      BY <2>2 DEF Runner!StartCommand
    <2>3. CASE Runner!ContextDone
      BY <2>3 DEF Runner!ContextDone
    <2>4. CASE Runner!Kill
      BY <2>4 DEF Runner!Kill
    <2>5. CASE Runner!Copy
      BY <2>5 DEF Runner!Copy
    <2>6. CASE Runner!OutputReturns
      BY <2>6 DEF Runner!OutputReturns, Runner!EndOfPipe
    <2> QED BY <1>1, <2>1, <2>2, <2>3, <2>4, <2>5, <2>6 DEF Runner!Runtime
  <1>2. ASSUME Runner!Surroundings
        PROVE  RunnerInv'
    <2>1. CASE Runner!Write
      BY <2>1 DEF Runner!Write
    <2>2. CASE Runner!Fork
      BY <2>2 DEF Runner!Fork
    <2>3. CASE Runner!Exit
      BY <2>3 DEF Runner!Exit
    <2>4. CASE Runner!HelperExits
      BY <2>4 DEF Runner!HelperExits
    <2> QED BY <1>2, <2>1, <2>2, <2>3, <2>4 DEF Runner!Surroundings
  <1> QED BY <1>1, <1>2

(* Of the invariants below, each holds of its own routine and of no other: *)
(* another routine's variables are of other types.                         *)

\* Output that a collector parses is whole, whatever helpers a command leaves
\* behind, whenever its context ends, and however much it writes
\* (LocalRunner.Run).
THEOREM CommandsAreWhole == FairSpec => []SuccessIsWhole
  <1> DEFINE Inv == routine = "runner" => RunnerInv
  <1>1. Init => Inv
    <2> SUFFICES ASSUME Init, routine = "runner"
                 PROVE  RunnerInv
      OBVIOUS
    <2>1. Runner!Init
      BY AloneNotFed DEF Init, Alone, TextTools, Decoders, Text!Init, Lists!Init
    <2> QED BY <2>1 DEF Runner!Init, RunnerInv, RunnerTypes, Runner!SuccessIsWhole
  <1>2. Inv /\ [Next]_vars => Inv'
    <2> SUFFICES ASSUME Inv, [Next]_vars, routine' = "runner"
                 PROVE  RunnerInv'
      OBVIOUS
    <2>1. CASE Next
      <3>1. routine = "runner" /\ RunnerInv
        BY <2>1 DEF Next
      <3>2. Runner!Runtime \/ Runner!Surroundings
        BY <2>1, <3>1, AloneNotFed DEF Next, Proceed, Alone
      <3> QED BY <3>1, <3>2, RunnerStep
    <2>2. CASE UNCHANGED vars
      BY <2>2 DEF vars, RunnerInv, RunnerTypes, Runner!SuccessIsWhole
    <2> QED BY <2>1, <2>2
  <1>3. Inv => SuccessIsWhole
    BY DEF SuccessIsWhole, RunnerInv
  <1> QED BY <1>1, <1>2, <1>3, PTL DEF FairSpec

-----------------------------------------------------------------------------
(* LinkModes *)

\* A whole report: every one of n words in its own mask and place, and of one
\* state of the link.
Report(link, n) ==
    [link |-> link, nwords |-> n,
     masks |-> [m \in 1 .. 3 |->
                  [i \in 1 .. n |-> [mask |-> Modes!Masks[m], word |-> i - 1, link |-> link]]]]

Reports == {Report(link, n) : link \in Nat, n \in 1 .. MaxWords}

\* Before the second call the words asked for are as many as the caller can
\* hold, and at the end there is a whole report or an error and none.
ModesInv ==
    /\ world \in [words : KernelWords, link : Nat]
    /\ st \in [pc : {"ask", "fetch", "done"}, nwords : Int,
               out : Reports \cup {Modes!Unknown}, rc : Int]
    /\ st.pc # "done" => st.out = Modes!Unknown /\ st.rc = 0
    /\ st.pc = "fetch" => st.nwords \in 1 .. MaxWords
    /\ st.pc = "done" => IF st.rc = 0 THEN st.out \in Reports ELSE st.out = Modes!Unknown

\* Position (m - 1) * n + i of three masks of n words laid end to end is word
\* i - 1 of mask m.
LEMMA PositionOfWord ==
    ASSUME NEW n \in Nat \ {0}, NEW m \in 1 .. 3, NEW i \in 1 .. n
    PROVE  LET k == ((m - 1) * n) + i
           IN k \in 1 .. 3 * n /\ ((k - 1) \div n) + 1 = m /\ (k - 1) % n = i - 1
  <1>1. CASE m = 1
    BY <1>1
  <1>2. CASE m = 2
    BY <1>2
  <1>3. CASE m = 3
    BY <1>3
  <1> QED BY <1>1, <1>2, <1>3

\* Splitting what the kernel laid out gives every word back to its mask.
LEMMA SplitLaid ==
    ASSUME NEW n \in Nat \ {0}
    PROVE  Modes!Split(Modes!Laid(n), n) = Report(world.link, n).masks
  <1>1. ASSUME NEW m \in 1 .. 3, NEW i \in 1 .. n
        PROVE  Modes!Laid(n)[((m - 1) * n) + i]
                 = [mask |-> Modes!Masks[m], word |-> i - 1, link |-> world.link]
    BY PositionOfWord DEF Modes!Laid
  <1>2. \A m \in 1 .. 3 : \A i \in 1 .. n :
           Modes!Laid(n)[((m - 1) * n) + i]
             = [mask |-> Modes!Masks[m], word |-> i - 1, link |-> world.link]
    BY <1>1
  <1>3. \A m \in 1 .. 3 :
           [i \in 1 .. n |-> Modes!Laid(n)[((m - 1) * n) + i]]
             = [i \in 1 .. n |-> [mask |-> Modes!Masks[m], word |-> i - 1, link |-> world.link]]
    BY <1>2, Zenon
  <1> QED BY <1>3, Zenon DEF Modes!Split, Report

\* A call that fails ends the query with an error and without a report.
LEMMA NothingToReport ==
    ASSUME ModesInv, st.pc # "done", NEW rc \in Int \ {0}, Modes!Return(rc), UNCHANGED world
    PROVE  ModesInv'
  BY DEF ModesInv, Modes!Return, Modes!Unknown

LEMMA ModesStep ==
    ASSUME ModesInv, Modes!Proceed \/ Modes!LinkChanges
    PROVE  ModesInv'
  <1>1. CASE Modes!LinkChanges
    BY <1>1 DEF Modes!LinkChanges, ModesInv
  <1>2. CASE Modes!Ask
    <2>1. st.pc = "ask" /\ UNCHANGED world
      BY <1>2 DEF Modes!Ask
    <2>2. PICK nwords \in Int :
             CASE nwords >= 0 -> Modes!Return(Modes!EPROTO)
               [] -nwords > MaxWords -> Modes!Return(Modes!EOVERFLOW)
               [] OTHER -> st' = [st EXCEPT !.pc = "fetch", !.nwords = -nwords]
      <3>1. Modes!Answers(0) \subseteq Int
        <4>1. PICK words \in Nat : words = world.words
          BY ModesAssumption DEF ModesInv
        <4> QED BY <4>1 DEF Modes!Answers
      <3> QED BY <1>2, <3>1 DEF Modes!Ask
    <2>3. CASE nwords >= 0
      <3>1. Modes!Return(Modes!EPROTO)
        BY <2>2, <2>3, ModesAssumption
      <3> QED BY <2>1, <3>1, NothingToReport DEF Modes!EPROTO
    <2>4. CASE nwords < 0 /\ -nwords > MaxWords
      <3>1. Modes!Return(Modes!EOVERFLOW)
        BY <2>2, <2>4, ModesAssumption
      <3> QED BY <2>1, <3>1, NothingToReport DEF Modes!EOVERFLOW
    <2>5. CASE nwords < 0 /\ -nwords <= MaxWords
      <3>1. st' = [st EXCEPT !.pc = "fetch", !.nwords = -nwords] /\ -nwords \in 1 .. MaxWords
        BY <2>2, <2>5, ModesAssumption
      <3>2. PICK n \in 1 .. MaxWords : st' = [st EXCEPT !.pc = "fetch", !.nwords = n]
        BY <3>1
      <3>3. n \in Int
        OBVIOUS
      <3> QED BY <2>1, <3>2, <3>3 DEF ModesInv, Modes!Unknown
    <2> QED BY <2>3, <2>4, <2>5, ModesAssumption
  <1>3. CASE Modes!CallFails
    BY <1>3, NothingToReport DEF Modes!CallFails, Modes!ENODEV
  <1>4. CASE Modes!Fetch
    <2>1. PICK nwords \in Modes!Answers(st.nwords) :
             IF nwords # st.nwords THEN Modes!Return(Modes!EPROTO)
             ELSE st' = [st EXCEPT !.pc = "done",
                            !.out = [link |-> world.link, nwords |-> nwords,
                                     masks |-> Modes!Split(Modes!Laid(nwords), nwords)]]
      BY <1>4 DEF Modes!Fetch
    <2>2. UNCHANGED world
      BY <1>4 DEF Modes!Fetch
    <2>3. CASE nwords # st.nwords
      BY <1>4, <2>1, <2>2, <2>3, NothingToReport DEF Modes!Fetch, Modes!EPROTO
    <2>4. CASE nwords = st.nwords
      <3>1. nwords \in 1 .. MaxWords /\ nwords \in Nat \ {0} /\ world.link \in Nat
        BY <1>4, <2>4, ModesAssumption DEF ModesInv, Modes!Fetch
      <3>2. Modes!Split(Modes!Laid(nwords), nwords) = Report(world.link, nwords).masks
        BY <3>1, SplitLaid
      <3>3. st' = [st EXCEPT !.pc = "done", !.out = Report(world.link, nwords)]
        BY <2>1, <2>4, <3>2 DEF Report
      <3>4. Report(world.link, nwords) \in Reports
        BY <3>1 DEF Reports
      <3> QED BY <1>4, <2>2, <3>1, <3>3, <3>4 DEF ModesInv, Modes!Fetch
    <2> QED BY <2>3, <2>4
  <1> QED BY <1>1, <1>2, <1>3, <1>4 DEF Modes!Proceed

\* The report is one answer of the kernel, however many words its masks have and
\* however often the link changes between the calls, and a failure at either
\* call reports nothing (rewsr_ethtool_link_settings).
THEOREM ModesAreOneAnswer == FairSpec => []OneAnswerOfTheKernel
  <1> DEFINE Inv == routine = "modes" => ModesInv
  <1>1. Init => Inv
    <2> SUFFICES ASSUME Init, routine = "modes"
                 PROVE  ModesInv
      OBVIOUS
    <2>1. Modes!Init
      BY AloneNotFed DEF Init, Alone, TextTools, Decoders, Text!Init, Lists!Init
    <2> QED BY <2>1 DEF Modes!Init, ModesInv
  <1>2. Inv /\ [Next]_vars => Inv'
    <2> SUFFICES ASSUME Inv, [Next]_vars, routine' = "modes"
                 PROVE  ModesInv'
      OBVIOUS
    <2>1. CASE Next
      <3>1. routine = "modes" /\ ModesInv
        BY <2>1 DEF Next
      <3>2. Modes!Proceed \/ Modes!LinkChanges
        BY <2>1, <3>1, AloneNotFed DEF Next, Proceed, Alone
      <3> QED BY <3>1, <3>2, ModesStep
    <2>2. CASE UNCHANGED vars
      BY <2>2 DEF vars, ModesInv
    <2> QED BY <2>1, <2>2
  <1>3. Inv => OneAnswerOfTheKernel
    <2> SUFFICES ASSUME ModesInv
                 PROVE  Modes!OneAnswerOfTheKernel
      BY DEF OneAnswerOfTheKernel
    <2>1. CASE st.out = Modes!Unknown
      <3>1. Modes!Unknown \notin Reports
        <4>1. \A link \in Nat, n \in 1 .. MaxWords : Report(link, n).nwords # Modes!Unknown.nwords
          BY ModesAssumption DEF Report, Modes!Unknown
        <4> QED BY <4>1 DEF Reports
      <3> QED BY <2>1, <3>1 DEF ModesInv, Modes!OneAnswerOfTheKernel
    <2>2. ASSUME NEW link \in Nat, NEW n \in 1 .. MaxWords, st.out = Report(link, n)
          PROVE  Modes!OneAnswerOfTheKernel
      <3>1. st.pc = "done" /\ st.rc = 0 /\ st.out # Modes!Unknown /\ n <= MaxWords
        BY <2>2, ModesAssumption DEF ModesInv, Report, Modes!Unknown
      <3> QED BY <2>2, <3>1 DEF Report, Modes!OneAnswerOfTheKernel
    <2> QED BY <2>1, <2>2 DEF ModesInv, Reports
  <1> QED BY <1>1, <1>2, <1>3, PTL DEF FairSpec

-----------------------------------------------------------------------------
(* FileRead *)

\* The smaller of two numbers.
LEMMA MinOfTwo ==
    ASSUME NEW a \in Int, NEW b \in Int
    PROVE  Read!Min({a, b}) = IF a <= b THEN a ELSE b
  <1> DEFINE m == IF a <= b THEN a ELSE b
  <1>1. m \in {a, b} /\ \A y \in {a, b} : m <= y
    OBVIOUS
  <1>2. \A x \in {a, b} : (\A y \in {a, b} : x <= y) => x = m
    OBVIOUS
  <1> QED BY <1>1, <1>2 DEF Read!Min

ReadTypes ==
    /\ world.loop.kind \in {"line", "file", "slurp", "table"}
    /\ world.loop.cap \in Nat \ {0}
    /\ world.length \in Nat /\ world.newline \in 0 .. world.length
    /\ st \in [pc : {"read", "done"}, cap : Nat, used : Nat, interrupts : Nat, rc : Int]

\* The byte that all but the table reader keep for the NUL.
Kept == IF world.loop.kind = "table" THEN 0 ELSE 1

\* What a loop knows while it reads: it has read no more than there is, and
\* nothing past its buffer or, of a line, past its newline; only the heap
\* buffers have grown.
Reading ==
    /\ st.used <= world.length
    /\ st.used + Kept <= st.cap
    /\ world.loop.kind \in {"line", "file"} => st.cap = world.loop.cap
    /\ st.pc = "read" => /\ st.rc = 0
                         /\ world.loop.kind = "line" => st.used <= world.newline

\* What the loop promises to have read when it succeeds.
Promised ==
    CASE world.loop.kind = "line" -> world.newline
      [] world.loop.kind = "file" ->
           IF world.length <= world.loop.cap - 1 THEN world.length ELSE world.loop.cap - 1
      [] OTHER -> world.length

\* What a return code says of the file and of what was read.
Says(rc, used) ==
    /\ rc = 0 => used = Promised
    /\ rc = Read!EMSGSIZE => world.newline + 1 >= world.loop.cap
    /\ rc = Read!EFBIG => world.length >= MaxTable

Returned == st.pc = "done" => Says(st.rc, st.used)

ReadInv == ReadTypes /\ Reading /\ Returned

\* A loop ends well when it returns a code that says what is so.
LEMMA ReadReturns ==
    ASSUME ReadInv, st.pc = "read", NEW rc \in Int, Read!Return(rc), UNCHANGED world,
           Says(rc, st.used)
    PROVE  ReadInv'
  <1>1. ReadTypes'
    BY DEF ReadInv, ReadTypes, Read!Return
  <1>2. st'.pc = "done" /\ st'.rc = rc /\ st'.used = st.used /\ st'.cap = st.cap
    BY DEF ReadInv, ReadTypes, Read!Return
  <1>3. Reading'
    BY <1>2 DEF ReadInv, Reading, Kept
  <1>4. Returned'
    BY <1>2 DEF Returned, Says, Promised
  <1> QED BY <1>1, <1>3, <1>4 DEF ReadInv

LEMMA ReadStep ==
    ASSUME ReadInv, Read!Next
    PROVE  ReadInv'
  <1>1. st.pc = "read" /\ UNCHANGED world
    BY DEF Read!Next
  <1>2. ReadTypes /\ Reading
    BY DEF ReadInv
  <1> USE DEF Read!kind, Read!Full, Read!Room
  <1>3. CASE Read!LineTooLong
    <2>1. Says(Read!EMSGSIZE, st.used)
      BY <1>1, <1>2, <1>3
      DEF Read!LineTooLong, ReadTypes, Reading, Says, Read!EMSGSIZE, Read!EFBIG
    <2> QED BY <1>1, <1>3, <2>1, ReadReturns DEF Read!LineTooLong, Read!EMSGSIZE
  <1>4. CASE Read!Truncated
    <2>1. Says(0, st.used)
      BY <1>1, <1>2, <1>4
      DEF Read!Truncated, ReadTypes, Reading, Kept, Says, Promised, Read!EMSGSIZE, Read!EFBIG
    <2> QED BY <1>1, <1>4, <2>1, ReadReturns DEF Read!Truncated
  <1>5. CASE Read!TooBig
    <2>1. Says(Read!EFBIG, st.used)
      BY <1>1, <1>2, <1>5, ReadAssumption
      DEF Read!TooBig, ReadTypes, Reading, Says, Read!EMSGSIZE, Read!EFBIG
    <2> QED BY <1>1, <1>5, <2>1, ReadReturns DEF Read!TooBig, Read!EFBIG
  <1>6. CASE Read!Grow
    <2>1. ReadTypes' /\ st'.cap = 2 * st.cap /\ st'.used = st.used /\ st'.rc = st.rc
      BY <1>1, <1>2, <1>6 DEF Read!Grow, ReadTypes
    <2>2. st'.pc = "read" /\ world.loop.kind \in {"slurp", "table"}
      BY <1>1, <1>2, <1>6 DEF Read!Grow, ReadTypes
    <2> QED BY <1>1, <1>2, <2>1, <2>2 DEF ReadInv, ReadTypes, Reading, Returned, Kept
  <1>7. CASE Read!GrowFails
    <2>1. Says(Read!ENOMEM, st.used)
      BY DEF Says, Read!ENOMEM, Read!EMSGSIZE, Read!EFBIG
    <2> QED BY <1>1, <1>7, <2>1, ReadReturns DEF Read!GrowFails, Read!ENOMEM
  <1>8. CASE Read!ReadSome
    <2>1. PICK n \in Nat : /\ n <= Read!Room /\ n <= world.length - st.used /\ n >= 1
                           /\ LET used == st.used + n
                              IN st' = IF world.loop.kind = "line" /\ world.newline < used
                                       THEN [st EXCEPT !.used = world.newline, !.pc = "done"]
                                       ELSE [st EXCEPT !.used = used, !.interrupts = 0]
      <3>1. Read!Room \in Int /\ world.length - st.used \in Int
        BY <1>2 DEF ReadTypes
      <3>2. Read!Min({Read!Room, world.length - st.used})
              = IF Read!Room <= world.length - st.used THEN Read!Room ELSE world.length - st.used
        BY <3>1, MinOfTwo
      <3> HIDE DEF Read!Room
      <3>3. PICK n \in 1 .. Read!Min({Read!Room, world.length - st.used}) :
               LET used == st.used + n
               IN st' = IF world.loop.kind = "line" /\ world.newline < used
                        THEN [st EXCEPT !.used = world.newline, !.pc = "done"]
                        ELSE [st EXCEPT !.used = used, !.interrupts = 0]
        BY <1>8 DEF Read!ReadSome
      <3>4. n \in Nat /\ n <= Read!Room /\ n <= world.length - st.used /\ n >= 1
        BY <3>1, <3>2
      <3> QED BY <3>3, <3>4
    <2>2. CASE world.loop.kind = "line" /\ world.newline < st.used + n
      <3>1. st' = [st EXCEPT !.used = world.newline, !.pc = "done"]
        BY <2>1, <2>2
      <3>2. ReadTypes' /\ st'.cap = st.cap /\ st'.used = world.newline
              /\ st'.rc = 0 /\ st'.pc = "done"
        <4>1. PICK newline \in Nat : newline = world.newline
          BY <1>2 DEF ReadTypes
        <4> QED BY <1>1, <1>2, <3>1, <4>1 DEF ReadTypes, Reading
      <3>3. Reading' /\ Returned'
        BY <1>1, <1>2, <2>1, <2>2, <3>2
        DEF ReadTypes, Reading, Returned, Says, Promised, Kept, Read!EMSGSIZE, Read!EFBIG
      <3> QED BY <3>2, <3>3 DEF ReadInv
    <2>3. CASE ~(world.loop.kind = "line" /\ world.newline < st.used + n)
      <3>1. st' = [st EXCEPT !.used = st.used + n, !.interrupts = 0]
        BY <2>1, <2>3
      <3>2. ReadTypes' /\ st'.cap = st.cap /\ st'.used = st.used + n
              /\ st'.rc = st.rc /\ st'.pc = "read"
        <4>1. PICK used \in Nat : used = st.used + n
          BY <1>2 DEF ReadTypes
        <4> QED BY <1>1, <1>2, <3>1, <4>1 DEF ReadTypes
      <3>3. Reading' /\ Returned'
        BY <1>1, <1>2, <2>1, <2>3, <3>2 DEF ReadTypes, Reading, Returned, Kept
      <3> QED BY <3>2, <3>3 DEF ReadInv
    <2> QED BY <2>2, <2>3
  <1>9. CASE Read!EndOfFile
    <2>1. Says(0, st.used)
      BY <1>1, <1>2, <1>9
      DEF Read!EndOfFile, ReadTypes, Reading, Kept, Says, Promised, Read!EMSGSIZE, Read!EFBIG
    <2> QED BY <1>1, <1>9, <2>1, ReadReturns DEF Read!EndOfFile
  <1>10. CASE Read!Interrupted
    <2>1. ReadTypes' /\ st'.cap = st.cap /\ st'.used = st.used /\ st'.rc = st.rc /\ st'.pc = "read"
      BY <1>1, <1>2, <1>10 DEF Read!Interrupted, ReadTypes
    <2> QED BY <1>1, <1>2, <2>1 DEF ReadInv, ReadTypes, Reading, Returned, Kept
  <1>11. CASE Read!ReadFails
    <2>1. Says(Read!EIO, st.used)
      BY DEF Says, Read!EIO, Read!EMSGSIZE, Read!EFBIG
    <2> QED BY <1>1, <1>11, <2>1, ReadReturns DEF Read!ReadFails, Read!EIO
  <1> QED BY <1>3, <1>4, <1>5, <1>6, <1>7, <1>8, <1>9, <1>10, <1>11 DEF Read!Next

\* Whatever read() makes of a file of any length, a loop returns all that it
\* promises or refuses, and never fills a buffer past its end
\* (rewsr_read_first_line, rewsr_read_file, rewsr_slurp, rewsr_dmi_read_sysfs).
THEOREM ReadsAreWhole == FairSpec => []WholeOrRefused
  <1> DEFINE Inv == routine = "read" => ReadInv
  <1>1. Init => Inv
    <2> SUFFICES ASSUME Init, routine = "read"
                 PROVE  ReadInv
      OBVIOUS
    <2>1. Read!Init
      BY AloneNotFed DEF Init, Alone, TextTools, Decoders, Text!Init, Lists!Init
    <2>2. PICK loop \in ReadLoops, length \in 0 .. MaxLength : \E newline \in 0 .. length :
             world = [loop |-> loop, length |-> length, newline |-> newline]
      BY <2>1 DEF Read!Init
    <2>3. st = [pc |-> "read", cap |-> world.loop.cap, used |-> 0, interrupts |-> 0, rc |-> 0]
      BY <2>1 DEF Read!Init
    <2>4. ReadTypes
      BY <2>2, <2>3, ReadAssumption DEF ReadTypes
    <2> QED BY <2>3, <2>4 DEF ReadInv, ReadTypes, Reading, Returned, Kept
  <1>2. Inv /\ [Next]_vars => Inv'
    <2> SUFFICES ASSUME Inv, [Next]_vars, routine' = "read"
                 PROVE  ReadInv'
      OBVIOUS
    <2>1. CASE Next
      <3>1. routine = "read" /\ ReadInv
        BY <2>1 DEF Next
      <3>2. Read!Next
        BY <2>1, <3>1, AloneNotFed DEF Next, Proceed, Alone
      <3> QED BY <3>1, <3>2, ReadStep
    <2>2. CASE UNCHANGED vars
      BY <2>2 DEF vars, ReadInv, ReadTypes, Reading, Returned, Says, Promised, Kept
    <2> QED BY <2>1, <2>2
  <1>3. Inv => WholeOrRefused
    <2> SUFFICES ASSUME ReadInv
                 PROVE  Read!WholeOrRefused
      BY DEF WholeOrRefused
    <2>1. Read!Min({world.length, world.loop.cap - 1})
            = IF world.length <= world.loop.cap - 1 THEN world.length ELSE world.loop.cap - 1
      BY MinOfTwo DEF ReadInv, ReadTypes
    <2>2. st.used + Kept <= st.cap
      BY DEF ReadInv, Reading
    <2>3. st.rc = 0 /\ st.pc = "done" => st.used = Promised
      BY DEF ReadInv, Returned, Says
    <2>4. /\ st.rc = Read!EMSGSIZE => world.newline + 1 >= world.loop.cap
          /\ st.rc = Read!EFBIG => world.length >= MaxTable
      BY DEF ReadInv, ReadTypes, Reading, Returned, Says, Read!EMSGSIZE, Read!EFBIG
    <2> QED
      BY <2>1, <2>2, <2>3, <2>4 DEF Promised, Kept, Read!WholeOrRefused, Read!kind
  <1> QED BY <1>1, <1>2, <1>3, PTL DEF FairSpec

-----------------------------------------------------------------------------
(* DevScan. The invariant is of a world w and a scan's variables s.        *)

Attributes == {Scan!Unknown} \cup {Scan!Value(name, a) : name \in Nat, a \in {"vendor", "driver"}}

Entries == [name : Nat, vendor : Attributes, driver : Attributes]

ScanTypes(w, s) ==
    /\ w \in [scan : [kind : {"pci", "block"}, cap : Nat, max : Nat],
              present : SUBSET Nat, unread : SUBSET Nat, handed : SUBSET Nat,
              always : SUBSET Nat, hotplugs : Nat]
    /\ s \in [pc : {"readdir", "stat", "vendor", "driver", "device", "done"},
              total : Nat, names : Seq(Nat), out : Seq(Entries), entry : Entries]

\* Each name is handed out once, and what is there all along is handed out or
\* still to come; in a directory that holds still that is all there is.
DirInv(w) ==
    /\ w.handed \cap w.unread = {}
    /\ w.always \subseteq w.present
    /\ w.always \subseteq w.unread \cup w.handed
    /\ w.hotplugs = 0 => /\ w.present = w.always
                         /\ w.unread \cup w.handed \subseteq w.always

Steady(w) == w.always \ PlainFiles

\* What an entry says: of a device that stays, all the attributes.
Whole(w, e) ==
    /\ e.name \in w.handed
    /\ e.name \in Steady(w) => /\ e.vendor = Scan!Value(e.name, "vendor")
                               /\ e.driver = Scan!Value(e.name, "driver")
    /\ w.hotplugs = 0 => e.name \in Steady(w)

Reported(s, name) == \E i \in DOMAIN s.out : s.out[i].name = name
Listed(s, name) == \E i \in DOMAIN s.names : s.names[i] = name

\* The device looked at has a name of its own, and is a directory once its
\* attributes are read.
EntryInv(w, s) ==
    /\ s.pc \in {"stat", "vendor", "driver"} =>
         s.entry.name \in w.handed /\ ~Reported(s, s.entry.name)
    /\ s.pc \in {"vendor", "driver"} /\ w.hotplugs = 0 => s.entry.name \in Steady(w)
    /\ s.pc = "driver" /\ s.entry.name \in Steady(w) =>
         s.entry.vendor = Scan!Value(s.entry.name, "vendor")

OutInv(w, s) ==
    /\ \A i \in DOMAIN s.out : Whole(w, s.out[i])
    /\ \A i, j \in DOMAIN s.out : i # j => s.out[i].name # s.out[j].name

Sorted(s) == \A i, j \in DOMAIN s.out : i < j => s.out[i].name < s.out[j].name

Looked(s) == s.pc \in {"stat", "vendor", "driver"}

\* One loop: the count tells whether all are there.
Counted(w, s) == Len(s.out) = IF s.total <= w.scan.cap THEN s.total ELSE w.scan.cap

NoneLost(w, s) ==
    s.total <= w.scan.cap =>
        \A name \in Steady(w) \cap w.handed :
            Reported(s, name) \/ (Looked(s) /\ name = s.entry.name)

PciInv(w, s) ==
    /\ s.pc # "device"
    /\ s.pc \in {"readdir", "stat", "done"} => Counted(w, s)
    /\ s.pc \in {"vendor", "driver"} => Len(s.out) + 1 = s.total /\ s.total <= w.scan.cap
    /\ NoneLost(w, s)
    /\ s.pc = "done" => Steady(w) \subseteq w.handed /\ Sorted(s)

\* Two loops: the names are listed, and then looked at in order.
Listing(w, s) ==
    s.pc = "readdir" =>
        /\ s.out = <<>>
        /\ Len(s.names) <= s.total
        /\ \A i, j \in DOMAIN s.names : i # j => s.names[i] # s.names[j]
        /\ s.total <= w.scan.max => \A name \in w.handed : Listed(s, name)

InTurn(w, s) ==
    s.pc # "readdir" =>
        /\ \A i, j \in DOMAIN s.names : i < j => s.names[i] < s.names[j]
        /\ Sorted(s)
        /\ \A i \in DOMAIN s.out, j \in DOMAIN s.names : s.out[i].name < s.names[j]
        /\ Looked(s) =>
             /\ \A i \in DOMAIN s.out : s.out[i].name < s.entry.name
             /\ \A j \in DOMAIN s.names : s.entry.name < s.names[j]
        /\ s.total <= w.scan.max =>
             \A name \in Steady(w) :
                Reported(s, name) \/ Listed(s, name) \/ (Looked(s) /\ name = s.entry.name)

BlockInv(w, s) ==
    /\ s.pc # "stat"
    /\ \A i \in DOMAIN s.names : s.names[i] \in w.handed
    /\ s.pc = "done" => s.names = <<>> \/ Len(s.out) = w.scan.cap
    /\ Listing(w, s)
    /\ InTurn(w, s)

ScanInv(w, s) ==
    /\ ScanTypes(w, s)
    /\ DirInv(w)
    /\ EntryInv(w, s)
    /\ OutInv(w, s)
    /\ w.scan.kind = "pci" => PciInv(w, s)
    /\ w.scan.kind = "block" => BlockInv(w, s)

\* Devices that come or go: fewer are steady, and nothing else is said of them.
LEMMA HotplugKeeps ==
    ASSUME ScanInv(world, st), Scan!Hotplug
    PROVE  ScanInv(world', st')
  <1>1. PICK name \in Nat, known \in BOOLEAN :
          world' = [world EXCEPT
            !.present = IF name \in @ THEN @ \ {name} ELSE @ \cup {name},
            !.unread = IF known /\ name \notin world.handed THEN @ \cup {name} ELSE @ \ {name},
            !.always = @ \ {name},
            !.hotplugs = @ + 1]
    BY ScanAssumption DEF Scan!Hotplug
  <1>2. st' = st
    BY DEF Scan!Hotplug
  <1>3. ScanTypes(world, st) /\ DirInv(world)
    BY DEF ScanInv
  <1>4. /\ world'.present = (IF name \in world.present THEN world.present \ {name}
                             ELSE world.present \cup {name})
        /\ world'.unread = (IF known /\ name \notin world.handed THEN world.unread \cup {name}
                            ELSE world.unread \ {name})
        /\ world'.always = world.always \ {name}
        /\ world'.hotplugs = world.hotplugs + 1
        /\ world'.handed = world.handed /\ world'.scan = world.scan
    BY <1>1, <1>3 DEF ScanTypes
  <1>5. ScanTypes(world', st')
    <2>1. PICK p \in SUBSET Nat, u \in SUBSET Nat, a \in SUBSET Nat, h \in Nat :
            world' = [world EXCEPT !.present = p, !.unread = u, !.always = a, !.hotplugs = h]
      <3> DEFINE p == IF name \in world.present THEN world.present \ {name}
                      ELSE world.present \cup {name}
                 u == IF known /\ name \notin world.handed THEN world.unread \cup {name}
                      ELSE world.unread \ {name}
      <3>1. /\ p \in SUBSET Nat /\ u \in SUBSET Nat
            /\ world.always \ {name} \in SUBSET Nat /\ world.hotplugs + 1 \in Nat
        BY <1>3 DEF ScanTypes
      <3>2. world' = [world EXCEPT !.present = p, !.unread = u, !.always = @ \ {name},
                                   !.hotplugs = @ + 1]
        BY <1>1
      <3> HIDE DEF p, u
      <3> QED BY <3>1, <3>2
    <2> QED BY <1>2, <1>3, <2>1 DEF ScanTypes
  <1>6. DirInv(world')
    <2>1. world'.hotplugs # 0
      BY <1>3, <1>4 DEF ScanTypes
    <2> QED BY <1>3, <1>4, <2>1 DEF DirInv
  <1>7. Steady(world') \subseteq Steady(world) /\ world'.hotplugs # 0
    BY <1>3, <1>4 DEF Steady, ScanTypes
  <1>8. EntryInv(world', st')
    BY <1>2, <1>4, <1>7 DEF ScanInv, EntryInv
  <1>9. OutInv(world', st')
    BY <1>2, <1>4, <1>7 DEF ScanInv, OutInv, Whole
  <1>10. world'.scan.kind = "pci" => PciInv(world', st')
    <2>1. st.pc # "done"
      BY DEF Scan!Hotplug
    <2> QED BY <1>2, <1>4, <1>7, <2>1 DEF ScanInv, PciInv, Counted, NoneLost
  <1>11. world'.scan.kind = "block" => BlockInv(world', st')
    <2>1. InTurn(world, st) /\ world.scan.kind = "block" => InTurn(world', st')
      BY <1>2, <1>4, <1>7 DEF InTurn
    <2>2. Listing(world, st) => Listing(world', st')
      BY <1>2, <1>4 DEF Listing
    <2> QED BY <1>2, <1>4, <2>1, <2>2 DEF ScanInv, BlockInv
  <1> QED BY <1>5, <1>6, <1>8, <1>9, <1>10, <1>11 DEF ScanInv

\* Which entry of array each entry of sorted is.
Rearranges(p, array, sorted) ==
    /\ p \in [DOMAIN array -> DOMAIN array]
    /\ \A i, j \in DOMAIN array : i # j => p[i] # p[j]
    /\ \A k \in DOMAIN array : \E i \in DOMAIN array : p[i] = k
    /\ \A i \in DOMAIN array : sorted[i] = array[p[i]]

\* qsort keeps the entries: a position of the one array is a position of the
\* other.
LEMMA Arranged ==
    ASSUME NEW S, NEW array \in Seq(S), NEW sorted \in Scan!Arrangements(array)
    PROVE  /\ sorted \in Seq(S) /\ Len(sorted) = Len(array) /\ DOMAIN sorted = DOMAIN array
           /\ \E p : Rearranges(p, array, sorted)
  <1> DEFINE D == DOMAIN array
  <1>1. PICK p \in Scan!Bijection(D, D) : sorted = [i \in D |-> array[p[i]]]
    BY DEF Scan!Arrangements
  <1>2. /\ p \in [D -> D]
        /\ \A i, j \in D : i # j => p[i] # p[j]
        /\ \A k \in D : \E i \in D : p[i] = k
    BY DEF Scan!Bijection, Scan!Injection, Scan!Surjection, Scan!IsInjective
  <1>3. D = 1 .. Len(array) /\ Len(array) \in Nat /\ \A i \in D : array[i] \in S
    OBVIOUS
  <1>4. sorted \in [1 .. Len(array) -> S]
    BY <1>1, <1>2, <1>3
  <1>5. sorted \in Seq(S) /\ Len(sorted) = Len(array)
    BY <1>3, <1>4
  <1>6. Rearranges(p, array, sorted)
    BY <1>1, <1>2 DEF Rearranges
  <1> QED BY <1>3, <1>5, <1>6

\* readdir moves a name from what is to come to what was handed out.
LEMMA ReaddirHands ==
    ASSUME ScanTypes(world, st), DirInv(world), NEW name \in world.unread, Scan!Readdir(name)
    PROVE  /\ name \in Nat /\ name \notin world.handed
           /\ world.hotplugs = 0 => name \in world.always
           /\ world'.handed = world.handed \cup {name}
           /\ UNCHANGED <<world.scan, world.always, world.present, world.hotplugs>>
           /\ ScanTypes(world', st) /\ DirInv(world') /\ Steady(world') = Steady(world)
  <1>1. world' = [world EXCEPT !.unread = @ \ {name}, !.handed = @ \cup {name}]
    BY DEF Scan!Readdir
  <1>2. /\ world'.unread = world.unread \ {name} /\ world'.handed = world.handed \cup {name}
        /\ world'.scan = world.scan /\ world'.always = world.always
        /\ world'.present = world.present /\ world'.hotplugs = world.hotplugs
    BY <1>1 DEF ScanTypes
  <1>3. name \in Nat
    BY DEF ScanTypes
  <1>4. ScanTypes(world', st)
    <2>1. PICK u \in SUBSET Nat, h \in SUBSET Nat :
             world' = [world EXCEPT !.unread = u, !.handed = h]
      BY <1>1, <1>3 DEF ScanTypes
    <2> QED BY <2>1 DEF ScanTypes
  <1> QED BY <1>2, <1>3, <1>4 DEF DirInv, Steady

LEMMA NextEntryKeeps ==
    ASSUME ScanInv(world, st), Scan!NextEntry
    PROVE  ScanInv(world', st')
  <1>1. PICK name \in world.unread :
          Scan!Readdir(name) /\ st' = [st EXCEPT !.pc = "stat", !.entry = Scan!NoEntry(name)]
    BY DEF Scan!NextEntry
  <1>2. ScanTypes(world, st) /\ DirInv(world) /\ world.scan.kind = "pci" /\ st.pc = "readdir"
    BY DEF ScanInv, Scan!NextEntry, Scan!scan
  <1>3. /\ name \in Nat /\ name \notin world.handed
        /\ world'.handed = world.handed \cup {name} /\ world'.scan = world.scan
        /\ world'.hotplugs = world.hotplugs
        /\ ScanTypes(world', st) /\ DirInv(world') /\ Steady(world') = Steady(world)
    BY <1>1, <1>2, ReaddirHands
  <1>4. /\ st'.pc = "stat" /\ st'.entry.name = name
        /\ st'.out = st.out /\ st'.total = st.total /\ st'.names = st.names
    BY <1>1, <1>2 DEF ScanTypes, Scan!NoEntry
  <1>5. ScanTypes(world', st')
    <2>1. Scan!NoEntry(name) \in Entries
      BY <1>3 DEF Scan!NoEntry, Entries, Attributes
    <2> QED BY <1>1, <1>3, <2>1 DEF ScanTypes
  <1>6. EntryInv(world', st')
    BY <1>3, <1>4 DEF EntryInv, ScanInv, OutInv, Whole, Reported
  <1>7. OutInv(world', st')
    BY <1>3, <1>4 DEF ScanInv, OutInv, Whole
  <1>8. PciInv(world', st')
    <2>1. PciInv(world, st)
      BY <1>2 DEF ScanInv
    <2>2. \A n : n \in Steady(world') \cap world'.handed =>
             n = name \/ n \in Steady(world) \cap world.handed
      BY <1>3
    <2>3. Looked(st') /\ ~Looked(st)
      BY <1>2, <1>4 DEF Looked
    <2>4. Counted(world', st')
      BY <1>2, <1>3, <1>4, <2>1 DEF PciInv, Counted
    <2>5. NoneLost(world', st')
      <3> SUFFICES ASSUME st'.total <= world'.scan.cap,
                          NEW n \in Steady(world') \cap world'.handed, n # name
                   PROVE  Reported(st', n)
        BY <1>4, <2>3 DEF NoneLost
      <3>1. Reported(st, n)
        BY <1>3, <1>4, <2>1, <2>2, <2>3 DEF PciInv, NoneLost
      <3> QED BY <1>4, <3>1 DEF Reported
    <2> QED BY <1>4, <2>4, <2>5 DEF PciInv
  <1> QED BY <1>2, <1>3, <1>5, <1>6, <1>7, <1>8 DEF ScanInv

LEMMA StatKeeps ==
    ASSUME ScanInv(world, st), Scan!Stat
    PROVE  ScanInv(world', st')
  <1>1. /\ ScanTypes(world, st) /\ DirInv(world) /\ st.pc = "stat"
        /\ world' = world /\ world.scan.kind = "pci" /\ PciInv(world, st)
    BY DEF ScanInv, Scan!Stat, BlockInv, ScanTypes
  <1>2. CASE ~Scan!IsDir(st.entry.name)
    <2>1. st' = [st EXCEPT !.pc = "readdir"]
      BY <1>2 DEF Scan!Stat
    <2>2. /\ st'.pc = "readdir" /\ st'.out = st.out /\ st'.total = st.total
          /\ st'.entry = st.entry /\ ScanTypes(world', st')
      BY <1>1, <2>1 DEF ScanTypes
    <2>3. st.entry.name \notin Steady(world)
      BY <1>1, <1>2 DEF Scan!IsDir, Steady, DirInv
    <2> QED BY <1>1, <2>2, <2>3 DEF ScanInv, EntryInv, OutInv, PciInv, Counted, NoneLost, Reported,
         Looked
  <1>3. CASE Scan!IsDir(st.entry.name)
    <2>1. /\ st'.pc = (IF Len(st.out) < world.scan.cap THEN "vendor" ELSE "readdir")
          /\ st'.out = st.out /\ st'.total = st.total + 1
          /\ st'.entry = st.entry /\ ScanTypes(world', st')
      <3>1. PICK pc \in {"vendor", "readdir"} :
              /\ pc = (IF Len(st.out) < world.scan.cap THEN "vendor" ELSE "readdir")
              /\ st' = [st EXCEPT !.total = @ + 1, !.pc = pc]
        BY <1>3 DEF Scan!Stat, Scan!scan
      <3>2. st.total + 1 \in Nat
        BY <1>1 DEF ScanTypes
      <3>3. PICK total \in Nat : total = st.total + 1
        BY <3>2
      <3>4. st' = [st EXCEPT !.total = total, !.pc = pc]
        BY <3>1, <3>3
      <3> QED BY <1>1, <3>1, <3>3, <3>4 DEF ScanTypes
    <2>2. world.hotplugs = 0 => st.entry.name \in Steady(world)
      BY <1>1, <1>3 DEF Scan!IsDir, Steady, DirInv
    <2>3. Len(st.out) \in Nat /\ st.total \in Nat /\ world.scan.cap \in Nat
      BY <1>1 DEF ScanTypes
    <2>4. EntryInv(world', st')
      BY <1>1, <2>1, <2>2 DEF ScanInv, EntryInv, Reported
    <2>5. OutInv(world', st')
      BY <1>1, <2>1 DEF ScanInv, OutInv
    <2>6. PciInv(world', st')
      BY <1>1, <2>1, <2>3 DEF PciInv, Counted, NoneLost, Reported, Looked
    <2> QED BY <1>1, <2>1, <2>4, <2>5, <2>6 DEF ScanInv
  <1> QED BY <1>2, <1>3

LEMMA EndOfDirKeeps ==
    ASSUME ScanInv(world, st), Scan!EndOfDir
    PROVE  ScanInv(world', st')
  <1>1. /\ ScanTypes(world, st) /\ DirInv(world) /\ st.pc = "readdir" /\ OutInv(world, st)
        /\ world' = world /\ world.scan.kind = "pci" /\ PciInv(world, st) /\ world.unread = {}
    BY DEF ScanInv, Scan!EndOfDir, Scan!scan
  <1>2. PICK out \in Scan!Arrangements(st.out) :
          /\ \A i, j \in DOMAIN out : i < j => out[i].name <= out[j].name
          /\ st' = [st EXCEPT !.pc = "done", !.out = out]
    BY DEF Scan!EndOfDir
  <1>3. st.out \in Seq(Entries)
    BY <1>1 DEF ScanTypes
  <1>4. out \in Seq(Entries) /\ Len(out) = Len(st.out) /\ DOMAIN out = DOMAIN st.out
    BY <1>2, <1>3, Arranged
  <1>5. PICK p : Rearranges(p, st.out, out)
    BY <1>2, <1>3, Arranged
  <1>6. /\ st'.pc = "done" /\ st'.out = out /\ st'.total = st.total /\ ScanTypes(world', st')
    BY <1>1, <1>2, <1>4 DEF ScanTypes
  <1>7. /\ \A i \in DOMAIN out : p[i] \in DOMAIN st.out /\ out[i] = st.out[p[i]]
        /\ \A i, j \in DOMAIN out : i # j => out[i].name # out[j].name
    <2>1. \A i \in DOMAIN out : p[i] \in DOMAIN st.out /\ out[i] = st.out[p[i]]
      BY <1>4, <1>5 DEF Rearranges
    <2>2. \A i, j \in DOMAIN out : i # j => p[i] # p[j]
      BY <1>4, <1>5 DEF Rearranges
    <2>3. \A k, m \in DOMAIN st.out : k # m => st.out[k].name # st.out[m].name
      BY <1>1 DEF OutInv
    <2>4. \A i, j \in DOMAIN out : i # j => out[i].name # out[j].name
      <3> SUFFICES ASSUME NEW i \in DOMAIN out, NEW j \in DOMAIN out, i # j
                   PROVE  out[i].name # out[j].name
        OBVIOUS
      <3>1. st.out[p[i]].name # st.out[p[j]].name
        BY <2>1, <2>2, <2>3, Zenon
      <3>2. out[i] = st.out[p[i]] /\ out[j] = st.out[p[j]]
        BY <2>1, Zenon
      <3> QED BY <3>1, <3>2
    <2> QED BY <2>1, <2>4
  <1>8. OutInv(world', st')
    BY <1>1, <1>6, <1>7 DEF OutInv
  <1>9. Sorted(st')
    <2> SUFFICES ASSUME NEW i \in DOMAIN out, NEW j \in DOMAIN out, i < j
                 PROVE  out[i].name < out[j].name
      BY <1>6 DEF Sorted
    <2>1. out[i] \in Entries /\ out[j] \in Entries
      BY <1>4, ElementOfSeq
    <2>2. DOMAIN out \subseteq Nat
      BY <1>4
    <2>3. out[i].name \in Nat /\ out[j].name \in Nat /\ i # j
      BY <2>1, <2>2 DEF Entries
    <2> QED BY <1>2, <1>7, <2>3
  <1>10. \A name : Reported(st, name) => Reported(st', name)
    <2> SUFFICES ASSUME NEW k \in DOMAIN st.out
                 PROVE  Reported(st', st.out[k].name)
      BY DEF Reported
    <2>1. PICK i \in DOMAIN st.out : p[i] = k
      BY <1>5 DEF Rearranges
    <2> QED BY <1>4, <1>5, <1>6, <2>1 DEF Reported, Rearranges
  <1>11. Steady(world) \subseteq world.handed
    BY <1>1 DEF DirInv, Steady
  <1>12. PciInv(world', st')
    <2>1. ~Looked(st)
      BY <1>1 DEF Looked
    <2>2. Counted(world', st')
      BY <1>1, <1>4, <1>6 DEF PciInv, Counted
    <2>3. NoneLost(world', st')
      <3> SUFFICES ASSUME st'.total <= world'.scan.cap,
                          NEW n \in Steady(world') \cap world'.handed
                   PROVE  Reported(st', n)
        BY DEF NoneLost
      <3>1. Reported(st, n)
        BY <1>1, <1>6, <2>1 DEF PciInv, NoneLost
      <3> QED BY <1>10, <3>1
    <2> QED BY <1>1, <1>6, <1>9, <1>11, <2>2, <2>3 DEF PciInv
  <1>13. EntryInv(world', st')
    BY <1>6 DEF EntryInv
  <1> QED BY <1>1, <1>6, <1>8, <1>12, <1>13 DEF ScanInv

\* An attribute read of a device that stays is its own.
LEMMA ReadIs ==
    ASSUME ScanTypes(world, st), DirInv(world), NEW a \in {"vendor", "driver"}
    PROVE  /\ Scan!Read(a) \in Attributes
           /\ st.entry.name \in Steady(world) => Scan!Read(a) = Scan!Value(st.entry.name, a)
  <1>1. st.entry.name \in Nat
    BY DEF ScanTypes, Entries
  <1>2. /\ Scan!Unknown \in Attributes
        /\ Scan!Value(st.entry.name, a) \in Attributes
    BY <1>1 DEF Attributes
  <1>3. st.entry.name \in Steady(world) => Scan!IsDir(st.entry.name)
    BY DEF Steady, Scan!IsDir, DirInv
  <1> QED BY <1>2, <1>3 DEF Scan!Read

\* Each attribute is a field of its own.
LEMMA EntryUpdates ==
    ASSUME NEW e \in Entries, NEW v \in Attributes
    PROVE  /\ LET d == [e EXCEPT !.vendor = v]
              IN d \in Entries /\ d.name = e.name /\ d.vendor = v
           /\ LET d == [e EXCEPT !.driver = v]
              IN d \in Entries /\ d.name = e.name /\ d.vendor = e.vendor /\ d.driver = v
  BY DEF Entries

LEMMA ReadFirstKeeps ==
    ASSUME ScanInv(world, st), Scan!ReadFirst
    PROVE  ScanInv(world', st')
  <1>1. /\ ScanTypes(world, st) /\ DirInv(world) /\ st.pc = "vendor" /\ world' = world
        /\ EntryInv(world, st) /\ OutInv(world, st)
    BY DEF ScanInv, Scan!ReadFirst
  <1>2. PICK v \in Attributes :
          /\ st' = [st EXCEPT !.pc = "driver", !.entry.vendor = v]
          /\ st.entry.name \in Steady(world) => v = Scan!Value(st.entry.name, "vendor")
    BY <1>1, ReadIs DEF Scan!ReadFirst
  <1>3. PICK e \in Entries : /\ e = [st.entry EXCEPT !.vendor = v]
                             /\ e.name = st.entry.name /\ e.vendor = v
    <2>1. st.entry \in Entries /\ v \in Attributes
      BY <1>1, <1>2 DEF ScanTypes
    <2>2. PICK d : d = [st.entry EXCEPT !.vendor = v]
      OBVIOUS
    <2>3. d \in Entries /\ d.name = st.entry.name /\ d.vendor = v
      BY <2>1, <2>2, EntryUpdates, Zenon
    <2> QED BY <2>2, <2>3, Zenon
  <1>4. st' = [st EXCEPT !.pc = "driver", !.entry = e]
    BY <1>1, <1>2, <1>3 DEF ScanTypes
  <1>5. /\ st'.pc = "driver" /\ st'.out = st.out /\ st'.total = st.total
        /\ st'.names = st.names /\ st'.entry = e /\ ScanTypes(world', st')
    BY <1>1, <1>3, <1>4 DEF ScanTypes
  <1>6. EntryInv(world', st')
    BY <1>1, <1>2, <1>3, <1>5 DEF EntryInv, Reported
  <1>7. OutInv(world', st')
    BY <1>1, <1>5 DEF OutInv
  <1>8. Looked(st) /\ Looked(st')
    BY <1>1, <1>5 DEF Looked
  <1>9. PciInv(world, st) => PciInv(world', st')
    BY <1>1, <1>3, <1>5, <1>8 DEF PciInv, Counted, NoneLost, Reported
  <1>10. BlockInv(world, st) => BlockInv(world', st')
    BY <1>1, <1>3, <1>5, <1>8 DEF BlockInv, Listing, InTurn, Sorted, Reported, Listed
  <1> QED BY <1>1, <1>5, <1>6, <1>7, <1>9, <1>10 DEF ScanInv

LEMMA ReadLastKeeps ==
    ASSUME ScanInv(world, st), Scan!ReadLast
    PROVE  ScanInv(world', st')
  <1>1. /\ ScanTypes(world, st) /\ DirInv(world) /\ st.pc = "driver" /\ world' = world
        /\ EntryInv(world, st) /\ OutInv(world, st)
        /\ world.scan.kind = "pci" => PciInv(world, st)
        /\ world.scan.kind = "block" => BlockInv(world, st)
    BY DEF ScanInv, Scan!ReadLast
  <1>2. PICK e \in Entries, pc \in {"readdir", "device"} :
          /\ e.name = st.entry.name /\ e.vendor = st.entry.vendor
          /\ st.entry.name \in Steady(world) => e.driver = Scan!Value(st.entry.name, "driver")
          /\ pc = (IF world.scan.kind = "pci" THEN "readdir" ELSE "device")
          /\ st' = [st EXCEPT !.pc = pc, !.out = Append(@, e)]
    <2>1. PICK v \in Attributes :
            /\ st' = [st EXCEPT !.pc = IF world.scan.kind = "pci" THEN "readdir" ELSE "device",
                                !.out = Append(@, [st.entry EXCEPT !.driver = v])]
            /\ st.entry.name \in Steady(world) => v = Scan!Value(st.entry.name, "driver")
      BY <1>1, ReadIs DEF Scan!ReadLast, Scan!scan
    <2>2. PICK e \in Entries : /\ e = [st.entry EXCEPT !.driver = v]
                               /\ e.name = st.entry.name /\ e.vendor = st.entry.vendor
                               /\ e.driver = v
      <3>1. st.entry \in Entries /\ v \in Attributes
        BY <1>1, <2>1 DEF ScanTypes
      <3> QED BY <3>1, EntryUpdates
    <2>3. PICK pc \in {"readdir", "device"} :
             pc = (IF world.scan.kind = "pci" THEN "readdir" ELSE "device")
      OBVIOUS
    <2> QED BY <2>1, <2>2, <2>3
  <1>3. st.out \in Seq(Entries)
    BY <1>1 DEF ScanTypes
  <1> DEFINE n == Len(st.out) + 1
             longer == Append(st.out, e)
  <1>4. /\ longer \in Seq(Entries) /\ Len(longer) = n /\ n \in DOMAIN longer
        /\ longer[n] = e
        /\ \A i \in DOMAIN st.out : i \in DOMAIN longer /\ longer[i] = st.out[i]
        /\ \A i \in DOMAIN longer : i = n \/ i \in DOMAIN st.out
        /\ \A i \in DOMAIN st.out : i < n /\ i \in Nat
        /\ n \in Nat /\ Len(st.out) \in Nat
    BY <1>3
  <1> HIDE DEF n, longer
  <1>5. /\ st'.pc = pc /\ st'.out = longer /\ st'.total = st.total
        /\ st'.names = st.names /\ st'.entry = st.entry /\ ScanTypes(world', st')
    BY <1>1, <1>2, <1>4 DEF ScanTypes, longer
  <1>6. EntryInv(world', st')
    BY <1>2, <1>5 DEF EntryInv
  <1>7. OutInv(world', st')
    <2>1. Whole(world, e)
      BY <1>1, <1>2 DEF EntryInv, Whole
    <2>2. \A i \in DOMAIN st.out : st.out[i].name # e.name
      BY <1>1, <1>2 DEF EntryInv, Reported
    <2> QED BY <1>1, <1>4, <1>5, <2>1, <2>2 DEF OutInv
  <1>8. \A name : Reported(st, name) \/ name = st.entry.name => Reported(st', name)
    BY <1>2, <1>4, <1>5 DEF Reported
  <1>9. world.scan.kind = "pci" => PciInv(world', st')
    <2> SUFFICES ASSUME PciInv(world, st), pc = "readdir"
                 PROVE  PciInv(world', st')
      BY <1>1, <1>2
    <2>1. Counted(world', st')
      BY <1>1, <1>4, <1>5 DEF PciInv, Counted
    <2>2. NoneLost(world', st')
      BY <1>1, <1>5, <1>8 DEF PciInv, NoneLost
    <2> QED BY <1>5, <2>1, <2>2 DEF PciInv
  <1>10. world.scan.kind = "block" => BlockInv(world', st')
    <2> SUFFICES ASSUME BlockInv(world, st), pc = "device"
                 PROVE  BlockInv(world', st')
      BY <1>1, <1>2
    <2>1. Looked(st) /\ ~Looked(st') /\ InTurn(world, st) /\ st.pc # "readdir"
      BY <1>1, <1>5 DEF Looked, BlockInv
    <2>2. Sorted(st')
      <3> SUFFICES ASSUME NEW i \in DOMAIN longer, NEW j \in DOMAIN longer, i < j
                   PROVE  longer[i].name < longer[j].name
        BY <1>5 DEF Sorted
      <3>1. i \in DOMAIN st.out
        BY <1>4
      <3>2. CASE j \in DOMAIN st.out
        BY <1>4, <2>1, <3>1, <3>2 DEF InTurn, Sorted
      <3>3. CASE j = n
        BY <1>2, <1>4, <2>1, <3>1, <3>3 DEF InTurn
      <3> QED BY <1>4, <3>2, <3>3
    <2>3. \A i \in DOMAIN longer, j \in DOMAIN st.names : longer[i].name < st.names[j]
      BY <1>2, <1>4, <2>1 DEF InTurn
    <2>4. \A name : Listed(st, name) => Listed(st', name)
      BY <1>5 DEF Listed
    <2>5. InTurn(world', st')
      BY <1>1, <1>5, <1>8, <2>1, <2>2, <2>3, <2>4 DEF InTurn
    <2> QED BY <1>1, <1>5, <2>5 DEF BlockInv, Listing
  <1> QED BY <1>1, <1>5, <1>6, <1>7, <1>9, <1>10 DEF ScanInv

LEMMA ListEntryKeeps ==
    ASSUME ScanInv(world, st), Scan!ListEntry
    PROVE  ScanInv(world', st')
  <1>1. PICK name \in world.unread :
          /\ Scan!Readdir(name)
          /\ st' = [st EXCEPT !.total = @ + 1,
                             !.names = IF Len(@) < world.scan.max THEN Append(@, name) ELSE @]
    BY DEF Scan!ListEntry, Scan!scan
  <1>2. /\ ScanTypes(world, st) /\ DirInv(world) /\ world.scan.kind = "block"
        /\ st.pc = "readdir" /\ BlockInv(world, st) /\ Listing(world, st)
    BY DEF ScanInv, Scan!ListEntry, Scan!scan, BlockInv
  <1>3. /\ name \in Nat /\ name \notin world.handed
        /\ world'.handed = world.handed \cup {name} /\ world'.scan = world.scan
        /\ world'.hotplugs = world.hotplugs
        /\ ScanTypes(world', st) /\ DirInv(world') /\ Steady(world') = Steady(world)
    BY <1>1, <1>2, ReaddirHands
  <1>4. st.names \in Seq(Nat) /\ st.total \in Nat /\ world.scan.max \in Nat
    BY <1>2 DEF ScanTypes
  <1> DEFINE n == Len(st.names) + 1
             longer == Append(st.names, name)
             names == IF Len(st.names) < world.scan.max THEN longer ELSE st.names
             total == st.total + 1
  <1>5. /\ longer \in Seq(Nat) /\ Len(longer) = n /\ n \in DOMAIN longer
        /\ longer[n] = name
        /\ \A i \in DOMAIN st.names : i \in DOMAIN longer /\ longer[i] = st.names[i]
        /\ \A i \in DOMAIN longer : i = n \/ i \in DOMAIN st.names
        /\ n \in Nat /\ Len(st.names) \in Nat /\ n = Len(st.names) + 1
    BY <1>3, <1>4
  <1>6. total \in Nat /\ total = st.total + 1 /\ names \in {longer, st.names}
        /\ (Len(st.names) < world.scan.max => names = longer)
    BY <1>4
  <1>7. st' = [st EXCEPT !.total = total, !.names = names]
    BY <1>1
  <1> HIDE DEF n, longer, names, total
  <1>8. /\ st'.pc = "readdir" /\ st'.out = st.out /\ st'.total = total
        /\ st'.names = names /\ st'.entry = st.entry /\ ScanTypes(world', st')
    <2>1. names \in Seq(Nat)
      BY <1>4, <1>5, <1>6
    <2> QED BY <1>2, <1>3, <1>6, <1>7, <2>1 DEF ScanTypes
  <1>9. EntryInv(world', st')
    BY <1>8 DEF EntryInv
  <1>10. OutInv(world', st')
    BY <1>3, <1>8 DEF ScanInv, OutInv, Whole
  <1>11. \A i \in DOMAIN st.names : st.names[i] \in world.handed
    BY <1>2 DEF BlockInv
  <1>12. /\ \A i \in DOMAIN names : names[i] \in world'.handed
         /\ \A i, j \in DOMAIN names : i # j => names[i] # names[j]
    <2>1. \A i \in DOMAIN longer : longer[i] \in world'.handed
      BY <1>3, <1>5, <1>11
    <2>3. \A i, j \in DOMAIN st.names : i # j => st.names[i] # st.names[j]
      BY <1>2 DEF Listing
    <2>6. \A i \in DOMAIN st.names : longer[i] # name
      BY <1>3, <1>5, <1>11
    <2>2. ASSUME NEW i \in DOMAIN longer, NEW j \in DOMAIN longer, i # j
          PROVE  longer[i] # longer[j]
      <3>1. CASE i = n
        BY <1>5, <2>2, <2>6, <3>1, Zenon
      <3>2. CASE j = n
        BY <1>5, <2>2, <2>6, <3>2, Zenon
      <3>3. CASE i # n /\ j # n
        BY <1>5, <2>2, <2>3, <3>3, Zenon
      <3> QED BY <3>1, <3>2, <3>3
    <2>4. CASE names = longer
      BY <2>1, <2>2, <2>4
    <2>5. CASE names = st.names
      BY <1>3, <1>11, <2>3, <2>5
    <2> QED BY <1>6, <2>4, <2>5
  <1>13. Listing(world', st')
    <2>1. Len(names) <= total
      BY <1>2, <1>4, <1>5, <1>6 DEF Listing
    <2>2. ASSUME total <= world.scan.max
          PROVE  \A m \in world'.handed : Listed(st', m)
      <3>1. names = longer /\ st.total <= world.scan.max
        BY <1>2, <1>4, <1>5, <1>6, <2>2 DEF Listing
      <3>2. \A m \in world.handed : \E i \in DOMAIN st.names : st.names[i] = m
        BY <1>2, <3>1 DEF Listing, Listed
      <3> QED BY <1>3, <1>5, <1>8, <3>1, <3>2 DEF Listed
    <2> QED BY <1>2, <1>3, <1>8, <1>12, <2>1, <2>2 DEF Listing
  <1>14. BlockInv(world', st')
    BY <1>8, <1>12, <1>13 DEF BlockInv, InTurn
  <1> QED BY <1>2, <1>3, <1>8, <1>9, <1>10, <1>14 DEF ScanInv

LEMMA ListEndsKeeps ==
    ASSUME ScanInv(world, st), Scan!ListEnds
    PROVE  ScanInv(world', st')
  <1>1. /\ ScanTypes(world, st) /\ DirInv(world) /\ st.pc = "readdir" /\ world' = world
        /\ world.scan.kind = "block" /\ BlockInv(world, st) /\ Listing(world, st)
        /\ world.unread = {}
    BY DEF ScanInv, Scan!ListEnds, Scan!scan, BlockInv
  <1>2. PICK names \in Scan!Arrangements(st.names) :
          /\ \A i, j \in DOMAIN names : i < j => names[i] <= names[j]
          /\ st' = [st EXCEPT !.pc = "device", !.names = names]
    BY DEF Scan!ListEnds
  <1>3. st.names \in Seq(Nat)
    BY <1>1 DEF ScanTypes
  <1>4. /\ names \in Seq(Nat) /\ DOMAIN names = DOMAIN st.names
    BY <1>2, <1>3, Arranged
  <1>5. PICK p : Rearranges(p, st.names, names)
    BY <1>2, <1>3, Arranged
  <1>6. /\ st'.pc = "device" /\ st'.names = names /\ st'.total = st.total
        /\ st'.out = st.out /\ ScanTypes(world', st')
    BY <1>1, <1>2, <1>4 DEF ScanTypes
  <1>7. /\ \A i \in DOMAIN names : p[i] \in DOMAIN st.names /\ names[i] = st.names[p[i]]
        /\ \A i, j \in DOMAIN names : i # j => p[i] # p[j]
    BY <1>4, <1>5 DEF Rearranges
  <1>8. \A i, j \in DOMAIN names : i < j => names[i] < names[j]
    <2> SUFFICES ASSUME NEW i \in DOMAIN names, NEW j \in DOMAIN names, i < j
                 PROVE  names[i] < names[j]
      OBVIOUS
    <2>1. i # j /\ names[i] \in Nat /\ names[j] \in Nat
      BY <1>4
    <2>2. \A k, m \in DOMAIN st.names : k # m => st.names[k] # st.names[m]
      BY <1>1 DEF Listing
    <2>3. st.names[p[i]] # st.names[p[j]]
      BY <1>7, <2>1, <2>2, Zenon
    <2>4. names[i] # names[j]
      BY <1>7, <2>3
    <2> QED BY <1>2, <2>1, <2>4
  <1>9. \A name : Listed(st, name) => Listed(st', name)
    <2> SUFFICES ASSUME NEW k \in DOMAIN st.names
                 PROVE  Listed(st', st.names[k])
      BY DEF Listed
    <2>1. PICK i \in DOMAIN st.names : p[i] = k
      BY <1>5 DEF Rearranges
    <2> QED BY <1>4, <1>5, <1>6, <2>1 DEF Listed, Rearranges
  <1>10. EntryInv(world', st') /\ OutInv(world', st')
    BY <1>1, <1>6 DEF EntryInv, ScanInv, OutInv
  <1>11. InTurn(world', st')
    <2>1. st.out = <<>> /\ DOMAIN st'.out = {}
      BY <1>1, <1>6 DEF Listing
    <2>2. Sorted(st')
      BY <2>1 DEF Sorted
    <2>3. ~Looked(st')
      BY <1>6 DEF Looked
    <2>4. Steady(world) \subseteq world.handed
      BY <1>1 DEF DirInv, Steady
    <2>5. st'.total <= world'.scan.max => \A name \in Steady(world') : Listed(st', name)
      BY <1>1, <1>6, <1>9, <2>4 DEF Listing
    <2> QED BY <1>6, <1>8, <2>1, <2>2, <2>3, <2>5 DEF InTurn
  <1>12. BlockInv(world', st')
    BY <1>1, <1>6, <1>7, <1>11 DEF BlockInv, Listing
  <1> QED BY <1>1, <1>6, <1>10, <1>12 DEF ScanInv

LEMMA NextDeviceKeeps ==
    ASSUME ScanInv(world, st), Scan!NextDevice
    PROVE  ScanInv(world', st')
  <1> DEFINE head == Head(st.names)
             rest == Tail(st.names)
  <1>1. /\ ScanTypes(world, st) /\ DirInv(world) /\ st.pc = "device" /\ world' = world
        /\ world.scan.kind = "block" /\ BlockInv(world, st) /\ InTurn(world, st)
        /\ st.names # <<>> /\ OutInv(world, st)
    BY DEF ScanInv, Scan!NextDevice, BlockInv, PciInv, ScanTypes
  <1>2. PICK pc \in {"vendor", "device"} :
          /\ pc = (IF Scan!IsDir(head) THEN "vendor" ELSE "device")
          /\ st' = [st EXCEPT !.names = rest, !.entry = Scan!NoEntry(head), !.pc = pc]
    BY DEF Scan!NextDevice
  <1>3. st.names \in Seq(Nat)
    BY <1>1 DEF ScanTypes
  <1>4. /\ rest \in Seq(Nat) /\ head \in Nat /\ 1 \in DOMAIN st.names /\ st.names[1] = head
        /\ \A i \in DOMAIN rest : i \in Nat /\ i + 1 \in DOMAIN st.names
                                 /\ 1 < i + 1 /\ rest[i] = st.names[i + 1]
        /\ \A i \in DOMAIN st.names : i = 1 \/ (i - 1 \in DOMAIN rest /\ (i - 1) + 1 = i)
    BY <1>1, <1>3
  <1> HIDE DEF head, rest
  <1>5. /\ st'.pc = pc /\ st'.names = rest /\ st'.entry.name = head /\ st'.out = st.out
        /\ st'.total = st.total /\ ScanTypes(world', st')
    <2>1. PICK e \in Entries : e = Scan!NoEntry(head) /\ e.name = head
      <3>1. Scan!Unknown \in Attributes
        BY DEF Attributes
      <3>2. Scan!NoEntry(head) \in Entries /\ Scan!NoEntry(head).name = head
        BY <1>4, <3>1 DEF Scan!NoEntry, Entries
      <3> HIDE DEF Scan!NoEntry
      <3> QED BY <3>2
    <2>2. st' = [st EXCEPT !.names = rest, !.entry = e, !.pc = pc]
      BY <1>2, <2>1
    <2> QED BY <1>1, <1>2, <1>4, <2>1, <2>2 DEF ScanTypes
  <1>6. head \in world.handed
    BY <1>1, <1>4 DEF BlockInv
  <1>7. \A i \in DOMAIN st.out : st.out[i].name < head /\ st.out[i].name \in Nat
    <2>1. \A i \in DOMAIN st.out : st.out[i] \in Entries
      BY <1>1 DEF ScanTypes
    <2> QED BY <1>1, <1>4, <2>1 DEF InTurn, Entries
  <1>8. EntryInv(world', st')
    <2>1. ~Reported(st', head)
      BY <1>4, <1>5, <1>7 DEF Reported
    <2>2. pc = "vendor" /\ world.hotplugs = 0 => head \in Steady(world)
      BY <1>1, <1>2 DEF Scan!IsDir, Steady, DirInv
    <2> QED BY <1>1, <1>2, <1>5, <1>6, <2>1, <2>2 DEF EntryInv
  <1>9. OutInv(world', st')
    BY <1>1, <1>5 DEF OutInv
  <1>10. InTurn(world', st')
    <2>1. \A i, j \in DOMAIN rest : i < j => rest[i] < rest[j]
      <3> SUFFICES ASSUME NEW i \in DOMAIN rest, NEW j \in DOMAIN rest, i < j
                   PROVE  rest[i] < rest[j]
        OBVIOUS
      <3>1. i + 1 < j + 1 /\ rest[i] = st.names[i + 1] /\ rest[j] = st.names[j + 1]
        BY <1>4
      <3> QED BY <1>1, <1>4, <3>1 DEF InTurn
    <2>2. \A j \in DOMAIN rest : head < rest[j]
      BY <1>1, <1>4 DEF InTurn
    <2>3. \A i \in DOMAIN st.out, j \in DOMAIN rest : st.out[i].name < rest[j]
      BY <1>1, <1>4 DEF InTurn
    <2>4. Sorted(st')
      BY <1>1, <1>5 DEF InTurn, Sorted
    <2>5. ASSUME st.total <= world.scan.max, NEW name \in Steady(world)
          PROVE  \/ Reported(st', name) \/ Listed(st', name)
                 \/ (Looked(st') /\ name = st'.entry.name)
      <3>1. Reported(st, name) \/ Listed(st, name)
        BY <1>1, <2>5 DEF InTurn, Looked
      <3>2. CASE Reported(st, name)
        BY <1>5, <3>2 DEF Reported
      <3>3. ASSUME NEW i \in DOMAIN st.names, st.names[i] = name, i # 1
            PROVE  Listed(st', name)
        BY <1>4, <1>5, <3>3 DEF Listed
      <3>4. CASE name = head
        <4>1. Scan!IsDir(head)
          BY <1>1, <3>4 DEF Scan!IsDir, Steady, DirInv
        <4> QED BY <1>2, <1>5, <3>4, <4>1 DEF Looked
      <3> QED BY <1>4, <3>1, <3>2, <3>3, <3>4 DEF Listed
    <2> QED BY <1>1, <1>2, <1>5, <1>7, <2>1, <2>2, <2>3, <2>4, <2>5 DEF InTurn
  <1>11. BlockInv(world', st')
    <2>1. \A i \in DOMAIN rest : rest[i] \in world.handed
      BY <1>1, <1>4 DEF BlockInv
    <2> QED BY <1>1, <1>2, <1>5, <1>10, <2>1 DEF BlockInv, Listing
  <1> QED BY <1>1, <1>5, <1>8, <1>9, <1>11 DEF ScanInv

LEMMA DevicesEndKeeps ==
    ASSUME ScanInv(world, st), Scan!DevicesEnd
    PROVE  ScanInv(world', st')
  <1>1. /\ ScanTypes(world, st) /\ DirInv(world) /\ st.pc = "device" /\ world' = world
        /\ world.scan.kind = "block" /\ BlockInv(world, st) /\ InTurn(world, st)
        /\ st.names = <<>> \/ Len(st.out) = world.scan.cap
        /\ st' = [st EXCEPT !.pc = "done"] /\ OutInv(world, st)
    BY DEF ScanInv, Scan!DevicesEnd, Scan!scan, BlockInv, PciInv, ScanTypes
  <1>2. /\ st'.pc = "done" /\ st'.names = st.names /\ st'.entry = st.entry
        /\ st'.out = st.out /\ st'.total = st.total /\ ScanTypes(world', st')
    BY <1>1 DEF ScanTypes
  <1>3. ~Looked(st) /\ ~Looked(st')
    BY <1>1, <1>2 DEF Looked
  <1>4. EntryInv(world', st') /\ OutInv(world', st')
    BY <1>1, <1>2 DEF EntryInv, OutInv
  <1>5. InTurn(world', st')
    BY <1>1, <1>2, <1>3 DEF InTurn, Sorted, Reported, Listed
  <1>6. BlockInv(world', st')
    BY <1>1, <1>2, <1>5 DEF BlockInv, Listing
  <1> QED BY <1>1, <1>2, <1>4, <1>6 DEF ScanInv

LEMMA ScanStep ==
    ASSUME ScanInv(world, st), Scan!Proceed \/ Scan!Hotplug
    PROVE  ScanInv(world', st')
  BY HotplugKeeps, NextEntryKeeps, StatKeeps, EndOfDirKeeps, ReadFirstKeeps, ReadLastKeeps,
     ListEntryKeeps, ListEndsKeeps, NextDeviceKeeps, DevicesEndKeeps
  DEF Scan!Proceed

\* A scan that has returned.
LEMMA ScanReports ==
    ASSUME ScanInv(world, st), st.pc = "done"
    PROVE  Scan!SteadyDevicesReported
  <1> DEFINE reported == {st.out[i].name : i \in DOMAIN st.out}
             steady == world.always \ PlainFiles
  <1>1. /\ OutInv(world, st) /\ ScanTypes(world, st) /\ ~Looked(st)
        /\ world.scan.kind = "pci" => PciInv(world, st)
        /\ world.scan.kind = "block" => BlockInv(world, st)
        /\ world.scan.kind \in {"pci", "block"}
    BY DEF ScanInv, ScanTypes, Looked
  <1>2. \A i, j \in DOMAIN st.out : i < j => st.out[i].name < st.out[j].name
    BY <1>1 DEF PciInv, BlockInv, InTurn, Sorted
  <1>3. \A i \in DOMAIN st.out : st.out[i].name \in steady =>
           /\ st.out[i].vendor = Scan!Value(st.out[i].name, "vendor")
           /\ st.out[i].driver = Scan!Value(st.out[i].name, "driver")
    BY <1>1 DEF OutInv, Whole, Steady
  <1>4. ~Scan!NoRoom => steady \subseteq reported
    <2> SUFFICES ASSUME ~Scan!NoRoom, NEW name \in Steady(world)
                 PROVE  Reported(st, name)
      BY DEF Steady, Reported
    <2>0. world.scan.cap \in Nat /\ world.scan.max \in Nat /\ st.total \in Nat
      BY <1>1 DEF ScanTypes
    <2>1. CASE world.scan.kind = "pci"
      <3>1. st.total <= world.scan.cap
        BY <2>0, <2>1 DEF Scan!NoRoom, Scan!scan
      <3> QED BY <1>1, <2>1, <3>1 DEF PciInv, NoneLost
    <2>2. CASE world.scan.kind = "block"
      <3>1. st.total <= world.scan.max /\ Len(st.out) # world.scan.cap
        BY <2>0, <2>2 DEF Scan!NoRoom, Scan!scan
      <3>2. st.names = <<>> /\ ~Listed(st, name)
        BY <1>1, <2>2, <3>1 DEF BlockInv, Listed
      <3> QED BY <1>1, <2>2, <3>1, <3>2 DEF BlockInv, InTurn
    <2> QED BY <1>1, <2>1, <2>2
  <1>5. world.hotplugs = 0 => reported \subseteq steady
    BY <1>1 DEF OutInv, Whole, Steady
  <1>6. world.hotplugs = 0 /\ ~Scan!NoRoom => Scan!Cardinality(reported) = Scan!Cardinality(steady)
    <2>1. world.hotplugs = 0 /\ ~Scan!NoRoom => reported = steady
      BY <1>4, <1>5
    <2> HIDE DEF reported, steady
    <2> QED BY <2>1
  <1> QED BY <1>2, <1>3, <1>4, <1>5, <1>6, Zenon DEF Scan!SteadyDevicesReported

\* Devices that stay for the whole of a scan are reported, each once, in order and
\* with their own attributes, whatever comes and goes, however long the directory
\* is, and in whatever order readdir gives it, unless there is no room
\* (rewsr_pci_scan_root, rewsr_sysfs_scan_net, rewsr_block_scan).
THEOREM SteadyDevicesAreReported == FairSpec => []SteadyDevicesReported
  <1> DEFINE Inv == routine = "scan" => ScanInv(world, st)
  <1>1. Init => Inv
    <2> SUFFICES ASSUME Init, routine = "scan"
                 PROVE  ScanInv(world, st)
      OBVIOUS
    <2>1. Scan!Init
      BY AloneNotFed DEF Init, Alone, TextTools, Decoders, Text!Init, Lists!Init
    <2>2. PICK s \in DirScans, present \in SUBSET DirNames :
             world = [scan |-> s, present |-> present, unread |-> present, handed |-> {},
                      always |-> present, hotplugs |-> 0]
      BY <2>1 DEF Scan!Init
    <2>3. st = [pc |-> "readdir", total |-> 0, names |-> <<>>, out |-> <<>>,
                entry |-> Scan!NoEntry(0)]
      BY <2>1 DEF Scan!Init
    <2>4. ScanTypes(world, st)
      <3>1. Scan!NoEntry(0) \in Entries
        BY DEF Scan!NoEntry, Entries, Attributes
      <3>2. s \in [kind : {"pci", "block"}, cap : Nat, max : Nat] /\ present \in SUBSET Nat
        BY <2>2, ScanAssumption
      <3> QED BY <2>2, <2>3, <3>1, <3>2 DEF ScanTypes
    <2>5. /\ world.handed = {} /\ world.always = present /\ world.present = present
          /\ world.unread = present /\ world.scan.cap \in Nat
          /\ st.pc = "readdir" /\ st.total = 0 /\ st.names = <<>> /\ st.out = <<>>
      BY <2>2, <2>3, <2>4 DEF ScanTypes
    <2>6. DirInv(world) /\ EntryInv(world, st) /\ OutInv(world, st)
      BY <2>5 DEF DirInv, EntryInv, OutInv
    <2>7. PciInv(world, st)
      BY <2>5 DEF PciInv, Counted, NoneLost
    <2>8. BlockInv(world, st)
      BY <2>5 DEF BlockInv, Listing, InTurn
    <2> QED BY <2>4, <2>6, <2>7, <2>8 DEF ScanInv
  <1>2. Inv /\ [Next]_vars => Inv'
    <2> SUFFICES ASSUME Inv, [Next]_vars, routine' = "scan"
                 PROVE  ScanInv(world', st')
      OBVIOUS
    <2>1. CASE Next
      <3>1. routine = "scan" /\ ScanInv(world, st)
        BY <2>1 DEF Next
      <3>2. Scan!Proceed \/ Scan!Hotplug
        BY <2>1, <3>1, AloneNotFed DEF Next, Proceed, Alone
      <3> QED BY <3>1, <3>2, ScanStep
    <2>2. CASE UNCHANGED vars
      BY <2>2 DEF vars
    <2> QED BY <2>1, <2>2
  <1>3. Inv => SteadyDevicesReported
    BY ScanReports DEF SteadyDevicesReported, Scan!SteadyDevicesReported
  <1> QED BY <1>1, <1>2, <1>3, PTL DEF FairSpec

-----------------------------------------------------------------------------
(* Decoders: cpulists *)

\* A loop that is fed takes an item at a time.
LEMMA FedStep ==
    ASSUME routine \in Decoders, Next
    PROVE  Lists!Next /\ UNCHANGED routine
  BY AloneNotFed, ToolsNotDecoders DEF Next, Proceed, Alone

CpuItems == DecoderItems("cpulist")

Fits(e) == e.range /\ e.lo <= e.hi /\ e.hi < Bits

GoodElement(e) == Fits(e) /\ ~e.tail

Apart == \A i, j \in DOMAIN world :
            i # j => (world[i].lo .. world[i].hi) \cap (world[j].lo .. world[j].hi) = {}

\* The CPUs of the elements before position n.
Before(n) == UNION {world[i].lo .. world[i].hi : i \in 1 .. n - 1}

\* Those that are set when the element there is refused.
SetBy(n) == IF Fits(world[n]) THEN Before(n) \cup world[n].lo .. world[n].hi ELSE Before(n)

\* The C parser has stopped at the first bad element.
StoppedAt(f) ==
    /\ ~GoodElement(world[f])
    /\ \A i \in 1 .. f - 1 : GoodElement(world[i])
    /\ st.bitmap = SetBy(f)

\* As long as it has found none, Go has counted what is in the bitmap.
AllGood ==
    /\ \A i \in DOMAIN world : GoodElement(world[i])
    /\ st.bitmap = Before(Len(world) + 1)
    /\ Apart => st.goCount = Cardinality(st.bitmap)

CpuTypes ==
    /\ world \in Seq(CpuItems)
    /\ st \in [bitmap : SUBSET Nat, rc : Int, goCount : Int]
    /\ IsFiniteSet(st.bitmap)

CpuInv ==
    /\ CpuTypes
    /\ st.rc = 0 => AllGood
    /\ st.rc # 0 => \E f \in DOMAIN world : StoppedAt(f)

LEMMA CpuStep ==
    ASSUME routine = "cpulist", CpuInv, Next
    PROVE  CpuInv'
  <1>0. PICK L \in Nat : L = Len(world)
    BY DEF CpuInv, CpuTypes, AllGood
  <1>1. PICK e \in CpuItems : world' = Append(world, e) /\ st' = Lists!CpulistItem(st, e)
    BY FedStep DEF Decoders, Lists!Next, Lists!Take, CpuItems
  <1>2. /\ e \in [range : BOOLEAN, tail : BOOLEAN, dash : BOOLEAN, lo : Nat, hi : Nat]
        /\ e.range /\ ~e.dash => e.lo = e.hi
        /\ Bits \in Nat
    BY CpulistAssumption DEF CpuItems
  <1>3. /\ L \in Nat /\ world' \in Seq(CpuItems) /\ Len(world') = L + 1
        /\ \A i \in 1 .. L : world'[i] = world[i]
        /\ world'[L + 1] = e /\ L = Len(world)
        /\ DOMAIN world = 1 .. L /\ DOMAIN world' = 1 .. L + 1
    BY <1>0, <1>1 DEF CpuInv, CpuTypes, AllGood
  <1>4. /\ e.lo \in Nat /\ e.hi \in Nat /\ e.lo .. e.hi \subseteq Nat
    BY <1>2
  <1>5. \A n \in 1 .. L + 1 : Before(n)' = Before(n)
    <2> TAKE n \in 1 .. L + 1
    <2>1. \A i \in 1 .. n - 1 : world'[i] = world[i]
      BY <1>3
    <2> QED BY <2>1 DEF Before
  <1>6. Before(L + 2)' = Before(L + 1) \cup e.lo .. e.hi
    <2>1. 1 .. (L + 2) - 1 = (1 .. L) \cup {L + 1} /\ 1 .. (L + 1) - 1 = 1 .. L
      BY <1>3
    <2>2. Before(L + 2)' = UNION {world'[i].lo .. world'[i].hi : i \in (1 .. L) \cup {L + 1}}
      BY <2>1 DEF Before
    <2>3. Before(L + 1) = UNION {world[i].lo .. world[i].hi : i \in 1 .. L}
      BY <2>1 DEF Before
    <2>4. \A c : (\E i \in (1 .. L) \cup {L + 1} : c \in world'[i].lo .. world'[i].hi)
                 <=> (\E i \in 1 .. L : c \in world[i].lo .. world[i].hi) \/ c \in e.lo .. e.hi
      BY <1>3, Zenon
    <2> QED BY <2>2, <2>3, <2>4
  <1>12. /\ st.rc = 0 => /\ \A i \in 1 .. L : GoodElement(world[i])
                         /\ st.bitmap = Before(L + 1)
                         /\ Apart => st.goCount = Cardinality(st.bitmap)
         /\ IsFiniteSet(st.bitmap)
    BY <1>3 DEF CpuInv, CpuTypes, AllGood
  <1>7. Lists!GoCount(e) \in Int
    BY <1>2, <1>4 DEF Lists!GoCount
  <1> DEFINE t == [st EXCEPT !.goCount = @ + Lists!GoCount(e)]
  <1>8. /\ t \in [bitmap : SUBSET Nat, rc : Int, goCount : Int]
        /\ t.bitmap = st.bitmap /\ t.rc = st.rc /\ t.goCount = st.goCount + Lists!GoCount(e)
    BY <1>7 DEF CpuInv, CpuTypes, AllGood
  <1> HIDE DEF t
  <1>9. CASE st.rc # 0
    <2>1. st' = t
      BY <1>1, <1>9 DEF Lists!CpulistItem, t
    <2>2. PICK f \in DOMAIN world : StoppedAt(f)
      BY <1>9 DEF CpuInv
    <2>3. f \in 1 .. L /\ f \in 1 .. L + 1 /\ 1 .. f - 1 \subseteq 1 .. L
      BY <1>3
    <2>6. SetBy(f)' = SetBy(f)
      <3>1. Before(f)' = Before(f) /\ world'[f] = world[f]
        BY <1>3, <1>5, <2>3
      <3> QED BY <3>1 DEF SetBy, Fits
    <2>7. /\ ~GoodElement(world'[f]) /\ f \in DOMAIN world'
          /\ \A i \in 1 .. f - 1 : GoodElement(world'[i])
      BY <1>3, <2>2, <2>3 DEF StoppedAt
    <2>4. /\ st'.rc # 0 /\ IsFiniteSet(st'.bitmap)
          /\ st' \in [bitmap : SUBSET Nat, rc : Int, goCount : Int]
      BY <1>8, <1>9, <2>1 DEF CpuInv, CpuTypes, AllGood
    <2>5. \E g \in DOMAIN world' : StoppedAt(g)'
      BY <1>8, <2>1, <2>2, <2>6, <2>7 DEF StoppedAt
    <2> QED BY <1>3, <2>4, <2>5 DEF CpuInv, CpuTypes
  <1>10. CASE st.rc = 0 /\ ~Fits(e)
    <2>1. st' = [t EXCEPT !.rc = Lists!EINVAL] \/ st' = [t EXCEPT !.rc = Lists!ERANGE]
      <3>1. ~e.range \/ e.hi < e.lo \/ e.hi >= Bits
        BY <1>2, <1>4, <1>10 DEF Fits
      <3>2. CASE ~e.range \/ e.hi < e.lo
        <4>1. ~(e.range /\ e.lo <= e.hi /\ Bits <= e.hi)
          BY <1>4, <3>2
        <4> QED BY <1>1, <1>10, <3>2, <4>1 DEF Lists!CpulistItem, t
      <3>3. CASE ~(~e.range \/ e.hi < e.lo)
        <4>1. e.range /\ e.lo <= e.hi /\ Bits <= e.hi
          BY <1>2, <1>4, <3>1, <3>3
        <4> QED BY <1>1, <1>10, <3>3, <4>1 DEF Lists!CpulistItem, t
      <3> QED BY <3>2, <3>3
    <2>2. /\ st' \in [bitmap : SUBSET Nat, rc : Int, goCount : Int]
          /\ st'.bitmap = st.bitmap /\ st'.rc # 0 /\ IsFiniteSet(st'.bitmap)
      BY <1>8, <2>1 DEF Lists!EINVAL, Lists!ERANGE, CpuInv, CpuTypes
    <2>3. /\ ~GoodElement(world'[L + 1]) /\ L + 1 \in DOMAIN world'
          /\ \A i \in 1 .. (L + 1) - 1 : GoodElement(world'[i])
      BY <1>3, <1>10, <1>12 DEF GoodElement
    <2>5. st'.bitmap = SetBy(L + 1)'
      <3>1. st'.bitmap = Before(L + 1)'
        BY <1>3, <1>5, <1>10, <1>12, <2>2
      <3> QED BY <1>3, <1>10, <3>1 DEF SetBy, Fits
    <2>4. \E g \in DOMAIN world' : StoppedAt(g)'
      BY <2>3, <2>5 DEF StoppedAt
    <2> QED BY <1>3, <2>2, <2>4 DEF CpuInv, CpuTypes
  <1>13. ASSUME st.rc = 0, Fits(e)
         PROVE  /\ st' \in [bitmap : SUBSET Nat, rc : Int, goCount : Int]
                /\ st'.bitmap = st.bitmap \cup e.lo .. e.hi
                /\ st'.rc = (IF e.tail THEN Lists!EINVAL ELSE 0)
                /\ st'.goCount = st.goCount + Lists!GoCount(e)
                /\ IsFiniteSet(e.lo .. e.hi) /\ Cardinality(e.lo .. e.hi) = e.hi - e.lo + 1
                /\ IsFiniteSet(st'.bitmap)
    <2>1. st' = [t EXCEPT !.bitmap = @ \cup e.lo .. e.hi,
                          !.rc = IF e.tail THEN Lists!EINVAL ELSE 0]
      <3>1. ~(~e.range \/ e.hi < e.lo) /\ ~(e.range /\ e.lo <= e.hi /\ Bits <= e.hi)
        BY <1>2, <1>4, <1>13 DEF Fits
      <3> QED BY <1>1, <1>13, <3>1 DEF Lists!CpulistItem, t
    <2>2. /\ st' \in [bitmap : SUBSET Nat, rc : Int, goCount : Int]
          /\ st'.bitmap = st.bitmap \cup e.lo .. e.hi
          /\ st'.rc = (IF e.tail THEN Lists!EINVAL ELSE 0)
          /\ st'.goCount = st.goCount + Lists!GoCount(e)
      <3>1. PICK code \in Int : code = IF e.tail THEN Lists!EINVAL ELSE 0
        BY DEF Lists!EINVAL
      <3>2. st' = [t EXCEPT !.bitmap = @ \cup e.lo .. e.hi, !.rc = code]
        BY <2>1, <3>1
      <3>3. PICK range \in SUBSET Nat : range = e.lo .. e.hi
        BY <1>4
      <3>4. st' = [t EXCEPT !.bitmap = @ \cup range, !.rc = code]
        BY <3>2, <3>3
      <3>5. /\ st' \in [bitmap : SUBSET Nat, rc : Int, goCount : Int]
            /\ st'.bitmap = st.bitmap \cup range /\ st'.rc = code
            /\ st'.goCount = st.goCount + Lists!GoCount(e)
        BY <1>8, <3>4
      <3> QED BY <3>1, <3>3, <3>5
    <2>3. IsFiniteSet(e.lo .. e.hi) /\ Cardinality(e.lo .. e.hi) = e.hi - e.lo + 1
      <3>1. PICK lo \in Nat, hi \in Nat : lo = e.lo /\ hi = e.hi
        BY <1>4
      <3>2. lo <= hi
        BY <1>13, <3>1 DEF Fits
      <3>3. IsFiniteSet(lo .. hi) /\ Cardinality(lo .. hi) = hi - lo + 1
        BY <3>2, FS_Interval
      <3> QED BY <3>1, <3>3
    <2>4. IsFiniteSet(st'.bitmap)
      <3>1. \A S, T : IsFiniteSet(S) /\ IsFiniteSet(T) => IsFiniteSet(S \cup T)
        BY FS_Union
      <3>2. IsFiniteSet(st.bitmap) /\ IsFiniteSet(e.lo .. e.hi)
        BY <1>12, <2>3
      <3>3. IsFiniteSet(st.bitmap \cup e.lo .. e.hi)
        BY <3>1, <3>2
      <3> QED BY <2>2, <3>3
    <2> QED BY <2>2, <2>3, <2>4
  <1>14. CASE st.rc = 0 /\ Fits(e) /\ e.tail
    <2>1. st'.rc # 0
      BY <1>14, <1>13 DEF Lists!EINVAL
    <2>2. /\ ~GoodElement(world'[L + 1]) /\ L + 1 \in DOMAIN world'
          /\ \A i \in 1 .. (L + 1) - 1 : GoodElement(world'[i])
      BY <1>3, <1>12, <1>14 DEF GoodElement
    <2>3. st'.bitmap = SetBy(L + 1)'
      <3>1. st.bitmap = Before(L + 1)'
        BY <1>3, <1>5, <1>12, <1>14
      <3> QED BY <1>3, <1>13, <1>14, <3>1 DEF SetBy, Fits
    <2>4. \E g \in DOMAIN world' : StoppedAt(g)'
      BY <2>2, <2>3 DEF StoppedAt
    <2> QED BY <1>3, <1>13, <1>14, <2>1, <2>4 DEF CpuInv, CpuTypes
  <1>11. CASE st.rc = 0 /\ GoodElement(e)
    <2>1. Fits(e) /\ ~e.tail
      BY <1>11 DEF GoodElement
    <2>2. /\ st' \in [bitmap : SUBSET Nat, rc : Int, goCount : Int]
          /\ st'.bitmap = st.bitmap \cup e.lo .. e.hi /\ st'.rc = 0
          /\ st'.goCount = st.goCount + Lists!GoCount(e)
      BY <1>11, <1>13, <2>1
    <2>3. IsFiniteSet(st.bitmap) /\ IsFiniteSet(e.lo .. e.hi)
          /\ Cardinality(e.lo .. e.hi) = e.hi - e.lo + 1
      BY <1>11, <1>12, <1>13, <2>1
    <2>4. IsFiniteSet(st'.bitmap)
      BY <1>11, <1>13, <2>1
    <2>5. \A i \in DOMAIN world' : GoodElement(world'[i])
      BY <1>3, <1>11, <1>12
    <2>6. st'.bitmap = Before(L + 2)'
      BY <1>6, <1>11, <1>12, <2>2
    <2>7. ASSUME Apart'
          PROVE  st'.goCount = Cardinality(st'.bitmap)
      <3>1. Apart
        BY <1>3, <2>7 DEF Apart
      <3>2. Before(L + 1) \cap (e.lo .. e.hi) = {}
        <4>1. \A i \in 1 .. L : (world[i].lo .. world[i].hi) \cap (e.lo .. e.hi) = {}
          BY <1>3, <2>7 DEF Apart
        <4> QED BY <1>3, <4>1 DEF Before
      <3>3. Cardinality(st'.bitmap) = Cardinality(st.bitmap) + Cardinality(e.lo .. e.hi)
        <4>1. st.bitmap \cap (e.lo .. e.hi) = {}
          BY <1>11, <1>12, <3>2
        <4>2. PICK n \in Nat : n = Cardinality(st.bitmap)
          BY <2>3, FS_CardinalityType
        <4>3. PICK m \in Nat : m = Cardinality(e.lo .. e.hi)
          BY <2>3, FS_CardinalityType
        <4>4. \A S, T : IsFiniteSet(S) /\ IsFiniteSet(T) =>
                   Cardinality(S \cup T) = Cardinality(S) + Cardinality(T) - Cardinality(S \cap T)
          BY FS_Union
        <4>5. Cardinality(st.bitmap \cup (e.lo .. e.hi))
                = n + m - Cardinality(st.bitmap \cap (e.lo .. e.hi))
          BY <2>3, <4>2, <4>3, <4>4, Zenon
        <4>6. Cardinality(st.bitmap \cap (e.lo .. e.hi)) = 0
          BY <4>1, FS_EmptySet, Zenon
        <4>7. Cardinality(st'.bitmap) = n + m - 0
          BY <2>2, <4>5, <4>6, Zenon
        <4> QED BY <4>2, <4>3, <4>7
      <3>4. Lists!GoCount(e) = e.hi - e.lo + 1
        BY <1>2, <1>4, <1>11 DEF Lists!GoCount, GoodElement, Fits
      <3>5. st.goCount = Cardinality(st.bitmap)
        BY <1>11, <1>12, <3>1
      <3> QED BY <2>2, <2>3, <3>3, <3>4, <3>5
    <2>8. st'.bitmap = Before(Len(world) + 1)'
      BY <1>3, <2>6 DEF Before
    <2> QED BY <1>3, <2>2, <2>4, <2>5, <2>7, <2>8 DEF CpuInv, CpuTypes, AllGood
  <1> QED BY <1>9, <1>10, <1>11, <1>14 DEF GoodElement

\* The least of a set of integers, and the greatest.
LEMMA LeastOf ==
    ASSUME NEW S \in SUBSET Int, NEW m \in S, \A x \in S : m <= x
    PROVE  Lists!Min(S) = m
  <1>1. \A x \in S : (\A y \in S : x <= y) => x = m
    OBVIOUS
  <1> QED BY <1>1 DEF Lists!Min

LEMMA GreatestOf ==
    ASSUME NEW S \in SUBSET Int, NEW m \in S, \A x \in S : x <= m
    PROVE  Lists!Max(S) = m
  <1>1. \A x \in S : (\A y \in S : x >= y) => x = m
    OBVIOUS
  <1>2. \A x \in S : m >= x
    OBVIOUS
  <1> QED BY <1>1, <1>2 DEF Lists!Max

LEMMA SameCardinality == \A S : Lists!Cardinality(S) = Cardinality(S)
  BY DEF Cardinality, Lists!Cardinality

\* C and Go read a cpulist of any length alike: C refuses exactly what is no range,
\* too large or has text behind it, its mask holds whole ranges up to that element,
\* and Go counts what C has set where C refuses nothing (rewsr_parse_cpulist,
\* countCPUList).
THEOREM CpulistsReadAlike == FairSpec => []CpulistReadAlike
  <1> DEFINE Inv == routine = "cpulist" => CpuInv
  <1>1. Init => Inv
    <2> SUFFICES ASSUME Init, routine = "cpulist"
                 PROVE  CpuInv
      OBVIOUS
    <2>1. world = <<>> /\ st = Lists!CpulistStart
      BY AloneNotFed, ToolsNotDecoders DEF Init, Alone, Decoders, Text!Init, TextTools, Lists!Init
    <2>2. st \in [bitmap : SUBSET Nat, rc : Int, goCount : Int]
          /\ st.bitmap = {} /\ st.rc = 0 /\ st.goCount = 0
      BY <2>1 DEF Lists!CpulistStart
    <2>3. Before(Len(world) + 1) = {}
      BY <2>1 DEF Before
    <2> QED BY <2>1, <2>2, <2>3, FS_EmptySet DEF CpuInv, CpuTypes, AllGood
  <1>2. Inv /\ [Next]_vars => Inv'
    <2> SUFFICES ASSUME Inv, [Next]_vars, routine' = "cpulist"
                 PROVE  CpuInv'
      OBVIOUS
    <2>1. CASE Next
      BY <2>1, CpuStep DEF Next
    <2>2. CASE UNCHANGED vars
      <3>1. routine' = routine /\ world' = world /\ st' = st
        BY <2>2 DEF vars
      <3>2. CpuTypes' <=> CpuTypes
        BY <3>1 DEF CpuTypes
      <3>3. AllGood' <=> AllGood
        BY <3>1 DEF AllGood, Apart, Before
      <3>4. \A f : StoppedAt(f)' <=> StoppedAt(f)
        BY <3>1 DEF StoppedAt, SetBy, Before
      <3> QED BY <3>1, <3>2, <3>3, <3>4 DEF CpuInv
    <2> QED BY <2>1, <2>2
  <1>3. Inv => CpulistReadAlike
    <2> SUFFICES ASSUME CpuInv, routine = "cpulist"
                 PROVE  Lists!CpulistReadAlike
      BY DEF CpulistReadAlike, Lists!CpulistReadAlike
    <2> DEFINE bad == {i \in DOMAIN world :
                          ~Lists!Fits(world[i]) \/ world[i].tail}
    <2>1. \A i \in DOMAIN world : i \in bad <=> ~GoodElement(world[i])
      BY DEF GoodElement, Fits, Lists!Fits
    <2>2. PICK L \in Nat : L = Len(world) /\ DOMAIN world = 1 .. L
      BY DEF CpuInv, CpuTypes
    <2> HIDE DEF bad
    <2>3. bad \in SUBSET (1 .. L) /\ bad \cup {Len(world) + 1} \in SUBSET Int
      BY <2>2 DEF bad
    <2>4. ASSUME NEW n \in 1 .. L + 1, \A i \in 1 .. n - 1 : GoodElement(world[i])
          PROVE  /\ n = L + 1 => Lists!Elements(n) = Before(n)
                 /\ n <= L => Lists!Elements(n) = SetBy(n)
      <3> DEFINE chosen == {j \in DOMAIN world : j <= n /\ Lists!Fits(world[j])}
      <3>1. \A i \in 1 .. n - 1 : Lists!Fits(world[i])
        BY <2>4 DEF GoodElement, Fits, Lists!Fits
      <3>2. CASE n = L + 1
        <4>1. chosen = 1 .. n - 1
          BY <2>2, <3>1, <3>2
        <4> QED BY <3>2, <4>1 DEF Lists!Elements, Before
      <3>3. CASE n <= L /\ Lists!Fits(world[n])
        <4>1. chosen = (1 .. n - 1) \cup {n}
          BY <2>2, <3>1, <3>3
        <4> HIDE DEF chosen
        <4>2. Lists!Elements(n) = UNION {world[i].lo .. world[i].hi : i \in (1 .. n - 1) \cup {n}}
          BY <4>1 DEF Lists!Elements, chosen
        <4>3. \A c : (\E i \in (1 .. n - 1) \cup {n} : c \in world[i].lo .. world[i].hi)
                     <=> \/ \E i \in 1 .. n - 1 : c \in world[i].lo .. world[i].hi
                         \/ c \in world[n].lo .. world[n].hi
          BY Zenon
        <4>4. Lists!Elements(n) = Before(n) \cup world[n].lo .. world[n].hi
          BY <4>2, <4>3 DEF Before
        <4> QED BY <3>3, <4>4 DEF SetBy, Fits, Lists!Fits
      <3>4. CASE n <= L /\ ~Lists!Fits(world[n])
        <4>1. chosen = 1 .. n - 1
          BY <2>2, <3>1, <3>4
        <4>2. Lists!Elements(n) = Before(n)
          BY <4>1 DEF Lists!Elements, Before
        <4> QED BY <3>4, <4>2 DEF SetBy, Fits, Lists!Fits
      <3> QED BY <2>2, <3>2, <3>3, <3>4
    <2>5. CASE st.rc = 0
      <3>1. bad = {}
        BY <2>1, <2>3, <2>2, <2>5 DEF CpuInv, AllGood
      <3>2. Lists!Min(bad \cup {Len(world) + 1}) = Len(world) + 1
        BY <2>2, <2>3, <3>1, LeastOf
      <3>3. st.bitmap = Lists!Elements(L + 1)
        BY <2>2, <2>4, <2>5 DEF CpuInv, AllGood
      <3> QED
        BY <2>2, <2>5, <3>1, <3>2, <3>3, SameCardinality
        DEF CpuInv, AllGood, Apart, Lists!CpulistReadAlike, bad
    <2>6. CASE st.rc # 0
      <3>1. PICK f \in 1 .. L : StoppedAt(f)
        BY <2>2, <2>6 DEF CpuInv
      <3>2. f \in bad /\ \A i \in bad : f <= i
        BY <2>1, <2>2, <2>3, <3>1 DEF StoppedAt
      <3>3. Lists!Min(bad \cup {Len(world) + 1}) = f
        <4>1. f \in bad \cup {Len(world) + 1} /\ \A x \in bad \cup {Len(world) + 1} : f <= x
          BY <2>2, <3>1, <3>2
        <4> QED BY <2>3, <4>1, LeastOf
      <3>4. st.bitmap = Lists!Elements(f) /\ bad # {}
        BY <2>2, <2>4, <3>1, <3>2 DEF StoppedAt
      <3> QED BY <2>6, <3>3, <3>4 DEF Lists!CpulistReadAlike, bad
    <2> QED BY <2>5, <2>6
  <1> QED BY <1>1, <1>2, <1>3, PTL DEF FairSpec

-----------------------------------------------------------------------------
(* Decoders: the levels of CPUID *)

Leaves == DecoderItems("topology")

TopologyTypes ==
    /\ world \in Seq(Leaves)
    /\ st \in [ended : BOOLEAN, saw_level : BOOLEAN, smt_width : Nat, deepest_count : Nat]

\* The levels are those before position e, the first invalid leaf or the end.
LevelsEndAt(e) ==
    /\ \A i \in 1 .. e - 1 : world[i].type # Lists!INVALID
    /\ st.ended <=> e <= Len(world)
    /\ st.ended => world[e].type = Lists!INVALID
    /\ st.saw_level <=> e > 1

\* m is the last SMT level of those before e, 0 if there is none.
LastSMT(e, m) ==
    /\ st.smt_width = IF m = 0 THEN 0 ELSE world[m].nlog
    /\ m # 0 => world[m].type = Lists!SMT
    /\ \A i \in m + 1 .. e - 1 : world[i].type # Lists!SMT

\* d is a widest level of those before e, 0 if there is none.
Widest(e, d) ==
    /\ st.deepest_count = IF d = 0 THEN 0 ELSE world[d].nlog
    /\ \A i \in 1 .. e - 1 : world[i].nlog <= st.deepest_count

TopologyInv ==
    /\ TopologyTypes
    /\ \E e \in 1 .. Len(world) + 1 :
          /\ LevelsEndAt(e)
          /\ \E m \in 0 .. e - 1 : LastSMT(e, m)
          /\ \E d \in 0 .. e - 1 : Widest(e, d)

LEMMA GreaterOfTwo ==
    ASSUME NEW a \in Nat, NEW b \in Nat
    PROVE  Lists!Max({a, b}) = IF a <= b THEN b ELSE a
  BY GreatestOf

LEMMA TopologyStep ==
    ASSUME routine = "topology", TopologyInv, Next
    PROVE  TopologyInv'
  <1>1. PICK L \in Nat : L = Len(world) /\ DOMAIN world = 1 .. L
    BY DEF TopologyInv, TopologyTypes
  <1>2. PICK leaf \in Leaves : world' = Append(world, leaf) /\ st' = Lists!TopologyItem(st, leaf)
    BY FedStep DEF Decoders, Lists!Next, Lists!Take, Leaves
  <1>3. leaf \in [type : Nat, nlog : Nat]
    BY TopologyAssumption DEF Leaves
  <1>4. PICK type \in Nat, nlog \in Nat : leaf.type = type /\ leaf.nlog = nlog
    BY <1>3
  <1>5. /\ world' \in Seq(Leaves) /\ Len(world') = L + 1
        /\ \A i \in 1 .. L : world'[i] = world[i]
        /\ world'[L + 1] = leaf
    BY <1>1, <1>2 DEF TopologyInv, TopologyTypes
  <1>10. PICK e \in 1 .. L + 1 :
            /\ LevelsEndAt(e)
            /\ \E m \in 0 .. e - 1 : LastSMT(e, m)
            /\ \E d \in 0 .. e - 1 : Widest(e, d)
    BY <1>1 DEF TopologyInv
  <1>6. PICK m \in 0 .. e - 1, d \in 0 .. e - 1 : LevelsEndAt(e) /\ LastSMT(e, m) /\ Widest(e, d)
    BY <1>10
  <1>7. st \in [ended : BOOLEAN, saw_level : BOOLEAN, smt_width : Nat, deepest_count : Nat]
    BY DEF TopologyInv, TopologyTypes
  <1>8. CASE st.ended
    <2>1. st' = st
      BY <1>2, <1>8 DEF Lists!TopologyItem
    <2>2. e <= L
      BY <1>1, <1>6, <1>8 DEF LevelsEndAt
    <2>3. \A i \in 1 .. e : i \in 1 .. L /\ world'[i] = world[i]
      BY <1>5, <2>2
    <2>4. LevelsEndAt(e)'
      BY <1>1, <1>5, <1>6, <1>8, <2>1, <2>2, <2>3 DEF LevelsEndAt
    <2>5. LastSMT(e, m)'
      BY <1>6, <2>1, <2>3 DEF LastSMT
    <2>6. Widest(e, d)'
      BY <1>6, <2>1, <2>3 DEF Widest
    <2> QED BY <1>5, <1>7, <2>1, <2>2, <2>4, <2>5, <2>6 DEF TopologyInv, TopologyTypes, Leaves
  <1>9. CASE ~st.ended
    <2>1. e = L + 1
      BY <1>1, <1>6, <1>9 DEF LevelsEndAt
    <2>2. CASE type = Lists!INVALID
      <3>1. st' = [st EXCEPT !.ended = TRUE]
        BY <1>2, <1>4, <1>9, <2>2 DEF Lists!TopologyItem
      <3>2. /\ st' \in [ended : BOOLEAN, saw_level : BOOLEAN, smt_width : Nat, deepest_count : Nat]
            /\ st'.ended /\ st'.saw_level = st.saw_level /\ st'.smt_width = st.smt_width
            /\ st'.deepest_count = st.deepest_count
        BY <1>7, <3>1
      <3>3. LevelsEndAt(e)'
        BY <1>1, <1>4, <1>5, <1>6, <2>1, <2>2, <3>2 DEF LevelsEndAt
      <3>4. LastSMT(e, m)'
        BY <1>5, <1>6, <2>1, <3>2 DEF LastSMT
      <3>5. Widest(e, d)'
        BY <1>5, <1>6, <2>1, <3>2 DEF Widest
      <3>6. TopologyTypes'
        BY <1>5, <3>2 DEF TopologyTypes, Leaves
      <3>7. e \in 1 .. Len(world') + 1 /\ m \in 0 .. e - 1 /\ d \in 0 .. e - 1
        BY <1>5, <2>1
      <3> QED BY <3>3, <3>4, <3>5, <3>6, <3>7 DEF TopologyInv
    <2>3. CASE type # Lists!INVALID
      <3> DEFINE width == IF type = Lists!SMT THEN nlog ELSE st.smt_width
                 deepest == IF st.deepest_count <= nlog THEN nlog ELSE st.deepest_count
      <3>1. Lists!Max({st.deepest_count, nlog}) = deepest
        BY <1>7, GreaterOfTwo
      <3>2. st' = [st EXCEPT !.saw_level = TRUE, !.smt_width = width, !.deepest_count = deepest]
        BY <1>2, <1>4, <1>9, <2>3, <3>1 DEF Lists!TopologyItem
      <3>3. /\ st' \in [ended : BOOLEAN, saw_level : BOOLEAN, smt_width : Nat, deepest_count : Nat]
            /\ ~st'.ended /\ st'.saw_level /\ st'.smt_width = width
            /\ st'.deepest_count = deepest
        BY <1>7, <1>9, <3>2
      <3>4. LevelsEndAt(L + 2)'
        BY <1>4, <1>5, <1>6, <2>1, <2>3, <3>3 DEF LevelsEndAt
      <3>5. \E n \in 0 .. L + 1 : LastSMT(L + 2, n)'
        <4>1. CASE type = Lists!SMT
          <5>1. LastSMT(L + 2, L + 1)'
            BY <1>4, <1>5, <3>3, <4>1 DEF LastSMT
          <5> QED BY <5>1
        <4>2. CASE type # Lists!SMT
          <5>1. LastSMT(L + 2, m)'
            BY <1>4, <1>5, <1>6, <2>1, <3>3, <4>2 DEF LastSMT
          <5> QED BY <2>1, <5>1
        <4> QED BY <4>1, <4>2
      <3>6. \E n \in 0 .. L + 1 : Widest(L + 2, n)'
        <4>1. \A i \in 1 .. L + 1 : world'[i].nlog <= deepest
          <5>1. \A i \in 1 .. L : world'[i].nlog \in Nat
            BY <1>5, TopologyAssumption DEF Leaves
          <5>2. \A i \in 1 .. L : world'[i].nlog <= st.deepest_count
            BY <1>5, <1>6, <2>1 DEF Widest
          <5>3. PICK n \in Nat : n = st.deepest_count
            BY <1>7
          <5> QED BY <1>4, <1>5, <5>1, <5>2, <5>3
        <4>2. CASE st.deepest_count <= nlog
          <5>1. Widest(L + 2, L + 1)'
            BY <1>4, <1>5, <3>3, <4>1, <4>2 DEF Widest
          <5> QED BY <5>1
        <4>3. CASE ~(st.deepest_count <= nlog)
          <5>1. Widest(L + 2, d)'
            BY <1>5, <1>6, <2>1, <3>3, <4>1, <4>3 DEF Widest
          <5> QED BY <2>1, <5>1
        <4> QED BY <4>2, <4>3
      <3>7. TopologyTypes'
        BY <1>5, <3>3 DEF TopologyTypes, Leaves
      <3>8. /\ L + 2 \in 1 .. Len(world') + 1
            /\ \E n \in 0 .. (L + 2) - 1 : LastSMT(L + 2, n)'
            /\ \E n \in 0 .. (L + 2) - 1 : Widest(L + 2, n)'
        BY <1>5, <3>5, <3>6
      <3> QED BY <3>4, <3>7, <3>8 DEF TopologyInv
    <2> QED BY <2>2, <2>3
  <1> QED BY <1>8, <1>9

LEMMA ExactDivision ==
    ASSUME NEW a \in Nat, NEW b \in Nat \ {0}, a % b = 0
    PROVE  (a \div b) * b = a
  OBVIOUS

\* What the invariant says is what the property asks for.
LEMMA TopologyDecoded ==
    ASSUME routine = "topology", TopologyInv
    PROVE  Lists!TopologyMultiplies
  <1>1. PICK L \in Nat : L = Len(world) /\ DOMAIN world = 1 .. L
    BY DEF TopologyInv, TopologyTypes
  <1>2. PICK e \in 1 .. L + 1 :
           /\ LevelsEndAt(e)
           /\ \E m \in 0 .. e - 1 : LastSMT(e, m)
           /\ \E d \in 0 .. e - 1 : Widest(e, d)
    BY <1>1 DEF TopologyInv
  <1>3. PICK m \in 0 .. e - 1, d \in 0 .. e - 1 : LastSMT(e, m) /\ Widest(e, d)
    BY <1>2
  <1>4. \A i \in 1 .. L : world[i].type \in Nat /\ world[i].nlog \in Nat
    BY <1>1, TopologyAssumption DEF TopologyInv, TopologyTypes, Leaves
  <1>5. PICK width \in Nat, deepest \in Nat, saw \in BOOLEAN :
           width = st.smt_width /\ deepest = st.deepest_count /\ saw = st.saw_level
    BY DEF TopologyInv, TopologyTypes
  <1> DEFINE end == Lists!Min({i \in DOMAIN world : world[i].type = Lists!INVALID}
                               \cup {Len(world) + 1})
             levels == {i \in DOMAIN world : i < end}
             smt == {i \in levels : world[i].type = Lists!SMT}
             threads == IF width = 0 THEN 1 ELSE width
             logical == IF deepest = 0 THEN 1 ELSE deepest
  <1>6. end = e
    <2> DEFINE S == {i \in DOMAIN world : world[i].type = Lists!INVALID} \cup {Len(world) + 1}
    <2>1. S \in SUBSET Int /\ e \in S /\ \A x \in S : e <= x
      BY <1>1, <1>2 DEF LevelsEndAt
    <2> HIDE DEF S
    <2>2. Lists!Min(S) = e
      BY <2>1, LeastOf
    <2> QED BY <2>2 DEF S
  <1> HIDE DEF end
  <1>7. levels = 1 .. e - 1
    BY <1>1, <1>2, <1>6
  <1>8. Lists!Topology(st) = IF ~saw THEN Lists!NoTopology
                             ELSE [valid |-> TRUE, threads |-> threads, logical |-> logical,
                                   cores |-> logical \div threads]
    BY <1>5 DEF Lists!Topology
  <1>9. saw <=> levels # {}
    BY <1>2, <1>5, <1>7 DEF LevelsEndAt
  <1> HIDE DEF levels
  <1>10. threads = IF smt = {} \/ world[Lists!Max(smt)].nlog = 0 THEN 1
                    ELSE world[Lists!Max(smt)].nlog
    <2>1. CASE m = 0
      <3>1. smt = {} /\ width = 0
        BY <1>3, <1>5, <1>7, <2>1 DEF LastSMT
      <3> QED BY <3>1
    <2>2. CASE m # 0
      <3>1. smt \in SUBSET Int /\ m \in smt /\ \A x \in smt : x <= m
        BY <1>2, <1>3, <1>7, <2>2 DEF LastSMT
      <3> HIDE DEF smt
      <3>2. Lists!Max(smt) = m
        BY <3>1, GreatestOf
      <3> QED BY <1>3, <1>5, <2>2, <3>1, <3>2 DEF LastSMT
    <2> QED BY <2>1, <2>2
  <1>11. logical = Lists!Max({world[i].nlog : i \in levels} \cup {1})
    <2> DEFINE S == {world[i].nlog : i \in levels} \cup {1}
    <2>1. \A i \in levels : world[i].nlog \in Nat /\ world[i].nlog <= deepest
      BY <1>2, <1>3, <1>4, <1>5, <1>7 DEF Widest
    <2>2. deepest = 0 \/ deepest \in {world[i].nlog : i \in levels}
      BY <1>3, <1>5, <1>7 DEF Widest
    <2>3. S \in SUBSET Int /\ logical \in S /\ \A x \in S : x <= logical
      BY <2>1, <2>2
    <2> HIDE DEF S
    <2>4. Lists!Max(S) = logical
      BY <2>3, GreatestOf
    <2> QED BY <2>4 DEF S
  <1>12. ASSUME \A i \in levels : world[i].nlog % threads = 0, levels # {}
         PROVE  (logical \div threads) * threads = logical
    <2>1. CASE deepest = 0
      <3>1. width = 0
        BY <1>2, <1>3, <1>4, <1>5, <2>1 DEF LastSMT, Widest
      <3> QED BY <2>1, <3>1
    <2>2. CASE deepest # 0
      <3>1. d \in levels /\ world[d].nlog = deepest
        BY <1>3, <1>5, <1>7, <2>2 DEF Widest
      <3>2. deepest % threads = 0
        BY <1>12, <3>1
      <3>3. threads \in Nat \ {0}
        OBVIOUS
      <3> QED BY <2>2, <3>2, <3>3, ExactDivision
    <2> QED BY <2>1, <2>2
  <1> HIDE DEF smt, threads, logical
  <1>13. LET t == Lists!Topology(st)
         IN IF levels = {} THEN t = Lists!NoTopology
            ELSE /\ t.valid
                 /\ t.threads = IF smt = {} \/ world[Lists!Max(smt)].nlog = 0 THEN 1
                                ELSE world[Lists!Max(smt)].nlog
                 /\ t.logical = Lists!Max({world[i].nlog : i \in levels} \cup {1})
                 /\ (\A i \in levels : world[i].nlog % t.threads = 0) =>
                        t.cores * t.threads = t.logical
    <2>1. CASE levels = {}
      BY <1>8, <1>9, <2>1
    <2>2. CASE levels # {}
      BY <1>8, <1>9, <1>10, <1>11, <1>12, <2>2
    <2> QED BY <2>1, <2>2
  <1> QED BY <1>13, Zenon DEF Lists!TopologyMultiplies, smt, levels, end

\* The topology decoded of any list of leaves is that of the levels before the
\* first invalid one, none where there is none, and its counts multiply where the
\* leaves' own do
\* (rewsr_cpuid_topology_decode).
THEOREM TopologiesMultiply == FairSpec => []TopologyMultiplies
  <1> DEFINE Inv == routine = "topology" => TopologyInv
  <1>1. Init => Inv
    <2> SUFFICES ASSUME Init, routine = "topology"
                 PROVE  TopologyInv
      OBVIOUS
    <2>1. world = <<>> /\ st = Lists!TopologyStart
      BY AloneNotFed, ToolsNotDecoders DEF Init, Alone, Decoders, Text!Init, TextTools, Lists!Init
    <2>2. /\ TopologyTypes /\ Len(world) = 0
          /\ ~st.ended /\ ~st.saw_level /\ st.smt_width = 0 /\ st.deepest_count = 0
      BY <2>1 DEF Lists!TopologyStart, TopologyTypes
    <2>3. LevelsEndAt(1) /\ LastSMT(1, 0) /\ Widest(1, 0)
      BY <2>2 DEF LevelsEndAt, LastSMT, Widest
    <2> QED BY <2>2, <2>3 DEF TopologyInv
  <1>2. Inv /\ [Next]_vars => Inv'
    <2> SUFFICES ASSUME Inv, [Next]_vars, routine' = "topology"
                 PROVE  TopologyInv'
      OBVIOUS
    <2>1. CASE Next
      BY <2>1, TopologyStep DEF Next
    <2>2. CASE UNCHANGED vars
      BY <2>2 DEF vars, TopologyInv, TopologyTypes, LevelsEndAt, LastSMT, Widest
    <2> QED BY <2>1, <2>2
  <1>3. Inv => TopologyMultiplies
    BY TopologyDecoded DEF TopologyMultiplies, Lists!TopologyMultiplies
  <1> QED BY <1>1, <1>2, <1>3, PTL DEF FairSpec

-----------------------------------------------------------------------------
(* DmiWalk *)

\* A structure as the assumption has it.
Laid(s) ==
    /\ s.type \in Nat /\ s.flen \in Nat /\ (s.type # 0 \/ s.flen # 0)
    /\ s.fields \in Seq(Nat) /\ (s.flen >= 4 => s.flen = 4 + Len(s.fields))
    /\ s.strings \in Seq(Nat \ {0})

\* Where the first of the two NULs stands in a string set.
Closing(s) == IF Len(s.strings) = 0 THEN 1 ELSE 2 * Len(s.strings)

\* The NULs of a string set: behind each string, and one more.
LEMMA StringSetIs ==
    ASSUME NEW s, Laid(s), NEW set, set = Dmi!StringSet(s), NEW c, c = Closing(s)
    PROVE  /\ set \in Seq(Nat) /\ Len(set) = c + 1 /\ c \in Nat \ {0}
           /\ set[c] = 0 /\ set[c + 1] = 0
           /\ \A k \in 1 .. c - 1 : set[k] # 0 \/ set[k + 1] # 0
  <1>1. PICK n : n = Len(s.strings)
    OBVIOUS
  <1>2. PICK strings : strings = s.strings
    OBVIOUS
  <1>3. n \in Nat /\ \A k \in 1 .. n : strings[k] \in Nat \ {0}
    BY <1>1, <1>2 DEF Laid
  <1>4. PICK size : size = IF n = 0 THEN 2 ELSE 2 * n + 1
    OBVIOUS
  <1>5. set = [k \in 1 .. size |-> IF k % 2 = 1 /\ k < 2 * n THEN strings[(k + 1) \div 2] ELSE 0]
    BY <1>1, <1>2, <1>4 DEF Dmi!StringSet
  <1>6. size \in Nat /\ size = c + 1 /\ c \in Nat \ {0} /\ 2 * n <= c
    BY <1>1, <1>3, <1>4 DEF Closing
  <1>7. \A k \in 1 .. size : k % 2 = 1 /\ k < 2 * n => (k + 1) \div 2 \in 1 .. n
    BY <1>3, <1>6
  <1>8. \A k \in 1 .. size : set[k] = IF k % 2 = 1 /\ k < 2 * n THEN strings[(k + 1) \div 2] ELSE 0
    BY <1>5
  <1>9. \A k \in 1 .. size : /\ set[k] \in Nat
                             /\ k % 2 = 1 /\ k < 2 * n => set[k] # 0
                             /\ ~(k % 2 = 1 /\ k < 2 * n) => set[k] = 0
    BY <1>3, <1>7, <1>8
  <1>10. set \in Seq(Nat) /\ Len(set) = size
    BY <1>5, <1>6, <1>9
  <1>11. set[c] = 0 /\ set[c + 1] = 0
    <2>1. ~(c < 2 * n) /\ ~(c + 1 < 2 * n) /\ c \in 1 .. size /\ c + 1 \in 1 .. size
      BY <1>3, <1>6
    <2> QED BY <1>9, <2>1
  <1>12. ASSUME NEW k \in 1 .. c - 1
         PROVE  set[k] # 0 \/ set[k + 1] # 0
    <2>1. n > 0 /\ c = 2 * n
      BY <1>1, <1>3 DEF Closing
    <2>2. k \in 1 .. size /\ k + 1 \in 1 .. size
      BY <1>6
    <2>3. k % 2 = 1 \/ (k + 1) % 2 = 1
      BY <2>2, <1>6
    <2>4. k % 2 # 1 => k + 1 < 2 * n
      BY <2>1, <1>3
    <2> QED BY <1>9, <2>1, <2>2, <2>3, <2>4
  <1> QED BY <1>6, <1>10, <1>11, <1>12

\* The cells of a structure.
LEMMA LayoutIs ==
    ASSUME NEW s, Laid(s), NEW laid, laid = Dmi!Layout(s), NEW set, set = Dmi!StringSet(s)
    PROVE  /\ laid \in Seq(Nat) /\ Len(laid) = 4 + Len(s.fields) + Len(set)
           /\ laid[1] = s.type /\ laid[2] = s.flen
           /\ s.flen >= 4 => \A k \in 1 .. Len(set) : laid[s.flen + k] = set[k]
  <1>1. PICK head : head = <<s.type, s.flen, 0, 0>>
    OBVIOUS
  <1>2. PICK fields : fields = s.fields
    OBVIOUS
  <1>3. head \in Seq(Nat) /\ Len(head) = 4 /\ head[1] = s.type /\ head[2] = s.flen
    BY <1>1 DEF Laid
  <1>4. fields \in Seq(Nat) /\ set \in Seq(Nat)
    BY <1>2, StringSetIs DEF Laid
  <1>5. laid = (head \o fields) \o set
    BY <1>1, <1>2 DEF Dmi!Layout
  <1>6. PICK front : front = head \o fields
    OBVIOUS
  <1>7. /\ front \in Seq(Nat) /\ Len(front) = 4 + Len(fields)
        /\ front[1] = s.type /\ front[2] = s.flen
    <2>1. front \in Seq(Nat) /\ Len(front) = Len(head) + Len(fields)
      BY <1>3, <1>4, <1>6, ConcatProperties
    <2>2. \A k \in 1 .. Len(head) + Len(fields) :
              front[k] = IF k <= Len(head) THEN head[k] ELSE fields[k - Len(head)]
      BY <1>3, <1>4, <1>6, ConcatProperties
    <2>3. Len(fields) \in Nat
      BY <1>4
    <2> QED BY <1>3, <2>1, <2>2, <2>3
  <1>8. /\ laid \in Seq(Nat) /\ Len(laid) = Len(front) + Len(set)
        /\ laid[1] = front[1] /\ laid[2] = front[2]
        /\ \A k \in 1 .. Len(set) : laid[Len(front) + k] = set[k]
    <2>0. front \in Seq(Nat) /\ set \in Seq(Nat) /\ laid = front \o set
      BY <1>4, <1>5, <1>6, <1>7
    <2>1. laid \in Seq(Nat) /\ Len(laid) = Len(front) + Len(set)
      BY <2>0, ConcatProperties
    <2>2. \A k \in 1 .. Len(front) + Len(set) :
              laid[k] = IF k <= Len(front) THEN front[k] ELSE set[k - Len(front)]
      BY <2>0, ConcatProperties
    <2>3. Len(front) \in Nat /\ Len(set) \in Nat /\ Len(front) >= 4
      BY <1>4, <1>7
    <2>4. laid[1] = front[1] /\ laid[2] = front[2]
      BY <2>2, <2>3
    <2>5. ASSUME NEW k \in 1 .. Len(set)
          PROVE  laid[Len(front) + k] = set[k]
      <3>1. PICK f \in Nat : f = Len(front)
        BY <2>3
      <3>2. f + k \in 1 .. f + Len(set) /\ ~(f + k <= f) /\ (f + k) - f = k
        BY <2>3
      <3> QED BY <2>2, <3>1, <3>2
    <2> QED BY <2>1, <2>4, <2>5
  <1>9. s.flen >= 4 => Len(front) = s.flen
    BY <1>2, <1>7 DEF Laid
  <1>10. s.flen >= 4 => \A k \in 1 .. Len(set) : laid[s.flen + k] = set[k]
    BY <1>8, <1>9
  <1>11. Len(laid) = 4 + Len(s.fields) + Len(set) /\ laid[1] = s.type /\ laid[2] = s.flen
    BY <1>2, <1>7, <1>8
  <1> QED BY <1>8, <1>10, <1>11

\* How many cells a structure takes.
LEMMA LayoutSize ==
    \A s : Laid(s) => /\ Len(Dmi!Layout(s)) = 4 + Len(s.fields) + (Closing(s) + 1)
                      /\ Closing(s) \in Nat /\ Closing(s) > 0
  <1> SUFFICES ASSUME NEW s, Laid(s)
               PROVE  /\ Len(Dmi!Layout(s)) = 4 + Len(s.fields) + (Closing(s) + 1)
                      /\ Closing(s) \in Nat /\ Closing(s) > 0
    OBVIOUS
  <1>1. PICK c : c = Closing(s)
    OBVIOUS
  <1>2. PICK laid : laid = Dmi!Layout(s)
    OBVIOUS
  <1>3. PICK set : set = Dmi!StringSet(s)
    OBVIOUS
  <1>4. Len(set) = c + 1 /\ c \in Nat \ {0}
    BY <1>1, <1>3, StringSetIs
  <1>5. Len(laid) = 4 + Len(s.fields) + Len(set)
    BY <1>2, <1>3, LayoutIs
  <1>6. c \in Nat /\ c > 0
    BY <1>4
  <1> QED BY <1>1, <1>2, <1>4, <1>5, <1>6


\* Where a structure starts: behind the cells of those before it.
LengthsBefore(ss, i) == [j \in 1 .. i - 1 |-> Len(Dmi!Layout(ss[j]))]

LEMMA OffsetIsSum ==
    ASSUME NEW ss, NEW i, NEW T, T = 1 .. i - 1
    PROVE  Dmi!OffsetIn(ss, i) = SumOf(LengthsBefore(ss, i), T)
  <1> DEFINE w == [j \in T |-> Len(Dmi!Layout(ss[j]))]
             Cells(j) == Len(Dmi!Layout(ss[j]))
             Next1(g, s) == IF s = {} THEN 0 ELSE Cells(Some(s)) + g[s \ {Some(s)}]
             Next2(g, s) == IF s = {} THEN 0 ELSE w[Some(s)] + g[s \ {Some(s)}]
  <1>0. Dmi!OffsetIn(ss, i) = Dmi!MapThenSumSet(Cells, T)
    BY DEF Dmi!OffsetIn
  <1>1. Dmi!MapThenSumSet(Cells, T)
          = (CHOOSE g : g = [s \in SUBSET T |-> Next1(g, s)])[T]
    BY Zenon DEF Dmi!MapThenSumSet, Dmi!MapThenFoldSet, Some
  <1>2. \A s \in SUBSET T : s # {} => w[Some(s)] = Cells(Some(s))
    BY SomeIn
  <1> HIDE DEF Cells
  <1>3. \A g : \A s \in SUBSET T : Next1(g, s) = Next2(g, s)
    BY <1>2
  <1>4. \A g : [s \in SUBSET T |-> Next1(g, s)] = [s \in SUBSET T |-> Next2(g, s)]
    BY <1>3
  <1>5. (CHOOSE g : g = [s \in SUBSET T |-> Next1(g, s)])
          = (CHOOSE g : g = [s \in SUBSET T |-> Next2(g, s)])
    BY <1>4
  <1>6. Sums(w, T) = CHOOSE g : g = [s \in SUBSET T |-> Next2(g, s)]
    BY Zenon DEF Sums, SumsUp
  <1>7. LengthsBefore(ss, i) = w
    BY DEF LengthsBefore
  <1> QED BY <1>0, <1>1, <1>5, <1>6, <1>7 DEF SumOf

\* The structures of a table as the assumption has them.
LaidTable(ss) ==
    /\ Len(ss) \in Nat /\ DOMAIN ss = 1 .. Len(ss)
    /\ \A i \in 1 .. Len(ss) : Laid(ss[i])

LEMMA LayoutLength ==
    ASSUME NEW ss, LaidTable(ss), NEW i \in 1 .. Len(ss)
    PROVE  Len(Dmi!Layout(ss[i])) \in Nat
  <1>1. PICK s : s = ss[i] /\ Laid(s)
    BY DEF LaidTable
  <1>2. PICK laid : laid = Dmi!Layout(s)
    OBVIOUS
  <1>3. laid \in Seq(Nat)
    BY <1>1, <1>2, LayoutIs
  <1> QED BY <1>1, <1>2, <1>3

\* One structure starts where the one before it ends, and the first at 0.
LEMMA OffsetGrows ==
    ASSUME NEW ss, LaidTable(ss), NEW i \in 1 .. Len(ss)
    PROVE  /\ Dmi!OffsetIn(ss, i) \in Nat
           /\ Dmi!OffsetIn(ss, i + 1) = Dmi!OffsetIn(ss, i) + Len(Dmi!Layout(ss[i]))
  <1>1. PICK n \in Nat : n = i - 1 /\ i = n + 1
    BY DEF LaidTable
  <1>2. PICK w : w = LengthsBefore(ss, i + 1)
    OBVIOUS
  <1>3. PICK v : v = LengthsBefore(ss, i)
    OBVIOUS
  <1>4. \A j \in 1 .. Len(ss) : Len(Dmi!Layout(ss[j])) \in Nat
    BY LayoutLength
  <1>5. \A j \in 1 .. n + 1 : w[j] = Len(Dmi!Layout(ss[j])) /\ w[j] \in Nat
    BY <1>1, <1>2, <1>4 DEF LengthsBefore, LaidTable
  <1>6. \A j \in 1 .. n : v[j] = Len(Dmi!Layout(ss[j])) /\ v[j] = w[j] /\ v[j] \in Nat
    BY <1>1, <1>3, <1>5 DEF LengthsBefore
  <1>7. Weights(w, 1 .. n + 1) /\ Weights(v, 1 .. n) /\ Agree(w, v, 1 .. n)
    BY <1>5, <1>6 DEF Weights, Agree
  <1>8. Sums(w, 1 .. n + 1)[1 .. n + 1] = w[n + 1] + Sums(v, 1 .. n)[1 .. n]
    BY <1>7, SumOfLonger
  <1>9. SumOf(v, 1 .. n) \in Nat
    BY <1>7, FS_Interval, SumType
  <1>10. Dmi!OffsetIn(ss, i + 1) = SumOf(w, 1 .. n + 1)
    BY <1>1, <1>2, OffsetIsSum
  <1>11. Dmi!OffsetIn(ss, i) = SumOf(v, 1 .. n)
    BY <1>1, <1>3, OffsetIsSum
  <1>12. w[n + 1] \in Nat /\ w[n + 1] = Len(Dmi!Layout(ss[i]))
    BY <1>1, <1>5
  <1> QED BY <1>8, <1>9, <1>10, <1>11, <1>12 DEF SumOf

LEMMA FirstOffset == \A ss : Dmi!OffsetIn(ss, 1) = 0
  <1> TAKE ss
  <1>1. 1 .. 1 - 1 = {}
    OBVIOUS
  <1> QED BY <1>1, OffsetIsSum, SumOfNone

\* The assumption on the tables, in these words.
LEMMA TableIs ==
    ASSUME NEW t, t \in DmiTables
    PROVE  LaidTable(t.structs) /\ t.cells \in Seq(Nat) /\ Dmi!LaidOut(t.structs, t.cells)
  BY DmiAssumption DEF LaidTable, Laid

\* Where structure i stands, and behind it the next.
LEMMA PlaceOfStructure ==
    ASSUME world \in DmiTables, NEW i \in 1 .. Len(Dmi!structs),
           NEW s, s = Dmi!structs[i], NEW f, f = s.flen, NEW c, c = Closing(s),
           NEW off, off = Dmi!Offset(i), NEW next, next = Dmi!Offset(i + 1),
           NEW len, len = Dmi!len
    PROVE  /\ Laid(s) /\ off \in Nat /\ f \in Nat /\ c \in Nat /\ c > 0
           /\ next \in Nat /\ len \in Nat
           /\ off + 4 + c + 1 <= next
           /\ f >= 4 => next = off + f + c + 1
  <1>1. PICK ss : ss = Dmi!structs
    OBVIOUS
  <1>2. LaidTable(ss) /\ world.cells \in Seq(Nat)
    BY <1>1, TableIs DEF Dmi!structs
  <1>3. Laid(s)
    BY <1>1, <1>2 DEF LaidTable
  <1>4. PICK laid : laid = Dmi!Layout(s)
    OBVIOUS
  <1>7. Len(laid) = 4 + Len(s.fields) + (c + 1) /\ c \in Nat /\ c > 0
    BY <1>3, <1>4, LayoutSize
  <1>8. PICK m : m = Len(s.fields)
    OBVIOUS
  <1>9. m \in Nat /\ f \in Nat /\ (f >= 4 => f = 4 + m)
    BY <1>3, <1>8 DEF Laid
  <1>10. off \in Nat /\ next = off + Len(laid)
    BY <1>1, <1>2, <1>4, OffsetGrows DEF Dmi!Offset
  <1>11. next = off + (4 + m + (c + 1))
    BY <1>7, <1>8, <1>10
  <1>12. len \in Nat
    BY <1>2 DEF Dmi!len
  <1>13. c \in Nat /\ c > 0
    BY <1>7
  <1>14. off \in Nat
    BY <1>10
  <1>15. f \in Nat /\ next \in Nat /\ off + 4 + c + 1 <= next
    <2>1. m \in Nat /\ f \in Nat
      BY <1>9
    <2>2. /\ off + (4 + m + (c + 1)) \in Nat
          /\ off + 4 + c + 1 <= off + (4 + m + (c + 1))
      BY <1>13, <1>14, <2>1
    <2> QED BY <1>11, <2>1, <2>2
  <1>16. ASSUME f >= 4 PROVE next = off + f + c + 1
    <2>1. f = 4 + m
      BY <1>9, <1>16
    <2>2. m \in Nat
      BY <1>9
    <2> QED BY <1>11, <1>13, <1>14, <2>1, <2>2
  <1> QED BY <1>3, <1>12, <1>13, <1>14, <1>15, <1>16

\* What the walk finds in the cells of structure i, unless they are cut off.
LEMMA CellsOfStructure ==
    ASSUME world \in DmiTables, NEW i \in 1 .. Len(Dmi!structs),
           NEW s, s = Dmi!structs[i], NEW k
    PROVE  /\ k \in 1 .. Len(Dmi!Layout(s)) /\ Dmi!Offset(i) + k <= Dmi!len
                 => Dmi!Cell(Dmi!Offset(i) + k - 1) = Dmi!Layout(s)[k]
           /\ Dmi!Layout(s) \in Seq(Nat)
           /\ Len(Dmi!Layout(s)) = Dmi!Offset(i + 1) - Dmi!Offset(i)
  <1>1. PICK ss : ss = Dmi!structs
    OBVIOUS
  <1>2. PICK cells : cells = world.cells
    OBVIOUS
  <1>3. LaidTable(ss) /\ cells \in Seq(Nat) /\ Dmi!LaidOut(ss, cells)
    BY <1>1, <1>2, TableIs DEF Dmi!structs
  <1>4. PICK laid : laid = Dmi!Layout(s)
    OBVIOUS
  <1>5. laid \in Seq(Nat)
    BY <1>1, <1>3, <1>4, LayoutIs DEF LaidTable
  <1>6. PICK off : off = Dmi!Offset(i)
    OBVIOUS
  <1>7. off \in Nat /\ Dmi!Offset(i + 1) = off + Len(laid) /\ Len(laid) \in Nat
    BY <1>1, <1>3, <1>4, <1>5, <1>6, OffsetGrows DEF Dmi!Offset
  <1>8. ASSUME k \in 1 .. Len(laid), off + k <= Len(cells)
        PROVE  cells[off + k] = laid[k]
    <2>1. i \in DOMAIN ss /\ k \in DOMAIN laid
      BY <1>1, <1>3, <1>5, <1>8 DEF LaidTable
    <2>2. off = Dmi!OffsetIn(ss, i)
      BY <1>1, <1>6 DEF Dmi!Offset
    <2> QED BY <1>1, <1>3, <1>4, <1>8, <2>1, <2>2 DEF Dmi!LaidOut
  <1>9. Dmi!Cell(off + k - 1) = cells[(off + k - 1) + 1]
    BY <1>2 DEF Dmi!Cell
  <1>10. k \in 1 .. Len(laid) => (off + k - 1) + 1 = off + k
    BY <1>7
  <1>11. Dmi!len = Len(cells)
    BY <1>2 DEF Dmi!len
  <1>12. k \in 1 .. Len(laid) /\ off + k <= Dmi!len => Dmi!Cell(off + k - 1) = laid[k]
    BY <1>8, <1>9, <1>10, <1>11
  <1>13. Len(laid) = Dmi!Offset(i + 1) - off
    BY <1>7
  <1> QED BY <1>4, <1>5, <1>6, <1>12, <1>13

\* The first two are its type and its length.
LEMMA HeaderOfStructure ==
    ASSUME world \in DmiTables, NEW i \in 1 .. Len(Dmi!structs),
           NEW s, s = Dmi!structs[i], NEW off, off = Dmi!Offset(i), off + 2 <= Dmi!len
    PROVE  Dmi!Cell(off) = s.type /\ Dmi!Cell(off + 1) = s.flen
  <1>1. PICK laid : laid = Dmi!Layout(s)
    OBVIOUS
  <1>2. PICK size : size = Len(laid)
    OBVIOUS
  <1>3. PICK next : next = Dmi!Offset(i + 1)
    OBVIOUS
  <1>4. PICK len : len = Dmi!len
    OBVIOUS
  <1>5. PICK c : c = Closing(s)
    OBVIOUS
  <1>6. /\ Laid(s) /\ off \in Nat /\ next \in Nat /\ c \in Nat /\ c > 0 /\ len \in Nat
        /\ off + 4 + c + 1 <= next
    BY <1>3, <1>4, <1>5, PlaceOfStructure
  <1>7. laid[1] = s.type /\ laid[2] = s.flen
    BY <1>1, <1>6, LayoutIs
  <1>8. size = next - off
    BY <1>1, <1>2, <1>3, CellsOfStructure
  <1>9. 1 \in 1 .. size /\ 2 \in 1 .. size /\ off + 1 <= len /\ off + 2 <= len
    <2>0. off \in Nat /\ next \in Nat /\ off + 4 <= next
      BY <1>6
    <2>1. size \in Nat /\ 2 <= size
      BY <1>8, <2>0
    <2>2. off + 2 <= len /\ off + 1 <= len
      BY <1>4, <1>6
    <2> QED BY <2>1, <2>2
  <1>10. Dmi!Cell(off + 1 - 1) = laid[1]
    BY <1>1, <1>2, <1>4, <1>9, CellsOfStructure
  <1>11. Dmi!Cell(off + 2 - 1) = laid[2]
    BY <1>1, <1>2, <1>4, <1>9, CellsOfStructure
  <1>12. off + 1 - 1 = off /\ off + 2 - 1 = off + 1
    BY <1>6
  <1> QED BY <1>7, <1>10, <1>11, <1>12

\* Behind the formatted area stands the string set.
LEMMA StringsOfStructure ==
    ASSUME world \in DmiTables, NEW i \in 1 .. Len(Dmi!structs),
           NEW s, s = Dmi!structs[i], s.flen >= 4, NEW c, c = Closing(s),
           NEW soff, soff = Dmi!Offset(i) + s.flen
    PROVE  \A k \in 1 .. c + 1 :
              soff + k <= Dmi!len => Dmi!Cell(soff + k - 1) = Dmi!StringSet(s)[k]
  <1> SUFFICES ASSUME NEW k \in 1 .. c + 1, soff + k <= Dmi!len
               PROVE  Dmi!Cell(soff + k - 1) = Dmi!StringSet(s)[k]
    OBVIOUS
  <1>1. PICK laid : laid = Dmi!Layout(s)
    OBVIOUS
  <1>2. PICK size : size = Len(laid)
    OBVIOUS
  <1>3. PICK next : next = Dmi!Offset(i + 1)
    OBVIOUS
  <1>4. PICK len : len = Dmi!len
    OBVIOUS
  <1>5. PICK f : f = s.flen
    OBVIOUS
  <1>6. PICK off : off = Dmi!Offset(i)
    OBVIOUS
  <1>7. PICK set : set = Dmi!StringSet(s)
    OBVIOUS
  <1>8. /\ Laid(s) /\ off \in Nat /\ next \in Nat /\ c \in Nat /\ c > 0 /\ len \in Nat
        /\ f \in Nat /\ (f >= 4 => next = off + f + c + 1)
    BY <1>3, <1>4, <1>5, <1>6, PlaceOfStructure
  <1>9. f >= 4
    BY <1>5
  <1>10. next = off + f + c + 1
    BY <1>8, <1>9
  <1>11. size = next - off
    BY <1>1, <1>2, <1>3, <1>6, CellsOfStructure
  <1>12. soff = off + f
    BY <1>5, <1>6
  <1>13. PICK q : q = f + k
    OBVIOUS
  <1>14. q \in 1 .. size /\ off + q <= len
    <2>1. f \in Nat /\ c \in Nat /\ off \in Nat /\ len \in Nat
      BY <1>8
    <2>2. size = f + c + 1
      BY <1>10, <1>11, <2>1
    <2>3. k \in Nat /\ 1 <= k /\ k <= c + 1 /\ off + f + k <= len
      BY <1>4, <1>12, <2>1
    <2> QED BY <1>13, <2>1, <2>2, <2>3
  <1>15. Dmi!Cell(off + q - 1) = laid[q]
    BY <1>1, <1>2, <1>4, <1>6, <1>14, CellsOfStructure
  <1>16. off + q - 1 = soff + k - 1
    BY <1>8, <1>12, <1>13
  <1>17. \A n \in 1 .. Len(set) : laid[f + n] = set[n]
    <2>1. Laid(s) /\ s.flen >= 4
      BY <1>8
    <2>2. \A n \in 1 .. Len(set) : laid[s.flen + n] = set[n]
      BY <1>1, <1>7, <2>1, LayoutIs
    <2> QED BY <1>5, <2>2
  <1>18. Len(set) = c + 1
    BY <1>7, <1>8, StringSetIs
  <1>19. laid[q] = set[k]
    BY <1>13, <1>17, <1>18
  <1> QED BY <1>7, <1>15, <1>16, <1>19

\* A set whose first two NULs stand at c; the cells behind soff, as far as there are
\* any, are those of such a set; the ends rewsr_dmi_next looks for; the right ones.
ClosedAt(set, c) ==
    /\ set[c] = 0 /\ set[c + 1] = 0
    /\ \A k \in 1 .. c - 1 : set[k] # 0 \/ set[k + 1] # 0

FilledWith(at, soff, c, set, len) ==
    \A k \in 1 .. c + 1 : soff + k <= len => at[soff + k - 1] = set[k]

EndsIn(ends, at, soff, len) ==
    \A p : p \in ends <=> /\ p \in soff .. len - 1
                          /\ at[p] = 0
                          /\ (p + 1 = len \/ at[p + 1] = 0)

EndsRight(ends, at, soff, c, len) ==
    /\ soff + c + 1 <= len => /\ soff + c - 1 \in ends
                             /\ \A p \in ends : soff + c - 1 <= p
    /\ ~(soff + c + 1 <= len) => ends = IF soff < len /\ at[len - 1] = 0
                                        THEN {len - 1} ELSE {}

\* A string set is one that closes so.
LEMMA StringSetCloses == \A s : Laid(s) => ClosedAt(Dmi!StringSet(s), Closing(s))
  BY StringSetIs DEF ClosedAt

\* Where a string set that fills the cells from soff on ends: at the first of its
\* two NULs, or where the table is cut behind a NUL. The cells are those of at.
LEMMA EndsOfSet ==
    ASSUME NEW soff \in Nat, NEW c \in Nat, c > 0, NEW len \in Nat,
           NEW set, NEW at, NEW ends,
           ClosedAt(set, c), FilledWith(at, soff, c, set, len), EndsIn(ends, at, soff, len)
    PROVE  EndsRight(ends, at, soff, c, len)
  <1> USE DEF ClosedAt, FilledWith, EndsIn
  <1>0. PICK next \in Nat : next = soff + c + 1
    OBVIOUS
  <1>1. ASSUME NEW p \in Nat, soff <= p, p < len, p < next
        PROVE  at[p] = set[p - soff + 1]
    <2>1. PICK k : k = p - soff + 1
      OBVIOUS
    <2>2. k \in 1 .. c + 1 /\ soff + k <= len /\ soff + k - 1 = p
      BY <1>0, <1>1, <2>1
    <2>3. at[soff + k - 1] = set[k]
      BY <2>2
    <2> QED BY <2>1, <2>2, <2>3
  \* No two NULs stand together before the closing ones.
  <1>2. ASSUME NEW p \in ends, p + 1 < len, p + 1 < next
        PROVE  soff + c - 1 <= p
    <2>1. p \in Nat /\ soff <= p /\ p < len /\ p < next
      BY <1>0, <1>2
    <2>2. p + 1 \in Nat /\ soff <= p + 1 /\ p + 1 # len
      BY <1>2, <2>1
    <2>3. at[p] = 0 /\ at[p + 1] = 0
      BY <2>2
    <2>4. set[p - soff + 1] = 0
      BY <1>1, <2>1, <2>3
    <2>5. set[(p + 1) - soff + 1] = 0
      BY <1>1, <1>2, <2>2, <2>3
    <2>6. PICK k : k = p - soff + 1
      OBVIOUS
    <2>7. (p + 1) - soff + 1 = k + 1 /\ k \in Nat /\ k >= 1
      BY <2>1, <2>6
    <2>8. k \notin 1 .. c - 1
      BY <2>4, <2>5, <2>6, <2>7
    <2> QED BY <2>1, <2>6, <2>7, <2>8
  <1>3. ASSUME next <= len
        PROVE  soff + c - 1 \in ends /\ \A p \in ends : soff + c - 1 <= p
    <2>1. PICK z : z = soff + c - 1
      OBVIOUS
    <2>2. /\ z \in Nat /\ soff <= z /\ z + 1 < len /\ z + 1 < next /\ z < len /\ z < next
          /\ z + 1 \in Nat /\ soff <= z + 1 /\ z \in soff .. len - 1
          /\ z - soff + 1 = c /\ (z + 1) - soff + 1 = c + 1
      BY <1>0, <1>3, <2>1
    <2>3. at[z] = 0
      BY <1>1, <2>2
    <2>4. at[z + 1] = 0
      BY <1>1, <2>2
    <2>5. z \in ends
      BY <2>2, <2>3, <2>4
    <2>6. ASSUME NEW p \in ends
          PROVE  z <= p
      <3>1. p \in soff .. len - 1
        OBVIOUS
      <3>2. CASE p + 1 < len /\ p + 1 < next
        BY <1>2, <2>1, <3>2
      <3>3. CASE ~(p + 1 < len /\ p + 1 < next)
        BY <1>0, <1>3, <2>1, <3>1, <3>3
      <3> QED BY <3>2, <3>3
    <2> QED BY <2>1, <2>5, <2>6
  <1>4. ASSUME ~(next <= len)
        PROVE  ends = IF soff < len /\ at[len - 1] = 0 THEN {len - 1} ELSE {}
    <2>1. ASSUME NEW p \in ends
          PROVE  p = len - 1
      <3>1. p \in soff .. len - 1
        OBVIOUS
      <3>2. ASSUME p # len - 1 PROVE FALSE
        <4>1. p + 1 < len /\ p + 1 < next
          BY <1>0, <1>4, <3>1, <3>2
        <4>2. soff + c - 1 <= p
          BY <1>2, <4>1
        <4> QED BY <1>0, <1>4, <3>1, <4>1, <4>2
      <3> QED BY <3>2
    <2>2. PICK q : q = len - 1
      OBVIOUS
    <2>3. (q \in soff .. len - 1 <=> soff < len) /\ q + 1 = len
      BY <2>2
    <2>4. q \in ends <=> soff < len /\ at[q] = 0
      BY <2>3
    <2> QED BY <2>1, <2>2, <2>4
  <1> QED BY <1>0, <1>3, <1>4 DEF EndsRight

\* The same of the table's own cells: where the string set of a structure ends.
SetEndsAt(ends, soff, c, next, len) ==
    /\ next <= len => /\ soff + c - 1 \in ends
                      /\ \A p \in ends : soff + c - 1 <= p
    /\ ~(next <= len) => ends = IF soff < len /\ Dmi!Cell(len - 1) = 0
                                THEN {len - 1} ELSE {}

LEMMA SetEndsOfStructure ==
    ASSUME world \in DmiTables, NEW i \in 1 .. Len(Dmi!structs),
           NEW s, s = Dmi!structs[i], s.flen >= 4, NEW c, c = Closing(s),
           NEW soff, soff = Dmi!Offset(i) + s.flen, NEW len, len = Dmi!len,
           NEW next, next = Dmi!Offset(i + 1), NEW ends, ends = Dmi!SetEnds(soff)
    PROVE  SetEndsAt(ends, soff, c, next, len)
  <1>1. PICK set : set = Dmi!StringSet(s)
    OBVIOUS
  <1>2. PICK off : off = Dmi!Offset(i)
    OBVIOUS
  <1>3. PICK f : f = s.flen
    OBVIOUS
  <1>4. /\ Laid(s) /\ off \in Nat /\ f \in Nat /\ c \in Nat /\ c > 0 /\ next \in Nat
        /\ len \in Nat /\ (f >= 4 => next = off + f + c + 1)
    BY <1>2, <1>3, PlaceOfStructure
  <1>5. f >= 4 /\ soff = off + f
    BY <1>2, <1>3
  <1>6. soff \in Nat /\ c \in Nat /\ c > 0 /\ len \in Nat /\ next \in Nat
    <2>1. off \in Nat /\ f \in Nat
      BY <1>4
    <2> QED BY <1>4, <1>5, <2>1
  <1>7. next = soff + c + 1
    BY <1>4, <1>5
  <1>8. ClosedAt(set, c)
    BY <1>1, <1>4, StringSetCloses
  <1>9. PICK at : at = [p \in Nat |-> Dmi!Cell(p)]
    OBVIOUS
  <1>10. \A p \in Nat : at[p] = Dmi!Cell(p)
    BY <1>9
  <1>11. ASSUME NEW k \in 1 .. c + 1, soff + k <= len
         PROVE  at[soff + k - 1] = set[k]
    <2>0. k \in 1 .. c + 1 /\ soff + k <= Dmi!len
      BY <1>11
    <2>1. Dmi!Cell(soff + k - 1) = Dmi!StringSet(s)[k]
      BY <2>0, StringsOfStructure
    <2>2. soff + k - 1 \in Nat
      BY <1>6
    <2> QED BY <1>1, <1>10, <2>1, <2>2
  <1>12. EndsIn(ends, at, soff, len)
    <2>1. \A p : p \in ends <=> /\ p \in soff .. len - 1
                                /\ Dmi!Cell(p) = 0
                                /\ (p + 1 = len \/ Dmi!Cell(p + 1) = 0)
      BY DEF Dmi!SetEnds
    <2>2. \A p \in soff .. len - 1 : p \in Nat /\ p + 1 \in Nat
      BY <1>6
    <2>3. \A p \in soff .. len - 1 : at[p] = Dmi!Cell(p) /\ at[p + 1] = Dmi!Cell(p + 1)
      BY <1>10, <2>2
    <2> QED BY <2>1, <2>3 DEF EndsIn
  <1>13. soff < len => len - 1 \in Nat
    BY <1>6
  <1>14. soff < len => at[len - 1] = Dmi!Cell(len - 1)
    BY <1>10, <1>13
  <1>15. /\ next <= len => /\ soff + c - 1 \in ends
                           /\ \A p \in ends : soff + c - 1 <= p
         /\ ~(next <= len) => ends = IF soff < len /\ at[len - 1] = 0
                                     THEN {len - 1} ELSE {}
    <2>1. FilledWith(at, soff, c, set, len)
      BY <1>11 DEF FilledWith
    <2>2. EndsRight(ends, at, soff, c, len)
      BY <1>6, <1>8, <1>12, <2>1, EndsOfSet
    <2> QED BY <1>7, <2>2 DEF EndsRight
  <1> QED BY <1>14, <1>15 DEF SetEndsAt

\* A structure is refused when it is cut or misshapen, and only then.
LEMMA RefusedOrProper ==
    ASSUME world \in DmiTables, NEW i \in 1 .. Len(Dmi!structs),
           NEW off, off = Dmi!Offset(i), off + 4 <= Dmi!len
    PROVE  Dmi!Refusal(off) <=> ~Dmi!Proper(i)
  <1>1. PICK s : s = Dmi!structs[i]
    OBVIOUS
  <1>2. PICK len : len = Dmi!len
    OBVIOUS
  <1>3. PICK f : f = s.flen
    OBVIOUS
  <1>4. PICK c : c = Closing(s)
    OBVIOUS
  <1>5. PICK next : next = Dmi!Offset(i + 1)
    OBVIOUS
  <1>6. PICK soff : soff = off + f
    OBVIOUS
  <1>7. PICK ends : ends = Dmi!SetEnds(soff)
    OBVIOUS
  <1>8. /\ off \in Nat /\ f \in Nat /\ c \in Nat /\ c > 0 /\ next \in Nat /\ len \in Nat
        /\ off + 4 + c + 1 <= next
        /\ f >= 4 => next = off + f + c + 1
    BY <1>1, <1>2, <1>3, <1>4, <1>5, PlaceOfStructure
  <1>9. off + 2 <= Dmi!len
    BY <1>2, <1>8
  <1>10. Dmi!Cell(off + 1) = f
    BY <1>1, <1>3, <1>9, HeaderOfStructure
  <1>11. Dmi!Refusal(off) <=> f < 4 \/ soff > len \/ ends = {}
    BY <1>2, <1>6, <1>7, <1>10 DEF Dmi!Refusal
  <1>12. Dmi!Whole(i) <=> next <= len
    BY <1>2, <1>5 DEF Dmi!Whole
  <1>13. Dmi!CutAtString(i) <=> soff < len /\ len < next /\ Dmi!Cell(len - 1) = 0
    BY <1>1, <1>2, <1>3, <1>5, <1>6 DEF Dmi!CutAtString
  <1>14. Dmi!Proper(i) <=> f >= 4 /\ (Dmi!Whole(i) \/ Dmi!CutAtString(i))
    BY <1>1, <1>3 DEF Dmi!Proper
  <1>15. CASE f < 4
    BY <1>8, <1>11, <1>14, <1>15
  <1>16. CASE ~(f < 4)
    <2>1. f >= 4 /\ s.flen >= 4
      BY <1>3, <1>8, <1>16
    <2>2. soff = Dmi!Offset(i) + s.flen
      BY <1>3, <1>6
    <2>3. SetEndsAt(ends, soff, c, next, len)
      BY <1>1, <1>2, <1>4, <1>5, <1>7, <2>1, <2>2, SetEndsOfStructure
    <2>4. CASE next <= len
      <3>1. soff <= len
        BY <1>6, <1>8, <2>1, <2>4
      <3>2. ends # {}
        BY <2>3, <2>4 DEF SetEndsAt
      <3>3. ~(soff > len)
        BY <1>6, <1>8, <3>1
      <3> QED BY <1>11, <1>12, <1>14, <1>16, <2>1, <2>4, <3>2, <3>3
    <2>5. CASE ~(next <= len)
      <3>1. len < next
        BY <1>8, <2>5
      <3>2. soff < len => ~(soff > len)
        BY <1>6, <1>8
      <3>3. ends # {} <=> soff < len /\ Dmi!Cell(len - 1) = 0
        BY <2>3, <2>5 DEF SetEndsAt
      <3> QED BY <1>11, <1>12, <1>13, <1>14, <1>16, <2>1, <2>5, <3>1, <3>2, <3>3
    <2> QED BY <2>4, <2>5
  <1> QED BY <1>15, <1>16

\* Behind a proper structure stands the next one, or the end of what is read.
LEMMA StructurePassed ==
    ASSUME world \in DmiTables, NEW i \in 1 .. Len(Dmi!structs),
           NEW off, off = Dmi!Offset(i), off + 4 <= Dmi!len, Dmi!Proper(i)
    PROVE  /\ Dmi!Whole(i) => Dmi!StructAt(off).end = Dmi!Offset(i + 1)
           /\ Dmi!StructAt(off).last <=> ~Dmi!Whole(i) \/ Dmi!structs[i].type = 127
           /\ Dmi!StructAt(off).last \in BOOLEAN /\ Dmi!StructAt(off).end \in Nat
  <1>1. PICK s : s = Dmi!structs[i]
    OBVIOUS
  <1>2. PICK len : len = Dmi!len
    OBVIOUS
  <1>3. PICK f : f = s.flen
    OBVIOUS
  <1>4. PICK c : c = Closing(s)
    OBVIOUS
  <1>5. PICK next : next = Dmi!Offset(i + 1)
    OBVIOUS
  <1>6. PICK soff : soff = off + f
    OBVIOUS
  <1>7. PICK ends : ends = Dmi!SetEnds(soff)
    OBVIOUS
  <1>8. /\ off \in Nat /\ f \in Nat /\ c \in Nat /\ c > 0 /\ next \in Nat /\ len \in Nat
        /\ off + 4 + c + 1 <= next
        /\ f >= 4 => next = off + f + c + 1
    BY <1>1, <1>2, <1>3, <1>4, <1>5, PlaceOfStructure
  <1>9. off + 2 <= Dmi!len
    BY <1>2, <1>8
  <1>10. Dmi!Cell(off) = s.type /\ Dmi!Cell(off + 1) = f
    BY <1>1, <1>3, <1>9, HeaderOfStructure
  <1>11. s.flen >= 4 /\ f >= 4
    BY <1>1, <1>3 DEF Dmi!Proper
  <1>12. next = soff + c + 1 /\ soff \in Nat
    <2>1. next = off + f + c + 1
      BY <1>8, <1>11
    <2>2. off \in Nat /\ f \in Nat
      BY <1>8
    <2> QED BY <1>6, <2>1, <2>2
  <1>13. SetEndsAt(ends, soff, c, next, len)
    <2>1. soff = Dmi!Offset(i) + s.flen
      BY <1>3, <1>6
    <2> QED BY <1>1, <1>2, <1>4, <1>5, <1>7, <1>11, <2>1, SetEndsOfStructure
  <1>14. PICK last : last = Dmi!Min(ends)
    OBVIOUS
  <1>15. /\ Dmi!StructAt(off).end = IF last + 1 = len THEN last + 1 ELSE last + 2
         /\ Dmi!StructAt(off).last = (last + 1 = len \/ s.type = 127)
    BY <1>2, <1>6, <1>7, <1>10, <1>14 DEF Dmi!StructAt
  <1>16. Dmi!Whole(i) <=> next <= len
    BY <1>2, <1>5 DEF Dmi!Whole
  <1>17. last = CHOOSE p \in ends : \A q \in ends : p <= q
    BY <1>14 DEF Dmi!Min
  <1>18. ends \subseteq Int
    <2>1. \A p \in ends : p \in soff .. len - 1
      BY <1>2, <1>7 DEF Dmi!SetEnds
    <2> QED BY <1>8, <1>12, <2>1
  <1>19. CASE next <= len
    <2>1. PICK z : z = soff + c - 1
      OBVIOUS
    <2>2. z \in ends /\ \A p \in ends : z <= p
      BY <1>13, <1>19, <2>1 DEF SetEndsAt
    <2>3. last \in ends /\ last <= z /\ z <= last
      BY <1>17, <2>2
    <2>4. last = z
      BY <1>18, <2>2, <2>3
    <2>5. last + 1 # len /\ last + 2 = next
      BY <1>8, <1>12, <1>19, <2>1, <2>4
    <2> QED BY <1>1, <1>5, <1>8, <1>15, <1>16, <1>19, <2>5
  <1>20. CASE ~(next <= len)
    <2>1. Dmi!CutAtString(i)
      BY <1>16, <1>20 DEF Dmi!Proper
    <2>2. soff < len /\ Dmi!Cell(len - 1) = 0
      BY <1>1, <1>2, <1>3, <1>6, <2>1 DEF Dmi!CutAtString
    <2>3. ends = {len - 1}
      BY <1>13, <1>20, <2>2 DEF SetEndsAt
    <2>4. last \in ends
      BY <1>8, <1>17, <2>3
    <2>5. last + 1 = len
      BY <1>8, <2>3, <2>4
    <2> QED BY <1>1, <1>8, <1>15, <1>16, <1>20, <2>5
  <1> QED BY <1>19, <1>20

\* Where less than a header is left stands no proper structure.
LEMMA NothingThere ==
    ASSUME world \in DmiTables, NEW i \in 1 .. Len(Dmi!structs),
           ~(Dmi!Offset(i) + 4 <= Dmi!len)
    PROVE  ~Dmi!Proper(i)
  <1>2. PICK s : s = Dmi!structs[i]
    OBVIOUS
  <1>3. PICK len : len = Dmi!len
    OBVIOUS
  <1>4. PICK f : f = s.flen
    OBVIOUS
  <1>5. PICK c : c = Closing(s)
    OBVIOUS
  <1>6. PICK next : next = Dmi!Offset(i + 1)
    OBVIOUS
  <1>7. PICK off : off = Dmi!Offset(i)
    OBVIOUS
  <1>8. /\ off \in Nat /\ f \in Nat /\ c \in Nat /\ c > 0 /\ next \in Nat /\ len \in Nat
        /\ off + 4 + c + 1 <= next
    BY <1>2, <1>3, <1>4, <1>5, <1>6, <1>7, PlaceOfStructure
  <1>9. ~(off + 4 <= len)
    BY <1>3, <1>7
  <1>10. ~(next <= len) /\ ~(f >= 4 /\ off + f < len)
    BY <1>8, <1>9
  <1>11. Dmi!Proper(i) => f >= 4 /\ (next <= len \/ off + f < len)
    BY <1>2, <1>3, <1>4, <1>6, <1>7 DEF Dmi!Proper, Dmi!Whole, Dmi!CutAtString
  <1> QED BY <1>10, <1>11

LEMMA StructsAre == Dmi!structs = world.structs
  BY DEF Dmi!structs

\* Positions are positions, the one behind the last structure too.
LEMMA OffsetType ==
    ASSUME world \in DmiTables, NEW i \in 1 .. Len(Dmi!structs) + 1
    PROVE  Dmi!Offset(i) \in Nat /\ Dmi!len \in Nat /\ Len(Dmi!structs) \in Nat
  <1>1. PICK ss : ss = Dmi!structs
    BY Zenon
  <1>2. LaidTable(ss) /\ world.cells \in Seq(Nat)
    BY Zenon, <1>1, StructsAre, TableIs
  <1>3. PICK n \in Nat : n = Len(ss)
    BY <1>2 DEF LaidTable
  <1>4. Dmi!len \in Nat
    BY <1>2 DEF Dmi!len
  <1>5. CASE i = 1
    BY <1>1, <1>3, <1>4, <1>5, FirstOffset DEF Dmi!Offset
  <1>6. CASE i # 1
    <2>1. PICK j \in 1 .. n : i = j + 1
      <3>1. i - 1 \in 1 .. n /\ i = (i - 1) + 1
        BY <1>1, <1>3, <1>6
      <3> QED BY <3>1
    <2>2. Dmi!OffsetIn(ss, j) \in Nat
      BY <1>2, <1>3, OffsetGrows
    <2>3. Len(Dmi!Layout(ss[j])) \in Nat
      BY <1>2, <1>3, LayoutLength
    <2>4. Dmi!OffsetIn(ss, i) = Dmi!OffsetIn(ss, j) + Len(Dmi!Layout(ss[j]))
      BY <1>2, <1>3, <2>1, OffsetGrows
    <2>5. Dmi!OffsetIn(ss, i) \in Nat
      BY <2>2, <2>3, <2>4
    <2> QED BY <1>1, <1>3, <1>4, <2>5 DEF Dmi!Offset
  <1> QED BY <1>5, <1>6

\* What the loop's condition asks of a position.
Here(off) == off + 4 <= Dmi!len /\ (Dmi!Cell(off) # 0 \/ Dmi!Cell(off + 1) # 0)

\* It tells a structure from padding.
LEMMA HereIsStructure ==
    ASSUME world \in DmiTables, NEW i \in 1 .. Len(Dmi!structs) + 1,
           NEW off, off = Dmi!Offset(i)
    PROVE  Here(off) <=> off + 4 <= Dmi!len /\ i \in 1 .. Len(Dmi!structs)
  <1>1. PICK ss : ss = Dmi!structs
    OBVIOUS
  <1>2. LaidTable(ss) /\ world.cells \in Seq(Nat) /\ Dmi!LaidOut(ss, world.cells)
    BY <1>1, TableIs DEF Dmi!structs
  <1>3. PICK n : n = Len(ss)
    OBVIOUS
  <1>4. PICK len : len = Dmi!len
    OBVIOUS
  <1>5. n \in Nat /\ off \in Nat /\ len \in Nat
    BY <1>1, <1>3, <1>4, OffsetType
  <1>6. CASE i \in 1 .. n
    <2>1. ASSUME off + 4 <= len
          PROVE  Dmi!Cell(off) # 0 \/ Dmi!Cell(off + 1) # 0
      <3>1. off + 2 <= Dmi!len
        BY <1>4, <1>5, <2>1
      <3>2. i \in 1 .. Len(Dmi!structs)
        BY <1>1, <1>3, <1>6
      <3>3. Dmi!Cell(off) = ss[i].type /\ Dmi!Cell(off + 1) = ss[i].flen
        BY <1>1, <3>1, <3>2, HeaderOfStructure
      <3>4. Laid(ss[i])
        BY <1>2, <1>3, <1>6 DEF LaidTable
      <3> QED BY <3>3, <3>4 DEF Laid
    <2> QED BY <1>1, <1>3, <1>4, <1>6, <2>1 DEF Here
  <1>7. CASE ~(i \in 1 .. n)
    <2>1. i = n + 1
      BY <1>1, <1>3, <1>5, <1>7
    <2>2. ASSUME off + 4 <= len
          PROVE  Dmi!Cell(off) = 0 /\ Dmi!Cell(off + 1) = 0
      <3>1. PICK cells : cells = world.cells
        OBVIOUS
      <3>2. len = Len(cells) /\ DOMAIN cells = 1 .. len
        BY <1>2, <1>4, <3>1 DEF Dmi!len
      <3>3. \A p \in 1 .. len : off < p => cells[p] = 0
        BY <1>1, <1>2, <1>3, <2>1, <3>1, <3>2 DEF Dmi!LaidOut, Dmi!Offset
      <3>4. /\ off + 1 \in 1 .. len /\ off < off + 1
            /\ (off + 1) + 1 \in 1 .. len /\ off < (off + 1) + 1
        BY <1>5, <2>2
      <3>5. cells[off + 1] = 0 /\ cells[(off + 1) + 1] = 0
        BY <3>3, <3>4
      <3> QED BY <3>1, <3>5 DEF Dmi!Cell
    <2> QED BY <1>1, <1>3, <1>4, <1>7, <2>2 DEF Here
  <1> QED BY <1>6, <1>7

\* The structures passed so far are proper, and only the last may end the table.
Passed(c) ==
    /\ c \in 0 .. Len(Dmi!structs)
    /\ \A j \in 1 .. c : Dmi!Proper(j)
    /\ \A j \in 1 .. c - 1 : Dmi!structs[j].type # 127

\* None can be passed behind them.
PassedAll(c) ==
    \/ c + 1 \notin 1 .. Len(Dmi!structs)
    \/ ~Dmi!Proper(c + 1)
    \/ c > 0 /\ Dmi!structs[c].type = 127

\* They are then those of a correct walk.
LEMMA WalkedIsPassed ==
    ASSUME world \in DmiTables, NEW c, Passed(c),
           PassedAll(c)
    PROVE  Dmi!Cardinality(Dmi!Walked) = c
  <1>1. PICK ss : ss = Dmi!structs
    OBVIOUS
  <1>2. LaidTable(ss)
    BY Zenon, <1>1, StructsAre, TableIs
  <1>3. PICK n \in Nat : n = Len(ss) /\ DOMAIN ss = 1 .. n
    BY <1>2 DEF LaidTable
  <1>4. c \in Nat /\ c <= n
    BY <1>1, <1>3 DEF Passed
  <1>5. \A i : i \in Dmi!Walked <=> /\ i \in 1 .. n
                                    /\ \A j \in 1 .. i : Dmi!Proper(j)
                                    /\ \A j \in 1 .. i - 1 : ss[j].type # 127
    BY <1>1, <1>3 DEF Dmi!Walked
  <1>6. \A j \in 1 .. c : Dmi!Proper(j)
    BY DEF Passed
  <1>7. \A j \in 1 .. c - 1 : ss[j].type # 127
    BY <1>1 DEF Passed
  <1>8. ASSUME NEW i \in 1 .. c
        PROVE  i \in Dmi!Walked
    <2>1. i \in 1 .. n /\ 1 .. i \subseteq 1 .. c /\ 1 .. i - 1 \subseteq 1 .. c - 1
      BY <1>4
    <2> QED BY <1>5, <1>6, <1>7, <2>1
  <1>9. ASSUME NEW i \in Dmi!Walked
        PROVE  i \in 1 .. c
    <2> SUFFICES ASSUME i \notin 1 .. c PROVE FALSE
      OBVIOUS
    <2>1. i \in 1 .. n
      BY <1>5
    <2>2. c + 1 \in 1 .. i /\ c + 1 \in 1 .. n /\ (c > 0 => c \in 1 .. i - 1)
      BY <1>4, <2>1
    <2>3. Dmi!Proper(c + 1) /\ (c > 0 => ss[c].type # 127)
      BY <1>5, <2>2
    <2> QED BY <1>1, <1>3, <2>2, <2>3 DEF PassedAll
  <1>10. Dmi!Walked = 1 .. c
    BY <1>8, <1>9
  <1>11. \A S : Dmi!Cardinality(S) = Cardinality(S)
    BY DEF Dmi!Cardinality, Cardinality
  <1>12. Cardinality(1 .. c) = c
    BY <1>4, FS_Interval
  <1> QED BY <1>10, <1>11, <1>12

WalkTypes ==
    /\ world \in DmiTables
    /\ st \in [pc : {"parse", "walk", "done"}, off : Nat, done : BOOLEAN, count : Nat,
               rc : Int, info : {st.info}]

\* The cursor stands behind the structures passed, or the last of them ends the table.
Walking ==
    /\ 6 <= Dmi!len
    /\ Passed(st.count)
    /\ IF st.done
       THEN st.count > 0 /\ (Dmi!structs[st.count].type = 127 \/ ~Dmi!Whole(st.count))
       ELSE /\ st.off = Dmi!Offset(st.count + 1)
            /\ st.count > 0 => Dmi!structs[st.count].type # 127

WalkInv ==
    /\ WalkTypes
    /\ st.pc = "parse" => st.off = 0 /\ ~st.done /\ st.count = 0
    /\ st.pc = "walk" => Walking
    /\ Dmi!WalkIsTheTable

\* What is left when a walk returns.
LEMMA WalkReturns ==
    ASSUME WalkTypes, Walking, NEW rc \in Int, Dmi!Return(rc),
           NEW c, c = st.count,
           \/ rc = Dmi!EPROTO /\ ~st.done /\ Here(st.off) /\ Dmi!Refusal(st.off)
           \/ rc = 0 /\ ~(~st.done /\ Here(st.off)),
           UNCHANGED world
    PROVE  WalkInv'
  <1>1. PICK n : n = Len(Dmi!structs)
    OBVIOUS
  <1>2. PICK off : off = Dmi!Offset(c + 1)
    OBVIOUS
  <1>3. PICK len : len = Dmi!len
    OBVIOUS
  <1>4. world \in DmiTables
    BY DEF WalkTypes
  <1>5. Passed(c) /\ 6 <= len
    BY <1>3 DEF Walking
  <1>6. c \in 0 .. Len(Dmi!structs)
    BY <1>5 DEF Passed
  <1>7. Len(Dmi!structs) \in Nat
    BY <1>4, TableIs DEF LaidTable, Dmi!structs
  <1>8. c \in Nat /\ c <= n /\ n \in Nat /\ c + 1 \in 1 .. Len(Dmi!structs) + 1
    BY <1>1, <1>6, <1>7
  <1>9. off \in Nat /\ len \in Nat
    BY <1>2, <1>3, <1>4, <1>8, OffsetType
  <1>10. Here(off) <=> off + 4 <= len /\ c + 1 \in 1 .. n
    BY <1>1, <1>2, <1>3, <1>4, <1>8, HereIsStructure
  <1>11. c + 1 \in 1 .. n => c # n
    BY <1>8
  <1>12. c + 1 \notin 1 .. n => c = n
    BY <1>8
  \* The structure behind those passed is none, cut or misshapen.
  <1>13. \/ st.done /\ Dmi!structs[c].type = 127 /\ c > 0
         \/ /\ c > 0 => Dmi!structs[c].type # 127
            /\ \/ c + 1 \notin 1 .. n
               \/ c + 1 \in 1 .. n /\ ~Dmi!Proper(c + 1)
            /\ \/ rc = 0 /\ (c = n \/ ~(off + 4 <= len))
               \/ rc = Dmi!EPROTO /\ c # n /\ off + 4 <= len
    <2>1. CASE st.done /\ Dmi!structs[c].type = 127
      BY <2>1 DEF Walking
    <2>2. CASE st.done /\ Dmi!structs[c].type # 127
      <3>1. rc = 0
        BY <2>2
      <3>2. ~Dmi!Whole(c) /\ c > 0
        BY <2>2 DEF Walking
      <3>3. ~(off <= len)
        BY <1>2, <1>3, <3>2 DEF Dmi!Whole
      <3>4. ~(off + 4 <= len)
        BY <1>9, <3>3
      <3>5. c + 1 \in 1 .. n => ~Dmi!Proper(c + 1)
        BY <1>1, <1>2, <1>3, <1>4, <3>4, NothingThere
      <3> QED BY <2>2, <3>1, <3>4, <3>5
    <2>3. CASE ~st.done
      <3>1. st.off = off /\ (c > 0 => Dmi!structs[c].type # 127)
        BY <1>2, <2>3 DEF Walking
      <3>2. CASE rc = Dmi!EPROTO /\ Here(off) /\ Dmi!Refusal(off)
        <4>1. c + 1 \in 1 .. n /\ off + 4 <= len
          BY <1>10, <3>2
        <4>2. ~Dmi!Proper(c + 1)
          BY <1>1, <1>2, <1>3, <1>4, <3>2, <4>1, RefusedOrProper
        <4> QED BY <1>11, <3>1, <3>2, <4>1, <4>2
      <3>3. CASE rc = 0 /\ ~Here(off)
        <4>1. CASE c + 1 \notin 1 .. n
          BY <1>12, <3>1, <3>3, <4>1
        <4>2. CASE c + 1 \in 1 .. n
          <5>1. ~(off + 4 <= len)
            BY <1>10, <3>3, <4>2
          <5>2. ~Dmi!Proper(c + 1)
            BY <1>1, <1>2, <1>3, <1>4, <4>2, <5>1, NothingThere
          <5> QED BY <3>1, <3>3, <4>2, <5>1, <5>2
        <4> QED BY <4>1, <4>2
      <3> QED BY <2>3, <3>1, <3>2, <3>3
    <2> QED BY <2>1, <2>2, <2>3
  <1>14. Dmi!Cardinality(Dmi!Walked) = c
    <2>1. PassedAll(c)
      BY <1>1, <1>13 DEF PassedAll
    <2> QED BY <1>4, <1>5, <2>1, WalkedIsPassed
  <1>15. len - off < 4 <=> ~(off + 4 <= len)
    BY <1>9
  <1>16. rc = IF (c > 0 /\ Dmi!structs[c].type = 127) \/ c = n \/ len - off < 4
              THEN 0 ELSE Dmi!EPROTO
    BY <1>13, <1>15
  <1>17. ~(len < 6)
    BY <1>5, <1>9
  <1>18. /\ st'.pc = "done" /\ st'.count = c /\ st'.rc = rc /\ WalkTypes'
    BY DEF Dmi!Return, WalkTypes
  <1>19. Dmi!WalkIsTheTable'
    <2>1. /\ Dmi!structs' = Dmi!structs /\ Dmi!len' = Dmi!len
          /\ \A i : (Dmi!Offset(i))' = Dmi!Offset(i)
      BY DEF Dmi!structs, Dmi!len, Dmi!Offset
    <2>2. Dmi!Walked' = Dmi!Walked
      BY DEF Dmi!structs, Dmi!len, Dmi!Offset, Dmi!Walked, Dmi!Proper, Dmi!Whole,
          Dmi!CutAtString, Dmi!Cell
    <2>3. Dmi!EINVAL' = Dmi!EINVAL /\ Dmi!EPROTO' = Dmi!EPROTO
      BY DEF Dmi!EINVAL, Dmi!EPROTO
    <2>4. Dmi!WalkIsTheTable'
            = (st'.pc = "done" =>
                 LET m == Dmi!Cardinality(Dmi!Walked)
                     ended == m > 0 /\ Dmi!structs[m].type = 127
                 IN /\ st'.count = IF Dmi!len < 6 THEN 0 ELSE m
                    /\ st'.rc = IF Dmi!len < 6 THEN Dmi!EINVAL
                               ELSE IF ended \/ m = Len(Dmi!structs)
                                         \/ Dmi!len - Dmi!Offset(m + 1) < 4
                               THEN 0 ELSE Dmi!EPROTO)
      BY <2>1, <2>2, <2>3 DEF Dmi!WalkIsTheTable
    <2> QED BY <1>1, <1>2, <1>3, <1>14, <1>16, <1>17, <1>18, <2>4
  <1> QED BY <1>18, <1>19 DEF WalkInv

\* A structure that is passed.
LEMMA WalkPasses ==
    ASSUME WalkTypes, Walking, Dmi!Step, UNCHANGED world
    PROVE  WalkInv'
  <1>1. PICK c : c = st.count
    OBVIOUS
  <1>2. PICK off : off = st.off
    OBVIOUS
  <1>3. PICK s : s = Dmi!StructAt(off)
    OBVIOUS
  <1>4. st.pc = "walk" /\ ~st.done /\ Here(off) /\ ~Dmi!Refusal(off)
    BY <1>2 DEF Dmi!Step, Dmi!More, Here
  <1>5. st' = [st EXCEPT !.off = s.end, !.done = s.last, !.count = st.count + 1,
                         !.info = Dmi!Decode(st.info, s)]
    BY <1>2, <1>3 DEF Dmi!Step
  <1>6. world \in DmiTables /\ Passed(c) /\ 6 <= Dmi!len
    BY <1>1 DEF WalkTypes, Walking
  <1>7. c \in 0 .. Len(Dmi!structs) /\ Len(Dmi!structs) \in Nat
    BY <1>6, TableIs DEF Passed, LaidTable, Dmi!structs
  <1>8. c \in Nat /\ c + 1 \in 1 .. Len(Dmi!structs) + 1
    BY <1>7
  <1>9. off = Dmi!Offset(c + 1) /\ (c > 0 => Dmi!structs[c].type # 127)
    BY <1>1, <1>2, <1>4 DEF Walking
  <1>10. off + 4 <= Dmi!len /\ c + 1 \in 1 .. Len(Dmi!structs)
    BY <1>4, <1>6, <1>8, <1>9, HereIsStructure
  <1>11. Dmi!Proper(c + 1)
    BY <1>4, <1>6, <1>9, <1>10, RefusedOrProper
  <1>12. PICK i : i = c + 1
    OBVIOUS
  <1>13. /\ Dmi!Whole(i) => s.end = Dmi!Offset(i + 1)
         /\ s.last <=> ~Dmi!Whole(i) \/ Dmi!structs[i].type = 127
         /\ s.last \in BOOLEAN /\ s.end \in Nat
    BY <1>3, <1>6, <1>9, <1>10, <1>11, <1>12, StructurePassed
  <1>14. Passed(i)
    <2>1. i \in 0 .. Len(Dmi!structs)
      BY <1>10, <1>12
    <2>2. ASSUME NEW j \in 1 .. i
          PROVE  Dmi!Proper(j)
      <3>1. j \in 1 .. c \/ j = c + 1
        BY <1>8, <1>12
      <3> QED BY <1>6, <1>11, <3>1 DEF Passed
    <2>3. ASSUME NEW j \in 1 .. i - 1
          PROVE  Dmi!structs[j].type # 127
      <3>1. j \in 1 .. c - 1 \/ (j = c /\ c > 0)
        BY <1>8, <1>12
      <3> QED BY <1>6, <1>9, <3>1 DEF Passed
    <2> QED BY <2>1, <2>2, <2>3 DEF Passed
  <1>15. i \in Nat /\ i > 0
    BY <1>8, <1>12
  <1>16. /\ st'.pc = "walk" /\ st'.off = s.end /\ st'.done = s.last /\ st'.count = i
         /\ WalkTypes'
    BY <1>1, <1>4, <1>5, <1>12, <1>13, <1>15 DEF WalkTypes
  <1>17. /\ 6 <= Dmi!len' /\ Passed(i)'
         /\ Dmi!structs' = Dmi!structs
         /\ Dmi!Whole(i)' = Dmi!Whole(i) /\ Dmi!Offset(i + 1)' = Dmi!Offset(i + 1)
    BY <1>6, <1>14
    DEF Passed, Dmi!structs, Dmi!len, Dmi!Offset, Dmi!Proper, Dmi!Whole, Dmi!CutAtString,
        Dmi!Cell
  <1>18. IF s.last
         THEN i > 0 /\ (Dmi!structs[i].type = 127 \/ ~Dmi!Whole(i))
         ELSE /\ s.end = Dmi!Offset(i + 1)
              /\ i > 0 => Dmi!structs[i].type # 127
    BY <1>13, <1>15
  <1>19. Walking'
    BY <1>16, <1>17, <1>18 DEF Walking, Dmi!structs, Dmi!Offset, Dmi!Whole, Dmi!len, Passed,
        Dmi!Proper, Dmi!CutAtString, Dmi!Cell
  <1> QED BY <1>16, <1>19 DEF WalkInv, Dmi!WalkIsTheTable

\* Every step keeps the invariant.
LEMMA WalkStep ==
    ASSUME WalkInv, Dmi!Next
    PROVE  WalkInv'
  <1>1. UNCHANGED world /\ WalkTypes
    BY DEF Dmi!Next, WalkInv
  <1>2. CASE Dmi!Begin
    <2>1. st.pc = "parse" /\ st.off = 0 /\ ~st.done /\ st.count = 0
      BY <1>2 DEF Dmi!Begin, WalkInv
    <2>2. CASE Dmi!len < 6
      <3>1. /\ st'.pc = "done" /\ st'.count = 0 /\ st'.rc = Dmi!EINVAL /\ WalkTypes'
        <4>1. PICK rc : rc = Dmi!EINVAL
          OBVIOUS
        <4>2. rc \in Int
          BY <4>1 DEF Dmi!EINVAL
        <4>3. st' = [st EXCEPT !.pc = "done", !.rc = rc]
          BY <1>2, <2>2, <4>1 DEF Dmi!Begin, Dmi!Return
        <4> QED BY <1>1, <2>1, <4>1, <4>2, <4>3 DEF WalkTypes
      <3>2. Dmi!WalkIsTheTable'
        BY <1>1, <2>2, <3>1 DEF Dmi!WalkIsTheTable, Dmi!len
      <3> QED BY <3>1, <3>2 DEF WalkInv
    <2>3. CASE ~(Dmi!len < 6)
      <3>1. /\ st'.pc = "walk" /\ st'.count = 0 /\ st'.off = 0 /\ ~st'.done /\ WalkTypes'
        BY <1>1, <1>2, <2>1, <2>3 DEF Dmi!Begin, WalkTypes
      <3>2. world \in DmiTables /\ Len(Dmi!structs) \in Nat
        BY <1>1, TableIs DEF WalkTypes, LaidTable, Dmi!structs
      <3>3. 1 \in 1 .. Len(Dmi!structs) + 1
        BY <3>2
      <3>4. Dmi!len \in Nat
        BY <3>2, <3>3, OffsetType
      <3>5. 6 <= Dmi!len
        BY <2>3, <3>4
      <3>6. Dmi!Offset(1) = 0
        BY FirstOffset DEF Dmi!Offset
      <3>7. Passed(0)
        BY <3>2 DEF Passed
      <3>8. Walking'
        BY <1>1, <3>1, <3>5, <3>6, <3>7
        DEF Walking, Passed, Dmi!structs, Dmi!len, Dmi!Offset
      <3> QED BY <3>1, <3>8 DEF WalkInv, Dmi!WalkIsTheTable
    <2> QED BY <2>2, <2>3
  <1>3. CASE Dmi!Step
    <2>1. Walking
      BY <1>3 DEF Dmi!Step, WalkInv
    <2> QED BY <1>1, <1>3, <2>1, WalkPasses
  <1>4. CASE Dmi!Refuse
    <2>1. /\ Walking /\ Dmi!Return(Dmi!EPROTO) /\ ~st.done /\ Here(st.off)
          /\ Dmi!Refusal(st.off)
      BY <1>4 DEF Dmi!Refuse, Dmi!More, WalkInv, Here
    <2>2. Dmi!EPROTO \in Int
      BY DEF Dmi!EPROTO
    <2> QED BY <1>1, <2>1, <2>2, WalkReturns
  <1>5. CASE Dmi!EndOfTable
    <2>1. Walking /\ Dmi!Return(0) /\ ~(~st.done /\ Here(st.off))
      BY <1>5 DEF Dmi!EndOfTable, Dmi!More, WalkInv, Here
    <2> QED BY <1>1, <2>1, WalkReturns
  <1> QED BY <1>2, <1>3, <1>4, <1>5 DEF Dmi!Next

\* Whatever the firmware laid out and wherever it was cut, the walk counts each of
\* its proper structures once, stops behind the last of them, and tells a table cut
\* inside a structure from one that came to its end (rewsr_dmi_next).
THEOREM WalksAreTables == FairSpec => []WalkIsTheTable
  <1> DEFINE Inv == routine = "dmi" => WalkInv
  <1>1. Init => Inv
    <2> SUFFICES ASSUME Init, routine = "dmi"
                 PROVE  WalkInv
      OBVIOUS
    <2>1. Dmi!Init
      BY AloneNotFed DEF Init, Alone, TextTools, Decoders, Text!Init, Lists!Init
    <2>2. /\ world \in DmiTables
          /\ st = [pc |-> "parse", off |-> 0, done |-> FALSE, count |-> 0, rc |-> 0,
                   info |-> Dmi!NoInfo]
      BY <2>1 DEF Dmi!Init
    <2>3. WalkTypes
      BY <2>2 DEF WalkTypes
    <2> QED BY <2>2, <2>3 DEF WalkInv, Dmi!WalkIsTheTable
  <1>2. Inv /\ [Next]_vars => Inv'
    <2> SUFFICES ASSUME Inv, [Next]_vars, routine' = "dmi"
                 PROVE  WalkInv'
      OBVIOUS
    <2>1. CASE Next
      <3>1. routine = "dmi" /\ WalkInv
        BY <2>1 DEF Next
      <3>2. Dmi!Next
        BY <2>1, <3>1, AloneNotFed DEF Next, Proceed, Alone
      <3> QED BY <3>1, <3>2, WalkStep
    <2>2. CASE UNCHANGED vars
      <3>1. routine = "dmi" /\ WalkInv /\ UNCHANGED <<world, st>>
        BY <2>2 DEF vars
      <3>2. Walking' = Walking /\ Dmi!WalkIsTheTable' = Dmi!WalkIsTheTable
        BY <3>1 DEF Walking, Passed, Dmi!WalkIsTheTable, Dmi!structs, Dmi!len, Dmi!Offset,
            Dmi!Walked, Dmi!Proper, Dmi!Whole, Dmi!CutAtString, Dmi!Cell
      <3>3. WalkTypes'
        BY <3>1 DEF WalkInv, WalkTypes
      <3> QED BY <3>1, <3>2, <3>3 DEF WalkInv
    <2> QED BY <2>1, <2>2
  <1>3. Inv => WalkIsTheTable
    BY DEF WalkIsTheTable, WalkInv
  <1> QED BY <1>1, <1>2, <1>3, PTL DEF FairSpec
=============================================================================
