-------------------------------- MODULE FileRead --------------------------------
(***************************************************************************)
(* The four read loops of the C probes: rewsr_read_first_line (line),      *)
(* rewsr_read_file (file), rewsr_slurp (slurp) and the table reader of     *)
(* rewsr_dmi_read_sysfs (table). read() may return less than was asked     *)
(* for, be interrupted, or fail; a file is its length and where its first  *)
(* newline stands.                                                         *)
(***************************************************************************)
EXTENDS Integers, FiniteSetsExt

CONSTANTS
    Loops,              \* [kind, cap]: the loop and the capacity it starts with
    MaxTable,           \* REWSR_DMI_MAX_TABLE
    MaxLength,          \* bound: lengths of files
    MaxInterrupts       \* bound: EINTRs in a row that are looked at

VARIABLES
    file,               \* [loop, length, newline]: newline = length if none
    st                  \* the loop's variables

EMSGSIZE == -90
EFBIG == -27
EIO == -5
ENOMEM == -12

kind == file.loop.kind

Init ==
    /\ \E loop \in Loops, length \in 0 .. MaxLength : \E newline \in 0 .. length :
            file = [loop |-> loop, length |-> length, newline |-> newline]
    /\ st = [pc |-> "read", cap |-> file.loop.cap, used |-> 0, interrupts |-> 0, rc |-> 0]

\* Room for bytes: all but the table reader keep a byte for the NUL.
Room == IF kind = "table" THEN st.cap - st.used ELSE st.cap - 1 - st.used

Full == Room <= 0

Return(rc) == st' = [st EXCEPT !.pc = "done", !.rc = rc]

(* A full buffer: the line does not fit, the table is beyond reason, the   *)
(* heap buffers double, and read_file has what it can hold.                *)

\* refusing, gone wrong: what fits of the line is returned.
LineTooLongTruncates == kind = "line" /\ Full /\ Return(0)
LineTooLong == kind = "line" /\ Full /\ Return(EMSGSIZE)
Truncated == kind = "file" /\ Full /\ Return(0)
TooBig == kind = "table" /\ Full /\ st.cap >= MaxTable /\ Return(EFBIG)

Grow ==
    /\ Full
    /\ kind = "slurp" \/ (kind = "table" /\ st.cap < MaxTable)
    /\ st' = [st EXCEPT !.cap = 2 * @]

\* realloc fails; the buffer is freed.
GrowFails ==
    /\ Full
    /\ kind = "slurp" \/ (kind = "table" /\ st.cap < MaxTable)
    /\ Return(ENOMEM)

(* One read(): the loop of read_first_line also ends at a newline in what  *)
(* it has so far.                                                          *)
ReadSome ==
    /\ ~Full
    /\ \E n \in 1 .. Min({Room, file.length - st.used}) :
            LET used == st.used + n
            IN st' = IF kind = "line" /\ file.newline < used
                     THEN [st EXCEPT !.used = file.newline, !.pc = "done"]
                     ELSE [st EXCEPT !.used = used, !.interrupts = 0]

EndOfFile == ~Full /\ st.used = file.length /\ Return(0)

Interrupted ==
    /\ ~Full
    /\ st.interrupts < MaxInterrupts
    /\ st' = [st EXCEPT !.interrupts = @ + 1]

ReadFails == ~Full /\ Return(EIO)

Next ==
    /\ st.pc = "read"
    /\ \/ LineTooLong \/ Truncated \/ TooBig \/ Grow \/ GrowFails
       \/ ReadSome \/ EndOfFile \/ Interrupted \/ ReadFails
    /\ UNCHANGED file

-----------------------------------------------------------------------------
(* What a loop returns with success is the whole of what it promises,      *)
(* however read() split it: the first line, never a part of one; the whole *)
(* file; or, for read_file alone, what its buffer holds. Refusals are for  *)
(* what does not fit, and a buffer is never filled past its end.           *)
WholeOrRefused ==
    LET line == file.newline
        cap == file.loop.cap
    IN /\ st.used + (IF kind = "table" THEN 0 ELSE 1) <= st.cap
       /\ st.pc = "done" /\ st.rc = 0 =>
              st.used = CASE kind = "line" -> line
                          [] kind = "file" -> Min({file.length, cap - 1})
                          [] OTHER -> file.length
       /\ st.rc = EMSGSIZE => line + 1 >= cap
       /\ st.rc = EFBIG => file.length >= MaxTable
================================================================================
