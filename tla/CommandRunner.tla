----------------------------- MODULE CommandRunner -----------------------------
(***************************************************************************)
(* LocalRunner.Run and what it starts: a child that writes to a pipe and   *)
(* exits, on its own or killed when the context is done, and processes the *)
(* child started, which inherit the pipe and are not killed.               *)
(***************************************************************************)
EXTENDS Naturals

CONSTANTS
    MaxOutput           \* bound: lines that are written

VARIABLES
    os,                 \* the processes and the context
    st                  \* Run: pc, out (lines cmd.Output has read), err

(* child: how it is or ended; written: lines in the pipe so far; helper: a *)
(* descendant holds the pipe; done: the context is done.                   *)
Init ==
    /\ os = [child |-> "none", written |-> 0, helper |-> FALSE, done |-> FALSE]
    /\ st = [pc |-> "start", out |-> 0, err |-> FALSE]

Running == os.child = "running"

\* cmd.Start; a context that is done, or a name that is not found, is an error.
StartFails ==
    /\ st.pc = "start"
    /\ st' = [st EXCEPT !.pc = "done", !.err = TRUE]
    /\ UNCHANGED os

StartCommand ==
    /\ st.pc = "start" /\ ~os.done
    /\ os' = [os EXCEPT !.child = "running"]
    /\ st' = [st EXCEPT !.pc = "wait"]

\* The timeout of Run or the caller's context, whichever is first.
ContextDone ==
    /\ ~os.done
    /\ os' = [os EXCEPT !.done = TRUE]
    /\ UNCHANGED st

Write ==
    /\ Running \/ os.helper
    /\ os.written < MaxOutput
    /\ os' = [os EXCEPT !.written = @ + 1]
    /\ UNCHANGED st

Fork ==
    /\ Running /\ ~os.helper
    /\ os' = [os EXCEPT !.helper = TRUE]
    /\ UNCHANGED st

Exit ==
    /\ Running
    /\ \E how \in {"succeeded", "failed"} : os' = [os EXCEPT !.child = how]
    /\ UNCHANGED st

HelperExits == os.helper /\ os' = [os EXCEPT !.helper = FALSE] /\ UNCHANGED st

-----------------------------------------------------------------------------
\* exec's watcher of the context: it kills the child, the child alone.
KillWhenSilent ==
    /\ Running /\ os.done /\ os.written = 0
    /\ os' = [os EXCEPT !.child = "killed"]
    /\ UNCHANGED st

Kill ==
    /\ Running /\ os.done
    /\ os' = [os EXCEPT !.child = "killed"]
    /\ UNCHANGED st

\* exec's copying of the pipe into the buffer.
Copy ==
    /\ st.pc = "wait" /\ st.out < os.written
    /\ st' = [st EXCEPT !.out = os.written]
    /\ UNCHANGED os

EndOfPipe == ~Running /\ ~os.helper /\ st.out = os.written

(* cmd.Wait: the child has exited, and the copying has seen the end of the *)
(* pipe, which it does when the last process that holds it is gone.        *)

\* waiting for the copy, gone wrong: the child's exit is taken for the end.
OutputReturnsOnExit ==
    /\ st.pc = "wait" /\ ~Running
    /\ st' = [st EXCEPT !.pc = "done", !.err = os.child # "succeeded"]
    /\ UNCHANGED os

OutputReturns ==
    /\ st.pc = "wait" /\ EndOfPipe
    /\ st' = [st EXCEPT !.pc = "done", !.err = os.child # "succeeded"]
    /\ UNCHANGED os

Runtime == StartFails \/ StartCommand \/ ContextDone \/ Kill \/ Copy \/ OutputReturns

Surroundings == Write \/ Fork \/ Exit \/ HelperExits

Next == Runtime \/ Surroundings

-----------------------------------------------------------------------------
(* Output that a collector parses is whole: Run reports success only of a  *)
(* child that exited successfully, with every line written until the last  *)
(* process let go of the pipe; what a killed command had written comes     *)
(* with an error, which the collectors check first (LocalRunner.Run).      *)
SuccessIsWhole ==
    (st.pc = "done" /\ ~st.err) =>
        os.child = "succeeded" /\ st.out = os.written /\ ~os.helper
================================================================================
