------------------------------- MODULE LinkModes -------------------------------
(***************************************************************************)
(* rewsr_ethtool_link_settings: the two calls of ETHTOOL_GLINKSETTINGS.    *)
(* The kernel answers the first with the number of mask words it has,      *)
(* negated, and fills the three masks, one behind the other, on a second   *)
(* call that asks for this many. The link may change and the interface may *)
(* go in between.                                                          *)
(***************************************************************************)
EXTENDS Integers, Sequences

CONSTANTS
    KernelWords,        \* numbers of mask words kernels have
    MaxWords,           \* REWSR_ETHTOOL_MAX_LMODE_WORDS
    MaxChanges          \* bound: changes of the link between the calls

VARIABLES
    kernel,             \* [words, link]: link numbers the state of the link
    st

Masks == <<"supported", "advertising", "lp_advertising">>
Unknown == [link |-> -1, nwords |-> 0, masks |-> <<>>]

EPROTO == -71
EOVERFLOW == -75
ENODEV == -19

Init == /\ kernel \in [words : KernelWords, link : {0}]
        /\ st = [pc |-> "ask", nwords |-> 0, out |-> Unknown, rc |-> 0]

LinkChanges ==
    /\ st.pc # "done" /\ kernel.link < MaxChanges
    /\ kernel' = [kernel EXCEPT !.link = @ + 1]
    /\ UNCHANGED st

(* What the kernel makes of a request for n words: as the uapi header has  *)
(* it, or, from a driver that breaks the contract, some other number.      *)
Answers(n) ==
    {IF n = kernel.words THEN n ELSE -kernel.words} \cup {0, -kernel.words}

\* Word w of mask m, as laid out behind the header.
Laid(n) ==
    [k \in 1 .. 3 * n |-> [mask |-> Masks[((k - 1) \div n) + 1], word |-> (k - 1) % n,
                           link |-> kernel.link]]

Return(rc) == st' = [st EXCEPT !.pc = "done", !.rc = rc]

Ask ==
    /\ st.pc = "ask"
    /\ \E nwords \in Answers(0) :
         CASE nwords >= 0 -> Return(EPROTO)
           [] -nwords > MaxWords -> Return(EOVERFLOW)
           [] OTHER -> st' = [st EXCEPT !.pc = "fetch", !.nwords = -nwords]
    /\ UNCHANGED kernel

\* the masks, gone wrong: they are taken to stand MaxWords apart.
SplitAtMax(masks, n) ==
    [m \in 1 .. 3 |-> [i \in 1 .. n |-> masks[((((m - 1) * MaxWords) + i - 1) % Len(masks)) + 1]]]

Split(masks, n) == [m \in 1 .. 3 |-> [i \in 1 .. n |-> masks[((m - 1) * n) + i]]]

Fetch ==
    /\ st.pc = "fetch"
    /\ \E nwords \in Answers(st.nwords) :
         IF nwords # st.nwords THEN Return(EPROTO)
         ELSE st' = [st EXCEPT !.pc = "done",
                        !.out = [link |-> kernel.link, nwords |-> nwords,
                                 masks |-> Split(Laid(nwords), nwords)]]
    /\ UNCHANGED kernel

CallFails == st.pc \in {"ask", "fetch"} /\ Return(ENODEV) /\ UNCHANGED kernel

Proceed == Ask \/ Fetch \/ CallFails

Next == Proceed \/ LinkChanges

-----------------------------------------------------------------------------
(* What is reported is one answer of the kernel: every word in its own     *)
(* mask and place, as many as the kernel has and the caller can hold, and  *)
(* of the same moment as the speed; a failure at either call reports       *)
(* nothing (rewsr_ethtool_link_settings).                                  *)
OneAnswerOfTheKernel ==
    /\ st.out # Unknown =>
         /\ st.rc = 0 /\ st.out.nwords <= MaxWords
         /\ \A m \in 1 .. 3 : \A i \in 1 .. st.out.nwords :
                st.out.masks[m][i] = [mask |-> Masks[m], word |-> i - 1, link |-> st.out.link]
    /\ st.pc = "done" => (st.rc = 0 <=> st.out # Unknown)
================================================================================
