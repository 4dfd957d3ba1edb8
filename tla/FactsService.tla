--------------------------- MODULE FactsService ---------------------------
(***************************************************************************)
(* What the facts API promises its clients, with nothing of how it is      *)
(* done: for every server it keeps one current observation, replaced only  *)
(* by one made at the same time or later, and a request is answered with   *)
(* the current observation at one instant between request and response.    *)
(* It says that it has nothing only when it has nothing or is shut; an     *)
(* unreliable service may say so at any time.                              *)
(***************************************************************************)
EXTENDS Naturals

CONSTANTS
    Servers, Clients,
    Observations,   \* records with a server and a time, at, and more
    Nothing,        \* the answer when there is none, itself no observation
    Reliable        \* whether queries succeed as long as the service is open

VARIABLES
    current,   \* the current observation of each server
    request,   \* what each client waits for, or has been answered
    open       \* the service can look facts up

serviceVars == <<current, request, open>>

Idle == [state |-> "idle"]
Asked(id) == [state |-> "asked", server |-> id]
Answered(id, obs) == [state |-> "answered", server |-> id, answer |-> obs]

Init == /\ current = [id \in Servers |-> Nothing]
        /\ request = [c \in Clients |-> Idle]
        /\ open = FALSE

\* A new observation of a server is in; an older one than the current one
\* changes nothing.
Observe(id) ==
    /\ open
    /\ current'[id] \in Observations
    /\ current'[id].server = id
    /\ current[id] = Nothing \/ current'[id].at >= current[id].at
    /\ current' = [current EXCEPT ![id] = current'[id]]
    /\ UNCHANGED <<request, open>>

Ask == \E c \in Clients, id \in Servers :
          /\ request[c] = Idle
          /\ request' = [request EXCEPT ![c] = Asked(id)]
          /\ UNCHANGED <<current, open>>

\* The instant a request is answered at.
Answer(c) == \E id \in Servers :
    /\ request[c] = Asked(id)
    /\ \/ open /\ request' = [request EXCEPT ![c] = Answered(id, current[id])]
       \/ /\ ~open \/ ~Reliable
          /\ request' = [request EXCEPT ![c] = Answered(id, Nothing)]
    /\ UNCHANGED <<current, open>>

\* The answer has reached its client.
Deliver(c) == /\ request[c].state = "answered"
              /\ request' = [request EXCEPT ![c] = Idle]
              /\ UNCHANGED <<current, open>>

Open == /\ ~open
        /\ open' = TRUE
        /\ UNCHANGED <<current, request>>

\* The service shuts; requests may still wait to be told that.
Shut == /\ open
        /\ open' = FALSE
        /\ UNCHANGED <<current, request>>

\* The service is gone, and every connection with it.
Gone == /\ open' = FALSE
        /\ request' = [c \in Clients |-> Idle]
        /\ UNCHANGED current

Next == \/ Ask \/ Open \/ Shut \/ Gone
        \/ \E id \in Servers : Observe(id)
        \/ \E c \in Clients : Answer(c) \/ Deliver(c)

Spec == Init /\ [][Next]_serviceVars
=============================================================================
