---------------------------- MODULE ServeHistory ----------------------------
(***************************************************************************)
(* Serve with a history of the answers its handlers have given, for what   *)
(* clients may conclude from the order of their answers.                   *)
(***************************************************************************)
EXTENDS Serve, FiniteSetsExt

VARIABLES
    newest,   \* the latest time any client was told, for each server
    floor     \* newest as it was when a client's request was accepted

historyVars == <<serveVars, newest, floor>>

HistoryInit == /\ ServeInit
               /\ newest = [id \in Servers |-> 0]
               /\ floor = [c \in Clients |-> 0]

\* The times the handlers give to clients in this step.
ToldOf(id) == {request'[c].answer.at :
                 c \in {d \in Clients : /\ request[d] = Asked(id)
                                        /\ request'[d].state = "answered"}}

HistoryNext ==
    /\ ServeNext
    /\ newest' = [id \in Servers |-> Max({newest[id]} \cup ToldOf(id))]
    /\ floor' = [c \in Clients |->
                   CASE request'[c] = Idle -> 0
                     [] request[c] = Idle /\ request'[c] # Idle -> newest[request'[c].server]
                     [] OTHER -> floor[c]]

HistorySpec == HistoryInit /\ [][HistoryNext]_historyVars

\* A client whose request is accepted after any client was told of a row is
\* not told of an older one: handlers read at any moment, the wall clock steps
\* back, rows of equal times are saved (handleGetServer, GetLatestFacts).
AnswersNeverGoBack ==
    \A c \in Clients :
        request[c].state = "answered" /\ request[c].answer # Nothing =>
            request[c].answer.at >= floor[c]
=============================================================================
