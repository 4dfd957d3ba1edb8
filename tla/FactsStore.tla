---------------------------- MODULE FactsStore ----------------------------
(***************************************************************************)
(* Package store: the SQLite tables server_facts and provisioning_state    *)
(* behind one *sql.DB handle.                                              *)
(*                                                                         *)
(* server_facts is append-only, so a row's AUTOINCREMENT id is its place   *)
(* in the sequence rows.  A row is [server, at, data]: at is observed_at   *)
(* and data the JSON of the facts.  The tables outlive the handle.         *)
(***************************************************************************)
EXTENDS Naturals, Sequences, FiniteSets

CONSTANTS
    Servers,    \* server ids
    Records,    \* the provisioning records anyone may write
    NoRecord,   \* what a lookup finds for a server without a record
    Payloads,   \* the facts anyone may save
    MaxTime,    \* bound: readings of the clock are 1..MaxTime
    MaxRows     \* bound: rows saved

ASSUME StoreAssumption == /\ NoRecord \notin Records
                          /\ MaxTime \in Nat \ {0}
                          /\ MaxRows \in Nat

VARIABLES
    rows,   \* server_facts
    prov,   \* provisioning_state
    db,     \* the handle: "closed", "open"
    now     \* the wall clock; 0 is Go's zero time, which it never shows

storeVars == <<rows, prov, db>>

Row == [server : Servers, at : 1..MaxTime, data : Payloads]

StoreTypeOK == /\ rows \in Seq(Row)
               /\ prov \in [Servers -> Records \cup {NoRecord}]
               /\ db \in {"closed", "open"}
               /\ now \in 1..MaxTime

\* Nothing collected yet; the control plane may have provisioned servers.
StoreInit == /\ rows = <<>>
             /\ prov \in [Servers -> Records \cup {NoRecord}]

----------------------------------------------------------------------------
(* The queries.  Each is the set of row ids it returns: none, or one.      *)

RowsOf(id) == {i \in DOMAIN rows : rows[i].server = id}

\* GetLatestFacts gone wrong: no LIMIT, the oldest row of a tie, the last
\* insert whatever its time.
GetLatestNoLimit(id) ==
    {i \in RowsOf(id) : \A j \in RowsOf(id) : rows[j].at <= rows[i].at}
GetLatestOldestTie(id) ==
    {i \in RowsOf(id) : \A j \in RowsOf(id) :
        rows[j].at < rows[i].at \/ (rows[j].at = rows[i].at /\ i <= j)}
GetLatestInsert(id) == {i \in RowsOf(id) : \A j \in RowsOf(id) : j <= i}

\* ORDER BY observed_at DESC LIMIT 1.  SQLite answers it by walking the
\* index on (server_id, observed_at) backwards, and entries of an index with
\* equal keys are kept in row id order: the last insert wins a tie.
GetLatestFacts(id) ==
    {i \in RowsOf(id) : \A j \in RowsOf(id) :
        rows[j].at < rows[i].at \/ (rows[j].at = rows[i].at /\ j <= i)}

\* The row that GetAllLatestFacts returns for a server: MAX(id).
FleetLatest(id) == {i \in RowsOf(id) : \A j \in RowsOf(id) : j <= i}

\* GetAllLatestFacts and ListServerIDs.
GetAllLatestFacts == UNION {FleetLatest(id) : id \in Servers}
ListServerIDs == {id \in Servers : RowsOf(id) # {}}

----------------------------------------------------------------------------
(* The operations *)

\* store.Open, then the CREATE TABLE IF NOT EXISTS of both stores.
OpenStore == /\ db = "closed"
             /\ db' = "open"
             /\ UNCHANGED <<rows, prov>>

CloseStore == /\ db = "open"
              /\ db' = "closed"
              /\ UNCHANGED <<rows, prov>>

\* A save needs facts that encode as JSON, a context that is not cancelled
\* and an open handle.
CanSave(encodes, cancelled) == encodes /\ ~cancelled /\ db = "open"

\* SaveFacts gone wrong: a missing time is written as it is.
SaveFactsUnstamped(id, at, data) ==
    /\ rows' = Append(rows, [server |-> id, at |-> at, data |-> data])
    /\ UNCHANGED <<prov, db>>

\* Facts without a time of their own are stamped with the clock.
SaveFacts(id, at, data) ==
    /\ rows' = Append(rows, [server |-> id, at |-> IF at = 0 THEN now ELSE at,
                             data |-> data])
    /\ UNCHANGED <<prov, db>>

\* The upsert of a provisioning record, by this process or another one.
SetProvisioning(id, record) ==
    /\ prov' = [prov EXCEPT ![id] = record]
    /\ UNCHANGED <<rows, db>>

----------------------------------------------------------------------------
(* The store under callers that save any facts at any time.                *)

Clock == /\ now' \in 1..MaxTime
         /\ UNCHANGED storeVars

Save(id, at, data) ==
    /\ Len(rows) < MaxRows
    /\ CanSave(TRUE, FALSE)
    /\ SaveFacts(id, at, data)
    /\ UNCHANGED now

Provision(id, record) == SetProvisioning(id, record) /\ UNCHANGED now

OpenOrClose == (OpenStore \/ CloseStore) /\ UNCHANGED now

Init == StoreInit /\ db = "closed" /\ now = 1

Next == \/ Clock
        \/ OpenOrClose
        \/ \E id \in Servers :
              \/ \E at \in 0..MaxTime, data \in Payloads : Save(id, at, data)
              \/ \E record \in Records : Provision(id, record)

vars == <<rows, prov, db, now>>

Spec == Init /\ [][Next]_vars

----------------------------------------------------------------------------
(* Properties *)

\* A server with rows on record gets exactly one row from the single-server
\* query and one, its own, from the fleet query, also when rows share an
\* observed_at or are saved out of time order.
OneAnswer ==
    \A id \in ListServerIDs :
        /\ Cardinality(GetLatestFacts(id)) = 1
        /\ Cardinality(GetAllLatestFacts \cap RowsOf(id)) = 1

\* What GetLatestFacts serves never goes back in time: from one step to the
\* next it is a row observed at least as late, also across a close and
\* reopen of the handle and a clock that steps back.
ServedNeverGoesBack ==
    [][\A id \in Servers : \A i \in GetLatestFacts(id) :
          /\ GetLatestFacts(id)' # {}
          /\ \A j \in GetLatestFacts(id)' : rows'[j].at >= rows[i].at]_vars

\* Both queries serve the same row unless a row was saved with an earlier
\* observed_at than a row of the same server before it.
QueriesAgreeInOrder ==
    \A id \in Servers :
        (\A i, j \in RowsOf(id) : i < j => rows[i].at <= rows[j].at)
            => GetLatestFacts(id) = FleetLatest(id)
=============================================================================
