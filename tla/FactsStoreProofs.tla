-------------------------- MODULE FactsStoreProofs --------------------------
(***************************************************************************)
(* What holds of the facts store for any servers, records and payloads,    *)
(* with no bound on the clock or on the rows, proved from FactsStore, and  *)
(* of what package fleet adds up of the rows, for any facts in them.       *)
(***************************************************************************)
EXTENDS MCFactsStore, SumProofs, FiniteSetTheorems, TLAPS

\* Any save leaves a well-typed table with one row more.
LEMMA SaveType ==
    ASSUME NEW id \in Servers, NEW t \in 0..MaxTime, NEW data \in Payloads,
           StoreTypeOK, SaveFacts(id, t, data)
    PROVE  /\ rows' \in Seq(Row)
           /\ Len(rows') = Len(rows) + 1
           /\ \A i \in 1..Len(rows) : rows'[i] = rows[i]
           /\ rows'[Len(rows) + 1].server = id
  <1> DEFINE new == [server |-> id, at |-> IF t = 0 THEN now ELSE t, data |-> data]
  <1>1. new \in Row
    BY StoreAssumption DEF StoreTypeOK, Row
  <1>2. rows' = Append(rows, new)
    BY DEF SaveFacts
  <1>3. rows \in Seq(Row)
    BY DEF StoreTypeOK
  <1> HIDE DEF new
  <1>4. /\ rows' \in Seq(Row)
        /\ Len(rows') = Len(rows) + 1
        /\ \A i \in 1..Len(rows) : rows'[i] = rows[i]
        /\ rows'[Len(rows) + 1] = new
    BY <1>1, <1>2, <1>3
  <1>5. new.server = id
    BY DEF new
  <1> QED BY <1>4, <1>5

\* Type correctness of the store under any callers.
THEOREM StoreTypeCorrect == Spec => []StoreTypeOK
  <1>1. Init => StoreTypeOK
    BY StoreAssumption DEF Init, StoreInit, StoreTypeOK
  <1>2. StoreTypeOK /\ [Next]_vars => StoreTypeOK'
    <2> SUFFICES ASSUME StoreTypeOK, [Next]_vars PROVE StoreTypeOK'
      OBVIOUS
    <2>1. CASE Clock
      BY <2>1 DEF Clock, storeVars, StoreTypeOK
    <2>2. CASE OpenOrClose
      BY <2>2 DEF OpenOrClose, OpenStore, CloseStore, StoreTypeOK
    <2>3. ASSUME NEW id \in Servers, NEW t \in 0..MaxTime, NEW data \in Payloads,
                 Save(id, t, data)
          PROVE  StoreTypeOK'
      <3>1. rows' \in Seq(Row)
        BY <2>3, SaveType DEF Save
      <3> QED BY <2>3, <3>1 DEF Save, SaveFacts, StoreTypeOK
    <2>4. ASSUME NEW id \in Servers, NEW record \in Records, Provision(id, record)
          PROVE  StoreTypeOK'
      BY <2>4 DEF Provision, SetProvisioning, StoreTypeOK
    <2>5. CASE UNCHANGED vars
      BY <2>5 DEF vars, StoreTypeOK
    <2> QED BY <2>1, <2>2, <2>3, <2>4, <2>5 DEF Next
  <1> QED BY <1>1, <1>2, PTL DEF Spec

----------------------------------------------------------------------------
(* What the queries return *)

\* A server with rows on record has a latest row.  It is kept by induction on
\* the steps, not on the rows: a save makes the new row the latest, or leaves
\* the latest one in its place.
EveryServerServed ==
    \A id \in Servers : RowsOf(id) # {} => GetLatestFacts(id) # {}

\* No save removes a server's rows or takes its latest row back in time.
LatestMovesOn(id) ==
    \A i \in GetLatestFacts(id) :
        \E j \in GetLatestFacts(id)' : rows'[j].at >= rows[i].at

\* Two latest rows of a server are the same row.
LEMMA LatestUnique ==
    ASSUME StoreTypeOK, NEW id \in Servers,
           NEW i \in GetLatestFacts(id), NEW j \in GetLatestFacts(id)
    PROVE  i = j
  <1>1. /\ i \in 1..Len(rows) /\ j \in 1..Len(rows)
        /\ rows[i].at \in Nat /\ rows[j].at \in Nat
    <2>1. \A r \in Row : r.at \in Nat
      BY StoreAssumption DEF Row
    <2> QED BY <2>1 DEF GetLatestFacts, RowsOf, StoreTypeOK
  <1>2. /\ rows[j].at < rows[i].at \/ (rows[j].at = rows[i].at /\ j <= i)
        /\ rows[i].at < rows[j].at \/ (rows[i].at = rows[j].at /\ i <= j)
    BY DEF GetLatestFacts
  <1> QED BY <1>1, <1>2

\* The effect of a save on the latest row of each server.
LEMMA SaveServes ==
    ASSUME NEW id \in Servers, NEW t \in 0..MaxTime, NEW data \in Payloads,
           StoreTypeOK, EveryServerServed, SaveFacts(id, t, data)
    PROVE  EveryServerServed' /\ \A s \in Servers : LatestMovesOn(s)
  <1> DEFINE n == Len(rows) + 1
  <1>1. /\ rows' \in Seq(Row)
        /\ Len(rows') = n
        /\ \A i \in 1..Len(rows) : rows'[i] = rows[i]
        /\ rows'[n].server = id
    BY SaveType
  <1>2. /\ rows \in Seq(Row) /\ DOMAIN rows = 1..Len(rows) /\ Len(rows) \in Nat
        /\ DOMAIN rows' = 1..n /\ n \in DOMAIN rows'
        /\ \A i \in DOMAIN rows' : i \in DOMAIN rows \/ i = n
        /\ DOMAIN rows \subseteq DOMAIN rows'
    BY <1>1 DEF StoreTypeOK
  <1>3. /\ \A i \in DOMAIN rows : rows[i].at \in Nat
        /\ \A i \in DOMAIN rows' : rows'[i].at \in Nat
    <2>1. \A r \in Row : r.at \in Nat
      BY StoreAssumption DEF Row
    <2> QED BY <1>1, <1>2, <2>1
  <1> HIDE DEF n
  \* Another server keeps its latest row.
  <1>4. ASSUME NEW s \in Servers, s # id, NEW i \in GetLatestFacts(s)
        PROVE  i \in GetLatestFacts(s)' /\ rows'[i].at = rows[i].at
    <2>1. RowsOf(s)' = RowsOf(s)
      BY <1>1, <1>2, <1>4 DEF RowsOf
    <2>2. \A j \in RowsOf(s) : rows'[j] = rows[j]
      BY <1>1, <1>2 DEF RowsOf
    <2> QED BY <2>1, <2>2 DEF GetLatestFacts
  \* The saved row takes over from a row that is not later ...
  <1>5. ASSUME NEW i \in GetLatestFacts(id), rows[i].at <= rows'[n].at
        PROVE  n \in GetLatestFacts(id)'
    <2> SUFFICES ASSUME NEW j \in RowsOf(id)'
                 PROVE  rows'[j].at < rows'[n].at \/ (rows'[j].at = rows'[n].at /\ j <= n)
      BY <1>1, <1>2 DEF GetLatestFacts, RowsOf
    <2>1. CASE j = n
      BY <2>1, <1>2
    <2>2. CASE j \in DOMAIN rows
      <3>1. j \in RowsOf(id) /\ rows'[j] = rows[j] /\ j <= n
        BY <2>2, <1>1, <1>2 DEF RowsOf, n
      <3>2. rows[j].at <= rows[i].at
        BY <3>1, <2>2, <1>3 DEF GetLatestFacts, RowsOf
      <3>3. i \in DOMAIN rows
        BY DEF GetLatestFacts, RowsOf
      <3> QED BY <3>1, <3>2, <3>3, <2>2, <1>2, <1>3, <1>5
    <2> QED BY <2>1, <2>2, <1>2 DEF RowsOf
  \* ... and leaves a later one in its place.
  <1>6. ASSUME NEW i \in GetLatestFacts(id), rows'[n].at < rows[i].at
        PROVE  i \in GetLatestFacts(id)' /\ rows'[i].at = rows[i].at
    <2>1. i \in DOMAIN rows /\ i \in RowsOf(id) /\ rows'[i] = rows[i]
      BY <1>1, <1>2 DEF GetLatestFacts, RowsOf
    <2>2. i \in RowsOf(id)'
      BY <2>1, <1>2 DEF RowsOf
    <2> SUFFICES ASSUME NEW j \in RowsOf(id)'
                 PROVE  rows'[j].at < rows'[i].at \/ (rows'[j].at = rows'[i].at /\ j <= i)
      BY <2>1, <2>2 DEF GetLatestFacts
    <2>3. CASE j = n
      BY <2>1, <2>3, <1>6
    <2>4. CASE j \in DOMAIN rows
      <3>1. j \in RowsOf(id) /\ rows'[j] = rows[j]
        BY <2>4, <1>1, <1>2 DEF RowsOf
      <3> QED BY <3>1, <2>1 DEF GetLatestFacts
    <2> QED BY <2>3, <2>4, <1>2 DEF RowsOf
  \* The first row of a server is its latest.
  <1>7. ASSUME RowsOf(id) = {}
        PROVE  n \in GetLatestFacts(id)'
    <2>1. \A j \in RowsOf(id)' : j = n
      BY <1>1, <1>2, <1>7 DEF RowsOf
    <2> QED BY <2>1, <1>1, <1>2 DEF GetLatestFacts, RowsOf
  <1>8. \A s \in Servers : LatestMovesOn(s)
    <2> SUFFICES ASSUME NEW s \in Servers, NEW i \in GetLatestFacts(s)
                 PROVE  \E j \in GetLatestFacts(s)' : rows'[j].at >= rows[i].at
      BY DEF LatestMovesOn
    <2>1. i \in DOMAIN rows
      BY DEF GetLatestFacts, RowsOf
    <2>2. CASE s # id
      BY <1>4, <1>3, <2>1, <2>2
    <2>3. CASE s = id /\ rows[i].at <= rows'[n].at
      BY <1>5, <1>2, <1>3, <2>1, <2>3
    <2>4. CASE s = id /\ rows'[n].at < rows[i].at
      BY <1>6, <1>3, <2>1, <2>4
    <2> QED BY <2>1, <2>2, <2>3, <2>4, <1>2, <1>3
  <1>9. EveryServerServed'
    <2> SUFFICES ASSUME NEW s \in Servers, RowsOf(s)' # {}
                 PROVE  GetLatestFacts(s)' # {}
      BY DEF EveryServerServed
    <2>1. CASE RowsOf(s) # {}
      BY <2>1, <1>8 DEF EveryServerServed, LatestMovesOn
    <2>2. CASE RowsOf(s) = {} /\ s = id
      BY <2>2, <1>7
    <2>3. CASE RowsOf(s) = {} /\ s # id
      BY <2>3, <1>1, <1>2 DEF RowsOf
    <2> QED BY <2>1, <2>2, <2>3
  <1> QED BY <1>8, <1>9

\* The same for the row of greatest id: a save makes the new row the one.
EveryServerInFleet ==
    \A id \in Servers : RowsOf(id) # {} => FleetLatest(id) # {}

\* After a save the saved row is the fleet lister's MAX(id) of its server and
\* no other server's has changed (list.go:45-73).
LEMMA SaveInFleet ==
    ASSUME NEW id \in Servers, NEW t \in 0..MaxTime, NEW data \in Payloads,
           StoreTypeOK, EveryServerInFleet, SaveFacts(id, t, data)
    PROVE  EveryServerInFleet'
  <1> DEFINE n == Len(rows) + 1
  <1>1. /\ rows' \in Seq(Row)
        /\ Len(rows') = n
        /\ \A i \in 1..Len(rows) : rows'[i] = rows[i]
        /\ rows'[n].server = id
    BY SaveType
  <1>2. rows \in Seq(Row)
    BY DEF StoreTypeOK
  <1> SUFFICES ASSUME NEW s \in Servers, RowsOf(s)' # {}
               PROVE  FleetLatest(s)' # {}
    BY DEF EveryServerInFleet
  <1>3. CASE s = id
    <2>1. n \in RowsOf(s)' /\ \A j \in RowsOf(s)' : j <= n
      BY <1>1, <1>2, <1>3 DEF RowsOf
    <2> QED BY <2>1 DEF FleetLatest
  <1>4. CASE s # id
    <2>1. RowsOf(s)' = RowsOf(s)
      BY <1>1, <1>2, <1>4 DEF RowsOf
    <2>2. FleetLatest(s)' = FleetLatest(s)
      BY <2>1 DEF FleetLatest
    <2> QED BY <2>1, <2>2 DEF EveryServerInFleet
  <1> QED BY <1>3, <1>4

----------------------------------------------------------------------------
(* The theorems about the queries *)

\* The inductive invariant.
QueriesInv == StoreTypeOK /\ EveryServerServed /\ EveryServerInFleet

\* No operation of package store leaves a server with rows unanswered.
LEMMA QueriesInvStep ==
    ASSUME QueriesInv, [Next]_vars
    PROVE  EveryServerServed' /\ EveryServerInFleet' /\ \A s \in Servers : LatestMovesOn(s)
  <1>1. CASE UNCHANGED rows
    <2>1. \A s \in Servers : /\ RowsOf(s)' = RowsOf(s)
                             /\ GetLatestFacts(s)' = GetLatestFacts(s)
                             /\ FleetLatest(s)' = FleetLatest(s)
      BY <1>1 DEF RowsOf, GetLatestFacts, FleetLatest
    <2>2. \A r \in Row : r.at \in Nat
      BY StoreAssumption DEF Row
    <2>3. \A s \in Servers : \A i \in GetLatestFacts(s) : rows'[i].at >= rows[i].at
      BY <2>2, <1>1 DEF QueriesInv, StoreTypeOK, GetLatestFacts, RowsOf
    <2> QED BY <2>1, <2>3 DEF QueriesInv, EveryServerServed, EveryServerInFleet, LatestMovesOn
  <1>2. ASSUME NEW id \in Servers, NEW t \in 0..MaxTime, NEW data \in Payloads,
               Save(id, t, data)
        PROVE  EveryServerServed' /\ EveryServerInFleet' /\ \A s \in Servers : LatestMovesOn(s)
    BY <1>2, SaveServes, SaveInFleet DEF QueriesInv, Save
  <1>3. [Next]_vars => \/ UNCHANGED rows
                      \/ \E id \in Servers, t \in 0..MaxTime, data \in Payloads :
                            Save(id, t, data)
    BY DEF Next, vars, Clock, storeVars, OpenOrClose, OpenStore, CloseStore,
           Provision, SetProvisioning
  <1> QED BY <1>1, <1>2, <1>3

\* The inductive invariant holds in every state of the store: well-typed tables
\* and an answer from either query for each server with rows.
THEOREM QueriesInvariant == Spec => []QueriesInv
  <1>1. Init => EveryServerServed /\ EveryServerInFleet
    BY DEF Init, StoreInit, EveryServerServed, EveryServerInFleet, RowsOf
  <1>2. QueriesInv /\ StoreTypeOK' /\ [Next]_vars => QueriesInv'
    BY QueriesInvStep DEF QueriesInv
  <1>3. StoreTypeOK /\ EveryServerServed /\ EveryServerInFleet => QueriesInv
    BY DEF QueriesInv
  <1> QED BY <1>1, <1>2, <1>3, StoreTypeCorrect, PTL DEF Spec

\* A server with rows on record has one answer to either query.
THEOREM StoreOneAnswer == Spec => []OneAnswer
  <1>1. QueriesInv => OneAnswer
    <2> SUFFICES ASSUME QueriesInv, NEW id \in ListServerIDs
                 PROVE  /\ Cardinality(GetLatestFacts(id)) = 1
                        /\ Cardinality(GetAllLatestFacts \cap RowsOf(id)) = 1
      BY DEF OneAnswer
    <2>1. id \in Servers /\ RowsOf(id) # {}
      BY DEF ListServerIDs
    <2>2. PICK i : i \in GetLatestFacts(id)
      BY <2>1 DEF QueriesInv, EveryServerServed
    <2>3. GetLatestFacts(id) = {i}
      BY <2>1, <2>2, LatestUnique DEF QueriesInv
    <2>4. PICK k : k \in FleetLatest(id)
      BY <2>1 DEF QueriesInv, EveryServerInFleet
    <2>5. FleetLatest(id) = {k}
      <3>1. \A j \in FleetLatest(id) : j \in Nat /\ j <= k /\ k <= j
        BY <2>4 DEF FleetLatest, RowsOf, QueriesInv, StoreTypeOK
      <3> QED BY <2>4, <3>1
    <2>6. GetAllLatestFacts \cap RowsOf(id) = FleetLatest(id)
      BY <2>1 DEF GetAllLatestFacts, FleetLatest, RowsOf
    <2> QED BY <2>3, <2>5, <2>6, FS_Singleton
  <1> QED BY <1>1, QueriesInvariant, PTL

\* What the single-server query serves never goes back in time.
THEOREM StoreServesForward == Spec => ServedNeverGoesBack
  <1> DEFINE Forward == \A id \in Servers : \A i \in GetLatestFacts(id) :
                          /\ GetLatestFacts(id)' # {}
                          /\ \A j \in GetLatestFacts(id)' : rows'[j].at >= rows[i].at
  <1>1. QueriesInv /\ StoreTypeOK' /\ [Next]_vars => Forward
    <2> SUFFICES ASSUME QueriesInv, StoreTypeOK', [Next]_vars,
                        NEW id \in Servers, NEW i \in GetLatestFacts(id)
                 PROVE  /\ GetLatestFacts(id)' # {}
                        /\ \A j \in GetLatestFacts(id)' : rows'[j].at >= rows[i].at
      OBVIOUS
    <2>1. PICK k \in GetLatestFacts(id)' : rows'[k].at >= rows[i].at
      BY QueriesInvStep DEF LatestMovesOn
    <2>2. \A r \in Row : r.at \in Nat
      BY StoreAssumption DEF Row
    <2>3. rows[i].at \in Nat
      BY <2>2 DEF GetLatestFacts, RowsOf, QueriesInv, StoreTypeOK
    <2>4. \A j \in GetLatestFacts(id)' : rows'[j].at \in Nat
      BY <2>2 DEF GetLatestFacts, RowsOf, StoreTypeOK
    <2>5. k \in RowsOf(id)'
      BY <2>1 DEF GetLatestFacts
    <2>6. \A j \in GetLatestFacts(id)' : rows'[j].at >= rows'[k].at
      BY <2>1, <2>4, <2>5 DEF GetLatestFacts
    <2> QED BY <2>1, <2>3, <2>4, <2>6
  <1> QED BY <1>1, QueriesInvariant, StoreTypeCorrect, PTL DEF ServedNeverGoesBack, Spec

\* Rows in time order: the latest one has the greatest id.
LEMMA LatestInOrder ==
    ASSUME StoreTypeOK
    PROVE  QueriesAgreeInOrder
  <1> SUFFICES ASSUME NEW id \in Servers,
                      \A i, j \in RowsOf(id) : i < j => rows[i].at <= rows[j].at
               PROVE  GetLatestFacts(id) = FleetLatest(id)
    BY DEF QueriesAgreeInOrder
  <1>1. \A r \in Row : r.at \in Nat
    BY StoreAssumption DEF Row
  <1>2. \A i \in RowsOf(id) : i \in Nat /\ rows[i].at \in Nat
    BY <1>1 DEF StoreTypeOK, RowsOf
  <1>3. GetLatestFacts(id) \subseteq FleetLatest(id)
    BY <1>2 DEF GetLatestFacts, FleetLatest
  <1>4. FleetLatest(id) \subseteq GetLatestFacts(id)
    BY <1>2 DEF GetLatestFacts, FleetLatest
  <1> QED BY <1>3, <1>4

\* The two queries serve the same row of a server whose rows were saved in
\* time order.
THEOREM StoreQueriesAgree == Spec => []QueriesAgreeInOrder
  BY LatestInOrder, StoreTypeCorrect, PTL

----------------------------------------------------------------------------
(* What the fleet queries add up *)

\* The values a function has on a finite set.
LEMMA ImageSize ==
    ASSUME NEW T, IsFiniteSet(T), NEW f, NEW S, S = {f[x] : x \in T}
    PROVE  /\ IsFiniteSet(S)
           /\ (\A x, y \in T : f[x] = f[y] => x = y) => Cardinality(S) = Cardinality(T)
  <1> DEFINE g == [x \in T |-> f[x]]
  <1>1. g \in Surjection(T, S)
    <2>1. g \in [T -> S]
      OBVIOUS
    <2>2. \A y \in S : \E x \in T : g[x] = y
      OBVIOUS
    <2> HIDE DEF g
    <2> QED BY <2>1, <2>2 DEF Surjection
  <1>2. (\A x, y \in T : f[x] = f[y] => x = y) => g \in Injection(T, S)
    <2> SUFFICES ASSUME \A x, y \in T : f[x] = f[y] => x = y
                 PROVE  g \in Injection(T, S)
      OBVIOUS
    <2>1. g \in [T -> S]
      OBVIOUS
    <2>2. \A x, y \in T : g[x] = g[y] => x = y
      <3>1. \A x \in T : g[x] = f[x]
        OBVIOUS
      <3> HIDE DEF g
      <3> QED BY <3>1
    <2> HIDE DEF g
    <2> QED BY <2>1, <2>2 DEF Injection, IsInjective
  <1> HIDE DEF g
  <1>3. IsFiniteSet(S) /\ (g \in Injection(T, S) => Cardinality(S) = Cardinality(T))
    BY <1>1, FS_Surjection
  <1> QED BY <1>2, <1>3

\* One row each of some servers, with data of the store's.
OneEach(all) == /\ IsFiniteSet(all)
                /\ \A r \in all : r.data \in Payloads
                /\ \A r, q \in all : r.server = q.server => r = q

NicsOf(r) == TypedOf(r).NICs

LEMMA NicsCounted ==
    ASSUME NEW all, OneEach(all), NEW r \in all
    PROVE  IsFiniteSet(NicsOf(r)) /\ \A n \in NicsOf(r) : n.speed \in Nat
  BY FleetAssumption DEF OneEach, NicsOf, TypedOf

\* The bandwidth of a server's NICs is the sum of their speeds.
Speeds(nics) == [n \in nics |-> n.speed]

LEMMA BandwidthIsSum ==
    ASSUME NEW nics
    PROVE  totalBandwidthGbps(nics) = SumOf(Speeds(nics), nics)
  <1> DEFINE w == Speeds(nics)
             Next1(g, s) == IF s = {} THEN 0 ELSE Some(s).speed + g[s \ {Some(s)}]
             Next2(g, s) == IF s = {} THEN 0 ELSE w[Some(s)] + g[s \ {Some(s)}]
  <1>1. totalBandwidthGbps(nics)
          = (CHOOSE g : g = [s \in SUBSET nics |-> Next1(g, s)])[nics]
    BY Zenon DEF totalBandwidthGbps, MapThenSumSet, MapThenFoldSet, Some
  <1>2. \A s \in SUBSET nics : s # {} => w[Some(s)] = Some(s).speed
    BY SomeIn DEF Speeds
  <1>3. \A g : \A s \in SUBSET nics : Next1(g, s) = Next2(g, s)
    BY <1>2
  <1>4. \A g : [s \in SUBSET nics |-> Next1(g, s)] = [s \in SUBSET nics |-> Next2(g, s)]
    BY <1>3
  <1>5. (CHOOSE g : g = [s \in SUBSET nics |-> Next1(g, s)])
          = (CHOOSE g : g = [s \in SUBSET nics |-> Next2(g, s)])
    BY <1>4
  <1>6. Sums(w, nics) = CHOOSE g : g = [s \in SUBSET nics |-> Next2(g, s)]
    BY Zenon DEF Sums, SumsUp
  <1> QED BY <1>1, <1>5, <1>6 DEF SumOf

\* The rows' bandwidths, by the fleet's summary and by the API's pages.
Bandwidths(all) == [r \in all |-> totalBandwidthGbps(NicsOf(r))]

LEMMA FleetGbpsIsSum ==
    ASSUME NEW all
    PROVE  Aggregate(all).TotalNICGbps = SumOf(Bandwidths(all), all)
  <1> DEFINE w == Bandwidths(all)
             Gbps(r) == MapThenSumSet(LAMBDA n : n.speed, TypedOf(r).NICs)
             Next1(g, s) == IF s = {} THEN 0 ELSE Gbps(Some(s)) + g[s \ {Some(s)}]
             Next2(g, s) == IF s = {} THEN 0 ELSE w[Some(s)] + g[s \ {Some(s)}]
  <1>0. Aggregate(all).TotalNICGbps = MapThenSumSet(Gbps, all)
    BY DEF Aggregate, Total
  <1>1. MapThenSumSet(Gbps, all)
          = (CHOOSE g : g = [s \in SUBSET all |-> Next1(g, s)])[all]
    BY Zenon DEF MapThenSumSet, MapThenFoldSet, Some
  <1>2. \A s \in SUBSET all : s # {} => w[Some(s)] = Gbps(Some(s))
    BY SomeIn DEF Bandwidths, totalBandwidthGbps, NicsOf
  <1> HIDE DEF Gbps
  <1>3. \A g : \A s \in SUBSET all : Next1(g, s) = Next2(g, s)
    BY <1>2
  <1>4. \A g : [s \in SUBSET all |-> Next1(g, s)] = [s \in SUBSET all |-> Next2(g, s)]
    BY <1>3
  <1>5. (CHOOSE g : g = [s \in SUBSET all |-> Next1(g, s)])
          = (CHOOSE g : g = [s \in SUBSET all |-> Next2(g, s)])
    BY <1>4
  <1>6. Sums(w, all) = CHOOSE g : g = [s \in SUBSET all |-> Next2(g, s)]
    BY Zenon DEF Sums, SumsUp
  <1> QED BY <1>0, <1>1, <1>5, <1>6 DEF SumOf

\* The speeds in the fleet, and the rows' ports of a speed.
SpeedsOf(all) == {n.speed : n \in UNION {NicsOf(r) : r \in all}} \ {0}
PortsAt(r, speed) == Cardinality({n \in NicsOf(r) : n.speed = speed})
PortsOf(all, speed) == [r \in all |-> PortsAt(r, speed)]

LEMMA PortsIsSum ==
    ASSUME NEW all, NEW speed
    PROVE  Total(LAMBDA r : Cardinality({n \in TypedOf(r).NICs : n.speed = speed}), all)
             = SumOf(PortsOf(all, speed), all)
  <1> DEFINE w == PortsOf(all, speed)
             At(r) == Cardinality({n \in TypedOf(r).NICs : n.speed = speed})
             Next1(g, s) == IF s = {} THEN 0 ELSE At(Some(s)) + g[s \ {Some(s)}]
             Next2(g, s) == IF s = {} THEN 0 ELSE w[Some(s)] + g[s \ {Some(s)}]
  <1>0. Total(LAMBDA r : Cardinality({n \in TypedOf(r).NICs : n.speed = speed}), all) = MapThenSumSet(At, all)
    BY DEF Total
  <1>1. MapThenSumSet(At, all)
          = (CHOOSE g : g = [s \in SUBSET all |-> Next1(g, s)])[all]
    BY Zenon DEF MapThenSumSet, MapThenFoldSet, Some
  <1>2. \A s \in SUBSET all : s # {} => w[Some(s)] = At(Some(s))
    BY SomeIn DEF PortsOf, PortsAt, NicsOf
  <1> HIDE DEF At
  <1>3. \A g : \A s \in SUBSET all : Next1(g, s) = Next2(g, s)
    BY <1>2
  <1>4. \A g : [s \in SUBSET all |-> Next1(g, s)] = [s \in SUBSET all |-> Next2(g, s)]
    BY <1>3
  <1>5. (CHOOSE g : g = [s \in SUBSET all |-> Next1(g, s)])
          = (CHOOSE g : g = [s \in SUBSET all |-> Next2(g, s)])
    BY <1>4
  <1>6. Sums(w, all) = CHOOSE g : g = [s \in SUBSET all |-> Next2(g, s)]
    BY Zenon DEF Sums, SumsUp
  <1> QED BY <1>0, <1>1, <1>5, <1>6 DEF SumOf

LEMMA PortsGbpsIsSum ==
    ASSUME NEW all, NEW G, G = DOMAIN Aggregate(all).NICSpeedPorts
    PROVE  MapThenSumSet(LAMBDA g : g * Aggregate(all).NICSpeedPorts[g],
                         DOMAIN Aggregate(all).NICSpeedPorts)
             = SumOf([g \in G |-> g * Aggregate(all).NICSpeedPorts[g]], G)
  <1> DEFINE w == [x \in G |-> x * Aggregate(all).NICSpeedPorts[x]]
             Gbps(x) == x * Aggregate(all).NICSpeedPorts[x]
             Next1(g, s) == IF s = {} THEN 0 ELSE Gbps(Some(s)) + g[s \ {Some(s)}]
             Next2(g, s) == IF s = {} THEN 0 ELSE w[Some(s)] + g[s \ {Some(s)}]
  <1>0. MapThenSumSet(LAMBDA g : g * Aggregate(all).NICSpeedPorts[g],
                DOMAIN Aggregate(all).NICSpeedPorts) = MapThenSumSet(Gbps, G)
    OBVIOUS
  <1>1. MapThenSumSet(Gbps, G)
          = (CHOOSE g : g = [s \in SUBSET G |-> Next1(g, s)])[G]
    BY Zenon DEF MapThenSumSet, MapThenFoldSet, Some
  <1>2. \A s \in SUBSET G : s # {} => w[Some(s)] = Gbps(Some(s))
    BY SomeIn
  <1> HIDE DEF Gbps
  <1>3. \A g : \A s \in SUBSET G : Next1(g, s) = Next2(g, s)
    BY <1>2
  <1>4. \A g : [s \in SUBSET G |-> Next1(g, s)] = [s \in SUBSET G |-> Next2(g, s)]
    BY <1>3
  <1>5. (CHOOSE g : g = [s \in SUBSET G |-> Next1(g, s)])
          = (CHOOSE g : g = [s \in SUBSET G |-> Next2(g, s)])
    BY <1>4
  <1>6. Sums(w, G) = CHOOSE g : g = [s \in SUBSET G |-> Next2(g, s)]
    BY Zenon DEF Sums, SumsUp
  <1> QED BY <1>0, <1>1, <1>5, <1>6 DEF SumOf

LEMMA SizesIsSum ==
    ASSUME NEW C
    PROVE  MapThenSumSet(Cardinality, C) = SumOf([s \in C |-> Cardinality(s)], C)
  <1> DEFINE w == [x \in C |-> Cardinality(x)]
             Next1(g, s) == IF s = {} THEN 0 ELSE Cardinality(Some(s)) + g[s \ {Some(s)}]
             Next2(g, s) == IF s = {} THEN 0 ELSE w[Some(s)] + g[s \ {Some(s)}]
  <1>1. MapThenSumSet(Cardinality, C)
          = (CHOOSE g : g = [s \in SUBSET C |-> Next1(g, s)])[C]
    BY Zenon DEF MapThenSumSet, MapThenFoldSet, Some
  <1>2. \A s \in SUBSET C : s # {} => w[Some(s)] = Cardinality(Some(s))
    BY SomeIn
  <1>3. \A g : \A s \in SUBSET C : Next1(g, s) = Next2(g, s)
    BY <1>2
  <1>4. \A g : [s \in SUBSET C |-> Next1(g, s)] = [s \in SUBSET C |-> Next2(g, s)]
    BY <1>3
  <1>5. (CHOOSE g : g = [s \in SUBSET C |-> Next1(g, s)])
          = (CHOOSE g : g = [s \in SUBSET C |-> Next2(g, s)])
    BY <1>4
  <1>6. Sums(w, C) = CHOOSE g : g = [s \in SUBSET C |-> Next2(g, s)]
    BY Zenon DEF Sums, SumsUp
  <1> QED BY <1>1, <1>5, <1>6 DEF SumOf

\* The places of a part where it is bumped.
BumpsAt(r, p) == {i \in PartsBumped(r.data.parts) : r.data.parts[i] = p}
Bumps(all, p) == [r \in all |-> Cardinality(BumpsAt(r, p))]

LEMMA SpreadIsSum ==
    ASSUME NEW all, NEW p \in DOMAIN FirmwareSpread(all)
    PROVE  FirmwareSpread(all)[p] = SumOf(Bumps(all, p), all)
  <1> DEFINE w == Bumps(all, p)
             Seen(r) == Cardinality({i \in PartsBumped(r.data.parts) : r.data.parts[i] = p})
             Next1(g, s) == IF s = {} THEN 0 ELSE Seen(Some(s)) + g[s \ {Some(s)}]
             Next2(g, s) == IF s = {} THEN 0 ELSE w[Some(s)] + g[s \ {Some(s)}]
  <1>0. FirmwareSpread(all)[p] = MapThenSumSet(Seen, all)
    BY DEF FirmwareSpread, Total
  <1>1. MapThenSumSet(Seen, all)
          = (CHOOSE g : g = [s \in SUBSET all |-> Next1(g, s)])[all]
    BY Zenon DEF MapThenSumSet, MapThenFoldSet, Some
  <1>2. \A s \in SUBSET all : s # {} => w[Some(s)] = Seen(Some(s))
    BY SomeIn DEF Bumps, BumpsAt
  <1> HIDE DEF Seen
  <1>3. \A g : \A s \in SUBSET all : Next1(g, s) = Next2(g, s)
    BY <1>2
  <1>4. \A g : [s \in SUBSET all |-> Next1(g, s)] = [s \in SUBSET all |-> Next2(g, s)]
    BY <1>3
  <1>5. (CHOOSE g : g = [s \in SUBSET all |-> Next1(g, s)])
          = (CHOOSE g : g = [s \in SUBSET all |-> Next2(g, s)])
    BY <1>4
  <1>6. Sums(w, all) = CHOOSE g : g = [s \in SUBSET all |-> Next2(g, s)]
    BY Zenon DEF Sums, SumsUp
  <1> QED BY <1>0, <1>1, <1>5, <1>6 DEF SumOf

\* Two sets with nothing in common.
LEMMA SizeOfBoth ==
    ASSUME NEW S, IsFiniteSet(S), NEW T, IsFiniteSet(T), S \cap T = {}
    PROVE  /\ IsFiniteSet(S \cup T)
           /\ Cardinality(S \cup T) = Cardinality(S) + Cardinality(T)
           /\ Cardinality(S) \in Nat /\ Cardinality(T) \in Nat
  <1>1. Cardinality(S \cap T) = 0
    BY FS_EmptySet
  <1>2. Cardinality(S \cup T) = Cardinality(S) + Cardinality(T) - Cardinality(S \cap T)
    BY FS_Union
  <1>3. IsFiniteSet(S \cup T) /\ Cardinality(S) \in Nat /\ Cardinality(T) \in Nat
    BY FS_Union, FS_CardinalityType
  <1> QED BY <1>1, <1>2, <1>3

\* Every server is counted in one state of health.
LEMMA HealthAddsUp ==
    ASSUME NEW all, OneEach(all)
    PROVE  Aggregate(all).Healthy + Aggregate(all).Degraded + Aggregate(all).Unknown
             = Aggregate(all).Servers
  <1>1. PICK H : H = {r \in all : r.data.health = "healthy"}
    OBVIOUS
  <1>2. PICK D : D = {r \in all : r.data.health = "degraded"}
    OBVIOUS
  <1>3. PICK U : U = {r \in all : r.data.health \notin {"healthy", "degraded"}}
    OBVIOUS
  <1>4. /\ Aggregate(all).Healthy = Cardinality(H)
        /\ Aggregate(all).Degraded = Cardinality(D)
        /\ Aggregate(all).Unknown = Cardinality(U)
        /\ Aggregate(all).Servers = Cardinality(all)
    BY <1>1, <1>2, <1>3, Zenon DEF Aggregate, UnknownHealth, Count
  <1>5. /\ H \in SUBSET all /\ D \in SUBSET all /\ U \in SUBSET all
        /\ H \cap D = {} /\ (H \cup D) \cap U = {} /\ (H \cup D) \cup U = all
    BY <1>1, <1>2, <1>3
  <1>6. IsFiniteSet(H) /\ IsFiniteSet(D) /\ IsFiniteSet(U)
    BY <1>5, FS_Subset DEF OneEach
  <1>7. IsFiniteSet(H \cup D) /\ Cardinality(H \cup D) = Cardinality(H) + Cardinality(D)
    BY <1>5, <1>6, SizeOfBoth
  <1>8. Cardinality((H \cup D) \cup U) = Cardinality(H \cup D) + Cardinality(U)
    BY <1>5, <1>6, <1>7, SizeOfBoth
  <1> QED BY <1>4, <1>5, <1>7, <1>8

\* The rows whose page shows one of the states.
InStates(all, states) ==
    {r \in all : PublicView(r.data.facts, r.data.health).state \in states}

\* The active servers are healthy; of the healthy ones, those that are not are
\* being provisioned.
LEMMA HealthyStates ==
    ASSUME NEW all, OneEach(all)
    PROVE  Aggregate(all).Healthy
             \in Cardinality(InStates(all, {"active"}))
                   .. Cardinality(InStates(all, {"active", "provisioning"}))
  <1>1. PICK H : H = {r \in all : r.data.health = "healthy"}
    OBVIOUS
  <1>2. Aggregate(all).Healthy = Cardinality(H)
    BY <1>1, Zenon DEF Aggregate, Count
  <1>3. PICK A : A = InStates(all, {"active"})
    OBVIOUS
  <1>4. PICK B : B = InStates(all, {"active", "provisioning"})
    OBVIOUS
  <1>5. A \in SUBSET H /\ H \in SUBSET B /\ B \in SUBSET all
    <2>1. \A t, health : deriveState(t, health) = "active" => health = "healthy"
      BY DEF deriveState
    <2>2. \A t, health : health = "healthy"
                            => deriveState(t, health) \in {"active", "provisioning"}
      BY DEF deriveState
    <2>3. \A f, health : PublicView(f, health).state = deriveState(f.typed, health)
      BY DEF PublicView
    <2> QED BY <1>1, <1>3, <1>4, <2>1, <2>2, <2>3 DEF InStates
  <1>6. IsFiniteSet(B) /\ IsFiniteSet(H)
    BY <1>5, FS_Subset DEF OneEach
  <1>7. /\ Cardinality(A) <= Cardinality(H) /\ Cardinality(H) <= Cardinality(B)
        /\ Cardinality(A) \in Nat /\ Cardinality(H) \in Nat /\ Cardinality(B) \in Nat
    <2>1. IsFiniteSet(A)
      BY <1>5, <1>6, FS_Subset
    <2> QED BY <1>5, <1>6, <2>1, FS_Subset, FS_CardinalityType
  <1> QED BY <1>2, <1>3, <1>4, <1>7

\* A server is found by the capabilities its own page shows.
LEMMA FoundByPage ==
    ASSUME NEW all, NEW caps \in SUBSET {"sriov", "rdma"}
    PROVE  FindCapable(all, caps)
             = {r.server : r \in
                  {x \in all : caps \subseteq PublicView(x.data.facts, x.data.health).capable}}
  <1>1. \A f, health : PublicView(f, health).capable
                         = f.caps \cap {"local_nvme", "sriov", "rdma", "secure_boot"}
    BY DEF PublicView
  <1>2. \A c : caps \subseteq c <=> caps \subseteq c \cap {"local_nvme", "sriov", "rdma", "secure_boot"}
    OBVIOUS
  <1>3. {x \in all : caps \subseteq x.data.facts.caps}
          = {x \in all : caps \subseteq PublicView(x.data.facts, x.data.health).capable}
    BY <1>1, <1>2
  <1> QED BY <1>3 DEF FindCapable

\* The servers of a failure domain.
IdsOf(all) == {r.server : r \in all}
IdsIn(all, d) == {r.server : r \in {x \in all : DomainOf(x) = d}}

LEMMA OneIdEach ==
    ASSUME NEW all, OneEach(all)
    PROVE  IsFiniteSet(IdsOf(all)) /\ Cardinality(IdsOf(all)) = Cardinality(all)
  <1>1. PICK f : f = [r \in all |-> r.server]
    OBVIOUS
  <1>2. IdsOf(all) = {f[r] : r \in all}
    BY <1>1 DEF IdsOf
  <1>3. \A r, q \in all : f[r] = f[q] => r = q
    BY <1>1 DEF OneEach
  <1>4. IsFiniteSet(all)
    BY DEF OneEach
  <1> QED BY <1>2, <1>3, <1>4, ImageSize

\* Every server is in one failure domain.
LEMMA DomainsAddUp ==
    ASSUME NEW all, OneEach(all)
    PROVE  MapThenSumSet(Cardinality, {Aggregate(all).FailureDomains[d] :
                                          d \in DOMAIN Aggregate(all).FailureDomains})
             = Aggregate(all).Servers
  <1>1. PICK C : C = {IdsIn(all, DomainOf(r)) : r \in all}
    OBVIOUS
  <1>2. {Aggregate(all).FailureDomains[d] : d \in DOMAIN Aggregate(all).FailureDomains} = C
    <2>1. Aggregate(all).FailureDomains
            = [d \in {DomainOf(r) : r \in all} |-> IdsIn(all, d)]
      BY DEF Aggregate, IdsIn
    <2> QED BY <1>1, <2>1
  <1>3. IsFiniteSet(C)
    <2>1. PICK f : f = [r \in all |-> IdsIn(all, DomainOf(r))]
      OBVIOUS
    <2>2. C = {f[r] : r \in all}
      BY <1>1, <2>1
    <2> QED BY <2>2, ImageSize DEF OneEach
  <1>4. \A s \in C : IsFiniteSet(s)
    <2>1. \A s \in C : s \in SUBSET IdsOf(all)
      BY <1>1 DEF IdsIn, IdsOf
    <2> QED BY <2>1, OneIdEach, FS_Subset
  <1>5. NoOverlap(C)
    <2> SUFFICES ASSUME NEW r \in all, NEW q \in all,
                        NEW id \in IdsIn(all, DomainOf(r)), id \in IdsIn(all, DomainOf(q))
                 PROVE  DomainOf(r) = DomainOf(q)
      BY <1>1 DEF NoOverlap
    <2> QED BY DEF IdsIn, OneEach
  <1>6. UNION C = IdsOf(all)
    BY <1>1 DEF IdsIn, IdsOf
  <1>7. PICK w : w = [s \in C |-> Cardinality(s)]
    OBVIOUS
  <1>8. SumOf(w, C) = Cardinality(UNION C)
    BY <1>3, <1>4, <1>5, <1>7, SumOfSizes
  <1>9. MapThenSumSet(Cardinality, C) = SumOf(w, C)
    BY <1>7, SizesIsSum
  <1>10. Aggregate(all).Servers = Cardinality(all)
    BY DEF Aggregate
  <1> QED BY <1>2, <1>6, <1>8, <1>9, <1>10, OneIdEach

\* The bandwidth of the fleet is that of its ports, speed by speed.
LEMMA PortsAddUp ==
    ASSUME NEW all, OneEach(all)
    PROVE  Aggregate(all).TotalNICGbps
             = MapThenSumSet(LAMBDA g : g * Aggregate(all).NICSpeedPorts[g],
                             DOMAIN Aggregate(all).NICSpeedPorts)
  <1>1. PICK G : G = SpeedsOf(all)
    OBVIOUS
  <1>2. PICK ports : ports = Aggregate(all).NICSpeedPorts
    OBVIOUS
  <1>3. DOMAIN ports = G /\ \A g \in G : ports[g] = SumOf(PortsOf(all, g), all)
    <2>1. ports = [speed \in SpeedsOf(all) |->
                      Total(LAMBDA r : Cardinality({n \in TypedOf(r).NICs : n.speed = speed}), all)]
      BY <1>2, Zenon DEF Aggregate, SpeedsOf, NicsOf
    <2>2. \A speed : Total(LAMBDA r : Cardinality({n \in TypedOf(r).NICs : n.speed = speed}), all)
                       = SumOf(PortsOf(all, speed), all)
      BY PortsIsSum
    <2> QED BY <1>1, <2>1, <2>2, Zenon
  <1>4. IsFiniteSet(G) /\ G \subseteq Nat
    <2>1. PICK nics : nics = UNION {NicsOf(r) : r \in all}
      OBVIOUS
    <2>2. IsFiniteSet(nics)
      <3>1. PICK f : f = [r \in all |-> NicsOf(r)]
        OBVIOUS
      <3>2. PICK S : S = {f[r] : r \in all} /\ nics = UNION S
        BY <2>1, <3>1
      <3>3. IsFiniteSet(S)
        BY <3>2, ImageSize DEF OneEach
      <3>4. \A s \in S : IsFiniteSet(s)
        BY <3>1, <3>2, NicsCounted
      <3> QED BY <3>2, <3>3, <3>4, FS_UNION
    <2>3. PICK f : f = [n \in nics |-> n.speed]
      OBVIOUS
    <2>4. PICK S : S = {f[n] : n \in nics}
      OBVIOUS
    <2>5. IsFiniteSet(S)
      BY <2>2, <2>4, ImageSize
    <2>6. G \in SUBSET S
      BY <1>1, <2>1, <2>3, <2>4 DEF SpeedsOf
    <2>7. \A n \in nics : n.speed \in Nat
      BY <2>1, NicsCounted
    <2>8. G \subseteq Nat
      BY <1>1, <2>1, <2>7 DEF SpeedsOf
    <2> QED BY <2>5, <2>6, <2>8, FS_Subset
  <1>5. PICK b : b = Bandwidths(all)
    OBVIOUS
  <1>6. PICK u : u = [r \in all |-> [g \in G |-> g * PortsAt(r, g)]]
    OBVIOUS
  <1>7. PICK c : c = [g \in G |-> g * ports[g]]
    OBVIOUS
  <1>8. RowSums(u, b, all, G)
    <2> SUFFICES ASSUME NEW r \in all
                 PROVE  Weights(u[r], G) /\ b[r] = SumOf(u[r], G)
      BY DEF RowSums
    <2>1. PICK nics : nics = NicsOf(r)
      OBVIOUS
    <2>2. IsFiniteSet(nics) /\ \A n \in nics : n.speed \in Nat /\ (n.speed # 0 => n.speed \in G)
      BY <1>1, <2>1, NicsCounted DEF SpeedsOf
    <2>3. PICK w : w = Speeds(nics)
      OBVIOUS
    <2>4. Weights(w, nics) /\ \A n \in nics : w[n] = n.speed
      BY <2>2, <2>3 DEF Weights, Speeds
    <2>5. PICK v : v = u[r]
      OBVIOUS
    <2>6. ByValue(v, w, nics, G)
      <3>1. \A g \in G : v[g] = g * PortsAt(r, g)
        BY <1>6, <2>5
      <3>2. \A g : {n \in nics : w[n] = g} = {n \in nics : n.speed = g}
        BY <2>4
      <3> QED BY <2>1, <3>1, <3>2 DEF PortsAt, ByValue
    <2>7. ValuesIn(w, nics, G)
      BY <2>2, <2>4 DEF ValuesIn
    <2>8. SumOf(w, nics) = SumOf(v, G)
      BY <1>4, <2>2, <2>4, <2>6, <2>7, SumByValue
    <2>9. b[r] = SumOf(w, nics)
      BY <1>5, <2>1, <2>3, BandwidthIsSum DEF Bandwidths
    <2>10. Weights(v, G)
      <3>1. \A g \in G : Cardinality({n \in nics : w[n] = g}) \in Nat
        BY <2>2, FS_Subset, FS_CardinalityType
      <3>2. \A g, k \in Nat : g * k \in Nat
        OBVIOUS
      <3> QED BY <1>4, <2>6, <3>1, <3>2 DEF Weights, ByValue
    <2> QED BY <2>5, <2>8, <2>9, <2>10
  <1>9. ColumnSums(u, c, all, G)
    <2> SUFFICES ASSUME NEW g \in G
                 PROVE  c[g] = SumOf(Column(u, g, all), all)
      BY DEF ColumnSums
    <2>1. PICK w : w = PortsOf(all, g)
      OBVIOUS
    <2>2. PICK v : v = Column(u, g, all)
      OBVIOUS
    <2>3. \A r \in all : w[r] \in Nat
      <3>1. \A r \in all : IsFiniteSet(NicsOf(r))
        BY NicsCounted
      <3>2. \A r \in all : PortsAt(r, g) \in Nat
        BY <3>1, FS_Subset, FS_CardinalityType DEF PortsAt
      <3> QED BY <2>1, <3>2 DEF PortsOf
    <2>4. Weights(w, all) /\ \A r \in all : v[r] = g * w[r]
      BY <1>6, <2>1, <2>2, <2>3 DEF Weights, Column, PortsOf
    <2>5. g \in Nat /\ IsFiniteSet(all)
      BY <1>4 DEF OneEach
    <2>6. SumOf(v, all) = g * SumOf(w, all)
      BY <2>4, <2>5, SumScaled
    <2>7. c[g] = g * SumOf(w, all)
      BY <1>3, <1>7, <2>1
    <2> QED BY <2>2, <2>6, <2>7
  <1>10. SumOf(b, all) = SumOf(c, G)
    BY <1>4, <1>8, <1>9, SumSwaps DEF OneEach
  <1>11. MapThenSumSet(LAMBDA g : g * Aggregate(all).NICSpeedPorts[g],
                       DOMAIN Aggregate(all).NICSpeedPorts) = SumOf(c, G)
    BY <1>2, <1>3, <1>7, PortsGbpsIsSum
  <1> QED BY <1>5, <1>10, <1>11, FleetGbpsIsSum

\* The place where a part is first seen is the one it is bumped at.
LEMMA BumpedOnce ==
    ASSUME NEW r, r.data \in Payloads, NEW p
    PROVE  /\ Cardinality(BumpsAt(r, p)) \in {0, 1}
           /\ p \in ToSet(r.data.parts) => Cardinality(BumpsAt(r, p)) = 1
  <1>1. PICK parts : parts = r.data.parts
    OBVIOUS
  <1>2. parts \in Seq([component : STRING, version : STRING])
    BY <1>1, FleetAssumption
  <1>3. DOMAIN parts \subseteq Nat \ {0} /\ \A i \in DOMAIN parts : \A j \in 1 .. i - 1 : j \in DOMAIN parts
    BY <1>2
  <1>4. \A i, j \in BumpsAt(r, p) : i = j
    <2> SUFFICES ASSUME NEW i \in BumpsAt(r, p), NEW j \in BumpsAt(r, p), i < j
                 PROVE  FALSE
      BY <1>1, <1>3 DEF BumpsAt, PartsBumped
    <2>1. /\ i \in DOMAIN parts /\ parts[i] = p
          /\ j \in DOMAIN parts /\ parts[j] = p
          /\ \A k \in 1 .. j - 1 : parts[k] # parts[j]
      BY <1>1 DEF BumpsAt, PartsBumped
    <2>2. i \in 1 .. j - 1
      BY <1>3, <2>1
    <2> QED BY <2>1, <2>2
  <1>5. ASSUME p \in ToSet(parts)
        PROVE  BumpsAt(r, p) # {}
    <2>1. PICK T : T = {i \in DOMAIN parts : parts[i] = p}
      OBVIOUS
    <2>2. T \in SUBSET Nat /\ T # {}
      BY <1>3, <1>5, <2>1 DEF ToSet
    <2>3. PICK i \in T : \A j \in T : i <= j
      BY <2>2, LeastNatural
    <2>4. ASSUME NEW j \in 1 .. i - 1, parts[j] = parts[i]
          PROVE  FALSE
      <3>1. j \in T /\ i \in Nat /\ j < i
        BY <1>3, <2>1, <2>3, <2>4
      <3> QED BY <2>2, <2>3, <3>1
    <2>5. i \in BumpsAt(r, p)
      BY <1>1, <2>1, <2>3, <2>4 DEF BumpsAt, PartsBumped
    <2> QED BY <2>5
  <1>6. BumpsAt(r, p) = {} \/ \E i : BumpsAt(r, p) = {i}
    BY <1>4
  <1>7. Cardinality(BumpsAt(r, p)) = IF BumpsAt(r, p) = {} THEN 0 ELSE 1
    BY <1>6, FS_EmptySet, FS_Singleton
  <1> QED BY <1>1, <1>5, <1>7

\* A firmware version is on one server at least, and is counted once on each.
LEMMA SpreadBounds ==
    ASSUME NEW all, OneEach(all), NEW p \in DOMAIN FirmwareSpread(all)
    PROVE  FirmwareSpread(all)[p] \in 1 .. Aggregate(all).Servers
  <1>1. PICK w : w = Bumps(all, p)
    OBVIOUS
  <1>2. FirmwareSpread(all)[p] = SumOf(w, all)
    BY <1>1, SpreadIsSum
  <1>3. Aggregate(all).Servers = Cardinality(all) /\ Cardinality(all) \in Nat
    BY FS_CardinalityType DEF Aggregate, OneEach
  <1>4. IsFiniteSet(all) /\ \A r \in all : w[r] \in {0, 1}
    BY <1>1, BumpedOnce DEF Bumps, OneEach
  <1>5. SumOf(w, all) <= Cardinality(all)
    BY <1>4, SumAtMost
  <1>6. PICK r \in all : p \in ToSet(r.data.parts)
    BY DEF FirmwareSpread
  <1>7. w[r] = 1
    BY <1>1, <1>6, BumpedOnce DEF Bumps, OneEach
  <1>8. Weights(w, all)
    BY <1>4 DEF Weights
  <1>9. SumOf(w, all) \in Nat /\ SumOf(w, all) >= w[r]
    BY <1>4, <1>8, SumAtLeast DEF SumOf
  <1> QED BY <1>2, <1>3, <1>5, <1>7, <1>9

\* The latest rows, one of each server in the tables.
FleetRows == {rows[i] : i \in GetAllLatestFacts}

LEMMA FleetRowsOneEach ==
    ASSUME QueriesInv
    PROVE  /\ OneEach(FleetRows)
           /\ IdsOf(FleetRows) = ListServerIDs
  <1>1. rows \in Seq(Row)
    BY DEF QueriesInv, StoreTypeOK
  <1>2. \A i \in GetAllLatestFacts : i \in 1 .. Len(rows) /\ rows[i] \in Row
    BY <1>1 DEF GetAllLatestFacts, FleetLatest, RowsOf
  <1>3. IsFiniteSet(GetAllLatestFacts)
    <2>1. IsFiniteSet(1 .. Len(rows))
      BY <1>1, FS_Interval
    <2>2. GetAllLatestFacts \in SUBSET (1 .. Len(rows))
      BY <1>2
    <2> QED BY <2>1, <2>2, FS_Subset
  <1>4. IsFiniteSet(FleetRows)
    BY <1>3, ImageSize DEF FleetRows
  <1>5. \A i, j \in GetAllLatestFacts : rows[i].server = rows[j].server => i = j
    <2> SUFFICES ASSUME NEW id \in Servers, NEW i \in FleetLatest(id), NEW j \in FleetLatest(id)
                 PROVE  i = j
      BY DEF GetAllLatestFacts, FleetLatest, RowsOf
    <2>1. i \in Nat /\ j \in Nat /\ i <= j /\ j <= i
      BY <1>1 DEF FleetLatest, RowsOf
    <2> QED BY <2>1
  <1>6. OneEach(FleetRows)
    <2>1. \A r \in FleetRows : r.data \in Payloads
      BY <1>2 DEF FleetRows, Row
    <2>2. \A r, q \in FleetRows : r.server = q.server => r = q
      BY <1>5 DEF FleetRows
    <2> QED BY <1>4, <2>1, <2>2 DEF OneEach
  <1>7. IdsOf(FleetRows) \subseteq ListServerIDs
    BY DEF IdsOf, FleetRows, GetAllLatestFacts, FleetLatest, ListServerIDs, RowsOf
  <1>8. ListServerIDs \subseteq IdsOf(FleetRows)
    <2> SUFFICES ASSUME NEW id \in ListServerIDs PROVE id \in IdsOf(FleetRows)
      OBVIOUS
    <2>1. PICK i : i \in FleetLatest(id)
      BY DEF ListServerIDs, QueriesInv, EveryServerInFleet
    <2>2. i \in GetAllLatestFacts /\ rows[i].server = id
      BY <2>1 DEF ListServerIDs, GetAllLatestFacts, FleetLatest, RowsOf
    <2> QED BY <2>2 DEF IdsOf, FleetRows
  <1> QED BY <1>6, <1>7, <1>8

\* The rows served, one of each server.
ServedRows == {rows[i] : i \in UNION {GetLatestFacts(id) : id \in Servers}}
InTimeOrder ==
    \A id \in Servers : \A i, j \in RowsOf(id) : i < j => rows[i].at <= rows[j].at

LEMMA FleetRowsServed ==
    ASSUME QueriesInv, InTimeOrder
    PROVE  ServedRows = FleetRows
  <1>1. \A id \in Servers : GetLatestFacts(id) = FleetLatest(id)
    BY LatestInOrder DEF QueriesInv, QueriesAgreeInOrder, InTimeOrder
  <1> QED BY <1>1 DEF ServedRows, FleetRows, GetAllLatestFacts

\* What the operators are told of the fleet adds up, in every state of the store:
\* fleet.Aggregate counts every server on record once, in one state of health and one
\* failure domain, its bandwidth is that of the ports speed by speed, and
\* fleet.FirmwareSpread counts a version once a server.  With every server's rows in
\* time order it is what the servers' own pages say: their healthy servers, and the
\* ones fleet.FindCapable finds by the capabilities of the row GetLatestFacts serves.
THEOREM FleetReportsAddUp == Spec => []FleetAddsUp
  <1>1. QueriesInv => FleetAddsUp
    <2> SUFFICES ASSUME QueriesInv PROVE FleetAddsUp
      OBVIOUS
    <2>1. PICK all : all = FleetRows
      OBVIOUS
    <2>2. OneEach(all) /\ IdsOf(all) = ListServerIDs
      BY <2>1, FleetRowsOneEach
    <2>3. Aggregate(all).Servers = Cardinality(ListServerIDs)
      BY <2>2, OneIdEach DEF Aggregate
    <2>4. PICK served : served = ServedRows
      OBVIOUS
    <2>5. InTimeOrder => served = all
      BY <2>1, <2>4, FleetRowsServed
    <2>6. InTimeOrder =>
             /\ Aggregate(all).Healthy
                  \in Cardinality(InStates(served, {"active"}))
                        .. Cardinality(InStates(served, {"active", "provisioning"}))
             /\ \A caps \in SUBSET {"sriov", "rdma"} :
                   FindCapable(all, caps)
                     = {r.server : r \in
                          {x \in served :
                             caps \subseteq PublicView(x.data.facts, x.data.health).capable}}
      BY <2>2, <2>5, HealthyStates, FoundByPage
    <2> QED BY <2>1, <2>2, <2>3, <2>4, <2>6, HealthAddsUp, DomainsAddUp, PortsAddUp, SpreadBounds
            DEF FleetAddsUp, FleetRows, ServedRows, InTimeOrder, InStates
  <1> QED BY <1>1, QueriesInvariant, PTL
=============================================================================
