--------------------------- MODULE FallbackStore ---------------------------
(***************************************************************************)
(* The store behind the routes that only the OpenAPI contract defines      *)
(* (routes/openapi-fallback.ts), for one tenant: records by resource and   *)
(* id, loaded by the first request, changed in memory, and saved as a      *)
(* whole by queries that nobody waits for.                                 *)
(*                                                                         *)
(* With SQLite a query ends where it is called, and a request is one step. *)
(* With SQL Server the first request waits for the tenant's payload, and   *)
(* others may come meanwhile and load it, too.  Once it has the payload, a *)
(* request runs to its end.  What a response looks like is left out.  A    *)
(* load that fails ends the process, as nothing catches it: that is one of *)
(* the ways to Restart.  Requests that change nothing only answer.         *)
(***************************************************************************)
EXTENDS Naturals, FiniteSets

CONSTANTS
    Ids,          \* resource paths with ids of records
    Absent,       \* a sentinel: no store in memory, no record, no payload yet
    Adapters,     \* the adapters considered, among "sqlite" and "mssql"
    MaxRequests,  \* bound: requests
    MaxLoads,     \* bound: requests that wait for the payload
    MaxSaves,     \* bound: saves under way
    MaxCrashes    \* bound: restarts

VARIABLES
    adapter,      \* the adapter in use
    store,        \* the tenant's entry of runtimeStoreByTenant
    stored,       \* its payload in table fallback_datasets
    loads,        \* requests that wait for the payload (SQL Server)
    saves,        \* saves under way (SQL Server)
    responses,    \* answered requests, their finish event to come
    told,         \* history: the records as responses showed them
    exposed,      \* history: ids answered last while a request was waiting
    writes,       \* changes so far; the contents given last
    came,         \* bound: requests so far
    crashes       \* bound: restarts so far

vars == <<adapter, store, stored, loads, saves, responses, told, exposed, writes, came, crashes>>

Serial == adapter = "sqlite"

-----------------------------------------------------------------------------
Record == Nat \cup {Absent}
Dataset == [Ids -> Record]

\* No payload is read as an empty one.
Empty == [id \in Ids |-> Absent]

\* POST, PUT and PATCH are the same; the id is in the path, in the body, or new.
Request == [method : {"write", "delete", "get"}, id : Ids] \cup [method : {"list"}]

ASSUME FallbackAssumption ==
    /\ Absent \notin Nat /\ Absent \notin Dataset
    /\ Adapters \subseteq {"sqlite", "mssql"}
    /\ MaxRequests \in Nat /\ MaxLoads \in Nat /\ MaxSaves \in Nat /\ MaxCrashes \in Nat

Init ==
    /\ adapter \in Adapters
    /\ store = Absent /\ stored = Empty
    /\ loads = {} /\ saves = {}
    /\ responses = 0
    /\ told = Empty /\ exposed = {}
    /\ writes = 0 /\ came = 0 /\ crashes = 0

\* The lowest number that no element of S has.
FreshNumber(S) == CHOOSE n \in 0..Cardinality(S) : \A s \in S : s.n # n

\* saveTenantStore: the payload is what the store is at the time of the call.
SaveTenantStore(data) ==
    IF Serial THEN stored' = data /\ UNCHANGED saves
    ELSE /\ Cardinality(saves) < MaxSaves
         /\ saves' = saves \cup {[n |-> FreshNumber(saves), data |-> data]}
         /\ UNCHANGED stored

\* Fault: the change is saved with the end of the response.
SaveLater(data) == UNCHANGED <<stored, saves>>

\* Before the response.
SaveNow(data) == SaveTenantStore(data)

-----------------------------------------------------------------------------
(* executeContractRequest, with the store data at hand *)

\* A read by id of a record that is not there makes one; a removal is a change
\* even where nothing is removed.
Changes(req, data) == req.method \in {"write", "delete"} \/ (req.method = "get" /\ data[req.id] = Absent)

After(req, data) ==
    IF ~Changes(req, data) THEN data
    ELSE [data EXCEPT ![req.id] = IF req.method = "delete" THEN Absent ELSE writes + 1]

\* waiting: the other requests that wait.
Execute(req, data, waiting) ==
    /\ store' = After(req, data)
    /\ IF Changes(req, data)
       THEN /\ writes' = writes + 1
            /\ SaveNow(After(req, data))
       ELSE UNCHANGED <<writes, stored, saves>>
    /\ told' = IF req.method = "list" THEN told ELSE [told EXCEPT ![req.id] = After(req, data)[req.id]]
    /\ exposed' = IF req.method = "list" THEN exposed
                  ELSE IF waiting = {} THEN exposed \ {req.id} ELSE exposed \cup {req.id}
    /\ responses' = responses + 1

Come == came < MaxRequests /\ came' = came + 1

\* Fault: a query is waited for with SQLite, too.
WaitsAlways == store = Absent

Waits == store = Absent /\ ~Serial

\* getTenantStore has the tenant's store, or with SQLite loads it at once.
AnswerAtOnce ==
    \E req \in Request :
        /\ Come
        /\ ~Waits
        /\ Execute(req, IF store # Absent THEN store ELSE stored, loads)
        /\ UNCHANGED <<adapter, loads, crashes>>

\* getTenantStore with SQL Server: the query goes out.
StartLoad ==
    \E req \in Request :
        /\ Come
        /\ Waits
        /\ Cardinality(loads) < MaxLoads
        /\ loads' = loads \cup {[n |-> FreshNumber(loads), req |-> req, payload |-> Absent]}
        /\ UNCHANGED <<adapter, store, stored, saves, responses, told, exposed, writes, crashes>>

\* The database reads the payload.
ReadPayload ==
    \E l \in loads :
        /\ l.payload = Absent
        /\ loads' = (loads \ {l}) \cup {[l EXCEPT !.payload = stored]}
        /\ UNCHANGED <<adapter, store, stored, saves, responses, told, exposed, writes, came, crashes>>

\* The payload arrives: it becomes the tenant's store, also where another
\* request has set one meanwhile, and the request runs on.
AnswerLoaded ==
    \E l \in loads :
        /\ l.payload # Absent
        /\ loads' = loads \ {l}
        /\ Execute(l.req, l.payload, loads')
        /\ UNCHANGED <<adapter, came, crashes>>

\* Fault: nothing is saved at the end of a response.
FinishQuietly ==
    /\ responses > 0
    /\ responses' = responses - 1
    /\ UNCHANGED <<adapter, store, stored, loads, saves, told, exposed, writes, came, crashes>>

\* A response is out: flushFallbackRuntimeStore (app.ts, finish).
Finish ==
    /\ responses > 0
    /\ responses' = responses - 1
    /\ IF store # Absent THEN SaveTenantStore(store) ELSE UNCHANGED <<stored, saves>>
    /\ UNCHANGED <<adapter, store, loads, told, exposed, writes, came, crashes>>

\* A save reaches SQL Server, in any order.
Save ==
    \E s \in saves :
        /\ stored' = s.data
        /\ saves' = saves \ {s}
        /\ UNCHANGED <<adapter, store, loads, responses, told, exposed, writes, came, crashes>>

Restart ==
    /\ crashes < MaxCrashes
    /\ crashes' = crashes + 1
    /\ store' = Absent
    /\ loads' = {} /\ saves' = {} /\ responses' = 0
    /\ UNCHANGED <<adapter, stored, told, exposed, writes, came>>

Next == AnswerAtOnce \/ StartLoad \/ ReadPayload \/ AnswerLoaded \/ Finish \/ Save \/ Restart

\* The event loop delivers finish events and results, and SQL Server ends its
\* queries; nothing obliges a client to send a request.
Fairness == WF_vars(Finish) /\ WF_vars(ReadPayload) /\ WF_vars(AnswerLoaded) /\ WF_vars(Save)

Spec == Init /\ [][Next]_vars
FairSpec == Spec /\ Fairness

-----------------------------------------------------------------------------
(* Properties *)

\* Every variable has its type.
TypeOK ==
    /\ adapter \in Adapters
    /\ store \in Dataset \cup {Absent} /\ stored \in Dataset
    /\ loads \subseteq [n : Nat, req : Request, payload : Dataset \cup {Absent}] /\ IsFiniteSet(loads)
    /\ saves \subseteq [n : Nat, data : Dataset] /\ IsFiniteSet(saves)
    /\ Serial => loads = {} /\ saves = {}
    /\ told \in Dataset /\ exposed \subseteq Ids
    /\ responses \in Nat /\ writes \in Nat /\ came \in Nat /\ crashes \in Nat

\* The store in memory has every record as the last response about it showed
\* it, except for those answered while another request waited for its first
\* load, which may replace the store; with SQLite through restarts
\* (getTenantStore, executeContractRequest).
AnswersHeld ==
    (Serial \/ crashes = 0) /\ store # Absent => \A id \in Ids \ exposed : store[id] = told[id]

\* With SQLite the store is records written through to the database: a restart
\* at any time changes none (saveTenantStore before the response; README.md).
Records == IF ~Serial THEN Empty ELSE IF store # Absent THEN store ELSE stored
Through == INSTANCE WriteThrough WITH records <- Records, writes <- IF Serial THEN writes ELSE 0
IsWriteThrough == Through!Spec

\* After a response the store is stored at some time, unless it changes before
\* (executeContractRequest, flushFallbackRuntimeStore); with SQL Server a late
\* save may still put an older one in its place.
AnswerStored ==
    \A n \in 0..MaxRequests :
        responses > 0 /\ writes = n ~> writes # n \/ store = Absent \/ stored = store
=============================================================================
