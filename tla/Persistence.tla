---------------------------- MODULE Persistence ----------------------------
(***************************************************************************)
(* The durable side of the tenant store: services/tenant-store.ts keeps    *)
(* every tenant's dataset in the Map datasets, app.ts starts a flush of    *)
(* the whole Map each time a response has been sent, and a start reads     *)
(* back what services/sqlite-adapter.ts or services/mssql-adapter.ts       *)
(* stored.  better-sqlite3 is synchronous, so that once a flush is under   *)
(* way nothing but a crash comes between its steps; with SQL Server every  *)
(* query is awaited, and requests and other flushes run in between.        *)
(*                                                                         *)
(* A dataset is a stamp, which stands for all that the routes of module    *)
(* Ledger and their like change, and the things that decide whether it can *)
(* be stored and read back: whether it has customers or accounts, the ids  *)
(* of its loan payments, and whether it is unbound: whether it holds a     *)
(* value that the database takes for no column.  Requests leave such       *)
(* values where their JSON is not looked at: for SQLite a boolean, an      *)
(* object or an array as the status or type of an account, the type or     *)
(* description of a transfer, a name of a customer; for SQL Server an      *)
(* amount of cents beyond INT or a text too long for its column.           *)
(***************************************************************************)
EXTENDS Naturals, Sequences, FiniteSets

CONSTANTS
    Tenants,
    Accounts,     \* account ids of a tenant, which name its default payments too
    ClientIds,    \* loan payment ids that requests send
    Absent,       \* a sentinel: no dataset, no rows, nothing taken yet
    Adapters,     \* what DB_TYPE may choose: "sqlite", "mssql"
    MaxChanges,   \* bound: stamps, for each adapter
    MaxRequests,  \* bound: requests between two starts that change nothing
    MaxWipes,     \* bound: POST /portal-api/tenant/reset, for each adapter
    MaxCrashes    \* bound: restarts

VARIABLES
    adapter,      \* the one this process was started with
    datasets,     \* the Map's values (Absent: not a key)
    order,        \* its keys, in insertion order
    db,           \* the rows of each tenant
    responses,    \* handlers that have answered, their finish event to come
    flushes,      \* running calls of flushTenantStore
    stamp,        \* the last stamp given
    idle,         \* bound: requests so far that changed nothing
    wipes,        \* bound: wipes so far
    crashes       \* bound: restarts so far

vars == <<adapter, datasets, order, db, responses, flushes, stamp, idle, wipes, crashes>>
bounds == <<idle, wipes, crashes>>

-----------------------------------------------------------------------------
(* Datasets and rows *)

PaymentIds == Accounts \cup ClientIds
Dataset == [stamp : Nat, peopled : BOOLEAN, unbound : BOOLEAN, listed : SUBSET Accounts, payments : [Accounts -> SUBSET PaymentIds]]
Row == [stamp : Nat, peopled : BOOLEAN, unbound : BOOLEAN, payments : SUBSET (Accounts \X PaymentIds)]

ASSUME PersistenceAssumption ==
    /\ Adapters \subseteq {"sqlite", "mssql"}
    /\ IsFiniteSet(Tenants)
    /\ Accounts \cap ClientIds = {}
    /\ Absent \notin Dataset /\ Absent \notin Row
    /\ MaxChanges \in [Adapters -> Nat] /\ MaxWipes \in [Adapters -> Nat]
    /\ MaxRequests \in Nat /\ MaxCrashes \in Nat

\* cloneDataset: customers and accounts, and no loan payment lists yet.
CloneDataset(n) == [stamp |-> n, peopled |-> TRUE, unbound |-> FALSE, listed |-> {},
                    payments |-> [a \in Accounts |-> {}]]

\* The list of account a, created with one default payment when first used.
LoanPayments(ds, a) == IF a \in ds.listed THEN ds.payments[a] ELSE {a}
SetLoanPayments(ds, a, ids) == [ds EXCEPT !.listed = @ \cup {a}, !.payments[a] = ids]

\* saveTenantDataset: an empty list leaves no row.
Rows(ds) == [stamp |-> ds.stamp, peopled |-> ds.peopled, unbound |-> ds.unbound,
             payments |-> {x \in Accounts \X PaymentIds : x[2] \in ds.payments[x[1]]}]

\* Two rows of the tenant with the same id break PRIMARY KEY (tenant_id, id).
Clash(rows) == \E x, y \in rows.payments : x[2] = y[2] /\ x[1] # y[1]

\* The transaction that stores them throws.
Refused(rows) == rows.unbound \/ Clash(rows)

\* getDistinctTenantIds and loadTenantEntities: a tenant with neither a
\* customer nor an account is not there.
Stored == {t \in Tenants : db[t] # Absent /\ db[t].peopled}

\* Fault: a start forgets the loan payments.
LoadWithoutPayments(rows) ==
    [stamp |-> rows.stamp, peopled |-> rows.peopled, unbound |-> rows.unbound, listed |-> {},
     payments |-> [a \in Accounts |-> {}]]

\* loadTenantDatasetFromDb
Load(rows) ==
    LET ids == [a \in Accounts |-> {p \in PaymentIds : <<a, p>> \in rows.payments}]
    IN  [stamp |-> rows.stamp, peopled |-> rows.peopled, unbound |-> rows.unbound,
         listed |-> {a \in Accounts : ids[a] # {}}, payments |-> ids]

\* The orders in which a query may return the ids in ts.
Orders(ts) == {s \in [1..Cardinality(ts) -> ts] : \A i, j \in 1..Cardinality(ts) : s[i] = s[j] => i = j}

-----------------------------------------------------------------------------
Init ==
    /\ adapter \in Adapters
    /\ datasets = [t \in Tenants |-> Absent]
    /\ order = <<>>
    /\ db = [t \in Tenants |-> Absent]
    /\ responses = 0
    /\ flushes = {}
    /\ stamp = 0
    /\ idle = 0 /\ wipes = 0 /\ crashes = 0

-----------------------------------------------------------------------------
(* Requests *)

\* A flush with SQLite has no await that waits.
Serial == adapter = "sqlite"

\* Fault: a flush gives way to requests.
TurnAlways == TRUE

\* With SQLite a flush runs to its end before the next event is looked at.
Turn == ~Serial \/ flushes = {}

\* ensureTenantDataset: a tenant that is not in the cache is taken to be new.
Ensured(t) == IF datasets[t] = Absent THEN CloneDataset(stamp + 1) ELSE datasets[t]
Keys(t) == IF datasets[t] = Absent THEN Append(order, t) ELSE order

\* A handler leaves tenant t with the dataset ds and answers.
Answer(t, ds) ==
    /\ Turn
    /\ stamp < MaxChanges[adapter]
    /\ datasets' = [datasets EXCEPT ![t] = [ds EXCEPT !.stamp = stamp + 1]]
    /\ order' = Keys(t)
    /\ stamp' = stamp + 1
    /\ responses' = responses + 1
    /\ UNCHANGED <<adapter, db, flushes>>

\* A route that changes the dataset (all of module Ledger's but those below).
\* Of a tenant with accounts it may leave a value that cannot be stored, or
\* replace the last of them.
Change ==
    \E t \in Tenants, unbound \in BOOLEAN :
        /\ unbound => Ensured(t).peopled
        /\ Answer(t, [Ensured(t) EXCEPT !.unbound = unbound])
        /\ UNCHANGED bounds

\* createTenantCustomer, with names as they come (POST /portal-api/users).
CreateTenantCustomer ==
    \E t \in Tenants, unbound \in BOOLEAN :
        /\ Answer(t, [Ensured(t) EXCEPT !.peopled = TRUE, !.unbound = @ \/ unbound])
        /\ UNCHANGED bounds

\* resetTenantDataset: customers, accounts, entries and transfers go, loan
\* payments stay.
ResetTenantDataset ==
    \E t \in Tenants :
        /\ wipes < MaxWipes[adapter]
        /\ wipes' = wipes + 1
        /\ Answer(t, [Ensured(t) EXCEPT !.peopled = FALSE, !.unbound = FALSE])
        /\ UNCHANGED <<idle, crashes>>

\* seedTenantDataset
SeedTenantDataset == \E t \in Tenants : Answer(t, CloneDataset(stamp + 1)) /\ UNCHANGED bounds

\* PATCH /accounts/:accountId/loanPayments: upsertTenantLoanPayment looks for
\* the id in the account's own list only.
UpsertTenantLoanPayment ==
    \E t \in Tenants, a \in Accounts, p \in ClientIds :
        LET ds == Ensured(t)
        IN  /\ ds.peopled
            /\ Answer(t, SetLoanPayments(ds, a, LoanPayments(ds, a) \cup {p}))
            /\ UNCHANGED bounds

\* DELETE /accounts/:accountId/loanPayments/:paymentId
DeleteTenantLoanPayment ==
    \E t \in Tenants, a \in Accounts, p \in PaymentIds :
        LET ds == Ensured(t)
        IN  /\ ds.peopled
            /\ p \in LoanPayments(ds, a)
            /\ Answer(t, SetLoanPayments(ds, a, LoanPayments(ds, a) \ {p}))
            /\ UNCHANGED bounds

\* A request that changes no dataset, a failed one or GET /health: it is
\* answered, and so starts a flush, all the same.
OtherRequest ==
    /\ Turn
    /\ idle < MaxRequests
    /\ idle' = idle + 1
    /\ responses' = responses + 1
    /\ UNCHANGED <<adapter, datasets, order, db, flushes, stamp, wipes, crashes>>

-----------------------------------------------------------------------------
(* Flushing *)

\* A flush that has come to the i-th key, with what it has taken there.
Flush(n, i, rows) == [n |-> n, at |-> i, rows |-> rows]

FreshNumber == CHOOSE n \in 0..Cardinality(flushes) : \A f \in flushes : f.n # n

\* Fault: the end of a response starts nothing.
FinishQuietly ==
    /\ Turn /\ responses > 0
    /\ responses' = responses - 1
    /\ UNCHANGED <<adapter, datasets, order, db, flushes, stamp, idle, wipes, crashes>>

\* Fault: an event that no answer is behind (close after finish, say).
FinishUnasked ==
    /\ Turn
    /\ responses' = responses - 1
    /\ UNCHANGED <<adapter, datasets, order, db, flushes, stamp, idle, wipes, crashes>>

\* The finish event: flushTenantStore runs up to its first await, the first
\* key's dataset already turned into rows.
Finish ==
    /\ Turn /\ responses > 0
    /\ responses' = responses - 1
    /\ flushes' = flushes \cup
           IF order = <<>> THEN {} ELSE {Flush(FreshNumber, 1, Rows(datasets[order[1]]))}
    /\ UNCHANGED <<adapter, datasets, order, db, stamp, idle, wipes, crashes>>

\* The loop goes on to the next key; the Map's iterator sees keys added since.
NextKey ==
    \E f \in flushes :
        /\ f.rows = Absent
        /\ flushes' = (flushes \ {f}) \cup
               IF f.at > Len(order) THEN {} ELSE {[f EXCEPT !.rows = Rows(datasets[order[f.at]])]}
        /\ UNCHANGED <<adapter, datasets, order, db, responses, stamp, idle, wipes, crashes>>

\* saveTenantEntities: the tenant's rows are replaced in one transaction.
Commit ==
    \E f \in flushes :
        /\ f.rows # Absent /\ ~Refused(f.rows)
        /\ db' = [db EXCEPT ![order[f.at]] = f.rows]
        /\ flushes' = (flushes \ {f}) \cup {Flush(f.n, f.at + 1, Absent)}
        /\ UNCHANGED <<adapter, datasets, order, responses, stamp, idle, wipes, crashes>>

\* The transaction is rolled back and the exception ends the whole flush.
Rollback ==
    \E f \in flushes :
        /\ f.rows # Absent /\ Refused(f.rows)
        /\ flushes' = flushes \ {f}
        /\ UNCHANGED <<adapter, datasets, order, db, responses, stamp, idle, wipes, crashes>>

-----------------------------------------------------------------------------
\* The process stops, whatever it was doing, and starts again: initTenantStore.
Restart ==
    /\ crashes < MaxCrashes
    /\ crashes' = crashes + 1
    /\ datasets' = [t \in Tenants |-> IF t \in Stored THEN Load(db[t]) ELSE Absent]
    /\ order' \in Orders(Stored)
    /\ responses' = 0
    /\ flushes' = {}
    /\ UNCHANGED <<adapter, db, stamp, idle, wipes>>

Next ==
    \/ Change \/ CreateTenantCustomer \/ ResetTenantDataset \/ SeedTenantDataset
    \/ UpsertTenantLoanPayment \/ DeleteTenantLoanPayment \/ OtherRequest
    \/ Finish \/ NextKey \/ Commit \/ Rollback
    \/ Restart

\* The event loop delivers finish events and runs a flush on; nothing obliges
\* a client to send a request or the process to stop.
Fairness == WF_vars(Finish) /\ WF_vars(NextKey) /\ WF_vars(Commit \/ Rollback)

Spec == Init /\ [][Next]_vars
FairSpec == Spec /\ Fairness

-----------------------------------------------------------------------------
(* Properties *)

\* Every variable has its type.
TypeOK ==
    /\ adapter \in Adapters
    /\ datasets \in [Tenants -> Dataset \cup {Absent}]
    /\ order \in Seq(Tenants)
    /\ db \in [Tenants -> Row \cup {Absent}]
    /\ responses \in Nat
    /\ flushes \subseteq [n : Nat, at : Nat \ {0}, rows : Row \cup {Absent}] /\ IsFiniteSet(flushes)
    /\ stamp \in Nat /\ idle \in Nat /\ wipes \in Nat /\ crashes \in Nat

\* What requests see of tenant t, as rows.
Held(t) == IF datasets[t] = Absent THEN Absent ELSE Rows(datasets[t])

Quiet == responses = 0 /\ flushes = {}

\* When every response is out and its flush has ended, the tenants up to the
\* first one that cannot be stored are stored as they are (app.ts, finish;
\* flushTenantStore).  It is said of SQLite.
QuietSaved ==
    Serial /\ Quiet => \A i \in 1..Len(order) :
        (\A j \in 1..i : ~Refused(Held(order[j]))) => db[order[i]] = Held(order[i])

\* The stored rows of a tenant are never replaced by older ones
\* (saveTenantEntities).  It is said of SQLite.
NeverBackwards ==
    [][Serial => \A t \in Tenants : db[t] # Absent => db'[t] # Absent /\ db'[t].stamp >= db[t].stamp]_vars

\* A start gives every tenant the dataset that was stored (README.md, "so data
\* survives process restarts"; initTenantStore).
StoredSurvives ==
    [][crashes' # crashes =>
          \A t \in Tenants : db[t] # Absent => datasets'[t] # Absent /\ Rows(datasets'[t]) = db[t]]_vars

\* When every response is out and its flush has ended, every tenant is stored
\* as it is (README.md, "Tenant and fallback state is persisted").
QuietAllSaved == Quiet => \A t \in Tenants : datasets[t] # Absent => db[t] = Held(t)

\* A tenant at or before t in the Map cannot be stored.
Blocked(t) == \E i, j \in 1..Len(order) : j <= i /\ order[i] = t /\ Refused(Held(order[j]))

\* Tenant t no longer has the dataset stamped n.
MovedOn(t, n) == datasets[t] = Absent \/ datasets[t].stamp # n

\* The stamps that either adapter may give.
MaxStamp == CHOOSE n \in {MaxChanges[x] : x \in Adapters} : \A x \in Adapters : MaxChanges[x] <= n

\* A dataset with a response to come is stored at some time, if it stays as it
\* is and is not blocked (app.ts, finish; flushTenantStore).
AnswerStored ==
    \A t \in Tenants, n \in 1..MaxStamp :
        responses > 0 /\ ~MovedOn(t, n) ~> MovedOn(t, n) \/ db[t] = Held(t) \/ Blocked(t)

\* A dataset that stays as it is ends up stored, unless it is blocked: no late
\* transaction puts an older one in its place for good (app.ts, finish;
\* flushTenantStore).  It is said of SQLite.
DatasetSaved ==
    \A t \in Tenants, n \in 1..MaxStamp :
        Serial /\ ~MovedOn(t, n) ~> MovedOn(t, n) \/ db[t] = Held(t) \/ Blocked(t)

\* The store with SQLite is a durable map, as long as no tenant is wiped.
Values == Row \cup {Absent}
Map == INSTANCE DurableMap WITH
    held <- [t \in Tenants |-> IF Serial THEN Held(t) ELSE Absent],
    kept <- [t \in Tenants |-> IF Serial THEN db[t] ELSE Absent]
IsDurableMap == Map!Spec
=============================================================================
