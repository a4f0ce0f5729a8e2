------------------------ MODULE IdempotentTransfers ------------------------
(***************************************************************************)
(* POST /transfers with an x-idempotency-key (routes/transfers.ts,         *)
(* services/idempotency-store.ts): look the key up, answer again what was  *)
(* answered before, or create the transfer and record the answer.  With    *)
(* SQLite the lookup and the record are synchronous; with SQL Server both  *)
(* are queries under way while other requests are served.  The other       *)
(* transfer routes (customers.ts, transactions.ts) read no such key.       *)
(*                                                                         *)
(* A key stands for the composite key, which begins with the tenant id.    *)
(* Time goes in ticks of some hours, in which every query is answered.     *)
(***************************************************************************)
EXTENDS Naturals, FiniteSets

CONSTANTS
    Requests,      \* connections a request may come in on
    Keys,          \* composite idempotency keys
    NoKey,         \* a request without the header
    Absent,        \* a sentinel: no record
    Adapters,      \* the adapters considered, among "sqlite" and "mssql"
    Window,        \* TWENTY_FOUR_HOURS_MS, in ticks
    MaxTransfers,  \* bound: transfers
    MaxTime,       \* bound: ticks
    MaxCrashes     \* bound: restarts

VARIABLES
    adapter,       \* the adapter in use
    requests,      \* what each connection's handler is doing
    transfers,     \* dataset.transfers, in memory
    stored,        \* transfers as last flushed
    records,       \* table idempotency_records
    saves,         \* upserts under way (SQL Server)
    answers,       \* history: the transfers that 201 answers under a key named
    made,          \* number of transfers made so far
    clock,         \* Date.now(), in ticks
    crashes        \* bound: restarts so far

vars == <<adapter, requests, transfers, stored, records, saves, answers, made, clock, crashes>>

Serial == adapter = "sqlite"

-----------------------------------------------------------------------------
\* met is history: the record there was when the request came in.
Record == [transfer : Nat \ {0}, at : Nat]
Transfer == [id : Nat \ {0}, key : Keys \cup {NoKey}, at : Nat, met : Record \cup {Absent}]
Answer == [key : Keys, transfer : Nat \ {0}, at : Nat]

\* A handler waits for its SELECT, has its result, or waits for its DELETE.
\* valid: the body passes the checks and names an account of the tenant.
Phases == {"idle", "looking", "found", "cleaning"}
Request == [phase : Phases, key : Keys \cup {NoKey}, valid : BOOLEAN,
            found : Record \cup {Absent}, met : Record \cup {Absent}]

ASSUME IdempotentTransfersAssumption ==
    /\ NoKey \notin Keys /\ Absent \notin Record
    /\ Adapters \subseteq {"sqlite", "mssql"}
    /\ Window \in Nat /\ MaxTransfers \in Nat /\ MaxTime \in Nat /\ MaxCrashes \in Nat

Idle == [phase |-> "idle", key |-> NoKey, valid |-> FALSE, found |-> Absent, met |-> Absent]

\* Fault: a record is expired as soon as it is as old as half the window.
ExpiredEarly(rec) == clock - rec.at > Window \div 2

Expired(rec) == clock - rec.at > Window

\* Fault: with SQLite, too, other requests are served in between.
FreeAlways(r) == TRUE

\* With SQLite a handler that awaits goes on before the next event.  Requests
\* come in by an event each: two that one connection sends ahead of the answers
\* and that arrive in one packet may begin in the same turn, and are left out.
Free(r) == Serial => \A q \in Requests \ {r} : requests[q].phase = "idle"

-----------------------------------------------------------------------------
Init ==
    /\ adapter \in Adapters
    /\ requests = [r \in Requests |-> Idle]
    /\ transfers = {} /\ stored = {}
    /\ records = [k \in Keys |-> Absent]
    /\ saves = {} /\ answers = {}
    /\ made = 0 /\ clock = 0 /\ crashes = 0

\* The handler begins: with a key its SELECT is sent, without one it goes on.
Arrive(r) ==
    \E k \in Keys \cup {NoKey}, valid \in BOOLEAN :
        /\ requests[r].phase = "idle" /\ Free(r)
        /\ requests' = [requests EXCEPT ![r] =
               [phase |-> IF k = NoKey THEN "found" ELSE "looking", key |-> k, valid |-> valid, found |-> Absent,
                met |-> IF k = NoKey THEN Absent ELSE records[k]]]
        /\ UNCHANGED <<adapter, transfers, stored, records, saves, answers, made, clock, crashes>>

\* getIdempotencyRecord
Look(r) ==
    /\ requests[r].phase = "looking"
    /\ requests' = [requests EXCEPT ![r].phase = "found", ![r].found = records[requests[r].key]]
    /\ UNCHANGED <<adapter, transfers, stored, records, saves, answers, made, clock, crashes>>

\* An expired record: deleteExpiredIdempotencyRecords is awaited.
FindExpired(r) ==
    /\ requests[r].phase = "found" /\ requests[r].found # Absent /\ Expired(requests[r].found)
    /\ requests' = [requests EXCEPT ![r].phase = "cleaning", ![r].found = Absent]
    /\ UNCHANGED <<adapter, transfers, stored, records, saves, answers, made, clock, crashes>>

\* The DELETE: the expired records of all keys.
Clean(r) ==
    /\ requests[r].phase = "cleaning"
    /\ records' = [k \in Keys |-> IF records[k] # Absent /\ Expired(records[k]) THEN Absent ELSE records[k]]
    /\ requests' = [requests EXCEPT ![r].phase = "found"]
    /\ UNCHANGED <<adapter, transfers, stored, saves, answers, made, clock, crashes>>

\* A live record: its answer is given again, whatever the body.
Replay(r) ==
    LET rec == requests[r].found
    IN  /\ requests[r].phase = "found" /\ rec # Absent /\ ~Expired(rec)
        /\ answers' = answers \cup {[key |-> requests[r].key, transfer |-> rec.transfer, at |-> rec.at]}
        /\ requests' = [requests EXCEPT ![r] = Idle]
        /\ UNCHANGED <<adapter, transfers, stored, records, saves, made, clock, crashes>>

\* 400 or 404: nothing is recorded under the key.
Refuse(r) ==
    /\ requests[r].phase = "found" /\ requests[r].found = Absent
    /\ ~requests[r].valid
    /\ requests' = [requests EXCEPT ![r] = Idle]
    /\ UNCHANGED <<adapter, transfers, stored, records, saves, answers, made, clock, crashes>>

\* Fault: the answer is not recorded.
RecordedNever(k, rec) == UNCHANGED <<records, saves>>

\* saveIdempotentResult: done at once with SQLite, sent off with SQL Server.
Recorded(k, rec) ==
    IF k = NoKey THEN UNCHANGED <<records, saves>>
    ELSE IF Serial THEN records' = [records EXCEPT ![k] = rec] /\ UNCHANGED saves
    ELSE saves' = saves \cup {[key |-> k, rec |-> rec]} /\ UNCHANGED records

\* The transfer is created, recorded and answered.
Create(r) ==
    LET q == requests[r]
        id == made + 1
    IN  /\ q.phase = "found" /\ q.found = Absent /\ q.valid
        /\ made < MaxTransfers
        /\ made' = id
        /\ transfers' = transfers \cup {[id |-> id, key |-> q.key, at |-> clock, met |-> q.met]}
        /\ Recorded(q.key, [transfer |-> id, at |-> clock])
        /\ answers' = answers \cup {[key |-> k, transfer |-> id, at |-> clock] : k \in {q.key} \ {NoKey}}
        /\ requests' = [requests EXCEPT ![r] = Idle]
        /\ UNCHANGED <<adapter, stored, clock, crashes>>

\* Fault: the row is written without its columns taken apart.
SaveWhole ==
    \E s \in saves :
        /\ records' = [records EXCEPT ![s.key] = s]
        /\ saves' = saves \ {s}
        /\ UNCHANGED <<adapter, requests, transfers, stored, answers, made, clock, crashes>>

\* upsertIdempotencyRecord reaches SQL Server, in any order.
Save ==
    \E s \in saves :
        /\ records' = [records EXCEPT ![s.key] = s.rec]
        /\ saves' = saves \ {s}
        /\ UNCHANGED <<adapter, requests, transfers, stored, answers, made, clock, crashes>>

AllIdle == \A r \in Requests : requests[r].phase = "idle"

\* flushTenantStore (module Persistence), or not: it may fail, for instance on
\* a description that no column takes.
Flush ==
    /\ Serial => AllIdle
    /\ stored' = transfers
    /\ UNCHANGED <<adapter, requests, transfers, records, saves, answers, made, clock, crashes>>

\* A transfer is deleted, by itself or with its account (module Ledger).
Remove ==
    \E t \in transfers :
        /\ Serial => AllIdle
        /\ transfers' = transfers \ {t}
        /\ UNCHANGED <<adapter, requests, stored, records, saves, answers, made, clock, crashes>>

\* Time passes when no query is under way.
Tick ==
    /\ clock < MaxTime /\ AllIdle /\ saves = {}
    /\ clock' = clock + 1
    /\ UNCHANGED <<adapter, requests, transfers, stored, records, saves, answers, made, crashes>>

\* The process stops and starts again; a query sent before may or may not
\* have reached the server.
Restart ==
    /\ crashes < MaxCrashes
    /\ crashes' = crashes + 1
    /\ requests' = [r \in Requests |-> Idle]
    /\ saves' = {}
    /\ transfers' = stored
    /\ UNCHANGED <<adapter, stored, records, answers, made, clock>>

Handle(r) == Arrive(r) \/ Look(r) \/ FindExpired(r) \/ Clean(r) \/ Replay(r) \/ Refuse(r) \/ Create(r)

Next == (\E r \in Requests : Handle(r)) \/ Save \/ Flush \/ Remove \/ Tick \/ Restart

Spec == Init /\ [][Next]_vars

-----------------------------------------------------------------------------
(* Properties *)

\* Every variable has its type, and a request without a key asks no query.
TypeOK ==
    /\ adapter \in Adapters
    /\ requests \in [Requests -> Request]
    /\ \A r \in Requests : requests[r].key = NoKey =>
           requests[r].phase \in {"idle", "found"} /\ requests[r].found = Absent
    /\ transfers \subseteq Transfer /\ stored \subseteq Transfer
    /\ records \in [Keys -> Record \cup {Absent}]
    /\ saves \subseteq [key : Keys, rec : Record]
    /\ answers \subseteq Answer
    /\ made \in Nat /\ clock \in Nat /\ crashes \in Nat

\* Two transfers that the tenant has under one key are more than the window
\* apart (openapi/nymbus-baas-original.yml, "the payment will occur no more
\* than once, regardless of the number of calls").
PaidOnce ==
    \A t, u \in transfers : (t.key = u.key /\ t.key # NoKey /\ t.id < u.id) => u.at - t.at > Window

\* So it is with SQLite, through restarts, expiry and retries.
PaidOnceSqlite == Serial => PaidOnce

\* With SQLite, answers under one key that name different transfers name
\* transfers made more than the window apart: a client that retries never
\* hears of two, even if a restart lost the first (getIdempotentReplay,
\* saveIdempotentResult).
AnswersAgree ==
    Serial => \A x, y \in answers :
        (x.key = y.key /\ x.transfer < y.transfer) => y.at - x.at > Window

\* With either adapter, a second transfer under a key is made only by a
\* request that came in before the answer of the first was recorded, or more
\* than the window later (getIdempotentReplay).
OnlyOverlapping ==
    \A t \in transfers : t.met # Absent => t.at - t.met.at > Window
=============================================================================
