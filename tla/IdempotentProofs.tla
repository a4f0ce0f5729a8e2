-------------------------- MODULE IdempotentProofs --------------------------
(***************************************************************************)
(* Theorems about IdempotentTransfers, for any number of connections and   *)
(* keys, any window and either adapter.                                    *)
(***************************************************************************)
EXTENDS IdempotentTransfers, TLAPS

-----------------------------------------------------------------------------
(* Types *)

LEMMA IdleType ==
    /\ Idle \in Request /\ Idle.phase = "idle" /\ Idle.key = NoKey /\ Idle.found = Absent
    /\ NoKey \notin Keys /\ Absent \notin Record
  BY IdempotentTransfersAssumption DEF Idle, Request, Phases

\* Every step keeps the types.
LEMMA TypeStep == TypeOK /\ [Next]_vars => TypeOK'
  <1> USE IdleType DEF TypeOK
  <1> SUFFICES ASSUME TypeOK, [Next]_vars PROVE TypeOK'
    OBVIOUS
  <1>1. ASSUME NEW r \in Requests, Arrive(r) PROVE TypeOK'
    <2>1. PICK k \in Keys \cup {NoKey}, valid \in BOOLEAN :
              requests' = [requests EXCEPT ![r] =
                  [phase |-> IF k = NoKey THEN "found" ELSE "looking", key |-> k, valid |-> valid,
                   found |-> Absent, met |-> IF k = NoKey THEN Absent ELSE records[k]]]
      BY <1>1 DEF Arrive
    <2> DEFINE q == [phase |-> IF k = NoKey THEN "found" ELSE "looking", key |-> k, valid |-> valid,
                     found |-> Absent, met |-> IF k = NoKey THEN Absent ELSE records[k]]
    <2>2. q \in Request /\ (q.key = NoKey => q.phase \in {"idle", "found"} /\ q.found = Absent)
      BY DEF Request, Phases
    <2> HIDE DEF q
    <2>3. requests' = [requests EXCEPT ![r] = q]
      BY <2>1 DEF q
    <2>4. QED
      BY <1>1, <2>2, <2>3 DEF Arrive
  <1>2. ASSUME NEW r \in Requests, Look(r) PROVE TypeOK'
    <2>1. requests[r] \in Request /\ requests[r].key \in Keys
      BY <1>2 DEF Look, Request
    <2> DEFINE q == [requests[r] EXCEPT !.phase = "found", !.found = records[requests[r].key]]
    <2>2. q \in Request /\ q.key \in Keys
      BY <2>1 DEF Request, Phases
    <2>3. requests' = [requests EXCEPT ![r] = q]
      BY <1>2 DEF Look
    <2> HIDE DEF q
    <2>4. QED
      BY <1>2, <2>2, <2>3 DEF Look
  <1>3. ASSUME NEW r \in Requests, FindExpired(r) PROVE TypeOK'
    <2>1. requests[r] \in Request /\ requests[r].key \in Keys
      BY <1>3 DEF FindExpired, Request
    <2> DEFINE q == [requests[r] EXCEPT !.phase = "cleaning", !.found = Absent]
    <2>2. q \in Request /\ q.key \in Keys
      BY <2>1 DEF Request, Phases
    <2>3. requests' = [requests EXCEPT ![r] = q]
      BY <1>3 DEF FindExpired
    <2> HIDE DEF q
    <2>4. QED
      BY <1>3, <2>2, <2>3 DEF FindExpired
  <1>4. ASSUME NEW r \in Requests, Clean(r) PROVE TypeOK'
    <2>1. requests[r] \in Request /\ requests[r].key \in Keys
      BY <1>4 DEF Clean, Request
    <2> DEFINE q == [requests[r] EXCEPT !.phase = "found"]
    <2>2. q \in Request /\ q.key \in Keys
      BY <2>1 DEF Request, Phases
    <2>3. requests' = [requests EXCEPT ![r] = q] /\ records' \in [Keys -> Record \cup {Absent}]
      BY <1>4 DEF Clean
    <2> HIDE DEF q
    <2>4. QED
      BY <1>4, <2>2, <2>3 DEF Clean
  <1>5. ASSUME NEW r \in Requests, Replay(r) PROVE TypeOK'
    <2> DEFINE rec == requests[r].found
               new == [key |-> requests[r].key, transfer |-> rec.transfer, at |-> rec.at]
    <2>1. requests[r] \in Request /\ rec \in Record /\ requests[r].key \in Keys
      BY <1>5 DEF Replay, Request
    <2>2. new \in Answer
      BY <2>1 DEF Answer, Record
    <2>3. answers' = answers \cup {new} /\ requests' = [requests EXCEPT ![r] = Idle]
      BY <1>5 DEF Replay
    <2> HIDE DEF new
    <2>4. QED
      BY <1>5, <2>2, <2>3 DEF Replay
  <1>6. ASSUME NEW r \in Requests, Refuse(r) PROVE TypeOK'
    BY <1>6 DEF Refuse
  <1>7. ASSUME NEW r \in Requests, Create(r) PROVE TypeOK'
    <2> DEFINE id == made + 1
               k == requests[r].key
               t == [id |-> id, key |-> k, at |-> clock, met |-> requests[r].met]
               rec == [transfer |-> id, at |-> clock]
               new == {[key |-> x, transfer |-> id, at |-> clock] : x \in {k} \ {NoKey}}
    <2>1. k \in Keys \cup {NoKey} /\ requests[r].met \in Record \cup {Absent} /\ id \in Nat \ {0}
      BY DEF Request
    <2>2. t \in Transfer /\ rec \in Record /\ new \subseteq Answer
      BY <2>1 DEF Transfer, Record, Answer
    <2>3. /\ transfers' = transfers \cup {t} /\ answers' = answers \cup new /\ made' = id
          /\ requests' = [requests EXCEPT ![r] = Idle] /\ Recorded(k, rec)
          /\ UNCHANGED <<adapter, stored, clock, crashes>>
      BY <1>7 DEF Create
    <2>4. records' \in [Keys -> Record \cup {Absent}] /\ saves' \subseteq [key : Keys, rec : Record]
      BY <2>1, <2>2, <2>3 DEF Recorded
    <2> HIDE DEF t, rec, new, k, id
    <2>5. QED
      BY <2>1, <2>2, <2>3, <2>4
  <1>8. CASE Save
    BY <1>8 DEF Save
  <1>9. CASE Flush
    BY <1>9 DEF Flush
  <1>10. CASE Remove
    BY <1>10 DEF Remove
  <1>11. CASE Tick
    BY <1>11 DEF Tick
  <1>12. CASE Restart
    BY <1>12 DEF Restart
  <1>13. CASE UNCHANGED vars
    BY <1>13 DEF vars
  <1>14. QED
    BY <1>1, <1>2, <1>3, <1>4, <1>5, <1>6, <1>7, <1>8, <1>9, <1>10, <1>11, <1>12, <1>13 DEF Next, Handle

\* Every variable keeps its type, and a request without a key asks no query
\* (routes/transfers.ts, services/idempotency-store.ts).
THEOREM IdempotentTypeOK == Spec => []TypeOK
  <1>1. Init => TypeOK
    BY IdleType DEF Init, TypeOK
  <1>2. QED
    BY <1>1, TypeStep, PTL DEF Spec

-----------------------------------------------------------------------------
(* Only requests that overlap make two transfers under one key *)

\* A record that is not expired.
Live(rec) == rec # Absent /\ clock - rec.at <= Window

\* An upsert under way is of this tick.
SavesRecent == \A s \in saves : s.rec.at = clock

\* A request that came in when there was a live record will find one.
WillFind ==
    \A r \in Requests :
        Live(requests[r].met) =>
            /\ requests[r].phase = "looking" => Live(records[requests[r].key])
            /\ requests[r].phase = "found" => Live(requests[r].found)
            /\ requests[r].phase # "cleaning"

\* What OnlyOverlapping says, of the transfers as last flushed.
StoredToo == \A t \in stored : t.met # Absent => t.at - t.met.at > Window

OverlapInv == TypeOK /\ SavesRecent /\ WillFind /\ OnlyOverlapping /\ StoredToo

\* A save, a cleaning or a creation leaves every key that has a live record
\* with a live record.
LEMMA LiveKept ==
    ASSUME TypeOK, SavesRecent, NEW k \in Keys, Live(records[k]), clock' = clock,
           \/ records' = records
           \/ Save
           \/ \E r \in Requests : Clean(r)
           \/ \E r \in Requests : Create(r)
    PROVE  Live(records'[k])
  <1> USE IdleType, IdempotentTransfersAssumption DEF TypeOK, Live, Record
  <1>1. CASE Save
    BY <1>1 DEF Save, SavesRecent
  <1>2. CASE \E r \in Requests : Clean(r)
    BY <1>2 DEF Clean, Expired
  <1>3. CASE \E r \in Requests : Create(r)
    BY <1>3 DEF Create, Recorded
  <1>4. QED
    BY <1>1, <1>2, <1>3

\* The requests other than the one that moves go on as WillFind says.
LEMMA WillFindOthers ==
    ASSUME OverlapInv, NEW r \in Requests, NEW q, requests' = [requests EXCEPT ![r] = q], clock' = clock,
           \A k \in Keys : Live(records[k]) => Live(records'[k]),
           Live(q.met) => /\ q.phase = "looking" => Live(records'[q.key])
                          /\ q.phase = "found" => Live(q.found)
                          /\ q.phase # "cleaning"
    PROVE  WillFind'
  <1> SUFFICES ASSUME NEW p \in Requests, Live(requests'[p].met)
               PROVE  /\ requests'[p].phase = "looking" => Live(records'[requests'[p].key])
                      /\ requests'[p].phase = "found" => Live(requests'[p].found)
                      /\ requests'[p].phase # "cleaning"
    BY DEF WillFind, Live
  <1>1. CASE p = r
    BY <1>1 DEF OverlapInv, TypeOK
  <1>2. CASE p # r
    <2>1. requests'[p] = requests[p]
      BY <1>2 DEF OverlapInv, TypeOK
    <2>2. requests[p].phase = "looking" => requests[p].key \in Keys
      BY DEF OverlapInv, TypeOK, Request
    <2>3. QED
      BY <2>1, <2>2 DEF OverlapInv, WillFind
  <1>3. QED
    BY <1>1, <1>2

\* Every step keeps the invariant.
LEMMA OverlapStep == OverlapInv /\ [Next]_vars => OverlapInv'
  <1> USE IdleType, IdempotentTransfersAssumption
  <1> SUFFICES ASSUME OverlapInv, [Next]_vars PROVE OverlapInv'
    OBVIOUS
  <1>0. TypeOK /\ TypeOK'
    BY TypeStep DEF OverlapInv
  <1>1. ASSUME NEW r \in Requests, Arrive(r) PROVE OverlapInv'
    <2>1. PICK k \in Keys \cup {NoKey}, valid \in BOOLEAN :
              requests' = [requests EXCEPT ![r] =
                  [phase |-> IF k = NoKey THEN "found" ELSE "looking", key |-> k, valid |-> valid,
                   found |-> Absent, met |-> IF k = NoKey THEN Absent ELSE records[k]]]
      BY <1>1 DEF Arrive
    <2>2. clock' = clock /\ records' = records
      BY <1>1 DEF Arrive
    <2>3. WillFind'
      BY <2>1, <2>2, WillFindOthers DEF Live
    <2>4. QED
      BY <1>0, <1>1, <2>3 DEF Arrive, OverlapInv, SavesRecent, OnlyOverlapping, StoredToo
  <1>2. ASSUME NEW r \in Requests, Look(r) PROVE OverlapInv'
    <2> DEFINE q == [requests[r] EXCEPT !.phase = "found", !.found = records[requests[r].key]]
    <2>1. requests' = [requests EXCEPT ![r] = q] /\ clock' = clock /\ records' = records
      BY <1>2 DEF Look
    <2>2. requests[r] \in Request /\ requests[r].key \in Keys /\ requests[r].phase = "looking"
      BY <1>0, <1>2 DEF Look, TypeOK, Request
    <2>3. q.phase = "found" /\ q.met = requests[r].met /\ q.found = records[requests[r].key]
      BY <2>2 DEF Request
    <2>4. Live(q.met) => Live(q.found)
      BY <2>2, <2>3 DEF OverlapInv, WillFind
    <2> HIDE DEF q
    <2>5. WillFind'
      BY <2>1, <2>3, <2>4, WillFindOthers DEF Live
    <2>6. QED
      BY <1>0, <1>2, <2>5 DEF Look, OverlapInv, SavesRecent, OnlyOverlapping, StoredToo
  <1>3. ASSUME NEW r \in Requests, FindExpired(r) PROVE OverlapInv'
    <2> DEFINE q == [requests[r] EXCEPT !.phase = "cleaning", !.found = Absent]
    <2>1. requests' = [requests EXCEPT ![r] = q] /\ clock' = clock /\ records' = records
      BY <1>3 DEF FindExpired
    <2>2. /\ requests[r] \in Request /\ requests[r].phase = "found"
          /\ requests[r].found \in Record /\ Expired(requests[r].found)
      BY <1>0, <1>3 DEF FindExpired, TypeOK, Request
    <2>3. ~Live(requests[r].found)
      BY <1>0, <2>2 DEF Live, Expired, Record, TypeOK
    <2>4. q.met = requests[r].met /\ ~Live(q.met)
      BY <2>2, <2>3 DEF OverlapInv, WillFind, Request
    <2> HIDE DEF q
    <2>5. WillFind'
      BY <2>1, <2>4, WillFindOthers DEF Live
    <2>6. QED
      BY <1>0, <1>3, <2>5 DEF FindExpired, OverlapInv, SavesRecent, OnlyOverlapping, StoredToo
  <1>4. ASSUME NEW r \in Requests, Clean(r) PROVE OverlapInv'
    <2> DEFINE q == [requests[r] EXCEPT !.phase = "found"]
    <2>1. requests' = [requests EXCEPT ![r] = q] /\ clock' = clock
      BY <1>4 DEF Clean
    <2>2. requests[r] \in Request /\ requests[r].phase = "cleaning"
      BY <1>0, <1>4 DEF Clean, TypeOK
    <2>3. q.met = requests[r].met /\ ~Live(q.met)
      BY <2>2 DEF OverlapInv, WillFind, Request
    <2>4. \A k \in Keys : Live(records[k]) => Live(records'[k])
      BY <1>0, <1>4, <2>1, LiveKept DEF OverlapInv
    <2> HIDE DEF q
    <2>5. WillFind'
      BY <2>1, <2>3, <2>4, WillFindOthers
    <2>6. QED
      BY <1>0, <1>4, <2>5 DEF Clean, OverlapInv, SavesRecent, OnlyOverlapping, StoredToo
  <1>5. ASSUME NEW r \in Requests, Replay(r) \/ Refuse(r) PROVE OverlapInv'
    <2>1. requests' = [requests EXCEPT ![r] = Idle] /\ clock' = clock /\ records' = records
      BY <1>5 DEF Replay, Refuse
    <2>2. WillFind'
      BY <2>1, WillFindOthers DEF Live
    <2>3. QED
      BY <1>0, <1>5, <2>2 DEF Replay, Refuse, OverlapInv, SavesRecent, OnlyOverlapping, StoredToo
  <1>6. ASSUME NEW r \in Requests, Create(r) PROVE OverlapInv'
    <2> DEFINE t == [id |-> made + 1, key |-> requests[r].key, at |-> clock, met |-> requests[r].met]
    <2>1. /\ requests' = [requests EXCEPT ![r] = Idle] /\ clock' = clock
          /\ transfers' = transfers \cup {t}
          /\ requests[r].phase = "found" /\ requests[r].found = Absent
      BY <1>6 DEF Create
    <2>2. \A k \in Keys : Live(records[k]) => Live(records'[k])
      BY <1>0, <1>6, <2>1, LiveKept DEF OverlapInv
    <2>3. WillFind'
      BY <2>1, <2>2, WillFindOthers
    <2>4. ~Live(t.met) /\ t.met \in Record \cup {Absent} /\ t.at = clock
      BY <1>0, <2>1 DEF OverlapInv, WillFind, Live, TypeOK, Request
    <2>5. t.met # Absent => t.at - t.met.at > Window
      BY <1>0, <2>4 DEF Live, Record, TypeOK
    <2> HIDE DEF t
    <2>6. OnlyOverlapping'
      BY <2>1, <2>5 DEF OverlapInv, OnlyOverlapping
    <2>7. SavesRecent'
      <3>1. saves' \subseteq saves \cup {[key |-> requests[r].key, rec |-> [transfer |-> made + 1, at |-> clock]]}
        BY <1>6 DEF Create, Recorded
      <3>2. QED
        BY <2>1, <3>1 DEF OverlapInv, SavesRecent
    <2>8. QED
      BY <1>0, <1>6, <2>3, <2>6, <2>7 DEF Create, OverlapInv, StoredToo
  <1>7. CASE Save
    <2>1. /\ clock' = clock /\ requests' = requests /\ transfers' = transfers
          /\ stored' = stored /\ saves' \subseteq saves
      BY <1>7 DEF Save
    <2>2. \A k \in Keys : Live(records[k]) => Live(records'[k])
      BY <1>0, <1>7, <2>1, LiveKept DEF OverlapInv
    <2>3. WillFind'
      <3>1. \A r \in Requests : requests[r].phase = "looking" => requests[r].key \in Keys
        BY <1>0 DEF TypeOK, Request
      <3>2. QED
        BY <2>1, <2>2, <3>1 DEF OverlapInv, WillFind, Live
    <2>4. QED
      BY <1>0, <2>1, <2>3 DEF OverlapInv, SavesRecent, OnlyOverlapping, StoredToo
  <1>8. CASE Flush \/ Remove \/ UNCHANGED vars
    BY <1>0, <1>8 DEF Flush, Remove, vars, OverlapInv, SavesRecent, WillFind, Live, OnlyOverlapping, StoredToo
  <1>9. CASE Tick
    BY <1>0, <1>9 DEF Tick, AllIdle, OverlapInv, SavesRecent, WillFind, OnlyOverlapping, StoredToo
  <1>10. CASE Restart
    <2>1. /\ saves' = {} /\ transfers' = stored /\ stored' = stored
          /\ \A r \in Requests : requests'[r] = Idle
      BY <1>10 DEF Restart
    <2>2. WillFind'
      BY <2>1 DEF WillFind
    <2>3. QED
      BY <1>0, <2>1, <2>2 DEF OverlapInv, SavesRecent, OnlyOverlapping, StoredToo
  <1>11. QED
    BY <1>1, <1>2, <1>3, <1>4, <1>5, <1>6, <1>7, <1>8, <1>9, <1>10 DEF Next, Handle

\* With either adapter, a second transfer under a key is made only by a
\* request that came in before the answer of the first was recorded, or more
\* than the window later (getIdempotentReplay, saveIdempotentResult).
THEOREM IdempotentOnlyOverlapping == Spec => []OnlyOverlapping
  <1>1. Init => OverlapInv
    <2>1. Init => TypeOK
      BY IdleType DEF Init, TypeOK
    <2>2. Init => SavesRecent /\ WillFind /\ OnlyOverlapping /\ StoredToo
      BY IdleType DEF Init, SavesRecent, WillFind, OnlyOverlapping, StoredToo
    <2>3. QED
      BY <2>1, <2>2 DEF OverlapInv
  <1>2. OverlapInv => OnlyOverlapping
    BY DEF OverlapInv
  <1>3. QED
    BY <1>1, <1>2, OverlapStep, PTL DEF Spec

-----------------------------------------------------------------------------
(* With SQLite no two transfers are made under one key within the window *)

Kept == transfers \cup stored

\* Made longer ago than the window.
Old(at) == clock - at > Window

\* Nothing is under way but one handler.
OneAtATime ==
    /\ saves = {}
    /\ \A q, r \in Requests : (requests[q].phase # "idle" /\ requests[r].phase # "idle") => q = r

\* Numbers and times of what was made are not ahead.
Bounded ==
    /\ \A t \in Kept : t.id <= made /\ t.at <= clock
    /\ \A a \in answers : a.transfer <= made /\ a.at <= clock

\* What was made under a key within the window is what its record says.
Remembered ==
    /\ \A t \in Kept : t.key # NoKey => Old(t.at) \/ records[t.key] = [transfer |-> t.id, at |-> t.at]
    /\ \A a \in answers : Old(a.at) \/ records[a.key] = [transfer |-> a.transfer, at |-> a.at]

\* A record was given as an answer.
RecordsGiven ==
    \A k \in Keys : records[k] # Absent =>
        \E a \in answers : a.key = k /\ a.transfer = records[k].transfer /\ a.at = records[k].at

\* Nothing was made under key k within the window.
NothingRecent(k) ==
    /\ \A t \in Kept : t.key = k => Old(t.at)
    /\ \A a \in answers : a.key = k => Old(a.at)

\* What a handler has found is still so.
StillFound ==
    \A r \in Requests : (requests[r].phase \in {"found", "cleaning"} /\ requests[r].key # NoKey) =>
        IF requests[r].found = Absent THEN NothingRecent(requests[r].key)
        ELSE requests[r].phase = "found" /\ requests[r].found = records[requests[r].key]

\* PaidOnce, of the transfers in memory and as last flushed.
KeptOnce == \A t, u \in Kept : (t.key = u.key /\ t.key # NoKey /\ t.id < u.id) => u.at - t.at > Window

\* AnswersAgree, whatever the adapter.
Agreed == \A x, y \in answers : (x.key = y.key /\ x.transfer < y.transfer) => y.at - x.at > Window

SerialInv == OneAtATime /\ Bounded /\ Remembered /\ RecordsGiven /\ StillFound /\ KeptOnce /\ Agreed

OnceInv == TypeOK /\ (Serial => SerialInv)

\* While a handler works with SQLite, every other one is idle.
LEMMA OthersIdle ==
    ASSUME OneAtATime, NEW r \in Requests, requests[r].phase # "idle", NEW p \in Requests, p # r
    PROVE  requests[p].phase = "idle"
  BY DEF OneAtATime

\* A step of one handler that changes nothing but its own state.
LEMMA HandlerStep ==
    ASSUME OnceInv, Serial, NEW r \in Requests, NEW q,
           requests' = [requests EXCEPT ![r] = q],
           UNCHANGED <<adapter, transfers, stored, records, saves, answers, made, clock>>,
           \A p \in Requests \ {r} : requests[p].phase = "idle",
           (q.phase \in {"found", "cleaning"} /\ q.key # NoKey) =>
               IF q.found = Absent THEN NothingRecent(q.key)
               ELSE q.phase = "found" /\ q.found = records[q.key]
    PROVE  SerialInv'
  <1>1. \A p \in Requests : requests'[p] = IF p = r THEN q ELSE requests[p]
    BY DEF OnceInv, TypeOK
  <1>2. OneAtATime'
    BY <1>1 DEF OnceInv, SerialInv, OneAtATime
  <1>3. StillFound'
    BY <1>1 DEF StillFound, NothingRecent, Old, Kept
  <1>4. Bounded' /\ Remembered' /\ RecordsGiven' /\ KeptOnce' /\ Agreed'
    BY DEF OnceInv, SerialInv, Bounded, Remembered, RecordsGiven, KeptOnce, Agreed, Old, Kept
  <1>5. QED
    BY <1>2, <1>3, <1>4 DEF SerialInv

\* A key without a live record has nothing recent.
LEMMA NoLiveRecord ==
    ASSUME TypeOK, Remembered, NEW k \in Keys, records[k] = Absent \/ Expired(records[k])
    PROVE  NothingRecent(k)
  <1>1. ASSUME NEW id \in Nat \ {0}, NEW at \in Nat, records[k] = [transfer |-> id, at |-> at] PROVE Old(at)
    <2>1. records[k] \in Record /\ records[k].at = at
      BY <1>1 DEF Record
    <2>2. records[k] # Absent
      BY <2>1, IdempotentTransfersAssumption
    <2>3. QED
      BY <2>1, <2>2 DEF Old, Expired
  <1>2. \A t \in Kept : t.id \in Nat \ {0} /\ t.at \in Nat
    BY DEF TypeOK, Kept, Transfer
  <1>3. ASSUME NEW t \in Kept, t.key = k PROVE Old(t.at)
    <2>1. t.key # NoKey
      BY <1>3, IdempotentTransfersAssumption
    <2>2. Old(t.at) \/ records[k] = [transfer |-> t.id, at |-> t.at]
      BY <1>3, <2>1 DEF Remembered
    <2>3. QED
      BY <1>1, <1>2, <2>2
  <1>4. \A a \in answers : a.transfer \in Nat \ {0} /\ a.at \in Nat
    BY DEF TypeOK, Answer
  <1>5. ASSUME NEW a \in answers, a.key = k PROVE Old(a.at)
    <2>1. Old(a.at) \/ records[k] = [transfer |-> a.transfer, at |-> a.at]
      BY <1>5 DEF Remembered
    <2>2. QED
      BY <1>1, <1>4, <2>1
  <1>6. QED
    BY <1>3, <1>5 DEF NothingRecent

\* The transfer made is new, and so is its record.
LEMMA CreateStep ==
    ASSUME OnceInv, Serial, NEW r \in Requests, Create(r) PROVE SerialInv'
  <1> DEFINE k == requests[r].key
             n == made + 1
             t == [id |-> n, key |-> k, at |-> clock, met |-> requests[r].met]
             rec == [transfer |-> n, at |-> clock]
             ans == [key |-> k, transfer |-> n, at |-> clock]
  <1>1. /\ requests[r].phase = "found" /\ requests[r].found = Absent
        /\ requests' = [requests EXCEPT ![r] = Idle]
        /\ transfers' = transfers \cup {t} /\ stored' = stored
        /\ made' = n /\ clock' = clock
        /\ k = NoKey => answers' = answers /\ records' = records
        /\ k # NoKey => answers' = answers \cup {ans} /\ records' = [records EXCEPT ![k] = rec]
        /\ saves' = saves
    BY DEF Create, Recorded
  <1>2. /\ made \in Nat /\ clock \in Nat /\ k \in Keys \cup {NoKey} /\ Window \in Nat /\ NoKey \notin Keys
        /\ records \in [Keys -> Record \cup {Absent}]
        /\ \A u \in Kept : u.id \in Nat \ {0} /\ u.at \in Nat /\ u.key \in Keys \cup {NoKey}
        /\ \A a \in answers : a.transfer \in Nat \ {0} /\ a.at \in Nat /\ a.key \in Keys
    BY IdempotentTransfersAssumption DEF OnceInv, TypeOK, Request, Kept, Transfer, Answer
  <1>3. k # NoKey => NothingRecent(k)
    BY <1>1 DEF OnceInv, SerialInv, StillFound
  <1>4. Kept' = Kept \cup {t}
    BY <1>1 DEF Kept
  <1>5. \A p \in Requests : requests'[p].phase = "idle"
    BY <1>1, OthersIdle DEF OnceInv, SerialInv, TypeOK, Idle
  <1>7. /\ t.id = n /\ t.key = k /\ t.at = clock
        /\ ans.key = k /\ ans.transfer = n /\ ans.at = clock
        /\ rec.transfer = n /\ rec.at = clock
    OBVIOUS
  <1> HIDE DEF k, n, t, ans
  <1>8. OneAtATime' /\ StillFound'
    BY <1>1, <1>5 DEF OnceInv, SerialInv, OneAtATime, StillFound
  <1>9. Bounded'
    BY <1>1, <1>2, <1>4, <1>7 DEF OnceInv, SerialInv, Bounded, n
  <1>10. Remembered'
    <2>1. ASSUME NEW u \in Kept', u.key # NoKey
          PROVE  clock - u.at > Window \/ records'[u.key] = [transfer |-> u.id, at |-> u.at]
      <3>1. CASE u = t
        BY <1>1, <1>2, <1>7, <2>1, <3>1
      <3>2. CASE u # t /\ u.key = k
        BY <1>3, <1>4, <2>1, <3>2 DEF NothingRecent, Old
      <3>3. CASE u # t /\ u.key # k
        <4>1. u \in Kept /\ records'[u.key] = records[u.key]
          BY <1>1, <1>2, <1>4, <2>1, <3>3
        <4>2. QED
          BY <2>1, <4>1 DEF OnceInv, SerialInv, Remembered, Old
      <3>4. QED
        BY <3>1, <3>2, <3>3
    <2>2. ASSUME NEW a \in answers'
          PROVE  clock - a.at > Window \/ records'[a.key] = [transfer |-> a.transfer, at |-> a.at]
      <3>1. CASE a \notin answers
        <4>1. k \in Keys /\ a = ans /\ records' = [records EXCEPT ![k] = rec]
          BY <1>1, <1>2, <2>2, <3>1
        <4>2. QED
          BY <1>2, <1>7, <4>1
      <3>2. CASE a \in answers /\ a.key = k
        BY <1>2, <1>3, <3>2 DEF NothingRecent, Old
      <3>3. CASE a \in answers /\ a.key # k
        <4>1. records'[a.key] = records[a.key]
          BY <1>1, <1>2, <3>3
        <4>2. QED
          BY <3>3, <4>1 DEF OnceInv, SerialInv, Remembered, Old
      <3>4. QED
        BY <3>1, <3>2, <3>3
    <2>3. QED
      BY <1>1, <2>1, <2>2 DEF Remembered, Old
  <1>11. RecordsGiven'
    BY <1>1, <1>2, <1>7 DEF OnceInv, SerialInv, RecordsGiven
  <1>12. KeptOnce'
    <2>1. \A u \in Kept : u.id < n /\ (k # NoKey /\ u.key = k => clock - u.at > Window)
      BY <1>2, <1>3 DEF OnceInv, SerialInv, Bounded, NothingRecent, Old, n
    <2>2. QED
      BY <1>2, <1>4, <1>7, <2>1 DEF OnceInv, SerialInv, KeptOnce, n
  <1>13. Agreed'
    <2>1. \A a \in answers : a.transfer < n /\ (k # NoKey /\ a.key = k => clock - a.at > Window)
      BY <1>2, <1>3 DEF OnceInv, SerialInv, Bounded, NothingRecent, Old, n
    <2>2. QED
      BY <1>1, <1>2, <1>7, <2>1 DEF OnceInv, SerialInv, Agreed, n
  <1>14. QED
    BY <1>8, <1>9, <1>10, <1>11, <1>12, <1>13 DEF SerialInv

LEMMA OnceStep == OnceInv /\ [Next]_vars => OnceInv'
  <1> SUFFICES ASSUME OnceInv, [Next]_vars, Serial' PROVE SerialInv'
    BY TypeStep DEF OnceInv
  <1>0. TypeOK /\ TypeOK' /\ adapter' = adapter /\ Serial /\ SerialInv
    BY TypeStep DEF OnceInv, Next, Handle, Arrive, Look, FindExpired, Clean, Replay, Refuse, Create, Save,
                    Flush, Remove, Tick, Restart, Serial, vars
  <1>1. ASSUME NEW r \in Requests, Arrive(r) PROVE SerialInv'
    <2>1. \A p \in Requests \ {r} : requests[p].phase = "idle"
      BY <1>0, <1>1 DEF Arrive, Free
    <2>2. PICK key \in Keys \cup {NoKey}, valid \in BOOLEAN :
            requests' = [requests EXCEPT ![r] =
               [phase |-> IF key = NoKey THEN "found" ELSE "looking", key |-> key, valid |-> valid, found |-> Absent,
                met |-> IF key = NoKey THEN Absent ELSE records[key]]]
      BY <1>1 DEF Arrive
    <2>3. UNCHANGED <<adapter, transfers, stored, records, saves, answers, made, clock>>
      BY <1>1 DEF Arrive
    <2> DEFINE q == [phase |-> IF key = NoKey THEN "found" ELSE "looking", key |-> key, valid |-> valid,
                     found |-> Absent, met |-> IF key = NoKey THEN Absent ELSE records[key]]
    <2>4. ~(q.phase \in {"found", "cleaning"} /\ q.key # NoKey) /\ requests' = [requests EXCEPT ![r] = q]
      BY <2>2
    <2> HIDE DEF q
    <2>5. QED
      BY <1>0, <2>1, <2>3, <2>4, HandlerStep
  <1>2. ASSUME NEW r \in Requests, Look(r) PROVE SerialInv'
    <2> DEFINE k == requests[r].key
               q == [requests[r] EXCEPT !.phase = "found", !.found = records[k]]
    <2>0. requests[r] \in Request /\ k \in Keys
      BY <1>0, <1>2 DEF Look, TypeOK, Request
    <2>1. /\ requests[r].phase = "looking"
          /\ requests' = [requests EXCEPT ![r] = q]
          /\ q.phase = "found" /\ q.key = k /\ q.found = records[k]
      BY <1>0, <1>2, <2>0 DEF Look, TypeOK, Request
    <2>2. \A p \in Requests \ {r} : requests[p].phase = "idle"
      BY <1>0, <2>1, OthersIdle DEF SerialInv
    <2>3. records[k] = Absent => NothingRecent(k)
      BY <1>0, <2>0, NoLiveRecord DEF SerialInv
    <2>4. UNCHANGED <<adapter, transfers, stored, records, saves, answers, made, clock>>
      BY <1>2 DEF Look
    <2> HIDE DEF q, k
    <2>5. QED
      BY <1>0, <2>1, <2>2, <2>3, <2>4, HandlerStep
  <1>3. ASSUME NEW r \in Requests, FindExpired(r) PROVE SerialInv'
    <2> DEFINE k == requests[r].key
               q == [requests[r] EXCEPT !.phase = "cleaning", !.found = Absent]
    <2>1. /\ k \in Keys /\ requests[r].phase = "found" /\ requests[r].found # Absent
          /\ Expired(requests[r].found)
          /\ requests' = [requests EXCEPT ![r] = q]
          /\ q.phase = "cleaning" /\ q.key = k /\ q.found = Absent
      BY <1>0, <1>3 DEF FindExpired, TypeOK, Request
    <2>2. \A p \in Requests \ {r} : requests[p].phase = "idle"
      BY <1>0, <2>1, OthersIdle DEF SerialInv
    <2>3. NothingRecent(k)
      <3>1. k # NoKey
        BY <2>1, IdempotentTransfersAssumption
      <3>2. Expired(records[k])
        BY <1>0, <2>1, <3>1 DEF SerialInv, StillFound
      <3>3. QED
        BY <1>0, <2>1, <3>2, NoLiveRecord DEF SerialInv
    <2>4. UNCHANGED <<adapter, transfers, stored, records, saves, answers, made, clock>>
      BY <1>3 DEF FindExpired
    <2> HIDE DEF q, k
    <2>5. QED
      BY <1>0, <2>1, <2>2, <2>3, <2>4, HandlerStep
  <1>4. ASSUME NEW r \in Requests, Clean(r) PROVE SerialInv'
    <2>1. /\ requests[r].phase = "cleaning"
          /\ records' = [k \in Keys |-> IF records[k] # Absent /\ Expired(records[k]) THEN Absent ELSE records[k]]
          /\ requests' = [requests EXCEPT ![r].phase = "found"]
          /\ UNCHANGED <<adapter, transfers, stored, saves, answers, made, clock>>
      BY <1>4 DEF Clean
    <2>2. \A p \in Requests : IF p = r THEN /\ requests'[p].phase = "found" /\ requests'[p].key = requests[p].key
                                            /\ requests'[p].found = requests[p].found
                              ELSE requests'[p] = requests[p]
      BY <1>0, <2>1 DEF TypeOK, Request
    <2>3. \A k \in Keys : records'[k] # Absent => records'[k] = records[k]
      BY <2>1
    <2>4. \A k \in Keys : records'[k] # records[k] => NothingRecent(k)
      BY <1>0, <2>1, NoLiveRecord DEF SerialInv
    <2>5. \A p \in Requests \ {r} : requests[p].phase = "idle"
      BY <1>0, <2>1, OthersIdle DEF SerialInv
    <2>6. Kept' = Kept /\ clock' = clock
      BY <2>1 DEF Kept
    <2>7. OneAtATime'
      BY <1>0, <2>1, <2>2, <2>5 DEF SerialInv, OneAtATime
    <2>8. Bounded' /\ KeptOnce' /\ Agreed'
      BY <1>0, <2>1, <2>6 DEF SerialInv, Bounded, KeptOnce, Agreed
    <2>9. RecordsGiven'
      BY <1>0, <2>1, <2>3 DEF SerialInv, RecordsGiven
    <2>10. Remembered'
      <3>1. \A t \in Kept : t.key # NoKey => t.key \in Keys
        BY <1>0 DEF TypeOK, Kept, Transfer
      <3>2. \A a \in answers : a.key \in Keys
        BY <1>0 DEF TypeOK, Answer
      <3>3. QED
        BY <1>0, <2>1, <2>4, <2>6, <3>1, <3>2 DEF SerialInv, Remembered, NothingRecent, Old
    <2>11. StillFound'
      BY <1>0, <2>1, <2>2, <2>5, <2>6 DEF SerialInv, StillFound, NothingRecent, Old
    <2>12. QED
      BY <2>7, <2>8, <2>9, <2>10, <2>11 DEF SerialInv
  <1>5. ASSUME NEW r \in Requests, Replay(r) PROVE SerialInv'
    <2> DEFINE k == requests[r].key
               rec == requests[r].found
               ans == [key |-> k, transfer |-> rec.transfer, at |-> rec.at]
    <2>1. /\ k \in Keys /\ requests[r].phase = "found" /\ rec # Absent
          /\ requests' = [requests EXCEPT ![r] = Idle]
          /\ answers' = answers \cup {ans}
          /\ UNCHANGED <<adapter, transfers, stored, records, saves, made, clock>>
          /\ k # NoKey
      BY <1>0, <1>5, IdempotentTransfersAssumption DEF Replay, TypeOK, Request
    <2>2. records[k] = rec
      BY <1>0, <2>1 DEF SerialInv, StillFound
    <2>3. PICK b \in answers : b.key = ans.key /\ b.transfer = ans.transfer /\ b.at = ans.at
      BY <1>0, <2>1, <2>2 DEF SerialInv, RecordsGiven
    <2> HIDE DEF ans
    <2>4. \A p \in Requests : requests'[p].phase = "idle"
      BY <1>0, <2>1, OthersIdle DEF SerialInv, TypeOK, Idle
    <2>5. OneAtATime' /\ StillFound'
      BY <1>0, <2>1, <2>4 DEF SerialInv, OneAtATime, StillFound
    <2>6. KeptOnce' /\ RecordsGiven'
      BY <1>0, <2>1 DEF SerialInv, KeptOnce, RecordsGiven, Kept
    <2>7. Bounded' /\ Remembered'
      BY <1>0, <2>1, <2>3 DEF SerialInv, Bounded, Remembered, Kept, Old
    <2>8. Agreed'
      BY <1>0, <2>1, <2>3 DEF SerialInv, Agreed
    <2>9. QED
      BY <2>5, <2>6, <2>7, <2>8 DEF SerialInv
  <1>6. ASSUME NEW r \in Requests, Refuse(r) PROVE SerialInv'
    <2>1. requests[r].phase = "found" /\ requests' = [requests EXCEPT ![r] = Idle]
      BY <1>6 DEF Refuse
    <2>2. \A p \in Requests \ {r} : requests[p].phase = "idle"
      BY <1>0, <2>1, OthersIdle DEF SerialInv
    <2>3. QED
      BY <1>0, <1>6, <2>1, <2>2, HandlerStep DEF Refuse, Idle
  <1>7. ASSUME NEW r \in Requests, Create(r) PROVE SerialInv'
    BY <1>0, <1>7, CreateStep
  <1>8. CASE Save
    BY <1>0, <1>8 DEF Save, SerialInv, OneAtATime
  <1>9. CASE Flush \/ Remove \/ Restart
    <2>1. /\ Kept' \subseteq Kept /\ saves' = {}
          /\ UNCHANGED <<records, answers, made, clock>>
          /\ \A p \in Requests : requests'[p].phase = "idle"
      BY <1>0, <1>9 DEF Flush, Remove, Restart, Kept, AllIdle, SerialInv, OneAtATime, Idle
    <2>2. OneAtATime' /\ StillFound'
      BY <2>1 DEF OneAtATime, StillFound
    <2>3. Bounded' /\ Remembered' /\ RecordsGiven' /\ KeptOnce' /\ Agreed'
      BY <1>0, <2>1 DEF SerialInv, Bounded, Remembered, RecordsGiven, KeptOnce, Agreed, Old
    <2>4. QED
      BY <2>2, <2>3 DEF SerialInv
  <1>10. CASE Tick
    <2>1. /\ UNCHANGED <<transfers, stored, requests, saves, records, answers, made>>
          /\ clock' = clock + 1 /\ Kept' = Kept
          /\ \A p \in Requests : requests[p].phase = "idle"
      BY <1>10 DEF Tick, AllIdle, Kept
    <2>2. /\ clock \in Nat /\ Window \in Nat
          /\ \A t \in Kept : t.at \in Nat
          /\ \A a \in answers : a.at \in Nat
      <3>1. \A t \in Kept : t \in Transfer
        BY <1>0 DEF TypeOK, Kept
      <3>2. \A a \in answers : a \in Answer
        BY <1>0 DEF TypeOK
      <3>3. QED
        BY <1>0, <3>1, <3>2, IdempotentTransfersAssumption DEF TypeOK, Transfer, Answer
    <2>3. OneAtATime' /\ StillFound'
      BY <1>0, <2>1 DEF SerialInv, OneAtATime, StillFound
    <2>4. Bounded'
      BY <1>0, <2>1, <2>2 DEF SerialInv, Bounded
    <2>5. Remembered'
      BY <1>0, <2>1, <2>2 DEF SerialInv, Remembered, Old
    <2>6. RecordsGiven' /\ KeptOnce' /\ Agreed'
      BY <1>0, <2>1 DEF SerialInv, RecordsGiven, KeptOnce, Agreed
    <2>7. QED
      BY <2>3, <2>4, <2>5, <2>6 DEF SerialInv
  <1>11. CASE UNCHANGED vars
    BY <1>0, <1>11 DEF vars, SerialInv, OneAtATime, Bounded, Remembered, RecordsGiven, StillFound, NothingRecent,
                       KeptOnce, Agreed, Kept, Old
  <1>12. QED
    BY <1>1, <1>2, <1>3, <1>4, <1>5, <1>6, <1>7, <1>8, <1>9, <1>10, <1>11 DEF Next, Handle

LEMMA OnceAlways == Spec => []OnceInv
  <1>1. Init => OnceInv
    <2>1. Init => TypeOK
      BY IdleType DEF Init, TypeOK
    <2>2. Init => SerialInv
      BY DEF Init, SerialInv, OneAtATime, Bounded, Remembered, RecordsGiven, StillFound, KeptOnce, Agreed, Kept, Idle
    <2>3. QED
      BY <2>1, <2>2 DEF OnceInv
  <1>2. QED
    BY <1>1, OnceStep, PTL DEF Spec

\* With SQLite two transfers that the tenant has under one key are more than
\* the window apart, through restarts, expiry and retries (routes/transfers.ts).
THEOREM IdempotentPaidOnce == Spec => []PaidOnceSqlite
  <1>1. OnceInv => PaidOnceSqlite
    BY DEF OnceInv, SerialInv, KeptOnce, Kept, PaidOnceSqlite, PaidOnce
  <1>2. QED
    BY <1>1, OnceAlways, PTL

\* With SQLite answers under one key that name different transfers name
\* transfers made more than the window apart (getIdempotentReplay,
\* saveIdempotentResult).
THEOREM IdempotentAnswersAgree == Spec => []AnswersAgree
  <1>1. OnceInv => AnswersAgree
    BY DEF OnceInv, SerialInv, Agreed, AnswersAgree
  <1>2. QED
    BY <1>1, OnceAlways, PTL
=============================================================================
