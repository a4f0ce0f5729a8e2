--------------------------- MODULE FallbackProofs ---------------------------
(***************************************************************************)
(* Theorems about FallbackStore, for any resources and any number of       *)
(* requests, loads, saves and restarts.                                    *)
(***************************************************************************)
EXTENDS FallbackStore, FiniteFacts

-----------------------------------------------------------------------------
(* A request *)

LoadRecord == [n : Nat, req : Request, payload : Dataset \cup {Absent}]
SaveRecord == [n : Nat, data : Dataset]

LEMMA FreshType == ASSUME NEW S, IsFiniteSet(S) PROVE FreshNumber(S) \in Nat
  BY FreshNumberExists, FS_CardinalityType DEF FreshNumber

LEMMA RequestType == ASSUME NEW req \in Request, req.method # "list" PROVE req.id \in Ids
  BY DEF Request

LEMMA AfterType ==
  ASSUME TypeOK, NEW req \in Request, NEW data \in Dataset
  PROVE  /\ After(req, data) \in Dataset
         /\ req.method = "list" => After(req, data) = data
         /\ \A id \in Ids : (req.method = "list" \/ id # req.id) => After(req, data)[id] = data[id]
         /\ ~Changes(req, data) => After(req, data) = data
  <1>1. CASE ~Changes(req, data)
    BY <1>1 DEF After
  <1>2. CASE Changes(req, data)
    <2>1. req.id \in Ids /\ req.method # "list"
      BY <1>2, RequestType DEF Changes
    <2> DEFINE r == IF req.method = "delete" THEN Absent ELSE writes + 1
    <2>2. r \in Record /\ After(req, data) = [data EXCEPT ![req.id] = r]
      BY <1>2 DEF After, Record, TypeOK
    <2> HIDE DEF r
    <2>3. QED
      BY <1>2, <2>1, <2>2 DEF Dataset
  <1>3. QED
    BY <1>1, <1>2

\* What executeContractRequest leaves, given the data it works on.
LEMMA ExecuteFacts ==
  ASSUME TypeOK, NEW req \in Request, NEW data \in Dataset, NEW waiting, Execute(req, data, waiting)
  PROVE  /\ store' \in Dataset /\ store' # Absent /\ stored' \in Dataset
         /\ saves' \subseteq SaveRecord /\ IsFiniteSet(saves')
         /\ told' \in Dataset /\ exposed' \subseteq Ids /\ responses' \in Nat /\ writes' \in Nat
         /\ Serial => saves' = saves /\ (stored' = store' \/ (stored' = stored /\ store' = data))
         /\ ~Serial => stored' = stored /\ \A s \in saves' : s \in saves \/ s.data = store'
         /\ \A id \in Ids \ exposed' :
               \/ store'[id] = told'[id] /\ waiting = {}
               \/ id \notin exposed /\ store'[id] = data[id] /\ told'[id] = told[id]
  <1> DEFINE after == After(req, data)
  <1>1. /\ after \in Dataset /\ after # Absent /\ (req.method = "list" => after = data)
        /\ \A id \in Ids : (req.method = "list" \/ id # req.id) => after[id] = data[id]
        /\ ~Changes(req, data) => after = data
    BY AfterType, FallbackAssumption
  <1>2. /\ store' = after /\ responses' = responses + 1
        /\ told' = IF req.method = "list" THEN told ELSE [told EXCEPT ![req.id] = after[req.id]]
        /\ exposed' = IF req.method = "list" THEN exposed
                      ELSE IF waiting = {} THEN exposed \ {req.id} ELSE exposed \cup {req.id}
        /\ Changes(req, data) => writes' = writes + 1 /\ SaveTenantStore(after)
        /\ ~Changes(req, data) => UNCHANGED <<writes, stored, saves>>
    BY DEF Execute, SaveNow
  <1> HIDE DEF after
  <1>3. /\ saves \subseteq SaveRecord /\ IsFiniteSet(saves) /\ stored \in Dataset /\ told \in Dataset
        /\ exposed \subseteq Ids /\ writes \in Nat /\ responses \in Nat
    BY DEF TypeOK, SaveRecord
  <1>4. /\ stored' \in Dataset /\ saves' \subseteq SaveRecord /\ IsFiniteSet(saves') /\ writes' \in Nat
        /\ Serial => saves' = saves /\ (stored' = store' \/ (stored' = stored /\ store' = data))
        /\ ~Serial => stored' = stored /\ \A s \in saves' : s \in saves \/ s.data = store'
    <2>1. CASE ~Changes(req, data)
      BY <1>1, <1>2, <1>3, <2>1
    <2>2. CASE Changes(req, data) /\ Serial
      BY <1>1, <1>2, <1>3, <2>2 DEF SaveTenantStore
    <2>3. CASE Changes(req, data) /\ ~Serial
      <3> DEFINE s == [n |-> FreshNumber(saves), data |-> after]
      <3>1. saves' = saves \cup {s} /\ stored' = stored /\ writes' = writes + 1
        BY <1>2, <2>3 DEF SaveTenantStore
      <3>2. s \in SaveRecord /\ s.data = after
        BY <1>1, <1>3, FreshType DEF SaveRecord
      <3> HIDE DEF s
      <3>3. IsFiniteSet(saves')
        BY <1>3, <3>1, FS_AddElement
      <3>4. QED
        BY <1>2, <1>3, <2>3, <3>1, <3>2, <3>3
    <2>4. QED
      BY <2>1, <2>2, <2>3
  <1>5. /\ told' \in Dataset /\ exposed' \subseteq Ids
        /\ \A id \in Ids \ exposed' :
              \/ store'[id] = told'[id] /\ waiting = {}
              \/ id \notin exposed /\ store'[id] = data[id] /\ told'[id] = told[id]
    <2>1. CASE req.method = "list"
      BY <1>1, <1>2, <1>3, <2>1
    <2>2. CASE req.method # "list"
      <3>1. req.id \in Ids
        BY <2>2, RequestType
      <3>2. told' = [told EXCEPT ![req.id] = after[req.id]] /\ after[req.id] \in Record
        BY <1>1, <1>2, <2>2, <3>1 DEF Dataset
      <3>3. told' \in Dataset /\ \A id \in Ids : told'[id] = IF id = req.id THEN after[id] ELSE told[id]
        BY <1>3, <3>2 DEF Dataset
      <3>4. QED
        BY <1>1, <1>2, <1>3, <2>2, <3>1, <3>3
    <2>3. QED
      BY <2>1, <2>2
  <1>6. QED
    BY <1>1, <1>2, <1>3, <1>4, <1>5

LEMMA EmptyType == Empty \in Dataset
  BY DEF Empty, Dataset, Record

-----------------------------------------------------------------------------
(* Types *)

\* Every step keeps the types.
LEMMA TypeStep == TypeOK /\ [Next]_vars => TypeOK'
  <1> SUFFICES ASSUME TypeOK, [Next]_vars PROVE TypeOK'
    OBVIOUS
  <1>0. /\ adapter \in Adapters /\ store \in Dataset \cup {Absent} /\ stored \in Dataset
        /\ loads \subseteq LoadRecord /\ IsFiniteSet(loads)
        /\ saves \subseteq SaveRecord /\ IsFiniteSet(saves)
        /\ came \in Nat /\ crashes \in Nat /\ responses \in Nat
    BY DEF TypeOK, LoadRecord, SaveRecord
  <1>1. CASE AnswerAtOnce
    <2>1. PICK req \in Request : /\ Execute(req, IF store # Absent THEN store ELSE stored, loads)
                                 /\ came' = came + 1 /\ UNCHANGED <<adapter, loads, crashes>>
      BY <1>1 DEF AnswerAtOnce, Come
    <2>2. (IF store # Absent THEN store ELSE stored) \in Dataset
      BY <1>0
    <2>3. /\ store' \in Dataset /\ stored' \in Dataset /\ saves' \subseteq SaveRecord /\ IsFiniteSet(saves')
          /\ told' \in Dataset /\ exposed' \subseteq Ids /\ responses' \in Nat /\ writes' \in Nat
          /\ Serial => saves' = saves
      BY <2>1, <2>2, ExecuteFacts
    <2>4. QED
      BY <1>0, <2>1, <2>3 DEF TypeOK, SaveRecord, Serial
  <1>2. CASE StartLoad
    <2>1. PICK req \in Request :
              /\ loads' = loads \cup {[n |-> FreshNumber(loads), req |-> req, payload |-> Absent]}
              /\ ~Serial /\ came' = came + 1
      BY <1>2 DEF StartLoad, Waits, Come
    <2> DEFINE l == [n |-> FreshNumber(loads), req |-> req, payload |-> Absent]
    <2>2. l \in LoadRecord
      BY <1>0, FreshType DEF LoadRecord
    <2> HIDE DEF l
    <2>3. loads' \subseteq LoadRecord /\ IsFiniteSet(loads')
      BY <1>0, <2>1, <2>2, FS_AddElement DEF l
    <2>4. QED
      BY <1>0, <1>2, <2>1, <2>3 DEF StartLoad, TypeOK, LoadRecord, Serial
  <1>3. CASE ReadPayload
    <2>1. PICK l \in loads : loads' = (loads \ {l}) \cup {[l EXCEPT !.payload = stored]}
      BY <1>3 DEF ReadPayload
    <2> DEFINE m == [l EXCEPT !.payload = stored]
    <2>2. m \in LoadRecord /\ IsFiniteSet(loads \ {l})
      BY <1>0, FS_RemoveElement DEF LoadRecord
    <2> HIDE DEF m
    <2>3. loads' \subseteq LoadRecord /\ IsFiniteSet(loads') /\ loads # {}
      BY <1>0, <2>1, <2>2, FS_AddElement DEF m
    <2>4. QED
      BY <1>0, <1>3, <2>3 DEF ReadPayload, TypeOK, LoadRecord, Serial
  <1>4. CASE AnswerLoaded
    <2>1. PICK l \in loads : /\ l.payload # Absent /\ loads' = loads \ {l} /\ Execute(l.req, l.payload, loads')
                             /\ UNCHANGED <<adapter, came, crashes>>
      BY <1>4 DEF AnswerLoaded
    <2>2. l.req \in Request /\ l.payload \in Dataset /\ ~Serial
      BY <1>0, <2>1 DEF LoadRecord, TypeOK
    <2>3. /\ store' \in Dataset /\ stored' \in Dataset /\ saves' \subseteq SaveRecord /\ IsFiniteSet(saves')
          /\ told' \in Dataset /\ exposed' \subseteq Ids /\ responses' \in Nat /\ writes' \in Nat
      BY <2>1, <2>2, ExecuteFacts
    <2>4. loads' \subseteq LoadRecord /\ IsFiniteSet(loads')
      BY <1>0, <2>1, FS_RemoveElement
    <2>5. QED
      BY <1>0, <2>1, <2>2, <2>3, <2>4 DEF TypeOK, SaveRecord, LoadRecord, Serial
  <1>5. CASE Finish
    <2>1. responses > 0 /\ responses' = responses - 1 /\ UNCHANGED <<adapter, store, loads, told, exposed, writes, came, crashes>>
      BY <1>5 DEF Finish
    <2>2. stored' \in Dataset /\ saves' \subseteq SaveRecord /\ IsFiniteSet(saves') /\ (Serial => saves' = saves)
      <3>1. CASE store = Absent \/ Serial
        BY <1>0, <1>5, <3>1 DEF Finish, SaveTenantStore
      <3>2. CASE store # Absent /\ ~Serial
        <4> DEFINE s == [n |-> FreshNumber(saves), data |-> store]
        <4>1. saves' = saves \cup {s} /\ stored' = stored
          BY <1>5, <3>2 DEF Finish, SaveTenantStore
        <4>2. s \in SaveRecord
          BY <1>0, <3>2, FreshType DEF SaveRecord
        <4> HIDE DEF s
        <4>3. QED
          BY <1>0, <3>2, <4>1, <4>2, FS_AddElement
      <3>3. QED
        BY <3>1, <3>2
    <2>3. QED
      BY <1>0, <2>1, <2>2 DEF TypeOK, SaveRecord, Serial
  <1>6. CASE Save
    <2>1. PICK s \in saves : stored' = s.data /\ saves' = saves \ {s}
      BY <1>6 DEF Save
    <2>2. stored' \in Dataset /\ saves' \subseteq SaveRecord /\ IsFiniteSet(saves')
      BY <1>0, <2>1, FS_RemoveElement DEF SaveRecord
    <2>3. QED
      BY <1>0, <1>6, <2>1, <2>2 DEF Save, TypeOK, SaveRecord, Serial
  <1>7. CASE Restart
    BY <1>0, <1>7, FS_EmptySet DEF Restart, TypeOK, Serial
  <1>8. CASE UNCHANGED vars
    BY <1>8 DEF vars, TypeOK, Serial
  <1>9. QED
    BY <1>1, <1>2, <1>3, <1>4, <1>5, <1>6, <1>7, <1>8 DEF Next

\* Every variable keeps its type; with SQLite no query is ever under way
\* (getTenantStore, saveTenantStore).
THEOREM FallbackTypeOK == Spec => []TypeOK
  <1>1. Init => TypeOK
    BY EmptyType, FS_EmptySet DEF Init, TypeOK
  <1>2. QED
    BY <1>1, TypeStep, PTL DEF Spec

-----------------------------------------------------------------------------
(* Answers.  With SQLite what is stored is the store in memory.  With SQL  *)
(* Server nothing happens until a first load has arrived; while a request  *)
(* still waits, a record answered by nobody is absent wherever the store   *)
(* may come from: memory, database, saves under way and payloads.          *)

Current == IF store # Absent THEN store ELSE stored

SavedInv == Serial => (store # Absent => stored = store) /\ \A id \in Ids \ exposed : Current[id] = told[id]

Untouched(id) ==
    /\ told[id] = Absent /\ stored[id] = Absent /\ (store # Absent => store[id] = Absent)
    /\ \A s \in saves : s.data[id] = Absent
    /\ \A l \in loads : l.payload # Absent => l.payload[id] = Absent

LoadInv ==
    ~Serial /\ crashes = 0 =>
        /\ store = Absent => \A id \in Ids : Untouched(id)
        /\ store # Absent => \A id \in Ids \ exposed : store[id] = told[id]
        /\ loads # {} => \A id \in Ids \ exposed : Untouched(id)

LEMMA SavedStep == TypeOK /\ TypeOK' /\ SavedInv /\ [Next]_vars => SavedInv'
  <1> SUFFICES ASSUME TypeOK, TypeOK', SavedInv, [Next]_vars, Serial' PROVE SavedInv'
    BY DEF SavedInv
  <1>0. Serial /\ loads = {} /\ saves = {} /\ stored \in Dataset /\ store \in Dataset \cup {Absent}
    <2>1. adapter' = adapter
      BY DEF Next, vars, AnswerAtOnce, StartLoad, ReadPayload, AnswerLoaded, Finish, Save, Restart
    <2>2. QED
      BY <2>1 DEF Serial, TypeOK
  <1>1. CASE AnswerAtOnce
    <2>1. PICK req \in Request : Execute(req, Current, loads)
      BY <1>1 DEF AnswerAtOnce, Current
    <2>2. Current \in Dataset
      BY <1>0 DEF Current
    <2>3. /\ store' # Absent /\ (stored' = store' \/ (stored' = stored /\ store' = Current))
          /\ \A id \in Ids \ exposed' :
               \/ store'[id] = told'[id]
               \/ id \notin exposed /\ store'[id] = Current[id] /\ told'[id] = told[id]
      BY <1>0, <2>1, <2>2, ExecuteFacts
    <2>4. stored' = store'
      BY <1>0, <2>3 DEF SavedInv, Current
    <2>5. Current' = store'
      BY <2>3 DEF Current
    <2>6. QED
      BY <1>0, <2>3, <2>4, <2>5 DEF SavedInv
  <1>2. CASE StartLoad \/ ReadPayload \/ AnswerLoaded \/ Save
    BY <1>0, <1>2 DEF StartLoad, Waits, ReadPayload, AnswerLoaded, Save
  <1>3. CASE Finish
    BY <1>0, <1>3 DEF Finish, SaveTenantStore, SavedInv, Current
  <1>4. CASE Restart
    BY <1>0, <1>4 DEF Restart, SavedInv, Current
  <1>5. CASE UNCHANGED vars
    BY <1>0, <1>5 DEF vars, SavedInv, Current
  <1>6. QED
    BY <1>1, <1>2, <1>3, <1>4, <1>5 DEF Next

\* A request that has its data keeps LoadInv.
LEMMA ExecuteLoads ==
  ASSUME TypeOK, LoadInv, ~Serial, crashes = 0, NEW req \in Request, NEW data \in Dataset, Execute(req, data, loads'),
         UNCHANGED <<adapter, crashes>>, loads' \subseteq loads,
         \A id \in Ids \ exposed : data[id] = told[id],
         loads # {} => \A id \in Ids \ exposed : data[id] = Absent
  PROVE  LoadInv'
  <1>1. /\ store' \in Dataset /\ store' # Absent /\ stored' = stored /\ \A s \in saves' : s \in saves \/ s.data = store'
        /\ \A id \in Ids \ exposed' :
              \/ store'[id] = told'[id] /\ loads' = {}
              \/ id \notin exposed /\ store'[id] = data[id] /\ told'[id] = told[id]
    BY ExecuteFacts
  <1>2. \A id \in Ids \ exposed' : store'[id] = told'[id]
    BY <1>1
  <1>3. ASSUME loads' # {}, NEW id \in Ids \ exposed' PROVE Untouched(id)'
    <2>1. loads # {} /\ id \notin exposed /\ store'[id] = data[id] /\ told'[id] = told[id]
      BY <1>1, <1>3
    <2>2. Untouched(id) /\ data[id] = Absent
      BY <2>1 DEF LoadInv
    <2>3. QED
      BY <1>1, <2>1, <2>2 DEF Untouched
  <1>4. QED
    BY <1>1, <1>2, <1>3 DEF LoadInv

LEMMA LoadStep == TypeOK /\ TypeOK' /\ LoadInv /\ [Next]_vars => LoadInv'
  <1> SUFFICES ASSUME TypeOK, TypeOK', LoadInv, [Next]_vars, ~Serial', crashes' = 0 PROVE LoadInv'
    BY DEF LoadInv
  <1>0. /\ ~Serial /\ crashes = 0 /\ ~Restart /\ stored \in Dataset /\ store \in Dataset \cup {Absent}
        /\ loads \subseteq LoadRecord /\ UNCHANGED <<adapter, crashes>>
    <2>1. adapter' = adapter
      BY DEF Next, vars, AnswerAtOnce, StartLoad, ReadPayload, AnswerLoaded, Finish, Save, Restart
    <2>2. ~Restart
      BY DEF Restart, TypeOK
    <2>3. crashes' = crashes
      BY <2>2 DEF Next, vars, AnswerAtOnce, StartLoad, ReadPayload, AnswerLoaded, Finish, Save
    <2>4. QED
      BY <2>1, <2>2, <2>3 DEF Serial, TypeOK, LoadRecord
  <1>1. CASE AnswerAtOnce
    <2>1. PICK req \in Request : Execute(req, store, loads') /\ store # Absent /\ loads' = loads
      BY <1>0, <1>1 DEF AnswerAtOnce, Waits
    <2>2. /\ \A id \in Ids \ exposed : store[id] = told[id]
          /\ loads # {} => \A id \in Ids \ exposed : store[id] = Absent
      BY <1>0, <2>1 DEF LoadInv, Untouched
    <2>3. store \in Dataset
      BY <1>0, <2>1
    <2>4. QED
      BY <1>0, <2>1, <2>2, <2>3, ExecuteLoads
  <1>2. CASE StartLoad
    <2>1. /\ store = Absent /\ UNCHANGED <<store, stored, saves, told, exposed>>
          /\ \A l \in loads' : l \in loads \/ l.payload = Absent
      BY <1>2 DEF StartLoad, Waits
    <2>2. QED
      BY <1>0, <2>1 DEF LoadInv, Untouched
  <1>3. CASE ReadPayload
    <2>1. /\ UNCHANGED <<store, stored, saves, told, exposed>> /\ loads # {}
          /\ \A l \in loads' : l \in loads \/ l.payload = stored
      BY <1>0, <1>3 DEF ReadPayload, LoadRecord
    <2>2. QED
      BY <1>0, <2>1 DEF LoadInv, Untouched
  <1>4. CASE AnswerLoaded
    <2>1. PICK l \in loads : l.payload # Absent /\ loads' = loads \ {l} /\ Execute(l.req, l.payload, loads')
      BY <1>4 DEF AnswerLoaded
    <2>2. l.req \in Request /\ l.payload \in Dataset
      BY <1>0, <2>1 DEF LoadRecord
    <2>3. \A id \in Ids \ exposed : l.payload[id] = Absent /\ told[id] = Absent
      BY <1>0, <2>1 DEF LoadInv, Untouched
    <2>4. QED
      BY <1>0, <2>1, <2>2, <2>3, ExecuteLoads
  <1>5. CASE Finish
    <2>1. /\ UNCHANGED <<store, stored, loads, told, exposed>>
          /\ \A s \in saves' : s \in saves \/ (store # Absent /\ s.data = store)
      BY <1>0, <1>5 DEF Finish, SaveTenantStore
    <2>2. QED
      BY <1>0, <2>1 DEF LoadInv, Untouched
  <1>6. CASE Save
    <2>1. PICK s \in saves : stored' = s.data /\ saves' = saves \ {s}
      BY <1>6 DEF Save
    <2>2. UNCHANGED <<store, loads, told, exposed>>
      BY <1>6 DEF Save
    <2>3. QED
      BY <1>0, <2>1, <2>2 DEF LoadInv, Untouched
  <1>7. CASE UNCHANGED vars
    BY <1>0, <1>7 DEF vars, LoadInv, Untouched
  <1>8. QED
    BY <1>0, <1>1, <1>2, <1>3, <1>4, <1>5, <1>6, <1>7 DEF Next

LEMMA AnswersInit == Init => SavedInv /\ LoadInv
  BY DEF Init, SavedInv, LoadInv, Current, Untouched, Empty

\* The store in memory has every record as the last response about it showed
\* it, but for those answered while a request waited for its load; with SQLite
\* after any restarts (getTenantStore, executeContractRequest).
THEOREM FallbackAnswersHeld == Spec => []AnswersHeld
  <1>1. SavedInv /\ LoadInv => AnswersHeld
    BY DEF SavedInv, LoadInv, AnswersHeld, Current
  <1>2. QED
    BY <1>1, AnswersInit, FallbackTypeOK, SavedStep, LoadStep, PTL DEF Spec

-----------------------------------------------------------------------------
(* The records written through *)

LEMMA ThroughStep ==
  TypeOK /\ TypeOK' /\ SavedInv /\ [Next]_vars => [Through!Write]_<<Records, IF Serial THEN writes ELSE 0>>
  <1> SUFFICES ASSUME TypeOK, TypeOK', SavedInv, [Next]_vars
               PROVE  [Through!Write]_<<Records, IF Serial THEN writes ELSE 0>>
    OBVIOUS
  <1>0. (Serial' <=> Serial) /\ stored \in Dataset /\ store \in Dataset \cup {Absent} /\ writes \in Nat
    <2>1. adapter' = adapter
      BY DEF Next, vars, AnswerAtOnce, StartLoad, ReadPayload, AnswerLoaded, Finish, Save, Restart
    <2>2. QED
      BY <2>1 DEF Serial, TypeOK
  <1>1. CASE ~Serial
    BY <1>0, <1>1 DEF Records
  <1>2. CASE Serial /\ AnswerAtOnce
    <2>1. PICK req \in Request : Execute(req, Current, loads)
      BY <1>2 DEF AnswerAtOnce, Current
    <2>2. Current \in Dataset /\ Records = Current
      BY <1>0, <1>2 DEF Current, Records
    <2>3. After(req, Current) \in Dataset /\ store' = After(req, Current) /\ Records' = store'
      BY <1>0, <1>2, <2>1, <2>2, AfterType, FallbackAssumption DEF Execute, Records
    <2>4. CASE ~Changes(req, Current)
      BY <1>0, <1>2, <2>1, <2>2, <2>3, <2>4, AfterType DEF Execute
    <2>5. CASE Changes(req, Current)
      <3>1. req.id \in Ids /\ writes' = writes + 1
        BY <2>1, <2>5, RequestType DEF Execute, Changes
      <3>2. Records' = [Records EXCEPT ![req.id] = writes + 1] \/ Records' = [Records EXCEPT ![req.id] = Absent]
        BY <2>2, <2>3, <2>5 DEF After
      <3>3. QED
        BY <1>0, <1>2, <3>1, <3>2 DEF Through!Write
    <2>6. QED
      BY <2>4, <2>5
  <1>3. CASE Serial /\ (StartLoad \/ ReadPayload \/ AnswerLoaded \/ Save)
    BY <1>3 DEF StartLoad, Waits, ReadPayload, AnswerLoaded, Save, TypeOK
  <1>4. CASE Serial /\ (Finish \/ Restart \/ UNCHANGED vars)
    <2>1. Records' = Records /\ writes' = writes
      BY <1>0, <1>4 DEF Finish, Restart, vars, SaveTenantStore, Records, SavedInv
    <2>2. QED
      BY <1>0, <2>1
  <1>5. QED
    BY <1>1, <1>2, <1>3, <1>4 DEF Next

\* With SQLite the store is records that requests alone change, one at a time:
\* no crash and no restart shows (saveTenantStore before the response).
THEOREM FallbackIsWriteThrough == Spec => IsWriteThrough
  <1>1. Init => Through!Init
    BY DEF Init, Through!Init, Records, Empty
  <1>2. QED
    BY <1>1, AnswersInit, FallbackTypeOK, SavedStep, ThroughStep, PTL DEF Spec, IsWriteThrough, Through!Spec
=============================================================================
