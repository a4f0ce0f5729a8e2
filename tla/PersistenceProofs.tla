-------------------------- MODULE PersistenceProofs --------------------------
(***************************************************************************)
(* Theorems about Persistence, for any tenants, accounts, loan payments    *)
(* and number of requests, flushes and restarts.                           *)
(***************************************************************************)
EXTENDS Persistence, FiniteFacts

-----------------------------------------------------------------------------
(* Datasets and rows *)

LEMMA CloneType == \A n \in Nat : CloneDataset(n) \in Dataset
  BY DEF CloneDataset, Dataset

LEMMA RowsType == \A ds \in Dataset : Rows(ds) \in Row /\ Rows(ds).stamp = ds.stamp /\ Rows(ds).peopled = ds.peopled
  BY DEF Rows, Dataset, Row

LEMMA LoadType == \A r \in Row : Load(r) \in Dataset
  BY DEF Load, Dataset, Row

\* A dataset that was stored and read back has the same rows (Map!Restart).
LEMMA RowsOfLoad == \A r \in Row : Rows(Load(r)) = r
  <1> SUFFICES ASSUME NEW r \in Row PROVE Rows(Load(r)) = r
    OBVIOUS
  <1> DEFINE In(x) == x[2] \in Load(r).payments[x[1]]
             pairs == Accounts \X PaymentIds
  <1>1. r.payments \subseteq pairs
    BY DEF Row
  <1>2. \A x \in pairs : x = <<x[1], x[2]>> /\ x[1] \in Accounts /\ x[2] \in PaymentIds
    OBVIOUS
  <1>3. \A a \in Accounts : Load(r).payments[a] = {p \in PaymentIds : <<a, p>> \in r.payments}
    BY DEF Load
  <1>4. ASSUME NEW x \in pairs PROVE In(x) <=> x \in r.payments
    <2>1. x = <<x[1], x[2]>> /\ x[1] \in Accounts /\ x[2] \in PaymentIds
      BY <1>2
    <2>2. Load(r).payments[x[1]] = {p \in PaymentIds : <<x[1], p>> \in r.payments}
      BY <1>3, <2>1
    <2>3. In(x) <=> <<x[1], x[2]>> \in r.payments
      BY <2>1, <2>2
    <2>4. QED
      BY <2>1, <2>3, Zenon
  <1>5. Rows(Load(r)) = [stamp |-> r.stamp, peopled |-> r.peopled, unbound |-> r.unbound, payments |-> {x \in pairs : In(x)}]
    BY DEF Rows, Load
  <1> HIDE DEF In, pairs
  <1>6. {x \in pairs : In(x)} = r.payments
    BY <1>1, <1>4
  <1>7. r = [stamp |-> r.stamp, peopled |-> r.peopled, unbound |-> r.unbound, payments |-> r.payments]
    BY DEF Row
  <1>8. QED
    BY <1>5, <1>6, <1>7

LEMMA LoanPaymentsType ==
  ASSUME NEW ds \in Dataset, NEW a \in Accounts
  PROVE  /\ LoanPayments(ds, a) \in SUBSET PaymentIds
         /\ \A ids \in SUBSET PaymentIds : SetLoanPayments(ds, a, ids) \in Dataset
  BY DEF LoanPayments, SetLoanPayments, PaymentIds, Dataset

LEMMA EnsuredType == ASSUME TypeOK, NEW t \in Tenants PROVE Ensured(t) \in Dataset
  BY CloneType DEF TypeOK, Ensured

\* The ids that a query returns are those of the set, one after the other.
LEMMA OrdersType ==
  ASSUME NEW ts \in SUBSET Tenants, NEW s \in Orders(ts)
  PROVE  s \in Seq(Tenants) /\ \A i \in 1..Len(s) : s[i] \in ts
  <1>1. Cardinality(ts) \in Nat
    BY PersistenceAssumption, FS_Subset, FS_CardinalityType
  <1>2. s \in [1..Cardinality(ts) -> ts]
    BY DEF Orders
  <1>3. s \in Seq(ts) /\ Len(s) = Cardinality(ts)
    BY <1>1, <1>2
  <1>4. QED
    BY <1>2, <1>3

LEMMA FreshType == ASSUME IsFiniteSet(flushes) PROVE FreshNumber \in Nat /\ \A f \in flushes : f.n # FreshNumber
  BY FreshNumberExists, FS_CardinalityType DEF FreshNumber

-----------------------------------------------------------------------------
(* Types.  A key of the Map has a dataset, so that a flush turns a dataset *)
(* into rows.                                                              *)

KeysHeld == \A i \in 1..Len(order) : datasets[order[i]] # Absent

TypeInv == TypeOK /\ KeysHeld

\* What a route does to a dataset and the Map.
LEMMA AnswerType ==
  ASSUME TypeInv, NEW t \in Tenants, NEW ds \in Dataset, Answer(t, ds),
         idle' \in Nat /\ wipes' \in Nat /\ crashes' \in Nat
  PROVE  TypeInv'
  <1> DEFINE new == [ds EXCEPT !.stamp = stamp + 1]
  <1>1. new \in Dataset /\ new # Absent
    <2>1. stamp + 1 \in Nat
      BY DEF TypeInv, TypeOK
    <2>2. new \in Dataset
      BY <2>1 DEF Dataset
    <2>3. QED
      BY <2>2, PersistenceAssumption
  <1>2. /\ datasets' = [datasets EXCEPT ![t] = new] /\ order' = Keys(t) /\ stamp' = stamp + 1
        /\ responses' = responses + 1 /\ UNCHANGED <<adapter, db, flushes>>
    BY DEF Answer
  <1> HIDE DEF new
  <1>3. TypeOK'
    <2>1. order' \in Seq(Tenants)
      BY <1>2 DEF Keys, TypeInv, TypeOK
    <2>2. datasets' \in [Tenants -> Dataset \cup {Absent}]
      BY <1>1, <1>2 DEF TypeInv, TypeOK
    <2>3. QED
      BY <1>2, <2>1, <2>2 DEF TypeInv, TypeOK
  <1>4. KeysHeld'
    <2> SUFFICES ASSUME NEW i \in 1..Len(order') PROVE datasets'[order'[i]] # Absent
      BY DEF KeysHeld
    <2>1. order \in Seq(Tenants)
      BY DEF TypeInv, TypeOK
    <2>2. CASE order' = order
      BY <1>1, <1>2, <2>1, <2>2 DEF TypeInv, TypeOK, KeysHeld
    <2>3. CASE order' = Append(order, t)
      <3>1. (i \in 1..Len(order) /\ order'[i] = order[i]) \/ order'[i] = t
        BY <2>1, <2>3
      <3>2. QED
        BY <1>1, <1>2, <2>1, <3>1 DEF TypeInv, TypeOK, KeysHeld
    <2>4. QED
      BY <1>2, <2>2, <2>3 DEF Keys
  <1>5. QED
    BY <1>3, <1>4 DEF TypeInv

\* The steps of requests: each leaves one tenant with some dataset.
Asked ==
    /\ \E t \in Tenants, ds \in Dataset : Answer(t, ds) /\ (wipes' = wipes /\ Ensured(t).peopled => ds.peopled)
    /\ crashes' = crashes

LEMMA AskedSteps ==
  ASSUME TypeInv
  PROVE  /\ Change => Asked /\ UNCHANGED bounds
         /\ CreateTenantCustomer => Asked /\ UNCHANGED bounds
         /\ ResetTenantDataset => Asked /\ wipes < MaxWipes[adapter] /\ wipes' = wipes + 1 /\ idle' = idle
         /\ SeedTenantDataset => Asked /\ UNCHANGED bounds
         /\ UpsertTenantLoanPayment => Asked /\ UNCHANGED bounds
         /\ DeleteTenantLoanPayment => Asked /\ UNCHANGED bounds
  <1> USE DEF TypeInv
  <1>1. ASSUME Change PROVE Asked /\ UNCHANGED bounds
    <2>1. PICK t \in Tenants, u \in BOOLEAN : Answer(t, [Ensured(t) EXCEPT !.unbound = u]) /\ UNCHANGED bounds
      BY <1>1 DEF Change
    <2>2. [Ensured(t) EXCEPT !.unbound = u] \in Dataset
          /\ [Ensured(t) EXCEPT !.unbound = u].peopled = Ensured(t).peopled
      BY EnsuredType DEF Dataset
    <2>3. QED
      BY <2>1, <2>2 DEF Asked, bounds
  <1>2. ASSUME NEW t \in Tenants, NEW p \in BOOLEAN, NEW u \in BOOLEAN
        PROVE  /\ [Ensured(t) EXCEPT !.peopled = p, !.unbound = u] \in Dataset
               /\ [Ensured(t) EXCEPT !.peopled = p, !.unbound = u].peopled = p
    BY EnsuredType DEF Dataset
  <1>3. ASSUME CreateTenantCustomer PROVE Asked /\ UNCHANGED bounds
    <2>1. PICK t \in Tenants, u \in BOOLEAN :
              /\ Answer(t, [Ensured(t) EXCEPT !.peopled = TRUE, !.unbound = @ \/ u])
              /\ UNCHANGED bounds
      BY <1>3 DEF CreateTenantCustomer
    <2>2. (Ensured(t).unbound \/ u) \in BOOLEAN
      OBVIOUS
    <2>3. /\ [Ensured(t) EXCEPT !.peopled = TRUE, !.unbound = @ \/ u] \in Dataset
          /\ [Ensured(t) EXCEPT !.peopled = TRUE, !.unbound = @ \/ u].peopled = TRUE
      BY <1>2, <2>2, EnsuredType DEF Dataset
    <2>4. QED
      BY <2>1, <2>3 DEF Asked, bounds
  <1>4. ResetTenantDataset => Asked /\ wipes < MaxWipes[adapter] /\ wipes' = wipes + 1 /\ idle' = idle
    <2> SUFFICES ASSUME NEW t \in Tenants, wipes < MaxWipes[adapter], wipes' = wipes + 1, UNCHANGED <<idle, crashes>>,
                        Answer(t, [Ensured(t) EXCEPT !.peopled = FALSE, !.unbound = FALSE])
                 PROVE  Asked
      BY DEF ResetTenantDataset
    <2>1. wipes' # wipes
      BY DEF TypeOK
    <2>2. QED
      BY <1>2, <2>1 DEF Asked
  <1>5. SeedTenantDataset => Asked /\ UNCHANGED bounds
    BY CloneType DEF SeedTenantDataset, Asked, bounds, TypeOK, CloneDataset
  <1>6. ASSUME UpsertTenantLoanPayment PROVE Asked /\ UNCHANGED bounds
    <2>1. PICK t \in Tenants, a \in Accounts, p \in ClientIds :
              /\ Answer(t, SetLoanPayments(Ensured(t), a, LoanPayments(Ensured(t), a) \cup {p}))
              /\ UNCHANGED bounds
      BY <1>6 DEF UpsertTenantLoanPayment
    <2>2. Ensured(t) \in Dataset
      BY EnsuredType
    <2>3. LoanPayments(Ensured(t), a) \cup {p} \in SUBSET PaymentIds
      BY <2>2, LoanPaymentsType DEF PaymentIds
    <2>4. SetLoanPayments(Ensured(t), a, LoanPayments(Ensured(t), a) \cup {p}) \in Dataset
      BY <2>2, <2>3, LoanPaymentsType
    <2>5. SetLoanPayments(Ensured(t), a, LoanPayments(Ensured(t), a) \cup {p}).peopled = Ensured(t).peopled
      BY <2>2 DEF SetLoanPayments, Dataset
    <2>6. QED
      BY <2>1, <2>4, <2>5 DEF Asked, bounds
  <1>7. ASSUME DeleteTenantLoanPayment PROVE Asked /\ UNCHANGED bounds
    <2>1. PICK t \in Tenants, a \in Accounts, p \in PaymentIds :
              /\ Answer(t, SetLoanPayments(Ensured(t), a, LoanPayments(Ensured(t), a) \ {p}))
              /\ UNCHANGED bounds
      BY <1>7 DEF DeleteTenantLoanPayment
    <2>2. Ensured(t) \in Dataset
      BY EnsuredType
    <2>3. LoanPayments(Ensured(t), a) \ {p} \in SUBSET PaymentIds
      BY <2>2, LoanPaymentsType
    <2>4. SetLoanPayments(Ensured(t), a, LoanPayments(Ensured(t), a) \ {p}) \in Dataset
      BY <2>2, <2>3, LoanPaymentsType
    <2>5. SetLoanPayments(Ensured(t), a, LoanPayments(Ensured(t), a) \ {p}).peopled = Ensured(t).peopled
      BY <2>2 DEF SetLoanPayments, Dataset
    <2>6. QED
      BY <2>1, <2>4, <2>5 DEF Asked, bounds
  <1>8. QED
    BY <1>1, <1>3, <1>4, <1>5, <1>6, <1>7

\* The steps of flushes: one entry of flushes goes or is replaced.
FlushRecord == [n : Nat, at : Nat \ {0}, rows : Row \cup {Absent}]

LEMMA TakenType ==
  ASSUME TypeInv, NEW i \in 1..Len(order)
  PROVE  order[i] \in Tenants /\ datasets[order[i]] \in Dataset /\ Rows(datasets[order[i]]) \in Row
  BY RowsType DEF TypeInv, TypeOK, KeysHeld

LEMMA FlushType ==
  ASSUME TypeInv, NEW new, new \subseteq FlushRecord, IsFiniteSet(new),
         UNCHANGED <<adapter, datasets, order, stamp, idle, wipes, crashes>>,
         db' \in [Tenants -> Row \cup {Absent}], responses' \in Nat, flushes' = new
  PROVE  TypeInv'
  BY DEF TypeInv, TypeOK, KeysHeld, FlushRecord

\* Every step keeps the types.
LEMMA TypeStep == TypeInv /\ [Next]_vars => TypeInv'
  <1> SUFFICES ASSUME TypeInv, [Next]_vars PROVE TypeInv'
    OBVIOUS
  <1>0. /\ responses \in Nat /\ idle \in Nat /\ wipes \in Nat /\ crashes \in Nat /\ order \in Seq(Tenants)
        /\ flushes \subseteq FlushRecord /\ IsFiniteSet(flushes) /\ db \in [Tenants -> Row \cup {Absent}]
    BY DEF TypeInv, TypeOK, FlushRecord
  <1>1. ASSUME Asked, idle' \in Nat /\ wipes' \in Nat PROVE TypeInv'
    BY <1>0, <1>1, AnswerType DEF Asked
  <1>2. ASSUME Asked, UNCHANGED bounds PROVE TypeInv'
    BY <1>0, <1>1, <1>2 DEF bounds
  <1>3. CASE ResetTenantDataset
    BY <1>0, <1>1, <1>3, AskedSteps
  <1>4. CASE Change \/ CreateTenantCustomer \/ SeedTenantDataset \/ UpsertTenantLoanPayment \/ DeleteTenantLoanPayment
    BY <1>2, <1>4, AskedSteps
  <1>5. CASE OtherRequest
    BY <1>5 DEF OtherRequest, TypeInv, TypeOK, KeysHeld
  <1>6. CASE Finish
    <2>1. CASE order = <<>>
      BY <1>6, <2>1 DEF Finish, TypeInv, TypeOK, KeysHeld
    <2>2. CASE order # <<>>
      <3> DEFINE f == Flush(FreshNumber, 1, Rows(datasets[order[1]]))
      <3>1. Rows(datasets[order[1]]) \in Row
        BY <1>0, <2>2, TakenType
      <3>2. f \in FlushRecord
        BY <1>0, <3>1, FreshType DEF Flush, FlushRecord
      <3>3. flushes' = flushes \cup {f} /\ responses > 0 /\ responses' = responses - 1
        BY <1>6, <2>2 DEF Finish
      <3> HIDE DEF f
      <3>4. flushes' \subseteq FlushRecord /\ IsFiniteSet(flushes') /\ responses' \in Nat
        BY <1>0, <3>2, <3>3, FS_AddElement
      <3>5. UNCHANGED <<adapter, datasets, order, db, stamp, idle, wipes, crashes>>
        BY <1>6 DEF Finish
      <3>6. QED
        BY <1>0, <3>4, <3>5, FlushType
    <2>3. QED
      BY <2>1, <2>2
  <1>7. CASE NextKey
    <2>1. PICK f \in flushes :
              flushes' = (flushes \ {f}) \cup
                  IF f.at > Len(order) THEN {} ELSE {[f EXCEPT !.rows = Rows(datasets[order[f.at]])]}
      BY <1>7 DEF NextKey
    <2>2. f \in FlushRecord /\ IsFiniteSet(flushes \ {f})
      BY <1>0, FS_RemoveElement
    <2>3. UNCHANGED <<adapter, datasets, order, db, responses, stamp, idle, wipes, crashes>>
      BY <1>7 DEF NextKey
    <2>4. CASE f.at > Len(order)
      BY <1>0, <2>1, <2>2, <2>3, <2>4, FlushType
    <2>5. CASE ~(f.at > Len(order))
      <3> DEFINE g == [f EXCEPT !.rows = Rows(datasets[order[f.at]])]
      <3>1. f.at \in 1..Len(order)
        BY <1>0, <2>2, <2>5 DEF FlushRecord
      <3>2. g \in FlushRecord
        BY <2>2, <3>1, TakenType DEF FlushRecord
      <3>3. flushes' = (flushes \ {f}) \cup {g}
        BY <2>1, <2>5
      <3> HIDE DEF g
      <3>4. flushes' \subseteq FlushRecord /\ IsFiniteSet(flushes')
        BY <1>0, <2>2, <3>2, <3>3, FS_AddElement
      <3>5. QED
        BY <1>0, <2>3, <3>4, FlushType
    <2>6. QED
      BY <2>4, <2>5
  <1>8. CASE Commit
    <2>1. PICK f \in flushes :
              /\ f.rows # Absent
              /\ db' = [db EXCEPT ![order[f.at]] = f.rows]
              /\ flushes' = (flushes \ {f}) \cup {Flush(f.n, f.at + 1, Absent)}
      BY <1>8 DEF Commit
    <2>2. f \in FlushRecord /\ IsFiniteSet(flushes \ {f})
      BY <1>0, FS_RemoveElement
    <2>3. UNCHANGED <<adapter, datasets, order, responses, stamp, idle, wipes, crashes>>
      BY <1>8 DEF Commit
    <2>4. Flush(f.n, f.at + 1, Absent) \in FlushRecord /\ f.rows \in Row
      BY <2>1, <2>2 DEF Flush, FlushRecord
    <2>5. flushes' \subseteq FlushRecord /\ IsFiniteSet(flushes')
      BY <1>0, <2>1, <2>2, <2>4, FS_AddElement
    <2>6. db' \in [Tenants -> Row \cup {Absent}]
      BY <1>0, <2>1, <2>4
    <2>7. QED
      BY <1>0, <2>3, <2>5, <2>6, FlushType
  <1>9. CASE Rollback
    <2>1. PICK f \in flushes : flushes' = flushes \ {f}
      BY <1>9 DEF Rollback
    <2>2. IsFiniteSet(flushes \ {f}) /\ flushes \ {f} \subseteq FlushRecord
      BY <1>0, FS_RemoveElement
    <2>3. QED
      BY <1>0, <1>9, <2>1, <2>2, FlushType DEF Rollback
  <1>10. CASE Restart
    <2>1. /\ datasets' = [t \in Tenants |-> IF t \in Stored THEN Load(db[t]) ELSE Absent]
          /\ order' \in Orders(Stored) /\ responses' = 0 /\ flushes' = {} /\ crashes' = crashes + 1
          /\ UNCHANGED <<adapter, db, stamp, idle, wipes>>
      BY <1>10 DEF Restart
    <2>2. \A t \in Stored : t \in Tenants /\ Load(db[t]) \in Dataset /\ Load(db[t]) # Absent
      BY <1>0, LoadType, PersistenceAssumption DEF Stored
    <2>3. order' \in Seq(Tenants) /\ \A i \in 1..Len(order') : order'[i] \in Stored
      BY <2>1, <2>2, OrdersType
    <2>4. datasets' \in [Tenants -> Dataset \cup {Absent}]
      BY <2>1, <2>2
    <2>5. KeysHeld'
      BY <2>1, <2>2, <2>3 DEF KeysHeld
    <2>6. IsFiniteSet(flushes')
      BY <2>1, FS_EmptySet
    <2>7. QED
      BY <2>1, <2>3, <2>4, <2>5, <2>6 DEF TypeInv, TypeOK
  <1>11. CASE UNCHANGED vars
    BY <1>11 DEF vars, TypeInv, TypeOK, KeysHeld
  <1>12. QED
    BY <1>3, <1>4, <1>5, <1>6, <1>7, <1>8, <1>9, <1>10, <1>11 DEF Next

LEMMA TypeInit == Init => TypeInv
  BY FS_EmptySet DEF Init, TypeInv, TypeOK, KeysHeld

LEMMA TypeAlways == Spec => []TypeInv
  BY TypeInit, TypeStep, PTL DEF Spec

\* Every variable keeps its type: a flush never comes upon a key without a
\* dataset (flushTenantStore).
THEOREM PersistenceTypeOK == Spec => []TypeOK
  <1>1. TypeInv => TypeOK
    BY DEF TypeInv
  <1>2. QED
    BY <1>1, TypeAlways, PTL
-----------------------------------------------------------------------------
(* SQLite.  There is one flush at a time and no request while it runs: the *)
(* rows it has taken are those of the dataset in memory, and the keys it   *)
(* has passed are stored as they are.                                      *)

Kept(j) == ~Refused(Held(order[j])) /\ db[order[j]] = Held(order[j])

FlushSound(f) ==
    /\ f.rows # Absent => f.at <= Len(order) /\ f.rows = Held(order[f.at])
    /\ \A j \in 1..Len(order) : j < f.at => Kept(j)

Dated(t) ==
    /\ db[t] # Absent => db[t].stamp <= stamp
    /\ datasets[t] # Absent => datasets[t].stamp <= stamp /\ (db[t] # Absent => db[t].stamp <= datasets[t].stamp)

SaveInv ==
    Serial => /\ \A f, g \in flushes : f = g
              /\ \A f \in flushes : FlushSound(f)
              /\ QuietSaved
              /\ \A t \in Tenants : Dated(t)

LEMMA AnswerSaves ==
  ASSUME TypeInv, SaveInv, Serial, NEW t \in Tenants, NEW ds \in Dataset, Answer(t, ds)
  PROVE  SaveInv'
  <1> DEFINE new == [ds EXCEPT !.stamp = stamp + 1]
  <1>1. flushes = {} /\ stamp \in Nat /\ responses \in Nat
    BY DEF Answer, Turn, Serial, TypeInv, TypeOK
  <1>2. new \in Dataset /\ new.stamp = stamp + 1
    BY <1>1 DEF Dataset
  <1>3. /\ datasets' = [datasets EXCEPT ![t] = new] /\ stamp' = stamp + 1
        /\ responses' = responses + 1 /\ UNCHANGED <<adapter, db, flushes>>
    BY DEF Answer
  <1> HIDE DEF new
  <1>4. QuietSaved'
    BY <1>1, <1>3 DEF QuietSaved, Quiet
  <1>5. ASSUME NEW u \in Tenants PROVE Dated(u)'
    <2>1. Dated(u) /\ db[u] \in Row \cup {Absent} /\ datasets[u] \in Dataset \cup {Absent}
      BY DEF SaveInv, TypeInv, TypeOK
    <2>2. (db[u] # Absent => db[u].stamp \in Nat) /\ (datasets[u] # Absent => datasets[u].stamp \in Nat)
      BY <2>1 DEF Row, Dataset
    <2>3. CASE u = t
      BY <1>1, <1>2, <1>3, <2>1, <2>2, <2>3 DEF Dated, TypeInv, TypeOK
    <2>4. CASE u # t
      BY <1>1, <1>3, <2>1, <2>2, <2>4 DEF Dated, TypeInv, TypeOK
    <2>5. QED
      BY <2>3, <2>4
  <1>6. QED
    BY <1>1, <1>3, <1>4, <1>5 DEF SaveInv

\* What a flush has taken, it stores; nothing older than what is there.
LEMMA CommitSaves ==
  ASSUME TypeInv, SaveInv, Serial, NEW f \in flushes, f.rows # Absent
  PROVE  /\ f.at \in 1..Len(order) /\ order[f.at] \in Tenants /\ datasets[order[f.at]] \in Dataset
         /\ f.rows = Held(order[f.at]) /\ f.rows \in Row /\ f.rows = Rows(datasets[order[f.at]])
         /\ f.rows.stamp = datasets[order[f.at]].stamp /\ f.rows.peopled = datasets[order[f.at]].peopled
  <1>1. f \in FlushRecord /\ order \in Seq(Tenants)
    BY DEF TypeInv, TypeOK, FlushRecord
  <1>2. f.at \in 1..Len(order) /\ f.rows = Held(order[f.at])
    BY <1>1 DEF SaveInv, FlushSound, FlushRecord
  <1>3. order[f.at] \in Tenants /\ datasets[order[f.at]] \in Dataset /\ f.rows \in Row
    BY <1>1, <1>2, TakenType DEF FlushRecord
  <1>4. f.rows = Rows(datasets[order[f.at]])
    BY <1>2, <1>3, PersistenceAssumption DEF Held
  <1>5. QED
    BY <1>2, <1>3, <1>4, RowsType

LEMMA SaveStep == TypeInv /\ TypeInv' /\ SaveInv /\ [Next]_vars => SaveInv'
  <1> SUFFICES ASSUME TypeInv, TypeInv', SaveInv, [Next]_vars, Serial' PROVE SaveInv'
    BY DEF SaveInv
  <1>0. Serial /\ order \in Seq(Tenants) /\ flushes \subseteq FlushRecord /\ stamp \in Nat /\ responses \in Nat
    <2>1. adapter' = adapter
      BY AskedSteps DEF Next, vars, Asked, Answer, OtherRequest, Finish, NextKey, Commit, Rollback, Restart
    <2>2. QED
      BY <2>1 DEF Serial, TypeInv, TypeOK, FlushRecord
  <1>1. CASE Asked
    BY <1>0, <1>1, AnswerSaves DEF Asked
  <1>2. CASE OtherRequest
    <2>1. responses' # 0 /\ UNCHANGED <<adapter, datasets, order, db, flushes, stamp>>
      BY <1>0, <1>2 DEF OtherRequest
    <2>2. QuietSaved'
      BY <2>1 DEF QuietSaved, Quiet
    <2>3. QED
      BY <1>0, <2>1, <2>2 DEF SaveInv, FlushSound, Dated, Kept, Held
  <1>3. ASSUME NEW new, flushes' = new, UNCHANGED <<adapter, datasets, order, db, stamp>>,
               \A f, g \in new : f = g, \A f \in new : FlushSound(f), new = {} =>
                   \A i \in 1..Len(order) : (\A j \in 1..i : ~Refused(Held(order[j]))) => db[order[i]] = Held(order[i])
        PROVE  SaveInv'
    <2>1. \A t : Held(t)' = Held(t)
      BY <1>3 DEF Held
    <2>2. QuietSaved'
      BY <1>0, <1>3, <2>1 DEF QuietSaved, Quiet, Refused
    <2>3. QED
      BY <1>0, <1>3, <2>2 DEF SaveInv, FlushSound, Dated, Kept, Held
  <1>4. CASE Finish
    <2>1. /\ flushes = {} /\ UNCHANGED <<adapter, datasets, order, db, stamp>>
          /\ flushes' = IF order = <<>> THEN {} ELSE {Flush(FreshNumber, 1, Rows(datasets[order[1]]))}
      BY <1>0, <1>4 DEF Finish, Turn
    <2>2. CASE order = <<>>
      BY <1>3, <2>1, <2>2
    <2>3. CASE order # <<>>
      <3> DEFINE f == Flush(FreshNumber, 1, Rows(datasets[order[1]]))
      <3>1. datasets[order[1]] # Absent
        BY <1>0, <2>3 DEF TypeInv, KeysHeld
      <3>2. f.at = 1 /\ f.rows = Held(order[1]) /\ 1 <= Len(order)
        BY <1>0, <2>3, <3>1 DEF Flush, Held
      <3> HIDE DEF f
      <3>3. FlushSound(f)
        BY <1>0, <3>2 DEF FlushSound
      <3>4. flushes' = {f}
        BY <2>1, <2>3 DEF f
      <3>5. QED
        BY <1>3, <2>1, <3>3, <3>4
    <2>4. QED
      BY <2>2, <2>3
  <1>5. ASSUME NEW f \in flushes, NextKey \/ Commit \/ Rollback
        PROVE  /\ flushes \ {f} = {} /\ FlushSound(f) /\ f.at \in Nat \ {0}
               /\ UNCHANGED <<adapter, datasets, order, stamp>>
    BY <1>0, <1>5 DEF SaveInv, FlushRecord, NextKey, Commit, Rollback
  <1>6. CASE NextKey
    <2>1. PICK f \in flushes :
              /\ f.rows = Absent
              /\ flushes' = (flushes \ {f}) \cup
                    IF f.at > Len(order) THEN {} ELSE {[f EXCEPT !.rows = Rows(datasets[order[f.at]])]}
      BY <1>6 DEF NextKey
    <2>2. FlushSound(f) /\ f.at \in Nat \ {0} /\ UNCHANGED <<adapter, datasets, order, db, stamp>>
      BY <1>5, <1>6 DEF NextKey
    <2>3. CASE f.at > Len(order)
      <3>1. flushes' = {}
        BY <1>5, <1>6, <2>1, <2>3
      <3>2. \A j \in 1..Len(order) : Kept(j)
        BY <1>0, <2>2, <2>3 DEF FlushSound
      <3>3. QED
        BY <1>3, <2>2, <3>1, <3>2 DEF Kept
    <2>4. CASE ~(f.at > Len(order))
      <3> DEFINE g == [f EXCEPT !.rows = Rows(datasets[order[f.at]])]
      <3>1. f.at \in 1..Len(order) /\ datasets[order[f.at]] # Absent
        BY <1>0, <2>2, <2>4 DEF TypeInv, KeysHeld
      <3>2. g.at = f.at /\ g.rows = Held(order[f.at])
        BY <1>0, <3>1 DEF Held, FlushRecord
      <3>3. flushes' = {g}
        BY <1>5, <1>6, <2>1, <2>4
      <3> HIDE DEF g
      <3>4. FlushSound(g)
        BY <1>0, <2>2, <3>1, <3>2 DEF FlushSound
      <3>5. QED
        BY <1>3, <2>2, <3>3, <3>4
    <2>5. QED
      BY <2>3, <2>4
  <1>7. CASE Commit
    <2>1. PICK f \in flushes :
              /\ f.rows # Absent /\ ~Refused(f.rows)
              /\ db' = [db EXCEPT ![order[f.at]] = f.rows]
              /\ flushes' = (flushes \ {f}) \cup {Flush(f.n, f.at + 1, Absent)}
      BY <1>7 DEF Commit
    <2> DEFINE g == Flush(f.n, f.at + 1, Absent)
    <2>2. flushes' = {g} /\ g.at = f.at + 1 /\ g.rows = Absent
      BY <1>5, <1>7, <2>1 DEF Flush
    <2>3. FlushSound(f) /\ f.at \in Nat \ {0} /\ UNCHANGED <<adapter, datasets, order, stamp>>
      BY <1>5, <1>7
    <2>4. /\ f.at \in 1..Len(order) /\ order[f.at] \in Tenants /\ datasets[order[f.at]] \in Dataset
          /\ f.rows = Held(order[f.at]) /\ f.rows \in Row /\ f.rows.stamp = datasets[order[f.at]].stamp
      BY <1>0, <2>1, CommitSaves
    <2> HIDE DEF g
    <2>5. \A t \in Tenants : db'[t] = IF t = order[f.at] THEN f.rows ELSE db[t]
      BY <2>1 DEF TypeInv, TypeOK
    <2>6. \A t : Held(t)' = Held(t)
      BY <2>3 DEF Held
    <2>7. ASSUME NEW j \in 1..Len(order), j < f.at + 1 PROVE Kept(j)'
      <3>1. order[j] \in Tenants
        BY <1>0
      <3>2. j = f.at \/ j < f.at
        BY <2>3, <2>7
      <3>3. ~Refused(Held(order[j])) /\ (db[order[j]] = Held(order[j]) \/ order[j] = order[f.at])
        BY <2>1, <2>3, <2>4, <3>2 DEF FlushSound, Kept
      <3>4. db'[order[j]] = Held(order[j])
        BY <2>4, <2>5, <3>1, <3>3
      <3>5. QED
        BY <2>3, <2>6, <3>3, <3>4 DEF Kept, Refused
    <2>8. FlushSound(g)'
      BY <2>2, <2>3, <2>7 DEF FlushSound
    <2>9. ASSUME NEW t \in Tenants PROVE Dated(t)'
      <3>1. Dated(t) /\ datasets[t] \in Dataset \cup {Absent}
        BY <1>0 DEF SaveInv, TypeInv, TypeOK
      <3>2. CASE t = order[f.at]
        <4>1. datasets[t] # Absent /\ datasets[t].stamp \in Nat
          BY <2>4, <3>2, PersistenceAssumption DEF Dataset
        <4>2. QED
          BY <2>3, <2>4, <2>5, <3>1, <3>2, <4>1 DEF Dated
      <3>3. CASE t # order[f.at]
        BY <2>3, <2>5, <3>1, <3>3 DEF Dated
      <3>4. QED
        BY <3>2, <3>3
    <2>10. QuietSaved' /\ \A x, y \in flushes' : x = y
      BY <2>2 DEF QuietSaved, Quiet
    <2>11. QED
      BY <2>2, <2>8, <2>9, <2>10 DEF SaveInv
  <1>8. CASE Rollback
    <2>1. PICK f \in flushes : f.rows # Absent /\ Refused(f.rows) /\ flushes' = flushes \ {f}
      BY <1>8 DEF Rollback
    <2>2. flushes' = {} /\ FlushSound(f) /\ f.at \in Nat \ {0} /\ UNCHANGED <<adapter, datasets, order, db, stamp>>
      BY <1>5, <1>8, <2>1 DEF Rollback
    <2>3. f.at \in 1..Len(order) /\ Refused(Held(order[f.at]))
      BY <1>0, <2>1, CommitSaves
    <2>4. ASSUME NEW i \in 1..Len(order), \A j \in 1..i : ~Refused(Held(order[j]))
          PROVE  db[order[i]] = Held(order[i])
      <3>1. i < f.at
        BY <1>0, <2>3, <2>4
      <3>2. QED
        BY <2>2, <3>1 DEF FlushSound, Kept
    <2>5. \A t : Held(t)' = Held(t)
      BY <2>2 DEF Held
    <2>6. QuietSaved'
      BY <1>0, <2>2, <2>4, <2>5 DEF QuietSaved, Quiet, Refused
    <2>7. QED
      BY <1>0, <2>2, <2>6 DEF SaveInv, Dated
  <1>9. CASE Restart
    <2>1. /\ datasets' = [t \in Tenants |-> IF t \in Stored THEN Load(db[t]) ELSE Absent]
          /\ order' \in Orders(Stored) /\ flushes' = {} /\ UNCHANGED <<adapter, db, stamp>>
      BY <1>9 DEF Restart
    <2>2. \A t \in Stored : t \in Tenants /\ db[t] # Absent /\ db[t] \in Row /\ Load(db[t]) \in Dataset
      BY LoadType DEF Stored, TypeInv, TypeOK
    <2>3. \A t \in Stored : datasets'[t] # Absent /\ Rows(datasets'[t]) = db[t] /\ datasets'[t].stamp = db[t].stamp
      BY <2>1, <2>2, RowsOfLoad, PersistenceAssumption DEF Load
    <2>4. \A i \in 1..Len(order') : order'[i] \in Stored
      BY <2>1, <2>2, OrdersType
    <2>5. (\A i \in 1..Len(order) : db[order[i]] = Held(order[i]))'
      BY <2>1, <2>3, <2>4 DEF Held
    <2>6. QuietSaved'
      BY <2>5 DEF QuietSaved
    <2>7. ASSUME NEW t \in Tenants PROVE Dated(t)'
      <3>1. Dated(t) /\ (db[t] # Absent => db[t].stamp \in Nat)
        BY <1>0 DEF SaveInv, TypeInv, TypeOK, Row
      <3>2. CASE t \in Stored
        <4>1. db' = db /\ stamp' = stamp /\ datasets'[t].stamp = db[t].stamp /\ db[t] # Absent
          BY <2>1, <2>2, <2>3, <3>2
        <4>2. QED
          BY <3>1, <4>1 DEF Dated
      <3>3. CASE t \notin Stored
        BY <2>1, <3>1, <3>3 DEF Dated
      <3>4. QED
        BY <3>2, <3>3
    <2>8. QED
      BY <2>1, <2>6, <2>7 DEF SaveInv
  <1>10. CASE UNCHANGED vars
    BY <1>0, <1>10 DEF vars, SaveInv, FlushSound, Dated, Kept, Held, QuietSaved, Quiet, Serial
  <1>11. QED
    BY <1>1, <1>2, <1>4, <1>6, <1>7, <1>8, <1>9, <1>10, AskedSteps DEF Next

LEMMA SaveAlways == Spec => [](TypeInv /\ SaveInv)
  <1>1. Init => SaveInv
    BY DEF Init, SaveInv, Dated, QuietSaved
  <1>2. QED
    BY <1>1, TypeAlways, SaveStep, PTL DEF Spec

\* With SQLite, when every response is out and its flush has ended, every
\* tenant before the first one that cannot be stored is stored as it is, after
\* any number of requests and restarts (app.ts, finish; flushTenantStore).
THEOREM PersistenceQuietSaved == Spec => []QuietSaved
  <1>1. SaveInv => QuietSaved
    BY DEF SaveInv, QuietSaved
  <1>2. QED
    BY <1>1, SaveAlways, PTL

\* With SQLite no step replaces what is stored of a tenant by something older
\* (saveTenantEntities, initTenantStore).
THEOREM PersistenceNeverBackwards == Spec => NeverBackwards
  <1> DEFINE Forth == Serial => \A t \in Tenants : db[t] # Absent => db'[t] # Absent /\ db'[t].stamp >= db[t].stamp
  <1>1. TypeInv /\ SaveInv /\ [Next]_vars => [Forth]_vars
    <2> SUFFICES ASSUME TypeInv, SaveInv, [Next]_vars, Serial, NEW t \in Tenants, db[t] # Absent
                 PROVE  db'[t] # Absent /\ db'[t].stamp >= db[t].stamp
      OBVIOUS
    <2>1. db[t].stamp \in Nat
      BY DEF TypeInv, TypeOK, Row
    <2>2. CASE Commit
      <3>1. PICK f \in flushes : f.rows # Absent /\ db' = [db EXCEPT ![order[f.at]] = f.rows]
        BY <2>2 DEF Commit
      <3>2. /\ order[f.at] \in Tenants /\ datasets[order[f.at]] \in Dataset
            /\ f.rows.stamp = datasets[order[f.at]].stamp
        BY <3>1, CommitSaves
      <3>3. CASE t = order[f.at]
        <4>1. db[t].stamp <= datasets[t].stamp
          BY <3>2, <3>3, PersistenceAssumption DEF SaveInv, Dated
        <4>2. db'[t] = f.rows
          BY <3>1, <3>3 DEF TypeInv, TypeOK
        <4>3. QED
          BY <2>1, <3>1, <3>2, <3>3, <4>1, <4>2 DEF Dataset
      <3>4. CASE t # order[f.at]
        BY <2>1, <3>1, <3>4 DEF TypeInv, TypeOK
      <3>5. QED
        BY <3>3, <3>4
    <2>3. CASE ~Commit
      <3>1. db' = db
        BY <2>3, AskedSteps DEF Next, vars, Asked, Answer, OtherRequest, Finish, NextKey, Rollback, Restart
      <3>2. QED
        BY <2>1, <3>1
    <2>4. QED
      BY <2>2, <2>3
  <1>2. QED
    BY <1>1, SaveAlways, PTL DEF Spec, NeverBackwards
-----------------------------------------------------------------------------
(* The durable map.  Without wipes every dataset in memory and every one   *)
(* stored has customers or accounts, so that a start finds it.             *)

NoWipes == \A x \in Adapters : x = "sqlite" => MaxWipes[x] = 0

PeopledInv ==
    Serial => \A t \in Tenants : /\ datasets[t] # Absent => datasets[t].peopled
                                 /\ db[t] # Absent => db[t].peopled

LEMMA AdapterKept == TypeInv /\ [Next]_vars => adapter' = adapter
  BY AskedSteps DEF Next, vars, Asked, Answer, OtherRequest, Finish, NextKey, Commit, Rollback, Restart

\* What Asked means when nothing is wiped: one tenant gets a dataset.
LEMMA AskedWrites ==
  ASSUME NoWipes, TypeInv, TypeInv', PeopledInv, Serial, Next, Asked
  PROVE  \E t \in Tenants, new \in Dataset :
             new.peopled /\ datasets' = [datasets EXCEPT ![t] = new] /\ db' = db
  <1>1. wipes' = wipes
    <2>1. ~ResetTenantDataset
      <3>1. adapter \in Adapters /\ wipes \in Nat
        BY DEF TypeInv, TypeOK
      <3>2. MaxWipes[adapter] = 0
        BY <3>1 DEF NoWipes, Serial
      <3>3. ~(wipes < MaxWipes[adapter])
        BY <3>1, <3>2
      <3>4. QED
        BY <3>3, AskedSteps
    <2>2. QED
      BY <2>1, AskedSteps DEF Next, bounds, OtherRequest, Finish, NextKey, Commit, Rollback, Restart
  <1>2. PICK t \in Tenants, ds \in Dataset : Answer(t, ds) /\ (Ensured(t).peopled => ds.peopled)
    BY <1>1 DEF Asked
  <1>3. Ensured(t).peopled
    BY DEF Ensured, CloneDataset, PeopledInv
  <1>4. stamp + 1 \in Nat
    BY DEF TypeInv, TypeOK
  <1>5. [ds EXCEPT !.stamp = stamp + 1] \in Dataset /\ [ds EXCEPT !.stamp = stamp + 1].peopled
    BY <1>2, <1>3, <1>4 DEF Dataset
  <1>6. datasets' = [datasets EXCEPT ![t] = [ds EXCEPT !.stamp = stamp + 1]] /\ db' = db
    BY <1>2 DEF Answer
  <1>7. QED
    BY <1>5, <1>6

LEMMA PeopledStep ==
  ASSUME NoWipes
  PROVE  TypeInv /\ TypeInv' /\ SaveInv /\ PeopledInv /\ [Next]_vars => PeopledInv'
  <1> SUFFICES ASSUME TypeInv, TypeInv', SaveInv, PeopledInv, [Next]_vars, Serial' PROVE PeopledInv'
    BY DEF PeopledInv
  <1>0. Serial /\ datasets \in [Tenants -> Dataset \cup {Absent}] /\ db \in [Tenants -> Row \cup {Absent}]
    BY AdapterKept DEF Serial, TypeInv, TypeOK
  <1>1. CASE Next /\ Asked
    <2>1. PICK t \in Tenants, new \in Dataset :
              new.peopled /\ datasets' = [datasets EXCEPT ![t] = new] /\ db' = db
      BY <1>0, <1>1, AskedWrites
    <2>2. \A u \in Tenants : datasets'[u] = IF u = t THEN new ELSE datasets[u]
      BY <1>0, <2>1
    <2>3. QED
      BY <1>0, <2>1, <2>2 DEF PeopledInv
  <1>2. CASE Commit
    <2>1. PICK f \in flushes : f.rows # Absent /\ db' = [db EXCEPT ![order[f.at]] = f.rows] /\ datasets' = datasets
      BY <1>2 DEF Commit
    <2>2. /\ order[f.at] \in Tenants /\ datasets[order[f.at]] \in Dataset
          /\ f.rows.peopled = datasets[order[f.at]].peopled
      BY <1>0, <2>1, CommitSaves
    <2>3. f.rows.peopled
      BY <1>0, <2>2, PersistenceAssumption DEF PeopledInv
    <2>4. \A u \in Tenants : db'[u] = IF u = order[f.at] THEN f.rows ELSE db[u]
      BY <1>0, <2>1
    <2>5. QED
      BY <1>0, <2>1, <2>3, <2>4 DEF PeopledInv
  <1>3. CASE Restart
    <2>1. \A t \in Tenants : datasets'[t] = IF t \in Stored THEN Load(db[t]) ELSE Absent
      BY <1>3 DEF Restart
    <2>2. \A t \in Stored : Load(db[t]).peopled
      BY DEF Stored, Load
    <2>3. db' = db
      BY <1>3 DEF Restart
    <2>4. QED
      BY <1>0, <2>1, <2>2, <2>3 DEF PeopledInv
  <1>4. CASE OtherRequest \/ Finish \/ NextKey \/ Rollback \/ UNCHANGED vars
    <2>1. datasets' = datasets /\ db' = db
      BY <1>4 DEF OtherRequest, Finish, NextKey, Rollback, vars
    <2>2. QED
      BY <1>0, <2>1 DEF PeopledInv
  <1>5. QED
    BY <1>1, <1>2, <1>3, <1>4, AskedSteps DEF Next

\* Every step is one of the durable map, or changes nothing of it.
LEMMA MapStep ==
  ASSUME NoWipes
  PROVE  TypeInv /\ TypeInv' /\ SaveInv /\ PeopledInv /\ [Next]_vars =>
             [Map!Next]_<<[t \in Tenants |-> IF Serial THEN Held(t) ELSE Absent],
                          [t \in Tenants |-> IF Serial THEN db[t] ELSE Absent]>>
  <1> DEFINE h == [t \in Tenants |-> IF Serial THEN Held(t) ELSE Absent]
             k == [t \in Tenants |-> IF Serial THEN db[t] ELSE Absent]
  <1> SUFFICES ASSUME TypeInv, TypeInv', SaveInv, PeopledInv, [Next]_vars PROVE [Map!Next]_<<h, k>>
    OBVIOUS
  <1>0. /\ (Serial' <=> Serial) /\ datasets \in [Tenants -> Dataset \cup {Absent}]
        /\ db \in [Tenants -> Row \cup {Absent}]
    BY AdapterKept DEF Serial, TypeInv, TypeOK
  <1>1. CASE ~Serial
    <2>1. h' = h /\ k' = k
      BY <1>0, <1>1
    <2>2. QED
      BY <2>1
  <1>2. ASSUME Serial PROVE h = [t \in Tenants |-> Held(t)] /\ h' = [t \in Tenants |-> Held(t)'] /\ k = db /\ k' = db'
    BY <1>0, <1>2 DEF TypeInv, TypeOK
  <1> HIDE DEF h, k
  <1>3. CASE Serial /\ Next /\ Asked
    <2>1. PICK t \in Tenants, new \in Dataset :
              new.peopled /\ datasets' = [datasets EXCEPT ![t] = new] /\ db' = db
      BY <1>3, AskedWrites
    <2>2. \A u \in Tenants : Held(u)' = IF u = t THEN Rows(new) ELSE Held(u)
      BY <1>0, <2>1, PersistenceAssumption DEF Held
    <2>3. Rows(new) \in Values
      BY RowsType DEF Values
    <2>4. h'[t] = Rows(new) /\ h' = [h EXCEPT ![t] = Rows(new)] /\ k' = k
      BY <1>2, <1>3, <2>1, <2>2
    <2>5. Map!Write
      BY <2>3, <2>4 DEF Map!Write, h, k
    <2>6. QED
      BY <2>5 DEF Map!Next
  <1>4. CASE Serial /\ Commit
    <2>1. PICK f \in flushes :
              f.rows # Absent /\ db' = [db EXCEPT ![order[f.at]] = f.rows] /\ datasets' = datasets
      BY <1>4 DEF Commit
    <2>2. order[f.at] \in Tenants /\ f.rows = Held(order[f.at])
      BY <1>4, <2>1, CommitSaves
    <2>3. h' = h /\ k' = [k EXCEPT ![order[f.at]] = h[order[f.at]]]
      BY <1>2, <1>4, <2>1, <2>2 DEF Held
    <2>4. Map!Save
      BY <2>2, <2>3 DEF Map!Save, h, k
    <2>5. QED
      BY <2>4 DEF Map!Next
  <1>5. CASE Serial /\ Restart
    <2>1. /\ datasets' = [t \in Tenants |-> IF t \in Stored THEN Load(db[t]) ELSE Absent]
          /\ db' = db
      BY <1>5 DEF Restart
    <2>2. ASSUME NEW t \in Tenants PROVE Held(t)' = db[t]
      <3>1. CASE db[t] = Absent
        BY <2>1, <3>1 DEF Held, Stored
      <3>2. CASE db[t] # Absent
        <4>1. t \in Stored /\ db[t] \in Row
          BY <1>0, <1>5, <3>2 DEF Stored, PeopledInv
        <4>2. datasets'[t] = Load(db[t]) /\ Load(db[t]) # Absent
          BY <2>1, <4>1, LoadType, PersistenceAssumption
        <4>3. QED
          BY <4>1, <4>2, RowsOfLoad DEF Held
      <3>3. QED
        BY <3>1, <3>2
    <2>3. h' = k /\ k' = k
      BY <1>0, <1>2, <1>5, <2>1, <2>2
    <2>4. Map!Restart
      BY <2>3 DEF Map!Restart, h, k
    <2>5. QED
      BY <2>4 DEF Map!Next
  <1>6. CASE Serial /\ (OtherRequest \/ Finish \/ NextKey \/ Rollback \/ UNCHANGED vars)
    <2>1. datasets' = datasets /\ db' = db
      BY <1>6 DEF OtherRequest, Finish, NextKey, Rollback, vars
    <2>2. h' = h /\ k' = k
      BY <1>2, <1>6, <2>1 DEF Held
    <2>3. QED
      BY <2>2
  <1>7. QED
    BY <1>1, <1>3, <1>4, <1>5, <1>6, AskedSteps DEF Next

\* With SQLite and no wipe, the store is a durable map: a request changes the
\* dataset of one tenant, a transaction stores the one held at that moment, a
\* start gives back what is stored (flushTenantStore, initTenantStore).
THEOREM PersistenceIsDurableMap ==
  ASSUME NoWipes
  PROVE  Spec => IsDurableMap
  <1>1. Init => Map!Init
    BY DEF Init, Map!Init, Held, Values
  <1>2. Init => PeopledInv
    BY DEF Init, PeopledInv
  <1>3. Spec => [](TypeInv /\ SaveInv /\ PeopledInv)
    BY <1>2, SaveAlways, PeopledStep, PTL DEF Spec
  <1>4. QED
    BY <1>1, <1>3, MapStep, PTL DEF Spec, IsDurableMap, Map!Spec
=============================================================================
