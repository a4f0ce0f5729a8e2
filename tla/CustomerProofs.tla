--------------------------- MODULE CustomerProofs ---------------------------
(***************************************************************************)
(* Theorems about CustomerAccounts: whatever clients send, and through     *)
(* resets, seeds, flushes and restarts, no two customers of a tenant share *)
(* an e-mail address, a tenant's dataset meets the keys of the tables that *)
(* it is stored in, and every record and every debit card is as the last   *)
(* response showed it.                                                     *)
(***************************************************************************)
EXTENDS CustomerAccounts, SequenceTheorems, FiniteFacts

-----------------------------------------------------------------------------
(* What every dataset meets, in memory or stored *)

\* Lists in which an id names one record: tables with a key, and Sets.
UniqueLists == TableLists \cup {"beneficiaries"}

\* List s of key k is what the clients were shown, of which shown tells.
AsShown(s, k, shown) ==
    /\ \A x \in shown : x.key = k => \E i \in DOMAIN s : s[i].id = x.id /\ s[i].val = x.val
    /\ \A i \in DOMAIN s : \E x \in shown : x.key = k /\ x.id = s[i].id

Fits(s, k, shown) ==
    /\ s \in Seq(Record)
    /\ AsShown(s, k, shown)
    /\ k[2] \in UniqueLists => DistinctIds(s)

SoundLists(lists, shown) ==
    /\ DOMAIN lists \subseteq Keys
    /\ shown \subseteq Shown
    /\ \A k \in DOMAIN lists : Fits(lists[k], k, shown)
    /\ \A x \in shown : x.key \in DOMAIN lists

SoundPeople(customers, accounts) ==
    /\ customers \in [Customers -> Emails \cup {Absent}]
    /\ accounts \in [Accounts -> Account \cup {Absent}]
    /\ \A a \in Accounts : accounts[a] # Absent => customers[accounts[a].owner] # Absent
    /\ \A c, d \in Customers :
          (customers[c] # Absent /\ customers[d] # Absent /\ Normal[customers[c]] = Normal[customers[d]]) => c = d

Fields == {"customers", "unboundNames", "accounts", "lists", "shown"}

Sound(ds) ==
    /\ DOMAIN ds = Fields
    /\ ds.unboundNames \subseteq Customers
    /\ SoundPeople(ds.customers, ds.accounts)
    /\ SoundLists(ds.lists, ds.shown)

SoundInv == ops \in Nat /\ Sound(data) /\ (kept = Absent \/ Sound(kept))

-----------------------------------------------------------------------------
(* Lists *)

\* Find returns 0, or where the first record with the id is.
LEMMA FindFirst ==
  ASSUME NEW R, NEW s \in Seq(R), NEW id
  PROVE  /\ (\A i \in DOMAIN s : s[i].id # id) => Find(s, id) = 0
         /\ (\E i \in DOMAIN s : s[i].id = id) => Find(s, id) \in DOMAIN s /\ s[Find(s, id)].id = id
  <1> DEFINE At == {i \in DOMAIN s : s[i].id = id}
  <1>1. CASE At = {}
    BY <1>1 DEF Find
  <1>2. CASE At # {}
    <2>1. At \subseteq Nat
      BY LenProperties
    <2>2. PICK n \in At : \A m \in At : n <= m
      <3> HIDE DEF At
      <3>1. QED
        BY <1>2, <2>1, LeastNumber
    <2>3. s[n].id = id /\ \A j \in DOMAIN s : j < n => s[j].id # id
      BY <2>1, <2>2
    <2>4. QED
      BY <1>2, <2>2, <2>3 DEF Find
  <1>3. QED
    BY <1>1, <1>2

\* A key of the lists and what is shown of the others.
Others(T, shown, k) == T \subseteq Shown /\ \A x : x.key # k => (x \in T <=> x \in shown)

LEMMA ShowOthers ==
  ASSUME NEW shown, shown \subseteq Shown, NEW k \in Keys, NEW r \in Record, NEW id
  PROVE  Others(Show(shown, k, r), shown, k) /\ Others(Hide(shown, k, id), shown, k)
  <1>1. [key |-> k, id |-> r.id, val |-> r.val] \in Shown
    BY DEF Shown, Record
  <1>2. QED
    BY <1>1 DEF Others, Show, Hide

LEMMA ShowAllOthers ==
  ASSUME NEW shown, shown \subseteq Shown, NEW k \in Keys, NEW s \in Seq(Record)
  PROVE  Others(ShowAll(shown, k, s), shown, k)
  <1>1. \A r \in Range(s) : r \in Record
    BY LenProperties DEF Range
  <1>2. \A r \in Record : [key |-> k, id |-> r.id, val |-> r.val] \in Shown
    BY DEF Shown, Record
  <1>3. QED
    BY <1>1, <1>2 DEF Others, ShowAll

LEMMA AppendFits ==
  ASSUME NEW k, NEW s, NEW shown, Fits(s, k, shown), NEW r \in Record,
         k[2] \in UniqueLists => \A i \in DOMAIN s : s[i].id # r.id
  PROVE  Fits(Append(s, r), k, Show(shown, k, r))
  <1> DEFINE u == Append(s, r)
             x0 == [key |-> k, id |-> r.id, val |-> r.val]
             T == Show(shown, k, r)
  <1>1. /\ u \in Seq(Record) /\ DOMAIN s = 1..Len(s) /\ Len(s) \in Nat /\ DOMAIN u = 1..(Len(s) + 1)
        /\ u[Len(s) + 1] = r /\ \A i \in 1..Len(s) : u[i] = s[i]
    BY AppendProperties, LenProperties DEF Fits
  <1>2. x0.key = k /\ x0.id = r.id /\ x0.val = r.val
    OBVIOUS
  <1> HIDE DEF u, x0
  <1>3. T = {x \in shown : x.key # k \/ x.id # r.id} \cup {x0}
    BY DEF Show, Hide, x0
  <1> HIDE DEF T
  <1>4. ASSUME NEW x \in T, x.key = k PROVE \E i \in DOMAIN u : u[i].id = x.id /\ u[i].val = x.val
    <2>1. CASE x = x0
      BY <1>1, <1>2, <2>1
    <2>2. CASE x # x0
      <3>1. PICK i \in DOMAIN s : s[i].id = x.id /\ s[i].val = x.val
        BY <1>3, <1>4, <2>2 DEF Fits, AsShown
      <3>2. QED
        BY <1>1, <3>1
    <2>3. QED
      BY <2>1, <2>2
  <1>5. ASSUME NEW i \in DOMAIN u PROVE \E x \in T : x.key = k /\ x.id = u[i].id
    <2>1. CASE u[i].id = r.id
      BY <1>2, <1>3, <2>1
    <2>2. CASE u[i].id # r.id
      <3>1. i \in DOMAIN s /\ u[i] = s[i]
        BY <1>1, <2>2
      <3>2. PICK x \in shown : x.key = k /\ x.id = s[i].id
        BY <3>1 DEF Fits, AsShown
      <3>3. QED
        BY <1>3, <2>2, <3>1, <3>2
    <2>3. QED
      BY <2>1, <2>2
  <1>6. k[2] \in UniqueLists => DistinctIds(u)
    BY <1>1 DEF Fits, DistinctIds
  <1>7. QED
    BY <1>1, <1>4, <1>5, <1>6 DEF Fits, AsShown, u, T

\* Replacing the first record with r's id, or adding one.
LEMMA UpsertFits ==
  ASSUME NEW k, NEW s, NEW shown, Fits(s, k, shown), NEW r \in Record
  PROVE  Fits(Upsert(s, r), k, Show(shown, k, r))
  <1>0. s \in Seq(Record)
    BY DEF Fits
  <1>1. CASE \A i \in DOMAIN s : s[i].id # r.id
    <2>1. Upsert(s, r) = Append(s, r)
      BY <1>0, <1>1, FindFirst DEF Upsert
    <2>2. QED
      BY <1>1, <2>1, AppendFits
  <1>2. CASE \E i \in DOMAIN s : s[i].id = r.id
    <2> DEFINE n == Find(s, r.id)
               u == [s EXCEPT ![n] = r]
               x0 == [key |-> k, id |-> r.id, val |-> r.val]
               T == Show(shown, k, r)
    <2>1. n \in 1..Len(s) /\ s[n].id = r.id /\ DOMAIN s = 1..Len(s) /\ Len(s) \in Nat
      BY <1>0, <1>2, FindFirst, LenProperties
    <2>2. Upsert(s, r) = u
      <3> HIDE DEF n
      <3>1. n # 0
        BY <2>1
      <3>2. QED
        BY <3>1 DEF Upsert, n
    <2> HIDE DEF n
    <2>3. u \in Seq(Record) /\ DOMAIN u = DOMAIN s /\ u[n] = r /\ \A i \in DOMAIN s : i # n => u[i] = s[i]
      BY <1>0, <2>1, ExceptSeq, LenProperties
    <2>4. x0.key = k /\ x0.id = r.id /\ x0.val = r.val
      OBVIOUS
    <2> HIDE DEF u, x0
    <2>5. T = {x \in shown : x.key # k \/ x.id # r.id} \cup {x0}
      BY DEF Show, Hide, x0
    <2> HIDE DEF T
    <2>6. ASSUME NEW x \in T, x.key = k PROVE \E i \in DOMAIN u : u[i].id = x.id /\ u[i].val = x.val
      <3>1. CASE x = x0
        BY <2>1, <2>3, <2>4, <3>1
      <3>2. CASE x # x0
        <4>1. PICK i \in DOMAIN s : s[i].id = x.id /\ s[i].val = x.val
          BY <2>5, <2>6, <3>2 DEF Fits, AsShown
        <4>2. QED
          BY <2>1, <2>3, <2>5, <2>6, <3>2, <4>1
      <3>3. QED
        BY <3>1, <3>2
    <2>7. ASSUME NEW i \in DOMAIN u PROVE \E x \in T : x.key = k /\ x.id = u[i].id
      <3>1. CASE u[i].id = r.id
        BY <2>4, <2>5, <3>1
      <3>2. CASE u[i].id # r.id
        <4>1. i \in DOMAIN s /\ u[i] = s[i]
          BY <2>3, <3>2
        <4>2. PICK x \in shown : x.key = k /\ x.id = s[i].id
          BY <4>1 DEF Fits, AsShown
        <4>3. QED
          BY <2>5, <3>2, <4>1, <4>2
      <3>3. QED
        BY <3>1, <3>2
    <2>8. k[2] \in UniqueLists => DistinctIds(u)
      BY <2>1, <2>3 DEF Fits, DistinctIds
    <2>9. QED
      BY <2>2, <2>3, <2>6, <2>7, <2>8 DEF Fits, AsShown, T
  <1>3. QED
    BY <1>1, <1>2

\* What is left of a list without id, in the same or any other order, fits
\* what is left of what is shown.
LEMMA WithoutFits ==
  ASSUME NEW k, NEW s, NEW shown, Fits(s, k, shown), NEW id, NEW u \in Seq(Record),
         \A i \in DOMAIN s : s[i].id # id => \E j \in DOMAIN u : u[j] = s[i],
         \A j \in DOMAIN u : u[j].id # id /\ \E i \in DOMAIN s : s[i] = u[j],
         k[2] \in UniqueLists => DistinctIds(u)
  PROVE  Fits(u, k, Hide(shown, k, id))
  <1> DEFINE T == Hide(shown, k, id)
  <1>1. T = {x \in shown : x.key # k \/ x.id # id}
    BY DEF Hide
  <1> HIDE DEF T
  <1>2. ASSUME NEW x \in T, x.key = k PROVE \E j \in DOMAIN u : u[j].id = x.id /\ u[j].val = x.val
    <2>1. PICK i \in DOMAIN s : s[i].id = x.id /\ s[i].val = x.val
      BY <1>1, <1>2 DEF Fits, AsShown
    <2>2. QED
      BY <1>1, <1>2, <2>1
  <1>3. ASSUME NEW j \in DOMAIN u PROVE \E x \in T : x.key = k /\ x.id = u[j].id
    <2>1. PICK i \in DOMAIN s : s[i] = u[j]
      OBVIOUS
    <2>2. PICK x \in shown : x.key = k /\ x.id = s[i].id
      BY DEF Fits, AsShown
    <2>3. QED
      BY <1>1, <2>1, <2>2
  <1>4. QED
    BY <1>2, <1>3 DEF Fits, AsShown, T

\* Taking out the first record with an id is taking out the only one.
LEMMA RemoveFirstFits ==
  ASSUME NEW k, NEW s, NEW shown, Fits(s, k, shown), k[2] \in UniqueLists, NEW id
  PROVE  Fits(RemoveFirst(s, id), k, Hide(shown, k, id))
  <1>0. s \in Seq(Record) /\ DistinctIds(s)
    BY DEF Fits
  <1>1. CASE \A i \in DOMAIN s : s[i].id # id
    <2>1. RemoveFirst(s, id) = s
      BY <1>0, <1>1, FindFirst DEF RemoveFirst
    <2>2. QED
      BY <1>0, <1>1, <2>1, WithoutFits
  <1>2. CASE \E i \in DOMAIN s : s[i].id = id
    <2> DEFINE n == Find(s, id)
               front == SubSeq(s, 1, n - 1)
               back == SubSeq(s, n + 1, Len(s))
    <2>1. n \in 1..Len(s) /\ Len(s) \in Nat /\ s[n].id = id /\ DOMAIN s = 1..Len(s)
      BY <1>0, <1>2, FindFirst, LenProperties
    <2>2. RemoveFirst(s, id) = front \o back
      <3> HIDE DEF n
      <3>1. n # 0
        BY <2>1
      <3>2. QED
        BY <3>1 DEF RemoveFirst, n
    <2> HIDE DEF n
    <2>3. front \in Seq(Record) /\ Len(front) = n - 1 /\ \A i \in 1..(n - 1) : front[i] = s[i]
      BY <1>0, <2>1, SubSeqProperties
    <2>4. back \in Seq(Record) /\ Len(back) = Len(s) - n /\ \A i \in 1..(Len(s) - n) : back[i] = s[n + i]
      <3>1. n + 1 \in Int /\ Len(s) \in Int /\ \A i \in (n + 1)..Len(s) : s[i] \in Record
        BY <1>0, <2>1, LenProperties
      <3>2. /\ back \in Seq(Record)
            /\ Len(back) = IF n + 1 <= Len(s) THEN Len(s) - (n + 1) + 1 ELSE 0
            /\ \A i \in 1..(Len(s) - (n + 1) + 1) : back[i] = s[n + 1 + i - 1]
        BY <3>1, SubSeqProperties
      <3> HIDE DEF back
      <3>3. Len(back) = Len(s) - n /\ Len(s) - (n + 1) + 1 = Len(s) - n
        <4> DEFINE N == Len(s)
                   m == Len(back)
        <4>1. n \in 1..N /\ N \in Nat /\ m = IF n + 1 <= N THEN N - (n + 1) + 1 ELSE 0
          BY <2>1, <3>2
        <4> HIDE DEF N, m
        <4>2. m = N - n /\ N - (n + 1) + 1 = N - n
          BY <4>1
        <4>3. QED
          BY <4>2 DEF N, m
      <3>4. \A i \in 1..(Len(s) - n) : n + 1 + i - 1 = n + i
        BY <2>1
      <3>5. QED
        BY <3>2, <3>3, <3>4
    <2> HIDE DEF front, back
    <2> DEFINE rest == front \o back
    <2>5. /\ rest \in Seq(Record) /\ Len(rest) = Len(s) - 1
          /\ \A i \in 1..Len(rest) : rest[i] = IF i <= n - 1 THEN s[i] ELSE s[i + 1]
      <3>1. /\ rest \in Seq(Record) /\ Len(rest) = Len(s) - 1
            /\ \A i \in 1..Len(rest) : rest[i] = IF i <= n - 1 THEN front[i] ELSE back[i - (n - 1)]
        <4>1. /\ rest \in Seq(Record) /\ Len(rest) = Len(front) + Len(back)
              /\ \A i \in 1..(Len(front) + Len(back)) : rest[i] = IF i <= Len(front) THEN front[i] ELSE back[i - Len(front)]
          BY <2>3, <2>4, ConcatProperties
        <4> HIDE DEF rest
        <4>2. QED
          BY <2>1, <2>3, <2>4, <4>1
      <3>2. \A i \in 1..Len(rest) : i > n - 1 => i - (n - 1) \in 1..(Len(s) - n) /\ n + (i - (n - 1)) = i + 1
        BY <2>1, <3>1
      <3>3. QED
        BY <2>1, <2>3, <2>4, <3>1, <3>2
    <2> HIDE DEF rest
    <2>6. DOMAIN rest = 1..(Len(s) - 1)
      BY <2>5, LenProperties
    <2>7. ASSUME NEW i \in DOMAIN rest, NEW j \in DOMAIN rest, rest[i].id = rest[j].id PROVE i = j
      <3>1. PICK p, q \in DOMAIN s :
              /\ p = IF i <= n - 1 THEN i ELSE i + 1
              /\ q = IF j <= n - 1 THEN j ELSE j + 1
        BY <2>1, <2>6
      <3>2. s[p].id = s[q].id
        BY <2>5, <2>6, <2>7, <3>1, LenProperties
      <3>3. p = q
        BY <1>0, <3>2 DEF DistinctIds
      <3>4. QED
        BY <2>1, <2>6, <3>1, <3>3
    <2>8. ASSUME NEW j \in DOMAIN rest PROVE rest[j].id # id /\ \E i \in DOMAIN s : s[i] = rest[j]
      <3>1. PICK i \in DOMAIN s : i = IF j <= n - 1 THEN j ELSE j + 1
        BY <2>1, <2>6
      <3>2. rest[j] = s[i] /\ i # n
        BY <2>1, <2>5, <2>6, <3>1, LenProperties
      <3>3. QED
        BY <1>0, <2>1, <3>2 DEF DistinctIds
    <2>9. ASSUME NEW i \in DOMAIN s, s[i].id # id PROVE \E j \in DOMAIN rest : rest[j] = s[i]
      <3>1. i # n
        BY <2>1, <2>9
      <3>2. PICK j \in DOMAIN rest : i = IF j <= n - 1 THEN j ELSE j + 1
        <4>1. CASE i < n
          BY <2>1, <2>6, <4>1
        <4>2. CASE i > n
          <5>1. i - 1 \in DOMAIN rest /\ ~(i - 1 <= n - 1) /\ i - 1 + 1 = i
            BY <2>1, <2>6, <4>2
          <5>2. QED
            BY <5>1
        <4>3. QED
          BY <2>1, <3>1, <4>1, <4>2
      <3>3. rest[j] = s[i]
        BY <2>5, <2>6, <3>2, LenProperties
      <3>4. QED
        BY <3>3
    <2>10. DistinctIds(rest)
      BY <2>7 DEF DistinctIds
    <2>11. Fits(rest, k, Hide(shown, k, id))
      BY <2>5, <2>8, <2>9, <2>10, WithoutFits
    <2>12. QED
      BY <2>2, <2>11 DEF rest
  <1>3. QED
    BY <1>1, <1>2

\* The equation of the function by which RemoveAll is defined.
Filters(s, id, n, g) ==
    g = [i \in 0..n |-> IF i = 0 THEN <<>> ELSE IF s[i].id = id THEN g[i - 1] ELSE Append(g[i - 1], s[i])]

LEMMA RemoveAllDef == ASSUME NEW s, NEW id PROVE RemoveAll(s, id) = (CHOOSE g : Filters(s, id, Len(s), g))[Len(s)]
  BY Zenon DEF RemoveAll, Filters

\* filter returns the records with other ids.
LEMMA FilterExists ==
  ASSUME NEW s, NEW id, NEW n \in Nat
  PROVE  \E g : Filters(s, id, n, g)
  <1> DEFINE bad == {i \in 0..n : ~\E g : Filters(s, id, i, g)}
  <1>1. Filters(s, id, 0, [i \in 0..0 |-> <<>>])
    BY DEF Filters
  <1>2. ASSUME NEW i \in Nat, NEW f, Filters(s, id, i, f) PROVE \E g : Filters(s, id, i + 1, g)
    <2> DEFINE next(p, t) == IF s[p].id = id THEN t ELSE Append(t, s[p])
               g == [p \in 0..(i + 1) |-> IF p = i + 1 THEN next(p, f[i]) ELSE f[p]]
    <2>1. \A p \in 0..i : f[p] = IF p = 0 THEN <<>> ELSE next(p, f[p - 1])
      <3>1. f = [p \in 0..i |-> IF p = 0 THEN <<>> ELSE next(p, f[p - 1])]
        BY <1>2 DEF Filters
      <3> HIDE DEF next
      <3>2. QED
        BY <3>1
    <2> HIDE DEF next
    <2>2. g[i + 1] = next(i + 1, f[i]) /\ \A p \in 0..i : g[p] = f[p]
      OBVIOUS
    <2>3. ASSUME NEW p \in 0..(i + 1) PROVE g[p] = IF p = 0 THEN <<>> ELSE next(p, g[p - 1])
      <3> HIDE DEF g
      <3>1. CASE p = i + 1
        BY <2>2, <3>1
      <3>2. CASE p # i + 1
        <4>1. p \in 0..i /\ (p # 0 => p - 1 \in 0..i)
          BY <3>2
        <4>2. QED
          BY <2>1, <2>2, <4>1
      <3>3. QED
        BY <3>1, <3>2
    <2>4. g = [p \in 0..(i + 1) |-> IF p = 0 THEN <<>> ELSE next(p, g[p - 1])]
      BY <2>3
    <2> HIDE DEF g
    <2>5. Filters(s, id, i + 1, g)
      BY <2>4 DEF Filters, next
    <2>6. QED
      BY <2>5
  <1>3. SUFFICES ASSUME bad # {} PROVE FALSE
    OBVIOUS
  <1>4. PICK m \in bad : \A i \in bad : m <= i
    <2>1. bad \subseteq Nat
      OBVIOUS
    <2> HIDE DEF bad
    <2>2. QED
      BY <1>3, <2>1, LeastNumber
  <1>5. m \in Nat /\ m <= n /\ ~\E g : Filters(s, id, m, g)
    OBVIOUS
  <1>6. m # 0
    BY <1>1, <1>5
  <1>7. m - 1 \in 0..n /\ m - 1 \in Nat /\ m - 1 + 1 = m
    BY <1>5, <1>6
  <1>8. m - 1 \notin bad
    <2> HIDE DEF bad
    <2>1. QED
      BY <1>4, <1>7
  <1>9. QED
    BY <1>2, <1>5, <1>7, <1>8

\* filter returns the records with other ids.
WithoutId(s, id, n, t) ==
    /\ t \in Seq(Record)
    /\ \A p \in 1..n : s[p].id # id => \E j \in DOMAIN t : t[j] = s[p]
    /\ \A j \in DOMAIN t : t[j].id # id /\ \E p \in 1..n : s[p] = t[j]

LEMMA FilterStep ==
  ASSUME NEW s \in Seq(Record), NEW id, NEW i \in 1..Len(s), NEW t, WithoutId(s, id, i - 1, t)
  PROVE  WithoutId(s, id, i, IF s[i].id = id THEN t ELSE Append(t, s[i]))
  <1>0. i \in Nat /\ s[i] \in Record /\ t \in Seq(Record) /\ \A p \in 1..i : p = i \/ p \in 1..(i - 1)
    BY LenProperties DEF WithoutId
  <1>1. CASE s[i].id = id
    BY <1>0, <1>1 DEF WithoutId
  <1>2. CASE s[i].id # id
    <2> DEFINE u == Append(t, s[i])
    <2>1. /\ u \in Seq(Record) /\ Len(t) \in Nat /\ DOMAIN t = 1..Len(t) /\ DOMAIN u = 1..(Len(t) + 1)
          /\ u[Len(t) + 1] = s[i] /\ \A j \in 1..Len(t) : u[j] = t[j]
      BY <1>0, AppendProperties, LenProperties
    <2> HIDE DEF u
    <2>2. ASSUME NEW p \in 1..i, s[p].id # id PROVE \E j \in DOMAIN u : u[j] = s[p]
      <3>1. CASE p = i
        BY <2>1, <3>1
      <3>2. CASE p # i
        <4>1. PICK j \in DOMAIN t : t[j] = s[p]
          BY <1>0, <2>2, <3>2 DEF WithoutId
        <4>2. QED
          BY <2>1, <4>1
      <3>3. QED
        BY <3>1, <3>2
    <2>3. ASSUME NEW j \in DOMAIN u PROVE u[j].id # id /\ \E p \in 1..i : s[p] = u[j]
      <3>1. CASE j = Len(t) + 1
        BY <1>0, <1>2, <2>1, <3>1
      <3>2. CASE j # Len(t) + 1
        <4>1. j \in DOMAIN t /\ u[j] = t[j]
          BY <2>1, <3>2
        <4>2. t[j].id # id /\ \E p \in 1..(i - 1) : s[p] = t[j]
          BY <4>1 DEF WithoutId
        <4>3. \A p \in 1..(i - 1) : p \in 1..i
          BY <1>0
        <4>4. QED
          BY <4>1, <4>2, <4>3
      <3>3. QED
        BY <3>1, <3>2
    <2>4. WithoutId(s, id, i, u)
      BY <2>1, <2>2, <2>3 DEF WithoutId
    <2>5. QED
      BY <1>2, <2>4 DEF u
  <1>3. QED
    BY <1>1, <1>2

LEMMA RemoveAllProperties ==
  ASSUME NEW s \in Seq(Record), NEW id
  PROVE  WithoutId(s, id, Len(s), RemoveAll(s, id))
  <1> DEFINE N == Len(s)
             g == CHOOSE f : Filters(s, id, N, f)
             bad == {i \in 0..N : ~WithoutId(s, id, i, g[i])}
             next(i, t) == IF s[i].id = id THEN t ELSE Append(t, s[i])
  <1>1. N \in Nat
    BY LenProperties
  <1>2. RemoveAll(s, id) = g[N]
    BY RemoveAllDef
  <1>3. Filters(s, id, N, g)
    BY <1>1, FilterExists
  <1> HIDE DEF g
  <1>4. \A i \in 0..N : g[i] = IF i = 0 THEN <<>> ELSE next(i, g[i - 1])
    <2>1. g = [i \in 0..N |-> IF i = 0 THEN <<>> ELSE next(i, g[i - 1])]
      BY <1>3 DEF Filters
    <2> HIDE DEF next, N
    <2>2. QED
      BY <2>1
  <1> HIDE DEF N
  <1>5. bad = {}
    <2> SUFFICES ASSUME bad # {} PROVE FALSE
      OBVIOUS
    <2>1. PICK m \in bad : \A i \in bad : m <= i
      <3>1. bad \subseteq Nat
        BY <1>1
      <3> HIDE DEF bad
      <3>2. QED
        BY <3>1, LeastNumber
    <2>2. m \in 0..N /\ ~WithoutId(s, id, m, g[m])
      OBVIOUS
    <2>3. CASE m = 0
      <3>1. g[m] = <<>>
        BY <1>1, <1>4, <2>2, <2>3
      <3>2. QED
        BY <2>2, <2>3, <3>1 DEF WithoutId
    <2>4. CASE m # 0
      <3>1. m \in 1..N /\ m - 1 \in 0..N /\ m - 1 < m
        BY <1>1, <2>2, <2>4
      <3>2. m - 1 \notin bad
        <4> HIDE DEF bad
        <4>1. QED
          BY <1>1, <2>1, <2>2, <3>1
      <3>3. WithoutId(s, id, m - 1, g[m - 1])
        BY <3>1, <3>2
      <3>4. WithoutId(s, id, m, next(m, g[m - 1]))
        BY <3>1, <3>3, FilterStep DEF N
      <3>5. g[m] = next(m, g[m - 1])
        BY <1>4, <2>2, <2>4
      <3>6. QED
        BY <2>2, <3>4, <3>5
    <2>5. QED
      BY <2>3, <2>4
  <1>6. N \in 0..N
    BY <1>1
  <1>7. WithoutId(s, id, N, g[N])
    BY <1>5, <1>6
  <1>8. QED
    BY <1>2, <1>7 DEF N

LEMMA RemoveAllFits ==
  ASSUME NEW k, NEW s, NEW shown, Fits(s, k, shown), k[2] \notin UniqueLists, NEW id
  PROVE  Fits(RemoveAll(s, id), k, Hide(shown, k, id))
  <1> DEFINE u == RemoveAll(s, id)
  <1>1. s \in Seq(Record) /\ DOMAIN s = 1..Len(s)
    BY LenProperties DEF Fits
  <1>2. WithoutId(s, id, Len(s), u)
    BY <1>1, RemoveAllProperties
  <1> HIDE DEF u
  <1>3. Fits(u, k, Hide(shown, k, id))
    BY <1>1, <1>2, WithoutFits DEF WithoutId
  <1>4. QED
    BY <1>3 DEF u

\* A value, or a list that a response shows as a whole.
LEMMA ShowAllFits ==
  ASSUME NEW k, NEW shown, NEW s \in Seq(Record), DistinctIds(s)
  PROVE  Fits(s, k, ShowAll(shown, k, s))
  <1> DEFINE T == ShowAll(shown, k, s)
  <1>1. T = {x \in shown : x.key # k} \cup {[key |-> k, id |-> s[i].id, val |-> s[i].val] : i \in DOMAIN s}
    BY DEF ShowAll, Range
  <1> DEFINE X(i) == [key |-> k, id |-> s[i].id, val |-> s[i].val]
  <1>2. \A i \in DOMAIN s : X(i).key = k /\ X(i).id = s[i].id /\ X(i).val = s[i].val /\ X(i) \in T
    BY <1>1
  <1>3. \A x \in T : x.key = k => \E i \in DOMAIN s : x = X(i)
    BY <1>1
  <1> HIDE DEF T, X
  <1>4. AsShown(s, k, T)
    BY <1>2, <1>3 DEF AsShown
  <1>5. QED
    BY <1>4 DEF Fits, T

-----------------------------------------------------------------------------
(* Requests for one list *)

\* The list of a holder, also where there is none.
LEMMA ListFits ==
  ASSUME Sound(data), NEW at, NEW kind
  PROVE  Fits(List(at, kind), <<at, kind>>, data.shown)
  <1>1. CASE <<at, kind>> \in DOMAIN data.lists
    BY <1>1 DEF Sound, SoundLists, List
  <1>2. CASE <<at, kind>> \notin DOMAIN data.lists
    <2>1. List(at, kind) = <<>> /\ DOMAIN <<>> = {}
      BY <1>2 DEF List
    <2>2. \A x \in data.shown : x.key # <<at, kind>>
      BY <1>2 DEF Sound, SoundLists
    <2>3. QED
      BY <2>1, <2>2 DEF Fits, AsShown, DistinctIds
  <1>3. QED
    BY <1>1, <1>2

\* One list put, the others stay as they are shown.
LEMMA PutLists ==
  ASSUME NEW lists, NEW shown, SoundLists(lists, shown), NEW k \in Keys, NEW s, NEW T,
         Fits(s, k, T), Others(T, shown, k)
  PROVE  SoundLists(Put(lists, k, s), T)
  <1> DEFINE L == Put(lists, k, s)
  <1>1. /\ DOMAIN L = DOMAIN lists \cup {k} /\ L[k] = s
        /\ \A j \in DOMAIN lists : j # k => L[j] = lists[j]
    BY DEF Put
  <1> HIDE DEF L
  <1>2. ASSUME NEW j \in DOMAIN L PROVE Fits(L[j], j, T)
    <2>1. CASE j = k
      BY <1>1, <2>1
    <2>2. CASE j # k
      <3>1. j \in DOMAIN lists /\ L[j] = lists[j]
        BY <1>1, <2>2
      <3>2. Fits(lists[j], j, shown)
        BY <3>1 DEF SoundLists
      <3>3. \A x : x.key = j => (x \in T <=> x \in shown)
        BY <2>2 DEF Others
      <3>4. AsShown(lists[j], j, T)
        BY <3>2, <3>3 DEF Fits, AsShown
      <3>5. QED
        BY <3>1, <3>2, <3>4 DEF Fits
    <2>3. QED
      BY <2>1, <2>2
  <1>3. \A x \in T : x.key \in DOMAIN L
    BY <1>1 DEF Others, SoundLists
  <1>4. SoundLists(L, T)
    BY <1>1, <1>2, <1>3 DEF SoundLists, Others
  <1>5. QED
    BY <1>4 DEF L

\* What a request with the dataset ds does to the invariant.
LEMMA RequestSound ==
  ASSUME SoundInv, NEW ds, Sound(ds), Request(ds)
  PROVE  SoundInv'
  <1>1. data' = ds /\ kept' = kept /\ ops' = ops + 1
    BY DEF Request
  <1>2. QED
    BY <1>1 DEF SoundInv

LEMMA PutSound ==
  ASSUME SoundInv, NEW k \in Keys, NEW s, NEW T, Fits(s, k, T), Others(T, data.shown, k),
         Request([data EXCEPT !.lists = Put(@, k, s), !.shown = T])
  PROVE  SoundInv'
  <1> DEFINE L == Put(data.lists, k, s)
             ds == [data EXCEPT !.lists = L, !.shown = T]
  <1>1. SoundLists(L, T)
    BY PutLists DEF SoundInv, Sound
  <1> HIDE DEF L
  <1>2. /\ DOMAIN ds = Fields /\ ds.unboundNames = data.unboundNames
        /\ ds.customers = data.customers /\ ds.accounts = data.accounts /\ ds.lists = L /\ ds.shown = T
    BY DEF SoundInv, Sound
  <1>3. Request(ds)
    BY DEF L
  <1> HIDE DEF ds
  <1>4. Sound(ds)
    BY <1>1, <1>2 DEF SoundInv, Sound
  <1>5. QED
    BY <1>3, <1>4, RequestSound

LEMMA RecType == ASSUME SoundInv, NEW id \in Ids \cup {Only} PROVE Rec(id) \in Record /\ Rec(id).id = id
  BY DEF SoundInv, Rec, Record

LEMMA KeyType ==
  ASSUME NEW at \in Holders, NEW kind \in MetadataLists \cup TableLists \cup MemoryLists
  PROVE  <<at, kind>> \in Keys /\ <<at, kind>>[2] = kind
  BY DEF Keys

\* Kinds to which a request may add what it likes.
FreeLists == (MetadataLists \cup MemoryLists) \ {"beneficiaries"}

LEMMA FreeKinds == FreeLists \cap UniqueLists = {} /\ FreeLists \cup UniqueLists = MetadataLists \cup TableLists \cup MemoryLists
  BY DEF FreeLists, UniqueLists, MetadataLists, AccountLists, CustomerLists, MemoryLists, TableLists

LEMMA AddSound ==
  ASSUME SoundInv, NEW at \in Holders, NEW kind \in FreeLists, NEW id \in Ids, Add(at, kind, id)
  PROVE  SoundInv'
  <1> DEFINE k == <<at, kind>>
             r == Rec(id)
             T == Show(data.shown, k, r)
             s == Append(List(at, kind), r)
  <1>1. k \in Keys /\ k[2] \notin UniqueLists /\ r \in Record /\ data.shown \subseteq Shown
    BY KeyType, FreeKinds, RecType DEF SoundInv, Sound, SoundLists
  <1>2. Request([data EXCEPT !.lists = Put(@, k, s), !.shown = T])
    BY DEF Add, Change, SaveMetadata
  <1>3. Fits(List(at, kind), k, data.shown)
    BY ListFits DEF SoundInv
  <1> HIDE DEF k, r
  <1>4. Fits(s, k, T) /\ Others(T, data.shown, k)
    BY <1>1, <1>3, AppendFits, ShowOthers
  <1> HIDE DEF s, T
  <1>5. QED
    BY <1>1, <1>2, <1>4, PutSound

LEMMA SetSound ==
  ASSUME SoundInv, NEW at \in Holders, NEW kind \in MetadataLists, SetValue(at, kind)
  PROVE  SoundInv'
  <1> DEFINE k == <<at, kind>>
             s == <<Rec(Only)>>
             T == ShowAll(data.shown, k, s)
  <1>1. k \in Keys /\ s \in Seq(Record) /\ data.shown \subseteq Shown /\ DistinctIds(s)
    BY KeyType, RecType DEF SoundInv, Sound, SoundLists, DistinctIds
  <1>2. Request([data EXCEPT !.lists = Put(@, k, s), !.shown = T])
    BY DEF SetValue, SaveMetadata
  <1> HIDE DEF k, s
  <1>3. Fits(s, k, T) /\ Others(T, data.shown, k)
    BY <1>1, ShowAllFits, ShowAllOthers
  <1> HIDE DEF T
  <1>4. QED
    BY <1>1, <1>2, <1>3, PutSound

\* A record put in its place, or added.
LEMMA UpsertSound ==
  ASSUME SoundInv, NEW at \in Holders, NEW kind \in MetadataLists \cup TableLists \cup MemoryLists,
         NEW id \in Ids \cup {Only},
         Request([data EXCEPT !.lists = Put(@, <<at, kind>>, Upsert(List(at, kind), Rec(id))),
                              !.shown = Show(@, <<at, kind>>, Rec(id))])
  PROVE  SoundInv'
  <1> DEFINE k == <<at, kind>>
             r == Rec(id)
             T == Show(data.shown, k, r)
             s == Upsert(List(at, kind), r)
  <1>1. k \in Keys /\ r \in Record /\ data.shown \subseteq Shown
    BY KeyType, RecType DEF SoundInv, Sound, SoundLists
  <1>2. Request([data EXCEPT !.lists = Put(@, k, s), !.shown = T])
    OBVIOUS
  <1>3. Fits(List(at, kind), k, data.shown)
    BY ListFits DEF SoundInv
  <1> HIDE DEF k, r
  <1>4. Fits(s, k, T) /\ Others(T, data.shown, k)
    BY <1>1, <1>3, UpsertFits, ShowOthers
  <1> HIDE DEF s, T
  <1>5. QED
    BY <1>1, <1>2, <1>4, PutSound

LEMMA EscrowSound == SoundInv /\ PatchEscrowProjection => SoundInv'
  <1> SUFFICES ASSUME SoundInv, NEW a \in Accounts, NEW id \in Ids, NEW named \in BOOLEAN,
                      LET s == List(a, "escrowProjections")
                          target == IF named \/ s = <<>> THEN id ELSE s[1].id
                          i == Find(s, target)
                      IN  Change(a, "escrowProjections",
                                 IF i = 0 THEN Append(s, Rec(target)) ELSE [s EXCEPT ![i] = Rec(target)], Rec(target))
               PROVE  SoundInv'
    BY Zenon DEF PatchEscrowProjection
  <1> DEFINE s == List(a, "escrowProjections")
             target == IF named \/ s = <<>> THEN id ELSE s[1].id
  <1>1. target \in Ids \cup {Only}
    <2>1. s \in Seq(Record)
      BY ListFits DEF SoundInv, Fits
    <2> HIDE DEF s
    <2>2. s # <<>> => s[1] \in Record
      BY <2>1, LenProperties, EmptySeq
    <2>3. QED
      BY <2>2 DEF Record
  <1>2. Rec(target).id = target
    BY <1>1, RecType
  <1>3. Change(a, "escrowProjections", Upsert(s, Rec(target)), Rec(target))
    <2> HIDE DEF s
    <2>1. QED
      BY <1>2 DEF Upsert, s
  <1> HIDE DEF target
  <1>4. a \in Holders /\ "escrowProjections" \in MetadataLists
    BY DEF Holders, MetadataLists, AccountLists
  <1>5. QED
    BY <1>1, <1>3, <1>4, UpsertSound DEF Change, SaveMetadata

LEMMA DeleteStopSound ==
  ASSUME SoundInv, NEW kind \in {"stopCheckPayments", "stopAchPayments"}, DeleteStopPayments(kind)
  PROVE  SoundInv'
  <1>1. PICK a \in Accounts, id \in Ids :
          Request([data EXCEPT !.lists = Put(@, <<a, kind>>, RemoveAll(List(a, kind), id)),
                               !.shown = Hide(@, <<a, kind>>, id)])
    BY DEF DeleteStopPayments, SaveMetadata
  <1> DEFINE k == <<a, kind>>
             T == Hide(data.shown, k, id)
             s == RemoveAll(List(a, kind), id)
  <1>2. kind \in FreeLists /\ a \in Holders
    BY DEF FreeLists, MetadataLists, AccountLists, Holders
  <1>3. k \in Keys /\ k[2] \notin UniqueLists /\ data.shown \subseteq Shown
    BY <1>2, KeyType, FreeKinds DEF SoundInv, Sound, SoundLists
  <1>4. Request([data EXCEPT !.lists = Put(@, k, s), !.shown = T])
    BY <1>1
  <1>5. Fits(List(a, kind), k, data.shown)
    BY ListFits DEF SoundInv
  <1> HIDE DEF k
  <1>6. Fits(s, k, T)
    BY <1>3, <1>5, RemoveAllFits
  <1>7. Others(T, data.shown, k)
    BY <1>3 DEF Others, Hide
  <1> HIDE DEF s, T
  <1>8. QED
    BY <1>3, <1>4, <1>6, <1>7, PutSound

LEMMA DeleteSound ==
  ASSUME SoundInv, NEW at \in Holders, NEW kind \in UniqueLists, NEW id, Delete(at, kind, id)
  PROVE  SoundInv'
  <1> DEFINE k == <<at, kind>>
             T == Hide(data.shown, k, id)
             s == RemoveFirst(List(at, kind), id)
  <1>1. k \in Keys /\ k[2] \in UniqueLists /\ data.shown \subseteq Shown
    BY KeyType, FreeKinds DEF SoundInv, Sound, SoundLists
  <1>2. Request([data EXCEPT !.lists = Put(@, k, s), !.shown = T])
    BY DEF Delete
  <1>3. Fits(List(at, kind), k, data.shown)
    BY ListFits DEF SoundInv
  <1> HIDE DEF k
  <1>4. Fits(s, k, T)
    BY <1>1, <1>3, RemoveFirstFits
  <1>5. Others(T, data.shown, k)
    BY <1>1 DEF Others, Hide
  <1> HIDE DEF s, T
  <1>6. QED
    BY <1>1, <1>2, <1>4, <1>5, PutSound

LEMMA FieldsSound ==
  ASSUME SoundInv, NEW at \in Holders, NEW id1 \in Ids, NEW id2 \in Ids, UpsertUserDefinedFields(at, id1, id2)
  PROVE  SoundInv'
  <1> DEFINE k == <<at, "userDefinedFields">>
             T1 == Show(data.shown, k, Rec(id1))
             T2 == Show(T1, k, Rec(id2))
             s1 == Upsert(List(at, "userDefinedFields"), Rec(id1))
             s2 == Upsert(s1, Rec(id2))
  <1>1. k \in Keys /\ data.shown \subseteq Shown /\ Rec(id1) \in Record /\ Rec(id2) \in Record
    BY KeyType, RecType DEF TableLists, SoundInv, Sound, SoundLists
  <1>2. Request([data EXCEPT !.lists = Put(@, k, s2), !.shown = T2])
    BY DEF UpsertUserDefinedFields
  <1>3. Fits(List(at, "userDefinedFields"), k, data.shown)
    BY ListFits DEF SoundInv
  <1> HIDE DEF k
  <1>4. Fits(s1, k, T1) /\ Others(T1, data.shown, k)
    BY <1>1, <1>3, UpsertFits, ShowOthers
  <1> HIDE DEF s1, T1
  <1>5. Fits(s2, k, T2) /\ Others(T2, T1, k)
    BY <1>1, <1>4, UpsertFits, ShowOthers DEF Others
  <1> HIDE DEF s2, T2
  <1>6. Others(T2, data.shown, k)
    BY <1>4, <1>5 DEF Others
  <1>7. QED
    BY <1>1, <1>2, <1>5, <1>6, PutSound

LEMMA DocumentSound ==
  ASSUME SoundInv, NEW at \in Holders, NEW id \in Ids, CreateDocument(at, id)
  PROVE  SoundInv'
  BY UpsertSound DEF CreateDocument, TableLists

-----------------------------------------------------------------------------
(* Customers, accounts and the tenant as a whole *)

\* An address that no other customer has can be set.
LEMMA EmailSound ==
  ASSUME SoundInv, NEW c \in Customers, NEW e \in Emails, ~Taken(e, Customers \ {c}), NEW U \in SUBSET Customers,
         Request([data EXCEPT !.customers[c] = Normal[e], !.unboundNames = U])
  PROVE  SoundInv'
  <1> DEFINE C == [data.customers EXCEPT ![c] = Normal[e]]
             ds == [data EXCEPT !.customers = C, !.unboundNames = U]
  <1>0. SoundPeople(data.customers, data.accounts) /\ SoundLists(data.lists, data.shown)
    BY DEF SoundInv, Sound
  <1>1. Normal[e] \in Emails /\ Normal[Normal[e]] = Normal[e] /\ Normal[e] # Absent
    BY CustomersAssumption
  <1>2. C \in [Customers -> Emails \cup {Absent}] /\ C[c] = Normal[e] /\ \A d \in Customers \ {c} : C[d] = data.customers[d]
    BY <1>0, <1>1 DEF SoundPeople
  <1>3. \A d \in Customers : data.customers[d] # Absent => C[d] # Absent
    BY <1>1, <1>2
  <1>4. Request(ds)
    OBVIOUS
  <1> HIDE DEF C
  <1>5. \A a \in Accounts : data.accounts[a] # Absent => C[data.accounts[a].owner] # Absent
    <2>1. \A a \in Accounts : data.accounts[a] # Absent => data.accounts[a].owner \in Customers
      BY <1>0 DEF SoundPeople, Account
    <2>2. QED
      BY <1>0, <1>3, <2>1 DEF SoundPeople
  <1>6. \A d1, d2 \in Customers :
          (C[d1] # Absent /\ C[d2] # Absent /\ Normal[C[d1]] = Normal[C[d2]]) => d1 = d2
    <2> SUFFICES ASSUME NEW d1 \in Customers, NEW d2 \in Customers,
                        C[d1] # Absent, C[d2] # Absent, Normal[C[d1]] = Normal[C[d2]]
                 PROVE  d1 = d2
      OBVIOUS
    <2>0. \A d \in Customers \ {c} : data.customers[d] # Absent => Normal[data.customers[d]] # Normal[e]
      BY DEF Taken, Present
    <2>1. CASE d1 = c
      BY <1>1, <1>2, <2>0, <2>1
    <2>2. CASE d2 = c
      BY <1>1, <1>2, <2>0, <2>2
    <2>3. CASE d1 # c /\ d2 # c
      BY <1>0, <1>2, <2>3 DEF SoundPeople
    <2>4. QED
      BY <2>1, <2>2, <2>3
  <1>7. /\ DOMAIN ds = Fields /\ ds.unboundNames = U
        /\ ds.customers = C /\ ds.accounts = data.accounts /\ ds.lists = data.lists /\ ds.shown = data.shown
    BY DEF SoundInv, Sound
  <1> HIDE DEF ds
  <1>8. SoundPeople(C, data.accounts)
    BY <1>0, <1>2, <1>5, <1>6 DEF SoundPeople
  <1>9. Sound(ds)
    BY <1>0, <1>7, <1>8 DEF Sound
  <1>10. QED
    BY <1>4, <1>9, RequestSound

\* An account can be changed or added whose owner is there.
LEMMA AccountsSound ==
  ASSUME Sound(data), NEW a \in Accounts, NEW r \in Account, data.customers[r.owner] # Absent
  PROVE  SoundPeople(data.customers, [data.accounts EXCEPT ![a] = r])
  <1> DEFINE A == [data.accounts EXCEPT ![a] = r]
  <1>1. A \in [Accounts -> Account \cup {Absent}] /\ \A b \in Accounts : A[b] = IF b = a THEN r ELSE data.accounts[b]
    BY DEF Sound, SoundPeople
  <1> HIDE DEF A
  <1>2. SoundPeople(data.customers, A)
    BY <1>1 DEF Sound, SoundPeople
  <1>3. QED
    BY <1>2 DEF A

LEMMA AccountOf ==
  ASSUME Sound(data), NEW a \in Accounts, Exists(a), NEW status \in Statuses, NEW type \in Texts
  PROVE  /\ [data.accounts[a] EXCEPT !.status = status] \in Account
         /\ data.customers[[data.accounts[a] EXCEPT !.status = status].owner] # Absent
         /\ [data.accounts[a] EXCEPT !.status = status, !.type = type] \in Account
         /\ data.customers[[data.accounts[a] EXCEPT !.status = status, !.type = type].owner] # Absent
  <1>1. data.accounts[a] \in Account /\ data.customers[data.accounts[a].owner] # Absent
    BY DEF Sound, SoundPeople, Exists
  <1>2. /\ [data.accounts[a] EXCEPT !.status = status] \in Account
        /\ [data.accounts[a] EXCEPT !.status = status].owner = data.accounts[a].owner
        /\ [data.accounts[a] EXCEPT !.status = status, !.type = type] \in Account
        /\ [data.accounts[a] EXCEPT !.status = status, !.type = type].owner = data.accounts[a].owner
    BY <1>1 DEF Account
  <1>3. QED
    BY <1>1, <1>2

LEMMA CreateAccountSound == SoundInv /\ CreateTenantAccount => SoundInv'
  <1> SUFFICES ASSUME SoundInv, CreateTenantAccount PROVE SoundInv'
    OBVIOUS
  <1>1. PICK a \in Accounts, c \in Customers, currency \in Texts :
          Present(c) /\ Request([data EXCEPT !.accounts[a] = NewAccount(c, currency)])
    BY DEF CreateTenantAccount
  <1> DEFINE r == NewAccount(c, currency)
             ds == [data EXCEPT !.accounts[a] = r]
  <1>2. r \in Account /\ r.owner = c
    BY DEF Account, Statuses, Texts, NewAccount
  <1>3. Request(ds)
    BY <1>1
  <1> HIDE DEF r
  <1>4. /\ DOMAIN ds = Fields /\ ds.customers = data.customers /\ ds.unboundNames = data.unboundNames
        /\ ds.accounts = [data.accounts EXCEPT ![a] = r] /\ ds.lists = data.lists /\ ds.shown = data.shown
    BY DEF SoundInv, Sound
  <1> HIDE DEF ds
  <1>5. Sound(ds)
    BY <1>1, <1>2, <1>4, AccountsSound DEF SoundInv, Sound, Present
  <1>6. QED
    BY <1>3, <1>5, RequestSound

LEMMA CloseSound == SoundInv /\ (CloseAccount \/ ReopenAccount) => SoundInv'
  <1> SUFFICES ASSUME SoundInv, CloseAccount \/ ReopenAccount PROVE SoundInv'
    OBVIOUS
  <1>1. PICK a \in Accounts, status \in Statuses : Exists(a) /\ Request([data EXCEPT !.accounts[a].status = status])
    BY DEF CloseAccount, ReopenAccount, Statuses
  <1> DEFINE r == [data.accounts[a] EXCEPT !.status = status]
             ds == [data EXCEPT !.accounts[a].status = status]
  <1>2. r \in Account /\ data.customers[r.owner] # Absent
    BY <1>1, AccountOf DEF SoundInv, Texts
  <1>3. /\ DOMAIN ds = Fields /\ ds.customers = data.customers /\ ds.unboundNames = data.unboundNames
        /\ ds.accounts = [data.accounts EXCEPT ![a] = r] /\ ds.lists = data.lists /\ ds.shown = data.shown
    BY DEF SoundInv, Sound
  <1> HIDE DEF r
  <1>4. Request(ds)
    BY <1>1
  <1> HIDE DEF ds
  <1>5. Sound(ds)
    BY <1>2, <1>3, AccountsSound DEF SoundInv, Sound
  <1>6. QED
    BY <1>4, <1>5, RequestSound

\* Metadata of which one list is another.
LEMMA PatchListSound ==
  ASSUME SoundInv, NEW a \in Accounts, NEW kind \in PatchedLists, NEW s \in {<<>>} \cup {<<Rec(id)>> : id \in Ids},
         NEW A, SoundPeople(data.customers, A),
         Request([[data EXCEPT !.accounts = A] EXCEPT !.lists = Put(@, <<a, kind>>, s), !.shown = ShowAll(@, <<a, kind>>, s)])
  PROVE  SoundInv'
  <1> DEFINE k == <<a, kind>>
             T == ShowAll(data.shown, k, s)
             L == Put(data.lists, k, s)
             ds == [data EXCEPT !.accounts = A, !.lists = L, !.shown = T]
  <1>1. DOMAIN data = Fields
    BY DEF SoundInv, Sound
  <1>2. Request(ds)
    BY <1>1 DEF Fields
  <1>3. k \in Keys /\ data.shown \subseteq Shown
    BY KeyType, CustomersAssumption DEF Holders, MetadataLists, SoundInv, Sound, SoundLists
  <1>4. s \in Seq(Record) /\ DistinctIds(s)
    <2>1. CASE s = <<>>
      BY <2>1 DEF DistinctIds
    <2>2. ASSUME NEW id \in Ids, s = <<Rec(id)>> PROVE s \in Seq(Record) /\ DistinctIds(s)
      BY <2>2, RecType DEF DistinctIds
    <2>3. QED
      BY <2>1, <2>2
  <1> HIDE DEF k
  <1>5. Fits(s, k, T) /\ Others(T, data.shown, k)
    BY <1>3, <1>4, ShowAllFits, ShowAllOthers
  <1> HIDE DEF T
  <1>6. SoundLists(L, T)
    BY <1>3, <1>5, PutLists DEF SoundInv, Sound
  <1> HIDE DEF L
  <1>7. /\ DOMAIN ds = Fields /\ ds.customers = data.customers /\ ds.unboundNames = data.unboundNames
        /\ ds.accounts = A /\ ds.lists = L /\ ds.shown = T
    BY DEF SoundInv, Sound, Fields
  <1> HIDE DEF ds
  <1>8. Sound(ds)
    BY <1>6, <1>7 DEF SoundInv, Sound
  <1>9. QED
    BY <1>2, <1>8, RequestSound

\* PATCH of an account changes its status and type, and a list of its metadata
\* or none.
LEMMA PatchSound == SoundInv /\ PatchAccount => SoundInv'
  <1> SUFFICES ASSUME SoundInv, PatchAccount PROVE SoundInv'
    OBVIOUS
  <1>1. PICK a \in Accounts, status \in Statuses, type \in Texts :
          /\ Exists(a)
          /\ \/ Request(Patched(a, status, type))
             \/ \E kind \in PatchedLists, s \in {<<>>} \cup {<<Rec(id)>> : id \in Ids} :
                   Request([Patched(a, status, type) EXCEPT !.lists = Put(@, <<a, kind>>, s),
                                                            !.shown = ShowAll(@, <<a, kind>>, s)])
    BY DEF PatchAccount, Belongs
  <1> DEFINE r0 == [data.accounts[a] EXCEPT !.status = status, !.type = type]
             A == [data.accounts EXCEPT ![a] = r0]
             patched == [data EXCEPT !.accounts = A]
  <1>2. Patched(a, status, type) = patched
    BY DEF Patched
  <1>3. r0 \in Account /\ data.customers[r0.owner] # Absent
    BY <1>1, AccountOf DEF SoundInv
  <1>4. SoundPeople(data.customers, A)
    <2> HIDE DEF r0
    <2>1. QED
      BY <1>3, AccountsSound DEF SoundInv
  <1>5. DOMAIN data = Fields /\ data.unboundNames \subseteq Customers /\ SoundLists(data.lists, data.shown)
    BY DEF SoundInv, Sound
  <1> HIDE DEF A
  <1>6. CASE Request(patched)
    <2>1. /\ DOMAIN patched = Fields /\ patched.customers = data.customers /\ patched.unboundNames = data.unboundNames
          /\ patched.accounts = A /\ patched.lists = data.lists /\ patched.shown = data.shown
      BY <1>5 DEF Fields
    <2> HIDE DEF patched
    <2>2. Sound(patched)
      BY <1>4, <1>5, <2>1 DEF Sound
    <2>3. QED
      BY <1>6, <2>2, RequestSound
  <1>7. ASSUME NEW kind \in PatchedLists, NEW s \in {<<>>} \cup {<<Rec(id)>> : id \in Ids},
               Request([patched EXCEPT !.lists = Put(@, <<a, kind>>, s), !.shown = ShowAll(@, <<a, kind>>, s)])
        PROVE  SoundInv'
    BY <1>4, <1>5, <1>7, PatchListSound DEF SoundInv
  <1>8. QED
    BY <1>1, <1>2, <1>6, <1>7

\* Some kinds of lists, with what is shown of them.
LEMMA OfSound ==
  ASSUME NEW lists, NEW shown, SoundLists(lists, shown), NEW kinds
  PROVE  SoundLists(Of(lists, kinds), ShownOf(shown, kinds))
  <1> DEFINE L == Of(lists, kinds)
             T == ShownOf(shown, kinds)
  <1>1. DOMAIN L = {k \in DOMAIN lists : k[2] \in kinds} /\ \A k \in DOMAIN L : L[k] = lists[k]
    BY DEF Of, Restrict
  <1>2. T = {x \in shown : x.key[2] \in kinds}
    BY DEF ShownOf
  <1> HIDE DEF L, T
  <1>3. ASSUME NEW k \in DOMAIN L PROVE Fits(L[k], k, T)
    <2>1. Fits(lists[k], k, shown) /\ L[k] = lists[k] /\ k[2] \in kinds
      BY <1>1 DEF SoundLists
    <2>2. \A x : x.key = k => (x \in T <=> x \in shown)
      BY <1>2, <2>1
    <2>3. AsShown(lists[k], k, T)
      BY <2>1, <2>2 DEF Fits, AsShown
    <2>4. QED
      BY <2>1, <2>3 DEF Fits
  <1>4. SoundLists(L, T)
    BY <1>1, <1>2, <1>3 DEF SoundLists
  <1>5. QED
    BY <1>4 DEF L, T

LEMMA ResetSound == SoundInv /\ ResetTenantDataset => SoundInv'
  <1> SUFFICES ASSUME SoundInv, ResetTenantDataset PROVE SoundInv'
    OBVIOUS
  <1> DEFINE C == [c \in Customers |-> Absent]
             A == [a \in Accounts |-> Absent]
             L == Of(data.lists, TableLists \cup MemoryLists)
             T == ShownOf(data.shown, TableLists \cup MemoryLists)
             ds == [data EXCEPT !.customers = C, !.unboundNames = {}, !.accounts = A, !.lists = L, !.shown = T]
  <1>1. SoundLists(L, T)
    BY OfSound DEF SoundInv, Sound
  <1>2. SoundPeople(C, A)
    BY DEF SoundPeople
  <1>3. Request(ds)
    BY DEF ResetTenantDataset
  <1> HIDE DEF L, T, C, A
  <1>4. /\ DOMAIN ds = Fields /\ ds.unboundNames = {}
        /\ ds.customers = C /\ ds.accounts = A /\ ds.lists = L /\ ds.shown = T
    BY DEF SoundInv, Sound
  <1> HIDE DEF ds
  <1>5. Sound(ds)
    BY <1>1, <1>2, <1>4 DEF Sound
  <1>6. QED
    BY <1>3, <1>5, RequestSound

\* A copy of the mock data, with what the Maps hold.
LEMMA CloneSound ==
  ASSUME NEW lists, NEW shown, SoundLists(lists, shown)
  PROVE  Sound(CloneDataset(lists, shown))
  <1> DEFINE C == [c \in Customers |-> IF c \in MockCustomers THEN MockEmail[c] ELSE Absent]
             A == [a \in Accounts |-> IF a \in DOMAIN MockOwner THEN NewAccount(MockOwner[a], "text") ELSE Absent]
             L == Of(lists, MemoryLists)
             T == ShownOf(shown, MemoryLists)
             ds == [customers |-> C, unboundNames |-> {}, accounts |-> A, lists |-> L, shown |-> T]
  <1>1. SoundLists(L, T)
    BY OfSound
  <1>2. C \in [Customers -> Emails \cup {Absent}]
    BY CustomersAssumption
  <1>3. A \in [Accounts -> Account \cup {Absent}]
    BY CustomersAssumption DEF Account, Statuses, Texts, NewAccount
  <1>4. \A a \in Accounts : A[a] # Absent => C[A[a].owner] # Absent
    BY CustomersAssumption DEF NewAccount
  <1>5. \A c, d \in Customers : (C[c] # Absent /\ C[d] # Absent /\ Normal[C[c]] = Normal[C[d]]) => c = d
    BY CustomersAssumption
  <1>6. ds.customers = C /\ ds.unboundNames = {} /\ ds.accounts = A /\ ds.lists = L /\ ds.shown = T
    OBVIOUS
  <1>7. CloneDataset(lists, shown) = ds
    BY DEF CloneDataset
  <1> HIDE DEF C, A, L, T
  <1>8. DOMAIN ds = Fields
    BY DEF Fields
  <1>9. SoundPeople(C, A)
    BY <1>2, <1>3, <1>4, <1>5 DEF SoundPeople
  <1> HIDE DEF ds
  <1>10. QED
    BY <1>1, <1>6, <1>7, <1>8, <1>9 DEF Sound

LEMMA FreshSound == Sound(CloneDataset(<<>>, {}))
  <1>1. DOMAIN <<>> = {}
    OBVIOUS
  <1>2. SoundLists(<<>>, {})
    BY <1>1 DEF SoundLists
  <1>3. QED
    BY <1>2, CloneSound

\* What is stored is the dataset but for the Maps.
LEMMA SavedSound ==
  ASSUME Sound(data)
  PROVE  Sound(Saved)
  <1> DEFINE L == Of(data.lists, MetadataLists \cup TableLists)
             T == ShownOf(data.shown, MetadataLists \cup TableLists)
             ds == [data EXCEPT !.lists = L, !.shown = T]
  <1>1. SoundLists(L, T)
    BY OfSound DEF Sound
  <1>2. Saved = ds
    BY DEF Saved
  <1> HIDE DEF L, T
  <1>3. /\ DOMAIN ds = Fields /\ ds.unboundNames = data.unboundNames
        /\ ds.customers = data.customers /\ ds.accounts = data.accounts /\ ds.lists = L /\ ds.shown = T
    BY DEF Sound
  <1> HIDE DEF ds
  <1>4. QED
    BY <1>1, <1>2, <1>3 DEF Sound

-----------------------------------------------------------------------------
(* The invariant of the dataset *)

\* Requests that add a record to a list or set a value.
MetadataRequest ==
    \/ PostStopCheckPayment \/ PostCustomerStopCheckPayment \/ PostStopAchPayment
    \/ PostEscrowDisbursement \/ PostEscrowProjection
    \/ PostLoanChargeAssessment \/ PostRemoteDeposit \/ PostFutureRatePaymentChange \/ PostAccountNote
    \/ PatchRewardProgramLevel \/ PostReservePremium \/ PostOriginalLtv \/ GetStatements \/ GetStatement
    \/ UpdateOlbFlag \/ PostCreditCard \/ PostCollateral \/ UploadFile

LEMMA MetadataSound == SoundInv /\ MetadataRequest => SoundInv'
  <1> SUFFICES ASSUME SoundInv, MetadataRequest PROVE SoundInv'
    OBVIOUS
  <1>1. Customers \subseteq Holders /\ Accounts \subseteq Holders
    BY DEF Holders
  <1>2. /\ {"stopCheckPayments", "stopAchPayments", "escrowDisbursements", "escrowProjections",
            "loanChargeAssessment", "remoteDeposits", "statements", "futureRatePaymentChanges",
            "accountNotes", "creditCards", "collaterals", "uploads"} \subseteq FreeLists
        /\ {"rewardProgramLevel", "reservePremium", "originalLtv", "olbEnabled"} \subseteq MetadataLists
    BY DEF FreeLists, MetadataLists, AccountLists, CustomerLists, MemoryLists
  <1>3. CASE PostStopCheckPayment \/ PostCustomerStopCheckPayment \/ PostStopAchPayment
    BY <1>1, <1>2, <1>3, AddSound DEF PostStopCheckPayment, PostCustomerStopCheckPayment, PostStopAchPayment
  <1>4. CASE PostEscrowDisbursement \/ PostEscrowProjection \/ GetStatements \/ GetStatement
    BY <1>1, <1>2, <1>4, AddSound DEF PostEscrowDisbursement, PostEscrowProjection, GetStatements, GetStatement
  <1>5. CASE PostLoanChargeAssessment \/ PostRemoteDeposit \/ PostFutureRatePaymentChange \/ PostAccountNote
    BY <1>1, <1>2, <1>5, AddSound
       DEF PostLoanChargeAssessment, PostRemoteDeposit, PostFutureRatePaymentChange, PostAccountNote
  <1>6. CASE PatchRewardProgramLevel \/ PostReservePremium \/ PostOriginalLtv \/ UpdateOlbFlag
    BY <1>1, <1>2, <1>6, SetSound DEF PatchRewardProgramLevel, PostReservePremium, PostOriginalLtv, UpdateOlbFlag
  <1>7. CASE PostCreditCard \/ PostCollateral \/ UploadFile
    BY <1>1, <1>2, <1>7, AddSound DEF PostCreditCard, PostCollateral, UploadFile
  <1>8. QED
    BY <1>3, <1>4, <1>5, <1>6, <1>7 DEF MetadataRequest

\* Requests for a list in which an id names one record.
UniqueRequest ==
    \/ PostCustomerUserDefinedFields \/ PostAccountUserDefinedFields \/ DeleteAccountUserDefinedField
    \/ PostCustomerDocument \/ GetCustomerDocument \/ PatchCustomerDocument \/ DeleteCustomerDocument
    \/ PostAccountDocument \/ GetAccountDocument \/ PatchAccountDocument \/ DeleteAccountDocument
    \/ LinkBeneficiaryOwner \/ UnlinkBeneficiaryOwner

LEMMA UniqueSound == SoundInv /\ UniqueRequest => SoundInv'
  <1> SUFFICES ASSUME SoundInv, UniqueRequest PROVE SoundInv'
    OBVIOUS
  <1>0. Customers \subseteq Holders /\ Accounts \subseteq Holders
    BY DEF Holders
  <1>1. CASE PostCustomerUserDefinedFields \/ PostAccountUserDefinedFields
    BY <1>0, <1>1, FieldsSound DEF PostCustomerUserDefinedFields, PostAccountUserDefinedFields
  <1>2. CASE DeleteAccountUserDefinedField \/ DeleteCustomerDocument \/ DeleteAccountDocument \/ UnlinkBeneficiaryOwner
    <2>1. {"userDefinedFields", "documents", "beneficiaries"} \subseteq UniqueLists
      BY DEF UniqueLists, TableLists
    <2>2. QED
      BY <1>0, <1>2, <2>1, DeleteSound
         DEF DeleteAccountUserDefinedField, DeleteCustomerDocument, DeleteAccountDocument, UnlinkBeneficiaryOwner
  <1>3. CASE PostCustomerDocument \/ PostAccountDocument
    BY <1>0, <1>3, DocumentSound DEF PostCustomerDocument, PostAccountDocument
  <1>4. CASE GetCustomerDocument \/ GetAccountDocument
    BY <1>0, <1>4, DocumentSound DEF GetCustomerDocument, GetAccountDocument, GetDocument
  <1>5. CASE PatchCustomerDocument \/ PatchAccountDocument
    BY <1>0, <1>5, DocumentSound DEF PatchCustomerDocument, PatchAccountDocument, PatchDocument
  <1>6. CASE LinkBeneficiaryOwner
    <2>1. "beneficiaries" \in MemoryLists
      BY DEF MemoryLists
    <2>2. QED
      BY <1>0, <1>6, <2>1, UpsertSound DEF LinkBeneficiaryOwner, Change, SaveMetadata
  <1>7. QED
    BY <1>1, <1>2, <1>3, <1>4, <1>5, <1>6 DEF UniqueRequest

\* Debit cards are no part of the dataset.
LEMMA CardRequestKeeps == DebitCardRequest => /\ UNCHANGED <<workload, data, kept, used, crashes>>
                                              /\ ops < MaxOps /\ ops' = ops + 1
  <1> SUFFICES ASSUME DebitCardRequest
               PROVE  UNCHANGED <<workload, data, kept, used, crashes>> /\ ops < MaxOps /\ ops' = ops + 1
    OBVIOUS
  <1> USE DEF CardRequest
  <1>1. CASE ListDebitCards
    BY <1>1 DEF ListDebitCards
  <1>2. CASE PostDebitCard
    BY <1>2 DEF PostDebitCard
  <1>3. ASSUME NEW status, SetCardStatus(status)
        PROVE  UNCHANGED <<workload, data, kept, used, crashes>> /\ ops < MaxOps /\ ops' = ops + 1
    BY <1>3, Zenon DEF SetCardStatus
  <1>4. ASSUME NEW status, SetStatusByNumber(status)
        PROVE  UNCHANGED <<workload, data, kept, used, crashes>> /\ ops < MaxOps /\ ops' = ops + 1
    BY <1>4, Zenon DEF SetStatusByNumber
  <1>5. QED
    BY <1>1, <1>2, <1>3, <1>4
       DEF DebitCardRequest, ActivateCard, FreezeCard, UnfreezeCard, ActivateCardByCardNumber, UpdateStatusByCardNumber

LEMMA NextSound == SoundInv /\ [Next]_vars => SoundInv'
  <1> SUFFICES ASSUME SoundInv, [Next]_vars PROVE SoundInv'
    OBVIOUS
  <1>1. CASE MetadataRequest \/ UniqueRequest \/ PatchEscrowProjection
    BY <1>1, MetadataSound, UniqueSound, EscrowSound
  <1>2. CASE DebitCardRequest
    BY <1>2, CardRequestKeeps DEF SoundInv
  <1>3. CASE DeleteStopCheckPayment \/ DeleteStopAchPayment
    BY <1>3, DeleteStopSound DEF DeleteStopCheckPayment, DeleteStopAchPayment
  <1>4. CASE CreateTenantCustomer
    <2>1. PICK c \in Customers, e \in Emails, unbound \in SUBSET Customers :
            /\ ~Taken(e, Customers)
            /\ Request([data EXCEPT !.customers[c] = Normal[e], !.unboundNames = @ \cup unbound])
      BY <1>4 DEF CreateTenantCustomer
    <2>2. ~Taken(e, Customers \ {c})
      BY <2>1 DEF Taken
    <2>3. data.unboundNames \cup unbound \in SUBSET Customers
      BY DEF SoundInv, Sound
    <2>4. QED
      BY <2>1, <2>2, <2>3, EmailSound
  <1>5. CASE UpdateTenantCustomer
    <2>1. PICK c \in Customers, renamed \in SUBSET Customers :
            \/ Request([data EXCEPT !.unboundNames = @ \ renamed])
            \/ \E e \in Emails :
                  /\ ~Taken(e, Customers \ {c})
                  /\ Request([data EXCEPT !.customers[c] = Normal[e], !.unboundNames = @ \ renamed])
      BY <1>5 DEF UpdateTenantCustomer
    <2> DEFINE U == data.unboundNames \ renamed
               ds == [data EXCEPT !.unboundNames = U]
    <2>2. U \in SUBSET Customers
      BY DEF SoundInv, Sound
    <2> HIDE DEF U
    <2>3. CASE Request(ds)
      <3>1. /\ DOMAIN ds = Fields /\ ds.unboundNames = U
            /\ ds.customers = data.customers /\ ds.accounts = data.accounts /\ ds.lists = data.lists /\ ds.shown = data.shown
        BY DEF SoundInv, Sound, Fields
      <3> HIDE DEF ds
      <3>2. Sound(ds)
        BY <2>2, <3>1 DEF SoundInv, Sound
      <3>3. QED
        BY <2>3, <3>2, RequestSound
    <2>4. ASSUME NEW e \in Emails, ~Taken(e, Customers \ {c}),
                 Request([data EXCEPT !.customers[c] = Normal[e], !.unboundNames = U])
          PROVE  SoundInv'
      BY <2>2, <2>4, EmailSound
    <2>5. QED
      BY <2>1, <2>3, <2>4 DEF U
  <1>6. CASE CreateTenantAccount \/ CloseAccount \/ ReopenAccount \/ PatchAccount
    BY <1>6, CreateAccountSound, CloseSound, PatchSound
  <1>7. CASE ResetTenantDataset
    BY <1>7, ResetSound
  <1>8. CASE SeedTenantDataset
    <2>1. Sound(CloneDataset(data.lists, data.shown)) /\ Request(CloneDataset(data.lists, data.shown))
      BY <1>8, CloneSound DEF SeedTenantDataset, SoundInv, Sound
    <2>2. QED
      BY <2>1, RequestSound
  <1>9. CASE Flush
    <2>1. kept' = Saved /\ data' = data /\ ops' = ops /\ Sound(Saved)
      BY <1>9, SavedSound DEF Flush, SoundInv
    <2>2. QED
      BY <2>1 DEF SoundInv
  <1>10. CASE Restart
    <2>1. data' = Loaded /\ kept' = kept /\ ops' = ops
      BY <1>10 DEF Restart
    <2>2. Sound(Loaded)
      BY FreshSound DEF Loaded, SoundInv
    <2>3. QED
      BY <2>1, <2>2 DEF SoundInv
  <1>11. CASE UNCHANGED vars
    BY <1>11 DEF vars, SoundInv
  <1>12. QED
    BY <1>1, <1>2, <1>3, <1>4, <1>5, <1>6, <1>7, <1>8, <1>9, <1>10, <1>11
       DEF Next, CustomerRequest, AccountRequest, MetadataRequest, UniqueRequest

LEMMA SpecSound == Spec => []SoundInv
  <1>1. Init => SoundInv
    BY FreshSound DEF Init, SoundInv
  <1>2. QED
    BY <1>1, NextSound, PTL DEF Spec

-----------------------------------------------------------------------------
(* Debit cards *)

CardStatuses == {"active", "frozen", "inactive"}

CardType ==
    /\ cards \in [Customers -> Seq(Card)]
    /\ cardOrder \in Seq(Customers)
    /\ \A i, j \in DOMAIN cardOrder : cardOrder[i] = cardOrder[j] => i = j
    /\ cardsShown \subseteq [customer : Customers, id : CardIds, status : CardStatuses]

CardInv == CardType /\ CardsAsShown

\* A customer gets one place in the order of the Map.
LEMMA OrderKept ==
  ASSUME CardType, NEW c \in Customers, cardOrder' = CardOrderWith(c)
  PROVE  /\ cardOrder' \in Seq(Customers)
         /\ \A i, j \in DOMAIN cardOrder' : cardOrder'[i] = cardOrder'[j] => i = j
  <1> DEFINE N == Len(cardOrder)
             u == Append(cardOrder, c)
  <1>1. CASE c \in Range(cardOrder)
    BY <1>1 DEF CardOrderWith, CardType
  <1>2. CASE c \notin Range(cardOrder)
    <2>1. /\ N \in Nat /\ DOMAIN cardOrder = 1..N /\ u \in Seq(Customers) /\ DOMAIN u = 1..(N + 1)
          /\ u[N + 1] = c /\ \A i \in 1..N : u[i] = cardOrder[i]
      BY AppendProperties, LenProperties DEF CardType
    <2>2. \A i \in 1..N : cardOrder[i] # c
      BY <1>2, <2>1 DEF Range
    <2>3. cardOrder' = u
      BY <1>2 DEF CardOrderWith
    <2> HIDE DEF N, u
    <2>4. \A i, j \in 1..(N + 1) : u[i] = u[j] => i = j
      <3>1. \A i, j \in 1..N : cardOrder[i] = cardOrder[j] => i = j
        BY <2>1 DEF CardType
      <3>2. \A i \in 1..(N + 1) : i \in 1..N \/ i = N + 1
        BY <2>1
      <3>3. QED
        BY <2>1, <2>2, <3>1, <3>2, Zenon
    <2>5. QED
      BY <2>1, <2>3, <2>4
  <1>3. QED
    BY <1>1, <1>2

\* Customer c's cards become s, in which the card p has the id and the status
\* of the response and the others are as they were.
LEMMA CardsKept ==
  ASSUME CardInv, NEW c \in Customers, NEW s \in Seq(Card), NEW p \in DOMAIN s,
         NEW id \in CardIds, NEW status \in CardStatuses,
         DOMAIN cards[c] \subseteq DOMAIN s, DOMAIN s \subseteq DOMAIN cards[c] \cup {p},
         s[p].id = id, s[p].status = status,
         \A j \in DOMAIN cards[c] : s[j].id = cards[c][j].id,
         \A j \in DOMAIN cards[c] : j # p => s[j] = cards[c][j],
         CardRequest(c, [cards EXCEPT ![c] = s], id, status)
  PROVE  CardInv'
  <1> DEFINE now == [customer |-> c, id |-> id, status |-> status]
             T == {x \in cardsShown : x.customer # c \/ x.id # id} \cup {now}
             C == [cards EXCEPT ![c] = s]
  <1>1. cards' = C /\ cardOrder' = CardOrderWith(c) /\ cardsShown' = T
    BY DEF CardRequest
  <1>2. now \in [customer : Customers, id : CardIds, status : CardStatuses]
        /\ now.customer = c /\ now.id = id /\ now.status = status
    OBVIOUS
  <1>3. C \in [Customers -> Seq(Card)] /\ C[c] = s /\ \A d \in Customers : d # c => C[d] = cards[d]
    BY DEF CardInv, CardType
  <1>4. \A d \in Customers : \A j \in DOMAIN cards[d] : j \in DOMAIN C[d] /\ C[d][j].id = cards[d][j].id
    BY <1>3
  <1> HIDE DEF C, now
  <1>5. CardType'
    <2>1. /\ cardOrder' \in Seq(Customers)
          /\ \A i, j \in DOMAIN cardOrder' : cardOrder'[i] = cardOrder'[j] => i = j
      BY <1>1, OrderKept DEF CardInv
    <2>2. T \subseteq [customer : Customers, id : CardIds, status : CardStatuses]
      BY <1>2 DEF CardInv, CardType
    <2> HIDE DEF T
    <2>3. QED
      BY <1>1, <1>3, <2>1, <2>2 DEF CardType
  <1>6. ASSUME \A d \in Customers : DistinctIds(C[d])
        PROVE  /\ \A d \in Customers : \A j \in DOMAIN C[d] :
                     [customer |-> d, id |-> C[d][j].id, status |-> C[d][j].status] \in T
               /\ \A x \in T : \E j \in DOMAIN C[x.customer] : C[x.customer][j].id = x.id
    <2>1. \A d \in Customers : DistinctIds(cards[d])
      BY <1>4, <1>6 DEF DistinctIds
    <2>2. /\ \A d \in Customers : \A j \in DOMAIN cards[d] :
                [customer |-> d, id |-> cards[d][j].id, status |-> cards[d][j].status] \in cardsShown
          /\ \A x \in cardsShown : \E j \in DOMAIN cards[x.customer] : cards[x.customer][j].id = x.id
      BY <2>1 DEF CardInv, CardsAsShown
    <2>3. ASSUME NEW d \in Customers, NEW j \in DOMAIN C[d]
          PROVE  [customer |-> d, id |-> C[d][j].id, status |-> C[d][j].status] \in T
      <3>1. CASE d = c /\ j = p
        BY <1>3, <3>1 DEF now
      <3>2. CASE d = c /\ j # p
        <4>1. j \in DOMAIN cards[c] /\ C[c][j] = cards[c][j]
          BY <1>3, <3>2
        <4>2. cards[c][j].id # id
          BY <1>3, <1>6, <3>2, <4>1 DEF DistinctIds
        <4> DEFINE x == [customer |-> d, id |-> C[d][j].id, status |-> C[d][j].status]
        <4>3. x \in cardsShown /\ x.id # id
          BY <2>2, <3>2, <4>1, <4>2
        <4> HIDE DEF x
        <4>4. x \in T
          BY <4>3
        <4>5. QED
          BY <4>4 DEF x
      <3>3. CASE d # c
        <4> DEFINE x == [customer |-> d, id |-> C[d][j].id, status |-> C[d][j].status]
        <4>1. x \in cardsShown /\ x.customer # c
          BY <1>3, <2>2, <3>3
        <4> HIDE DEF x
        <4>2. x \in T
          BY <4>1
        <4>3. QED
          BY <4>2 DEF x
      <3>4. QED
        BY <3>1, <3>2, <3>3
    <2>4. ASSUME NEW x \in T PROVE \E j \in DOMAIN C[x.customer] : C[x.customer][j].id = x.id
      <3>1. CASE x = now
        BY <1>2, <1>3, <3>1
      <3>2. CASE x # now
        <4>1. x \in cardsShown /\ x.customer \in Customers
          BY <3>2 DEF CardInv, CardType
        <4>2. QED
          BY <1>4, <2>2, <4>1
      <3>3. QED
        BY <3>1, <3>2
    <2>5. QED
      BY <2>3, <2>4
  <1> HIDE DEF T
  <1>7. CardsAsShown'
    BY <1>1, <1>6 DEF CardsAsShown, DistinctIds
  <1>8. QED
    BY <1>5, <1>7 DEF CardInv

\* A new card
LEMMA CardAdded ==
  ASSUME CardInv, NEW c \in Customers, NEW id \in CardIds, NEW n \in Numbers, NEW status \in CardStatuses,
         CardRequest(c, [cards EXCEPT ![c] = Append(@, [id |-> id, number |-> n, status |-> status])], id, status)
  PROVE  CardInv'
  <1> DEFINE r == [id |-> id, number |-> n, status |-> status]
             N == Len(cards[c])
             s == Append(cards[c], r)
  <1>1. r \in Card /\ r.id = id /\ r.status = status
    BY DEF Card, CardStatuses
  <1>2. cards[c] \in Seq(Card)
    BY DEF CardInv, CardType
  <1>3. [cards EXCEPT ![c] = Append(@, r)] = [cards EXCEPT ![c] = s]
    BY DEF CardInv, CardType
  <1>4. CardRequest(c, [cards EXCEPT ![c] = s], id, status)
    BY <1>3
  <1> HIDE DEF r
  <1>5. /\ N \in Nat /\ DOMAIN cards[c] = 1..N /\ s \in Seq(Card) /\ DOMAIN s = 1..(N + 1)
        /\ s[N + 1] = r /\ \A i \in 1..N : s[i] = cards[c][i]
    BY <1>1, <1>2, AppendProperties, LenProperties
  <1> HIDE DEF s, N
  <1>6. N + 1 \in DOMAIN s /\ DOMAIN s \subseteq DOMAIN cards[c] \cup {N + 1} /\ DOMAIN cards[c] \subseteq DOMAIN s
    BY <1>5
  <1>7. QED
    BY <1>1, <1>4, <1>5, <1>6, CardsKept

\* A new status
LEMMA CardUpdated ==
  ASSUME CardInv, NEW c \in Customers, NEW i \in DOMAIN cards[c], NEW status \in CardStatuses, NEW id, id = cards[c][i].id,
         CardRequest(c, [cards EXCEPT ![c][i].status = status], id, status)
  PROVE  CardInv'
  <1> DEFINE r == [cards[c][i] EXCEPT !.status = status]
             s == [cards[c] EXCEPT ![i] = r]
  <1>1. cards[c] \in Seq(Card) /\ DOMAIN cards[c] = 1..Len(cards[c])
    BY LenProperties DEF CardInv, CardType
  <1>2. cards[c][i] \in Card
    BY <1>1, LenProperties
  <1>3. r \in Card /\ r.id = id /\ r.status = status /\ id \in CardIds
    BY <1>2 DEF Card, CardStatuses
  <1>4. [cards EXCEPT ![c][i].status = status] = [cards EXCEPT ![c] = s]
    BY DEF CardInv, CardType
  <1>5. CardRequest(c, [cards EXCEPT ![c] = s], id, status)
    BY <1>4
  <1> HIDE DEF r
  <1>6. s \in Seq(Card) /\ DOMAIN s = DOMAIN cards[c] /\ s[i] = r /\ \A j \in DOMAIN s : j # i => s[j] = cards[c][j]
    BY <1>1, <1>3, ExceptSeq, LenProperties
  <1> HIDE DEF s
  <1>7. PICK t \in Seq(Card) :
        /\ i \in DOMAIN t /\ t[i].id = id /\ t[i].status = status
        /\ DOMAIN cards[c] \subseteq DOMAIN t /\ DOMAIN t \subseteq DOMAIN cards[c] \cup {i}
        /\ \A j \in DOMAIN cards[c] : t[j].id = cards[c][j].id
        /\ \A j \in DOMAIN cards[c] : j # i => t[j] = cards[c][j]
        /\ CardRequest(c, [cards EXCEPT ![c] = t], id, status)
    BY <1>3, <1>5, <1>6
  <1>8. QED
    BY <1>3, <1>7, CardsKept, Z3

LEMMA CardRequestInv == CardInv /\ DebitCardRequest => CardInv'
  <1> SUFFICES ASSUME CardInv, DebitCardRequest PROVE CardInv'
    OBVIOUS
  <1>1. CASE ListDebitCards
    <2>1. PICK c \in Customers : cardOrder' = CardOrderWith(c)
      BY <1>1 DEF ListDebitCards
    <2>2. cards' = cards /\ cardsShown' = cardsShown
      BY <1>1 DEF ListDebitCards
    <2>3. CardType'
      BY <2>1, <2>2, OrderKept DEF CardInv, CardType
    <2>4. CardsAsShown'
      BY <2>2 DEF CardInv, CardsAsShown, DistinctIds
    <2>5. QED
      BY <2>3, <2>4 DEF CardInv
  <1>2. CASE PostDebitCard
    BY <1>2, CardAdded DEF PostDebitCard, CardStatuses
  <1>3. ASSUME NEW status \in CardStatuses, SetCardStatus(status) PROVE CardInv'
    <2>1. PICK c \in Customers, id \in CardIds, n \in Numbers :
            LET i == Find(cards[c], id)
            IN  CardRequest(c, IF i = 0 THEN [cards EXCEPT ![c] = Append(@, [id |-> id, number |-> n, status |-> status])]
                               ELSE [cards EXCEPT ![c][i].status = status], id, status)
      BY <1>3 DEF SetCardStatus
    <2> DEFINE k == Find(cards[c], id)
               r == [id |-> id, number |-> n, status |-> status]
    <2>2. cards[c] \in Seq(Card)
      BY DEF CardInv, CardType
    <2>3. k = 0 \/ (k \in DOMAIN cards[c] /\ cards[c][k].id = id)
      BY <2>2, FindFirst
    <2>4. CASE k = 0
      <3>1. CardRequest(c, [cards EXCEPT ![c] = Append(@, r)], id, status)
        BY <2>1, <2>4
      <3>2. QED
        BY <3>1, CardAdded
    <2>5. CASE k # 0
      <3>1. CardRequest(c, [cards EXCEPT ![c][k].status = status], id, status)
        BY <2>1, <2>5
      <3>2. k \in DOMAIN cards[c] /\ id = cards[c][k].id
        BY <2>3, <2>5
      <3> HIDE DEF k
      <3>3. CardRequest(c, [cards EXCEPT ![c][k].status = status], cards[c][k].id, status)
        BY <3>1, <3>2
      <3>4. QED
        BY <3>2, <3>3, CardUpdated
    <2>6. QED
      BY <2>4, <2>5
  <1>4. ASSUME NEW status \in CardStatuses, SetStatusByNumber(status) PROVE CardInv'
    <2>1. PICK c \in Customers, n \in Numbers :
             \E i \in DOMAIN cards[c] : CardRequest(c, WithStatus(c, i, status), cards[c][i].id, status)
      BY <1>4 DEF SetStatusByNumber
    <2>2. PICK i \in DOMAIN cards[c] : CardRequest(c, WithStatus(c, i, status), cards[c][i].id, status)
      BY <2>1
    <2>3. QED
      BY <2>2, CardUpdated DEF WithStatus
  <1>5. QED
    BY <1>1, <1>2, <1>3, <1>4
       DEF DebitCardRequest, ActivateCard, FreezeCard, UnfreezeCard, ActivateCardByCardNumber, UpdateStatusByCardNumber,
           CardStatuses

-----------------------------------------------------------------------------
(* What holds of every step *)

Bounds ==
    /\ workload \in Workloads
    /\ used \subseteq Holders
    /\ ops \in 0..MaxOps /\ crashes \in 0..MaxCrashes

\* A request for the dataset, in which an id may be given out.
DataRequest ==
    /\ ops < MaxOps /\ ops' = ops + 1
    /\ UNCHANGED <<workload, kept, cards, cardOrder, cardsShown, crashes>>
    /\ used' = used \/ \E h \in Holders : used' = used \cup {h}

LEMMA Helpers ==
  /\ \A ds : Request(ds) /\ used' = used => DataRequest
  /\ \A at, kind, s, r : Change(at, kind, s, r) => DataRequest
  /\ \A at, kind, id : Add(at, kind, id) \/ Delete(at, kind, id) => DataRequest
  /\ \A at, kind : SetValue(at, kind) => DataRequest
  /\ \A at, id1, id2 : UpsertUserDefinedFields(at, id1, id2) => DataRequest
  /\ \A at, id : CreateDocument(at, id) => DataRequest
  BY DEF Request, Change, Add, Delete, SetValue, UpsertUserDefinedFields, CreateDocument, DataRequest

LEMMA NextShape == Next => DataRequest \/ DebitCardRequest \/ Flush \/ Restart
  <1> SUFFICES ASSUME Next PROVE DataRequest \/ DebitCardRequest \/ Flush \/ Restart
    OBVIOUS
  <1>1. CASE PostStopCheckPayment \/ PostCustomerStopCheckPayment \/ PostStopAchPayment \/ PostCreditCard
    BY <1>1, Helpers DEF PostStopCheckPayment, PostCustomerStopCheckPayment, PostStopAchPayment, PostCreditCard
  <1>2. CASE PostEscrowDisbursement \/ PostEscrowProjection \/ GetStatements \/ GetStatement
    BY <1>2, Helpers DEF PostEscrowDisbursement, PostEscrowProjection, GetStatements, GetStatement
  <1>3. CASE PostLoanChargeAssessment \/ PostRemoteDeposit \/ PostFutureRatePaymentChange \/ PostAccountNote
    BY <1>3, Helpers
       DEF PostLoanChargeAssessment, PostRemoteDeposit, PostFutureRatePaymentChange, PostAccountNote
  <1>4. CASE PatchRewardProgramLevel \/ PostReservePremium \/ PostOriginalLtv \/ UpdateOlbFlag
    BY <1>4, Helpers DEF PatchRewardProgramLevel, PostReservePremium, PostOriginalLtv, UpdateOlbFlag
  <1>5. CASE PostCollateral \/ UploadFile \/ LinkBeneficiaryOwner \/ UnlinkBeneficiaryOwner
    BY <1>5, Helpers DEF PostCollateral, UploadFile, LinkBeneficiaryOwner, UnlinkBeneficiaryOwner
  <1>6. CASE PatchEscrowProjection
    BY <1>6, Helpers DEF PatchEscrowProjection
  <1>7. CASE DeleteStopCheckPayment \/ DeleteStopAchPayment
    BY <1>7, Helpers DEF DeleteStopCheckPayment, DeleteStopAchPayment, DeleteStopPayments
  <1>8. CASE PostCustomerUserDefinedFields \/ PostAccountUserDefinedFields \/ DeleteAccountUserDefinedField
    BY <1>8, Helpers DEF PostCustomerUserDefinedFields, PostAccountUserDefinedFields, DeleteAccountUserDefinedField
  <1>9. CASE PostCustomerDocument \/ PostAccountDocument \/ DeleteCustomerDocument \/ DeleteAccountDocument
    BY <1>9, Helpers DEF PostCustomerDocument, PostAccountDocument, DeleteCustomerDocument, DeleteAccountDocument
  <1>10. CASE GetCustomerDocument \/ GetAccountDocument \/ PatchCustomerDocument \/ PatchAccountDocument
    BY <1>10, Helpers
       DEF GetCustomerDocument, GetAccountDocument, GetDocument, PatchCustomerDocument, PatchAccountDocument, PatchDocument
  <1>11. CASE CreateTenantCustomer \/ CreateTenantAccount
    BY <1>11 DEF CreateTenantCustomer, CreateTenantAccount, Request, DataRequest, Holders
  <1>12. CASE UpdateTenantCustomer \/ CloseAccount \/ ReopenAccount \/ PatchAccount
    <2>1. CASE UpdateTenantCustomer
      BY <2>1, Helpers, Zenon DEF UpdateTenantCustomer
    <2>2. CASE CloseAccount \/ ReopenAccount
      BY <2>2, Helpers DEF CloseAccount, ReopenAccount
    <2>3. CASE PatchAccount
      BY <2>3, Helpers DEF PatchAccount
    <2>4. QED
      BY <1>12, <2>1, <2>2, <2>3
  <1>13. CASE ResetTenantDataset \/ SeedTenantDataset
    BY <1>13, Helpers DEF ResetTenantDataset, SeedTenantDataset
  <1>14. QED
    BY <1>1, <1>2, <1>3, <1>4, <1>5, <1>6, <1>7, <1>8, <1>9, <1>10, <1>11, <1>12, <1>13
       DEF Next, CustomerRequest, AccountRequest

LEMMA CardsStep == CardInv /\ [Next]_vars => CardInv'
  <1> SUFFICES ASSUME CardInv, [Next]_vars PROVE CardInv'
    OBVIOUS
  <1>1. CASE DataRequest \/ Flush \/ UNCHANGED vars
    <2>1. cards' = cards /\ cardOrder' = cardOrder /\ cardsShown' = cardsShown
      BY <1>1 DEF DataRequest, Flush, vars
    <2>2. QED
      BY <2>1 DEF CardInv, CardType, CardsAsShown, DistinctIds
  <1>2. CASE DebitCardRequest
    BY <1>2, CardRequestInv
  <1>3. CASE Restart
    <2>1. cards' = [c \in Customers |-> <<>>] /\ cardOrder' = <<>> /\ cardsShown' = {}
      BY <1>3 DEF Restart
    <2>2. QED
      BY <2>1 DEF CardInv, CardType, CardsAsShown
  <1>4. QED
    BY <1>1, <1>2, <1>3, NextShape

LEMMA SpecCards == Spec => []CardInv
  <1>1. Init => CardInv
    BY DEF Init, CardInv, CardType, CardsAsShown
  <1>2. QED
    BY <1>1, CardsStep, PTL DEF Spec

LEMMA SpecBounds == Spec => []Bounds
  <1>1. Init => Bounds
    BY CustomersAssumption DEF Init, Bounds, Holders
  <1>2. Bounds /\ [Next]_vars => Bounds'
    <2> SUFFICES ASSUME Bounds, [Next]_vars PROVE Bounds'
      OBVIOUS
    <2>1. MaxOps \in Nat /\ MaxCrashes \in Nat
      BY CustomersAssumption
    <2>2. CASE DataRequest
      BY <2>1, <2>2 DEF DataRequest, Bounds
    <2>3. CASE DebitCardRequest
      BY <2>1, <2>3, CardRequestKeeps DEF Bounds
    <2>4. CASE Flush \/ UNCHANGED vars
      BY <2>4 DEF Flush, vars, Bounds
    <2>5. CASE Restart
      BY <2>1, <2>5 DEF Restart, Bounds
    <2>6. QED
      BY <2>2, <2>3, <2>4, <2>5, NextShape
  <1>3. QED
    BY <1>1, <1>2, PTL DEF Spec

-----------------------------------------------------------------------------
(* Theorems *)

\* Every variable has its type, through every request, flush and restart:
\* among it that each customer has one place in the order of the cards' Map
\* (getTenantDebitCards).
THEOREM CustomerTypeOK == Spec => []TypeOK
  <1>1. ASSUME NEW ds, Sound(ds)
        PROVE  /\ ds.customers \in [Customers -> Emails \cup {Absent}]
               /\ ds.unboundNames \subseteq Customers
               /\ ds.accounts \in [Accounts -> Account \cup {Absent}]
               /\ DOMAIN ds.lists \subseteq Keys /\ \A k \in DOMAIN ds.lists : ds.lists[k] \in Seq(Record)
               /\ ds.shown \subseteq Shown
    BY <1>1 DEF Sound, SoundPeople, SoundLists, Fits
  <1>2. SoundInv /\ CardInv /\ Bounds => TypeOK
    BY <1>1 DEF SoundInv, CardInv, CardType, CardStatuses, Bounds, TypeOK
  <1>3. QED
    BY <1>2, SpecSound, SpecCards, SpecBounds, PTL

\* No two customers of the tenant have one address, however it is spelled, in
\* memory or after a restart (createTenantCustomer, updateTenantCustomer).
THEOREM CustomerEmailsUnique == Spec => []EmailsUnique
  <1>1. SoundInv => EmailsUnique
    BY DEF SoundInv, Sound, SoundPeople, EmailsUnique, Present
  <1>2. QED
    BY <1>1, SpecSound, PTL

\* The fields and documents of any holder have distinct ids, as the primary
\* keys of their tables ask, and every account's owner is there, though no
\* database checks that (saveTenantEntities).
THEOREM CustomerKeysHold == Spec => []KeysHold
  <1>1. SoundInv => KeysHold
    BY DEF SoundInv, Sound, SoundPeople, SoundLists, Fits, UniqueLists, KeysHold, Exists, Present
  <1>2. QED
    BY <1>1, SpecSound, PTL

\* Records are as the last response about them showed them, none is lost and
\* none appears: for any lists, ids used twice or not, and any number of
\* requests, flushes and restarts in between (routes/customers.ts,
\* routes/accounts.ts, saveTenantDataset, loadTenantDatasetFromDb).
THEOREM CustomerRecordsAsShown == Spec => []RecordsAsShown
  <1>1. ASSUME SoundInv PROVE RecordsAsShown
    <2>1. SoundLists(data.lists, data.shown)
      BY <1>1 DEF SoundInv, Sound
    <2>2. ASSUME NEW x \in data.shown
          PROVE  x.key \in DOMAIN data.lists /\ [id |-> x.id, val |-> x.val] \in Range(data.lists[x.key])
      <3> DEFINE s == data.lists[x.key]
      <3>1. x.key \in DOMAIN data.lists /\ s \in Seq(Record)
        BY <2>1 DEF SoundLists, Fits
      <3>2. PICK i \in DOMAIN s : s[i].id = x.id /\ s[i].val = x.val
        BY <2>1, <3>1 DEF SoundLists, Fits, AsShown
      <3>3. s[i] \in Record
        BY <3>1, LenProperties
      <3>4. s[i] = [id |-> x.id, val |-> x.val]
        BY <3>2, <3>3 DEF Record
      <3>5. QED
        BY <3>1, <3>4 DEF Range
    <2>3. ASSUME NEW k \in DOMAIN data.lists, NEW r \in Range(data.lists[k])
          PROVE  \E x \in data.shown : x.key = k /\ x.id = r.id
      <3>1. PICK i \in DOMAIN data.lists[k] : r = data.lists[k][i]
        BY DEF Range
      <3>2. QED
        BY <2>1, <3>1 DEF SoundLists, Fits, AsShown
    <2>4. QED
      BY <2>2, <2>3 DEF RecordsAsShown
  <1>2. QED
    BY <1>1, SpecSound, PTL

\* Clients know the status of every debit card from the responses, also where
\* one names cards by their numbers, while no two cards of a customer have one
\* id (activateCardByCardNumber and its like search all customers' cards).
THEOREM CustomerCardsAsShown == Spec => []CardsAsShown
  <1>1. CardInv => CardsAsShown
    BY DEF CardInv
  <1>2. QED
    BY <1>1, SpecCards, PTL
=============================================================================
