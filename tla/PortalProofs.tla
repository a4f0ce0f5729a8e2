---------------------------- MODULE PortalProofs ----------------------------
(***************************************************************************)
(* Theorems about PortalAuth, for any users, spellings, passwords, codes,  *)
(* limits and times, and either adapter.                                   *)
(***************************************************************************)
EXTENDS PortalAuth, FiniteFacts, SequenceTheorems

-----------------------------------------------------------------------------
(* The counters of requests *)

LEMMA RoomType ==
  ASSUME LimitsTypeOK, NEW k \in Keys
  PROVE  Room(k) \in Nat /\ Limit[k] \in Nat \ {0} /\ Cost[k] \in Nat \ {0}
  BY LimitsAssumption DEF Room, Stale, LimitsTypeOK

\* Every check keeps a counter within its limit (consumeWithinWindow).
LEMMA CheckType == ASSUME LimitsTypeOK, NEW k \in Keys, Check(k) PROVE LimitsTypeOK'
  <1> DEFINE taken == IF Admitted(k) THEN Cost[k] ELSE Room(k)
             begun == IF Stale(k) THEN [count |-> 0, start |-> clock] ELSE counters[k]
             next == [begun EXCEPT !.count = @ + taken]
  <1>1. Room(k) \in Nat /\ Limit[k] \in Nat \ {0} /\ Cost[k] \in Nat \ {0} /\ clock \in Nat
    BY RoomType DEF LimitsTypeOK
  <1>2. taken \in Nat /\ taken <= Room(k)
    BY <1>1 DEF Admitted
  <1>3. begun \in [count : Nat, start : Nat] /\ begun.count + Room(k) = Limit[k] /\ begun.start <= clock
    <2>1. CASE Stale(k)
      BY <1>1, <2>1 DEF Room
    <2>2. CASE ~Stale(k)
      <3>1. counters[k] \in [count : Nat, start : Nat] /\ counters[k].start <= clock
        BY <2>2 DEF Stale, LimitsTypeOK
      <3>2. QED
        BY <1>1, <2>2, <3>1 DEF Room
    <2>3. QED
      BY <2>1, <2>2
  <1>4. /\ counters' = IF taken = 0 THEN counters ELSE [counters EXCEPT ![k] = next]
        /\ recent' = [recent EXCEPT ![k] = [age \in Ages |-> recent[k][age] + taken]] /\ clock' = clock
    BY DEF Check, ConsumeWithinWindow
  <1> HIDE DEF taken, begun
  <1>5. next \in [count : Nat, start : Nat] /\ next.count <= Limit[k] /\ next.start <= clock
    BY <1>1, <1>2, <1>3
  <1> HIDE DEF next
  <1>6. counters' \in [Keys -> [count : Nat, start : Nat] \cup {Idle}]
    BY <1>4, <1>5 DEF LimitsTypeOK
  <1>7. ASSUME NEW x \in Keys, counters'[x] # Idle PROVE counters'[x].count <= Limit[x] /\ counters'[x].start <= clock
    <2>1. counters'[x] = counters[x] \/ (x = k /\ counters'[x] = next)
      BY <1>4 DEF LimitsTypeOK
    <2>2. QED
      BY <1>5, <1>7, <2>1 DEF LimitsTypeOK
  <1>8. recent' \in [Keys -> [Ages -> Nat]]
    <2>1. [age \in Ages |-> recent[k][age] + taken] \in [Ages -> Nat]
      BY <1>2 DEF LimitsTypeOK
    <2>2. QED
      BY <1>4, <2>1 DEF LimitsTypeOK
  <1>9. QED
    BY <1>1, <1>4, <1>6, <1>7, <1>8 DEF LimitsTypeOK

LEMMA CountedType ==
  ASSUME LimitsTypeOK, NEW s \in Spellings, NEW route \in {"login", "reset-request", "reset-confirm"}, Counted(route, s)
  PROVE  LimitsTypeOK' /\ clock' = clock
  BY PortalAssumption, CheckType DEF Counted, Check

LEMMA TickType == ASSUME LimitsTypeOK, Tick PROVE LimitsTypeOK'
  <1>1. clock \in Nat /\ clock' = clock + 1 /\ counters' = counters
    BY DEF LimitsTypeOK, Tick
  <1>2. ASSUME NEW k \in Keys, counters[k] # Idle PROVE counters[k].count <= Limit[k] /\ counters[k].start <= clock + 1
    <2>1. counters[k] \in [count : Nat, start : Nat] /\ counters[k].count <= Limit[k] /\ counters[k].start <= clock
      BY <1>2 DEF LimitsTypeOK
    <2>2. QED
      BY <1>1, <2>1
  <1>3. \A age \in Ages : age # 0 => age - 1 \in Ages
    BY LimitsAssumption DEF Ages
  <1>4. recent' \in [Keys -> [Ages -> Nat]]
    BY <1>3 DEF LimitsTypeOK, Tick
  <1>5. QED
    BY <1>1, <1>2, <1>4 DEF LimitsTypeOK

\* What a counter knows of the units that its key took lately.  Those of the
\* window that began at its start are all counted; before that at most the
\* limit was taken, as a window of an earlier start reaches back too far for
\* two of them to fall within a window's length.
Known(k) ==
    IF counters[k] = Idle THEN \A age \in Ages : recent[k][age] = 0
    ELSE \A age \in Ages :
            /\ recent[k][age] <= Limit[k] + counters[k].count
            /\ age <= clock - counters[k].start => recent[k][age] <= counters[k].count
            /\ age >= clock - counters[k].start => recent[k][age] >= counters[k].count
            /\ age + Window <= clock - counters[k].start => recent[k][age] = 0

KnownInv == \A k \in Keys : Known(k)

\* A check, taken or refused, keeps what the counters know (consumeWithinWindow).
LEMMA CheckKnown == ASSUME LimitsTypeOK, KnownInv, NEW k \in Keys, Check(k) PROVE KnownInv'
  <1> DEFINE taken == IF Admitted(k) THEN Cost[k] ELSE Room(k)
             begun == IF Stale(k) THEN [count |-> 0, start |-> clock] ELSE counters[k]
             next == [begun EXCEPT !.count = @ + taken]
  <1>1. /\ Room(k) \in Nat /\ Limit[k] \in Nat \ {0} /\ Cost[k] \in Nat \ {0} /\ clock \in Nat
        /\ Window \in Nat \ {0} /\ Idle \notin [count : Nat, start : Nat] /\ recent[k] \in [Ages -> Nat]
    BY RoomType, LimitsAssumption DEF LimitsTypeOK
  <1>2. taken \in Nat
    BY <1>1 DEF Admitted
  <1>3. /\ counters' = IF taken = 0 THEN counters ELSE [counters EXCEPT ![k] = next]
        /\ recent' = [recent EXCEPT ![k] = [age \in Ages |-> recent[k][age] + taken]] /\ clock' = clock
    BY DEF Check, ConsumeWithinWindow
  <1> HIDE DEF taken, begun
  <1>4. /\ recent'[k] = [age \in Ages |-> recent[k][age] + taken]
        /\ counters'[k] = IF taken = 0 THEN counters[k] ELSE next
    BY <1>3 DEF LimitsTypeOK
  <1>5. ASSUME NEW x \in Keys, x # k PROVE Known(x)'
    <2>1. recent'[x] = recent[x] /\ counters'[x] = counters[x]
      BY <1>3, <1>5 DEF LimitsTypeOK
    <2>2. QED
      BY <1>3, <2>1 DEF Known, KnownInv
  <1>6. CASE taken = 0
    <2>1. \A age \in Ages : recent'[k][age] = recent[k][age]
      BY <1>1, <1>4, <1>6
    <2>2. Known(k)'
      BY <1>3, <1>4, <1>6, <2>1 DEF Known, KnownInv
    <2>3. QED
      BY <1>5, <2>2 DEF KnownInv
  <1>7. CASE taken # 0
    <2>1. /\ begun \in [count : Nat, start : Nat] /\ begun.start <= clock
          /\ \A age \in Ages :
                /\ recent[k][age] <= Limit[k] + begun.count
                /\ age <= clock - begun.start => recent[k][age] <= begun.count
                /\ age >= clock - begun.start => recent[k][age] >= begun.count
                /\ ~(age + Window <= clock - begun.start)
      <3>1. CASE counters[k] = Idle
        <4>1. Stale(k) /\ begun = [count |-> 0, start |-> clock] /\ \A age \in Ages : recent[k][age] = 0
          BY <3>1 DEF Stale, begun, KnownInv, Known
        <4>2. begun.count = 0 /\ begun.start = clock
          BY <4>1
        <4>3. QED
          BY <1>1, <4>1, <4>2 DEF Ages
      <3>2. CASE counters[k] # Idle
        <4>1. /\ counters[k] \in [count : Nat, start : Nat] /\ counters[k].count <= Limit[k] /\ counters[k].start <= clock
          BY <3>2 DEF LimitsTypeOK
        <4>2. \A age \in Ages :
                 /\ recent[k][age] <= Limit[k] + counters[k].count
                 /\ age <= clock - counters[k].start => recent[k][age] <= counters[k].count
                 /\ age >= clock - counters[k].start => recent[k][age] >= counters[k].count
                 /\ age + Window <= clock - counters[k].start => recent[k][age] = 0
          BY <3>2 DEF KnownInv, Known
        <4>3. CASE Stale(k)
          <5>1. clock - counters[k].start >= Window /\ begun = [count |-> 0, start |-> clock]
            BY <3>2, <4>3 DEF Stale, begun
          <5>2. \A age \in Ages : recent[k][age] <= Limit[k] /\ recent[k][age] \in Nat /\ (age = 0 => recent[k][age] = 0)
            <6> TAKE age \in Ages
            <6>1. /\ age <= clock - counters[k].start /\ recent[k][age] \in Nat
                  /\ age = 0 => age + Window <= clock - counters[k].start
              BY <1>1, <4>1, <5>1 DEF Ages
            <6>2. QED
              BY <1>1, <4>1, <4>2, <6>1
          <5>3. QED
            BY <1>1, <4>3, <5>1, <5>2 DEF Ages
        <4>4. CASE ~Stale(k)
          <5>1. begun = counters[k] /\ ~(clock - counters[k].start >= Window)
            BY <3>2, <4>4 DEF begun, Stale
          <5>2. QED
            BY <1>1, <4>1, <4>2, <5>1 DEF Ages
        <4>5. QED
          BY <4>3, <4>4
      <3>3. QED
        BY <3>1, <3>2
    <2>2. next \in [count : Nat, start : Nat] /\ next.count = begun.count + taken /\ next.start = begun.start /\ next # Idle
      BY <1>1, <1>2, <2>1
    <2> HIDE DEF next
    <2>3. ASSUME NEW age \in Ages
          PROVE  /\ recent'[k][age] <= Limit[k] + next.count
                 /\ age <= clock - next.start => recent'[k][age] <= next.count
                 /\ age >= clock - next.start => recent'[k][age] >= next.count
                 /\ age + Window <= clock - next.start => recent'[k][age] = 0
      <3>1. recent'[k][age] = recent[k][age] + taken /\ recent[k][age] \in Nat /\ age \in Nat
        BY <1>1, <1>4 DEF Ages
      <3>2. PICK c \in Nat, s \in Nat, r \in Nat : c = begun.count /\ s = begun.start /\ r = recent[k][age]
        BY <2>1, <3>1
      <3>3. /\ s <= clock /\ r <= Limit[k] + c /\ (age >= clock - s => r >= c)
            /\ (age <= clock - s => r <= c) /\ ~(age + Window <= clock - s)
        BY <2>1, <3>2
      <3>4. QED
        BY <1>1, <1>2, <2>2, <3>1, <3>2, <3>3
    <2>4. Known(k)'
      BY <1>3, <1>4, <1>7, <2>2, <2>3 DEF Known
    <2>5. QED
      BY <1>5, <2>4 DEF KnownInv
  <1>8. QED
    BY <1>6, <1>7

\* Time forgets what is out of reach.
LEMMA TickKnown == ASSUME LimitsTypeOK, KnownInv, Tick PROVE KnownInv'
  <1>1. /\ clock \in Nat /\ clock' = clock + 1 /\ counters' = counters /\ Window \in Nat \ {0} /\ Limit \in [Keys -> Nat \ {0}]
        /\ Idle \notin [count : Nat, start : Nat]
    BY LimitsAssumption DEF LimitsTypeOK, Tick
  <1> SUFFICES ASSUME NEW k \in Keys PROVE Known(k)'
    BY DEF KnownInv
  <1>2. \A age \in Ages : recent'[k][age] = IF age = 0 THEN 0 ELSE recent[k][age - 1]
    BY DEF Tick
  <1>3. \A age \in Ages : age \in Nat /\ (age # 0 => age - 1 \in Ages)
    BY <1>1 DEF Ages
  <1>4. recent[k] \in [Ages -> Nat]
    BY DEF LimitsTypeOK
  <1>5. CASE counters[k] = Idle
    <2>1. \A age \in Ages : recent'[k][age] = 0
      BY <1>2, <1>3, <1>5 DEF KnownInv, Known
    <2>2. QED
      BY <1>1, <1>5, <2>1 DEF Known
  <1>6. CASE counters[k] # Idle
    <2>1. PICK c \in Nat, s \in Nat : c = counters[k].count /\ s = counters[k].start /\ s <= clock
      BY <1>6 DEF LimitsTypeOK
    <2>2. ASSUME NEW age \in Ages
          PROVE  /\ recent'[k][age] <= Limit[k] + c
                 /\ age <= clock + 1 - s => recent'[k][age] <= c
                 /\ age >= clock + 1 - s => recent'[k][age] >= c
                 /\ age + Window <= clock + 1 - s => recent'[k][age] = 0
      <3>1. CASE age = 0
        <4>1. recent'[k][age] = 0
          BY <1>2, <3>1
        <4>2. QED
          BY <1>1, <2>1, <3>1, <4>1
      <3>2. CASE age # 0
        <4>1. age \in Nat /\ age - 1 \in Ages /\ recent'[k][age] = recent[k][age - 1]
          BY <1>2, <1>3, <3>2
        <4>2. /\ recent[k][age - 1] <= Limit[k] + c
              /\ age - 1 <= clock - s => recent[k][age - 1] <= c
              /\ age - 1 >= clock - s => recent[k][age - 1] >= c
              /\ age - 1 + Window <= clock - s => recent[k][age - 1] = 0
          BY <1>6, <2>1, <4>1 DEF KnownInv, Known
        <4>3. QED
          BY <1>1, <2>1, <4>1, <4>2
      <3>3. QED
        BY <3>1, <3>2
    <2>3. QED
      BY <1>1, <1>6, <2>1, <2>2 DEF Known
  <1>7. QED
    BY <1>5, <1>6

\* What the counters know bounds what passes, and justifies what is refused.
LEMMA KnownImplies == ASSUME LimitsTypeOK, KnownInv PROVE TwiceAtMost /\ RefusedForCause
  <1> SUFFICES ASSUME NEW k \in Keys
               PROVE  Recently(k) <= 2 * Limit[k] /\ (Room(k) = 0 => Recently(k) >= Limit[k])
    BY DEF TwiceAtMost, RefusedForCause
  <1>1. /\ Window \in Nat \ {0} /\ Window - 1 \in Ages /\ Limit[k] \in Nat \ {0} /\ clock \in Nat
    BY LimitsAssumption DEF LimitsTypeOK, Ages
  <1>2. recent[k][Window - 1] \in Nat
    BY <1>1 DEF LimitsTypeOK
  <1>3. CASE counters[k] = Idle
    BY <1>1, <1>3 DEF KnownInv, Known, Recently, Room, Stale
  <1>4. CASE counters[k] # Idle
    <2>1. PICK c \in Nat, s \in Nat : c = counters[k].count /\ s = counters[k].start /\ c <= Limit[k] /\ s <= clock
      BY <1>4 DEF LimitsTypeOK
    <2>2. /\ recent[k][Window - 1] <= Limit[k] + c
          /\ Window - 1 >= clock - s => recent[k][Window - 1] >= c
      BY <1>1, <1>4, <2>1 DEF KnownInv, Known
    <2>3. Room(k) = IF clock - s >= Window THEN Limit[k] ELSE Limit[k] - c
      BY <1>4, <2>1 DEF Room, Stale
    <2>4. QED
      BY <1>1, <1>2, <2>1, <2>2, <2>3 DEF Recently
  <1>5. QED
    BY <1>3, <1>4

-----------------------------------------------------------------------------
(* Upserts and histories *)

UserSave == [n : Nat, user : Users, rec : PortalUser]

LEMMA NormalType == \A s \in Spellings : Normal[s] \in Users
  BY PortalAssumption

LEMMA PersistType ==
  ASSUME TypeOK, NEW u \in Users, NEW rec \in PortalUser, PersistUser(u, rec)
  PROVE  /\ users' \in [Users -> PortalUser \cup {Absent}] /\ userRows' \in [Users -> PortalUser \cup {Absent}]
         /\ userSaves' \subseteq UserSave /\ IsFiniteSet(userSaves')
  <1>1. /\ users \in [Users -> PortalUser \cup {Absent}] /\ userRows \in [Users -> PortalUser \cup {Absent}]
        /\ userSaves \subseteq UserSave /\ IsFiniteSet(userSaves)
    BY DEF TypeOK, UserSave
  <1>2. users' = [users EXCEPT ![u] = rec]
    BY DEF PersistUser
  <1>3. CASE Serial
    BY <1>1, <1>2, <1>3 DEF PersistUser
  <1>4. CASE ~Serial
    <2> DEFINE s == [n |-> FreshNumber, user |-> u, rec |-> rec]
    <2>1. FreshNumber \in Nat
      BY <1>1, FreshNumberExists, FS_CardinalityType DEF FreshNumber
    <2>2. s \in UserSave
      BY <2>1 DEF UserSave
    <2>3. userSaves' = userSaves \cup {s} /\ userRows' = userRows
      BY <1>4 DEF PersistUser
    <2> HIDE DEF s
    <2>4. QED
      BY <1>1, <1>2, <2>2, <2>3, FS_AddElement
  <1>5. QED
    BY <1>3, <1>4

LEMMA SessionPersistType ==
  ASSUME TypeOK, NEW s \in PortalSession, PersistSession(s)
  PROVE  /\ sessions' \subseteq PortalSession /\ sessionRows' \subseteq PortalSession
         /\ sessionSaves' \subseteq PortalSession
  BY DEF PersistSession, TypeOK

LEMMA LastOfType == ASSUME NEW A \in Seq(Nat), NEW n \in Nat PROVE LastOf(A, n) \in Seq(Nat)
  <1>1. CASE Len(A) <= n
    BY <1>1 DEF LastOf
  <1>2. CASE Len(A) > n
    <2>1. \A i \in (Len(A) - n + 1)..Len(A) : A[i] \in Nat
      BY <1>2
    <2>2. SubSeq(A, Len(A) - n + 1, Len(A)) \in Seq(Nat)
      BY <2>1, SubSeqProperties
    <2>3. QED
      BY <1>2, <2>2 DEF LastOf
  <1>3. QED
    BY <1>1, <1>2

\* The last failures, a new one at their end.
LEMMA LastOfAppend ==
  ASSUME NEW F \in Seq(Nat), NEW t \in Nat, NEW m \in Nat \ {0}, Len(F) <= m
  PROVE  LET G == LastOf(Append(F, t), m)
         IN  /\ G \in Seq(Nat)
             /\ Len(F) < m => G = Append(F, t)
             /\ Len(F) = m => Len(G) = m /\ G[m] = t /\ \A i \in 1..(m - 1) : G[i] = F[i + 1]
  <1> DEFINE A == Append(F, t)
             G == LastOf(A, m)
  <1>1. A \in Seq(Nat) /\ Len(A) = Len(F) + 1 /\ A[Len(F) + 1] = t /\ \A i \in 1..Len(F) : A[i] = F[i]
    OBVIOUS
  <1>2. CASE Len(F) < m
    BY <1>1, <1>2 DEF LastOf
  <1>3. CASE Len(F) = m
    <2>1. G = SubSeq(A, 2, m + 1)
      BY <1>1, <1>3 DEF LastOf
    <2> HIDE DEF A
    <2>2. G \in Seq(Nat) /\ Len(G) = m /\ \A i \in 1..m : G[i] = A[i + 1]
      BY <1>1, <1>3, <2>1
    <2>3. G[m] = t
      BY <1>1, <1>3, <2>2
    <2>4. \A i \in 1..(m - 1) : G[i] = F[i + 1]
      <3>1. \A i \in 1..(m - 1) : i \in 1..m /\ i + 1 \in 1..Len(F)
        BY <1>3
      <3> HIDE DEF G
      <3>2. QED
        BY <1>1, <2>2, <3>1
    <2> HIDE DEF G
    <2>5. G \in Seq(Nat) /\ Len(G) = m /\ G[m] = t /\ \A i \in 1..(m - 1) : G[i] = F[i + 1]
      BY <2>2, <2>3, <2>4
    <2>6. QED
      BY <1>3, <2>5 DEF G, A
  <1>4. QED
    BY <1>2, <1>3
-----------------------------------------------------------------------------
(* Types *)

\* What the actions write.
LEMMA RecordTypes ==
  ASSUME TypeOK, NEW u \in Users
  PROVE  /\ \A p \in Passwords : [password |-> p, failed |-> 0, blockedUntil |-> Never] \in PortalUser
         /\ users[u] # Absent =>
               /\ users[u] \in PortalUser
               /\ [users[u] EXCEPT !.blockedUntil = clock + BlockWindow, !.failed = 0] \in PortalUser
               /\ [users[u] EXCEPT !.failed = @ + 1] \in PortalUser
               /\ [users[u] EXCEPT !.failed = 0, !.blockedUntil = Never] \in PortalUser
               /\ \A p \in Passwords : [users[u] EXCEPT !.password = p] \in PortalUser
  <1>1. clock + BlockWindow \in Nat
    BY PortalAssumption DEF TypeOK, LimitsTypeOK
  <1>2. \A p \in Passwords : [password |-> p, failed |-> 0, blockedUntil |-> Never] \in PortalUser
    BY DEF PortalUser, Time
  <1>3. ASSUME users[u] # Absent
        PROVE  /\ users[u] \in PortalUser
               /\ [users[u] EXCEPT !.blockedUntil = clock + BlockWindow, !.failed = 0] \in PortalUser
               /\ [users[u] EXCEPT !.failed = @ + 1] \in PortalUser
               /\ [users[u] EXCEPT !.failed = 0, !.blockedUntil = Never] \in PortalUser
               /\ \A p \in Passwords : [users[u] EXCEPT !.password = p] \in PortalUser
    <2>1. users[u] \in PortalUser
      BY <1>3 DEF TypeOK
    <2> DEFINE r == users[u]
    <2>2. r \in PortalUser
      BY <2>1
    <2> HIDE DEF r
    <2>3. ASSUME NEW t \in Time PROVE [r EXCEPT !.blockedUntil = t, !.failed = 0] \in PortalUser
      BY <2>2 DEF PortalUser
    <2>4. ASSUME NEW t \in Time PROVE [r EXCEPT !.failed = 0, !.blockedUntil = t] \in PortalUser
      BY <2>2 DEF PortalUser
    <2>5. [r EXCEPT !.failed = @ + 1] \in PortalUser
      BY <2>2 DEF PortalUser
    <2>6. \A p \in Passwords : [r EXCEPT !.password = p] \in PortalUser
      BY <2>2 DEF PortalUser
    <2>7. clock + BlockWindow \in Time /\ Never \in Time
      BY <1>1 DEF Time
    <2>8. QED
      BY <2>1, <2>3, <2>4, <2>5, <2>6, <2>7 DEF r
  <1>4. QED
    BY <1>2, <1>3

LEMMA FailureType ==
  ASSUME TypeOK, NEW u \in Users, users[u] # Absent, CountedFailure(u)
  PROVE  \E rec \in PortalUser :
            /\ PersistUser(u, rec) /\ rec.password = users[u].password
            /\ IF users[u].failed + 1 >= MaxFailed
               THEN rec.failed = 0 /\ rec.blockedUntil = clock + BlockWindow
               ELSE rec.failed = users[u].failed + 1 /\ rec.blockedUntil = users[u].blockedUntil
  <1> DEFINE r == users[u]
             full == [r EXCEPT !.blockedUntil = clock + BlockWindow, !.failed = 0]
             more == [r EXCEPT !.failed = @ + 1]
  <1>1. r \in PortalUser /\ full \in PortalUser /\ more \in PortalUser
    BY RecordTypes
  <1>2. PersistUser(u, IF r.failed + 1 >= MaxFailed THEN full ELSE more)
    BY DEF CountedFailure
  <1>3. /\ full.password = r.password /\ full.failed = 0 /\ full.blockedUntil = clock + BlockWindow
        /\ more.password = r.password /\ more.failed = r.failed + 1 /\ more.blockedUntil = r.blockedUntil
    BY <1>1 DEF PortalUser
  <1> HIDE DEF full, more
  <1>4. QED
    BY <1>1, <1>2, <1>3

SessionNow(u) == [token |-> Cardinality(given), user |-> u, expiresAt |-> clock + SessionTtl]

LEMMA SessionType == ASSUME TypeOK, NEW u \in Users PROVE SessionNow(u) \in PortalSession
  BY PortalAssumption, FS_CardinalityType DEF SessionNow, PortalSession, TypeOK, LimitsTypeOK

\* A code that can be used is the one issued last; as many were compared as it
\* counts, and it has set no password.
OtpInv ==
    \A u \in Users :
        /\ otps[u] # Absent =>
              /\ otpTold[u] # Absent /\ ~otpTold[u].spent
              /\ otpTold[u].guesses = otps[u].attempts /\ otps[u].expiresAt = otpTold[u].at + OtpTtl
        /\ otpTold[u] # Absent => otpTold[u].guesses <= MaxFailed

\* A code after one more attempt, and what is told of it, without and with
\* success.
Tried(u) == [otps[u] EXCEPT !.attempts = @ + 1]
Guessed(u) == [otpTold[u] EXCEPT !.guesses = @ + 1]
Settled(u) == [otpTold[u] EXCEPT !.guesses = @ + 1, !.spent = TRUE]

LEMMA OtpTypes ==
  ASSUME TypeOK, NEW u \in Users
  PROVE  /\ otps[u] # Absent =>
               /\ otps[u] \in OtpRecord /\ Tried(u) \in OtpRecord /\ Tried(u).attempts = otps[u].attempts + 1
               /\ Tried(u).expiresAt = otps[u].expiresAt
         /\ otpTold[u] # Absent =>
               /\ otpTold[u] \in OtpNotice /\ Guessed(u) \in OtpNotice /\ Settled(u) \in OtpNotice
               /\ Guessed(u).guesses = otpTold[u].guesses + 1 /\ Guessed(u).at = otpTold[u].at
               /\ Guessed(u).spent = otpTold[u].spent
               /\ Settled(u).guesses = otpTold[u].guesses + 1 /\ Settled(u).at = otpTold[u].at /\ Settled(u).spent
  <1>1. /\ otps[u] # Absent => otps[u] \in OtpRecord
        /\ otpTold[u] # Absent => otpTold[u] \in OtpNotice
    BY DEF TypeOK
  <1>2. ASSUME NEW r \in OtpRecord
        PROVE  /\ [r EXCEPT !.attempts = @ + 1] \in OtpRecord
               /\ [r EXCEPT !.attempts = @ + 1].attempts = r.attempts + 1
               /\ [r EXCEPT !.attempts = @ + 1].expiresAt = r.expiresAt
    BY DEF OtpRecord
  <1>3. ASSUME NEW r \in OtpNotice
        PROVE  /\ [r EXCEPT !.guesses = @ + 1] \in OtpNotice
               /\ [r EXCEPT !.guesses = @ + 1].guesses = r.guesses + 1
               /\ [r EXCEPT !.guesses = @ + 1].at = r.at /\ [r EXCEPT !.guesses = @ + 1].spent = r.spent
    BY DEF OtpNotice
  <1>4. ASSUME NEW r \in OtpNotice
        PROVE  /\ [r EXCEPT !.guesses = @ + 1, !.spent = TRUE] \in OtpNotice
               /\ [r EXCEPT !.guesses = @ + 1, !.spent = TRUE].guesses = r.guesses + 1
               /\ [r EXCEPT !.guesses = @ + 1, !.spent = TRUE].at = r.at
               /\ [r EXCEPT !.guesses = @ + 1, !.spent = TRUE].spent
    <2>1. ASSUME NEW b \in BOOLEAN
          PROVE  /\ [r EXCEPT !.guesses = @ + 1, !.spent = b] \in OtpNotice
                 /\ [r EXCEPT !.guesses = @ + 1, !.spent = b].guesses = r.guesses + 1
                 /\ [r EXCEPT !.guesses = @ + 1, !.spent = b].at = r.at
                 /\ [r EXCEPT !.guesses = @ + 1, !.spent = b].spent = b
      <3> DEFINE g == [r EXCEPT !.guesses = @ + 1]
                 q == [r EXCEPT !.guesses = @ + 1, !.spent = b]
      <3>1. g \in OtpNotice /\ g.guesses = r.guesses + 1 /\ g.at = r.at
        BY <1>3
      <3>2. q = [g EXCEPT !.spent = b]
        OBVIOUS
      <3> HIDE DEF g
      <3>3. [g EXCEPT !.spent = b] \in OtpNotice
        BY <3>1 DEF OtpNotice
      <3>4. [g EXCEPT !.spent = b].guesses = g.guesses /\ [g EXCEPT !.spent = b].at = g.at
        BY <3>1 DEF OtpNotice
      <3>5. [g EXCEPT !.spent = b].spent = b
        BY <3>1 DEF OtpNotice
      <3> HIDE DEF q
      <3>6. q \in OtpNotice /\ q.guesses = r.guesses + 1 /\ q.at = r.at /\ q.spent = b
        BY <3>1, <3>2, <3>3, <3>4, <3>5
      <3>7. QED
        BY <3>6 DEF q
    <2>2. QED
      BY <2>1
  <1>5. QED
    BY <1>1, <1>2, <1>3, <1>4 DEF Tried, Guessed, Settled

\* Every step keeps the types.
LEMMA TypeStep == TypeOK /\ OtpInv /\ [Next]_vars => TypeOK'
  <1> SUFFICES ASSUME TypeOK, OtpInv, [Next]_vars PROVE TypeOK'
    OBVIOUS
  <1>0. LimitsTypeOK /\ clock \in Nat
    BY DEF TypeOK, LimitsTypeOK
  <1>00. MaxFailed + 1 \in Nat
    BY PortalAssumption
  <1>1. ASSUME LimitsTypeOK', UNCHANGED authVars PROVE TypeOK'
    BY <1>1 DEF TypeOK, authVars
  <1>2. CASE LoginInVain
    BY <1>0, <1>1, <1>2, CountedType DEF LoginInVain
  <1>3. CASE ResetRequestInVain
    BY <1>0, <1>1, <1>3, CountedType DEF ResetRequestInVain
  <1>4. CASE ResetConfirmInVain
    BY <1>0, <1>1, <1>4, CountedType DEF ResetConfirmInVain
  <1>5. CASE OtherRequest
    BY <1>0, <1>1, <1>5, CheckType DEF OtherRequest
  <1>6. CASE PassTime
    BY <1>0, <1>1, <1>6, TickType DEF PassTime
  <1>7. ASSUME UNCHANGED limitVars, clock' = clock PROVE LimitsTypeOK'
    BY <1>0, <1>7 DEF LimitsTypeOK, limitVars
  <1>8. ASSUME LimitsTypeOK', NEW u \in Users, NEW rec \in PortalUser, PersistUser(u, rec),
               UNCHANGED <<workload, adapter>>, sessions' \subseteq PortalSession, sessionRows' \subseteq PortalSession,
               sessionSaves' \subseteq PortalSession, given' \subseteq PortalSession, IsFiniteSet(given'),
               otps' \in [Users -> OtpRecord \cup {Absent}], fails' \in [Users -> Seq(Nat)],
               otpTold' \in [Users -> OtpNotice \cup {Absent}], told' \in [Users -> Passwords \cup {Absent}],
               crashes' = crashes
        PROVE  TypeOK'
    <2>1. /\ users' \in [Users -> PortalUser \cup {Absent}] /\ userRows' \in [Users -> PortalUser \cup {Absent}]
          /\ userSaves' \subseteq UserSave /\ IsFiniteSet(userSaves')
      BY <1>8, PersistType
    <2>2. QED
      BY <1>8, <2>1 DEF TypeOK, UserSave
  <1>9. CASE RegisterPortalUser
    <2>1. PICK s \in Spellings, p \in Passwords :
              /\ PersistUser(Normal[s], [password |-> p, failed |-> 0, blockedUntil |-> Never])
              /\ told' = [told EXCEPT ![Normal[s]] = p]
              /\ UNCHANGED <<limitVars, clock, workload, adapter, sessions, sessionRows, sessionSaves,
                             otps, given, fails, otpTold, crashes>>
      BY <1>9 DEF RegisterPortalUser
    <2>2. Normal[s] \in Users /\ LimitsTypeOK'
      BY <1>7, <2>1, NormalType
    <2>3. [password |-> p, failed |-> 0, blockedUntil |-> Never] \in PortalUser
      BY <2>2, RecordTypes
    <2>4. told' \in [Users -> Passwords \cup {Absent}]
      BY <2>1 DEF TypeOK
    <2>5. QED
      BY <1>8, <2>1, <2>2, <2>3, <2>4 DEF TypeOK
  <1>10. CASE LoginWrong
    <2>1. PICK s \in Spellings, p \in Passwords :
              /\ users[Normal[s]] # Absent /\ Counted("login", s) /\ CountedFailure(Normal[s])
              /\ fails' = [fails EXCEPT ![Normal[s]] = LastOf(Append(@, clock), MaxFailed + 1)]
              /\ UNCHANGED <<workload, adapter, sessions, sessionRows, sessionSaves, otps, given, otpTold, told, crashes>>
      BY <1>10 DEF LoginWrong
    <2>2. Normal[s] \in Users /\ LimitsTypeOK'
      BY <1>0, <2>1, NormalType, CountedType
    <2>3. PICK rec \in PortalUser : PersistUser(Normal[s], rec)
      BY <2>1, <2>2, FailureType
    <2>4. fails' \in [Users -> Seq(Nat)]
      <3>1. fails \in [Users -> Seq(Nat)] /\ Append(fails[Normal[s]], clock) \in Seq(Nat)
        BY <1>0, <2>2 DEF TypeOK
      <3>2. LastOf(Append(fails[Normal[s]], clock), MaxFailed + 1) \in Seq(Nat)
        BY <3>1, <1>00, LastOfType
      <3>3. QED
        BY <2>1, <3>1, <3>2
    <2>5. QED
      BY <1>8, <2>1, <2>2, <2>3, <2>4 DEF TypeOK
  <1>11. CASE LoginRight
    <2>1. PICK s \in Spellings :
              /\ users[Normal[s]] # Absent /\ Counted("login", s)
              /\ PersistUser(Normal[s], [users[Normal[s]] EXCEPT !.failed = 0, !.blockedUntil = Never])
              /\ PersistSession(SessionNow(Normal[s]))
              /\ given' = given \cup {SessionNow(Normal[s])}
              /\ fails' = [fails EXCEPT ![Normal[s]] = <<>>]
              /\ UNCHANGED <<workload, adapter, otps, otpTold, told, crashes>>
      BY <1>11 DEF LoginRight, SessionNow
    <2>2. Normal[s] \in Users /\ LimitsTypeOK'
      BY <1>0, <2>1, NormalType, CountedType
    <2>3. [users[Normal[s]] EXCEPT !.failed = 0, !.blockedUntil = Never] \in PortalUser
      BY <2>1, <2>2, RecordTypes
    <2>4. SessionNow(Normal[s]) \in PortalSession
      BY <2>2, SessionType
    <2>5. /\ sessions' \subseteq PortalSession /\ sessionRows' \subseteq PortalSession
          /\ sessionSaves' \subseteq PortalSession
      BY <2>1, <2>4, SessionPersistType
    <2>6. given' \subseteq PortalSession /\ IsFiniteSet(given')
      BY <2>1, <2>4, FS_AddElement DEF TypeOK
    <2>7. fails' \in [Users -> Seq(Nat)]
      <3>1. <<>> \in Seq(Nat)
        OBVIOUS
      <3>2. QED
        BY <2>1, <3>1 DEF TypeOK
    <2>8. QED
      BY <1>8, <2>1, <2>2, <2>3, <2>5, <2>6, <2>7 DEF TypeOK
  <1>12. CASE ValidatePortalSession
    BY <1>7, <1>12 DEF ValidatePortalSession, TypeOK
  <1>13. CASE IssueResetOtp
    <2>1. PICK s \in Spellings, code \in Codes :
              /\ Counted("reset-request", s)
              /\ otps' = [otps EXCEPT ![Normal[s]] = [code |-> code, expiresAt |-> clock + OtpTtl, attempts |-> 0]]
              /\ otpTold' = [otpTold EXCEPT ![Normal[s]] = [code |-> code, at |-> clock, guesses |-> 0, spent |-> FALSE]]
              /\ UNCHANGED <<workload, adapter, users, userRows, userSaves, sessions, sessionRows, sessionSaves,
                             given, fails, told, crashes>>
      BY <1>13 DEF IssueResetOtp
    <2>2. [code |-> code, expiresAt |-> clock + OtpTtl, attempts |-> 0] \in OtpRecord
      BY <1>0, PortalAssumption DEF OtpRecord
    <2>3. [code |-> code, at |-> clock, guesses |-> 0, spent |-> FALSE] \in OtpNotice
      BY <1>0 DEF OtpNotice
    <2>4. otps' \in [Users -> OtpRecord \cup {Absent}] /\ otpTold' \in [Users -> OtpNotice \cup {Absent}]
      BY <2>1, <2>2, <2>3 DEF TypeOK
    <2>5. LimitsTypeOK'
      BY <1>0, <2>1, CountedType
    <2>6. QED
      BY <2>1, <2>4, <2>5 DEF TypeOK
  <1>14. CASE DropOtp
    <2>1. PICK s \in Spellings : Counted("reset-confirm", s) /\ otps' = [otps EXCEPT ![Normal[s]] = Absent]
      BY <1>14 DEF DropOtp
    <2>2. LimitsTypeOK'
      BY <1>0, <2>1, CountedType
    <2>3. QED
      BY <1>14, <2>1, <2>2 DEF DropOtp, TypeOK
  <1>15. CASE WrongOtp
    <2>1. PICK s \in Spellings :
              /\ otps[Normal[s]] # Absent /\ Counted("reset-confirm", s)
              /\ otps' = [otps EXCEPT ![Normal[s]].attempts = @ + 1]
              /\ otpTold' = [otpTold EXCEPT ![Normal[s]].guesses = @ + 1]
              /\ UNCHANGED <<workload, adapter, users, userRows, userSaves, sessions, sessionRows, sessionSaves,
                             given, fails, told, crashes>>
      BY <1>15 DEF WrongOtp
    <2> DEFINE u == Normal[s]
    <2>2. u \in Users /\ LimitsTypeOK'
      BY <1>0, <2>1, NormalType, CountedType
    <2>3. otps[u] # Absent /\ otpTold[u] # Absent
      BY <2>1, <2>2 DEF OtpInv
    <2>4. otps' = [otps EXCEPT ![u] = Tried(u)] /\ otpTold' = [otpTold EXCEPT ![u] = Guessed(u)]
      BY <2>1, <2>2 DEF Tried, Guessed, TypeOK
    <2>5. Tried(u) \in OtpRecord /\ Guessed(u) \in OtpNotice
      BY <2>2, <2>3, OtpTypes
    <2>6. otps' \in [Users -> OtpRecord \cup {Absent}] /\ otpTold' \in [Users -> OtpNotice \cup {Absent}]
      BY <2>4, <2>5 DEF TypeOK
    <2>7. QED
      BY <2>1, <2>2, <2>6 DEF TypeOK
  <1>16. CASE ConfirmResetOtp
    <2>1. PICK s \in Spellings, p \in Passwords :
              /\ users[Normal[s]] # Absent /\ otps[Normal[s]] # Absent /\ Counted("reset-confirm", s)
              /\ NewPassword(Normal[s], p) /\ Spent(Normal[s])
              /\ otpTold' = [otpTold EXCEPT ![Normal[s]].guesses = @ + 1, ![Normal[s]].spent = TRUE]
              /\ told' = [told EXCEPT ![Normal[s]] = p]
              /\ UNCHANGED <<workload, adapter, sessions, sessionRows, sessionSaves, given, fails, crashes>>
      BY <1>16 DEF ConfirmResetOtp
    <2> DEFINE u == Normal[s]
    <2>2. u \in Users /\ LimitsTypeOK'
      BY <1>0, <2>1, NormalType, CountedType
    <2>3. otpTold[u] # Absent
      BY <2>1, <2>2 DEF OtpInv
    <2>4. otpTold' = [otpTold EXCEPT ![u] = Settled(u)]
      BY <2>1, <2>2 DEF Settled, TypeOK
    <2>5. Settled(u) \in OtpNotice
      BY <2>2, <2>3, OtpTypes
    <2>6. otps' \in [Users -> OtpRecord \cup {Absent}] /\ otpTold' \in [Users -> OtpNotice \cup {Absent}]
      <3>1. otps' = [otps EXCEPT ![u] = Absent]
        BY <2>1 DEF Spent
      <3>2. otps' \in [Users -> OtpRecord \cup {Absent}]
        BY <3>1 DEF TypeOK
      <3>3. otpTold' \in [Users -> OtpNotice \cup {Absent}]
        BY <2>4, <2>5 DEF TypeOK
      <3>4. QED
        BY <3>2, <3>3
    <2>7. told' \in [Users -> Passwords \cup {Absent}]
      BY <2>1 DEF TypeOK
    <2>8. PersistUser(u, [users[u] EXCEPT !.password = p]) /\ [users[u] EXCEPT !.password = p] \in PortalUser
      BY <2>1, <2>2, RecordTypes DEF NewPassword
    <2>9. QED
      BY <1>8, <2>1, <2>2, <2>6, <2>7, <2>8 DEF TypeOK
  <1>17. CASE SaveUser
    <2>1. PICK s \in userSaves : userRows' = [userRows EXCEPT ![s.user] = s.rec] /\ userSaves' = userSaves \ {s}
      BY <1>17 DEF SaveUser
    <2>2. s.rec \in PortalUser /\ IsFiniteSet(userSaves')
      BY <2>1, FS_RemoveElement DEF TypeOK
    <2>3. userRows' \in [Users -> PortalUser \cup {Absent}]
      BY <2>1, <2>2 DEF TypeOK
    <2>4. UNCHANGED <<limitVars, clock, workload, adapter, users, sessions, sessionRows, sessionSaves,
                      otps, given, fails, otpTold, told, crashes>>
      BY <1>17 DEF SaveUser
    <2>5. LimitsTypeOK'
      BY <1>7, <2>4
    <2>6. QED
      BY <2>1, <2>2, <2>3, <2>4, <2>5 DEF TypeOK
  <1>18. CASE SaveSession
    BY <1>7, <1>18 DEF SaveSession, TypeOK
  <1>19. CASE Restart
    <2>1. LimitsTypeOK'
      BY <1>0, <1>19 DEF Restart, LimitsTypeOK
    <2>2. /\ users' = userRows /\ userSaves' = {} /\ sessions' = {} /\ sessionSaves' = {}
          /\ sessionRows' \subseteq sessionRows /\ otps' = [u \in Users |-> Absent] /\ crashes' = crashes + 1
          /\ UNCHANGED <<clock, workload, adapter, userRows, given, fails, otpTold, told>>
      BY <1>19 DEF Restart, DeleteExpiredSessions
    <2>3. QED
      BY <2>1, <2>2, FS_EmptySet DEF TypeOK
  <1>20. CASE UNCHANGED vars
    <2>1. UNCHANGED limitVars /\ clock' = clock /\ UNCHANGED authVars
      BY <1>20 DEF vars
    <2>2. QED
      BY <1>1, <1>7, <2>1
  <1>21. QED
    BY <1>2, <1>3, <1>4, <1>5, <1>6, <1>9, <1>10, <1>11, <1>12, <1>13, <1>14, <1>15, <1>16, <1>17, <1>18, <1>19, <1>20
       DEF Next
-----------------------------------------------------------------------------
(* Codes *)

LEMMA OtpStep == TypeOK /\ OtpInv /\ [Next]_vars => OtpInv'
  <1> SUFFICES ASSUME TypeOK, OtpInv, [Next]_vars, NEW u \in Users
               PROVE  /\ otps'[u] # Absent =>
                            /\ otpTold'[u] # Absent /\ ~otpTold'[u].spent
                            /\ otpTold'[u].guesses = otps'[u].attempts
                            /\ otps'[u].expiresAt = otpTold'[u].at + OtpTtl
                      /\ otpTold'[u] # Absent => otpTold'[u].guesses <= MaxFailed
    BY DEF OtpInv
  <1>0. /\ otps[u] # Absent =>
              /\ otpTold[u] # Absent /\ ~otpTold[u].spent
              /\ otpTold[u].guesses = otps[u].attempts /\ otps[u].expiresAt = otpTold[u].at + OtpTtl
        /\ otpTold[u] # Absent => otpTold[u].guesses <= MaxFailed
        /\ otps \in [Users -> OtpRecord \cup {Absent}] /\ otpTold \in [Users -> OtpNotice \cup {Absent}]
        /\ clock \in Nat /\ MaxFailed \in Nat /\ OtpTtl \in Nat
        /\ Absent \notin OtpRecord /\ Absent \notin OtpNotice
    BY PortalAssumption DEF OtpInv, TypeOK, LimitsTypeOK
  <1>1. ASSUME otps'[u] = otps[u], otpTold'[u] = otpTold[u]
        PROVE  /\ otps'[u] # Absent =>
                     /\ otpTold'[u] # Absent /\ ~otpTold'[u].spent
                     /\ otpTold'[u].guesses = otps'[u].attempts
                     /\ otps'[u].expiresAt = otpTold'[u].at + OtpTtl
               /\ otpTold'[u] # Absent => otpTold'[u].guesses <= MaxFailed
    BY <1>0, <1>1
  <1>2. CASE IssueResetOtp
    <2>1. PICK s \in Spellings, code \in Codes :
              /\ otps' = [otps EXCEPT ![Normal[s]] = [code |-> code, expiresAt |-> clock + OtpTtl, attempts |-> 0]]
              /\ otpTold' = [otpTold EXCEPT ![Normal[s]] = [code |-> code, at |-> clock, guesses |-> 0, spent |-> FALSE]]
      BY <1>2 DEF IssueResetOtp
    <2>2. CASE Normal[s] = u
      <3>1. /\ otps'[u] = [code |-> code, expiresAt |-> clock + OtpTtl, attempts |-> 0]
            /\ otpTold'[u] = [code |-> code, at |-> clock, guesses |-> 0, spent |-> FALSE]
        BY <1>0, <2>1, <2>2
      <3>2. [code |-> code, at |-> clock, guesses |-> 0, spent |-> FALSE] \in OtpNotice
        BY <1>0 DEF OtpNotice
      <3>3. otps'[u].attempts = 0 /\ otps'[u].expiresAt = clock + OtpTtl
        BY <3>1
      <3>4. otpTold'[u].guesses = 0 /\ otpTold'[u].at = clock /\ ~otpTold'[u].spent
        BY <3>1
      <3>5. otpTold'[u] # Absent
        BY <1>0, <3>1, <3>2
      <3>6. QED
        BY <1>0, <3>3, <3>4, <3>5
    <2>3. CASE Normal[s] # u
      BY <1>0, <1>1, <2>1, <2>3
    <2>4. QED
      BY <2>2, <2>3
  <1>3. CASE DropOtp
    <2>1. otpTold' = otpTold /\ (otps'[u] = otps[u] \/ otps'[u] = Absent)
      BY <1>0, <1>3 DEF DropOtp
    <2>2. QED
      BY <1>0, <2>1
  <1>4. CASE WrongOtp
    <2>1. PICK s \in Spellings :
              /\ otps[Normal[s]] # Absent /\ Usable(Normal[s])
              /\ otps' = [otps EXCEPT ![Normal[s]].attempts = @ + 1]
              /\ otpTold' = [otpTold EXCEPT ![Normal[s]].guesses = @ + 1]
      BY <1>4 DEF WrongOtp
    <2>2. CASE Normal[s] = u
      <3>1. otps'[u] = Tried(u) /\ otpTold'[u] = Guessed(u) /\ otps[u].attempts + 1 <= MaxFailed
        BY <1>0, <2>1, <2>2 DEF Tried, Guessed, Usable
      <3>2. /\ Tried(u).attempts = otps[u].attempts + 1 /\ Tried(u).expiresAt = otps[u].expiresAt
            /\ Guessed(u) \in OtpNotice /\ Guessed(u).guesses = otpTold[u].guesses + 1
            /\ Guessed(u).at = otpTold[u].at /\ Guessed(u).spent = otpTold[u].spent
        BY <1>0, <2>1, <2>2, OtpTypes
      <3>3. QED
        BY <1>0, <2>1, <2>2, <3>1, <3>2
    <2>3. CASE Normal[s] # u
      BY <1>0, <1>1, <2>1, <2>3
    <2>4. QED
      BY <2>2, <2>3
  <1>5. CASE ConfirmResetOtp
    <2>1. PICK s \in Spellings :
              /\ otps[Normal[s]] # Absent /\ Usable(Normal[s]) /\ Spent(Normal[s])
              /\ otpTold' = [otpTold EXCEPT ![Normal[s]].guesses = @ + 1, ![Normal[s]].spent = TRUE]
      BY <1>5 DEF ConfirmResetOtp
    <2>2. CASE Normal[s] = u
      <3>1. otps'[u] = Absent /\ otpTold'[u] = Settled(u) /\ otps[u].attempts + 1 <= MaxFailed
        BY <1>0, <2>1, <2>2 DEF Settled, Spent, Usable
      <3>2. Settled(u).guesses = otpTold[u].guesses + 1
        BY <1>0, <2>1, <2>2, OtpTypes
      <3>3. QED
        BY <1>0, <2>1, <2>2, <3>1, <3>2
    <2>3. CASE Normal[s] # u
      BY <1>0, <1>1, <2>1, <2>3 DEF Spent
    <2>4. QED
      BY <2>2, <2>3
  <1>6. CASE Restart
    BY <1>0, <1>6 DEF Restart
  <1>7. CASE \/ RegisterPortalUser \/ LoginInVain \/ LoginWrong \/ LoginRight \/ ValidatePortalSession
             \/ ResetRequestInVain \/ ResetConfirmInVain \/ OtherRequest \/ SaveUser \/ SaveSession \/ PassTime
             \/ UNCHANGED vars
    <2>1. otps' = otps /\ otpTold' = otpTold
      BY <1>7 DEF RegisterPortalUser, LoginInVain, LoginWrong, LoginRight, ValidatePortalSession, ResetRequestInVain,
                  ResetConfirmInVain, OtherRequest, SaveUser, SaveSession, PassTime, authVars, vars
    <2>2. QED
      BY <1>1, <2>1
  <1>8. QED
    BY <1>2, <1>3, <1>4, <1>5, <1>6, <1>7 DEF Next

LEMMA TypeInit == Init => TypeOK /\ OtpInv
  <1> SUFFICES ASSUME Init PROVE TypeOK /\ OtpInv
    OBVIOUS
  <1>1. <<>> \in Seq(Nat)
    OBVIOUS
  <1>2. LimitsTypeOK
    BY DEF Init, LimitsInit, LimitsTypeOK
  <1>3. TypeOK
    BY <1>1, <1>2, FS_EmptySet DEF Init, TypeOK
  <1>4. QED
    BY <1>3 DEF Init, OtpInv

\* Every variable keeps its type: no counter exceeds its limit, and a code
\* that is compared has been issued (consumeWithinWindow, confirmResetOtp).
THEOREM PortalTypeOK == Spec => []TypeOK
  BY TypeInit, TypeStep, OtpStep, PTL DEF Spec

LEMMA TypesAlways == Spec => [](TypeOK /\ OtpInv)
  BY TypeInit, TypeStep, OtpStep, PTL DEF Spec

\* For one code at most MaxFailed codes are compared (confirmResetOtp).
THEOREM PortalGuessesBounded == Spec => []GuessesBounded
  <1>1. OtpInv => GuessesBounded
    BY DEF OtpInv, GuessesBounded
  <1>2. QED
    BY <1>1, TypesAlways, PTL

\* A password changes only by the code issued last, in its time, and once
\* (issueResetOtp, confirmResetOtp).
THEOREM PortalResetByOtp == Spec => ResetByOtp
  <1> DEFINE ByOtp == \A u \in Users :
                 (users[u] # Absent /\ told'[u] # told[u]) =>
                     /\ otpTold[u] # Absent /\ ~otpTold[u].spent /\ otpTold'[u].spent
                     /\ clock <= otpTold[u].at + OtpTtl
  <1>1. TypeOK /\ OtpInv /\ [Next]_vars => [ByOtp]_vars
    <2> SUFFICES ASSUME TypeOK, OtpInv, [Next]_vars, NEW u \in Users, users[u] # Absent, told'[u] # told[u]
                 PROVE  /\ otpTold[u] # Absent /\ ~otpTold[u].spent /\ otpTold'[u].spent
                        /\ clock <= otpTold[u].at + OtpTtl
      OBVIOUS
    <2>1. ~RegisterPortalUser
      BY DEF RegisterPortalUser, TypeOK
    <2>2. ConfirmResetOtp
      BY <2>1 DEF Next, LoginInVain, LoginWrong, LoginRight, ValidatePortalSession, ResetRequestInVain,
                  IssueResetOtp, DropOtp, WrongOtp, Restart,
                  ResetConfirmInVain, OtherRequest, SaveUser, SaveSession, PassTime, authVars, vars
    <2>3. PICK s \in Spellings, p \in Passwords :
              /\ otps[Normal[s]] # Absent /\ Usable(Normal[s])
              /\ otpTold' = [otpTold EXCEPT ![Normal[s]].guesses = @ + 1, ![Normal[s]].spent = TRUE]
              /\ told' = [told EXCEPT ![Normal[s]] = p]
      BY <2>2 DEF ConfirmResetOtp
    <2>4. Normal[s] = u
      BY <2>3 DEF TypeOK
    <2>5. otpTold'[u] = Settled(u)
      BY <2>3, <2>4 DEF Settled, TypeOK
    <2>6. otpTold[u] # Absent /\ ~otpTold[u].spent /\ clock <= otpTold[u].at + OtpTtl
      BY <2>3, <2>4 DEF OtpInv, Usable
    <2>7. QED
      BY <2>5, <2>6, OtpTypes
  <1>2. QED
    BY <1>1, TypesAlways, PTL DEF Spec, ResetByOtp

-----------------------------------------------------------------------------
(* Passwords.  With SQLite the table is what is in memory; with SQL Server *)
(* nothing comes back from it before the first restart.                    *)

PasswordInv == (Serial => userRows = users /\ userSaves = {}) /\ PasswordAsTold

LEMMA PersistPassword ==
  ASSUME TypeOK, PasswordInv, NEW u \in Users, NEW rec \in PortalUser, PersistUser(u, rec),
         UNCHANGED <<adapter, crashes>>, told' = [told EXCEPT ![u] = rec.password]
  PROVE  PasswordInv'
  <1>1. (Serial' <=> Serial) /\ (Steady' <=> Steady)
    BY DEF Serial, Steady
  <1>2. users' = [users EXCEPT ![u] = rec] /\ (Serial => userRows' = [userRows EXCEPT ![u] = rec] /\ userSaves' = userSaves)
    BY DEF PersistUser
  <1>3. ASSUME Steady, NEW x \in Users
        PROVE  IF users'[x] = Absent THEN told'[x] = Absent ELSE users'[x].password = told'[x]
    <2>1. rec # Absent
      BY PortalAssumption
    <2>2. CASE x = u
      BY <1>2, <2>1, <2>2 DEF TypeOK
    <2>3. CASE x # u
      BY <1>2, <1>3, <2>3 DEF TypeOK, PasswordInv, PasswordAsTold
    <2>4. QED
      BY <2>2, <2>3
  <1>4. QED
    BY <1>1, <1>2, <1>3 DEF PasswordInv, PasswordAsTold

LEMMA PasswordStep == TypeOK /\ PasswordInv /\ [Next]_vars => PasswordInv'
  <1> SUFFICES ASSUME TypeOK, PasswordInv, [Next]_vars PROVE PasswordInv'
    OBVIOUS
  <1>1. CASE RegisterPortalUser
    <2>1. PICK s \in Spellings, p \in Passwords :
              /\ PersistUser(Normal[s], [password |-> p, failed |-> 0, blockedUntil |-> Never])
              /\ told' = [told EXCEPT ![Normal[s]] = p] /\ UNCHANGED <<adapter, crashes>>
      BY <1>1 DEF RegisterPortalUser
    <2>2. Normal[s] \in Users
      BY NormalType
    <2> DEFINE rec == [password |-> p, failed |-> 0, blockedUntil |-> Never]
    <2>3. rec \in PortalUser /\ rec.password = p
      BY <2>2, RecordTypes
    <2>4. PersistUser(Normal[s], rec)
      BY <2>1
    <2> HIDE DEF rec
    <2>5. QED
      BY <2>1, <2>2, <2>3, <2>4, PersistPassword
  <1>2. ASSUME NEW u \in Users, NEW rec \in PortalUser, PersistUser(u, rec), users[u] # Absent,
               rec.password = users[u].password, UNCHANGED <<adapter, crashes, told>>
        PROVE  PasswordInv'
    <2>1. CASE Steady
      <3>1. told' = [told EXCEPT ![u] = rec.password]
        BY <1>2, <2>1 DEF TypeOK, PasswordInv, PasswordAsTold
      <3>2. QED
        BY <1>2, <3>1, PersistPassword
    <2>2. CASE ~Steady
      <3>1. ~Serial' /\ ~Steady'
        BY <1>2, <2>2 DEF Steady, Serial
      <3>2. QED
        BY <3>1 DEF PasswordInv, PasswordAsTold
    <2>3. QED
      BY <2>1, <2>2
  <1>3. CASE LoginWrong
    <2>1. PICK s \in Spellings : users[Normal[s]] # Absent /\ CountedFailure(Normal[s]) /\ UNCHANGED <<adapter, crashes, told>>
      BY <1>3 DEF LoginWrong
    <2>2. QED
      BY <1>2, <2>1, NormalType, FailureType
  <1>4. CASE LoginRight
    <2>1. PICK s \in Spellings :
              /\ users[Normal[s]] # Absent /\ UNCHANGED <<adapter, crashes, told>>
              /\ PersistUser(Normal[s], [users[Normal[s]] EXCEPT !.failed = 0, !.blockedUntil = Never])
      BY <1>4 DEF LoginRight
    <2> DEFINE u == Normal[s]
               rec == [users[u] EXCEPT !.failed = 0, !.blockedUntil = Never]
    <2>2. u \in Users
      BY NormalType
    <2>3. users[u] \in PortalUser /\ rec \in PortalUser
      BY <2>1, <2>2, RecordTypes
    <2>4. rec.password = users[u].password
      BY <2>3 DEF PortalUser
    <2>5. PersistUser(u, rec)
      BY <2>1
    <2> HIDE DEF rec
    <2>6. QED
      BY <1>2, <2>1, <2>2, <2>3, <2>4, <2>5
  <1>5. CASE ConfirmResetOtp
    <2>1. PICK s \in Spellings, p \in Passwords :
              /\ users[Normal[s]] # Absent /\ UNCHANGED <<adapter, crashes>>
              /\ PersistUser(Normal[s], [users[Normal[s]] EXCEPT !.password = p])
              /\ told' = [told EXCEPT ![Normal[s]] = p]
      BY <1>5 DEF ConfirmResetOtp, NewPassword
    <2> DEFINE u == Normal[s]
               rec == [users[u] EXCEPT !.password = p]
    <2>2. u \in Users
      BY NormalType
    <2>3. users[u] \in PortalUser /\ rec \in PortalUser
      BY <2>1, <2>2, RecordTypes
    <2>4. rec.password = p
      BY <2>3 DEF PortalUser
    <2>5. PersistUser(u, rec) /\ told' = [told EXCEPT ![u] = p]
      BY <2>1
    <2> HIDE DEF rec
    <2>6. QED
      BY <2>1, <2>2, <2>3, <2>4, <2>5, PersistPassword
  <1>6. CASE SaveUser
    <2>1. ~Serial /\ UNCHANGED <<adapter, users, told, crashes>>
      BY <1>6 DEF SaveUser, PasswordInv
    <2>2. QED
      BY <2>1 DEF PasswordInv, PasswordAsTold, Serial, Steady
  <1>7. CASE Restart
    <2>1. /\ users' = userRows /\ userRows' = userRows /\ userSaves' = {} /\ UNCHANGED <<adapter, told>>
          /\ crashes' = crashes + 1
      BY <1>7 DEF Restart
    <2>2. crashes' # 0
      BY <2>1 DEF TypeOK
    <2>3. Steady' => Serial
      BY <2>1, <2>2 DEF Steady, Serial
    <2>4. QED
      BY <2>1, <2>3 DEF PasswordInv, PasswordAsTold, Serial, Steady
  <1>8. CASE \/ LoginInVain \/ ValidatePortalSession \/ ResetRequestInVain \/ IssueResetOtp
             \/ ResetConfirmInVain \/ DropOtp \/ WrongOtp \/ OtherRequest \/ SaveSession \/ PassTime
             \/ UNCHANGED vars
    <2>1. UNCHANGED <<adapter, users, userRows, userSaves, told, crashes>>
      BY <1>8 DEF LoginInVain, ValidatePortalSession, ResetRequestInVain, IssueResetOtp, DropOtp, WrongOtp,
                  ResetConfirmInVain, OtherRequest, SaveSession, PassTime, authVars, vars
    <2>2. QED
      BY <2>1 DEF PasswordInv, PasswordAsTold, Serial, Steady
  <1>9. QED
    BY <1>1, <1>3, <1>4, <1>5, <1>6, <1>7, <1>8 DEF Next

\* The password in force is the one that the user registered or reset last,
\* through restarts with SQLite (registerPortalUser, confirmResetOtp,
\* initPortalAuth).
THEOREM PortalPasswordAsTold == Spec => []PasswordAsTold
  <1>1. Init => PasswordInv
    BY DEF Init, PasswordInv, PasswordAsTold
  <1>2. PasswordInv => PasswordAsTold
    BY DEF PasswordInv
  <1>3. QED
    BY <1>1, <1>2, TypesAlways, PasswordStep, PTL DEF Spec
-----------------------------------------------------------------------------
(* Sessions.  Tokens are never given twice; a session that is alive is in  *)
(* the table with SQLite, in memory with SQL Server before a restart.      *)

SessionInv ==
    /\ \A s \in given : s.token < Cardinality(given)
    /\ \A s, t \in given : s.token = t.token => s = t
    /\ sessions \subseteq given /\ sessionRows \subseteq given /\ sessionSaves \subseteq given
    /\ \A s \in given : clock <= s.expiresAt =>
          /\ Serial => s \in sessionRows
          /\ ~Serial /\ crashes = 0 => s \in sessions

LEMMA SessionStep == TypeOK /\ TypeOK' /\ SessionInv /\ [Next]_vars => SessionInv'
  <1> SUFFICES ASSUME TypeOK, TypeOK', SessionInv, [Next]_vars PROVE SessionInv'
    OBVIOUS
  <1>0. given \subseteq PortalSession /\ IsFiniteSet(given) /\ clock \in Nat /\ Cardinality(given) \in Nat
    BY FS_CardinalityType DEF TypeOK, LimitsTypeOK
  <1>1. ASSUME UNCHANGED <<adapter, given, crashes>>, clock <= clock', clock' \in Nat, sessions \subseteq sessions',
               sessions' \subseteq given, sessionRows \subseteq sessionRows', sessionRows' \subseteq given, sessionSaves' \subseteq given
        PROVE  SessionInv'
    <2>1. ASSUME NEW s \in given, clock' <= s.expiresAt PROVE clock <= s.expiresAt
      BY <1>0, <1>1, <2>1 DEF PortalSession
    <2>2. QED
      BY <1>1, <2>1 DEF SessionInv, Serial
  <1>2. CASE LoginRight
    <2>1. PICK s \in Spellings :
              /\ PersistSession(SessionNow(Normal[s])) /\ given' = given \cup {SessionNow(Normal[s])}
              /\ Counted("login", s) /\ UNCHANGED <<adapter, crashes>>
      BY <1>2 DEF LoginRight, SessionNow
    <2> DEFINE new == SessionNow(Normal[s])
    <2>2. new \in PortalSession /\ new.token = Cardinality(given)
      BY NormalType, SessionType DEF SessionNow
    <2>3. clock' = clock
      BY <2>1, CountedType DEF TypeOK
    <2>4. /\ sessions' = sessions \cup {new} /\ given' = given \cup {new} /\ UNCHANGED <<adapter, crashes>>
          /\ IF Serial THEN sessionRows' = sessionRows \cup {new} /\ sessionSaves' = sessionSaves
             ELSE sessionRows' = sessionRows /\ sessionSaves' = sessionSaves \cup {new}
      BY <2>1 DEF PersistSession
    <2> HIDE DEF new
    <2>5. new \notin given
      BY <1>0, <2>2 DEF SessionInv
    <2>6. Cardinality(given') = Cardinality(given) + 1
      BY <1>0, <2>4, <2>5, FS_AddElement
    <2>7. \A x \in given : x.token \in Nat /\ x.token < Cardinality(given)
      BY <1>0 DEF SessionInv, PortalSession
    <2>8. \A x \in given' : x.token < Cardinality(given')
      BY <1>0, <2>2, <2>4, <2>6, <2>7
    <2>9. \A x, y \in given' : x.token = y.token => x = y
      BY <1>0, <2>2, <2>4, <2>7 DEF SessionInv
    <2>10. sessions' \subseteq given' /\ sessionRows' \subseteq given' /\ sessionSaves' \subseteq given'
      BY <2>4 DEF SessionInv
    <2>11. \A x \in given' : clock' <= x.expiresAt =>
              /\ Serial' => x \in sessionRows'
              /\ ~Serial' /\ crashes' = 0 => x \in sessions'
      BY <2>3, <2>4 DEF SessionInv, Serial
    <2>12. QED
      BY <2>8, <2>9, <2>10, <2>11 DEF SessionInv
  <1>3. CASE ValidatePortalSession
    <2>1. PICK s \in sessionRows : sessions' = sessions \cup {s}
      BY <1>3 DEF ValidatePortalSession
    <2>2. UNCHANGED <<adapter, given, crashes, clock, sessionRows, sessionSaves>>
      BY <1>3 DEF ValidatePortalSession
    <2>3. QED
      BY <1>0, <1>1, <2>1, <2>2 DEF SessionInv
  <1>4. CASE SaveSession
    <2>1. PICK s \in sessionSaves : sessionRows' = sessionRows \cup {s} /\ sessionSaves' = sessionSaves \ {s}
      BY <1>4 DEF SaveSession
    <2>2. UNCHANGED <<adapter, given, crashes, clock, sessions>>
      BY <1>4 DEF SaveSession
    <2>3. QED
      BY <1>0, <1>1, <2>1, <2>2 DEF SessionInv
  <1>5. CASE PassTime
    <2>1. clock' = clock + 1 /\ UNCHANGED authVars
      BY <1>5 DEF PassTime, Tick
    <2>2. QED
      BY <1>0, <1>1, <2>1 DEF SessionInv, authVars
  <1>6. CASE Restart
    <2>1. /\ sessions' = {} /\ sessionSaves' = {} /\ UNCHANGED <<clock, adapter, given>> /\ crashes' = crashes + 1
          /\ sessionRows' = {s \in sessionRows : s.expiresAt >= clock}
      BY <1>6 DEF Restart, DeleteExpiredSessions
    <2>2. crashes' # 0
      BY <2>1 DEF TypeOK
    <2>3. \A s \in given : clock <= s.expiresAt => s.expiresAt >= clock
      BY <1>0 DEF PortalSession
    <2>4. QED
      BY <2>1, <2>2, <2>3 DEF SessionInv, Serial
  <1>7. CASE LoginInVain \/ LoginWrong \/ ResetRequestInVain \/ IssueResetOtp \/ ResetConfirmInVain \/ DropOtp
             \/ WrongOtp \/ ConfirmResetOtp \/ OtherRequest \/ RegisterPortalUser \/ SaveUser \/ UNCHANGED vars
    <2>1. UNCHANGED <<adapter, given, crashes, sessions, sessionRows, sessionSaves>>
      BY <1>7 DEF LoginInVain, LoginWrong, ResetRequestInVain, IssueResetOtp, ResetConfirmInVain, DropOtp, WrongOtp,
                  ConfirmResetOtp, OtherRequest, RegisterPortalUser, SaveUser, vars, authVars
    <2>2. clock' = clock
      BY <1>7 DEF LoginInVain, LoginWrong, ResetRequestInVain, IssueResetOtp, ResetConfirmInVain, DropOtp, WrongOtp,
                  ConfirmResetOtp, OtherRequest, RegisterPortalUser, SaveUser, vars, Counted, Check
    <2>3. QED
      BY <1>0, <1>1, <2>1, <2>2 DEF SessionInv
  <1>8. QED
    BY <1>2, <1>3, <1>4, <1>5, <1>6, <1>7 DEF Next

\* A session that was handed out is valid for its life, through restarts with
\* SQLite, and never longer (validatePortalSession, deleteExpiredSessions).
THEOREM PortalSessionsAsGiven == Spec => []SessionsAsGiven
  <1>1. Init => SessionInv
    BY DEF Init, SessionInv
  <1>2. TypeOK /\ SessionInv => SessionsAsGiven
    <2> SUFFICES ASSUME TypeOK, SessionInv, NEW s \in given
                 PROVE  /\ Valid(s.token) => clock <= s.expiresAt
                        /\ Steady => (clock <= s.expiresAt => Valid(s.token))
      BY DEF SessionsAsGiven
    <2>1. \A x \in sessions \cup sessionRows : x.token = s.token => x = s
      BY DEF SessionInv
    <2>2. Valid(s.token) => clock <= s.expiresAt
      BY <2>1 DEF Valid, With
    <2>3. ASSUME Steady, clock <= s.expiresAt PROVE Valid(s.token)
      <3>1. s \in sessions \/ s \in sessionRows
        BY <2>3 DEF SessionInv, Steady
      <3>2. CASE s \in sessions
        BY <2>3, <3>2 DEF Valid, With
      <3>3. CASE s \notin sessions
        <4>1. With(sessions, s.token) = {} /\ s \in With(sessionRows, s.token)
          BY <2>1, <3>1, <3>3 DEF With
        <4>2. QED
          BY <2>3, <4>1 DEF Valid
      <3>4. QED
        BY <3>2, <3>3
    <2>4. QED
      BY <2>2, <2>3
  <1>3. QED
    BY <1>1, <1>2, TypesAlways, PortalTypeOK, SessionStep, PTL DEF Spec
-----------------------------------------------------------------------------
(* Failures.  The count of a user is that of the failures since the last   *)
(* block: behind them, if there are more, lies a failure that blocked the  *)
(* user, and the next one came a block later.                              *)

InOrder(F, now) == /\ \A i \in 1..Len(F) : F[i] <= now
                   /\ \A i, j \in 1..Len(F) : i <= j => F[i] <= F[j]

\* next: when the next failure can come.
Blocks(F, k, next) ==
    Len(F) > k => IF k = 0 THEN F[Len(F)] + BlockWindow <= next
                  ELSE F[Len(F) - k] + BlockWindow <= F[Len(F) - k + 1]

Apart(F) == Len(F) = MaxFailed + 1 => F[1] + BlockWindow <= F[MaxFailed + 1]

\* One more failure at the time now.
LEMMA FailureAppended ==
  ASSUME NEW F \in Seq(Nat), NEW now \in Nat, NEW k \in Nat, k < MaxFailed, k <= Len(F), Len(F) <= MaxFailed + 1,
         InOrder(F, now), Blocks(F, k, now)
  PROVE  LET G == LastOf(Append(F, now), MaxFailed + 1)
         IN  /\ G \in Seq(Nat) /\ Len(G) <= MaxFailed + 1 /\ Len(G) > 0 /\ G[Len(G)] = now /\ k + 1 <= Len(G)
             /\ InOrder(G, now) /\ Apart(G)
             /\ k + 1 < MaxFailed => Blocks(G, k + 1, now)
  <1> DEFINE G == LastOf(Append(F, now), MaxFailed + 1)
             n == Len(F)
             m == MaxFailed + 1
  <1>1. MaxFailed \in Nat \ {0} /\ BlockWindow \in Nat /\ n \in Nat /\ m \in Nat \ {0}
    BY PortalAssumption
  <1>2. /\ G \in Seq(Nat) /\ (n < m => G = Append(F, now))
        /\ n = m => Len(G) = m /\ G[m] = now /\ \A i \in 1..(m - 1) : G[i] = F[i + 1]
    BY <1>1, LastOfAppend
  <1>3. /\ \A i \in 1..n : F[i] \in Nat /\ F[i] <= now
        /\ \A i, j \in 1..n : i <= j => F[i] <= F[j]
    BY DEF InOrder
  <1>4. n > k => IF k = 0 THEN F[n] + BlockWindow <= now ELSE F[n - k] + BlockWindow <= F[n - k + 1]
    BY DEF Blocks
  <1> HIDE DEF G
  <1>5. CASE n < m
    <2>1. Len(G) = n + 1 /\ G[n + 1] = now /\ \A i \in 1..n : G[i] = F[i]
      <3>1. Len(Append(F, now)) = n + 1 /\ Append(F, now)[n + 1] = now /\ \A i \in 1..n : Append(F, now)[i] = F[i]
        OBVIOUS
      <3>2. G = Append(F, now)
        BY <1>2, <1>5
      <3>3. QED
        BY <3>1, <3>2
    <2>2. InOrder(G, now)
      <3>1. \A i \in 1..(n + 1) : i = n + 1 \/ i \in 1..n
        BY <1>1
      <3>2. \A i \in 1..(n + 1) : G[i] \in Nat /\ G[i] <= now
        BY <1>3, <2>1, <3>1
      <3>3. ASSUME NEW i \in 1..(n + 1), NEW j \in 1..(n + 1), i <= j PROVE G[i] <= G[j]
        <4>1. CASE j = n + 1
          BY <2>1, <3>2, <4>1
        <4>2. CASE j # n + 1
          <5>1. i \in 1..n /\ j \in 1..n
            BY <1>1, <3>3, <4>2
          <5>2. QED
            BY <1>3, <2>1, <3>3, <5>1
        <4>3. QED
          BY <4>1, <4>2
      <3>4. QED
        BY <2>1, <3>2, <3>3 DEF InOrder
    <2>3. Blocks(G, k + 1, now)
      <3>1. CASE Len(G) > k + 1 /\ k = 0
        <4>1. F[n] + BlockWindow <= now /\ n \in 1..n
          BY <1>1, <1>4, <2>1, <3>1
        <4>2. Len(G) - (k + 1) = n /\ Len(G) - (k + 1) + 1 = n + 1
          BY <1>1, <2>1, <3>1
        <4>3. QED
          BY <2>1, <4>1, <4>2, <3>1 DEF Blocks
      <3>2. CASE Len(G) > k + 1 /\ k # 0
        <4>1. F[n - k] + BlockWindow <= F[n - k + 1] /\ n - k \in 1..n /\ n - k + 1 \in 1..n
          BY <1>1, <1>4, <2>1, <3>2
        <4>2. Len(G) - (k + 1) = n - k /\ Len(G) - (k + 1) + 1 = n - k + 1 /\ k + 1 # 0
          BY <1>1, <2>1, <3>2
        <4>3. QED
          BY <2>1, <4>1, <4>2, <3>2 DEF Blocks
      <3>3. QED
        BY <3>1, <3>2 DEF Blocks
    <2>4. Apart(G)
      <3> SUFFICES ASSUME n = MaxFailed PROVE G[1] + BlockWindow <= G[MaxFailed + 1]
        BY <1>1, <2>1 DEF Apart
      <3>1. 1 \in 1..n /\ n \in 1..n /\ n - k \in 1..n /\ n > k
        BY <1>1
      <3>2. CASE k = 0
        BY <1>1, <1>3, <1>4, <2>1, <3>1, <3>2
      <3>3. CASE k # 0
        <4>1. n - k + 1 \in 1..n /\ F[n - k] + BlockWindow <= F[n - k + 1] /\ F[1] <= F[n - k] /\ F[n - k + 1] <= now
          BY <1>1, <1>3, <1>4, <3>1, <3>3
        <4>2. F[1] \in Nat /\ F[n - k] \in Nat /\ F[n - k + 1] \in Nat /\ G[1] = F[1] /\ G[MaxFailed + 1] = now
          BY <1>3, <2>1, <3>1, <4>1
        <4>3. QED
          BY <1>1, <4>1, <4>2
      <3>4. QED
        BY <3>2, <3>3
    <2>5. /\ G \in Seq(Nat) /\ Len(G) <= MaxFailed + 1 /\ Len(G) > 0 /\ G[Len(G)] = now /\ k + 1 <= Len(G)
          /\ InOrder(G, now) /\ Apart(G) /\ (k + 1 < MaxFailed => Blocks(G, k + 1, now))
      BY <1>1, <1>2, <1>5, <2>1, <2>2, <2>3, <2>4
    <2>6. QED
      BY <2>5 DEF G
  <1>6. CASE n = m
    <2>1. Len(G) = n /\ G[n] = now /\ (\A i \in 1..(n - 1) : G[i] = F[i + 1]) /\ n = MaxFailed + 1
      BY <1>2, <1>6
    <2>2. \A i \in 1..n : i = n \/ (i \in 1..(n - 1) /\ i + 1 \in 1..n)
      BY <1>1
    <2>3. InOrder(G, now)
      <3>1. \A i \in 1..n : G[i] \in Nat /\ G[i] <= now
        BY <1>3, <2>1, <2>2
      <3>2. ASSUME NEW i \in 1..n, NEW j \in 1..n, i <= j PROVE G[i] <= G[j]
        <4>1. CASE j = n
          BY <2>1, <3>1, <4>1
        <4>2. CASE j # n
          <5>1. i \in 1..(n - 1) /\ j \in 1..(n - 1) /\ i + 1 \in 1..n /\ j + 1 \in 1..n /\ i + 1 <= j + 1
            BY <1>1, <3>2, <4>2
          <5>2. QED
            BY <1>3, <2>1, <5>1
        <4>3. QED
          BY <4>1, <4>2
      <3>3. QED
        BY <2>1, <3>1, <3>2 DEF InOrder
    <2>4. ASSUME k + 1 < MaxFailed PROVE Blocks(G, k + 1, now)
      <3>1. n > k + 1 /\ k + 1 # 0 /\ Len(G) - (k + 1) = n - k - 1
        BY <1>1, <2>1, <2>4
      <3>2. n - k - 1 \in 1..(n - 1) /\ (n - k - 1) + 1 = n - k
        BY <1>1, <2>1, <2>4
      <3>3. G[n - k - 1] = F[n - k]
        BY <2>1, <3>2
      <3>4. F[n - k] + BlockWindow <= G[n - k]
        <4>1. CASE k = 0
          BY <1>1, <1>4, <2>1, <4>1
        <4>2. CASE k # 0
          <5>1. n - k \in 1..(n - 1) /\ n > k
            BY <1>1, <2>1, <2>4, <4>2
          <5>2. G[n - k] = F[n - k + 1]
            BY <2>1, <5>1
          <5>3. QED
            BY <1>4, <4>2, <5>1, <5>2
        <4>3. QED
          BY <4>1, <4>2
      <3>5. QED
        BY <3>1, <3>2, <3>3, <3>4 DEF Blocks
    <2>5. Apart(G)
      <3>1. 1 \in 1..(n - 1) /\ 2 \in 1..n /\ n > k /\ n \in 1..n
        BY <1>1, <2>1
      <3>2. G[1] = F[2] /\ G[MaxFailed + 1] = now
        BY <2>1, <3>1
      <3>3. F[2] \in Nat /\ F[n] \in Nat /\ F[2] <= F[n]
        BY <1>1, <1>3, <2>1, <3>1
      <3>4. CASE k = 0
        BY <1>1, <1>4, <2>1, <3>1, <3>2, <3>3, <3>4 DEF Apart
      <3>5. CASE k # 0
        <4>1. n - k \in 1..n /\ n - k + 1 \in 1..n /\ 2 <= n - k
          BY <1>1, <2>1, <3>5
        <4>2. /\ F[n - k] \in Nat /\ F[n - k + 1] \in Nat /\ F[2] <= F[n - k]
              /\ F[n - k] + BlockWindow <= F[n - k + 1] /\ F[n - k + 1] <= now
          BY <1>3, <1>4, <3>1, <3>5, <4>1
        <4>3. \A a, b, c \in Nat : a <= b /\ b + BlockWindow <= c /\ c <= now => a + BlockWindow <= now
          BY <1>1
        <4>4. G[1] + BlockWindow <= G[MaxFailed + 1]
          BY <3>2, <3>3, <4>2, <4>3
        <4>5. QED
          BY <4>4 DEF Apart
      <3>6. QED
        BY <3>4, <3>5
    <2>6. /\ G \in Seq(Nat) /\ Len(G) <= MaxFailed + 1 /\ Len(G) > 0 /\ G[Len(G)] = now /\ k + 1 <= Len(G)
          /\ InOrder(G, now) /\ Apart(G) /\ (k + 1 < MaxFailed => Blocks(G, k + 1, now))
      BY <1>1, <1>2, <1>6, <2>1, <2>3, <2>4, <2>5
    <2>7. QED
      BY <2>6 DEF G
  <1>7. QED
    BY <1>1, <1>5, <1>6

FailOk(u) ==
    IF users[u] = Absent THEN fails[u] = <<>>
    ELSE /\ users[u].failed < MaxFailed /\ users[u].failed <= Len(fails[u]) /\ Len(fails[u]) <= MaxFailed + 1
         /\ InOrder(fails[u], clock) /\ Apart(fails[u])
         /\ Len(fails[u]) > 0 /\ users[u].failed = 0 => users[u].blockedUntil # Never
         /\ Blocks(fails[u], users[u].failed, users[u].blockedUntil)

FailInv == (Serial => userRows = users /\ userSaves = {}) /\ (Steady => \A u \in Users : FailOk(u))

\* One user's record and failures change; time does not.
LEMMA FailChanged ==
  ASSUME TypeOK, FailInv, NEW u \in Users, NEW rec \in PortalUser, PersistUser(u, rec),
         UNCHANGED <<adapter, crashes>>, clock' = clock, \A x \in Users : x # u => fails'[x] = fails[x],
         Steady => FailOk(u)'
  PROVE  FailInv'
  <1>1. (Serial' <=> Serial) /\ (Steady' <=> Steady)
    BY DEF Serial, Steady
  <1>2. users' = [users EXCEPT ![u] = rec] /\ (Serial => userRows' = [userRows EXCEPT ![u] = rec] /\ userSaves' = userSaves)
    BY DEF PersistUser
  <1>3. ASSUME Steady, NEW x \in Users, x # u PROVE FailOk(x)'
    <2>1. users'[x] = users[x] /\ fails'[x] = fails[x] /\ FailOk(x)
      BY <1>2, <1>3 DEF TypeOK, FailInv
    <2>2. QED
      BY <2>1 DEF FailOk, InOrder, Apart, Blocks
  <1>4. QED
    BY <1>1, <1>2, <1>3 DEF FailInv
LEMMA FailStep == TypeOK /\ FailInv /\ [Next]_vars => FailInv'
  <1> SUFFICES ASSUME TypeOK, FailInv, [Next]_vars PROVE FailInv'
    OBVIOUS
  <1>0. /\ clock \in Nat /\ fails \in [Users -> Seq(Nat)] /\ BlockWindow \in Nat /\ MaxFailed \in Nat \ {0}
        /\ Absent \notin PortalUser /\ Never \notin Nat
    BY PortalAssumption DEF TypeOK, LimitsTypeOK
  <1>1. ASSUME NEW u \in Users, users'[u] # Absent, users'[u].failed = 0, fails'[u] = <<>> PROVE FailOk(u)'
    <2>1. Len(fails'[u]) = 0
      BY <1>1
    <2>2. QED
      BY <1>0, <1>1, <2>1 DEF FailOk, InOrder, Apart, Blocks
  <1>2. ASSUME NEW u \in Users, NEW rec \in PortalUser, PersistUser(u, rec) PROVE users'[u] = rec /\ rec # Absent
    BY <1>0, <1>2 DEF PersistUser, TypeOK
  <1>3. CASE RegisterPortalUser
    <2>1. PICK s \in Spellings, p \in Passwords :
              /\ users[Normal[s]] = Absent
              /\ PersistUser(Normal[s], [password |-> p, failed |-> 0, blockedUntil |-> Never])
              /\ UNCHANGED <<adapter, crashes, fails, clock>>
      BY <1>3 DEF RegisterPortalUser
    <2> DEFINE u == Normal[s]
               rec == [password |-> p, failed |-> 0, blockedUntil |-> Never]
    <2>2. u \in Users
      BY NormalType
    <2>3. rec \in PortalUser /\ rec.failed = 0
      BY <2>2, RecordTypes
    <2>4. PersistUser(u, rec)
      BY <2>1
    <2> HIDE DEF rec
    <2>5. Steady => FailOk(u)'
      BY <1>1, <1>2, <2>1, <2>2, <2>3, <2>4 DEF FailInv, FailOk
    <2>6. QED
      BY <2>1, <2>2, <2>3, <2>4, <2>5, FailChanged
  <1>4. CASE LoginWrong
    <2>1. PICK s \in Spellings :
              /\ users[Normal[s]] # Absent /\ ~Blocked(Normal[s]) /\ Counted("login", s) /\ CountedFailure(Normal[s])
              /\ fails' = [fails EXCEPT ![Normal[s]] = LastOf(Append(@, clock), MaxFailed + 1)]
              /\ UNCHANGED <<adapter, crashes>>
      BY <1>4 DEF LoginWrong
    <2> DEFINE u == Normal[s]
               F == fails[u]
               k == users[u].failed
               G == LastOf(Append(F, clock), MaxFailed + 1)
    <2>2. u \in Users /\ clock' = clock /\ users[u] \in PortalUser
      BY <2>1, NormalType, RecordTypes, CountedType DEF TypeOK
    <2>3. PICK rec \in PortalUser :
              /\ PersistUser(u, rec)
              /\ IF k + 1 >= MaxFailed THEN rec.failed = 0 /\ rec.blockedUntil = clock + BlockWindow
                 ELSE rec.failed = k + 1 /\ rec.blockedUntil = users[u].blockedUntil
      BY <2>1, <2>2, FailureType
    <2>4. fails'[u] = G /\ \A x \in Users : x # u => fails'[x] = fails[x]
      BY <1>0, <2>1, <2>2
    <2>5. F \in Seq(Nat) /\ k \in Nat /\ users[u].blockedUntil \in Nat \cup {Never}
      BY <1>0, <2>2 DEF PortalUser, Time
    <2>6. ASSUME Steady PROVE FailOk(u)'
      <3>1. FailOk(u)
        BY <2>2, <2>6 DEF FailInv
      <3>2. /\ k < MaxFailed /\ k <= Len(F) /\ Len(F) <= MaxFailed + 1 /\ InOrder(F, clock)
            /\ Len(F) > 0 /\ k = 0 => users[u].blockedUntil # Never
            /\ Blocks(F, k, users[u].blockedUntil)
        BY <2>1, <3>1 DEF FailOk
      <3>3. Blocks(F, k, clock)
        <4>1. CASE k = 0 /\ Len(F) > 0
          <5>1. users[u].blockedUntil \in Nat /\ users[u].blockedUntil <= clock
            BY <1>0, <2>1, <2>5, <3>2, <4>1 DEF Blocked
          <5>2. F[Len(F)] \in Nat /\ F[Len(F)] + BlockWindow <= users[u].blockedUntil
            BY <2>5, <3>2, <4>1 DEF Blocks
          <5>3. F[Len(F)] + BlockWindow <= clock
            BY <1>0, <5>1, <5>2
          <5>4. QED
            BY <4>1, <5>3 DEF Blocks
        <4>2. CASE ~(k = 0 /\ Len(F) > 0)
          BY <2>5, <3>2, <4>2 DEF Blocks
        <4>3. QED
          BY <4>1, <4>2
      <3> HIDE DEF F, k
      <3>4. /\ G \in Seq(Nat) /\ Len(G) <= MaxFailed + 1 /\ Len(G) > 0 /\ G[Len(G)] = clock /\ k + 1 <= Len(G)
            /\ InOrder(G, clock) /\ Apart(G) /\ (k + 1 < MaxFailed => Blocks(G, k + 1, clock))
        BY <1>0, <2>5, <3>2, <3>3, FailureAppended
      <3> HIDE DEF G
      <3>5. users'[u] = rec /\ rec # Absent
        BY <1>2, <2>2, <2>3
      <3>6. CASE k + 1 >= MaxFailed
        <4>1. rec.failed = 0 /\ rec.blockedUntil = clock + BlockWindow /\ rec.blockedUntil # Never
          BY <1>0, <2>3, <3>6
        <4>2. Blocks(G, 0, clock + BlockWindow)
          BY <1>0, <3>4 DEF Blocks
        <4>3. /\ 0 < MaxFailed /\ 0 <= Len(G)
          BY <1>0, <3>4
        <4>4. QED
          BY <2>2, <2>4, <3>4, <3>5, <4>1, <4>2, <4>3 DEF FailOk, InOrder, Apart, Blocks
      <3>7. CASE ~(k + 1 >= MaxFailed)
        <4>1. rec.failed = k + 1 /\ k + 1 < MaxFailed /\ k + 1 # 0
          BY <1>0, <2>3, <2>5, <3>7
        <4>2. QED
          BY <2>2, <2>4, <3>4, <3>5, <4>1 DEF FailOk, InOrder, Apart, Blocks
      <3>8. QED
        BY <3>6, <3>7
    <2>7. QED
      BY <2>1, <2>2, <2>3, <2>4, <2>6, FailChanged
  <1>5. CASE LoginRight
    <2>1. PICK s \in Spellings :
              /\ users[Normal[s]] # Absent /\ Counted("login", s)
              /\ PersistUser(Normal[s], [users[Normal[s]] EXCEPT !.failed = 0, !.blockedUntil = Never])
              /\ fails' = [fails EXCEPT ![Normal[s]] = <<>>] /\ UNCHANGED <<adapter, crashes>>
      BY <1>5 DEF LoginRight
    <2> DEFINE u == Normal[s]
               rec == [users[u] EXCEPT !.failed = 0, !.blockedUntil = Never]
    <2>2. u \in Users /\ clock' = clock
      BY <2>1, NormalType, CountedType DEF TypeOK
    <2>3. users[u] \in PortalUser /\ rec \in PortalUser
      BY <2>1, <2>2, RecordTypes
    <2>4. rec.failed = 0
      BY <2>3 DEF PortalUser
    <2>5. PersistUser(u, rec) /\ fails'[u] = <<>> /\ \A x \in Users : x # u => fails'[x] = fails[x]
      BY <1>0, <2>1, <2>2
    <2> HIDE DEF rec
    <2>6. FailOk(u)'
      BY <1>1, <1>2, <2>2, <2>3, <2>4, <2>5
    <2>7. QED
      BY <2>1, <2>2, <2>3, <2>5, <2>6, FailChanged
  <1>6. CASE ConfirmResetOtp
    <2>1. PICK s \in Spellings, p \in Passwords :
              /\ users[Normal[s]] # Absent /\ UNCHANGED <<adapter, crashes, fails>> /\ Counted("reset-confirm", s)
              /\ PersistUser(Normal[s], [users[Normal[s]] EXCEPT !.password = p])
      BY <1>6 DEF ConfirmResetOtp, NewPassword
    <2> DEFINE u == Normal[s]
               rec == [users[u] EXCEPT !.password = p]
    <2>2. u \in Users /\ clock' = clock
      BY <2>1, NormalType, CountedType DEF TypeOK
    <2>3. users[u] \in PortalUser /\ rec \in PortalUser
      BY <2>1, <2>2, RecordTypes
    <2>4. rec.failed = users[u].failed /\ rec.blockedUntil = users[u].blockedUntil
      BY <2>3 DEF PortalUser
    <2>5. PersistUser(u, rec)
      BY <2>1
    <2> HIDE DEF rec
    <2>6. users'[u] = rec /\ rec # Absent
      BY <1>2, <2>2, <2>3, <2>5
    <2>7. Steady => FailOk(u)'
      BY <2>1, <2>2, <2>4, <2>6 DEF FailInv, FailOk, InOrder, Apart, Blocks
    <2>8. QED
      BY <2>1, <2>2, <2>3, <2>5, <2>7, FailChanged
  <1>7. CASE SaveUser
    <2>1. ~Serial /\ UNCHANGED <<adapter, users, fails, crashes, clock>>
      BY <1>7 DEF SaveUser, FailInv
    <2>2. QED
      BY <2>1 DEF FailInv, FailOk, InOrder, Apart, Blocks, Serial, Steady
  <1>8. CASE Restart
    <2>1. /\ users' = userRows /\ userRows' = userRows /\ userSaves' = {} /\ UNCHANGED <<adapter, fails, clock>>
          /\ crashes' = crashes + 1
      BY <1>8 DEF Restart
    <2>2. crashes' # 0
      BY <2>1 DEF TypeOK
    <2>3. Steady' => Serial
      BY <2>1, <2>2 DEF Steady, Serial
    <2>4. QED
      BY <2>1, <2>3 DEF FailInv, FailOk, InOrder, Apart, Blocks, Serial, Steady
  <1>9. CASE PassTime
    <2>1. clock' = clock + 1 /\ UNCHANGED authVars
      BY <1>9 DEF PassTime, Tick
    <2>2. ASSUME NEW u \in Users, InOrder(fails[u], clock) PROVE InOrder(fails[u], clock)'
      <3>1. fails'[u] = fails[u] /\ \A i \in 1..Len(fails[u]) : fails[u][i] \in Nat
        BY <1>0, <2>1 DEF authVars
      <3>2. QED
        BY <1>0, <2>1, <2>2, <3>1 DEF InOrder
    <2>3. UNCHANGED <<adapter, users, userRows, userSaves, fails, crashes>>
      BY <2>1 DEF authVars
    <2>4. QED
      BY <2>2, <2>3 DEF FailInv, FailOk, Apart, Blocks, Serial, Steady
  <1>10. CASE \/ LoginInVain \/ ValidatePortalSession \/ ResetRequestInVain \/ IssueResetOtp
              \/ ResetConfirmInVain \/ DropOtp \/ WrongOtp \/ OtherRequest \/ SaveSession \/ UNCHANGED vars
    <2>1. UNCHANGED <<adapter, users, userRows, userSaves, fails, crashes>>
      BY <1>10 DEF LoginInVain, ValidatePortalSession, ResetRequestInVain, IssueResetOtp, DropOtp, WrongOtp,
                   ResetConfirmInVain, OtherRequest, SaveSession, authVars, vars
    <2>2. clock' = clock
      BY <1>10 DEF LoginInVain, ValidatePortalSession, ResetRequestInVain, IssueResetOtp, DropOtp, WrongOtp,
                   ResetConfirmInVain, OtherRequest, SaveSession, Counted, Check, vars
    <2>3. QED
      BY <2>1, <2>2 DEF FailInv, FailOk, InOrder, Apart, Blocks, Serial, Steady
  <1>11. QED
    BY <1>3, <1>4, <1>5, <1>6, <1>7, <1>8, <1>9, <1>10 DEF Next

\* More wrong passwords in a row than it takes to block a user are spread over
\* the time of a block at least, however the address is spelled, whatever is
\* reset, and through restarts with SQLite (authenticatePortalUser).
THEOREM PortalFailuresThrottled == Spec => []FailuresThrottled
  <1>1. Init => FailInv
    BY DEF Init, FailInv, FailOk
  <1>2. TypeOK /\ FailInv => FailuresThrottled
    <2> SUFFICES ASSUME TypeOK, FailInv, Steady, NEW u \in Users, Len(fails[u]) = MaxFailed + 1
                 PROVE  fails[u][MaxFailed + 1] - fails[u][1] >= BlockWindow
      BY DEF FailuresThrottled
    <2>1. MaxFailed \in Nat \ {0} /\ BlockWindow \in Nat
      BY PortalAssumption
    <2>2. fails[u] \in Seq(Nat) /\ FailOk(u) /\ fails[u] # <<>>
      BY <2>1 DEF TypeOK, FailInv
    <2>3. fails[u][1] + BlockWindow <= fails[u][MaxFailed + 1]
      BY <2>2 DEF FailOk, Apart
    <2>4. fails[u][1] \in Nat /\ fails[u][MaxFailed + 1] \in Nat
      BY <2>1, <2>2
    <2>5. QED
      BY <2>1, <2>3, <2>4
  <1>3. QED
    BY <1>1, <1>2, TypesAlways, FailStep, PTL DEF Spec

-----------------------------------------------------------------------------
(* The bounds on requests *)

LEMMA KnownStep == TypeOK /\ KnownInv /\ [Next]_vars => KnownInv'
  <1> SUFFICES ASSUME TypeOK, KnownInv, [Next]_vars PROVE KnownInv'
    OBVIOUS
  <1>1. LimitsTypeOK
    BY DEF TypeOK
  <1>2. ASSUME NEW s \in Spellings, NEW route \in {"login", "reset-request", "reset-confirm"}, Counted(route, s)
        PROVE  KnownInv'
    BY <1>1, <1>2, PortalAssumption, CheckKnown DEF Counted
  <1>3. ASSUME UNCHANGED limitVars, clock' = clock PROVE KnownInv'
    BY <1>3 DEF limitVars, KnownInv, Known
  <1>4. CASE LoginInVain \/ LoginWrong \/ LoginRight
    BY <1>2, <1>4 DEF LoginInVain, LoginWrong, LoginRight
  <1>5. CASE ResetRequestInVain \/ IssueResetOtp
    BY <1>2, <1>5 DEF ResetRequestInVain, IssueResetOtp
  <1>6. CASE ResetConfirmInVain \/ DropOtp \/ WrongOtp \/ ConfirmResetOtp
    BY <1>2, <1>6 DEF ResetConfirmInVain, DropOtp, WrongOtp, ConfirmResetOtp
  <1>7. CASE OtherRequest
    BY <1>1, <1>7, CheckKnown DEF OtherRequest
  <1>8. CASE PassTime
    BY <1>1, <1>8, TickKnown DEF PassTime
  <1>9. CASE Restart
    BY <1>9 DEF Restart, KnownInv, Known
  <1>10. CASE RegisterPortalUser \/ ValidatePortalSession \/ SaveUser \/ SaveSession \/ UNCHANGED vars
    BY <1>3, <1>10 DEF RegisterPortalUser, ValidatePortalSession, SaveUser, SaveSession, vars
  <1>11. QED
    BY <1>4, <1>5, <1>6, <1>7, <1>8, <1>9, <1>10 DEF Next

LEMMA LimitsKnown == Spec => [](TypeOK /\ KnownInv)
  <1>1. Init => KnownInv
    BY DEF Init, LimitsInit, KnownInv, Known
  <1>2. QED
    BY <1>1, TypesAlways, KnownStep, PTL DEF Spec

\* Between two restarts, which empty the counters, no stretch of time as long
\* as a window has more than twice a key's limit, whatever the limits, windows
\* and costs of requests (consumeWithinWindow).
THEOREM PortalTwiceAtMost == Spec => []TwiceAtMost
  <1>1. TypeOK /\ KnownInv => TwiceAtMost
    BY KnownImplies DEF TypeOK
  <1>2. QED
    BY <1>1, LimitsKnown, PTL

\* A key that would be refused a request of one check took its limit within
\* the last window's length: the limiter refuses nobody without cause
\* (consumeWithinWindow, retryAfterSeconds).
THEOREM PortalRefusedForCause == Spec => []RefusedForCause
  <1>1. TypeOK /\ KnownInv => RefusedForCause
    BY KnownImplies DEF TypeOK
  <1>2. QED
    BY <1>1, LimitsKnown, PTL
=============================================================================
