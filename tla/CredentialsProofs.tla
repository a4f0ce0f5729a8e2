-------------------------- MODULE CredentialsProofs --------------------------
(***************************************************************************)
(* Theorems about Credentials, for any number of credentials, secrets and  *)
(* tokens, any expiry and life of tokens, and either adapter.              *)
(***************************************************************************)
EXTENDS Credentials, FiniteFacts

-----------------------------------------------------------------------------
(* Types *)

LEMMA FreshType == ASSUME IsFiniteSet(saves) PROVE FreshNumber \in Nat
  BY FreshNumberExists, FS_CardinalityType DEF FreshNumber

\* persistCredential keeps the types, whatever record it is given.
LEMMA ChangedType ==
  ASSUME TypeOK, NEW id \in Ids, NEW rec \in CredentialRecord, told'[id] # Absent,
         \A x \in Ids : told[x] # Absent => told'[x] # Absent, Changed(id, rec)
  PROVE  /\ creds' \in [Ids -> CredentialRecord \cup {Absent}]
         /\ rows' \in [Ids -> CredentialRecord \cup {Absent}]
         /\ saves' \subseteq [n : Nat, id : Ids, rec : CredentialRecord] /\ IsFiniteSet(saves')
         /\ \A x \in Ids : creds'[x] # Absent \/ rows'[x] # Absent => told'[x] # Absent
         /\ \A s \in saves' : told'[s.id] # Absent
  <1> USE DEF TypeOK
  <1>1. creds' = [creds EXCEPT ![id] = rec]
    BY DEF Changed
  <1>2. CASE Serial
    BY <1>1, <1>2 DEF Changed
  <1>3. CASE ~Serial
    <2> DEFINE s == [n |-> FreshNumber, id |-> id, rec |-> rec]
    <2>1. s \in [n : Nat, id : Ids, rec : CredentialRecord] /\ s.id = id
      BY FreshType
    <2>2. saves' = saves \cup {s} /\ rows' = rows
      BY <1>3 DEF Changed
    <2> HIDE DEF s
    <2>3. IsFiniteSet(saves')
      BY <2>2, FS_AddElement
    <2>4. \A x \in saves' : told'[x.id] # Absent
      BY <2>1, <2>2
    <2>5. \A x \in Ids : creds'[x] # Absent \/ rows'[x] # Absent => told'[x] # Absent
      BY <1>1, <2>2
    <2>6. QED
      BY <1>1, <2>1, <2>2, <2>3, <2>4, <2>5
  <1>4. QED
    BY <1>2, <1>3

\* Every step keeps the types.
LEMMA TypeStep == TypeOK /\ [Next]_vars => TypeOK'
  <1> USE CredentialsAssumption
  <1> SUFFICES ASSUME TypeOK, [Next]_vars PROVE TypeOK'
    OBVIOUS
  <1> DEFINE Rest == /\ adapter' \in Adapters /\ tokens' \subseteq Token
                     /\ told' \in [Ids -> Notice \cup {Absent}]
                     /\ made' \in Nat /\ clock' \in Nat /\ crashes' \in Nat
  <1>0. ASSUME NEW id \in Ids, NEW rec \in CredentialRecord, Changed(id, rec), Rest, told'[id] # Absent,
               \A x \in Ids : told[x] # Absent => told'[x] # Absent
        PROVE  TypeOK'
    BY <1>0, ChangedType DEF TypeOK
  <1>1. CASE CreateTenantCredential
    <2>1. PICK id \in Ids, e \in Expiries :
              /\ made' = made + 1
              /\ Changed(id, [secret |-> made + 1, status |-> "active", revokedAt |-> Never, expiresAt |-> e])
              /\ told' = [told EXCEPT ![id] = [secret |-> made + 1, since |-> clock, revokedAt |-> Never]]
              /\ UNCHANGED <<adapter, tokens, clock, crashes>>
      BY <1>1 DEF CreateTenantCredential
    <2>2. [secret |-> made + 1, status |-> "active", revokedAt |-> Never, expiresAt |-> e] \in CredentialRecord
      BY DEF TypeOK, CredentialRecord, Time
    <2>3. [secret |-> made + 1, since |-> clock, revokedAt |-> Never] \in Notice
      BY DEF TypeOK, Notice, Time
    <2>4. Rest /\ told'[id] # Absent /\ \A x \in Ids : told[x] # Absent => told'[x] # Absent
      BY <2>1, <2>3 DEF TypeOK
    <2>5. QED
      BY <1>0, <2>1, <2>2, <2>4
  <1>2. CASE RevokeTenantCredential
    <2>1. PICK id \in Ids :
              /\ creds[id] # Absent
              /\ Changed(id, [creds[id] EXCEPT !.status = "revoked", !.revokedAt = clock])
              /\ told' = [told EXCEPT ![id].revokedAt = IF @ = Never THEN clock ELSE @]
              /\ UNCHANGED <<adapter, tokens, made, clock, crashes>>
      BY <1>2 DEF RevokeTenantCredential
    <2> creds[id] \in CredentialRecord /\ clock \in Nat
      BY <2>1 DEF TypeOK
    <2>2. [creds[id] EXCEPT !.status = "revoked", !.revokedAt = clock] \in CredentialRecord
      BY <2>1 DEF TypeOK, CredentialRecord, Time
    <2>3. told[id] \in Notice
      BY <2>1 DEF TypeOK
    <2>4. told'[id] \in Notice
      <3>1. told'[id] = [told[id] EXCEPT !.revokedAt = IF told[id].revokedAt = Never THEN clock ELSE told[id].revokedAt]
        BY <2>1 DEF TypeOK
      <3>2. clock \in Time
        BY DEF TypeOK, Time
      <3>3. QED
        BY <2>3, <3>1, <3>2 DEF Notice
    <2>5. Rest /\ told'[id] # Absent /\ \A x \in Ids : told[x] # Absent => told'[x] # Absent
      BY <2>1, <2>4 DEF TypeOK
    <2>6. QED
      BY <1>0, <2>1, <2>2, <2>5
  <1>3. CASE RotateTenantCredential
    <2>1. PICK id \in Ids :
              /\ creds[id] # Absent
              /\ made' = made + 1
              /\ Changed(id, [creds[id] EXCEPT !.secret = made + 1, !.revokedAt = Never,
                                               !.status = IF IsExpired(creds[id]) THEN "expired" ELSE "active"])
              /\ told' = [told EXCEPT ![id] = [secret |-> made + 1, since |-> clock, revokedAt |-> Never]]
              /\ UNCHANGED <<adapter, tokens, clock, crashes>>
      BY <1>3 DEF RotateTenantCredential
    <2> creds[id] \in CredentialRecord /\ made \in Nat
      BY <2>1 DEF TypeOK
    <2>2. [creds[id] EXCEPT !.secret = made + 1, !.revokedAt = Never,
              !.status = IF IsExpired(creds[id]) THEN "expired" ELSE "active"] \in CredentialRecord
      <3> DEFINE st == IF IsExpired(creds[id]) THEN "expired" ELSE "active"
      <3>1. st \in {"active", "revoked", "expired"} /\ made + 1 \in Nat /\ Never \in Time
        BY DEF Time
      <3> HIDE DEF st
      <3>2. [creds[id] EXCEPT !.secret = made + 1, !.revokedAt = Never, !.status = st] \in CredentialRecord
        BY <3>1 DEF CredentialRecord
      <3>3. QED
        BY <3>2 DEF st
    <2>3. [secret |-> made + 1, since |-> clock, revokedAt |-> Never] \in Notice
      BY DEF TypeOK, Notice, Time
    <2>4. Rest /\ told'[id] # Absent /\ \A x \in Ids : told[x] # Absent => told'[x] # Absent
      BY <2>1, <2>3 DEF TypeOK
    <2>5. QED
      BY <1>0, <2>1, <2>2, <2>4
  <1>4. CASE HandleClientCredentialsGrant
    <2>1. PICK id \in Ids, secret \in 1..made :
              /\ Matches(id, secret)
              /\ Changed(id, creds[id])
              /\ tokens' = tokens \cup {[id |-> id, secret |-> secret, at |-> clock, told |-> told[id]]}
              /\ UNCHANGED <<adapter, told, made, clock, crashes>>
      BY <1>4 DEF HandleClientCredentialsGrant
    <2>2. creds[id] \in CredentialRecord /\ told[id] # Absent
      BY <2>1 DEF TypeOK, Matches
    <2>3. [id |-> id, secret |-> secret, at |-> clock, told |-> told[id]] \in Token
      BY DEF TypeOK, Token
    <2>4. Rest
      BY <2>1, <2>3 DEF TypeOK
    <2>5. QED
      BY <1>0, <2>1, <2>2, <2>4
  <1>5. CASE FindExpired
    <2>1. PICK id \in Ids, secret \in 1..made :
              /\ Matches(id, secret)
              /\ Changed(id, [creds[id] EXCEPT !.status = "expired"])
              /\ UNCHANGED <<adapter, tokens, told, made, clock, crashes>>
      BY <1>5 DEF FindExpired
    <2>2. [creds[id] EXCEPT !.status = "expired"] \in CredentialRecord /\ told[id] # Absent
      BY <2>1 DEF TypeOK, Matches, CredentialRecord
    <2>3. Rest
      BY <2>1 DEF TypeOK
    <2>4. QED
      BY <1>0, <2>1, <2>2, <2>3
  <1>6. CASE Save
    <2>1. PICK s \in saves : /\ rows' = [rows EXCEPT ![s.id] = s.rec] /\ saves' = saves \ {s}
                             /\ UNCHANGED <<adapter, creds, tokens, told, made, clock, crashes>>
      BY <1>6 DEF Save
    <2>2. s.id \in Ids /\ s.rec \in CredentialRecord /\ told[s.id] # Absent
      BY DEF TypeOK
    <2>3. IsFiniteSet(saves')
      BY <2>1, FS_RemoveElement DEF TypeOK
    <2>4. QED
      BY <2>1, <2>2, <2>3 DEF TypeOK
  <1>7. CASE Tick
    BY <1>7 DEF Tick, TypeOK
  <1>8. CASE Restart
    BY <1>8, FS_EmptySet DEF Restart, TypeOK
  <1>9. CASE UNCHANGED vars
    BY <1>9 DEF vars, TypeOK
  <1>10. QED
    BY <1>1, <1>2, <1>3, <1>4, <1>5, <1>6, <1>7, <1>8, <1>9 DEF Next

\* Records, rows, upserts, tokens and notices keep their types, and nothing is
\* kept that the developer was not told of.
THEOREM CredentialsTypeOK == Spec => []TypeOK
  <1>1. Init => TypeOK
    BY CredentialsAssumption, FS_EmptySet DEF Init, TypeOK
  <1>2. QED
    BY <1>1, TypeStep, PTL DEF Spec

-----------------------------------------------------------------------------
(* Expiry.  The expiry of a credential never changes while one of its      *)
(* tokens is in memory, and no token is issued after it.                   *)

ExpiryInv ==
    \A t \in tokens : /\ creds[t.id] # Absent
                      /\ creds[t.id].expiresAt # Never => t.at <= creds[t.id].expiresAt

\* A change of a record that keeps its expiry keeps ExpiryInv.
LEMMA ExpiryKept ==
  ASSUME TypeOK, ExpiryInv, NEW id \in Ids, NEW rec \in CredentialRecord, Changed(id, rec), tokens' = tokens,
         creds[id] # Absent => rec.expiresAt = creds[id].expiresAt
  PROVE  ExpiryInv'
  <1>1. creds' = [creds EXCEPT ![id] = rec] /\ rec # Absent
    BY CredentialsAssumption DEF Changed
  <1>2. \A t \in tokens : t.id \in Ids
    BY DEF TypeOK, Token
  <1>3. QED
    BY <1>1, <1>2 DEF ExpiryInv, TypeOK

LEMMA ExpiryStep == TypeOK /\ TypeOK' /\ ExpiryInv /\ [Next]_vars => ExpiryInv'
  <1> SUFFICES ASSUME TypeOK, TypeOK', ExpiryInv, [Next]_vars PROVE ExpiryInv'
    OBVIOUS
  <1>0. \A t \in tokens : t.id \in Ids /\ t.at \in Nat
    BY DEF TypeOK, Token
  <1>1. CASE CreateTenantCredential
    <2>1. PICK id \in Ids, e \in Expiries :
              /\ told[id] = Absent
              /\ Changed(id, [secret |-> made + 1, status |-> "active", revokedAt |-> Never, expiresAt |-> e])
              /\ tokens' = tokens
      BY <1>1 DEF CreateTenantCredential
    <2>2. [secret |-> made + 1, status |-> "active", revokedAt |-> Never, expiresAt |-> e] \in CredentialRecord
      BY CredentialsAssumption DEF TypeOK, CredentialRecord, Time
    <2>3. creds[id] = Absent
      BY <2>1 DEF TypeOK
    <2>4. QED
      BY <2>1, <2>2, <2>3, ExpiryKept
  <1>2. CASE RevokeTenantCredential
    <2>1. PICK id \in Ids :
              /\ creds[id] # Absent
              /\ Changed(id, [creds[id] EXCEPT !.status = "revoked", !.revokedAt = clock])
              /\ tokens' = tokens
      BY <1>2 DEF RevokeTenantCredential
    <2>2. creds[id] \in CredentialRecord /\ clock \in Time
      BY <2>1 DEF TypeOK, Time
    <2>3. /\ [creds[id] EXCEPT !.status = "revoked", !.revokedAt = clock] \in CredentialRecord
          /\ [creds[id] EXCEPT !.status = "revoked", !.revokedAt = clock].expiresAt = creds[id].expiresAt
      BY <2>2 DEF CredentialRecord
    <2>4. QED
      BY <2>1, <2>3, ExpiryKept
  <1>3. CASE RotateTenantCredential
    <2>1. PICK id \in Ids :
              /\ creds[id] # Absent
              /\ Changed(id, [creds[id] EXCEPT !.secret = made + 1, !.revokedAt = Never,
                                               !.status = IF IsExpired(creds[id]) THEN "expired" ELSE "active"])
              /\ tokens' = tokens
      BY <1>3 DEF RotateTenantCredential
    <2> DEFINE st == IF IsExpired(creds[id]) THEN "expired" ELSE "active"
    <2>2. /\ creds[id] \in CredentialRecord /\ made + 1 \in Nat /\ Never \in Time
          /\ st \in {"active", "revoked", "expired"}
      BY <2>1 DEF TypeOK, Time
    <2>3. Changed(id, [creds[id] EXCEPT !.secret = made + 1, !.revokedAt = Never, !.status = st])
      BY <2>1
    <2> HIDE DEF st
    <2>4. /\ [creds[id] EXCEPT !.secret = made + 1, !.revokedAt = Never, !.status = st] \in CredentialRecord
          /\ [creds[id] EXCEPT !.secret = made + 1, !.revokedAt = Never, !.status = st].expiresAt = creds[id].expiresAt
      BY <2>2 DEF CredentialRecord
    <2>5. QED
      BY <2>1, <2>3, <2>4, ExpiryKept
  <1>4. CASE HandleClientCredentialsGrant
    <2>1. PICK id \in Ids, secret \in 1..made :
              /\ Matches(id, secret) /\ ~IsExpired(creds[id])
              /\ Changed(id, creds[id])
              /\ tokens' = tokens \cup {[id |-> id, secret |-> secret, at |-> clock, told |-> told[id]]}
      BY <1>4 DEF HandleClientCredentialsGrant
    <2>2. creds' = creds /\ creds[id] \in CredentialRecord /\ creds[id] # Absent
      BY <2>1 DEF Changed, TypeOK, Matches
    <2>3. creds[id].expiresAt # Never => clock <= creds[id].expiresAt
      BY <2>1, <2>2 DEF IsExpired, TypeOK, CredentialRecord, Time
    <2>4. QED
      BY <2>1, <2>2, <2>3 DEF ExpiryInv
  <1>5. CASE FindExpired
    <2>1. PICK id \in Ids, secret \in 1..made :
              /\ Matches(id, secret)
              /\ Changed(id, [creds[id] EXCEPT !.status = "expired"])
              /\ tokens' = tokens
      BY <1>5 DEF FindExpired
    <2>2. creds[id] \in CredentialRecord
      BY <2>1 DEF TypeOK, Matches
    <2>3. /\ [creds[id] EXCEPT !.status = "expired"] \in CredentialRecord
          /\ [creds[id] EXCEPT !.status = "expired"].expiresAt = creds[id].expiresAt
      BY <2>2 DEF CredentialRecord
    <2>4. QED
      BY <2>1, <2>3, ExpiryKept
  <1>6. CASE Save
    BY <1>6 DEF Save, ExpiryInv
  <1>7. CASE Tick
    BY <1>7 DEF Tick, ExpiryInv
  <1>8. CASE Restart
    BY <1>8 DEF Restart, ExpiryInv
  <1>9. CASE UNCHANGED vars
    BY <1>9 DEF vars, ExpiryInv
  <1>10. QED
    BY <1>1, <1>2, <1>3, <1>4, <1>5, <1>6, <1>7, <1>8, <1>9 DEF Next

\* No token is accepted later than the tokens' life after its credential's
\* expiry, whatever is rotated, revoked or lost, with either adapter
\* (validateClient, validateAccessToken).
THEOREM CredentialsExpiryRespected == Spec => []ExpiryRespected
  <1>1. Init => ExpiryInv
    BY DEF Init, ExpiryInv
  <1>2. TypeOK /\ ExpiryInv => ExpiryRespected
    <2> SUFFICES ASSUME TypeOK, ExpiryInv, NEW t \in tokens, Accepted(t), creds[t.id].expiresAt # Never
                 PROVE  clock <= creds[t.id].expiresAt + TokenTtl
      BY DEF ExpiryRespected
    <2>1. t.at \in Nat /\ t.id \in Ids /\ creds[t.id] # Absent
      BY DEF TypeOK, Token, ExpiryInv
    <2>2. creds[t.id].expiresAt \in Nat
      BY <2>1 DEF TypeOK, CredentialRecord, Time
    <2>3. clock <= t.at + TokenTtl /\ t.at <= creds[t.id].expiresAt /\ clock \in Nat /\ TokenTtl \in Nat
      BY CredentialsAssumption DEF Accepted, ExpiryInv, TypeOK
    <2>4. QED
      BY <2>1, <2>2, <2>3
  <1>3. QED
    BY <1>1, <1>2, CredentialsTypeOK, ExpiryStep, PTL DEF Spec

-----------------------------------------------------------------------------
(* Secrets and revocations.  As long as no record from before comes back,  *)
(* every record has the secret that the developer was given last, and is   *)
(* revoked if the developer was told so; a token is older than what        *)
(* replaced its secret or revoked its credential.                          *)

RecordKnown(id) ==
    creds[id] # Absent => /\ creds[id].secret = told[id].secret
                          /\ creds[id].status # "revoked" => told[id].revokedAt = Never

TokenKnown(t) ==
    /\ t.told # Absent /\ t.secret = t.told.secret /\ t.told.revokedAt = Never
    /\ t.at <= clock /\ told[t.id] # Absent
    /\ told[t.id].revokedAt # Never => t.at <= told[t.id].revokedAt
    /\ told[t.id].secret # t.secret => t.at <= told[t.id].since

KnownInv ==
    /\ Serial => rows = creds /\ saves = {}
    /\ Steady => /\ \A id \in Ids : RecordKnown(id)
                 /\ \A t \in tokens : TokenKnown(t)

\* The portal's changes of a record keep KnownInv.
LEMMA KnownChanged ==
  ASSUME TypeOK, TypeOK', KnownInv, NEW id \in Ids, NEW rec \in CredentialRecord, Changed(id, rec),
         NEW new \in Notice, told' = [told EXCEPT ![id] = new],
         Steady => rec.secret = new.secret /\ (rec.status # "revoked" => new.revokedAt = Never),
         \A t \in tokens : t.id = id /\ Steady =>
             /\ new.revokedAt # Never => t.at <= new.revokedAt
             /\ new.secret # t.secret => t.at <= new.since,
         UNCHANGED <<adapter, tokens, clock, crashes>>
  PROVE  KnownInv'
  <1>1. creds' = [creds EXCEPT ![id] = rec] /\ (Serial => rows' = [rows EXCEPT ![id] = rec] /\ saves' = saves)
    BY DEF Changed
  <1>2. (Serial' <=> Serial) /\ (Steady' <=> Steady)
    BY DEF Serial, Steady
  <1>3. Serial' => rows' = creds' /\ saves' = {}
    BY <1>1, <1>2 DEF KnownInv
  <1>4. ASSUME Steady, NEW x \in Ids PROVE RecordKnown(x)'
    BY <1>1, <1>4 DEF KnownInv, RecordKnown, TypeOK
  <1>5. ASSUME Steady, NEW t \in tokens PROVE TokenKnown(t)'
    <2>1. TokenKnown(t) /\ t.id \in Ids /\ new # Absent
      BY <1>5, CredentialsAssumption DEF KnownInv, TypeOK, Token
    <2>2. CASE t.id = id
      BY <1>5, <2>1, <2>2 DEF TokenKnown, TypeOK
    <2>3. CASE t.id # id
      BY <2>1, <2>3 DEF TokenKnown, TypeOK
    <2>4. QED
      BY <2>2, <2>3
  <1>6. QED
    BY <1>2, <1>3, <1>4, <1>5 DEF KnownInv

LEMMA KnownStep == TypeOK /\ TypeOK' /\ KnownInv /\ [Next]_vars => KnownInv'
  <1> SUFFICES ASSUME TypeOK, TypeOK', KnownInv, [Next]_vars PROVE KnownInv'
    OBVIOUS
  <1>0. clock \in Nat /\ made \in Nat /\ Never \notin Nat
    BY CredentialsAssumption DEF TypeOK
  <1>00. \A t \in tokens : t.id \in Ids /\ t.at \in Nat
    BY DEF TypeOK, Token
  <1>1. CASE CreateTenantCredential
    <2>1. PICK id \in Ids, e \in Expiries :
              /\ told[id] = Absent
              /\ Changed(id, [secret |-> made + 1, status |-> "active", revokedAt |-> Never, expiresAt |-> e])
              /\ told' = [told EXCEPT ![id] = [secret |-> made + 1, since |-> clock, revokedAt |-> Never]]
              /\ UNCHANGED <<adapter, tokens, clock, crashes>>
      BY <1>1 DEF CreateTenantCredential
    <2> DEFINE rec == [secret |-> made + 1, status |-> "active", revokedAt |-> Never, expiresAt |-> e]
               new == [secret |-> made + 1, since |-> clock, revokedAt |-> Never]
    <2>2. rec \in CredentialRecord /\ new \in Notice
      BY CredentialsAssumption DEF TypeOK, CredentialRecord, Notice, Time
    <2>3. rec.secret = new.secret /\ (rec.status # "revoked" => new.revokedAt = Never)
      OBVIOUS
    <2>4. \A t \in tokens : t.id = id /\ Steady =>
             /\ new.revokedAt # Never => t.at <= new.revokedAt
             /\ new.secret # t.secret => t.at <= new.since
      BY <2>1 DEF KnownInv, TokenKnown
    <2>5. Changed(id, rec) /\ told' = [told EXCEPT ![id] = new] /\ UNCHANGED <<adapter, tokens, clock, crashes>>
      BY <2>1
    <2> HIDE DEF rec, new
    <2>6. QED
      BY <2>2, <2>3, <2>4, <2>5, KnownChanged
  <1>2. CASE RevokeTenantCredential
    <2>1. PICK id \in Ids :
              /\ creds[id] # Absent
              /\ Changed(id, [creds[id] EXCEPT !.status = "revoked", !.revokedAt = clock])
              /\ told' = [told EXCEPT ![id].revokedAt = IF @ = Never THEN clock ELSE @]
              /\ UNCHANGED <<adapter, tokens, made, clock, crashes>>
      BY <1>2 DEF RevokeTenantCredential
    <2> DEFINE rec == [creds[id] EXCEPT !.status = "revoked", !.revokedAt = clock]
               at == IF told[id].revokedAt = Never THEN clock ELSE told[id].revokedAt
               new == [told[id] EXCEPT !.revokedAt = at]
    <2>2. creds[id] \in CredentialRecord /\ told[id] \in Notice /\ clock \in Time
      BY <2>1 DEF TypeOK, Time
    <2>3. /\ rec \in CredentialRecord /\ new \in Notice /\ rec.secret = creds[id].secret /\ rec.status = "revoked"
          /\ new.secret = told[id].secret /\ new.since = told[id].since /\ new.revokedAt = at
      BY <2>2 DEF CredentialRecord, Notice
    <2>4. Changed(id, rec) /\ UNCHANGED <<adapter, tokens, clock, crashes>>
      BY <2>1
    <2>5. told' = [told EXCEPT ![id] = new]
      BY <2>1 DEF TypeOK
    <2>6. \A t \in tokens : t.id = id /\ Steady =>
             /\ new.revokedAt # Never => t.at <= new.revokedAt
             /\ new.secret # t.secret => t.at <= new.since
      BY <2>3 DEF KnownInv, TokenKnown
    <2> HIDE DEF rec, new, at
    <2>7. Steady => rec.secret = new.secret /\ (rec.status # "revoked" => new.revokedAt = Never)
      BY <2>1, <2>3 DEF KnownInv, RecordKnown
    <2>8. rec \in CredentialRecord /\ new \in Notice
      BY <2>3
    <2>9. QED
      BY <2>4, <2>5, <2>6, <2>7, <2>8, KnownChanged
  <1>3. CASE RotateTenantCredential
    <2>1. PICK id \in Ids :
              /\ creds[id] # Absent
              /\ Changed(id, [creds[id] EXCEPT !.secret = made + 1, !.revokedAt = Never,
                                               !.status = IF IsExpired(creds[id]) THEN "expired" ELSE "active"])
              /\ told' = [told EXCEPT ![id] = [secret |-> made + 1, since |-> clock, revokedAt |-> Never]]
              /\ UNCHANGED <<adapter, tokens, clock, crashes>>
      BY <1>3 DEF RotateTenantCredential
    <2> DEFINE st == IF IsExpired(creds[id]) THEN "expired" ELSE "active"
               rec == [creds[id] EXCEPT !.secret = made + 1, !.revokedAt = Never, !.status = st]
               new == [secret |-> made + 1, since |-> clock, revokedAt |-> Never]
    <2>2. /\ creds[id] \in CredentialRecord /\ made + 1 \in Nat /\ Never \in Time
          /\ st \in {"active", "revoked", "expired"}
      BY <2>1 DEF TypeOK, Time
    <2>3. Changed(id, rec) /\ told' = [told EXCEPT ![id] = new] /\ UNCHANGED <<adapter, tokens, clock, crashes>>
      BY <2>1
    <2> HIDE DEF st
    <2>4. rec \in CredentialRecord /\ rec.secret = made + 1
      BY <2>2 DEF CredentialRecord
    <2>5. new \in Notice /\ new.secret = made + 1 /\ new.since = clock /\ new.revokedAt = Never
      BY <2>2, <1>0 DEF Notice
    <2>6. \A t \in tokens : Steady => t.at <= clock
      BY DEF KnownInv, TokenKnown
    <2> HIDE DEF rec, new
    <2>7. QED
      BY <2>3, <2>4, <2>5, <2>6, KnownChanged
  <1>4. CASE HandleClientCredentialsGrant
    <2>1. PICK id \in Ids, secret \in 1..made :
              /\ Matches(id, secret)
              /\ Changed(id, creds[id])
              /\ tokens' = tokens \cup {[id |-> id, secret |-> secret, at |-> clock, told |-> told[id]]}
              /\ UNCHANGED <<adapter, told, made, clock, crashes>>
      BY <1>4 DEF HandleClientCredentialsGrant
    <2>2. creds' = creds /\ (Serial' <=> Serial) /\ (Steady' <=> Steady)
      BY <2>1 DEF Changed, TypeOK, Serial, Steady
    <2>3. Serial' => rows' = creds' /\ saves' = {}
      BY <2>1, <2>2 DEF Changed, KnownInv
    <2>4. ASSUME Steady PROVE TokenKnown([id |-> id, secret |-> secret, at |-> clock, told |-> told[id]])
      <3>1. creds[id] # Absent /\ creds[id].secret = secret /\ creds[id].status # "revoked" /\ told[id] # Absent
        BY <2>1 DEF Matches, TypeOK
      <3>2. secret = told[id].secret /\ told[id].revokedAt = Never
        BY <3>1, <2>4 DEF KnownInv, RecordKnown
      <3>3. QED
        BY <1>0, <3>1, <3>2 DEF TokenKnown
    <2>5. QED
      BY <2>1, <2>2, <2>3, <2>4 DEF KnownInv, RecordKnown, TokenKnown
  <1>5. CASE FindExpired
    <2>1. PICK id \in Ids, secret \in 1..made :
              /\ Matches(id, secret)
              /\ Changed(id, [creds[id] EXCEPT !.status = "expired"])
              /\ UNCHANGED <<adapter, tokens, told, made, clock, crashes>>
      BY <1>5 DEF FindExpired
    <2> DEFINE rec == [creds[id] EXCEPT !.status = "expired"]
    <2>2. creds[id] \in CredentialRecord /\ told[id] \in Notice /\ creds[id] # Absent /\ creds[id].status # "revoked"
      BY <2>1 DEF TypeOK, Matches
    <2>3. rec \in CredentialRecord /\ rec.secret = creds[id].secret /\ rec.status = "expired"
      BY <2>2 DEF CredentialRecord
    <2>4. Changed(id, rec) /\ UNCHANGED <<adapter, tokens, clock, crashes>> /\ told' = [told EXCEPT ![id] = told[id]]
      BY <2>1 DEF TypeOK
    <2> HIDE DEF rec
    <2>5. \A t \in tokens : t.id = id /\ Steady =>
             /\ told[id].revokedAt # Never => t.at <= told[id].revokedAt
             /\ told[id].secret # t.secret => t.at <= told[id].since
      BY DEF KnownInv, TokenKnown
    <2>6. Steady => rec.secret = told[id].secret /\ (rec.status # "revoked" => told[id].revokedAt = Never)
      BY <2>2, <2>3 DEF KnownInv, RecordKnown
    <2>7. rec \in CredentialRecord /\ told[id] \in Notice
      BY <2>2, <2>3
    <2>8. QED
      BY <2>4, <2>5, <2>6, <2>7, KnownChanged
  <1>6. CASE Save
    <2>1. ~Serial
      BY <1>6 DEF Save, KnownInv
    <2>2. QED
      BY <1>6, <2>1 DEF Save, KnownInv, Serial, Steady, RecordKnown, TokenKnown
  <1>7. CASE Tick
    <2>1. \A t \in tokens : t.at <= clock => t.at <= clock + 1
      BY <1>0, <1>00
    <2>2. QED
      BY <1>7, <2>1 DEF Tick, KnownInv, Serial, Steady, RecordKnown, TokenKnown
  <1>8. CASE Restart
    <2>1. adapter' = adapter /\ crashes' = crashes + 1 /\ creds' = rows /\ rows' = rows /\ tokens' = {} /\ told' = told
      BY <1>8 DEF Restart
    <2>2. crashes' # 0
      BY <2>1 DEF TypeOK
    <2>3. Steady' => Serial
      BY <2>1, <2>2 DEF Steady, Serial
    <2>4. Serial' => Serial /\ saves' = {}
      BY <1>8 DEF Restart, Serial
    <2>5. Steady' => \A id \in Ids : RecordKnown(id)'
      BY <2>1, <2>3 DEF KnownInv, Steady, RecordKnown
    <2>6. QED
      BY <2>1, <2>4, <2>5 DEF KnownInv
  <1>9. CASE UNCHANGED vars
    BY <1>9 DEF vars, KnownInv, Serial, Steady, RecordKnown, TokenKnown
  <1>10. QED
    BY <1>1, <1>2, <1>3, <1>4, <1>5, <1>6, <1>7, <1>8, <1>9 DEF Next

\* A token is issued only for the secret that the developer was given last and
\* never after a revocation, as long as no restart with SQL Server brings a
\* record from before back (validateClient).
THEOREM CredentialsGrantedAsTold == Spec => []GrantedAsTold
  <1>1. Init => KnownInv
    BY DEF Init, KnownInv, RecordKnown
  <1>2. KnownInv => GrantedAsTold
    BY DEF KnownInv, GrantedAsTold, TokenKnown
  <1>3. QED
    BY <1>1, <1>2, CredentialsTypeOK, KnownStep, PTL DEF Spec

\* A secret that was replaced, or a credential that was revoked, gives access
\* for the tokens' life at most after that (rotateTenantCredential,
\* revokeTenantCredential, validateAccessToken).
THEOREM CredentialsAcceptedSoonAfter == Spec => []AcceptedSoonAfter
  <1>1. Init => KnownInv
    BY DEF Init, KnownInv, RecordKnown
  <1>2. TypeOK /\ KnownInv => AcceptedSoonAfter
    <2> SUFFICES ASSUME TypeOK, KnownInv, Steady, NEW t \in tokens, Accepted(t)
                 PROVE  /\ told[t.id].revokedAt # Never => clock - told[t.id].revokedAt <= TokenTtl
                        /\ told[t.id].secret # t.secret => clock - told[t.id].since <= TokenTtl
      BY DEF AcceptedSoonAfter
    <2>1. TokenKnown(t) /\ t.id \in Ids /\ t.at \in Nat /\ clock \in Nat /\ TokenTtl \in Nat
      BY CredentialsAssumption DEF KnownInv, TypeOK, Token
    <2>2. told[t.id] \in Notice
      BY <2>1 DEF TypeOK, TokenKnown
    <2>3. told[t.id].since \in Nat /\ (told[t.id].revokedAt # Never => told[t.id].revokedAt \in Nat)
      BY <2>2 DEF Notice, Time
    <2>4. clock <= t.at + TokenTtl
      BY DEF Accepted
    <2>5. /\ told[t.id].revokedAt # Never => t.at <= told[t.id].revokedAt
          /\ told[t.id].secret # t.secret => t.at <= told[t.id].since
      BY <2>1 DEF TokenKnown
    <2>6. told[t.id].revokedAt # Never => clock - told[t.id].revokedAt <= TokenTtl
      BY <2>1, <2>3, <2>4, <2>5
    <2>7. told[t.id].secret # t.secret => clock - told[t.id].since <= TokenTtl
      BY <2>1, <2>3, <2>4, <2>5
    <2>8. QED
      BY <2>6, <2>7
  <1>3. QED
    BY <1>1, <1>2, CredentialsTypeOK, KnownStep, PTL DEF Spec
=============================================================================
