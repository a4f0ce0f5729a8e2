----------------------------- MODULE Credentials -----------------------------
(***************************************************************************)
(* API credentials and their tokens (services/developer-registry.ts,       *)
(* auth/oauth.ts): a developer creates, rotates and revokes credentials in *)
(* the portal, clients exchange a secret for an access token, and every    *)
(* change is upserted to the table credentials, at once with SQLite, by a  *)
(* query nobody waits for with SQL Server.  Tokens live in memory only.    *)
(*                                                                         *)
(* A credential's client id goes with its id.  Requests that name no       *)
(* credential of the tenant, or a wrong secret, change nothing.            *)
(***************************************************************************)
EXTENDS Naturals, FiniteSets

CONSTANTS
    Ids,          \* credential ids
    Absent,       \* a sentinel: no record, no row
    Never,        \* a sentinel: no time
    Adapters,     \* the adapters considered, among "sqlite" and "mssql"
    Expiries,     \* expires_at values of a request
    TokenTtl,     \* config.oauth.tokenTtlSeconds, in ticks
    MaxSecrets,   \* bound: secrets handed out
    MaxTokens,    \* bound: tokens in memory
    MaxSaves,     \* bound: upserts under way
    MaxTime,      \* bound: ticks
    MaxCrashes    \* bound: restarts

VARIABLES
    adapter,      \* the adapter in use
    creds,        \* credentialsById, in memory
    rows,         \* table credentials
    saves,        \* upserts under way (SQL Server)
    tokens,       \* accessTokens, in memory
    told,         \* history: what the developer was told last
    made,         \* number of secrets handed out
    clock,        \* Date.now(), in ticks
    crashes       \* bound: restarts so far

vars == <<adapter, creds, rows, saves, tokens, told, made, clock, crashes>>

Serial == adapter = "sqlite"

-----------------------------------------------------------------------------
Time == Nat \cup {Never}
CredentialRecord == [secret : Nat, status : {"active", "revoked", "expired"}, revokedAt : Time, expiresAt : Time]

\* The secret handed out last, since when, and since when it is revoked.
Notice == [secret : Nat, since : Nat, revokedAt : Time]

\* secret and told are history: what the token was got with, and what the
\* developer had been told by then.
Token == [id : Ids, secret : Nat, at : Nat, told : Notice \cup {Absent}]

ASSUME CredentialsAssumption ==
    /\ Never \notin Nat /\ Absent \notin CredentialRecord /\ Absent \notin Notice
    /\ Adapters \subseteq {"sqlite", "mssql"}
    /\ Expiries \subseteq Time
    /\ TokenTtl \in Nat /\ MaxSecrets \in Nat /\ MaxTokens \in Nat /\ MaxSaves \in Nat
    /\ MaxTime \in Nat /\ MaxCrashes \in Nat

\* Fault: only the status tells that a credential has expired.
IsExpiredByStatus(rec) == rec.status = "expired"

\* isExpired
IsExpired(rec) == rec.expiresAt # Never /\ clock > rec.expiresAt

\* Fault: a revoked credential passes.
MatchesAnyStatus(id, secret) == creds[id] # Absent /\ creds[id].secret = secret

\* The checks of validateClient before expiry; an expired status is no
\* obstacle by itself.
Matches(id, secret) == creds[id] # Absent /\ creds[id].secret = secret /\ creds[id].status # "revoked"

\* validateAccessToken: the token's own expiry, nothing else.
Accepted(t) == clock <= t.at + TokenTtl

-----------------------------------------------------------------------------
Init ==
    /\ adapter \in Adapters
    /\ creds = [id \in Ids |-> Absent]
    /\ rows = [id \in Ids |-> Absent]
    /\ saves = {} /\ tokens = {}
    /\ told = [id \in Ids |-> Absent]
    /\ made = 0 /\ clock = 0 /\ crashes = 0

\* The number of a new upsert, which tells it from equal ones.
FreshNumber == CHOOSE n \in 0..Cardinality(saves) : \A s \in saves : s.n # n

\* The record in memory becomes rec, and persistCredential upserts it.
Changed(id, rec) ==
    /\ creds' = [creds EXCEPT ![id] = rec]
    /\ IF Serial THEN rows' = [rows EXCEPT ![id] = rec] /\ UNCHANGED saves
       ELSE /\ Cardinality(saves) < MaxSaves
            /\ saves' = saves \cup {[n |-> FreshNumber, id |-> id, rec |-> rec]}
            /\ UNCHANGED rows

-----------------------------------------------------------------------------
(* The portal *)

CreateTenantCredential ==
    \E id \in Ids, e \in Expiries :
        /\ told[id] = Absent
        /\ made < MaxSecrets
        /\ made' = made + 1
        /\ Changed(id, [secret |-> made + 1, status |-> "active", revokedAt |-> Never, expiresAt |-> e])
        /\ told' = [told EXCEPT ![id] = [secret |-> made + 1, since |-> clock, revokedAt |-> Never]]
        /\ UNCHANGED <<adapter, tokens, clock, crashes>>

\* Fault: the revocation is not upserted.
RevokeUnsaved ==
    \E id \in Ids :
        /\ creds[id] # Absent
        /\ creds' = [creds EXCEPT ![id].status = "revoked", ![id].revokedAt = clock]
        /\ told' = [told EXCEPT ![id].revokedAt = IF @ = Never THEN clock ELSE @]
        /\ UNCHANGED <<adapter, rows, saves, tokens, made, clock, crashes>>

\* Whatever the status was; what the developer knows is the first revocation.
RevokeTenantCredential ==
    \E id \in Ids :
        /\ creds[id] # Absent
        /\ Changed(id, [creds[id] EXCEPT !.status = "revoked", !.revokedAt = clock])
        /\ told' = [told EXCEPT ![id].revokedAt = IF @ = Never THEN clock ELSE @]
        /\ UNCHANGED <<adapter, tokens, made, clock, crashes>>

\* A new secret; a revoked credential is active again, or expired.
RotateTenantCredential ==
    \E id \in Ids :
        /\ creds[id] # Absent
        /\ made < MaxSecrets
        /\ made' = made + 1
        /\ Changed(id, [creds[id] EXCEPT !.secret = made + 1, !.revokedAt = Never,
                                         !.status = IF IsExpired(creds[id]) THEN "expired" ELSE "active"])
        /\ told' = [told EXCEPT ![id] = [secret |-> made + 1, since |-> clock, revokedAt |-> Never]]
        /\ UNCHANGED <<adapter, tokens, clock, crashes>>

-----------------------------------------------------------------------------
(* POST /oauth/token *)

\* handleClientCredentialsGrant: markCredentialUsed upserts the record once
\* more, and a token is issued.
HandleClientCredentialsGrant ==
    \E id \in Ids, secret \in 1..made :
        /\ Matches(id, secret) /\ ~IsExpired(creds[id])
        /\ Cardinality(tokens) < MaxTokens
        /\ Changed(id, creds[id])
        /\ tokens' = tokens \cup {[id |-> id, secret |-> secret, at |-> clock, told |-> told[id]]}
        /\ UNCHANGED <<adapter, told, made, clock, crashes>>

\* The first client to come too late turns the status.
FindExpired ==
    \E id \in Ids, secret \in 1..made :
        /\ Matches(id, secret) /\ IsExpired(creds[id])
        /\ Changed(id, [creds[id] EXCEPT !.status = "expired"])
        /\ UNCHANGED <<adapter, tokens, told, made, clock, crashes>>

-----------------------------------------------------------------------------
\* Fault: the row is written without its columns taken apart.
SaveWhole ==
    \E s \in saves :
        /\ rows' = [rows EXCEPT ![s.id] = s]
        /\ saves' = saves \ {s}
        /\ UNCHANGED <<adapter, creds, tokens, told, made, clock, crashes>>

\* An upsert reaches SQL Server, in any order.
Save ==
    \E s \in saves :
        /\ rows' = [rows EXCEPT ![s.id] = s.rec]
        /\ saves' = saves \ {s}
        /\ UNCHANGED <<adapter, creds, tokens, told, made, clock, crashes>>

Tick ==
    /\ clock < MaxTime
    /\ clock' = clock + 1
    /\ UNCHANGED <<adapter, creds, rows, saves, tokens, told, made, crashes>>

\* The process stops and starts again: initDeveloperRegistry.
Restart ==
    /\ crashes < MaxCrashes
    /\ crashes' = crashes + 1
    /\ creds' = rows
    /\ saves' = {} /\ tokens' = {}
    /\ UNCHANGED <<adapter, rows, told, made, clock>>

Next ==
    \/ CreateTenantCredential \/ RevokeTenantCredential \/ RotateTenantCredential
    \/ HandleClientCredentialsGrant \/ FindExpired
    \/ Save \/ Tick \/ Restart

Spec == Init /\ [][Next]_vars

-----------------------------------------------------------------------------
(* Properties *)

\* Every variable has its type, and what is kept the developer was told of.
TypeOK ==
    /\ adapter \in Adapters
    /\ creds \in [Ids -> CredentialRecord \cup {Absent}]
    /\ rows \in [Ids -> CredentialRecord \cup {Absent}]
    /\ saves \subseteq [n : Nat, id : Ids, rec : CredentialRecord] /\ IsFiniteSet(saves)
    /\ tokens \subseteq Token
    /\ told \in [Ids -> Notice \cup {Absent}]
    /\ \A id \in Ids : creds[id] # Absent \/ rows[id] # Absent => told[id] # Absent
    /\ \A s \in saves : told[s.id] # Absent
    /\ made \in Nat /\ clock \in Nat /\ crashes \in Nat

\* With SQL Server a restart may bring back a record from before.
Steady == Serial \/ crashes = 0

\* A token is issued only for the secret that the developer was given last,
\* and not after a revocation (validateClient; REQ-F-009 criteria 4 and 5,
\* through restarts with SQLite).
GrantedAsTold ==
    Steady => \A t \in tokens : /\ t.told # Absent
                                /\ t.secret = t.told.secret /\ t.told.revokedAt = Never

\* A token got with a secret that was replaced since, or for a credential that
\* was revoked since, is still accepted (RevokedRefused does not hold), but for
\* the tokens' life at most after that (issueTokens, validateAccessToken,
\* revokeTenantCredential, rotateTenantCredential).
AcceptedSoonAfter ==
    Steady => \A t \in tokens : Accepted(t) =>
        /\ told[t.id].revokedAt # Never => clock - told[t.id].revokedAt <= TokenTtl
        /\ told[t.id].secret # t.secret => clock - told[t.id].since <= TokenTtl

\* No token is accepted once its credential is revoked
\* (REQ-F-009 criterion 4, "A developer can revoke a tenant-scoped credential,
\* after which API calls using that credential are rejected").
RevokedRefused == \A t \in tokens : Accepted(t) => told[t.id].revokedAt = Never

\* No token is accepted later than the tokens' life after its credential has
\* expired, with either adapter and whatever was rotated or lost
\* (isExpired; REQ-F-009 criterion 6).
ExpiryRespected ==
    \A t \in tokens : (Accepted(t) /\ creds[t.id].expiresAt # Never) =>
        clock <= creds[t.id].expiresAt + TokenTtl
=============================================================================
