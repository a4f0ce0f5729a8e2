----------------------------- MODULE PortalAuth -----------------------------
(***************************************************************************)
(* Developer accounts of the portal (services/portal-auth.ts and the       *)
(* routes of routes/portal.ts that call it): registration, login with a    *)
(* block after repeated failures, sessions, and passwords reset by codes   *)
(* sent to the address, all behind the counters of RequestLimits.          *)
(*                                                                         *)
(* Users and sessions are cached in memory and upserted, at once with      *)
(* SQLite, by queries nobody waits for with SQL Server.  Codes live in     *)
(* memory only.  An address stands for the user it would belong to;        *)
(* failures of upserts are left out, as only a message comes of them.      *)
(***************************************************************************)
EXTENDS RequestLimits, Sequences

CONSTANTS
    Users,        \* addresses, trimmed and in lower case
    Spellings,    \* addresses as requests spell them
    Normal,       \* normalizeEmail
    Lower,        \* a spelling in lower case, not trimmed
    Passwords, Codes,
    Adapters,     \* the adapters considered, among "sqlite" and "mssql"
    Absent, Never,                    \* sentinels: no record; no time
    SessionTtl, OtpTtl, BlockWindow,  \* SESSION_TTL_MS, OTP_TTL_MS, BLOCK_WINDOW_MS
    MaxFailed,    \* MAX_FAILED_ATTEMPTS
    Workloads,    \* bound: sets of keys, of the requests of one run
    MaxSessions,  \* bound: sessions
    MaxSaves,     \* bound: upserts of users under way
    MaxCrashes    \* bound: restarts

VARIABLES
    workload,     \* bound: one of Workloads
    adapter,      \* the adapter in use
    users,        \* usersByEmail, in memory
    userRows,     \* table portal_users
    userSaves,    \* upserts of users under way (SQL Server)
    sessions,     \* sessionsByToken, in memory
    sessionRows,  \* table portal_sessions
    sessionSaves, \* upserts of sessions under way (SQL Server)
    otps,         \* resetOtpByEmail, in memory
    given,        \* history: the sessions handed out
    fails,        \* history: when wrong passwords came, since the last right one
    otpTold,      \* history: the code issued last, and what came of it
    told,         \* history: the password in force, as the user was told
    crashes       \* bound: restarts so far

authVars == <<workload, adapter, users, userRows, userSaves, sessions, sessionRows, sessionSaves,
              otps, given, fails, otpTold, told, crashes>>
vars == <<limitVars, clock, authVars>>

Serial == adapter = "sqlite"

-----------------------------------------------------------------------------
Time == Nat \cup {Never}
PortalUser == [password : Passwords, failed : Nat, blockedUntil : Time]
PortalSession == [token : Nat, user : Users, expiresAt : Nat]
OtpRecord == [code : Codes, expiresAt : Nat, attempts : Nat]

\* When the code was issued, how often codes were compared with it since, and
\* whether it has set a password.
OtpNotice == [code : Codes, at : Nat, guesses : Nat, spent : BOOLEAN]

ASSUME PortalAssumption ==
    /\ Normal \in [Spellings -> Users]
    /\ \A s \in Spellings, route \in {"login", "reset-request", "reset-confirm"} :
          <<route, Lower[s]>> \in Keys /\ Cost[<<route, Lower[s]>>] = 1
    /\ \A w \in Workloads : w \subseteq Keys
    /\ Adapters \subseteq {"sqlite", "mssql"}
    /\ Absent \notin PortalUser /\ Absent \notin OtpRecord /\ Absent \notin OtpNotice /\ Absent \notin Passwords
    /\ Never \notin Nat
    /\ SessionTtl \in Nat /\ OtpTtl \in Nat /\ BlockWindow \in Nat /\ MaxFailed \in Nat \ {0}
    /\ MaxSessions \in Nat /\ MaxSaves \in Nat /\ MaxCrashes \in Nat

Init ==
    /\ LimitsInit /\ clock = 0
    /\ workload \in Workloads
    /\ adapter \in Adapters
    /\ users = [u \in Users |-> Absent] /\ userRows = users /\ userSaves = {}
    /\ sessions = {} /\ sessionRows = {} /\ sessionSaves = {}
    /\ otps = [u \in Users |-> Absent]
    /\ given = {}
    /\ fails = [u \in Users |-> <<>>]
    /\ otpTold = [u \in Users |-> Absent]
    /\ told = [u \in Users |-> Absent]
    /\ crashes = 0

\* The number of a new upsert, which tells it from equal ones.
FreshNumber == CHOOSE n \in 0..Cardinality(userSaves) : \A s \in userSaves : s.n # n

\* The user's record in memory becomes rec, and persistUser upserts it.
PersistUser(u, rec) ==
    /\ users' = [users EXCEPT ![u] = rec]
    /\ IF Serial THEN userRows' = [userRows EXCEPT ![u] = rec] /\ UNCHANGED userSaves
       ELSE /\ Cardinality(userSaves) < MaxSaves
            /\ userSaves' = userSaves \cup {[n |-> FreshNumber, user |-> u, rec |-> rec]}
            /\ UNCHANGED userRows

PersistSession(s) ==
    /\ sessions' = sessions \cup {s}
    /\ IF Serial THEN sessionRows' = sessionRows \cup {s} /\ UNCHANGED sessionSaves
       ELSE sessionSaves' = sessionSaves \cup {s} /\ UNCHANGED sessionRows

-----------------------------------------------------------------------------
(* Registration and login *)

RegisterPortalUser ==
    \E s \in Spellings, p \in Passwords :
        /\ users[Normal[s]] = Absent
        /\ PersistUser(Normal[s], [password |-> p, failed |-> 0, blockedUntil |-> Never])
        /\ told' = [told EXCEPT ![Normal[s]] = p]
        /\ UNCHANGED <<limitVars, clock, workload, adapter, sessions, sessionRows, sessionSaves,
                       otps, given, fails, otpTold, crashes>>

Blocked(u) == users[u] # Absent /\ users[u].blockedUntil # Never /\ clock < users[u].blockedUntil

\* The count of every route comes first, by the address as it is spelled, in
\* lower case (checkPortalAuthRateLimit).
Counted(route, s) == <<route, Lower[s]>> \in workload /\ Check(<<route, Lower[s]>>)

\* POST /portal-api/login with no effect but the count: refused by the count,
\* for an unknown address, or for a blocked one.
LoginInVain ==
    \E s \in Spellings :
        /\ ~Admitted(<<"login", Lower[s]>>) \/ users[Normal[s]] = Absent \/ Blocked(Normal[s])
        /\ Counted("login", s)
        /\ UNCHANGED authVars

LastOf(seq, n) == IF Len(seq) <= n THEN seq ELSE SubSeq(seq, Len(seq) - n + 1, Len(seq))

\* Fault: the failure is counted in memory only.
CountedFailureUnsaved(u) ==
    /\ users' = [users EXCEPT ![u].failed = IF @ + 1 >= MaxFailed THEN 0 ELSE @ + 1,
                              ![u].blockedUntil = IF users[u].failed + 1 >= MaxFailed THEN clock + BlockWindow ELSE @]
    /\ UNCHANGED <<userRows, userSaves>>

\* The MaxFailed-th failure blocks the user and sets the count back.
CountedFailure(u) ==
    PersistUser(u, IF users[u].failed + 1 >= MaxFailed
                   THEN [users[u] EXCEPT !.blockedUntil = clock + BlockWindow, !.failed = 0]
                   ELSE [users[u] EXCEPT !.failed = @ + 1])

LoginWrong ==
    \E s \in Spellings, p \in Passwords :
        LET u == Normal[s] IN
        /\ Admitted(<<"login", Lower[s]>>)
        /\ users[u] # Absent /\ ~Blocked(u) /\ users[u].password # p
        /\ Counted("login", s)
        /\ CountedFailure(u)
        /\ fails' = [fails EXCEPT ![u] = LastOf(Append(@, clock), MaxFailed + 1)]
        /\ UNCHANGED <<workload, adapter, sessions, sessionRows, sessionSaves, otps, given, otpTold, told, crashes>>

\* A session begins; failures and a block that is over are forgotten.
LoginRight ==
    \E s \in Spellings :
        LET u == Normal[s]
            session == [token |-> Cardinality(given), user |-> u, expiresAt |-> clock + SessionTtl]
        IN
        /\ Admitted(<<"login", Lower[s]>>)
        /\ users[u] # Absent /\ ~Blocked(u)
        /\ Cardinality(given) < MaxSessions
        /\ Counted("login", s)
        /\ PersistUser(u, [users[u] EXCEPT !.failed = 0, !.blockedUntil = Never])
        /\ PersistSession(session)
        /\ given' = given \cup {session}
        /\ fails' = [fails EXCEPT ![u] = <<>>]
        /\ UNCHANGED <<workload, adapter, otps, otpTold, told, crashes>>

-----------------------------------------------------------------------------
(* Sessions *)

With(set, token) == {s \in set : s.token = token}

\* The answer of validatePortalSession: the session in memory, or else the row.
Valid(token) ==
    \E s \in IF With(sessions, token) # {} THEN With(sessions, token) ELSE With(sessionRows, token) :
        clock <= s.expiresAt

\* A session from before the restart is cached.  Rows of sessions never change
\* while the process runs, so that waiting for one makes no difference.
ValidatePortalSession ==
    \E s \in sessionRows :
        /\ With(sessions, s.token) = {}
        /\ clock <= s.expiresAt
        /\ sessions' = sessions \cup {s}
        /\ UNCHANGED <<limitVars, clock, workload, adapter, users, userRows, userSaves, sessionRows, sessionSaves,
                       otps, given, fails, otpTold, told, crashes>>

-----------------------------------------------------------------------------
(* Passwords reset by codes *)

\* A refused request for a code.
ResetRequestInVain ==
    \E s \in Spellings :
        /\ ~Admitted(<<"reset-request", Lower[s]>>)
        /\ Counted("reset-request", s)
        /\ UNCHANGED authVars

\* A new code replaces the last one, for an unknown address, too.
IssueResetOtp ==
    \E s \in Spellings, code \in Codes :
        LET u == Normal[s] IN
        /\ Admitted(<<"reset-request", Lower[s]>>)
        /\ Counted("reset-request", s)
        /\ otps' = [otps EXCEPT ![u] = [code |-> code, expiresAt |-> clock + OtpTtl, attempts |-> 0]]
        /\ otpTold' = [otpTold EXCEPT ![u] = [code |-> code, at |-> clock, guesses |-> 0, spent |-> FALSE]]
        /\ UNCHANGED <<workload, adapter, users, userRows, userSaves, sessions, sessionRows, sessionSaves,
                       given, fails, told, crashes>>

\* Fault: the count of attempts is looked at before this one is added.
UsableBefore(u) == clock <= otps[u].expiresAt /\ otps[u].attempts <= MaxFailed

\* The code is still compared.
Usable(u) == clock <= otps[u].expiresAt /\ otps[u].attempts + 1 <= MaxFailed

\* A confirmation without effect on codes: refused, for an unknown address or
\* without a code.
ResetConfirmInVain ==
    \E s \in Spellings :
        /\ ~Admitted(<<"reset-confirm", Lower[s]>>) \/ users[Normal[s]] = Absent \/ otps[Normal[s]] = Absent
        /\ Counted("reset-confirm", s)
        /\ UNCHANGED authVars

\* Too late or once too often: the code goes.
DropOtp ==
    \E s \in Spellings :
        LET u == Normal[s] IN
        /\ Admitted(<<"reset-confirm", Lower[s]>>)
        /\ users[u] # Absent /\ otps[u] # Absent /\ ~Usable(u)
        /\ Counted("reset-confirm", s)
        /\ otps' = [otps EXCEPT ![u] = Absent]
        /\ UNCHANGED <<workload, adapter, users, userRows, userSaves, sessions, sessionRows, sessionSaves,
                       given, fails, otpTold, told, crashes>>

WrongOtp ==
    \E s \in Spellings, code \in Codes :
        LET u == Normal[s] IN
        /\ Admitted(<<"reset-confirm", Lower[s]>>)
        /\ users[u] # Absent /\ otps[u] # Absent /\ Usable(u) /\ otps[u].code # code
        /\ Counted("reset-confirm", s)
        /\ otps' = [otps EXCEPT ![u].attempts = @ + 1]
        /\ otpTold' = [otpTold EXCEPT ![u].guesses = @ + 1]
        /\ UNCHANGED <<workload, adapter, users, userRows, userSaves, sessions, sessionRows, sessionSaves,
                       given, fails, told, crashes>>

\* Fault: the code stays.
SpentKept(u) == UNCHANGED otps

\* The code goes with its use.
Spent(u) == otps' = [otps EXCEPT ![u] = Absent]

\* Fault: the new password is in memory only.
NewPasswordUnsaved(u, p) == users' = [users EXCEPT ![u].password = p] /\ UNCHANGED <<userRows, userSaves>>

\* Failures, a block and sessions stay.
NewPassword(u, p) == PersistUser(u, [users[u] EXCEPT !.password = p])

ConfirmResetOtp ==
    \E s \in Spellings, p \in Passwords :
        LET u == Normal[s] IN
        /\ Admitted(<<"reset-confirm", Lower[s]>>)
        /\ users[u] # Absent /\ otps[u] # Absent /\ Usable(u)
        /\ Counted("reset-confirm", s)
        /\ NewPassword(u, p)
        /\ Spent(u)
        /\ otpTold' = [otpTold EXCEPT ![u].guesses = @ + 1, ![u].spent = TRUE]
        /\ told' = [told EXCEPT ![u] = p]
        /\ UNCHANGED <<workload, adapter, sessions, sessionRows, sessionSaves, given, fails, crashes>>

-----------------------------------------------------------------------------
(* API and token requests, the database, time and restarts *)

\* Requests counted under keys of their own.
OtherRequest ==
    \E k \in Keys :
        /\ k \in workload /\ k[1] \in {"api", "oauth"}
        /\ Check(k)
        /\ UNCHANGED authVars

SaveUser ==
    \E s \in userSaves :
        /\ userRows' = [userRows EXCEPT ![s.user] = s.rec]
        /\ userSaves' = userSaves \ {s}
        /\ UNCHANGED <<limitVars, clock, workload, adapter, users, sessions, sessionRows, sessionSaves,
                       otps, given, fails, otpTold, told, crashes>>

SaveSession ==
    \E s \in sessionSaves :
        /\ sessionRows' = sessionRows \cup {s}
        /\ sessionSaves' = sessionSaves \ {s}
        /\ UNCHANGED <<limitVars, clock, workload, adapter, users, userRows, userSaves, sessions,
                       otps, given, fails, otpTold, told, crashes>>

PassTime == Tick /\ UNCHANGED authVars

\* Fault: a session is deleted at the time up to which it is valid.
DeleteExpiredEarly == {s \in sessionRows : s.expiresAt > clock}

DeleteExpiredSessions == {s \in sessionRows : s.expiresAt >= clock}

\* The process stops and starts again: initPortalAuth.
Restart ==
    /\ crashes < MaxCrashes
    /\ crashes' = crashes + 1
    /\ users' = userRows /\ userSaves' = {}
    /\ sessions' = {} /\ sessionSaves' = {}
    /\ sessionRows' = DeleteExpiredSessions
    /\ otps' = [u \in Users |-> Absent]
    /\ counters' = [k \in Keys |-> Idle] /\ recent' = [k \in Keys |-> [age \in Ages |-> 0]]
    /\ UNCHANGED <<clock, workload, adapter, userRows, given, fails, otpTold, told>>

Next ==
    \/ RegisterPortalUser \/ LoginInVain \/ LoginWrong \/ LoginRight \/ ValidatePortalSession
    \/ ResetRequestInVain \/ IssueResetOtp
    \/ ResetConfirmInVain \/ DropOtp \/ WrongOtp \/ ConfirmResetOtp
    \/ OtherRequest \/ SaveUser \/ SaveSession \/ PassTime \/ Restart

Spec == Init /\ [][Next]_vars

-----------------------------------------------------------------------------
(* Properties *)

\* Every variable has its type.
TypeOK ==
    /\ LimitsTypeOK
    /\ workload \in Workloads /\ adapter \in Adapters
    /\ users \in [Users -> PortalUser \cup {Absent}]
    /\ userRows \in [Users -> PortalUser \cup {Absent}]
    /\ userSaves \subseteq [n : Nat, user : Users, rec : PortalUser] /\ IsFiniteSet(userSaves)
    /\ sessions \subseteq PortalSession /\ sessionRows \subseteq PortalSession
    /\ sessionSaves \subseteq PortalSession /\ given \subseteq PortalSession /\ IsFiniteSet(given)
    /\ otps \in [Users -> OtpRecord \cup {Absent}]
    /\ fails \in [Users -> Seq(Nat)]
    /\ otpTold \in [Users -> OtpNotice \cup {Absent}]
    /\ told \in [Users -> Passwords \cup {Absent}]
    /\ crashes \in Nat

\* With SQL Server a restart may bring back a user from before.
Steady == Serial \/ crashes = 0

\* One more wrong password than it takes to block a user, without a right one
\* between, is not compared before the time of a block has passed, however
\* the address is spelled, whatever is reset, and through restarts with SQLite
\* (authenticatePortalUser; REQ-NF-005: repeated failures are throttled).
FailuresThrottled ==
    Steady => \A u \in Users : Len(fails[u]) = MaxFailed + 1 => fails[u][MaxFailed + 1] - fails[u][1] >= BlockWindow

\* A session that was handed out is valid for its life, through restarts with
\* SQLite, and no longer with either adapter (validatePortalSession,
\* deleteExpiredSessions).
SessionsAsGiven ==
    \A s \in given : /\ Valid(s.token) => clock <= s.expiresAt
                     /\ Steady => (clock <= s.expiresAt => Valid(s.token))

\* The password that a user registered or reset is the one in force, through
\* restarts with SQLite (registerPortalUser, confirmResetOtp, initPortalAuth).
PasswordAsTold ==
    Steady => \A u \in Users : IF users[u] = Absent THEN told[u] = Absent ELSE users[u].password = told[u]

\* For one code at most MaxFailed codes are compared (confirmResetOtp;
\* REQ-NF-005: reset attempts are throttled).
GuessesBounded == \A u \in Users : otpTold[u] # Absent => otpTold[u].guesses <= MaxFailed

\* The password of a user changes only by a code: the one issued last, in its time, and
\* once (issueResetOtp, confirmResetOtp).
ResetByOtp ==
    [][\A u \in Users :
          (users[u] # Absent /\ told'[u] # told[u]) =>
              /\ otpTold[u] # Absent /\ ~otpTold[u].spent /\ otpTold'[u].spent
              /\ clock <= otpTold[u].at + OtpTtl]_vars
=============================================================================
