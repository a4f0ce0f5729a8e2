--------------------------- MODULE RequestLimits ---------------------------
(***************************************************************************)
(* The request counters of services/security-rate-limit.ts: every request  *)
(* takes units from the counter of its key, one per check it passes.  An   *)
(* API request is checked by each router of app.ts that it passes before   *)
(* the one that answers, always under the same key (method and path), so   *)
(* that its cost depends on its route; token and portal requests are       *)
(* checked once.  Authentication and checks have no await: a request's     *)
(* checks are one step.                                                    *)
(***************************************************************************)
EXTENDS Naturals, FiniteSets

CONSTANTS
    Keys,         \* keys of counters
    Limit,        \* requests per window, by key
    Cost,         \* checks that a request passes, by key
    Window,       \* ONE_MINUTE_MS, in ticks
    Idle,         \* a sentinel: no counter
    MaxTime       \* bound: ticks

VARIABLES
    counters,     \* counters, by key
    recent,       \* history: units taken at most 0, 1, ... ticks ago, up to Window - 1
    clock         \* Date.now(), in ticks

limitVars == <<counters, recent>>

ASSUME LimitsAssumption ==
    /\ Limit \in [Keys -> Nat \ {0}] /\ Cost \in [Keys -> Nat \ {0}]
    /\ Window \in Nat \ {0} /\ MaxTime \in Nat
    /\ Idle \notin [count : Nat, start : Nat]

Ages == 0..(Window - 1)

LimitsInit ==
    /\ counters = [k \in Keys |-> Idle]
    /\ recent = [k \in Keys |-> [age \in Ages |-> 0]]

\* Fault: a window ends one tick late.
StaleLate(k) == counters[k] = Idle \/ clock - counters[k].start > Window

\* The next request begins a window.
Stale(k) == counters[k] = Idle \/ clock - counters[k].start >= Window

\* Fault: the request that reaches the limit passes, too.
RoomOneMore(k) == IF Stale(k) THEN Limit[k] + 1 ELSE Limit[k] + 1 - counters[k].count

\* Units left.
Room(k) == IF Stale(k) THEN Limit[k] ELSE Limit[k] - counters[k].count

Admitted(k) == Cost[k] <= Room(k)

\* consumeWithinWindow, as often as the request is checked; a refusal ends it.
ConsumeWithinWindow(k) ==
    LET taken == IF Admitted(k) THEN Cost[k] ELSE Room(k)
        begun == IF Stale(k) THEN [count |-> 0, start |-> clock] ELSE counters[k]
    IN  /\ counters' = IF taken = 0 THEN counters ELSE [counters EXCEPT ![k] = [begun EXCEPT !.count = @ + taken]]
        /\ recent' = [recent EXCEPT ![k] = [age \in Ages |-> @[age] + taken]]

\* checkOauthRateLimit, checkApiRateLimit
Check(k) == ConsumeWithinWindow(k) /\ UNCHANGED clock

Tick ==
    /\ clock < MaxTime
    /\ clock' = clock + 1
    /\ recent' = [k \in Keys |-> [age \in Ages |-> IF age = 0 THEN 0 ELSE recent[k][age - 1]]]
    /\ UNCHANGED counters

-----------------------------------------------------------------------------
LimitsTypeOK ==
    /\ counters \in [Keys -> [count : Nat, start : Nat] \cup {Idle}]
    /\ \A k \in Keys : counters[k] # Idle => counters[k].count <= Limit[k] /\ counters[k].start <= clock
    /\ recent \in [Keys -> [Ages -> Nat]]
    /\ clock \in Nat

\* The units that a key took within the last window's length.
Recently(k) == recent[k][Window - 1]

\* In no stretch of time as long as a window does a key take more than twice
\* its limit, however windows and requests lie (consumeWithinWindow; nothing
\* remembers the window before, nor, after a restart, anything).
TwiceAtMost == \A k \in Keys : Recently(k) <= 2 * Limit[k]

\* Where a request of one check would be refused, the key took its limit
\* within the last window's length: refusals end in time
\* (consumeWithinWindow, retryAfterSeconds).
RefusedForCause == \A k \in Keys : Room(k) = 0 => Recently(k) >= Limit[k]
=============================================================================
