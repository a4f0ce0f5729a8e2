------------------------------- MODULE Ledger -------------------------------
(***************************************************************************)
(* The money side of one tenant's dataset (services/tenant-store.ts): the  *)
(* accounts with their two balances, the transactions and transfers        *)
(* arrays, and the yield configurations, with every route that moves money *)
(* or changes a booked entry (routes/transactions.ts, customers.ts,        *)
(* portal.ts).  The store is one synchronous call per request on Node's    *)
(* only thread, so each request is one action.                             *)
(*                                                                         *)
(* Money is counted in fifths of a cent.  The routes accept any positive   *)
(* number, roundMoney keeps balances at whole cents, and an amount finer   *)
(* than a cent is booked as given: a unit below the cent is needed to see  *)
(* the difference, and with five of them no sum is ever half-way between   *)
(* two cents.                                                              *)
(***************************************************************************)
EXTENDS Integers, FiniteSets, FiniteSetsExt

CONSTANTS
    Accounts,          \* account ids the tenant may ever have
    BaselineAccounts,  \* those of services/mock-data.ts
    BaselineBalance,   \* their balance ...
    BaselineAvailable, \* ... and their availableBalance
    BaselineOpening,   \* the part of it that the mock entries do not explain
    BaselineTxns,      \* the mock transactions, all of them with seq 0
    BaselineTransfers, \* the mock transfers
    Refs,              \* reference ids a card client makes up itself
    Mentions,          \* the accounts whose id such a reference contains
    NoOne,             \* a sentinel: no account (an external party, no payee)
    Nowhere,           \* an account id the tenant does not have
    TransferAmounts,   \* amounts of a transfer or an opening balance
    CardAmounts,       \* amounts of a card event
    Apys,              \* annual yields of a request, in percent
    Dates,             \* as_of_date values of a request
    MaxOps             \* bound: operations that book an entry

VARIABLES
    open,        \* ids in dataset.accounts
    balance,     \* account.balance
    available,   \* account.availableBalance
    txns,        \* dataset.transactions; seq is the operation that pushed it
    transfers,   \* dataset.transfers
    yields,      \* dataset.yieldConfigs
    seq,         \* number of the next operation that books something
    opening,     \* history: the balance the account's ledger starts from
    struck       \* history: entries that went with the data of another account

vars == <<open, balance, available, txns, transfers, yields, seq, opening, struck>>

-----------------------------------------------------------------------------
(* Money *)

Cent == 5

\* Whole cents: what roundMoney returns.
Money == {x \in Int : x % Cent = 0}

\* Fault: amounts are added without rounding.
RoundMoneyDropped(x) == x

\* Number(value.toFixed(2)): the nearest whole cent.
RoundMoney(x) == Cent * ((x + 2) \div Cent)

\* roundMoney(balance * (apy / 100 / 365)).
DailyInterest(bal, apy) == Cent * ((2 * bal * apy + 36500 * Cent) \div (2 * 36500 * Cent))

Abs(x) == IF x < 0 THEN -x ELSE x

\* Fault: a refund is not capped.
LesserDropped(x, y) == x

Lesser(x, y) == IF x < y THEN x ELSE y

Debit(f, a, amt) == [f EXCEPT ![a] = RoundMoney(@ - amt)]
Credit(f, a, amt) == [f EXCEPT ![a] = RoundMoney(@ + amt)]

\* seed_txn_<account>_1 .. _3: 2500.00, -125.55 and -42.10.
SeedAmount == [n \in 1..3 |-> CASE n = 1 -> 250000 * Cent [] n = 2 -> -12555 * Cent [] n = 3 -> -4210 * Cent]
SeedNet == SeedAmount[1] + SeedAmount[2] + SeedAmount[3]

-----------------------------------------------------------------------------
(* References, entries and configurations *)

Reference == [kind : {"baseline", "client", "card", "transfer", "opening", "seed", "interest"},
              of : Refs \cup Accounts \cup {NoOne}, n : Nat]
Ref(kind, of, n) == [kind |-> kind, of |-> of, n |-> n]

\* transaction.referenceId.includes(accountId)
Names(ref, a) == IF ref.kind = "client" THEN a \in Mentions[ref.of] ELSE ref.of = a

Txn == [seq : Nat, account : Accounts \cup {Nowhere}, amount : Int,
        type : {"credit", "debit", "hold", "release"},
        status : {"pending", "posted", "reversed"},
        ref : Reference,
        by : {"baseline", "transfer", "opening", "seed", "interest", "card", "refund"},
        resolves : Nat]

\* by and resolves are history: the operation that booked the entry, and the
\* hold that a release or a capture used up (0: none).
Entry(a, type, amt, status, ref, by, resolves) ==
    [seq |-> seq, account |-> a, amount |-> amt, type |-> type, status |-> status,
     ref |-> ref, by |-> by, resolves |-> resolves]

TransferStatus == {"pending", "completed", "failed", "returned"}
Transfer == [ref : Reference, status : TransferStatus, amount : Int,
             from : Accounts \cup {NoOne}, to : Accounts \cup {Nowhere, NoOne}]

YieldConfig == [set : BOOLEAN, apy : Nat, enabled : BOOLEAN, total : Int, last : Nat]
NoYield == [set |-> FALSE, apy |-> 0, enabled |-> FALSE, total |-> 0, last |-> 0]

EntriesOf(ts, a) == {t \in ts : t.account = a}

Total(ts) == MapThenSumSet(LAMBDA t : t.amount, ts)

\* What the entries of account a add up to; holds and releases move no money.
MoneyOf(ts, a) == {t \in EntriesOf(ts, a) : t.type \in {"credit", "debit"}}
Booked(ts, a) == Total(MoneyOf(ts, a))

ASSUME LedgerAssumption ==
    /\ BaselineAccounts \subseteq Accounts
    /\ Accounts \cap {NoOne, Nowhere} = {} /\ NoOne # Nowhere /\ Refs \cap (Accounts \cup {NoOne}) = {}
    /\ BaselineBalance \in [Accounts -> Money] /\ BaselineAvailable \in [Accounts -> Money]
    /\ BaselineOpening \in [Accounts -> Int]
    /\ \A a \in Accounts : BaselineOpening[a] = BaselineBalance[a] - Booked(BaselineTxns, a)
    /\ \A a \in Accounts \ BaselineAccounts : BaselineBalance[a] = 0 /\ BaselineAvailable[a] = 0
    /\ BaselineTxns \subseteq {t \in Txn : t.seq = 0 /\ t.by = "baseline" /\ t.ref.kind = "baseline"
                                             /\ t.type \in {"credit", "debit"} /\ t.resolves = 0
                                             /\ t.account \in BaselineAccounts /\ t.ref.of = NoOne}
    /\ IsFiniteSet(BaselineTxns)
    /\ BaselineTransfers \subseteq {tr \in Transfer : tr.ref.kind = "baseline"}
    /\ Mentions \in [Refs -> SUBSET Accounts]
    /\ TransferAmounts \subseteq Nat \ {0} /\ CardAmounts \subseteq Nat \ {0}
    /\ Apys \subseteq 0..100 /\ Dates \subseteq Nat \ {0} /\ MaxOps \in Nat

-----------------------------------------------------------------------------
(* cloneDataset and ensureTenantDataset: a tenant starts from the mock data. *)

Init ==
    /\ open = BaselineAccounts
    /\ balance = BaselineBalance
    /\ available = BaselineAvailable
    /\ txns = BaselineTxns
    /\ transfers = BaselineTransfers
    /\ yields = [a \in Accounts |-> NoYield]
    /\ seq = 1
    /\ opening = BaselineOpening
    /\ struck = {}

\* An operation that books the entries new is the seq-th such operation.
Book(new) ==
    /\ seq <= MaxOps
    /\ txns' = txns \cup new
    /\ seq' = seq + 1

-----------------------------------------------------------------------------
(* Transfers *)

\* createTenantTransfer.  Internal transfers settle at once, the others stay
\* pending, and both move the balances now.  The payee's entry is booked
\* whether or not the payee exists.
CreateTenantTransfer(type, amt, from, to) ==
    LET ref == Ref("transfer", NoOne, seq)
        settled == type = "internal"
        status == IF settled THEN "posted" ELSE "pending"
        Move(f) == IF to \in open THEN Credit(Debit(f, from, amt), to, amt) ELSE Debit(f, from, amt)
    IN  /\ Book({Entry(from, "debit", -amt, status, ref, "transfer", 0)}
                  \cup {Entry(a, "credit", amt, status, ref, "transfer", 0) : a \in {to} \ {NoOne}})
        /\ transfers' = transfers \cup {[ref |-> ref, status |-> IF settled THEN "completed" ELSE "pending",
                                          amount |-> amt, from |-> from, to |-> to]}
        /\ balance' = Move(balance)
        /\ available' = Move(available)
        /\ UNCHANGED <<open, yields, opening, struck>>

\* POST /transactions/transfer, and the to_account_id branch of POST
\* /transactions: from must exist, the payee is not looked up.
InternalTransfer ==
    \E type \in {"internal", "ach"}, amt \in TransferAmounts, from \in open, to \in open \cup {Nowhere} :
        CreateTenantTransfer(type, amt, from, to)

\* To a routing number: POST /transactions/externalTransfer asks for ach or
\* wire, POST /transfers takes any type and so may settle it at once.
ExternalTransfer ==
    \E type \in {"internal", "ach"}, amt \in TransferAmounts, from \in open :
        CreateTenantTransfer(type, amt, from, NoOne)

\* POST /onboarding/loanOnboardingFunding: from and to are the same account.
LoanOnboardingFunding ==
    \E amt \in TransferAmounts, a \in open : CreateTenantTransfer("internal", amt, a, a)

\* simulateIncomingRailTransfer (ach-incoming, wire-incoming, createIncomingWire).
SimulateIncomingRailTransfer ==
    \E a \in open, amt \in TransferAmounts :
        LET ref == Ref("transfer", NoOne, seq)
        IN  /\ Book({Entry(a, "credit", amt, "posted", ref, "transfer", 0)})
            /\ transfers' = transfers \cup {[ref |-> ref, status |-> "completed", amount |-> amt,
                                              from |-> NoOne, to |-> a]}
            /\ balance' = Credit(balance, a, amt)
            /\ available' = Credit(available, a, amt)
            /\ UNCHANGED <<open, yields, opening, struck>>

\* simulateOutgoingAchTransfer, the transfer left with the given status.
SimulateOutgoing(a, amt, status) ==
    LET ref == Ref("transfer", NoOne, seq)
    IN  /\ Book({Entry(a, "debit", -amt, "posted", ref, "transfer", 0)})
        /\ transfers' = transfers \cup {[ref |-> ref, status |-> status, amount |-> amt,
                                          from |-> a, to |-> NoOne]}
        /\ balance' = Debit(balance, a, amt)
        /\ available' = Debit(available, a, amt)
        /\ UNCHANGED <<open, yields, opening, struck>>

\* POST /portal-api/simulations/ach-outgoing.
SimulateOutgoingAchTransfer == \E a \in open, amt \in TransferAmounts : SimulateOutgoing(a, amt, "completed")

\* POST /transactions/createOutgoingWire: the same, then the transfer (and
\* only the transfer) is put back to pending.
CreateOutgoingWire == \E a \in open, amt \in TransferAmounts : SimulateOutgoing(a, amt, "pending")

\* updateTenantTransfer, from updateIncomingWireStatus, updateOutgoingWireStatus,
\* commitWireTransaction and PATCH .../transfers/:id: any status to any status;
\* neither the entries nor the balances follow.
UpdateTenantTransfer ==
    \E tr \in transfers, status \in TransferStatus :
        /\ transfers' = (transfers \ {tr}) \cup {[tr EXCEPT !.status = status]}
        /\ UNCHANGED <<open, balance, available, txns, yields, seq, opening, struck>>

\* deleteTenantTransfer: only the transfer goes.
DeleteTenantTransfer ==
    \E tr \in transfers :
        /\ transfers' = transfers \ {tr}
        /\ UNCHANGED <<open, balance, available, txns, yields, seq, opening, struck>>

-----------------------------------------------------------------------------
(* Card network events: simulateCardNetworkEvent *)

\* References a client sends: one it made up, or one of the account's entries.
ClientRefs(a) == {Ref("client", r, 0) : r \in Refs} \cup {t.ref : t \in EntriesOf(txns, a)}

\* Fault: a hold that was used up is found again.
HoldsOfAnyStatus(a, ref) ==
    {t \in EntriesOf(txns, a) : t.ref = ref /\ t.type = "hold"}

PendingHolds(a, ref) ==
    {t \in EntriesOf(txns, a) : t.ref = ref /\ t.type = "hold" /\ t.status = "pending"}

PostedDebits(a, ref) ==
    {t \in EntriesOf(txns, a) : t.ref = ref /\ t.type = "debit" /\ t.status = "posted"}

\* .slice().reverse().find(...)
IsLatest(t, ts) == t \in ts /\ \A u \in ts : u.seq <= t.seq

Reversed(h) == [h EXCEPT !.status = "reversed"]

\* A hold is booked; no balance changes.
CardAuthorization ==
    \E a \in open, amt \in CardAmounts :
        \E ref \in ClientRefs(a) \cup {Ref("card", NoOne, seq)} :
            /\ Book({Entry(a, "hold", -amt, "pending", ref, "card", 0)})
            /\ UNCHANGED <<open, balance, available, transfers, yields, opening, struck>>

\* The latest pending hold of the reference is reversed and released.
CardVoid ==
    \E a \in open : \E ref \in ClientRefs(a) : \E h \in PendingHolds(a, ref) :
        /\ IsLatest(h, PendingHolds(a, ref))
        /\ seq <= MaxOps
        /\ txns' = (txns \ {h}) \cup {Reversed(h),
                        Entry(a, "release", Abs(h.amount), "posted", ref, "card", h.seq)}
        /\ seq' = seq + 1
        /\ UNCHANGED <<open, balance, available, transfers, yields, opening, struck>>

\* The latest posted debit of the reference, card entry or not, is credited
\* back up to its amount; it stays posted and refundable.
CardRefund ==
    \E a \in open, amt \in CardAmounts : \E ref \in ClientRefs(a) : \E d \in PostedDebits(a, ref) :
        LET back == Lesser(amt, Abs(d.amount))
        IN  /\ IsLatest(d, PostedDebits(a, ref))
            /\ Book({Entry(a, "credit", back, "posted", ref, "refund", 0)})
            /\ balance' = Credit(balance, a, back)
            /\ available' = Credit(available, a, back)
            /\ UNCHANGED <<open, transfers, yields, opening, struck>>

\* A post that names a reference needs a pending hold and uses it up, whatever
\* the hold's amount.
CardCapture ==
    \E a \in open, amt \in CardAmounts : \E ref \in ClientRefs(a) : \E h \in PendingHolds(a, ref) :
        /\ IsLatest(h, PendingHolds(a, ref))
        /\ seq <= MaxOps
        /\ txns' = (txns \ {h}) \cup {Reversed(h),
                        Entry(a, "debit", -amt, "posted", ref, "card", h.seq)}
        /\ seq' = seq + 1
        /\ balance' = Debit(balance, a, amt)
        /\ available' = Debit(available, a, amt)
        /\ UNCHANGED <<open, transfers, yields, opening, struck>>

\* Fault: a post moves the balance and forgets the available one.
CardPostHalf ==
    \E a \in open, amt \in CardAmounts :
        /\ Book({Entry(a, "debit", -amt, "posted", Ref("card", NoOne, seq), "card", 0)})
        /\ balance' = Debit(balance, a, amt)
        /\ UNCHANGED <<open, available, transfers, yields, opening, struck>>

\* A post without a reference is booked under a new one.
CardPost ==
    \E a \in open, amt \in CardAmounts :
        /\ Book({Entry(a, "debit", -amt, "posted", Ref("card", NoOne, seq), "card", 0)})
        /\ balance' = Debit(balance, a, amt)
        /\ available' = Debit(available, a, amt)
        /\ UNCHANGED <<open, transfers, yields, opening, struck>>

-----------------------------------------------------------------------------
(* Accounts, seeding and resetting *)

\* createTenantAccount with a fresh id; the opening balance is booked if any.
CreateTenantAccount ==
    \E a \in Accounts \ (open \cup BaselineAccounts), amt \in TransferAmounts \cup {0} :
        LET start == RoundMoney(amt)
        IN  /\ Book(IF start > 0
                      THEN {Entry(a, "credit", start, "posted", Ref("opening", a, 0), "opening", 0)}
                      ELSE {})
            /\ open' = open \cup {a}
            /\ balance' = [balance EXCEPT ![a] = start]
            /\ available' = [available EXCEPT ![a] = start]
            /\ opening' = [opening EXCEPT ![a] = 0]
            /\ UNCHANGED <<transfers, yields, struck>>

\* Faults: only what the reference names is removed; only outgoing transfers are.
KeptUnlessNamed(a) == {t \in txns : ~Names(t.ref, a)}
KeptUnlessPayer(a) == {tr \in transfers : tr.from # a}

\* removeAccountGeneratedData
KeptTxns(a) == {t \in txns : t.account # a /\ ~Names(t.ref, a)}
KeptTransfers(a) == {tr \in transfers : tr.from # a /\ tr.to # a}

\* History: an entry of another account whose reference names account a goes
\* with a's data, and that account's balance keeps its amount until its own
\* ledger restarts.
Strike(a) ==
    struck' = {t \in struck : t.account # a} \cup {t \in txns : t.account # a /\ Names(t.ref, a)}

SeedEntries(a) ==
    {Entry(a, IF n = 1 THEN "credit" ELSE "debit", SeedAmount[n], "posted", Ref("seed", a, n), "seed", 0) :
        n \in 1..3}

\* seedTenantAccountData: a mock account restarts from its mock balances, any
\* other keeps the balance it has; the yield configuration stays.
SeedTenantAccountData ==
    \E a \in open :
        LET bal == IF a \in BaselineAccounts THEN BaselineBalance[a] ELSE balance[a]
            avl == IF a \in BaselineAccounts THEN BaselineAvailable[a] ELSE available[a]
        IN  /\ seq <= MaxOps
            /\ txns' = KeptTxns(a) \cup SeedEntries(a)
            /\ seq' = seq + 1
            /\ transfers' = KeptTransfers(a) \cup
                   {[ref |-> Ref("seed", a, 1), status |-> "completed", amount |-> SeedAmount[1],
                     from |-> NoOne, to |-> a]}
            /\ balance' = Credit([balance EXCEPT ![a] = bal], a, SeedNet)
            /\ available' = Credit([available EXCEPT ![a] = avl], a, SeedNet)
            /\ opening' = [opening EXCEPT ![a] = bal]
            /\ Strike(a)
            /\ UNCHANGED <<open, yields>>

\* resetTenantAccountData: mock balances, or zero; the yield configuration goes.
ResetTenantAccountData ==
    \E a \in open :
        /\ txns' = KeptTxns(a)
        /\ transfers' = KeptTransfers(a)
        /\ balance' = [balance EXCEPT ![a] = IF a \in BaselineAccounts THEN BaselineBalance[a] ELSE 0]
        /\ available' = [available EXCEPT ![a] = IF a \in BaselineAccounts THEN BaselineAvailable[a] ELSE 0]
        /\ opening' = [opening EXCEPT ![a] = IF a \in BaselineAccounts THEN BaselineBalance[a] ELSE 0]
        /\ yields' = [yields EXCEPT ![a] = NoYield]
        /\ Strike(a)
        /\ UNCHANGED <<open, seq>>

\* resetTenantDataset
ResetTenantDataset ==
    /\ open' = {}
    /\ balance' = [a \in Accounts |-> 0]
    /\ available' = [a \in Accounts |-> 0]
    /\ txns' = {}
    /\ transfers' = {}
    /\ yields' = [a \in Accounts |-> NoYield]
    /\ opening' = [a \in Accounts |-> 0]
    /\ struck' = {}
    /\ UNCHANGED seq

\* seedTenantDataset: the dataset is replaced by a fresh clone.
SeedTenantDataset ==
    /\ open' = BaselineAccounts
    /\ balance' = BaselineBalance
    /\ available' = BaselineAvailable
    /\ txns' = BaselineTxns
    /\ transfers' = BaselineTransfers
    /\ yields' = [a \in Accounts |-> NoYield]
    /\ opening' = BaselineOpening
    /\ struck' = {}
    /\ UNCHANGED seq

-----------------------------------------------------------------------------
(* Yield and interest *)

\* Fault: a new configuration starts from nothing.
UpsertYieldConfigAfresh ==
    \E a \in open, apy \in Apys, enabled \in BOOLEAN :
        /\ yields' = [yields EXCEPT ![a] = [NoYield EXCEPT !.set = TRUE, !.apy = apy, !.enabled = enabled]]
        /\ UNCHANGED <<open, balance, available, txns, transfers, seq, opening, struck>>

\* upsertYieldConfig keeps the total and the last accrual date.
UpsertYieldConfig ==
    \E a \in open, apy \in Apys, enabled \in BOOLEAN :
        /\ yields' = [yields EXCEPT ![a] = [@ EXCEPT !.set = TRUE, !.apy = apy, !.enabled = enabled]]
        /\ UNCHANGED <<open, balance, available, txns, transfers, seq, opening, struck>>

\* Accounts the loop does not skip on date d, and those it then pays.
Due(d) == {a \in open : yields[a].set /\ yields[a].enabled /\ yields[a].apy > 0 /\ yields[a].last # d}
Interest(a) == DailyInterest(balance[a], yields[a].apy)
Paid(d) == {a \in Due(d) : Interest(a) > 0}

\* accrueDailyInterest: a due account is stamped with the date whether or not
\* interest comes out positive; only the last date is remembered.
AccrueDailyInterest ==
    \E d \in Dates :
        LET Pay(f) == [a \in Accounts |-> IF a \in Paid(d) THEN RoundMoney(f[a] + Interest(a)) ELSE f[a]]
        IN  /\ Book({Entry(a, "credit", Interest(a), "posted", Ref("interest", a, d), "interest", 0) :
                        a \in Paid(d)})
            /\ balance' = Pay(balance)
            /\ available' = Pay(available)
            /\ yields' = [a \in Accounts |->
                   CASE a \in Paid(d) -> [yields[a] EXCEPT !.last = d, !.total = RoundMoney(@ + Interest(a))]
                     [] a \in Due(d) \ Paid(d) -> [yields[a] EXCEPT !.last = d]
                     [] OTHER -> yields[a]]
            /\ UNCHANGED <<open, transfers, opening, struck>>

-----------------------------------------------------------------------------
Next ==
    \/ InternalTransfer
    \/ ExternalTransfer
    \/ LoanOnboardingFunding
    \/ SimulateIncomingRailTransfer
    \/ SimulateOutgoingAchTransfer
    \/ CreateOutgoingWire
    \/ UpdateTenantTransfer
    \/ DeleteTenantTransfer
    \/ CardAuthorization
    \/ CardVoid
    \/ CardRefund
    \/ CardCapture
    \/ CardPost
    \/ CreateTenantAccount
    \/ SeedTenantAccountData
    \/ ResetTenantAccountData
    \/ ResetTenantDataset
    \/ SeedTenantDataset
    \/ UpsertYieldConfig
    \/ AccrueDailyInterest

Spec == Init /\ [][Next]_vars

-----------------------------------------------------------------------------
(* Properties *)

\* Every variable has its type, and balances are whole cents.
TypeOK ==
    /\ open \subseteq Accounts
    /\ balance \in [Accounts -> Money] /\ available \in [Accounts -> Money]
    /\ txns \subseteq Txn /\ transfers \subseteq Transfer
    /\ yields \in [Accounts -> YieldConfig]
    /\ seq \in Nat \ {0}
    /\ opening \in [Accounts -> Int]
    /\ struck \subseteq Txn

\* A transfer in the list has its entries in the ledger: a debit if its payer
\* is an account of the tenant and a credit if it names a payee, under its
\* reference and for its amount, whatever became of its status and of either
\* account (createTenantTransfer, the rail simulations, account seed and
\* reset).  The mock transfers of a fresh tenant have no such entries.
TransferBooked ==
    \A tr \in transfers :
        tr.ref.kind # "baseline" =>
            /\ tr.from # NoOne => \E t \in EntriesOf(txns, tr.from) :
                   t.ref = tr.ref /\ t.type = "debit" /\ t.amount = -tr.amount
            /\ tr.to # NoOne => \E t \in EntriesOf(txns, tr.to) :
                   t.ref = tr.ref /\ t.type = "credit" /\ t.amount = tr.amount

\* A hold is used up exactly once: every reversed hold has one release or one
\* capture, every release or capture has its own reversed hold on the same
\* account and reference, and a release gives back the amount held
\* (simulateCardNetworkEvent, void and post; REQ-F-004 criterion 6).
HoldResolvedOnce ==
    /\ \A h \in txns : (h.type = "hold" /\ h.status = "reversed") => \E t \in txns : t.resolves = h.seq
    /\ \A t, u \in txns : (t.resolves = u.resolves /\ t.resolves # 0) => t = u
    /\ \A t \in txns : t.resolves # 0 =>
           \E h \in txns : /\ h.seq = t.resolves /\ h.type = "hold" /\ h.status = "reversed"
                           /\ h.account = t.account /\ h.ref = t.ref
                           /\ t.type = "release" => t.amount = -h.amount

\* A refund on the books has a posted debit of the same account and reference
\* that is at least as large (simulateCardNetworkEvent, refund).
RefundBacked ==
    \A r \in txns : r.by = "refund" =>
        \E d \in EntriesOf(txns, r.account) :
            d.ref = r.ref /\ d.type = "debit" /\ d.status = "posted" /\ r.amount <= Abs(d.amount)

\* The entries whose money an account's balance holds: those on the books, and
\* those that a seed or reset of another account took off them.
Counted == txns \cup struck

\* An account's balance is what its ledger started from plus what its entries
\* add up to, up to half a cent for each entry that is not in whole cents
\* (REQ-F-004 criterion 5, REQ-F-008 criterion 7).  The only entries that are
\* off the books and still in the balance are those whose client-chosen
\* reference contains the id of another account that was seeded or reset
\* (removeAccountGeneratedData); no other path loses, doubles or misstates one.
Reconciled ==
    \A a \in open :
        Abs(balance[a] - opening[a] - Booked(Counted, a)) <=
            2 * Cardinality({t \in EntriesOf(Counted, a) : t.amount % Cent # 0})

\* Nothing separates the two balances of an account, neither a hold nor a
\* pending transfer: they stay as far apart as in the mock data, and equal on
\* the other accounts.
AvailableFollowsBalance ==
    \A a \in open : available[a] - balance[a] = BaselineAvailable[a] - BaselineBalance[a]

\* The interest on an account's books never exceeds the total that its yield
\* configuration reports (accrueDailyInterest, upsertYieldConfig, and the
\* resets that drop one or the other).
InterestWithinTotal ==
    \A a \in open : Total({t \in EntriesOf(txns, a) : t.by = "interest"}) <= yields[a].total

\* An account is paid interest at most once for a date
\* (tests/req-f-008-daily-interest-accrual.test.ts: "once per date").
InterestOncePerDate ==
    \A t, u \in txns : (t.by = "interest" /\ u.by = "interest" /\ t.ref = u.ref) => t = u
=============================================================================
