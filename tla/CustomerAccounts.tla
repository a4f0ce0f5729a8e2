-------------------------- MODULE CustomerAccounts --------------------------
(***************************************************************************)
(* Customers and the servicing of their accounts (routes/customers.ts,     *)
(* routes/accounts.ts and the functions of services/tenant-store.ts they   *)
(* call), for one tenant: e-mail addresses, ownership, the lists kept in   *)
(* the metadata of customers and accounts, user-defined fields and         *)
(* documents, and what routes/customers.ts keeps in Maps of its own: debit *)
(* cards, beneficiaries, collaterals and uploads.                          *)
(*                                                                         *)
(* A record is its id and a stamp, which stands for the rest of it; states *)
(* of identification and times are left out, money is in module Ledger,    *)
(* the course of a flush in module Persistence.  Of names, and of what is  *)
(* sent as the status, type or currency of an account, counts whether it   *)
(* can be stored: some routes take any JSON there, and with SQLite a       *)
(* boolean, an object or an array makes the save throw (a number is stored *)
(* as text).  Handlers have no await: a request is one step.  Requests     *)
(* that change nothing are left out.                                       *)
(***************************************************************************)
EXTENDS Naturals, Sequences, FiniteSets, Functions

CONSTANTS
    Customers, Accounts,           \* ids
    MockCustomers, MockEmail,      \* the mock data: customers, their addresses,
    MockOwner,                     \* and accounts with their owners
    Emails, Normal,                \* spellings of addresses; trimmed, in lower case
    Ids,                           \* ids of records, from clients or the clock
    PatchedLists,                  \* metadata that PATCH requests send
    CardIds, Numbers,              \* debit cards
    Workloads,                     \* bound: the kinds of lists, and "debitCards",
                                   \* that requests of one run are about
    Absent,                        \* a sentinel: no customer, no account
    MaxOps,                        \* bound: requests
    MaxCrashes                     \* bound: restarts

VARIABLES
    workload,     \* bound: one of Workloads
    data,         \* the tenant's dataset, and lists of the Maps in customers.ts
    kept,         \* the dataset stored last
    used,         \* ids given out (uuids, which never repeat)
    cards,        \* debitCardsByTenant: the cards of each customer
    cardOrder,    \* its keys, in insertion order
    cardsShown,   \* history: each card as a response showed it last
    ops,          \* requests so far; the stamp given last
    crashes       \* bound: restarts so far

vars == <<workload, data, kept, used, cards, cardOrder, cardsShown, ops, crashes>>

-----------------------------------------------------------------------------
(* Records and datasets *)

AccountLists ==
    {"stopCheckPayments", "stopAchPayments", "escrowDisbursements", "escrowProjections",
     "loanChargeAssessment", "remoteDeposits", "statements", "futureRatePaymentChanges",
     "accountNotes", "rewardProgramLevel", "reservePremium", "originalLtv"}
CustomerLists == {"olbEnabled", "creditCards"}
MetadataLists == AccountLists \cup CustomerLists
TableLists == {"userDefinedFields", "documents"}
MemoryLists == {"beneficiaries", "collaterals", "uploads"}

\* The id of metadata that is a value and no list.
Only == "value"

Holders == Customers \cup Accounts
Keys == Holders \X (MetadataLists \cup TableLists \cup MemoryLists)
Record == [id : Ids \cup {Only}, val : Nat]
Shown == [key : Keys, id : Ids \cup {Only}, val : Nat]
\* A value that is bound to no parameter of an INSERT, and any other text.
Unbound == "unbound"
Texts == {"text", Unbound}
Statuses == {"active", "closed"} \cup Texts
Account == [owner : Customers, status : Statuses, type : Texts, currency : Texts]
Card == [id : CardIds, number : Numbers, status : {"active", "frozen", "inactive"}]

\* customers holds addresses, unboundNames the customers with a first name, last
\* name or external id that is Unbound.  shown is history: each record as a
\* response showed it last.
Dataset == [customers : [Customers -> Emails \cup {Absent}], unboundNames : SUBSET Customers,
            accounts : [Accounts -> Account \cup {Absent}],
            lists : UNION {[K -> Seq(Record)] : K \in SUBSET Keys}, shown : SUBSET Shown]

ASSUME CustomersAssumption ==
    /\ MockCustomers \subseteq Customers
    /\ MockEmail \in [MockCustomers -> Emails]
    /\ DOMAIN MockOwner \subseteq Accounts /\ MockOwner \in [DOMAIN MockOwner -> MockCustomers]
    /\ Normal \in [Emails -> Emails] /\ \A e \in Emails : Normal[Normal[e]] = Normal[e]
    /\ \A c, d \in MockCustomers : Normal[MockEmail[c]] = Normal[MockEmail[d]] => c = d
    /\ Only \notin Ids
    /\ Absent \notin Emails /\ Absent \notin Account
    /\ PatchedLists \subseteq AccountLists
    /\ \A w \in Workloads : w \subseteq MetadataLists \cup TableLists \cup MemoryLists \cup {"debitCards"}
    /\ MaxOps \in Nat /\ MaxCrashes \in Nat

Put(map, k, s) == [x \in DOMAIN map \cup {k} |-> IF x = k THEN s ELSE map[x]]
Of(map, kinds) == Restrict(map, {k \in DOMAIN map : k[2] \in kinds})
ShownOf(shown, kinds) == {x \in shown : x.key[2] \in kinds}

NewAccount(c, currency) == [owner |-> c, status |-> "active", type |-> "text", currency |-> currency]

\* cloneDataset; the Maps of customers.ts are not part of the dataset.
CloneDataset(lists, shown) ==
    [customers |-> [c \in Customers |-> IF c \in MockCustomers THEN MockEmail[c] ELSE Absent],
     unboundNames |-> {},
     accounts |-> [a \in Accounts |-> IF a \in DOMAIN MockOwner THEN NewAccount(MockOwner[a], "text") ELSE Absent],
     lists |-> Of(lists, MemoryLists), shown |-> ShownOf(shown, MemoryLists)]

DistinctIds(s) == \A i, j \in DOMAIN s : s[i].id = s[j].id => i = j

\* saveTenantEntities throws unless every value can be bound and no two rows
\* have one key.  It has no foreign keys checked.
Accepted ==
    /\ data.unboundNames = {}
    /\ \A a \in Accounts : data.accounts[a] # Absent =>
          Unbound \notin {data.accounts[a].status, data.accounts[a].type, data.accounts[a].currency}
    /\ \A k \in DOMAIN data.lists : k[2] \in TableLists => DistinctIds(data.lists[k])

\* saveTenantDataset
Saved == [data EXCEPT !.lists = Of(@, MetadataLists \cup TableLists),
                      !.shown = ShownOf(@, MetadataLists \cup TableLists)]

\* loadTenantDatasetFromDb; a tenant without customers is taken for a
\* new one.
Loaded ==
    IF \/ kept = Absent
       \/ \A c \in Customers : kept.customers[c] = Absent
    THEN CloneDataset(<<>>, {}) ELSE kept

\* findIndex, with 0 for none
Find(s, id) == IF \E i \in DOMAIN s : s[i].id = id
               THEN CHOOSE i \in DOMAIN s : s[i].id = id /\ \A j \in DOMAIN s : j < i => s[j].id # id ELSE 0

\* getAccountMetadataCollection and its like: a list that is not there is empty.
List(at, kind) == IF <<at, kind>> \in DOMAIN data.lists THEN data.lists[<<at, kind>>] ELSE <<>>

Rec(id) == [id |-> id, val |-> ops + 1]

\* What a client knows after a response with record r of list k, or with the
\* news that the record id is gone.
Hide(shown, k, id) == {x \in shown : x.key # k \/ x.id # id}
Show(shown, k, r) == Hide(shown, k, r.id) \cup {[key |-> k, id |-> r.id, val |-> r.val]}

\* What a client knows after a response with all of list k.
ShowAll(shown, k, s) ==
    {x \in shown : x.key # k} \cup {[key |-> k, id |-> r.id, val |-> r.val] : r \in Range(s)}

-----------------------------------------------------------------------------
Init ==
    /\ workload \in Workloads
    /\ data = CloneDataset(<<>>, {})
    /\ kept = Absent
    /\ used = MockCustomers \cup DOMAIN MockOwner
    /\ cards = [c \in Customers |-> <<>>] /\ cardOrder = <<>> /\ cardsShown = {}
    /\ ops = 0 /\ crashes = 0

Present(c) == data.customers[c] # Absent
Exists(a) == data.accounts[a] # Absent
Belongs(a, c) == Exists(a) /\ data.accounts[a].owner = c

\* A request that leaves the tenant with the dataset ds.
Request(ds) ==
    /\ ops < MaxOps
    /\ ops' = ops + 1
    /\ data' = ds
    /\ UNCHANGED <<workload, kept, cards, cardOrder, cardsShown, crashes>>

-----------------------------------------------------------------------------
(* Customers and accounts *)

\* Fault: addresses are compared as they are spelled.
TakenAsSpelled(e, others) == \E c \in others : Present(c) /\ data.customers[c] = e

Taken(e, others) == \E c \in others : Present(c) /\ Normal[data.customers[c]] = Normal[e]

\* POST /customers and POST /portal-api/users, which takes any names
CreateTenantCustomer ==
    \E c \in Customers \ used, e \in Emails : \E unbound \in SUBSET {c} :
        /\ ~Taken(e, Customers)
        /\ used' = used \cup {c}
        /\ Request([data EXCEPT !.customers[c] = Normal[e], !.unboundNames = @ \cup unbound])

\* PATCH /customers/:id, with names or without, with an address or without; a
\* taken one refuses the whole request.
UpdateTenantCustomer ==
    \E c \in Customers : \E renamed \in SUBSET {c} :
        /\ Present(c)
        /\ UNCHANGED used
        /\ \/ Request([data EXCEPT !.unboundNames = @ \ renamed])
           \/ \E e \in Emails :
                 /\ ~Taken(e, Customers \ {c})
                 /\ Request([data EXCEPT !.customers[c] = Normal[e], !.unboundNames = @ \ renamed])

\* Fault: the customer is not looked up.
CreateAccountForAnyone ==
    \E a \in Accounts \ used, c \in Customers, currency \in Texts :
        /\ used' = used \cup {a}
        /\ Request([data EXCEPT !.accounts[a] = NewAccount(c, currency)])

\* POST /customers/:id/accounts and POST /portal-api/accounts, which takes any
\* currency
CreateTenantAccount ==
    \E a \in Accounts \ used, c \in Customers, currency \in Texts :
        /\ Present(c)
        /\ used' = used \cup {a}
        /\ Request([data EXCEPT !.accounts[a] = NewAccount(c, currency)])

\* POST .../close and .../reopen: updateTenantAccount comes first, whether the
\* account is the customer's only decides on the answer.
CloseAccount == \E a \in Accounts : Exists(a) /\ Request([data EXCEPT !.accounts[a].status = "closed"]) /\ UNCHANGED used
ReopenAccount == \E a \in Accounts : Exists(a) /\ Request([data EXCEPT !.accounts[a].status = "active"]) /\ UNCHANGED used

-----------------------------------------------------------------------------
(* Metadata of accounts and customers *)

\* Fault: the metadata is replaced by the part that the request is about.
SaveMetadataAlone(at, kind, s) ==
    Put(Restrict(data.lists, {k \in DOMAIN data.lists : k[1] # at \/ k[2] \notin MetadataLists}), <<at, kind>>, s)

\* saveAccountMetadataCollection, updateTenantAccount: what else the metadata
\* holds stays.
SaveMetadata(at, kind, s) == Put(data.lists, <<at, kind>>, s)

\* The list of the holder becomes s and the response shows its record r.
Change(at, kind, s, r) ==
    /\ kind \in workload
    /\ Request([data EXCEPT !.lists = SaveMetadata(at, kind, s), !.shown = Show(@, <<at, kind>>, r)])
    /\ UNCHANGED used

\* The id, if the client sends one, may be there already.
Add(at, kind, id) == Change(at, kind, Append(List(at, kind), Rec(id)), Rec(id))

\* A value takes the place of whatever was there, a list from a PATCH too.
SetValue(at, kind) ==
    LET s == <<Rec(Only)>>
    IN  /\ kind \in workload
        /\ Request([data EXCEPT !.lists = SaveMetadata(at, kind, s), !.shown = ShowAll(@, <<at, kind>>, s)])
        /\ UNCHANGED used

\* Fault: the first one with the id goes.
RemoveFirst(s, id) ==
    LET i == Find(s, id) IN IF i = 0 THEN s ELSE SubSeq(s, 1, i - 1) \o SubSeq(s, i + 1, Len(s))

\* filter: every record with the id goes.
RemoveAll(s, id) ==
    LET rest[i \in 0..Len(s)] ==
            IF i = 0 THEN <<>> ELSE IF s[i].id = id THEN rest[i - 1] ELSE Append(rest[i - 1], s[i])
    IN  rest[Len(s)]

DeleteStopPayments(kind) ==
    \E c \in Customers, a \in Accounts, id \in Ids :
        /\ Belongs(a, c) /\ kind \in workload
        /\ Request([data EXCEPT !.lists = SaveMetadata(a, kind, RemoveAll(List(a, kind), id)),
                                !.shown = Hide(@, <<a, kind>>, id)])
        /\ UNCHANGED used

\* By the account's own route, and by the customer's.
PostStopCheckPayment == \E a \in Accounts, id \in Ids : Exists(a) /\ Add(a, "stopCheckPayments", id)
PostCustomerStopCheckPayment ==
    \E c \in Customers, a \in Accounts, id \in Ids : Belongs(a, c) /\ Add(a, "stopCheckPayments", id)
DeleteStopCheckPayment == DeleteStopPayments("stopCheckPayments")

PostStopAchPayment ==
    \E c \in Customers, a \in Accounts, id \in Ids : Belongs(a, c) /\ Add(a, "stopAchPayments", id)
DeleteStopAchPayment == DeleteStopPayments("stopAchPayments")

PostEscrowDisbursement == \E a \in Accounts, id \in Ids : Exists(a) /\ Add(a, "escrowDisbursements", id)
PostEscrowProjection == \E a \in Accounts, id \in Ids : Exists(a) /\ Add(a, "escrowProjections", id)

\* The first projection with the id is replaced, the first of all without an
\* id; where there is none, one is added.
PatchEscrowProjection ==
    \E a \in Accounts, id \in Ids, named \in BOOLEAN :
        LET s == List(a, "escrowProjections")
            target == IF named \/ s = <<>> THEN id ELSE s[1].id
            i == Find(s, target)
        IN  /\ Exists(a)
            /\ Change(a, "escrowProjections",
                      IF i = 0 THEN Append(s, Rec(target)) ELSE [s EXCEPT ![i] = Rec(target)], Rec(target))

PostLoanChargeAssessment == \E a \in Accounts, id \in Ids : Exists(a) /\ Add(a, "loanChargeAssessment", id)
PostRemoteDeposit == \E a \in Accounts, id \in Ids : Exists(a) /\ Add(a, "remoteDeposits", id)
PostFutureRatePaymentChange == \E a \in Accounts, id \in Ids : Exists(a) /\ Add(a, "futureRatePaymentChanges", id)
PostAccountNote == \E a \in Accounts, id \in Ids : Exists(a) /\ Add(a, "accountNotes", id)
PatchRewardProgramLevel == \E a \in Accounts : Exists(a) /\ SetValue(a, "rewardProgramLevel")
PostReservePremium == \E a \in Accounts : Exists(a) /\ SetValue(a, "reservePremium")
PostOriginalLtv == \E a \in Accounts : Exists(a) /\ SetValue(a, "originalLtv")

\* A read of no statements, or of one that is not there, makes it.
GetStatements ==
    \E a \in Accounts, id \in Ids : Exists(a) /\ List(a, "statements") = <<>> /\ Add(a, "statements", id)
GetStatement ==
    \E a \in Accounts, id \in Ids : Exists(a) /\ Find(List(a, "statements"), id) = 0 /\ Add(a, "statements", id)

\* updateTenantAccount
Patched(a, status, type) == [data EXCEPT !.accounts[a] = [@ EXCEPT !.status = status, !.type = type]]

\* PATCH /customers/:id/accounts/:accountId: status and type, whatever was sent
\* (or, where nothing was, as they are), and no metadata or metadata of which
\* one entry is another list (or, no list, reads as empty).
PatchAccount ==
    \E c \in Customers, a \in Accounts, status \in Statuses, type \in Texts :
        /\ Belongs(a, c)
        /\ UNCHANGED used
        /\ \/ Request(Patched(a, status, type))
           \/ \E kind \in PatchedLists \cap workload, s \in {<<>>} \cup {<<Rec(id)>> : id \in Ids} :
                 Request([Patched(a, status, type) EXCEPT !.lists = Put(@, <<a, kind>>, s),
                                                          !.shown = ShowAll(@, <<a, kind>>, s)])

UpdateOlbFlag == \E c \in Customers : Present(c) /\ SetValue(c, "olbEnabled")
PostCreditCard == \E c \in Customers, id \in Ids : Present(c) /\ Add(c, "creditCards", id)

-----------------------------------------------------------------------------
(* User-defined fields *)

\* Fault: every field sent is a new one.
UpsertAlways(s, r) == Append(s, r)

\* Replace the record with r's id, or add r.
Upsert(s, r) == LET i == Find(s, r.id) IN IF i = 0 THEN Append(s, r) ELSE [s EXCEPT ![i] = r]

\* upsertUserDefinedFields, of one field or two
UpsertUserDefinedFields(at, id1, id2) ==
    LET k == <<at, "userDefinedFields">>
    IN  /\ "userDefinedFields" \in workload
        /\ Request([data EXCEPT !.lists = Put(@, k, Upsert(Upsert(List(at, "userDefinedFields"), Rec(id1)), Rec(id2))),
                                !.shown = Show(Show(@, k, Rec(id1)), k, Rec(id2))])
        /\ UNCHANGED used

\* splice at findIndex
Delete(at, kind, id) ==
    /\ Find(List(at, kind), id) # 0 /\ kind \in workload
    /\ Request([data EXCEPT !.lists = Put(@, <<at, kind>>, RemoveFirst(List(at, kind), id)),
                            !.shown = Hide(@, <<at, kind>>, id)])
    /\ UNCHANGED used

PostCustomerUserDefinedFields ==
    \E c \in Customers, id1, id2 \in Ids : Present(c) /\ UpsertUserDefinedFields(c, id1, id2)
PostAccountUserDefinedFields ==
    \E c \in Customers, a \in Accounts, id1, id2 \in Ids : Belongs(a, c) /\ UpsertUserDefinedFields(a, id1, id2)
DeleteAccountUserDefinedField ==
    \E c \in Customers, a \in Accounts, id \in Ids : Belongs(a, c) /\ Delete(a, "userDefinedFields", id)

-----------------------------------------------------------------------------
(* Documents *)

\* createDocument: one with the id that is there already is overwritten.
CreateDocument(at, id) ==
    /\ "documents" \in workload
    /\ Request([data EXCEPT !.lists = Put(@, <<at, "documents">>, Upsert(List(at, "documents"), Rec(id))),
                            !.shown = Show(@, <<at, "documents">>, Rec(id))])
    /\ UNCHANGED used

\* A document that is not there is made by a read, too.
GetDocument(at, id) == Find(List(at, "documents"), id) = 0 /\ CreateDocument(at, id)

\* updateDocument; where there is none, one with the id in the patch is made,
\* if it has one.
PatchDocument(at, id, patchId) ==
    IF Find(List(at, "documents"), id) = 0 THEN CreateDocument(at, patchId) ELSE CreateDocument(at, id)

PostCustomerDocument == \E c \in Customers, id \in Ids : Present(c) /\ CreateDocument(c, id)
GetCustomerDocument == \E c \in Customers, id \in Ids : Present(c) /\ GetDocument(c, id)
PatchCustomerDocument == \E c \in Customers, id, patchId \in Ids : Present(c) /\ PatchDocument(c, id, patchId)
DeleteCustomerDocument == \E c \in Customers, id \in Ids : Present(c) /\ Delete(c, "documents", id)
PostAccountDocument ==
    \E c \in Customers, a \in Accounts, id \in Ids : Belongs(a, c) /\ CreateDocument(a, id)
GetAccountDocument ==
    \E c \in Customers, a \in Accounts, id \in Ids : Belongs(a, c) /\ GetDocument(a, id)
PatchAccountDocument ==
    \E c \in Customers, a \in Accounts, id, patchId \in Ids : Belongs(a, c) /\ PatchDocument(a, id, patchId)
DeleteAccountDocument ==
    \E c \in Customers, a \in Accounts, id \in Ids : Belongs(a, c) /\ Delete(a, "documents", id)

-----------------------------------------------------------------------------
(* The Maps of customers.ts *)

\* A Set: a link that is there stays one.
LinkBeneficiaryOwner ==
    \E c \in Customers, id \in Ids :
        /\ Present(c)
        /\ Change(c, "beneficiaries", Upsert(List(c, "beneficiaries"), Rec(id)), Rec(id))
UnlinkBeneficiaryOwner == \E c \in Customers, id \in Ids : Present(c) /\ Delete(c, "beneficiaries", id)
PostCollateral == \E c \in Customers, id \in Ids : Present(c) /\ Add(c, "collaterals", id)
UploadFile == \E c \in Customers, id \in Ids : Present(c) /\ Add(c, "uploads", id)

\* Fault: a customer's list is made anew each time.
CardOrderAppended(c) == Append(cardOrder, c)

\* getTenantDebitCards: a customer's list is made on first use, by a read too.
CardOrderWith(c) == IF c \in Range(cardOrder) THEN cardOrder ELSE Append(cardOrder, c)

\* The cards of all become s and the response shows the one with id and status.
CardRequest(c, s, id, status) ==
    /\ "debitCards" \in workload
    /\ ops < MaxOps
    /\ ops' = ops + 1
    /\ cards' = s
    /\ cardOrder' = CardOrderWith(c)
    /\ cardsShown' = {x \in cardsShown : x.customer # c \/ x.id # id} \cup
                     {[customer |-> c, id |-> id, status |-> status]}
    /\ UNCHANGED <<workload, data, kept, used, crashes>>

ListDebitCards ==
    \E c \in Customers :
        /\ Present(c)
        /\ c \notin Range(cardOrder) /\ "debitCards" \in workload
        /\ ops < MaxOps
        /\ ops' = ops + 1
        /\ cardOrder' = CardOrderWith(c)
        /\ UNCHANGED <<workload, data, kept, used, cards, cardsShown, crashes>>

\* The id is the time, in milliseconds, which two requests may share.
PostDebitCard ==
    \E c \in Customers, id \in CardIds, n \in Numbers :
        /\ Present(c)
        /\ CardRequest(c, [cards EXCEPT ![c] = Append(@, [id |-> id, number |-> n, status |-> "inactive"])], id, "inactive")

\* A card that is not there is made, for a customer who need not be there.
SetCardStatus(status) ==
    \E c \in Customers, id \in CardIds, n \in Numbers :
        LET i == Find(cards[c], id)
        IN  CardRequest(c, IF i = 0 THEN [cards EXCEPT ![c] = Append(@, [id |-> id, number |-> n, status |-> status])]
                           ELSE [cards EXCEPT ![c][i].status = status], id, status)

ActivateCard == SetCardStatus("active")
FreezeCard == SetCardStatus("frozen")
UnfreezeCard == SetCardStatus("active")

HasNumber(c, i, n) == i \in DOMAIN cards[c] /\ cards[c][i].number = n

\* The first card with the number, over the customers in the Map's order.
FirstWithNumber(c, i, n) ==
    /\ HasNumber(c, i, n)
    /\ \A j \in 1..(i - 1) : ~HasNumber(c, j, n)
    /\ \E p \in DOMAIN cardOrder :
          /\ cardOrder[p] = c
          /\ \A q \in 1..(p - 1) : \A j \in DOMAIN cards[cardOrder[q]] : ~HasNumber(cardOrder[q], j, n)

\* Fault: the search goes on behind the card it finds.
WithStatusEverywhere(c, i, status) ==
    [d \in Customers |-> [j \in DOMAIN cards[d] |->
        IF HasNumber(d, j, cards[c][i].number) THEN [cards[d][j] EXCEPT !.status = status] ELSE cards[d][j]]]

WithStatus(c, i, status) == [cards EXCEPT ![c][i].status = status]

SetStatusByNumber(status) ==
    \E c \in Customers, n \in Numbers : \E i \in DOMAIN cards[c] :
        /\ FirstWithNumber(c, i, n)
        /\ CardRequest(c, WithStatus(c, i, status), cards[c][i].id, status)

ActivateCardByCardNumber == SetStatusByNumber("active")
UpdateStatusByCardNumber == \E status \in {"active", "frozen", "inactive"} : SetStatusByNumber(status)

-----------------------------------------------------------------------------
(* The tenant as a whole *)

\* resetTenantDataset: customers and accounts go, with their metadata; fields,
\* documents and the Maps of customers.ts stay.
ResetTenantDataset ==
    /\ Request([data EXCEPT !.customers = [c \in Customers |-> Absent], !.unboundNames = {},
                            !.accounts = [a \in Accounts |-> Absent],
                            !.lists = Of(@, TableLists \cup MemoryLists),
                            !.shown = ShownOf(@, TableLists \cup MemoryLists)])
    /\ UNCHANGED used

SeedTenantDataset == Request(CloneDataset(data.lists, data.shown)) /\ UNCHANGED used

\* A flush that ends well.
Flush ==
    /\ Accepted /\ kept # Saved
    /\ kept' = Saved
    /\ UNCHANGED <<workload, data, used, cards, cardOrder, cardsShown, ops, crashes>>

Restart ==
    /\ crashes < MaxCrashes
    /\ crashes' = crashes + 1
    /\ data' = Loaded
    /\ cards' = [c \in Customers |-> <<>>] /\ cardOrder' = <<>> /\ cardsShown' = {}
    /\ UNCHANGED <<workload, kept, used, ops>>

CustomerRequest ==
    \/ CreateTenantCustomer \/ UpdateTenantCustomer \/ CreateTenantAccount \/ CloseAccount \/ ReopenAccount
    \/ PatchAccount \/ UpdateOlbFlag \/ PostCreditCard
    \/ PostCustomerStopCheckPayment \/ DeleteStopCheckPayment \/ PostStopAchPayment \/ DeleteStopAchPayment
    \/ PostCustomerUserDefinedFields \/ PostAccountUserDefinedFields \/ DeleteAccountUserDefinedField
    \/ PostCustomerDocument \/ GetCustomerDocument \/ PatchCustomerDocument \/ DeleteCustomerDocument
    \/ PostAccountDocument \/ GetAccountDocument \/ PatchAccountDocument \/ DeleteAccountDocument
    \/ LinkBeneficiaryOwner \/ UnlinkBeneficiaryOwner \/ PostCollateral \/ UploadFile

AccountRequest ==
    \/ PostStopCheckPayment \/ PostEscrowDisbursement \/ PostEscrowProjection \/ PatchEscrowProjection
    \/ PostLoanChargeAssessment \/ PostRemoteDeposit \/ PostFutureRatePaymentChange \/ PostAccountNote
    \/ PatchRewardProgramLevel \/ PostReservePremium \/ PostOriginalLtv \/ GetStatements \/ GetStatement

DebitCardRequest ==
    \/ ListDebitCards \/ PostDebitCard \/ ActivateCard \/ FreezeCard \/ UnfreezeCard
    \/ ActivateCardByCardNumber \/ UpdateStatusByCardNumber

Next ==
    \/ CustomerRequest \/ AccountRequest \/ DebitCardRequest
    \/ ResetTenantDataset \/ SeedTenantDataset \/ Flush \/ Restart

Spec == Init /\ [][Next]_vars

-----------------------------------------------------------------------------
(* Properties *)

\* Every variable has its type.
TypeOK ==
    /\ workload \in Workloads
    /\ \A ds \in {data} \cup ({kept} \ {Absent}) :
          /\ ds.customers \in [Customers -> Emails \cup {Absent}]
          /\ ds.unboundNames \subseteq Customers
          /\ ds.accounts \in [Accounts -> Account \cup {Absent}]
          /\ DOMAIN ds.lists \subseteq Keys /\ \A k \in DOMAIN ds.lists : ds.lists[k] \in Seq(Record)
          /\ ds.shown \subseteq Shown
    /\ used \subseteq Holders
    /\ cards \in [Customers -> Seq(Card)] /\ cardOrder \in Seq(Customers)
    /\ \A i, j \in DOMAIN cardOrder : cardOrder[i] = cardOrder[j] => i = j
    /\ cardsShown \subseteq [customer : Customers, id : CardIds, status : {"active", "frozen", "inactive"}]
    /\ ops \in 0..MaxOps /\ crashes \in 0..MaxCrashes

\* No two customers of the tenant have one address, however it is spelled
\* (createTenantCustomer, updateTenantCustomer, through seeds and restarts).
EmailsUnique ==
    \A c, d \in Customers : (Present(c) /\ Present(d) /\ Normal[data.customers[c]] = Normal[data.customers[d]]) => c = d

\* No two fields and no two documents of a holder share an id, and the owner of
\* every account is there.  The first is what the primary keys ask of a save
\* (but for loan payments, of which module Persistence is), the second what no
\* database checks: SQLite's foreign keys are off while it saves, SQL Server
\* has none.  A save may throw all the same, on a value that cannot be bound
\* (upsertUserDefinedFields, createDocument, createTenantAccount).
KeysHold ==
    /\ \A k \in DOMAIN data.lists : k[2] \in TableLists => DistinctIds(data.lists[k])
    /\ \A a \in Accounts : Exists(a) => Present(data.accounts[a].owner)

\* Every record that a client was shown, and not told to be gone, is there as
\* it was shown, and no record is there that nobody was shown: a request for
\* one list, holder or id leaves the others alone, whatever ids are used
\* twice, and a restart brings back what was stored (routes/customers.ts,
\* routes/accounts.ts, saveTenantDataset, loadTenantDatasetFromDb).
RecordsAsShown ==
    /\ \A x \in data.shown :
          x.key \in DOMAIN data.lists /\ [id |-> x.id, val |-> x.val] \in Range(data.lists[x.key])
    /\ \A k \in DOMAIN data.lists : \A r \in Range(data.lists[k]) : \E x \in data.shown : x.key = k /\ x.id = r.id

\* A client who notes the debit cards in responses knows the status of every
\* card, also where requests name cards by numbers that several cards have, if
\* no two cards of one customer have one id (routes/customers.ts, debit cards).
CardsAsShown ==
    (\A c \in Customers : DistinctIds(cards[c])) =>
        /\ \A c \in Customers : \A i \in DOMAIN cards[c] :
              [customer |-> c, id |-> cards[c][i].id, status |-> cards[c][i].status] \in cardsShown
        /\ \A x \in cardsShown : \E i \in DOMAIN cards[x.customer] : cards[x.customer][i].id = x.id
=============================================================================
