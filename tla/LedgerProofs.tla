---------------------------- MODULE LedgerProofs ----------------------------
(***************************************************************************)
(* Theorems about Ledger, for every set of accounts and every request.     *)
(***************************************************************************)
EXTENDS Ledger, FiniteFacts

-----------------------------------------------------------------------------
(* The operators *)

\* Rounding returns whole cents, leaves whole cents alone and commutes with
\* adding whole cents (roundMoney).
LEMMA RoundMoneyProps ==
    ASSUME NEW x \in Int, NEW m \in Money
    PROVE  /\ RoundMoney(x) \in Money
           /\ RoundMoney(m) = m
           /\ RoundMoney(x + m) = RoundMoney(x) + m
  BY DEF RoundMoney, Money, Cent

\* Crediting or debiting one account of a table of balances keeps it a table
\* of whole-cent balances.
LEMMA DebitCreditType ==
    ASSUME NEW f \in [Accounts -> Money], NEW a \in Accounts, NEW amt \in Int
    PROVE  Debit(f, a, amt) \in [Accounts -> Money] /\ Credit(f, a, amt) \in [Accounts -> Money]
  <1>1. f[a] - amt \in Int /\ f[a] + amt \in Int
    BY DEF Money
  <1>2. RoundMoney(f[a] - amt) \in Money /\ RoundMoney(f[a] + amt) \in Money
    BY <1>1, RoundMoneyProps
  <1>3. QED
    BY <1>2 DEF Debit, Credit

\* Two tables that differ by whole cents at an account still do, by the same
\* amount, after the same debit or credit of any account.
LEMMA DebitCreditGap ==
    ASSUME NEW f \in [Accounts -> Money], NEW g \in [Accounts -> Money],
           NEW a \in Accounts, NEW amt \in Int, NEW b \in Accounts
    PROVE  /\ Debit(g, a, amt)[b] - Debit(f, a, amt)[b] = g[b] - f[b]
           /\ Credit(g, a, amt)[b] - Credit(f, a, amt)[b] = g[b] - f[b]
  <1>1. CASE b # a
    BY <1>1 DEF Debit, Credit
  <1>2. CASE b = a
    <2> DEFINE gap == g[a] - f[a]
    <2>1. gap \in Money /\ f[a] \in Int /\ g[a] \in Int
      BY DEF Money, Cent
    <2>2. RoundMoney((f[a] - amt) + gap) = RoundMoney(f[a] - amt) + gap
      BY <2>1, RoundMoneyProps
    <2>3. RoundMoney((f[a] + amt) + gap) = RoundMoney(f[a] + amt) + gap
      BY <2>1, RoundMoneyProps
    <2>4. (f[a] - amt) + gap = g[a] - amt /\ (f[a] + amt) + gap = g[a] + amt
      BY <2>1
    <2>5. RoundMoney(f[a] - amt) \in Int /\ RoundMoney(f[a] + amt) \in Int
      <3>1. f[a] - amt \in Int /\ f[a] + amt \in Int
        BY <2>1
      <3>2. QED
        BY <3>1, RoundMoneyProps DEF Money
    <2>6. /\ RoundMoney(g[a] - amt) - RoundMoney(f[a] - amt) = gap
          /\ RoundMoney(g[a] + amt) - RoundMoney(f[a] + amt) = gap
      BY <2>1, <2>2, <2>3, <2>4, <2>5
    <2>7. QED
      BY <1>2, <2>6 DEF Debit, Credit
  <1>3. QED
    BY <1>1, <1>2

\* What the entry and reference constructors build.
LEMMA EntryType ==
    ASSUME seq \in Nat, NEW a \in Accounts \cup {Nowhere}, NEW type \in {"credit", "debit", "hold", "release"},
           NEW amt \in Int, NEW status \in {"pending", "posted", "reversed"}, NEW ref \in Reference,
           NEW by \in {"baseline", "transfer", "opening", "seed", "interest", "card", "refund"},
           NEW resolves \in Nat
    PROVE  Entry(a, type, amt, status, ref, by, resolves) \in Txn
  BY DEF Entry, Txn

LEMMA RefType ==
    ASSUME NEW kind \in {"baseline", "client", "card", "transfer", "opening", "seed", "interest"},
           NEW of \in Refs \cup Accounts \cup {NoOne}, NEW n \in Nat
    PROVE  Ref(kind, of, n) \in Reference
  BY DEF Ref, Reference

\* The references a client can send are references.
LEMMA ClientRefsType ==
    ASSUME TypeOK, NEW a \in Accounts
    PROVE  ClientRefs(a) \subseteq Reference
  BY DEF ClientRefs, EntriesOf, TypeOK, Txn, Ref, Reference

LEMMA SeedEntriesType ==
    ASSUME seq \in Nat, NEW a \in Accounts
    PROVE  SeedEntries(a) \subseteq Txn /\ SeedNet \in Int /\ SeedAmount[1] \in Int
  <1>1. \A n \in 1..3 : SeedAmount[n] \in Int
    BY DEF SeedAmount, Cent
  <1>2. ASSUME NEW n \in 1..3
        PROVE  Entry(a, IF n = 1 THEN "credit" ELSE "debit", SeedAmount[n], "posted", Ref("seed", a, n), "seed", 0) \in Txn
    <2>1. Ref("seed", a, n) \in Reference
      BY RefType
    <2>2. QED
      BY <1>1, <2>1, EntryType
  <1>3. QED
    BY <1>1, <1>2 DEF SeedEntries, SeedNet

\* Interest is a whole number of cents.
LEMMA DailyInterestType ==
    ASSUME NEW bal \in Int, NEW apy \in Nat
    PROVE  DailyInterest(bal, apy) \in Money
  <1> DEFINE num == 2 * bal * apy + 36500 * Cent
  <1>1. num \in Int
    BY DEF Cent
  <1>2. \A x \in Int : Cent * (x \div (2 * 36500 * Cent)) \in Money
    BY DEF Cent, Money
  <1>3. QED
    BY <1>1, <1>2 DEF DailyInterest

-----------------------------------------------------------------------------
(* Type correctness *)

LEMMA BookType ==
    ASSUME TypeOK, NEW new, new \subseteq Txn, Book(new)
    PROVE  txns' \subseteq Txn /\ seq' \in Nat \ {0}
  BY DEF Book, TypeOK

LEMMA TransferType ==
    ASSUME TypeOK, NEW type, NEW amt \in Nat, NEW from \in open, NEW to \in Accounts \cup {Nowhere, NoOne},
           CreateTenantTransfer(type, amt, from, to)
    PROVE  TypeOK'
  <1> DEFINE ref == Ref("transfer", NoOne, seq)
             status == IF type = "internal" THEN "posted" ELSE "pending"
             new == {Entry(from, "debit", -amt, status, ref, "transfer", 0)}
                      \cup {Entry(a, "credit", amt, status, ref, "transfer", 0) : a \in {to} \ {NoOne}}
             tr == [ref |-> ref, status |-> IF type = "internal" THEN "completed" ELSE "pending",
                     amount |-> amt, from |-> from, to |-> to]
  <1>1. seq \in Nat /\ from \in Accounts /\ amt \in Int /\ -amt \in Int /\ open \subseteq Accounts
    BY DEF TypeOK
  <1>2. ref \in Reference
    BY <1>1, RefType
  <1>3. new \subseteq Txn
    <2>1. Entry(from, "debit", -amt, status, ref, "transfer", 0) \in Txn
      BY <1>1, <1>2, EntryType
    <2>2. ASSUME NEW a \in {to} \ {NoOne}
          PROVE  Entry(a, "credit", amt, status, ref, "transfer", 0) \in Txn
      BY <1>1, <1>2, EntryType
    <2>3. QED
      BY <2>1, <2>2
  <1>4. tr \in Transfer
    BY <1>1, <1>2 DEF Transfer, TransferStatus
  <1>5. Book(new) /\ transfers' = transfers \cup {tr} /\ UNCHANGED <<open, yields, opening, struck>>
    BY DEF CreateTenantTransfer
  <1>6. balance' \in [Accounts -> Money] /\ available' \in [Accounts -> Money]
    <2>1. ASSUME NEW f \in [Accounts -> Money], to \in open
          PROVE  Credit(Debit(f, from, amt), to, amt) \in [Accounts -> Money]
      BY <2>1, <1>1, DebitCreditType
    <2>2. ASSUME NEW f \in [Accounts -> Money]
          PROVE  Debit(f, from, amt) \in [Accounts -> Money]
      BY <1>1, DebitCreditType
    <2>3. QED
      BY <2>1, <2>2 DEF CreateTenantTransfer, TypeOK
  <1>7. txns' \subseteq Txn /\ seq' \in Nat \ {0}
    BY <1>3, <1>5, BookType
  <1>8. QED
    BY <1>4, <1>5, <1>6, <1>7 DEF TypeOK

\* A card event books one entry, and may reverse a hold, on an open account.
LEMMA CardType ==
    ASSUME TypeOK, NEW a \in open, NEW e \in Txn, NEW h \in txns,
           \/ txns' = txns \cup {e}
           \/ txns' = (txns \ {h}) \cup {Reversed(h), e},
           seq' = seq + 1,
           balance' \in [Accounts -> Money], available' \in [Accounts -> Money],
           UNCHANGED <<open, transfers, yields, opening, struck>>
    PROVE  TypeOK'
  <1>1. Reversed(h) \in Txn
    BY DEF Reversed, Txn, TypeOK
  <1>2. QED
    BY <1>1 DEF TypeOK

LEMMA AccrueType ==
    ASSUME TypeOK, AccrueDailyInterest
    PROVE  TypeOK'
  <1> USE LedgerAssumption
  <1>1. PICK d \in Dates :
           /\ Book({Entry(a, "credit", Interest(a), "posted", Ref("interest", a, d), "interest", 0) : a \in Paid(d)})
           /\ balance' = [a \in Accounts |-> IF a \in Paid(d) THEN RoundMoney(balance[a] + Interest(a)) ELSE balance[a]]
           /\ available' = [a \in Accounts |->
                               IF a \in Paid(d) THEN RoundMoney(available[a] + Interest(a)) ELSE available[a]]
           /\ yields' = [a \in Accounts |->
                  CASE a \in Paid(d) -> [yields[a] EXCEPT !.last = d, !.total = RoundMoney(@ + Interest(a))]
                    [] a \in Due(d) \ Paid(d) -> [yields[a] EXCEPT !.last = d]
                    [] OTHER -> yields[a]]
           /\ UNCHANGED <<open, transfers, opening, struck>>
    BY DEF AccrueDailyInterest
  <1>2. \A a \in Accounts : Interest(a) \in Int
    BY DailyInterestType DEF Interest, TypeOK, YieldConfig, Money
  <1>3. Paid(d) \subseteq Accounts /\ d \in Nat
    BY DEF Paid, Due, TypeOK
  <1>4. \A a \in Paid(d) :
           Entry(a, "credit", Interest(a), "posted", Ref("interest", a, d), "interest", 0) \in Txn
    <2> TAKE a \in Paid(d)
    <2>1. Ref("interest", a, d) \in Reference
      BY <1>3, RefType
    <2>2. QED
      BY <2>1, <1>2, <1>3, EntryType DEF TypeOK
  <1>5. txns' \subseteq Txn /\ seq' \in Nat \ {0}
    <2> DEFINE new == {Entry(a, "credit", Interest(a), "posted", Ref("interest", a, d), "interest", 0) : a \in Paid(d)}
    <2>1. new \subseteq Txn
      BY <1>4
    <2>2. Book(new)
      BY <1>1
    <2> HIDE DEF new
    <2>3. QED
      BY <2>1, <2>2, BookType
  <1>6. ASSUME NEW a \in Accounts
        PROVE  /\ RoundMoney(balance[a] + Interest(a)) \in Money
               /\ RoundMoney(available[a] + Interest(a)) \in Money
               /\ RoundMoney(yields[a].total + Interest(a)) \in Int
    <2>1. balance[a] \in Int /\ available[a] \in Int /\ yields[a].total \in Int /\ Interest(a) \in Int
      BY <1>2 DEF TypeOK, Money, YieldConfig
    <2>2. balance[a] + Interest(a) \in Int /\ available[a] + Interest(a) \in Int
          /\ yields[a].total + Interest(a) \in Int
      BY <2>1
    <2>3. QED
      BY <2>2, RoundMoneyProps DEF Money
  <1>7. balance' \in [Accounts -> Money] /\ available' \in [Accounts -> Money]
    BY <1>1, <1>6 DEF TypeOK
  <1>8. yields' \in [Accounts -> YieldConfig]
    <2> DEFINE next(a) == CASE a \in Paid(d) -> [yields[a] EXCEPT !.last = d, !.total = RoundMoney(@ + Interest(a))]
                            [] a \in Due(d) \ Paid(d) -> [yields[a] EXCEPT !.last = d]
                            [] OTHER -> yields[a]
    <2>1. ASSUME NEW a \in Accounts
          PROVE  next(a) \in YieldConfig
      <3>1. yields[a] \in YieldConfig
        BY DEF TypeOK
      <3>2. [yields[a] EXCEPT !.last = d] \in YieldConfig
        BY <3>1, <1>3 DEF YieldConfig
      <3>3. [yields[a] EXCEPT !.last = d, !.total = RoundMoney(@ + Interest(a))] \in YieldConfig
        BY <3>1, <1>3, <1>6 DEF YieldConfig
      <3>4. QED
        BY <3>1, <3>2, <3>3
    <2>2. yields' = [a \in Accounts |-> next(a)]
      BY <1>1
    <2>3. QED
      BY <2>1, <2>2
  <1>9. QED
    BY <1>1, <1>5, <1>7, <1>8 DEF TypeOK

LEMMA TypeStep == TypeOK /\ [Next]_vars => TypeOK'
  <1> SUFFICES ASSUME TypeOK, [Next]_vars PROVE TypeOK'
    OBVIOUS
  <1> USE LedgerAssumption
  <1>a. seq \in Nat /\ open \subseteq Accounts
    BY DEF TypeOK
  <1>b. TransferAmounts \subseteq Nat /\ TransferAmounts \subseteq Int /\ CardAmounts \subseteq Nat
        /\ CardAmounts \subseteq Int /\ \A amt \in CardAmounts \cup TransferAmounts : -amt \in Int
    OBVIOUS
  <1>c. Ref("transfer", NoOne, seq) \in Reference /\ Ref("card", NoOne, seq) \in Reference
    BY <1>a, RefType
  <1>1. CASE InternalTransfer
    BY <1>1, <1>a, <1>b, TransferType DEF InternalTransfer
  <1>2. CASE ExternalTransfer
    BY <1>2, <1>b, TransferType DEF ExternalTransfer
  <1>3. CASE LoanOnboardingFunding
    BY <1>3, <1>a, <1>b, TransferType DEF LoanOnboardingFunding
  <1>4. CASE SimulateIncomingRailTransfer
    <2>1. PICK a \in open, amt \in TransferAmounts :
             /\ Book({Entry(a, "credit", amt, "posted", Ref("transfer", NoOne, seq), "transfer", 0)})
             /\ transfers' = transfers \cup {[ref |-> Ref("transfer", NoOne, seq), status |-> "completed",
                                               amount |-> amt, from |-> NoOne, to |-> a]}
             /\ balance' = Credit(balance, a, amt) /\ available' = Credit(available, a, amt)
             /\ UNCHANGED <<open, yields, opening, struck>>
      BY <1>4 DEF SimulateIncomingRailTransfer
    <2>2. Entry(a, "credit", amt, "posted", Ref("transfer", NoOne, seq), "transfer", 0) \in Txn
      BY <1>a, <1>b, <1>c, EntryType
    <2>3. balance' \in [Accounts -> Money] /\ available' \in [Accounts -> Money]
      BY <2>1, <1>a, <1>b, DebitCreditType DEF TypeOK
    <2>4. txns' \subseteq Txn /\ seq' \in Nat \ {0}
      BY <2>1, <2>2, BookType
    <2>5. transfers' \subseteq Transfer
      BY <2>1, <1>a, <1>b, <1>c DEF TypeOK, Transfer, TransferStatus
    <2>6. QED
      BY <2>1, <2>3, <2>4, <2>5 DEF TypeOK
  <1>5. ASSUME NEW a \in open, NEW amt \in TransferAmounts, NEW status \in {"completed", "pending"},
               SimulateOutgoing(a, amt, status)
        PROVE  TypeOK'
    <2>1. /\ Book({Entry(a, "debit", -amt, "posted", Ref("transfer", NoOne, seq), "transfer", 0)})
          /\ transfers' = transfers \cup {[ref |-> Ref("transfer", NoOne, seq), status |-> status,
                                            amount |-> amt, from |-> a, to |-> NoOne]}
          /\ balance' = Debit(balance, a, amt) /\ available' = Debit(available, a, amt)
          /\ UNCHANGED <<open, yields, opening, struck>>
      BY <1>5 DEF SimulateOutgoing
    <2>2. Entry(a, "debit", -amt, "posted", Ref("transfer", NoOne, seq), "transfer", 0) \in Txn
      BY <1>a, <1>b, <1>c, EntryType
    <2>3. balance' \in [Accounts -> Money] /\ available' \in [Accounts -> Money]
      BY <2>1, <1>a, <1>b, DebitCreditType DEF TypeOK
    <2>4. txns' \subseteq Txn /\ seq' \in Nat \ {0}
      BY <2>1, <2>2, BookType
    <2>5. transfers' \subseteq Transfer
      BY <2>1, <1>a, <1>b, <1>c DEF TypeOK, Transfer, TransferStatus
    <2>6. QED
      BY <2>1, <2>3, <2>4, <2>5 DEF TypeOK
  <1>6. CASE SimulateOutgoingAchTransfer
    BY <1>6, <1>5 DEF SimulateOutgoingAchTransfer
  <1>7. CASE CreateOutgoingWire
    BY <1>7, <1>5 DEF CreateOutgoingWire
  <1>8. CASE UpdateTenantTransfer
    BY <1>8 DEF UpdateTenantTransfer, TypeOK, Transfer
  <1>9. CASE DeleteTenantTransfer
    BY <1>9 DEF DeleteTenantTransfer, TypeOK
  <1>10. CASE CardAuthorization
    <2>1. PICK a \in open, amt \in CardAmounts, ref \in Reference :
             /\ Book({Entry(a, "hold", -amt, "pending", ref, "card", 0)})
             /\ UNCHANGED <<open, balance, available, transfers, yields, opening, struck>>
      BY <1>10, <1>a, <1>c, ClientRefsType DEF CardAuthorization
    <2>2. Entry(a, "hold", -amt, "pending", ref, "card", 0) \in Txn
      BY <1>a, <1>b, <1>c, EntryType
    <2>3. QED
      BY <2>1, <2>2, BookType DEF TypeOK
  <1>11. CASE CardVoid
    <2>1. PICK a \in open, ref \in Reference, h \in txns :
             /\ txns' = (txns \ {h}) \cup {Reversed(h),
                            Entry(a, "release", Abs(h.amount), "posted", ref, "card", h.seq)}
             /\ seq' = seq + 1
             /\ UNCHANGED <<open, balance, available, transfers, yields, opening, struck>>
      BY <1>11, <1>a, ClientRefsType DEF CardVoid, PendingHolds, EntriesOf
    <2>2. h \in txns /\ h.amount \in Int /\ h.seq \in Nat
      BY DEF TypeOK, Txn
    <2>3. Entry(a, "release", Abs(h.amount), "posted", ref, "card", h.seq) \in Txn
      BY <2>2, <1>a, EntryType DEF Abs
    <2>4. QED
      BY <2>1, <2>2, <2>3, CardType DEF TypeOK
  <1>12. CASE CardRefund
    <2>0. PICK a \in open, amt \in CardAmounts : \E ref \in ClientRefs(a) : \E d \in PostedDebits(a, ref) :
             /\ Book({Entry(a, "credit", Lesser(amt, Abs(d.amount)), "posted", ref, "refund", 0)})
             /\ balance' = Credit(balance, a, Lesser(amt, Abs(d.amount)))
             /\ available' = Credit(available, a, Lesser(amt, Abs(d.amount)))
             /\ UNCHANGED <<open, transfers, yields, opening, struck>>
      BY <1>12 DEF CardRefund
    <2>1. PICK ref \in Reference, d \in txns :
             /\ Book({Entry(a, "credit", Lesser(amt, Abs(d.amount)), "posted", ref, "refund", 0)})
             /\ balance' = Credit(balance, a, Lesser(amt, Abs(d.amount)))
             /\ available' = Credit(available, a, Lesser(amt, Abs(d.amount)))
             /\ UNCHANGED <<open, transfers, yields, opening, struck>>
      BY <2>0, <1>a, ClientRefsType DEF PostedDebits, EntriesOf
    <2>2. Lesser(amt, Abs(d.amount)) \in Int
      BY <1>b DEF TypeOK, Txn, Lesser, Abs
    <2>3. Entry(a, "credit", Lesser(amt, Abs(d.amount)), "posted", ref, "refund", 0) \in Txn
      BY <2>2, <1>a, EntryType
    <2>4. balance' \in [Accounts -> Money] /\ available' \in [Accounts -> Money]
      BY <2>1, <2>2, <1>a, DebitCreditType DEF TypeOK
    <2>5. QED
      BY <2>1, <2>3, <2>4, BookType DEF TypeOK
  <1>13. CASE CardCapture
    <2>1. PICK a \in open, amt \in CardAmounts, ref \in Reference, h \in txns :
             /\ txns' = (txns \ {h}) \cup {Reversed(h), Entry(a, "debit", -amt, "posted", ref, "card", h.seq)}
             /\ seq' = seq + 1
             /\ balance' = Debit(balance, a, amt)
             /\ available' = Debit(available, a, amt)
             /\ UNCHANGED <<open, transfers, yields, opening, struck>>
      BY <1>13, <1>a, ClientRefsType DEF CardCapture, PendingHolds, EntriesOf
    <2>2. h \in txns /\ h.seq \in Nat
      BY DEF TypeOK, Txn
    <2>3. Entry(a, "debit", -amt, "posted", ref, "card", h.seq) \in Txn
      BY <2>2, <1>a, <1>b, EntryType
    <2>4. balance' \in [Accounts -> Money] /\ available' \in [Accounts -> Money]
      BY <2>1, <1>a, <1>b, DebitCreditType DEF TypeOK
    <2>5. QED
      BY <2>1, <2>2, <2>3, <2>4, CardType
  <1>14. CASE CardPost
    <2>1. PICK a \in open, amt \in CardAmounts :
             /\ Book({Entry(a, "debit", -amt, "posted", Ref("card", NoOne, seq), "card", 0)})
             /\ balance' = Debit(balance, a, amt)
             /\ available' = Debit(available, a, amt)
             /\ UNCHANGED <<open, transfers, yields, opening, struck>>
      BY <1>14 DEF CardPost
    <2>2. Entry(a, "debit", -amt, "posted", Ref("card", NoOne, seq), "card", 0) \in Txn
      BY <1>a, <1>b, <1>c, EntryType
    <2>3. balance' \in [Accounts -> Money] /\ available' \in [Accounts -> Money]
      BY <2>1, <1>a, <1>b, DebitCreditType DEF TypeOK
    <2>4. QED
      BY <2>1, <2>2, <2>3, BookType DEF TypeOK
  <1>15. CASE CreateTenantAccount
    <2>1. PICK a \in Accounts, amt \in TransferAmounts \cup {0} :
             /\ Book(IF RoundMoney(amt) > 0
                     THEN {Entry(a, "credit", RoundMoney(amt), "posted", Ref("opening", a, 0), "opening", 0)}
                     ELSE {})
             /\ open' = open \cup {a}
             /\ balance' = [balance EXCEPT ![a] = RoundMoney(amt)]
             /\ available' = [available EXCEPT ![a] = RoundMoney(amt)]
             /\ opening' = [opening EXCEPT ![a] = 0]
             /\ UNCHANGED <<transfers, yields, struck>>
      BY <1>15 DEF CreateTenantAccount
    <2>2. RoundMoney(amt) \in Money /\ RoundMoney(amt) \in Int
      <3>1. amt \in Int
        BY <1>b
      <3>2. QED
        BY <3>1, RoundMoneyProps DEF Money
    <2>3. Entry(a, "credit", RoundMoney(amt), "posted", Ref("opening", a, 0), "opening", 0) \in Txn
      BY <2>2, <1>a, EntryType, RefType
    <2>4. txns' \subseteq Txn /\ seq' \in Nat \ {0}
      BY <2>1, <2>3, BookType
    <2>5. QED
      BY <2>1, <2>2, <2>4 DEF TypeOK
  <1>16. CASE SeedTenantAccountData
    <2>1. PICK a \in open :
             LET bal == IF a \in BaselineAccounts THEN BaselineBalance[a] ELSE balance[a]
                 avl == IF a \in BaselineAccounts THEN BaselineAvailable[a] ELSE available[a]
             IN  /\ txns' = KeptTxns(a) \cup SeedEntries(a)
                 /\ seq' = seq + 1
                 /\ transfers' = KeptTransfers(a) \cup
                       {[ref |-> Ref("seed", a, 1), status |-> "completed", amount |-> SeedAmount[1],
                         from |-> NoOne, to |-> a]}
                 /\ balance' = Credit([balance EXCEPT ![a] = bal], a, SeedNet)
                 /\ available' = Credit([available EXCEPT ![a] = avl], a, SeedNet)
                 /\ opening' = [opening EXCEPT ![a] = bal]
                 /\ struck' \subseteq struck \cup txns
                 /\ UNCHANGED <<open, yields>>
      BY <1>16 DEF SeedTenantAccountData, Strike
    <2> DEFINE bal == IF a \in BaselineAccounts THEN BaselineBalance[a] ELSE balance[a]
               avl == IF a \in BaselineAccounts THEN BaselineAvailable[a] ELSE available[a]
    <2>2. SeedEntries(a) \subseteq Txn /\ SeedNet \in Int /\ SeedAmount[1] \in Int /\ a \in Accounts
      BY <1>a, SeedEntriesType
    <2>3. Ref("seed", a, 1) \in Reference
      BY <2>2, RefType
    <2>4. txns' \subseteq Txn /\ seq' \in Nat \ {0} /\ transfers' \subseteq Transfer
      BY <2>1, <2>2, <2>3 DEF TypeOK, KeptTxns, KeptTransfers, Transfer, TransferStatus
    <2>5. bal \in Money /\ avl \in Money
      BY <2>2 DEF TypeOK
    <2>6. [balance EXCEPT ![a] = bal] \in [Accounts -> Money] /\ [available EXCEPT ![a] = avl] \in [Accounts -> Money]
      BY <2>5 DEF TypeOK
    <2>7. balance' \in [Accounts -> Money] /\ available' \in [Accounts -> Money]
      BY <2>1, <2>2, <2>6, DebitCreditType
    <2>8. opening' \in [Accounts -> Int]
      BY <2>1, <2>5 DEF TypeOK, Money
    <2>9. QED
      BY <2>1, <2>4, <2>7, <2>8 DEF TypeOK
  <1>17. CASE ResetTenantAccountData
    <2>1. 0 \in Money /\ \A a \in Accounts : BaselineBalance[a] \in Money /\ BaselineAvailable[a] \in Money
      BY DEF Money, Cent
    <2>2. NoYield \in YieldConfig
      BY DEF NoYield, YieldConfig
    <2>3. QED
      BY <1>17, <2>1, <2>2 DEF ResetTenantAccountData, Strike, KeptTxns, KeptTransfers, TypeOK, Money
  <1>18. NoYield \in YieldConfig /\ 0 \in Money
    BY DEF NoYield, YieldConfig, Money, Cent
  <1>19. CASE ResetTenantDataset
    BY <1>19, <1>18 DEF ResetTenantDataset, TypeOK
  <1>20. CASE SeedTenantDataset
    BY <1>20, <1>18 DEF SeedTenantDataset, TypeOK
  <1>21. CASE UpsertYieldConfig
    <2>1. PICK a \in open, apy \in Apys, enabled \in BOOLEAN :
             /\ yields' = [yields EXCEPT ![a] = [@ EXCEPT !.set = TRUE, !.apy = apy, !.enabled = enabled]]
             /\ UNCHANGED <<open, balance, available, txns, transfers, seq, opening, struck>>
      BY <1>21 DEF UpsertYieldConfig
    <2>2. a \in Accounts /\ apy \in Nat /\ yields[a] \in YieldConfig
      BY <1>a DEF TypeOK
    <2>3. [yields[a] EXCEPT !.set = TRUE, !.apy = apy, !.enabled = enabled] \in YieldConfig
      BY <2>2 DEF YieldConfig
    <2>4. QED
      BY <2>1, <2>2, <2>3 DEF TypeOK
  <1>22. CASE AccrueDailyInterest
    BY <1>22, AccrueType
  <1>23. CASE UNCHANGED vars
    BY <1>23 DEF vars, TypeOK
  <1>24. QED
    BY <1>1, <1>2, <1>3, <1>4, <1>6, <1>7, <1>8, <1>9, <1>10, <1>11, <1>12, <1>13, <1>14, <1>15,
       <1>16, <1>17, <1>19, <1>20, <1>21, <1>22, <1>23 DEF Next


\* Every variable keeps its type, whatever the requests.
THEOREM LedgerTypeOK == Spec => []TypeOK
  <1>1. Init => TypeOK
    <2>1. NoYield \in YieldConfig
      BY DEF NoYield, YieldConfig
    <2>2. QED
      BY <2>1, LedgerAssumption DEF Init, TypeOK
  <1>2. QED
    BY <1>1, TypeStep, PTL DEF Spec

-----------------------------------------------------------------------------
(* The two balances of an account *)

\* The same movement of both balances keeps them as far apart as they were.
LEMMA GapKept ==
    ASSUME TypeOK, AvailableFollowsBalance, open' = open,
           \A b \in open : available'[b] - balance'[b] = available[b] - balance[b]
    PROVE  AvailableFollowsBalance'
  BY DEF AvailableFollowsBalance

LEMMA TransferGap ==
    ASSUME TypeOK, AvailableFollowsBalance, NEW type, NEW amt \in Int, NEW from \in open, NEW to,
           CreateTenantTransfer(type, amt, from, to)
    PROVE  AvailableFollowsBalance'
  <1>1. open \subseteq Accounts /\ open' = open
    BY DEF TypeOK, CreateTenantTransfer
  <1>2. /\ Debit(balance, from, amt) \in [Accounts -> Money]
        /\ Debit(available, from, amt) \in [Accounts -> Money]
    BY <1>1, DebitCreditType DEF TypeOK
  <1>3. ASSUME NEW b \in open
        PROVE  available'[b] - balance'[b] = available[b] - balance[b]
    <2>1. Debit(available, from, amt)[b] - Debit(balance, from, amt)[b] = available[b] - balance[b]
      BY <1>1, DebitCreditGap DEF TypeOK
    <2>2. CASE to \in open
      <3>1. /\ balance' = Credit(Debit(balance, from, amt), to, amt)
            /\ available' = Credit(Debit(available, from, amt), to, amt)
        BY <2>2 DEF CreateTenantTransfer
      <3>2. available'[b] - balance'[b] = Debit(available, from, amt)[b] - Debit(balance, from, amt)[b]
        BY <1>1, <1>2, <2>2, <3>1, DebitCreditGap
      <3>3. QED
        BY <2>1, <3>2
    <2>3. CASE to \notin open
      BY <2>1, <2>3 DEF CreateTenantTransfer
    <2>4. QED
      BY <2>2, <2>3
  <1>4. QED
    BY <1>1, <1>3, GapKept

\* One debit or credit of an open account.
LEMMA MoveGap ==
    ASSUME TypeOK, AvailableFollowsBalance, NEW a \in open, NEW amt \in Int, open' = open,
           \/ balance' = Debit(balance, a, amt) /\ available' = Debit(available, a, amt)
           \/ balance' = Credit(balance, a, amt) /\ available' = Credit(available, a, amt)
    PROVE  AvailableFollowsBalance'
  <1>1. open \subseteq Accounts
    BY DEF TypeOK
  <1>2. \A b \in open : available'[b] - balance'[b] = available[b] - balance[b]
    BY <1>1, DebitCreditGap DEF TypeOK
  <1>3. QED
    BY <1>2, GapKept

LEMMA OpeningType == \A amt \in TransferAmounts \cup {0} : RoundMoney(amt) \in Int
  <1>1. TransferAmounts \subseteq Nat
    BY LedgerAssumption
  <1>2. QED
    BY <1>1 DEF RoundMoney, Cent

LEMMA GapStep == TypeOK /\ AvailableFollowsBalance /\ [Next]_vars => AvailableFollowsBalance'
  <1> SUFFICES ASSUME TypeOK, AvailableFollowsBalance, [Next]_vars PROVE AvailableFollowsBalance'
    OBVIOUS
  <1> USE LedgerAssumption
  <1>a. open \subseteq Accounts /\ TransferAmounts \subseteq Int /\ CardAmounts \subseteq Int
    BY DEF TypeOK
  <1>1. CASE InternalTransfer \/ ExternalTransfer \/ LoanOnboardingFunding
    BY <1>1, <1>a, TransferGap DEF InternalTransfer, ExternalTransfer, LoanOnboardingFunding
  <1>2. CASE SimulateIncomingRailTransfer
    BY <1>2, <1>a, MoveGap DEF SimulateIncomingRailTransfer
  <1>3. CASE SimulateOutgoingAchTransfer \/ CreateOutgoingWire
    BY <1>3, <1>a, MoveGap DEF SimulateOutgoingAchTransfer, CreateOutgoingWire, SimulateOutgoing
  <1>4. CASE UpdateTenantTransfer \/ DeleteTenantTransfer \/ CardAuthorization \/ CardVoid \/ UpsertYieldConfig
    BY <1>4 DEF UpdateTenantTransfer, DeleteTenantTransfer, CardAuthorization, CardVoid, UpsertYieldConfig,
                AvailableFollowsBalance
  <1>5. CASE CardRefund
    <2>1. PICK a \in open, amt \in CardAmounts, d \in txns :
             /\ balance' = Credit(balance, a, Lesser(amt, Abs(d.amount)))
             /\ available' = Credit(available, a, Lesser(amt, Abs(d.amount)))
             /\ UNCHANGED <<open, transfers, yields, opening, struck>>
      BY <1>5 DEF CardRefund, PostedDebits, EntriesOf
    <2>2. Lesser(amt, Abs(d.amount)) \in Int
      BY <1>a DEF TypeOK, Txn, Lesser, Abs
    <2>3. QED
      BY <2>1, <2>2, MoveGap
  <1>6. CASE CardCapture
    BY <1>6, <1>a, MoveGap DEF CardCapture
  <1>7. CASE CardPost
    BY <1>7, <1>a, MoveGap DEF CardPost
  <1>8. CASE CreateTenantAccount
    <2>1. PICK a \in Accounts \ BaselineAccounts, start \in Int :
             /\ open' = open \cup {a}
             /\ balance' = [balance EXCEPT ![a] = start]
             /\ available' = [available EXCEPT ![a] = start]
      BY <1>8, OpeningType DEF CreateTenantAccount
    <2>2. QED
      BY <2>1, <1>a DEF AvailableFollowsBalance, TypeOK
  <1>9. CASE SeedTenantAccountData
    <2>1. PICK a \in open :
             LET bal == IF a \in BaselineAccounts THEN BaselineBalance[a] ELSE balance[a]
                 avl == IF a \in BaselineAccounts THEN BaselineAvailable[a] ELSE available[a]
             IN  /\ balance' = Credit([balance EXCEPT ![a] = bal], a, SeedNet)
                 /\ available' = Credit([available EXCEPT ![a] = avl], a, SeedNet)
                 /\ UNCHANGED <<open, yields>>
      BY <1>9 DEF SeedTenantAccountData
    <2> DEFINE bal == IF a \in BaselineAccounts THEN BaselineBalance[a] ELSE balance[a]
               avl == IF a \in BaselineAccounts THEN BaselineAvailable[a] ELSE available[a]
               f == [balance EXCEPT ![a] = bal]
               g == [available EXCEPT ![a] = avl]
    <2>2. a \in Accounts /\ SeedNet \in Int /\ f \in [Accounts -> Money] /\ g \in [Accounts -> Money]
      BY <1>a, SeedEntriesType DEF TypeOK
    <2>3. \A b \in open : g[b] - f[b] = BaselineAvailable[b] - BaselineBalance[b]
      BY <1>a DEF AvailableFollowsBalance, TypeOK
    <2>5. balance' = Credit(f, a, SeedNet) /\ available' = Credit(g, a, SeedNet) /\ open' = open
      BY <2>1
    <2> HIDE DEF f, g
    <2>4. ASSUME NEW b \in open PROVE Credit(g, a, SeedNet)[b] - Credit(f, a, SeedNet)[b] = g[b] - f[b]
      <3>1. b \in Accounts
        BY <1>a
      <3>2. PICK n \in Int : n = SeedNet
        BY <2>2
      <3>3. PICK f0, g0 \in [Accounts -> Money] : f0 = f /\ g0 = g
        BY <2>2
      <3>4. Credit(g0, a, n)[b] - Credit(f0, a, n)[b] = g0[b] - f0[b]
        BY <2>2, <3>1, DebitCreditGap
      <3>5. QED
        BY <3>2, <3>3, <3>4
    <2>6. QED
      BY <2>3, <2>4, <2>5 DEF AvailableFollowsBalance
  <1>10. CASE ResetTenantAccountData
    BY <1>10, <1>a DEF ResetTenantAccountData, AvailableFollowsBalance, TypeOK
  <1>11. CASE ResetTenantDataset \/ SeedTenantDataset
    BY <1>11 DEF ResetTenantDataset, SeedTenantDataset, AvailableFollowsBalance
  <1>12. CASE AccrueDailyInterest
    <2>1. PICK d \in Dates :
             /\ balance' = [a \in Accounts |-> IF a \in Paid(d) THEN RoundMoney(balance[a] + Interest(a)) ELSE balance[a]]
             /\ available' = [a \in Accounts |->
                                 IF a \in Paid(d) THEN RoundMoney(available[a] + Interest(a)) ELSE available[a]]
             /\ open' = open
      BY <1>12 DEF AccrueDailyInterest
    <2>2. ASSUME NEW b \in open
          PROVE  available'[b] - balance'[b] = available[b] - balance[b]
      <3>1. Interest(b) \in Money /\ balance[b] \in Money /\ available[b] \in Money
        BY <1>a, DailyInterestType DEF Interest, TypeOK, YieldConfig, Money
      <3>2. balance[b] + Interest(b) \in Money /\ available[b] + Interest(b) \in Money
        BY <3>1 DEF Money, Cent
      <3>3. /\ RoundMoney(balance[b] + Interest(b)) = balance[b] + Interest(b)
            /\ RoundMoney(available[b] + Interest(b)) = available[b] + Interest(b)
        BY <3>2, RoundMoneyProps DEF Money
      <3>4. balance[b] \in Int /\ available[b] \in Int /\ Interest(b) \in Int
        BY <3>1 DEF Money
      <3>5. QED
        BY <2>1, <3>3, <3>4, <1>a
    <2>3. QED
      BY <2>1, <2>2, GapKept
  <1>13. CASE UNCHANGED vars
    BY <1>13 DEF vars, AvailableFollowsBalance
  <1>14. QED
    BY <1>1, <1>2, <1>3, <1>4, <1>5, <1>6, <1>7, <1>8, <1>9, <1>10, <1>11, <1>12, <1>13 DEF Next

\* No request, hold or pending transfer separates availableBalance from
\* balance: on every account they stay as far apart as the mock data put them.
THEOREM LedgerAvailableFollowsBalance == Spec => []AvailableFollowsBalance
  <1>1. Init => AvailableFollowsBalance
    BY LedgerAssumption DEF Init, AvailableFollowsBalance
  <1>2. QED
    BY <1>1, GapStep, LedgerTypeOK, PTL DEF Spec

-----------------------------------------------------------------------------
(* The shapes of a step, as far as the entries go *)

\* Entries an operation may book: none is used up or uses up another, a hold
\* is pending, negative and alone, a refund has a posted debit to back it.
NewEntries(new) ==
    /\ \A e \in new : e.seq = seq /\ e.resolves = 0
    /\ \A e \in new : e.type = "hold" => e.status = "pending" /\ e.amount < 0
    /\ \A e, f \in new : (e.type = "hold" /\ f.type = "hold") => e = f
    /\ \A e \in new : e.by = "refund" =>
           \E d \in EntriesOf(txns, e.account) :
               d.ref = e.ref /\ d.type = "debit" /\ d.status = "posted" /\ e.amount <= Abs(d.amount)

Grows == \E new : NewEntries(new) /\ txns' = txns \cup new /\ seq' = seq + 1

\* A release or a capture e takes the pending hold h.
Uses(h, e) ==
    /\ h \in txns /\ h.type = "hold" /\ h.status = "pending"
    /\ e.seq = seq /\ e.resolves = h.seq /\ e.account = h.account /\ e.ref = h.ref
    /\ e.type \in {"release", "debit"} /\ e.by # "refund"
    /\ e.type = "release" => e.amount = Abs(h.amount)
    /\ txns' = (txns \ {h}) \cup {Reversed(h), e}
    /\ seq' = seq + 1

\* What account a's data leave is kept, and entries that are not holds may follow.
Clears(a) ==
    \E new : /\ NewEntries(new) /\ \A e \in new : e.type # "hold" /\ e.by # "refund"
             /\ txns' = KeptTxns(a) \cup new
             /\ seq' \in {seq, seq + 1} /\ (new = {} \/ seq' = seq + 1)

Restarts == txns' \in {{}, BaselineTxns} /\ seq' = seq

Shape == Grows \/ (\E h, e \in Txn : Uses(h, e)) \/ (\E a \in Accounts : Clears(a)) \/ Restarts
           \/ UNCHANGED <<txns, seq>>

\* An operation that books ordinary entries grows the ledger.
LEMMA BookGrows ==
    ASSUME NEW new, Book(new),
           \A e \in new : e.seq = seq /\ e.resolves = 0 /\ e.type # "hold" /\ e.by # "refund"
    PROVE  Grows
  BY DEF Book, Grows, NewEntries

LEMMA LedgerShape == TypeOK /\ [Next]_vars => Shape
  <1> SUFFICES ASSUME TypeOK, [Next]_vars PROVE Shape
    OBVIOUS
  <1> USE LedgerAssumption
  <1>a. open \subseteq Accounts /\ seq \in Nat
    BY DEF TypeOK
  <1>1. ASSUME NEW type, NEW amt, NEW from, NEW to, CreateTenantTransfer(type, amt, from, to)
        PROVE  Grows
    BY <1>1, BookGrows DEF CreateTenantTransfer, Entry
  <1>2. CASE InternalTransfer \/ ExternalTransfer \/ LoanOnboardingFunding
    BY <1>1, <1>2 DEF InternalTransfer, ExternalTransfer, LoanOnboardingFunding, Shape
  <1>3. CASE SimulateIncomingRailTransfer
    BY <1>3, BookGrows DEF SimulateIncomingRailTransfer, Entry, Shape
  <1>4. CASE SimulateOutgoingAchTransfer \/ CreateOutgoingWire
    <2>1. ASSUME NEW a, NEW amt, NEW status, SimulateOutgoing(a, amt, status)
          PROVE  Grows
      BY <2>1, BookGrows DEF SimulateOutgoing, Entry
    <2>2. QED
      BY <1>4, <2>1 DEF SimulateOutgoingAchTransfer, CreateOutgoingWire, Shape
  <1>5. CASE UpdateTenantTransfer \/ DeleteTenantTransfer \/ UpsertYieldConfig \/ UNCHANGED vars
    BY <1>5 DEF UpdateTenantTransfer, DeleteTenantTransfer, UpsertYieldConfig, vars, Shape
  <1>6. CASE CardAuthorization
    <2>1. PICK a \in open, amt \in CardAmounts :
             \E ref : Book({Entry(a, "hold", -amt, "pending", ref, "card", 0)})
      BY <1>6 DEF CardAuthorization
    <2>0. PICK ref : Book({Entry(a, "hold", -amt, "pending", ref, "card", 0)})
      BY <2>1
    <2> DEFINE e == Entry(a, "hold", -amt, "pending", ref, "card", 0)
    <2>2. amt \in Nat \ {0}
      OBVIOUS
    <2>3. e.amount < 0 /\ e.seq = seq /\ e.resolves = 0 /\ e.status = "pending" /\ e.by = "card"
      BY <2>2 DEF Entry
    <2> HIDE DEF e
    <2>4. NewEntries({e})
      BY <2>3 DEF NewEntries
    <2>5. QED
      BY <2>0, <2>4 DEF Book, Grows, Shape, e
  <1>7. CASE CardVoid
    <2>1. PICK a \in open, ref \in Reference, h \in txns :
             /\ h.account = a /\ h.ref = ref /\ h.type = "hold" /\ h.status = "pending"
             /\ txns' = (txns \ {h}) \cup {Reversed(h),
                            Entry(a, "release", Abs(h.amount), "posted", ref, "card", h.seq)}
             /\ seq' = seq + 1
      BY <1>7, <1>a, ClientRefsType DEF CardVoid, PendingHolds, EntriesOf
    <2> DEFINE e == Entry(a, "release", Abs(h.amount), "posted", ref, "card", h.seq)
    <2>2. h \in Txn /\ h.amount \in Int /\ h.seq \in Nat
      BY DEF TypeOK, Txn
    <2>3. e \in Txn
      BY <2>2, <1>a, EntryType DEF Abs
    <2>4. Uses(h, e)
      BY <2>1 DEF Uses, Entry
    <2>5. QED
      BY <2>2, <2>3, <2>4 DEF Shape
  <1>8. CASE CardRefund
    <2>1. PICK a \in open, amt \in CardAmounts, ref \in Reference, d \in txns :
             /\ d.account = a /\ d.ref = ref /\ d.type = "debit" /\ d.status = "posted"
             /\ Book({Entry(a, "credit", Lesser(amt, Abs(d.amount)), "posted", ref, "refund", 0)})
      BY <1>8, <1>a, ClientRefsType DEF CardRefund, PostedDebits, EntriesOf
    <2> DEFINE e == Entry(a, "credit", Lesser(amt, Abs(d.amount)), "posted", ref, "refund", 0)
    <2>2. Lesser(amt, Abs(d.amount)) <= Abs(d.amount)
      BY DEF TypeOK, Txn, Lesser, Abs
    <2>3. /\ e.seq = seq /\ e.resolves = 0 /\ e.type = "credit" /\ e.account = a /\ e.ref = ref
          /\ e.amount <= Abs(d.amount)
      BY <2>2 DEF Entry
    <2> HIDE DEF e
    <2>4. NewEntries({e})
      BY <2>1, <2>3 DEF NewEntries, EntriesOf
    <2>5. QED
      BY <2>1, <2>4 DEF Book, Grows, Shape, e
  <1>9. CASE CardCapture
    <2>1. PICK a \in open, amt \in CardAmounts, ref \in Reference, h \in txns :
             /\ h.account = a /\ h.ref = ref /\ h.type = "hold" /\ h.status = "pending"
             /\ txns' = (txns \ {h}) \cup {Reversed(h), Entry(a, "debit", -amt, "posted", ref, "card", h.seq)}
             /\ seq' = seq + 1
      BY <1>9, <1>a, ClientRefsType DEF CardCapture, PendingHolds, EntriesOf
    <2> DEFINE e == Entry(a, "debit", -amt, "posted", ref, "card", h.seq)
    <2>2. h \in Txn /\ h.seq \in Nat /\ -amt \in Int
      BY DEF TypeOK, Txn
    <2>3. e \in Txn
      BY <2>2, <1>a, EntryType
    <2>4. Uses(h, e)
      BY <2>1 DEF Uses, Entry
    <2>5. QED
      BY <2>2, <2>3, <2>4 DEF Shape
  <1>10. CASE CardPost
    BY <1>10, BookGrows DEF CardPost, Entry, Shape
  <1>11. CASE CreateTenantAccount
    BY <1>11, BookGrows DEF CreateTenantAccount, Entry, Shape
  <1>12. CASE SeedTenantAccountData
    <2>1. PICK a \in open : txns' = KeptTxns(a) \cup SeedEntries(a) /\ seq' = seq + 1
      BY <1>12 DEF SeedTenantAccountData
    <2>2. NewEntries(SeedEntries(a)) /\ \A e \in SeedEntries(a) : e.type # "hold" /\ e.by # "refund"
      BY DEF NewEntries, SeedEntries, Entry
    <2>3. QED
      BY <2>1, <2>2, <1>a DEF Clears, Shape
  <1>13. CASE ResetTenantAccountData
    <2>1. PICK a \in open : txns' = KeptTxns(a) /\ seq' = seq
      BY <1>13 DEF ResetTenantAccountData
    <2>2. NewEntries({})
      BY DEF NewEntries
    <2>3. QED
      BY <2>1, <2>2, <1>a DEF Clears, Shape
  <1>14. CASE ResetTenantDataset \/ SeedTenantDataset
    BY <1>14 DEF ResetTenantDataset, SeedTenantDataset, Restarts, Shape
  <1>15. CASE AccrueDailyInterest
    <2>1. PICK d \in Dates :
             Book({Entry(a, "credit", Interest(a), "posted", Ref("interest", a, d), "interest", 0) :
                      a \in Paid(d)})
      BY <1>15 DEF AccrueDailyInterest
    <2> DEFINE new == {Entry(a, "credit", Interest(a), "posted", Ref("interest", a, d), "interest", 0) :
                          a \in Paid(d)}
    <2>2. \A e \in new : e.seq = seq /\ e.resolves = 0 /\ e.type # "hold" /\ e.by # "refund"
      BY DEF Entry
    <2> HIDE DEF new
    <2>3. Grows
      BY <2>1, <2>2, BookGrows DEF new
    <2>4. QED
      BY <2>3 DEF Shape
  <1>16. QED
    BY <1>2, <1>3, <1>4, <1>5, <1>6, <1>7, <1>8, <1>9, <1>10, <1>11, <1>12, <1>13, <1>14, <1>15 DEF Next

-----------------------------------------------------------------------------
(* Holds *)

\* HoldResolvedOnce alone is not inductive: that a pending hold has not been
\* used up yet, and that a number names one hold, come from the order in which
\* entries are booked.
HoldInv ==
    /\ TypeOK
    /\ \A t \in txns : t.seq < seq /\ t.resolves < seq
    /\ \A h \in txns : h.type = "hold" => h.seq # 0 /\ h.resolves = 0 /\ h.amount < 0
    /\ \A h, k \in txns : (h.type = "hold" /\ k.type = "hold" /\ h.seq = k.seq) => h = k
    /\ HoldResolvedOnce

\* The hold that an entry used up.
LEMMA HoldOf ==
    ASSUME HoldInv, NEW t \in txns, t.resolves # 0
    PROVE  \E h \in txns : /\ h.seq = t.resolves /\ h.type = "hold" /\ h.status = "reversed"
                           /\ h.account = t.account /\ h.ref = t.ref
                           /\ t.type = "release" => t.amount = -h.amount
  <1>1. HoldResolvedOnce
    BY DEF HoldInv
  <1>2. QED
    BY <1>1, Zenon DEF HoldResolvedOnce

LEMMA HoldGrows == HoldInv /\ TypeOK' /\ Grows => HoldInv'
  <1> SUFFICES ASSUME HoldInv, TypeOK', NEW new, NewEntries(new), txns' = txns \cup new, seq' = seq + 1
               PROVE  HoldInv'
    BY DEF Grows
  <1>1. seq \in Nat \ {0} /\ \A t \in txns' : t.seq \in Nat /\ t.resolves \in Nat
    BY DEF HoldInv, TypeOK, Txn
  <1>2. \A t \in txns' : t.seq < seq' /\ t.resolves < seq'
    BY <1>1 DEF HoldInv, NewEntries
  <1>3. /\ \A h \in txns' : h.type = "hold" => h.seq # 0 /\ h.resolves = 0 /\ h.amount < 0
        /\ \A h, k \in txns' : (h.type = "hold" /\ k.type = "hold" /\ h.seq = k.seq) => h = k
    BY <1>1 DEF HoldInv, NewEntries
  <1>4. \A h \in txns' : (h.type = "hold" /\ h.status = "reversed") => \E t \in txns' : t.resolves = h.seq
    BY DEF HoldInv, NewEntries, HoldResolvedOnce
  <1>5. \A t, u \in txns' : (t.resolves = u.resolves /\ t.resolves # 0) => t = u
    BY DEF HoldInv, NewEntries, HoldResolvedOnce
  <1>6. \A t \in txns' : t.resolves # 0 =>
           \E h \in txns' : /\ h.seq = t.resolves /\ h.type = "hold" /\ h.status = "reversed"
                            /\ h.account = t.account /\ h.ref = t.ref
                            /\ t.type = "release" => t.amount = -h.amount
    BY DEF HoldInv, NewEntries, HoldResolvedOnce
  <1>7. HoldResolvedOnce'
    BY <1>4, <1>5, <1>6 DEF HoldResolvedOnce
  <1>8. QED
    BY <1>2, <1>3, <1>7 DEF HoldInv

LEMMA HoldUsed == ASSUME HoldInv, TypeOK', NEW h \in Txn, NEW e \in Txn, Uses(h, e) PROVE HoldInv'
  <1> DEFINE r == Reversed(h)
  <1>1. /\ h \in txns /\ h.type = "hold" /\ h.status = "pending" /\ h.seq # 0 /\ h.amount < 0
        /\ h.resolves = 0 /\ h.seq < seq /\ seq \in Nat \ {0} /\ h.seq \in Nat
    BY DEF Uses, HoldInv, TypeOK, Txn
  <1>2. /\ r.type = "hold" /\ r.status = "reversed" /\ r.seq = h.seq /\ r.resolves = 0
        /\ r.account = h.account /\ r.ref = h.ref /\ r.amount = h.amount
    BY <1>1 DEF Reversed, Txn
  <1>3. /\ e.seq = seq /\ e.resolves = h.seq /\ e.account = r.account /\ e.ref = r.ref
        /\ e.type # "hold" /\ (e.type = "release" => e.amount = -r.amount)
    BY <1>1, <1>2 DEF Uses, Abs, Txn
  <1> HIDE DEF r
  <1>4. txns' = (txns \ {h}) \cup {r, e} /\ seq' = seq + 1
    BY DEF Uses, r
  <1>5. \A t \in txns : t.seq < seq /\ t.resolves < seq /\ t.seq \in Nat /\ t.resolves \in Nat
    BY DEF HoldInv, TypeOK, Txn
  <1>6. \A t \in txns : t.resolves # h.seq
    \* a user of h has a reversed hold numbered as h, and h is pending
    BY <1>1, HoldOf DEF HoldInv
  <1>7. \A t \in txns' : t.seq < seq' /\ t.resolves < seq'
    BY <1>1, <1>2, <1>3, <1>4, <1>5
  <1>8. /\ \A k \in txns' : k.type = "hold" => k.seq # 0 /\ k.resolves = 0 /\ k.amount < 0
        /\ \A k, l \in txns' : (k.type = "hold" /\ l.type = "hold" /\ k.seq = l.seq) => k = l
    BY <1>1, <1>2, <1>3, <1>4 DEF HoldInv
  <1>9. \A k \in txns' : (k.type = "hold" /\ k.status = "reversed") => \E t \in txns' : t.resolves = k.seq
    <2> TAKE k \in txns'
    <2> HAVE k.type = "hold" /\ k.status = "reversed"
    <2>1. CASE k \in txns
      <3>1. PICK t \in txns : t.resolves = k.seq
        BY <2>1 DEF HoldInv, HoldResolvedOnce
      <3>2. t # h
        BY <3>1, <1>1, <2>1 DEF HoldInv
      <3>3. QED
        BY <3>1, <3>2, <1>4
    <2>2. CASE k \notin txns
      BY <2>2, <1>2, <1>3, <1>4
    <2>3. QED
      BY <2>1, <2>2
  <1>10. \A t, u \in txns' : (t.resolves = u.resolves /\ t.resolves # 0) => t = u
    BY <1>1, <1>2, <1>3, <1>4, <1>6 DEF HoldInv, HoldResolvedOnce
  <1>11. ASSUME NEW t \in txns', t.resolves # 0
         PROVE  \E k \in txns' : /\ k.seq = t.resolves /\ k.type = "hold" /\ k.status = "reversed"
                                 /\ k.account = t.account /\ k.ref = t.ref
                                 /\ t.type = "release" => t.amount = -k.amount
    <2>1. CASE t \in txns
      <3>1. PICK k \in txns : /\ k.seq = t.resolves /\ k.type = "hold" /\ k.status = "reversed"
                              /\ k.account = t.account /\ k.ref = t.ref
                              /\ t.type = "release" => t.amount = -k.amount
        BY <1>11, <2>1, HoldOf
      <3>2. k \in txns'
        BY <3>1, <1>1, <1>4
      <3>3. QED
        BY <3>1, <3>2
    <2>2. CASE t \notin txns
      <3>1. t = e
        BY <2>2, <1>2, <1>4, <1>11
      <3>2. r \in txns'
        BY <1>4
      <3>3. QED
        BY <3>1, <3>2, <1>2, <1>3
    <2>3. QED
      BY <2>1, <2>2
  <1>12. HoldResolvedOnce'
    BY <1>9, <1>10, <1>11 DEF HoldResolvedOnce
  <1>13. QED
    BY <1>7, <1>8, <1>12 DEF HoldInv

\* What one account's data leave goes by account or by reference, and a hold
\* shares both with the entry that used it up: they stay or go together.
LEMMA HoldClears == ASSUME HoldInv, TypeOK', NEW a \in Accounts, Clears(a) PROVE HoldInv'
  <1>1. PICK new : /\ NewEntries(new) /\ \A e \in new : e.type # "hold" /\ e.by # "refund"
                   /\ txns' = KeptTxns(a) \cup new
                   /\ seq' \in {seq, seq + 1} /\ (new = {} \/ seq' = seq + 1)
    BY DEF Clears
  <1>2. KeptTxns(a) \subseteq txns
    BY DEF KeptTxns
  <1>3. \A t \in txns, k \in KeptTxns(a) : t.account = k.account /\ t.ref = k.ref => t \in KeptTxns(a)
    BY DEF KeptTxns
  <1>4. \A t \in txns : t.seq < seq /\ t.resolves < seq /\ t.seq \in Nat /\ t.resolves \in Nat
    BY DEF HoldInv, TypeOK, Txn
  <1>5. seq \in Nat \ {0}
    BY DEF HoldInv, TypeOK
  <1>6. \A t \in txns' : t.seq < seq' /\ t.resolves < seq'
    BY <1>1, <1>2, <1>4, <1>5 DEF NewEntries
  <1>7. /\ \A k \in txns' : k.type = "hold" => k.seq # 0 /\ k.resolves = 0 /\ k.amount < 0
        /\ \A k, l \in txns' : (k.type = "hold" /\ l.type = "hold" /\ k.seq = l.seq) => k = l
    BY <1>1, <1>2 DEF HoldInv
  <1>8. \A h \in txns' : (h.type = "hold" /\ h.status = "reversed") => \E t \in txns' : t.resolves = h.seq
    <2> TAKE h \in txns'
    <2> HAVE h.type = "hold" /\ h.status = "reversed"
    <2>1. h \in KeptTxns(a) /\ h \in txns
      BY <1>1, <1>2
    <2>2. PICK t \in txns : t.resolves = h.seq
      BY <2>1 DEF HoldInv, HoldResolvedOnce
    <2>3. PICK k \in txns : k.seq = t.resolves /\ k.type = "hold" /\ k.account = t.account /\ k.ref = t.ref
      <3>1. t.resolves # 0
        BY <2>1, <2>2 DEF HoldInv
      <3>2. QED
        BY <3>1, HoldOf
    <2>4. k = h
      BY <2>1, <2>2, <2>3 DEF HoldInv
    <2>5. t \in KeptTxns(a)
      BY <1>3, <2>1, <2>3, <2>4
    <2>6. QED
      BY <1>1, <2>2, <2>5
  <1>9. \A t, u \in txns' : (t.resolves = u.resolves /\ t.resolves # 0) => t = u
    BY <1>1, <1>2 DEF NewEntries, HoldInv, HoldResolvedOnce
  <1>10. ASSUME NEW t \in txns', t.resolves # 0
         PROVE  \E k \in txns' : /\ k.seq = t.resolves /\ k.type = "hold" /\ k.status = "reversed"
                                 /\ k.account = t.account /\ k.ref = t.ref
                                 /\ t.type = "release" => t.amount = -k.amount
    <2>1. t \in KeptTxns(a) /\ t \in txns
      BY <1>1, <1>2, <1>10 DEF NewEntries
    <2>2. PICK k \in txns : /\ k.seq = t.resolves /\ k.type = "hold" /\ k.status = "reversed"
                            /\ k.account = t.account /\ k.ref = t.ref
                            /\ t.type = "release" => t.amount = -k.amount
      BY <1>10, <2>1, HoldOf
    <2>3. k \in txns'
      BY <1>1, <1>3, <2>1, <2>2
    <2>4. QED
      BY <2>2, <2>3
  <1>11. HoldResolvedOnce'
    BY <1>8, <1>9, <1>10 DEF HoldResolvedOnce
  <1>12. QED
    BY <1>6, <1>7, <1>11 DEF HoldInv

LEMMA HoldStep == HoldInv /\ [Next]_vars => HoldInv'
  <1> SUFFICES ASSUME HoldInv, [Next]_vars PROVE HoldInv'
    OBVIOUS
  <1>1. TypeOK /\ TypeOK' /\ Shape
    BY TypeStep, LedgerShape DEF HoldInv
  <1>2. CASE Restarts
    <2>1. \A t \in txns' : t.seq = 0 /\ t.resolves = 0 /\ t.type \in {"credit", "debit"}
      BY <1>2, LedgerAssumption DEF Restarts
    <2>2. seq' \in Nat \ {0}
      BY <1>1 DEF TypeOK
    <2>3. QED
      BY <1>1, <2>1, <2>2 DEF HoldInv, HoldResolvedOnce
  <1>3. CASE UNCHANGED <<txns, seq>>
    BY <1>1, <1>3 DEF HoldInv, HoldResolvedOnce
  <1>4. QED
    BY <1>1, <1>2, <1>3, HoldGrows, HoldUsed, HoldClears DEF Shape

LEMMA HoldInit == Init => HoldInv
  <1> SUFFICES ASSUME Init PROVE HoldInv
    OBVIOUS
  <1>1. TypeOK
    BY LedgerAssumption DEF Init, TypeOK, NoYield, YieldConfig
  <1>2. \A t \in txns : t.seq = 0 /\ t.resolves = 0 /\ t.type \in {"credit", "debit"}
    BY LedgerAssumption DEF Init
  <1>3. QED
    BY <1>1, <1>2 DEF HoldInv, HoldResolvedOnce, Init

\* A hold is used up once, by one release or one capture, whatever the order
\* of authorizations, voids, posts, seeds and resets.
THEOREM LedgerHoldResolvedOnce == Spec => []HoldResolvedOnce
  <1>1. HoldInv => HoldResolvedOnce
    BY DEF HoldInv
  <1>2. QED
    BY <1>1, HoldInit, HoldStep, PTL DEF Spec

-----------------------------------------------------------------------------
(* Refunds *)

LEMMA RefundStep == TypeOK /\ RefundBacked /\ [Next]_vars => RefundBacked'
  <1> SUFFICES ASSUME TypeOK, RefundBacked, [Next]_vars, NEW r \in txns', r.by = "refund"
               PROVE  \E d \in txns' : /\ d.account = r.account /\ d.ref = r.ref /\ d.type = "debit"
                                       /\ d.status = "posted" /\ r.amount <= Abs(d.amount)
    BY DEF RefundBacked, EntriesOf
  <1>1. Shape
    BY LedgerShape
  <1>2. \A q \in txns : q.by = "refund" =>
           \E d \in txns : /\ d.account = q.account /\ d.ref = q.ref /\ d.type = "debit"
                           /\ d.status = "posted" /\ q.amount <= Abs(d.amount)
    BY DEF RefundBacked, EntriesOf
  <1>3. CASE Grows
    BY <1>2, <1>3 DEF Grows, NewEntries, EntriesOf
  <1>4. ASSUME NEW h \in Txn, NEW e \in Txn, Uses(h, e)
        PROVE  \E d \in txns' : /\ d.account = r.account /\ d.ref = r.ref /\ d.type = "debit"
                                /\ d.status = "posted" /\ r.amount <= Abs(d.amount)
    <2>1. /\ h \in txns /\ h.type = "hold" /\ e.by # "refund"
          /\ txns' = (txns \ {h}) \cup {Reversed(h), e}
      BY <1>4 DEF Uses
    <2>2. /\ Reversed(h).account = h.account /\ Reversed(h).ref = h.ref /\ Reversed(h).by = h.by
          /\ Reversed(h).amount = h.amount
      BY DEF Reversed, Txn
    <2>3. PICK q \in txns : /\ q.by = "refund" /\ q.account = r.account /\ q.ref = r.ref
                            /\ q.amount = r.amount
      BY <2>1, <2>2
    <2>4. PICK d \in txns : /\ d.account = q.account /\ d.ref = q.ref /\ d.type = "debit"
                            /\ d.status = "posted" /\ q.amount <= Abs(d.amount)
      BY <1>2, <2>3
    <2>5. d \in txns'
      BY <2>1, <2>4
    <2>6. QED
      BY <2>3, <2>4, <2>5
  <1>5. ASSUME NEW a \in Accounts, Clears(a)
        PROVE  \E d \in txns' : /\ d.account = r.account /\ d.ref = r.ref /\ d.type = "debit"
                                /\ d.status = "posted" /\ r.amount <= Abs(d.amount)
    \* a refund and the debit behind it share account and reference
    <2>1. r \in KeptTxns(a) /\ r \in txns /\ KeptTxns(a) \subseteq txns'
      BY <1>5 DEF Clears, KeptTxns
    <2>2. PICK d \in txns : /\ d.account = r.account /\ d.ref = r.ref /\ d.type = "debit"
                            /\ d.status = "posted" /\ r.amount <= Abs(d.amount)
      BY <1>2, <2>1
    <2>3. d \in KeptTxns(a)
      BY <2>1, <2>2 DEF KeptTxns
    <2>4. QED
      BY <2>1, <2>2, <2>3
  <1>6. CASE Restarts
    BY <1>6, LedgerAssumption DEF Restarts
  <1>7. CASE UNCHANGED <<txns, seq>>
    BY <1>2, <1>7
  <1>8. QED
    BY <1>1, <1>3, <1>4, <1>5, <1>6, <1>7 DEF Shape

\* Every refund has its posted debit, at least as large, for as long as it is
\* on the books.
THEOREM LedgerRefundBacked == Spec => []RefundBacked
  <1>1. Init => RefundBacked
    BY LedgerAssumption DEF Init, RefundBacked
  <1>2. QED
    BY <1>1, RefundStep, LedgerTypeOK, PTL DEF Spec

-----------------------------------------------------------------------------
(* Transfers and their entries *)

BookedIn(tr, ts) ==
    /\ tr.from # NoOne => \E t \in ts : t.account = tr.from /\ t.ref = tr.ref /\ t.type = "debit"
                                        /\ t.amount = -tr.amount
    /\ tr.to # NoOne => \E t \in ts : t.account = tr.to /\ t.ref = tr.ref /\ t.type = "credit"
                                      /\ t.amount = tr.amount

\* A seed or a reset of account a keeps the transfers that do not involve a and
\* the entries whose reference does not name it: a transfer must not have a
\* reference that names an account it does not involve.
NamesParty(tr) ==
    \/ tr.ref.kind = "transfer" /\ tr.ref.of = NoOne
    \/ tr.ref.kind = "seed" /\ tr.ref.of = tr.to

TransferInv ==
    /\ TypeOK
    /\ \A tr \in transfers : tr.ref.kind # "baseline" => BookedIn(tr, txns) /\ NamesParty(tr)

LEMMA TransferInvBooked == TransferInv => TransferBooked
  BY DEF TransferInv, TransferBooked, BookedIn, EntriesOf

\* Transfers stay booked while debits and credits are only added.
LEMMA TransferAdded ==
    ASSUME TransferInv, TypeOK', NEW new, txns' = txns \cup new, NEW tr, NamesParty(tr), BookedIn(tr, new),
           transfers' = transfers \cup {tr}
    PROVE  TransferInv'
  <1>1. BookedIn(tr, txns')
    BY DEF BookedIn
  <1>2. \A u \in transfers : u.ref.kind # "baseline" => BookedIn(u, txns') /\ NamesParty(u)
    BY DEF BookedIn, TransferInv
  <1>3. QED
    BY <1>1, <1>2 DEF TransferInv

LEMMA TransferKept ==
    ASSUME TransferInv, TypeOK', transfers' = transfers,
           \A t \in txns : t.type \in {"credit", "debit"} => t \in txns'
    PROVE  TransferInv'
  <1>1. \A u \in transfers : u.ref.kind # "baseline" => BookedIn(u, txns') /\ NamesParty(u)
    BY DEF BookedIn, TransferInv
  <1>2. QED
    BY <1>1 DEF TransferInv

LEMMA CreateBooks ==
    ASSUME TransferInv, TypeOK', NEW type, NEW amt \in Int, NEW from \in open, NEW to,
           CreateTenantTransfer(type, amt, from, to)
    PROVE  TransferInv'
  <1> DEFINE ref == Ref("transfer", NoOne, seq)
             status == IF type = "internal" THEN "posted" ELSE "pending"
             tr == [ref |-> ref, status |-> IF type = "internal" THEN "completed" ELSE "pending",
                    amount |-> amt, from |-> from, to |-> to]
             new == {Entry(from, "debit", -amt, status, ref, "transfer", 0)}
                      \cup {Entry(a, "credit", amt, status, ref, "transfer", 0) : a \in {to} \ {NoOne}}
  <1>1. txns' = txns \cup new /\ transfers' = transfers \cup {tr}
    BY DEF CreateTenantTransfer, Book
  <1>2. NamesParty(tr)
    BY DEF NamesParty, Ref
  <1>3. BookedIn(tr, new)
    <2> DEFINE d == Entry(from, "debit", -amt, status, ref, "transfer", 0)
               c == Entry(to, "credit", amt, status, ref, "transfer", 0)
    <2>1. /\ d.account = from /\ d.ref = ref /\ d.type = "debit" /\ d.amount = -amt
          /\ c.account = to /\ c.ref = ref /\ c.type = "credit" /\ c.amount = amt
      BY DEF Entry
    <2>2. d \in new /\ (to # NoOne => c \in new)
      OBVIOUS
    <2>4. tr.ref = ref /\ tr.amount = amt /\ tr.from = from /\ tr.to = to
      OBVIOUS
    <2> HIDE DEF d, c, new, tr
    <2>5. QED
      BY <2>1, <2>2, <2>4 DEF BookedIn
  <1> HIDE DEF tr, new
  <1>4. QED
    BY <1>1, <1>2, <1>3, TransferAdded

LEMMA TransferStep == TransferInv /\ [Next]_vars => TransferInv'
  <1> SUFFICES ASSUME TransferInv, [Next]_vars PROVE TransferInv'
    OBVIOUS
  <1>a. TypeOK /\ TypeOK' /\ open \subseteq Accounts
    BY TypeStep DEF TransferInv, TypeOK
  <1>b. TransferAmounts \subseteq Int /\ NoOne \notin Accounts
    BY LedgerAssumption
  <1>1. CASE InternalTransfer \/ ExternalTransfer \/ LoanOnboardingFunding
    BY <1>1, <1>a, <1>b, CreateBooks DEF InternalTransfer, ExternalTransfer, LoanOnboardingFunding
  <1>2. CASE SimulateIncomingRailTransfer
    <2>1. PICK a \in open, amt \in TransferAmounts :
             LET ref == Ref("transfer", NoOne, seq)
             IN  /\ Book({Entry(a, "credit", amt, "posted", ref, "transfer", 0)})
                 /\ transfers' = transfers \cup {[ref |-> ref, status |-> "completed", amount |-> amt,
                                                   from |-> NoOne, to |-> a]}
      BY <1>2 DEF SimulateIncomingRailTransfer
    <2> DEFINE ref == Ref("transfer", NoOne, seq)
               tr == [ref |-> ref, status |-> "completed", amount |-> amt, from |-> NoOne, to |-> a]
               e == Entry(a, "credit", amt, "posted", ref, "transfer", 0)
    <2>2. NamesParty(tr) /\ BookedIn(tr, {e})
      BY DEF NamesParty, BookedIn, Ref, Entry
    <2>3. txns' = txns \cup {e} /\ transfers' = transfers \cup {tr}
      BY <2>1 DEF Book
    <2> HIDE DEF tr, e
    <2>4. QED
      BY <2>2, <2>3, <1>a, TransferAdded
  <1>3. ASSUME NEW a \in open, NEW amt \in Int, NEW status, SimulateOutgoing(a, amt, status)
        PROVE  TransferInv'
    <2> DEFINE ref == Ref("transfer", NoOne, seq)
               tr == [ref |-> ref, status |-> status, amount |-> amt, from |-> a, to |-> NoOne]
               e == Entry(a, "debit", -amt, "posted", ref, "transfer", 0)
    <2>1. NamesParty(tr) /\ BookedIn(tr, {e})
      BY DEF NamesParty, BookedIn, Ref, Entry
    <2>2. txns' = txns \cup {e} /\ transfers' = transfers \cup {tr}
      BY <1>3 DEF SimulateOutgoing, Book
    <2> HIDE DEF tr, e
    <2>3. QED
      BY <2>1, <2>2, <1>a, TransferAdded
  <1>4. CASE SimulateOutgoingAchTransfer \/ CreateOutgoingWire
    BY <1>3, <1>4, <1>b DEF SimulateOutgoingAchTransfer, CreateOutgoingWire
  <1>5. CASE UpdateTenantTransfer
    <2>1. PICK tr \in transfers, status \in TransferStatus :
             transfers' = (transfers \ {tr}) \cup {[tr EXCEPT !.status = status]} /\ txns' = txns
      BY <1>5 DEF UpdateTenantTransfer
    <2> DEFINE u == [tr EXCEPT !.status = status]
    <2>2. u.ref = tr.ref /\ u.amount = tr.amount /\ u.from = tr.from /\ u.to = tr.to
      BY <1>a DEF TypeOK, Transfer
    <2> HIDE DEF u
    <2>3. tr.ref.kind # "baseline" => BookedIn(u, txns) /\ NamesParty(u)
      BY <2>2 DEF TransferInv, BookedIn, NamesParty
    <2>4. transfers' = (transfers \ {tr}) \cup {u}
      BY <2>1 DEF u
    <2>5. QED
      BY <1>a, <2>1, <2>2, <2>3, <2>4 DEF TransferInv
  <1>6. CASE DeleteTenantTransfer
    BY <1>6, <1>a DEF DeleteTenantTransfer, TransferInv
  <1>7. CASE CardAuthorization \/ CardRefund \/ CardPost \/ CreateTenantAccount \/ AccrueDailyInterest
    <2>1. transfers' = transfers /\ txns \subseteq txns'
      BY <1>7 DEF CardAuthorization, CardRefund, CardPost, CreateTenantAccount, AccrueDailyInterest, Book
    <2>2. QED
      BY <2>1, <1>a, TransferKept
  <1>8. CASE CardVoid \/ CardCapture
    <2>1. \E h \in txns : h.type = "hold" /\ txns \ {h} \subseteq txns'
      BY <1>8 DEF CardVoid, CardCapture, PendingHolds, EntriesOf
    <2>2. transfers' = transfers
      BY <1>8 DEF CardVoid, CardCapture
    <2>3. QED
      BY <2>1, <2>2, <1>a, TransferKept
  <1>9. ASSUME NEW a \in Accounts, KeptTxns(a) \subseteq txns', NEW tr \in KeptTransfers(a), tr.ref.kind # "baseline"
        PROVE  BookedIn(tr, txns') /\ NamesParty(tr)
    <2>1. tr \in transfers /\ tr.from # a /\ tr.to # a
      BY <1>9 DEF KeptTransfers
    <2>2. BookedIn(tr, txns) /\ NamesParty(tr)
      BY <1>9, <2>1 DEF TransferInv
    <2>3. ~Names(tr.ref, a)
      BY <1>b, <2>1, <2>2 DEF Names, NamesParty
    <2>4. \A t \in txns : t.ref = tr.ref /\ t.account # a => t \in txns'
      BY <1>9, <2>3 DEF KeptTxns
    <2>5. QED
      BY <2>1, <2>2, <2>4 DEF BookedIn
  <1>10. CASE SeedTenantAccountData
    <2>1. PICK a \in open :
             /\ txns' = KeptTxns(a) \cup SeedEntries(a)
             /\ transfers' = KeptTransfers(a) \cup
                    {[ref |-> Ref("seed", a, 1), status |-> "completed", amount |-> SeedAmount[1],
                      from |-> NoOne, to |-> a]}
      BY <1>10 DEF SeedTenantAccountData
    <2> DEFINE tr == [ref |-> Ref("seed", a, 1), status |-> "completed", amount |-> SeedAmount[1],
                      from |-> NoOne, to |-> a]
               e == Entry(a, "credit", SeedAmount[1], "posted", Ref("seed", a, 1), "seed", 0)
    <2>2. e \in SeedEntries(a)
      BY DEF SeedEntries
    <2>3. NamesParty(tr) /\ BookedIn(tr, {e})
      BY DEF NamesParty, BookedIn, Ref, Entry
    <2>4. transfers' = KeptTransfers(a) \cup {tr}
      BY <2>1
    <2> HIDE DEF tr, e
    <2>5. BookedIn(tr, txns')
      BY <2>1, <2>2, <2>3 DEF BookedIn
    <2>6. QED
      BY <1>9, <1>a, <2>1, <2>3, <2>4, <2>5 DEF TransferInv
  <1>11. CASE ResetTenantAccountData
    BY <1>9, <1>11, <1>a DEF ResetTenantAccountData, TransferInv
  <1>12. CASE ResetTenantDataset \/ SeedTenantDataset
    BY <1>12, <1>a, LedgerAssumption DEF ResetTenantDataset, SeedTenantDataset, TransferInv
  <1>13. CASE UpsertYieldConfig \/ UNCHANGED vars
    BY <1>13, <1>a, TransferKept DEF UpsertYieldConfig, vars
  <1>14. QED
    BY <1>1, <1>2, <1>4, <1>5, <1>6, <1>7, <1>8, <1>10, <1>11, <1>12, <1>13 DEF Next

\* A transfer keeps the entries that account for it, whatever is done to its
\* status or to any account, until it is deleted itself.
THEOREM LedgerTransferBooked == Spec => []TransferBooked
  <1>1. Init => TransferInv
    <2> SUFFICES ASSUME Init PROVE TransferInv
      OBVIOUS
    <2>1. TypeOK
      BY LedgerAssumption DEF Init, TypeOK, NoYield, YieldConfig
    <2>2. QED
      BY <2>1, LedgerAssumption DEF Init, TransferInv
  <1>2. QED
    BY <1>1, TransferStep, TransferInvBooked, PTL DEF Spec

-----------------------------------------------------------------------------
(* Sums of amounts *)

Some(ts) == CHOOSE t \in ts : TRUE

\* The equation of a function from the subsets of ts to their sums.
Adds(ts, g) == g = [s \in SUBSET ts |-> IF s = {} THEN 0 ELSE Some(s).amount + g[s \ {Some(s)}]]

LEMMA TotalDef == ASSUME NEW ts PROVE Total(ts) = (CHOOSE g : Adds(ts, g))[ts]
  BY Zenon DEF Total, MapThenSumSet, MapThenFoldSet, Adds, Some

\* The sum of a finite set is that of the equation it is defined by.
LEMMA TotalStep ==
    ASSUME NEW S, IsFiniteSet(S)
    PROVE  Total(S) = IF S = {} THEN 0 ELSE Some(S).amount + Total(S \ {Some(S)})
  <1> DEFINE Rhs(T) == IF T = {} THEN 0 ELSE Some(T).amount + Total(T \ {Some(T)})
             good == {T \in SUBSET S : Total(T) = Rhs(T)}
  <1>0. \A T : T # {} => Some(T) \in T
    BY DEF Some
  <1>1. ASSUME NEW T \in SUBSET S, \A U \in SUBSET T : U # T => U \in good
        PROVE  T \in good
    <2> DEFINE g == [s \in SUBSET T |-> Rhs(s)]
    <2>1. ASSUME NEW s \in SUBSET T, s # {}
          PROVE  Total(s \ {Some(s)}) = g[s \ {Some(s)}]
      <3>1. s \ {Some(s)} \in SUBSET T /\ s \ {Some(s)} # T
        BY <1>0, <2>1
      <3>2. Total(s \ {Some(s)}) = Rhs(s \ {Some(s)})
        BY <1>1, <3>1
      <3>3. QED
        BY <3>1, <3>2
    <2>2. Adds(T, g)
      <3>1. g = [s \in SUBSET T |-> IF s = {} THEN 0 ELSE Some(s).amount + g[s \ {Some(s)}]]
        BY <2>1
      <3> HIDE DEF g
      <3>2. QED
        BY <3>1 DEF Adds
    <2> DEFINE h == CHOOSE f : Adds(T, f)
    <2>3. Adds(T, h)
      BY <2>2
    <2> HIDE DEF h
    <2>4. h = [s \in SUBSET T |-> IF s = {} THEN 0 ELSE Some(s).amount + h[s \ {Some(s)}]]
      BY <2>3 DEF Adds
    <2>5. g = [s \in SUBSET T |-> IF s = {} THEN 0 ELSE Some(s).amount + g[s \ {Some(s)}]]
      BY <2>2 DEF Adds
    <2>6. T \in SUBSET T
      OBVIOUS
    <2>9. g[T] = Rhs(T)
      BY <2>6
    <2> HIDE DEF g
    <2> DEFINE same == {s \in SUBSET T : h[s] = g[s]}
    <2>7. ASSUME NEW s \in SUBSET T, \A u \in SUBSET s : u # s => u \in same
          PROVE  s \in same
      <3>1. CASE s = {}
        BY <2>4, <2>5, <3>1
      <3>2. CASE s # {}
        <4>1. s \ {Some(s)} \in same
          BY <1>0, <2>7, <3>2
        <4>2. h[s] = Some(s).amount + h[s \ {Some(s)}] /\ g[s] = Some(s).amount + g[s \ {Some(s)}]
          BY <2>4, <2>5, <3>2
        <4>3. QED
          BY <4>1, <4>2
      <3>3. QED
        BY <3>1, <3>2
    <2>8. T \in same
      <3>1. IsFiniteSet(T)
        BY FS_Subset
      <3> HIDE DEF same
      <3>2. SUBSET T \subseteq same
        BY <2>7, <3>1, SubsetInduction
      <3>3. QED
        BY <2>6, <3>2
    <2>10. Total(T) = h[T]
      BY TotalDef DEF h
    <2>11. QED
      BY <2>8, <2>9, <2>10
  <1>2. S \in good
    <2> HIDE DEF good
    <2>1. SUBSET S \subseteq good
      BY <1>1, SubsetInduction
    <2>2. QED
      BY <2>1
  <1>3. QED
    BY <1>2

HaveAmounts(ts) == IsFiniteSet(ts) /\ \A t \in ts : t.amount \in Int

\* A sum of integers is an integer, and any element may be added last.
LEMMA TotalProps ==
    ASSUME NEW S, HaveAmounts(S)
    PROVE  /\ Total({}) = 0
           /\ Total(S) \in Int
           /\ \A x \in S : Total(S) = Total(S \ {x}) + x.amount
  <1> DEFINE Ok(T) == Total(T) \in Int /\ \A x \in T : Total(T) = Total(T \ {x}) + x.amount
             good == {T \in SUBSET S : Ok(T)}
  <1>0. IsFiniteSet(S) /\ \A t \in S : t.amount \in Int
    BY DEF HaveAmounts
  <1>1. ASSUME NEW T \in SUBSET S, \A U \in SUBSET T : U # T => U \in good
        PROVE  T \in good
    <2>1. IsFiniteSet(T)
      BY <1>0, FS_Subset
    <2>2. CASE T = {}
      <3>1. Total(T) = 0
        BY <2>1, <2>2, TotalStep
      <3>2. Ok(T)
        BY <2>2, <3>1
      <3>3. QED
        BY <3>2
    <2>3. CASE T # {}
      <3> DEFINE y == Some(T)
      <3>1. y \in T /\ y.amount \in Int
        BY <1>0, <2>3 DEF Some
      <3>2. Total(T) = y.amount + Total(T \ {y})
        BY <2>1, <2>3, TotalStep
      <3> HIDE DEF y
      <3>3. Ok(T \ {y})
        BY <1>1, <3>1
      <3>4. ASSUME NEW x \in T PROVE Total(T) = Total(T \ {x}) + x.amount
        <4>1. CASE x = y
          BY <3>1, <3>2, <3>3, <4>1
        <4>2. CASE x # y
          <5>1. Ok(T \ {x})
            BY <1>1
          <5>2. x \in T \ {y} /\ y \in T \ {x} /\ (T \ {y}) \ {x} = (T \ {x}) \ {y}
            BY <3>1, <4>2
          <5>3. /\ Total(T \ {y}) = Total((T \ {y}) \ {x}) + x.amount
                /\ Total(T \ {x}) = Total((T \ {y}) \ {x}) + y.amount
            BY <3>3, <5>1, <5>2
          <5>4. Ok((T \ {y}) \ {x})
            <6>1. (T \ {y}) \ {x} \in SUBSET T /\ (T \ {y}) \ {x} # T
              BY <3>1
            <6>2. QED
              BY <1>1, <6>1
          <5>5. x.amount \in Int
            BY <1>0
          <5>6. QED
            BY <3>1, <3>2, <5>3, <5>4, <5>5
        <4>3. QED
          BY <4>1, <4>2
      <3>5. Ok(T)
        BY <3>1, <3>2, <3>3, <3>4
      <3>6. QED
        BY <3>5
    <2>4. QED
      BY <2>2, <2>3
  <1>2. S \in good
    <2> HIDE DEF good
    <2>1. SUBSET S \subseteq good
      BY <1>0, <1>1, SubsetInduction
    <2>2. QED
      BY <2>1
  <1>3. Total({}) = 0
    BY FS_EmptySet, TotalStep
  <1>4. QED
    BY <1>2, <1>3

\* One element more.
LEMMA TotalAdd ==
    ASSUME NEW S, HaveAmounts(S), NEW x, x \notin S, x.amount \in Int
    PROVE  HaveAmounts(S \cup {x}) /\ Total(S \cup {x}) = Total(S) + x.amount
  <1>1. HaveAmounts(S \cup {x})
    BY FS_AddElement DEF HaveAmounts
  <1>2. (S \cup {x}) \ {x} = S
    OBVIOUS
  <1>3. QED
    BY <1>1, <1>2, TotalProps

\* Leaving out elements that are not negative does not increase the sum.
LEMMA TotalSubset ==
    ASSUME NEW S, HaveAmounts(S), \A t \in S : t.amount >= 0, NEW T \in SUBSET S
    PROVE  HaveAmounts(T) /\ Total(T) <= Total(S)
  <1> DEFINE good == {U \in SUBSET S : T \subseteq U => Total(T) <= Total(U)}
  <1>0. IsFiniteSet(S) /\ \A U \in SUBSET S : HaveAmounts(U) /\ Total(U) \in Int
    BY FS_Subset, TotalProps DEF HaveAmounts
  <1>1. ASSUME NEW U \in SUBSET S, \A V \in SUBSET U : V # U => V \in good
        PROVE  U \in good
    <2>1. SUFFICES ASSUME T \subseteq U, T # U PROVE Total(T) <= Total(U)
      BY <1>0
    <2>2. PICK x \in U : x \notin T
      BY <2>1
    <2>3. U \ {x} \in good
      BY <1>1
    <2>4. Total(U) = Total(U \ {x}) + x.amount /\ Total(U \ {x}) \in Int /\ Total(T) \in Int
      BY <1>0, TotalProps
    <2>5. x.amount \in Int /\ x.amount >= 0
      BY DEF HaveAmounts
    <2>6. QED
      BY <2>1, <2>2, <2>3, <2>4, <2>5
  <1>2. S \in good
    <2> HIDE DEF good
    <2>1. SUBSET S \subseteq good
      BY <1>0, <1>1, SubsetInduction
    <2>2. QED
      BY <2>1
  <1>3. QED
    BY <1>0, <1>2

-----------------------------------------------------------------------------
(* Balances and what the entries add up to *)

FinerThanCent(ts) == {t \in ts : t.amount % Cent # 0}

\* A balance that started at from is what the entries ts add up to, up to half
\* a cent for each that is finer than a cent.
Near(bal, from, ts) ==
    HaveAmounts(ts) /\ Abs(bal - from - Total(ts)) <= 2 * Cardinality(FinerThanCent(ts))

\* An entry more, and the balance rounded (roundMoney).
LEMMA NearAdds ==
    ASSUME NEW bal \in Money, NEW from \in Int, NEW ts, Near(bal, from, ts),
           NEW e, e \notin ts, e.amount \in Int
    PROVE  RoundMoney(bal + e.amount) \in Money /\ Near(RoundMoney(bal + e.amount), from, ts \cup {e})
  <1> DEFINE x == e.amount
             finer == FinerThanCent(ts)
             sum == Total(ts)
             new == RoundMoney(bal + x)
  <1>1. HaveAmounts(ts) /\ HaveAmounts(ts \cup {e}) /\ Total(ts \cup {e}) = sum + x /\ sum \in Int
    BY TotalAdd, TotalProps DEF Near
  <1>2. IsFiniteSet(finer) /\ Cardinality(finer) \in Nat
    BY <1>1, FS_Subset, FS_CardinalityType DEF FinerThanCent, HaveAmounts
  <1>3. bal \in Int /\ bal % Cent = 0 /\ bal + x \in Int
    BY DEF Money
  <1>4. new \in Money /\ new \in Int
    BY <1>3, RoundMoneyProps DEF Money
  <1>5. CASE x % Cent = 0
    <2>1. FinerThanCent(ts \cup {e}) = finer
      BY <1>5 DEF FinerThanCent
    <2>2. new = bal + x
      BY <1>3, <1>5 DEF RoundMoney, Cent
    <2>3. new - from - (sum + x) = bal - from - sum
      BY <1>1, <1>3, <2>2
    <2>4. QED
      BY <1>1, <1>4, <2>1, <2>3 DEF Near
  <1>6. CASE x % Cent # 0
    <2>1. FinerThanCent(ts \cup {e}) = finer \cup {e} /\ e \notin finer
      BY <1>6 DEF FinerThanCent
    <2>2. Cardinality(FinerThanCent(ts \cup {e})) = Cardinality(finer) + 1
      BY <1>2, <2>1, FS_AddElement
    <2>3. new - (bal + x) <= 2 /\ (bal + x) - new <= 2
      BY <1>3 DEF RoundMoney, Cent
    <2>4. Abs(bal - from - sum) <= 2 * Cardinality(finer)
      BY DEF Near
    <2>5. Abs(new - from - (sum + x)) <= 2 * (Cardinality(finer) + 1)
      <3> HIDE DEF x, finer, sum, new
      <3>1. x \in Int
        BY DEF x
      <3>2. QED
        BY <1>1, <1>2, <1>3, <1>4, <2>3, <2>4, <3>1 DEF Abs
    <2>6. QED
      BY <1>1, <1>4, <2>2, <2>5 DEF Near
  <1>7. QED
    BY <1>5, <1>6

\* An entry is on an account of the tenant or on none.
Own(t) == t.account \in open \cup {Nowhere}

\* A struck entry is an earlier one, so that none is booked that equals it.
NearInv ==
    /\ \A t \in Counted : Own(t)
    /\ \A t \in struck : t.seq < seq
    /\ \A a \in open : Near(balance[a], opening[a], MoneyOf(Counted, a))

\* What a step may do to the money of account b: nothing, one entry, or two.
Follows(b) ==
    /\ opening'[b] = opening[b]
    /\ \/ MoneyOf(Counted', b) = MoneyOf(Counted, b) /\ balance'[b] = balance[b]
       \/ \E e : /\ e.seq = seq /\ e.amount \in Int
                 /\ MoneyOf(Counted', b) = MoneyOf(Counted, b) \cup {e}
                 /\ balance'[b] = RoundMoney(balance[b] + e.amount)
       \/ \E d, e : /\ d.seq = seq /\ d.amount \in Int /\ e.seq = seq /\ e.amount \in Int /\ d # e
                    /\ MoneyOf(Counted', b) = MoneyOf(Counted, b) \cup {d, e}
                    /\ balance'[b] = RoundMoney(RoundMoney(balance[b] + d.amount) + e.amount)

LEMMA FollowsNear ==
    ASSUME HoldInv, \A t \in struck : t.seq < seq, NEW b \in open,
           Near(balance[b], opening[b], MoneyOf(Counted, b)), Follows(b)
    PROVE  Near(balance'[b], opening'[b], MoneyOf(Counted', b))
  <1> DEFINE S == MoneyOf(Counted, b)
  <1>1. balance[b] \in Money /\ opening[b] \in Int /\ seq \in Nat
    BY DEF HoldInv, TypeOK
  <1>2. \A t \in S : t.seq \in Nat /\ t.seq < seq
    BY DEF Counted, HoldInv, TypeOK, Txn, MoneyOf, EntriesOf
  <1>3. \A e : e.seq = seq => e \notin S
    BY <1>1, <1>2
  <1> HIDE DEF S
  <1>4. CASE MoneyOf(Counted', b) = S /\ balance'[b] = balance[b]
    BY <1>4 DEF S, Follows
  <1>5. ASSUME NEW e, e.seq = seq, e.amount \in Int, MoneyOf(Counted', b) = S \cup {e},
               balance'[b] = RoundMoney(balance[b] + e.amount)
        PROVE  Near(balance'[b], opening'[b], MoneyOf(Counted', b))
    <2>1. Near(RoundMoney(balance[b] + e.amount), opening[b], S \cup {e})
      BY <1>1, <1>3, <1>5, NearAdds DEF S
    <2>2. QED
      BY <1>5, <2>1 DEF Follows
  <1>6. ASSUME NEW d, NEW e, d.seq = seq, d.amount \in Int, e.seq = seq, e.amount \in Int, d # e,
               MoneyOf(Counted', b) = S \cup {d, e},
               balance'[b] = RoundMoney(RoundMoney(balance[b] + d.amount) + e.amount)
        PROVE  Near(balance'[b], opening'[b], MoneyOf(Counted', b))
    <2> DEFINE bal == RoundMoney(balance[b] + d.amount)
    <2>1. bal \in Money /\ Near(bal, opening[b], S \cup {d})
      BY <1>1, <1>3, <1>6, NearAdds DEF S
    <2>2. e \notin S \cup {d}
      BY <1>3, <1>6
    <2>3. balance'[b] = RoundMoney(bal + e.amount)
      BY <1>6
    <2> HIDE DEF bal
    <2>4. Near(RoundMoney(bal + e.amount), opening[b], (S \cup {d}) \cup {e})
      BY <1>1, <1>6, <2>1, <2>2, NearAdds
    <2>5. (S \cup {d}) \cup {e} = S \cup {d, e}
      OBVIOUS
    <2>6. QED
      BY <1>6, <2>3, <2>4, <2>5 DEF Follows
  <1>7. QED
    BY <1>4, <1>5, <1>6 DEF Follows, S

\* Entries that leave every account's money alone, or follow its balance.
LEMMA NearKept ==
    ASSUME HoldInv, NearInv, open' = open, struck' = struck, seq' \in {seq, seq + 1}, \A b \in open : Follows(b),
           \A t \in txns' : \/ \E u \in txns : u.account = t.account
                            \/ Own(t)
    PROVE  NearInv'
  <1>1. \A t \in txns' : Own(t)
    BY DEF NearInv, Own, Counted
  <1>2. \A t \in Counted' : Own(t)'
    BY <1>1 DEF NearInv, Own, Counted
  <1>3. \A t \in struck' : t.seq < seq'
    <2>1. seq \in Int /\ \A t \in struck : t.seq \in Int /\ t.seq < seq
      BY DEF HoldInv, TypeOK, Txn, NearInv
    <2>2. QED
      BY <2>1
  <1>4. \A b \in open : Near(balance'[b], opening'[b], MoneyOf(Counted', b))
    BY FollowsNear DEF NearInv
  <1>5. QED
    BY <1>2, <1>3, <1>4 DEF NearInv

Elsewhere(a) == \A b \in open : opening'[b] = opening[b] /\ (b # a => balance'[b] = balance[b])

\* One credit or debit, which may use up a hold.
LEMMA NearOne ==
    ASSUME HoldInv, NearInv, open' = open, struck' = struck, seq' \in {seq, seq + 1}, NEW a \in open, NEW e, Own(e),
           e.account = a, e.type \in {"credit", "debit"}, e.seq = seq, e.amount \in Int,
           \/ txns' = txns \cup {e}
           \/ \E h \in txns : h.type = "hold" /\ txns' = (txns \ {h}) \cup {Reversed(h), e},
           Elsewhere(a), balance'[a] = RoundMoney(balance[a] + e.amount)
    PROVE  NearInv'
  <1>1. ASSUME NEW h \in txns, h.type = "hold"
        PROVE  Reversed(h).account = h.account /\ Reversed(h).type = "hold"
    BY <1>1 DEF Reversed, HoldInv, TypeOK, Txn
  <1>2. MoneyOf(Counted', a) = MoneyOf(Counted, a) \cup {e} /\ \A b \in open : b # a => MoneyOf(Counted', b) = MoneyOf(Counted, b)
    <2>1. CASE txns' = txns \cup {e}
      BY <2>1 DEF Counted, MoneyOf, EntriesOf
    <2>2. ASSUME NEW h \in txns, h.type = "hold", txns' = (txns \ {h}) \cup {Reversed(h), e}
          PROVE  MoneyOf(Counted', a) = MoneyOf(Counted, a) \cup {e} /\ \A b \in open : b # a => MoneyOf(Counted', b) = MoneyOf(Counted, b)
      BY <1>1, <2>2 DEF Counted, MoneyOf, EntriesOf
    <2>3. QED
      BY <2>1, <2>2
  <1>3. \A b \in open : Follows(b)
    BY <1>2 DEF Follows, Elsewhere
  <1>4. \A t \in txns' : (\E u \in txns : u.account = t.account) \/ Own(t)
    BY <1>1
  <1>5. QED
    BY <1>3, <1>4, NearKept

\* A hold or a release.
LEMMA NearHold ==
    ASSUME HoldInv, NearInv, open' = open, seq' \in {seq, seq + 1}, NEW e, Own(e), e.type \in {"hold", "release"},
           \/ txns' = txns \cup {e}
           \/ \E h \in txns : h.type = "hold" /\ txns' = (txns \ {h}) \cup {Reversed(h), e},
           UNCHANGED <<balance, opening, struck>>
    PROVE  NearInv'
  <1>1. ASSUME NEW h \in txns, h.type = "hold"
        PROVE  Reversed(h).account = h.account /\ Reversed(h).type = "hold"
    BY <1>1 DEF Reversed, HoldInv, TypeOK, Txn
  <1>2. \A b \in open : MoneyOf(Counted', b) = MoneyOf(Counted, b)
    <2>1. CASE txns' = txns \cup {e}
      BY <2>1 DEF Counted, MoneyOf, EntriesOf
    <2>2. ASSUME NEW h \in txns, h.type = "hold", txns' = (txns \ {h}) \cup {Reversed(h), e}
          PROVE  \A b \in open : MoneyOf(Counted', b) = MoneyOf(Counted, b)
      BY <1>1, <2>2 DEF Counted, MoneyOf, EntriesOf
    <2>3. QED
      BY <2>1, <2>2
  <1>3. \A b \in open : Follows(b)
    BY <1>2 DEF Follows
  <1>4. \A t \in txns' : (\E u \in txns : u.account = t.account) \/ Own(t)
    BY <1>1
  <1>5. QED
    BY <1>3, <1>4, NearKept

\* A transfer: a debit, a credit, or one of each on the same account.
LEMMA NearTransfer ==
    ASSUME HoldInv, NearInv, NEW type, NEW amt \in Int, amt # 0, NEW from \in open, NEW to \in open \cup {Nowhere, NoOne},
           CreateTenantTransfer(type, amt, from, to)
    PROVE  NearInv'
  <1> DEFINE ref == Ref("transfer", NoOne, seq)
             status == IF type = "internal" THEN "posted" ELSE "pending"
             d == Entry(from, "debit", -amt, status, ref, "transfer", 0)
             c == Entry(to, "credit", amt, status, ref, "transfer", 0)
             new == {d} \cup {Entry(a, "credit", amt, status, ref, "transfer", 0) : a \in {to} \ {NoOne}}
  <1>0. /\ open \subseteq Accounts /\ balance \in [Accounts -> Money] /\ NoOne \notin Accounts
        /\ Nowhere \notin Accounts /\ NoOne # Nowhere
    BY LedgerAssumption DEF HoldInv, TypeOK
  <1>1. /\ txns' = txns \cup new /\ open' = open /\ opening' = opening /\ struck' = struck /\ seq' = seq + 1
        /\ balance' = IF to \in open THEN Credit(Debit(balance, from, amt), to, amt) ELSE Debit(balance, from, amt)
    BY DEF CreateTenantTransfer, Book
  <1>2. /\ d.account = from /\ d.type = "debit" /\ d.amount = -amt /\ d.seq = seq
        /\ c.account = to /\ c.type = "credit" /\ c.amount = amt /\ c.seq = seq /\ -amt \in Int
    BY DEF Entry
  <1>4. new = IF to = NoOne THEN {d} ELSE {d, c}
    OBVIOUS
  <1> HIDE DEF d, c, new
  <1>5. \A t \in new : Own(t)
    BY <1>0, <1>2, <1>4 DEF Own
  <1>6. ASSUME NEW b \in open PROVE Follows(b)
    <2>1. b \in Accounts /\ balance[b] \in Int /\ balance[from] - amt = balance[from] + d.amount
      BY <1>0, <1>2 DEF Money
    <2>2. CASE b = from /\ b = to
      <3>1. MoneyOf(Counted', b) = MoneyOf(Counted, b) \cup {d, c} /\ d # c
        BY <1>0, <1>1, <1>2, <1>4, <2>2 DEF Counted, MoneyOf, EntriesOf
      <3>2. balance'[b] = RoundMoney(RoundMoney(balance[b] + d.amount) + c.amount)
        BY <1>0, <1>1, <1>2, <2>1, <2>2 DEF Debit, Credit
      <3>3. QED
        BY <1>1, <1>2, <3>1, <3>2 DEF Follows
    <2>3. CASE b = from /\ b # to
      <3>1. MoneyOf(Counted', b) = MoneyOf(Counted, b) \cup {d}
        BY <1>1, <1>2, <1>4, <2>3 DEF Counted, MoneyOf, EntriesOf
      <3>2. balance'[b] = RoundMoney(balance[b] + d.amount)
        BY <1>0, <1>1, <2>1, <2>3 DEF Debit, Credit
      <3>3. QED
        BY <1>1, <1>2, <3>1, <3>2 DEF Follows
    <2>4. CASE b # from /\ b = to
      <3>1. MoneyOf(Counted', b) = MoneyOf(Counted, b) \cup {c}
        BY <1>0, <1>1, <1>2, <1>4, <2>1, <2>4 DEF Counted, MoneyOf, EntriesOf
      <3>2. balance'[b] = RoundMoney(balance[b] + c.amount)
        BY <1>0, <1>1, <1>2, <2>1, <2>4 DEF Debit, Credit
      <3>3. QED
        BY <1>1, <1>2, <3>1, <3>2 DEF Follows
    <2>5. CASE b # from /\ b # to
      <3>1. MoneyOf(Counted', b) = MoneyOf(Counted, b)
        BY <1>1, <1>2, <1>4, <2>5 DEF Counted, MoneyOf, EntriesOf
      <3>2. balance'[b] = balance[b]
        BY <1>0, <1>1, <2>1, <2>5 DEF Debit, Credit
      <3>3. QED
        BY <1>1, <3>1, <3>2 DEF Follows
    <2>6. QED
      BY <2>2, <2>3, <2>4, <2>5
  <1>7. QED
    BY <1>1, <1>5, <1>6, NearKept

\* Nothing on the books: the balance is where it started.
LEMMA NearEmpty == ASSUME NEW bal \in Int PROVE Near(bal, bal, {})
  <1>1. HaveAmounts({}) /\ Total({}) = 0
    BY FS_EmptySet, TotalProps DEF HaveAmounts
  <1>2. FinerThanCent({}) = {} /\ Cardinality(FinerThanCent({})) = 0
    BY FS_EmptySet DEF FinerThanCent
  <1>3. bal - bal - 0 = 0
    OBVIOUS
  <1>4. QED
    BY <1>1, <1>2, <1>3 DEF Near, Abs

\* Whole cents add up to whole cents, and need no rounding.
LEMMA MoneySum ==
    ASSUME NEW m \in Money, NEW n \in Money
    PROVE  m + n \in Money /\ RoundMoney(m + n) = m + n
  <1>1. m \in Int /\ n \in Int /\ m % Cent = 0 /\ n % Cent = 0
    BY DEF Money
  <1>2. m + n \in Int /\ (m + n) % Cent = 0
    BY <1>1 DEF Cent
  <1>3. RoundMoney(m + n) = m + n
    BY <1>2 DEF RoundMoney, Cent
  <1>4. QED
    BY <1>2, <1>3 DEF Money

\* The seed entries of an account, on a balance of whole cents.
LEMMA NearSeed ==
    ASSUME HoldInv, NEW a \in Accounts, NEW bal \in Money
    PROVE  Near(RoundMoney(bal + SeedNet), bal, SeedEntries(a))
  <1> DEFINE E(n) == Entry(a, IF n = 1 THEN "credit" ELSE "debit", SeedAmount[n], "posted", Ref("seed", a, n), "seed", 0)
  <1>1. \A n \in 1..3 : E(n).amount = SeedAmount[n] /\ E(n).ref.n = n /\ SeedAmount[n] \in Money
    BY DEF Entry, Ref, SeedAmount, Money, Cent
  <1>2. SeedEntries(a) = (({} \cup {E(1)}) \cup {E(2)}) \cup {E(3)}
    BY DEF SeedEntries
  <1>3. /\ E(1).amount = SeedAmount[1] /\ E(2).amount = SeedAmount[2] /\ E(3).amount = SeedAmount[3]
        /\ E(1).ref.n = 1 /\ E(2).ref.n = 2 /\ E(3).ref.n = 3
        /\ SeedAmount[1] \in Money /\ SeedAmount[2] \in Money /\ SeedAmount[3] \in Money
    BY <1>1
  <1> DEFINE e == E(1)
             f == E(2)
             g == E(3)
  <1>4. /\ e.amount \in Money /\ f.amount \in Money /\ g.amount \in Money /\ e # f /\ e # g /\ f # g
        /\ SeedNet = e.amount + f.amount + g.amount /\ SeedEntries(a) = (({} \cup {e}) \cup {f}) \cup {g}
    BY <1>2, <1>3 DEF SeedNet
  <1> HIDE DEF e, f, g
  <1> DEFINE b1 == bal + e.amount
             b2 == b1 + f.amount
             b3 == b2 + g.amount
  <1>5. /\ b1 \in Money /\ RoundMoney(bal + e.amount) = b1 /\ bal \in Int
        /\ e.amount \in Int /\ f.amount \in Int /\ g.amount \in Int
    BY <1>4, MoneySum DEF Money
  <1>6. b2 \in Money /\ RoundMoney(b1 + f.amount) = b2
    <2> HIDE DEF b1
    <2>1. QED
      BY <1>4, <1>5, MoneySum
  <1>7. b3 \in Money /\ RoundMoney(b2 + g.amount) = b3
    <2> HIDE DEF b2
    <2>1. QED
      BY <1>4, <1>6, MoneySum
  <1>8. Near(b3, bal, (({} \cup {e}) \cup {f}) \cup {g})
    <2>1. Near(bal, bal, {})
      BY <1>5, NearEmpty
    <2>2. e \notin {} /\ f \notin {} \cup {e} /\ g \notin ({} \cup {e}) \cup {f}
      BY <1>4
    <2> HIDE DEF b1, b2, b3
    <2>3. Near(b1, bal, {} \cup {e})
      <3>1. Near(RoundMoney(bal + e.amount), bal, {} \cup {e})
        BY <1>5, <2>1, <2>2, NearAdds
      <3>2. QED
        BY <1>5, <3>1
    <2>4. Near(b2, bal, ({} \cup {e}) \cup {f})
      <3>1. Near(RoundMoney(b1 + f.amount), bal, ({} \cup {e}) \cup {f})
        BY <1>5, <2>2, <2>3, NearAdds
      <3>2. QED
        BY <1>6, <3>1
    <2>5. Near(RoundMoney(b2 + g.amount), bal, (({} \cup {e}) \cup {f}) \cup {g})
      BY <1>5, <1>6, <2>2, <2>4, NearAdds
    <2>6. QED
      BY <1>7, <2>5
  <1>9. bal + SeedNet = b2 + g.amount
    BY <1>4, <1>5
  <1> HIDE DEF b2, b3
  <1>10. QED
    BY <1>4, <1>7, <1>8, <1>9

\* A seed or a reset of account a leaves the money of the others alone: what
\* it takes off their books is struck, and still counted.
LEMMA NearCleared ==
    ASSUME HoldInv, NearInv, open' = open, NEW a \in open, NEW new, Strike(a), seq' \in {seq, seq + 1},
           \A e \in new : Own(e) /\ e.account = a /\ e.type \in {"credit", "debit"},
           txns' = KeptTxns(a) \cup new, \A b \in open : b # a => balance'[b] = balance[b] /\ opening'[b] = opening[b],
           Near(balance'[a], opening'[a], new)
    PROVE  NearInv'
  <1>1. MoneyOf(Counted', a) = new
    BY DEF Counted, MoneyOf, EntriesOf, KeptTxns, Strike
  <1>2. ASSUME NEW b \in open, b # a PROVE MoneyOf(Counted', b) = MoneyOf(Counted, b)
    BY <1>2 DEF Counted, MoneyOf, EntriesOf, KeptTxns, Strike
  <1>3. \A b \in open : Near(balance'[b], opening'[b], MoneyOf(Counted', b))
    <2> TAKE b \in open
    <2>1. CASE b = a
      BY <1>1, <2>1
    <2>2. CASE b # a
      BY <1>2, <2>2 DEF NearInv
    <2>3. QED
      BY <2>1, <2>2
  <1>4. \A t \in Counted' : Own(t)'
    BY DEF Counted, KeptTxns, Strike, NearInv, Own
  <1>5. \A t \in struck' : t.seq < seq'
    <2>1. seq \in Int /\ \A t \in struck \cup txns : t.seq \in Int /\ t.seq < seq
      BY DEF HoldInv, TypeOK, Txn, NearInv
    <2>2. QED
      BY <2>1 DEF Strike
  <1>6. QED
    BY <1>3, <1>4, <1>5 DEF NearInv

\* The mock data.
LEMMA BaselineNear ==
  /\ \A a \in BaselineAccounts : Near(BaselineBalance[a], BaselineOpening[a], MoneyOf(BaselineTxns, a))
  /\ \A t \in BaselineTxns : t.account \in BaselineAccounts
  <1>1. ASSUME NEW a \in BaselineAccounts
        PROVE  Near(BaselineBalance[a], BaselineOpening[a], MoneyOf(BaselineTxns, a))
    <2> DEFINE S == MoneyOf(BaselineTxns, a)
    <2>1. IsFiniteSet(S) /\ \A t \in S : t.amount \in Int
      <3>1. S \subseteq BaselineTxns /\ BaselineTxns \subseteq Txn /\ IsFiniteSet(BaselineTxns)
        BY LedgerAssumption DEF MoneyOf, EntriesOf
      <3>2. QED
        BY <3>1, FS_Subset DEF Txn
    <2>2. /\ BaselineOpening[a] = BaselineBalance[a] - Total(S) /\ BaselineBalance[a] \in Int
      BY LedgerAssumption DEF Booked, Money
    <2> HIDE DEF S
    <2>3. HaveAmounts(S) /\ Total(S) \in Int
      BY <2>1, TotalProps DEF HaveAmounts
    <2>4. Cardinality(FinerThanCent(S)) \in Nat
      BY <2>1, FS_Subset, FS_CardinalityType DEF FinerThanCent
    <2>5. BaselineBalance[a] - BaselineOpening[a] - Total(S) = 0
      BY <2>2, <2>3
    <2>6. QED
      BY <2>3, <2>4, <2>5 DEF Near, Abs, S
  <1>2. QED
    BY <1>1, LedgerAssumption

LEMMA NearStep == HoldInv /\ NearInv /\ [Next]_vars => NearInv'
  <1> SUFFICES ASSUME HoldInv, NearInv, [Next]_vars PROVE NearInv'
    OBVIOUS
  <1>a. /\ open \subseteq Accounts /\ seq \in Nat /\ balance \in [Accounts -> Money] /\ opening \in [Accounts -> Int]
        /\ txns \subseteq Txn
    BY DEF HoldInv, TypeOK
  <1>b. /\ TransferAmounts \subseteq Int /\ CardAmounts \subseteq Int /\ 0 \notin TransferAmounts
        /\ \A amt \in TransferAmounts \cup CardAmounts : -amt \in Int
        /\ NoOne \notin Accounts /\ BaselineAccounts \subseteq Accounts
    BY LedgerAssumption
  <1>d. ASSUME NEW a \in open, NEW amt \in Int
        PROVE  /\ \A b \in open : b # a => Debit(balance, a, amt)[b] = balance[b] /\ Credit(balance, a, amt)[b] = balance[b]
               /\ Debit(balance, a, amt)[a] = RoundMoney(balance[a] + (-amt))
               /\ Credit(balance, a, amt)[a] = RoundMoney(balance[a] + amt)
    <2>1. balance[a] \in Int /\ balance[a] - amt = balance[a] + (-amt)
      BY <1>a DEF Money
    <2>2. QED
      BY <1>a, <2>1 DEF Debit, Credit
  <1>1. CASE InternalTransfer \/ ExternalTransfer \/ LoanOnboardingFunding
    BY <1>1, <1>b, NearTransfer DEF InternalTransfer, ExternalTransfer, LoanOnboardingFunding
  <1>2. CASE SimulateIncomingRailTransfer
    <2>1. PICK a \in open, amt \in TransferAmounts :
             /\ txns' = txns \cup {Entry(a, "credit", amt, "posted", Ref("transfer", NoOne, seq), "transfer", 0)}
             /\ balance' = Credit(balance, a, amt) /\ UNCHANGED <<open, opening, struck>> /\ seq' = seq + 1
      BY <1>2 DEF SimulateIncomingRailTransfer, Book
    <2> DEFINE e == Entry(a, "credit", amt, "posted", Ref("transfer", NoOne, seq), "transfer", 0)
    <2>2. /\ e.account = a /\ e.type = "credit" /\ e.seq = seq /\ e.amount = amt
      BY DEF Entry
    <2>3. Own(e) /\ Elsewhere(a)
      BY <1>b, <1>d, <2>1, <2>2 DEF Own, Elsewhere
    <2>4. txns' = txns \cup {e}
      BY <2>1
    <2> HIDE DEF e
    <2>5. balance'[a] = RoundMoney(balance[a] + e.amount) /\ e.amount \in Int
      BY <1>b, <1>d, <2>1, <2>2
    <2>6. QED
      BY <2>1, <2>2, <2>3, <2>4, <2>5, NearOne
  <1>3. ASSUME NEW a \in open, NEW amt \in TransferAmounts, NEW status, SimulateOutgoing(a, amt, status)
        PROVE  NearInv'
    <2>1. /\ txns' = txns \cup {Entry(a, "debit", -amt, "posted", Ref("transfer", NoOne, seq), "transfer", 0)}
          /\ balance' = Debit(balance, a, amt) /\ UNCHANGED <<open, opening, struck>> /\ seq' = seq + 1
      BY <1>3 DEF SimulateOutgoing, Book
    <2> DEFINE e == Entry(a, "debit", -amt, "posted", Ref("transfer", NoOne, seq), "transfer", 0)
    <2>2. /\ e.account = a /\ e.type = "debit" /\ e.seq = seq /\ e.amount = -amt
      BY DEF Entry
    <2>3. Own(e) /\ Elsewhere(a)
      BY <1>b, <1>d, <2>1, <2>2 DEF Own, Elsewhere
    <2>4. txns' = txns \cup {e}
      BY <2>1
    <2> HIDE DEF e
    <2>5. balance'[a] = RoundMoney(balance[a] + e.amount) /\ e.amount \in Int
      BY <1>b, <1>d, <2>1, <2>2
    <2>6. QED
      BY <2>1, <2>2, <2>3, <2>4, <2>5, NearOne
  <1>4. CASE SimulateOutgoingAchTransfer \/ CreateOutgoingWire
    BY <1>3, <1>4 DEF SimulateOutgoingAchTransfer, CreateOutgoingWire
  <1>5. CASE UpdateTenantTransfer \/ DeleteTenantTransfer \/ UpsertYieldConfig \/ UNCHANGED vars
    <2>1. UNCHANGED <<open, balance, txns, seq, opening, struck>>
      BY <1>5 DEF UpdateTenantTransfer, DeleteTenantTransfer, UpsertYieldConfig, vars
    <2>2. QED
      BY <2>1, NearKept DEF Follows, Counted
  <1>6. CASE CardAuthorization
    <2>1. PICK a \in open, amt \in CardAmounts :
             \E ref \in ClientRefs(a) \cup {Ref("card", NoOne, seq)} :
                /\ txns' = txns \cup {Entry(a, "hold", -amt, "pending", ref, "card", 0)}
                /\ UNCHANGED <<open, balance, opening, struck>> /\ seq' = seq + 1
      BY <1>6 DEF CardAuthorization, Book
    <2>2. PICK ref \in ClientRefs(a) \cup {Ref("card", NoOne, seq)} :
                /\ txns' = txns \cup {Entry(a, "hold", -amt, "pending", ref, "card", 0)}
                /\ UNCHANGED <<open, balance, opening, struck>> /\ seq' = seq + 1
      BY <2>1
    <2> DEFINE e == Entry(a, "hold", -amt, "pending", ref, "card", 0)
    <2>3. e.account = a /\ e.type = "hold"
      BY DEF Entry
    <2>4. Own(e)
      BY <2>3 DEF Own
    <2>5. txns' = txns \cup {e}
      BY <2>2
    <2> HIDE DEF e
    <2>6. QED
      BY <2>2, <2>3, <2>4, <2>5, NearHold
  <1>7. CASE CardVoid
    <2>1. PICK a \in open : \E ref \in ClientRefs(a) : \E h \in txns :
             /\ h.type = "hold"
             /\ txns' = (txns \ {h}) \cup {Reversed(h), Entry(a, "release", Abs(h.amount), "posted", ref, "card", h.seq)}
             /\ UNCHANGED <<open, balance, opening, struck>> /\ seq' = seq + 1
      BY <1>7 DEF CardVoid, PendingHolds, EntriesOf
    <2>2. PICK ref \in ClientRefs(a), h \in txns :
             /\ h.type = "hold"
             /\ txns' = (txns \ {h}) \cup {Reversed(h), Entry(a, "release", Abs(h.amount), "posted", ref, "card", h.seq)}
             /\ UNCHANGED <<open, balance, opening, struck>> /\ seq' = seq + 1
      BY <2>1
    <2> DEFINE e == Entry(a, "release", Abs(h.amount), "posted", ref, "card", h.seq)
    <2>3. e.account = a /\ e.type = "release"
      BY DEF Entry
    <2>4. Own(e)
      BY <2>3 DEF Own
    <2>5. txns' = (txns \ {h}) \cup {Reversed(h), e}
      BY <2>2
    <2> HIDE DEF e
    <2>6. QED
      BY <2>2, <2>3, <2>4, <2>5, NearHold
  <1>8. CASE CardRefund
    <2>1. PICK a \in open, amt \in CardAmounts : \E ref \in ClientRefs(a) : \E d \in txns :
             /\ txns' = txns \cup {Entry(a, "credit", Lesser(amt, Abs(d.amount)), "posted", ref, "refund", 0)}
             /\ balance' = Credit(balance, a, Lesser(amt, Abs(d.amount))) /\ UNCHANGED <<open, opening, struck>> /\ seq' = seq + 1
      BY <1>8 DEF CardRefund, PostedDebits, EntriesOf, Book
    <2>2. PICK ref \in ClientRefs(a), d \in txns :
             /\ txns' = txns \cup {Entry(a, "credit", Lesser(amt, Abs(d.amount)), "posted", ref, "refund", 0)}
             /\ balance' = Credit(balance, a, Lesser(amt, Abs(d.amount))) /\ UNCHANGED <<open, opening, struck>> /\ seq' = seq + 1
      BY <2>1
    <2> DEFINE back == Lesser(amt, Abs(d.amount))
               e == Entry(a, "credit", back, "posted", ref, "refund", 0)
    <2>3. back \in Int
      BY <1>a, <1>b DEF Txn, Lesser, Abs
    <2>4. /\ e.account = a /\ e.type = "credit" /\ e.seq = seq /\ e.amount = back
      BY DEF Entry
    <2>5. txns' = txns \cup {e} /\ balance' = Credit(balance, a, back)
      BY <2>2
    <2> HIDE DEF back, e
    <2>6. Own(e) /\ Elsewhere(a)
      BY <1>d, <2>2, <2>3, <2>4, <2>5 DEF Own, Elsewhere
    <2>7. balance'[a] = RoundMoney(balance[a] + e.amount)
      BY <1>d, <2>3, <2>4, <2>5
    <2>8. QED
      BY <2>2, <2>3, <2>4, <2>5, <2>6, <2>7, NearOne
  <1>9. CASE CardCapture
    <2>1. PICK a \in open, amt \in CardAmounts : \E ref \in ClientRefs(a) : \E h \in txns :
             /\ h.type = "hold"
             /\ txns' = (txns \ {h}) \cup {Reversed(h), Entry(a, "debit", -amt, "posted", ref, "card", h.seq)}
             /\ balance' = Debit(balance, a, amt) /\ UNCHANGED <<open, opening, struck>> /\ seq' = seq + 1
      BY <1>9 DEF CardCapture, PendingHolds, EntriesOf
    <2>2. PICK ref \in ClientRefs(a), h \in txns :
             /\ h.type = "hold"
             /\ txns' = (txns \ {h}) \cup {Reversed(h), Entry(a, "debit", -amt, "posted", ref, "card", h.seq)}
             /\ balance' = Debit(balance, a, amt) /\ UNCHANGED <<open, opening, struck>> /\ seq' = seq + 1
      BY <2>1
    <2> DEFINE e == Entry(a, "debit", -amt, "posted", ref, "card", h.seq)
    <2>3. /\ e.account = a /\ e.type = "debit" /\ e.seq = seq /\ e.amount = -amt
      BY DEF Entry
    <2>4. txns' = (txns \ {h}) \cup {Reversed(h), e}
      BY <2>2
    <2> HIDE DEF e
    <2>5. Own(e) /\ Elsewhere(a)
      BY <1>b, <1>d, <2>2, <2>3 DEF Own, Elsewhere
    <2>6. balance'[a] = RoundMoney(balance[a] + e.amount) /\ e.amount \in Int
      BY <1>b, <1>d, <2>2, <2>3
    <2>7. QED
      BY <2>2, <2>3, <2>4, <2>5, <2>6, NearOne
  <1>10. CASE CardPost
    <2>1. PICK a \in open, amt \in CardAmounts :
             /\ txns' = txns \cup {Entry(a, "debit", -amt, "posted", Ref("card", NoOne, seq), "card", 0)}
             /\ balance' = Debit(balance, a, amt) /\ UNCHANGED <<open, opening, struck>> /\ seq' = seq + 1
      BY <1>10 DEF CardPost, Book
    <2> DEFINE e == Entry(a, "debit", -amt, "posted", Ref("card", NoOne, seq), "card", 0)
    <2>2. /\ e.account = a /\ e.type = "debit" /\ e.seq = seq /\ e.amount = -amt
      BY DEF Entry
    <2>3. Own(e) /\ Elsewhere(a)
      BY <1>b, <1>d, <2>1, <2>2 DEF Own, Elsewhere
    <2>4. txns' = txns \cup {e}
      BY <2>1
    <2> HIDE DEF e
    <2>5. balance'[a] = RoundMoney(balance[a] + e.amount) /\ e.amount \in Int
      BY <1>b, <1>d, <2>1, <2>2
    <2>6. QED
      BY <2>1, <2>2, <2>3, <2>4, <2>5, NearOne
  <1>11. CASE CreateTenantAccount
    <2>1. PICK a \in Accounts \ (open \cup BaselineAccounts), amt \in TransferAmounts \cup {0} :
             /\ txns' = txns \cup (IF RoundMoney(amt) > 0
                          THEN {Entry(a, "credit", RoundMoney(amt), "posted", Ref("opening", a, 0), "opening", 0)}
                          ELSE {})
             /\ open' = open \cup {a}
             /\ balance' = [balance EXCEPT ![a] = RoundMoney(amt)]
             /\ opening' = [opening EXCEPT ![a] = 0]
             /\ struck' = struck /\ seq' = seq + 1
      BY <1>11 DEF CreateTenantAccount, Book
    <2> DEFINE start == RoundMoney(amt)
               e == Entry(a, "credit", start, "posted", Ref("opening", a, 0), "opening", 0)
    <2>2. start \in Money /\ start \in Int /\ 0 \in Money /\ start >= 0
      <3>1. amt \in Nat
        BY LedgerAssumption
      <3>2. RoundMoney(amt) >= 0
        BY <3>1 DEF RoundMoney, Cent
      <3>3. QED
        BY <3>1, <3>2, RoundMoneyProps DEF Money, Cent
    <2>3. e.account = a /\ e.type = "credit" /\ e.amount = start
      BY DEF Entry
    <2>4. txns' = txns \cup (IF start > 0 THEN {e} ELSE {})
      BY <2>1
    <2>5. balance' = [balance EXCEPT ![a] = start]
      BY <2>1
    <2> HIDE DEF start, e
    <2>6. MoneyOf(Counted, a) = {} /\ a # Nowhere
      BY LedgerAssumption DEF Counted, MoneyOf, EntriesOf, NearInv, Own
    <2>7. MoneyOf(Counted', a) = IF start > 0 THEN {e} ELSE {}
      BY <2>1, <2>3, <2>4, <2>6 DEF Counted, MoneyOf, EntriesOf
    <2>8. Near(start, 0, MoneyOf(Counted', a))
      <3>1. Near(0, 0, {})
        BY NearEmpty
      <3>2. Near(RoundMoney(0 + e.amount), 0, {} \cup {e})
        <4>1. e.amount \in Int /\ e \notin {} /\ 0 \in Int /\ 0 \in Money
          BY <2>2, <2>3
        <4>2. QED
          BY <3>1, <4>1, NearAdds
      <3>3. RoundMoney(0 + e.amount) = start /\ {} \cup {e} = {e}
        BY <2>2, <2>3, RoundMoneyProps
      <3>4. CASE start > 0
        BY <2>7, <3>2, <3>3, <3>4
      <3>5. CASE ~(start > 0)
        <4>1. start = 0
          BY <2>2, <3>5
        <4>2. QED
          BY <2>7, <3>1, <3>5, <4>1
      <3>6. QED
        BY <3>4, <3>5
    <2>9. ASSUME NEW b \in open' PROVE Near(balance'[b], opening'[b], MoneyOf(Counted', b))
      <3>1. CASE b = a
        <4>1. balance'[a] = start /\ opening'[a] = 0
          BY <1>a, <2>1, <2>5
        <4>2. QED
          BY <2>8, <3>1, <4>1
      <3>2. CASE b # a
        <4>1. b \in open /\ balance'[b] = balance[b] /\ opening'[b] = opening[b]
          BY <1>a, <2>1, <2>5, <3>2
        <4>2. MoneyOf(Counted', b) = MoneyOf(Counted, b)
          BY <2>1, <2>3, <2>4, <3>2 DEF Counted, MoneyOf, EntriesOf
        <4>3. QED
          BY <4>1, <4>2 DEF NearInv
      <3>3. QED
        BY <3>1, <3>2
    <2>10. ASSUME NEW t \in Counted' PROVE Own(t)'
      <3>1. CASE t \in Counted
        BY <2>1, <3>1 DEF NearInv, Own
      <3>2. CASE t = e
        BY <2>1, <2>3, <3>2 DEF Own
      <3>3. QED
        BY <2>1, <2>4, <3>1, <3>2 DEF Counted
    <2>11. \A t \in struck' : t.seq < seq'
      <3>1. \A t \in struck : t.seq \in Int /\ t.seq < seq
        BY DEF HoldInv, TypeOK, Txn, NearInv
      <3>2. QED
        BY <1>a, <2>1, <3>1
    <2>12. QED
      BY <2>9, <2>10, <2>11 DEF NearInv
  <1>12. CASE SeedTenantAccountData
    <2>1. PICK a \in open :
             LET bal == IF a \in BaselineAccounts THEN BaselineBalance[a] ELSE balance[a]
             IN  /\ txns' = KeptTxns(a) \cup SeedEntries(a)
                 /\ balance' = Credit([balance EXCEPT ![a] = bal], a, SeedNet)
                 /\ opening' = [opening EXCEPT ![a] = bal]
                 /\ open' = open /\ seq' = seq + 1 /\ Strike(a)
      BY <1>12 DEF SeedTenantAccountData
    <2> DEFINE bal == IF a \in BaselineAccounts THEN BaselineBalance[a] ELSE balance[a]
    <2>2. bal \in Money /\ a \in Accounts
      BY <1>a, LedgerAssumption
    <2>3. balance' = Credit([balance EXCEPT ![a] = bal], a, SeedNet) /\ opening' = [opening EXCEPT ![a] = bal]
      BY <2>1
    <2> HIDE DEF bal
    <2>4. /\ balance'[a] = RoundMoney(bal + SeedNet) /\ opening'[a] = bal
          /\ \A b \in open : b # a => balance'[b] = balance[b] /\ opening'[b] = opening[b]
      BY <1>a, <2>3 DEF Credit
    <2>5. Near(balance'[a], opening'[a], SeedEntries(a))
      BY <2>2, <2>4, NearSeed
    <2>6. \A e \in SeedEntries(a) : Own(e) /\ e.account = a /\ e.type \in {"credit", "debit"}
      BY DEF SeedEntries, Entry, Own
    <2> DEFINE new == SeedEntries(a)
    <2>7. txns' = KeptTxns(a) \cup new /\ open' = open /\ seq' = seq + 1 /\ Strike(a)
      BY <2>1
    <2> HIDE DEF new
    <2>8. QED
      BY <2>4, <2>5, <2>6, <2>7, NearCleared DEF new
  <1>13. CASE ResetTenantAccountData
    <2>1. PICK a \in open :
             /\ txns' = KeptTxns(a)
             /\ balance' = [balance EXCEPT ![a] = IF a \in BaselineAccounts THEN BaselineBalance[a] ELSE 0]
             /\ opening' = [opening EXCEPT ![a] = IF a \in BaselineAccounts THEN BaselineBalance[a] ELSE 0]
             /\ open' = open /\ seq' = seq /\ Strike(a)
      BY <1>13 DEF ResetTenantAccountData
    <2>2. /\ balance'[a] = opening'[a] /\ opening'[a] \in Int
          /\ \A b \in open : b # a => balance'[b] = balance[b] /\ opening'[b] = opening[b]
      BY <1>a, <2>1, LedgerAssumption DEF Money
    <2>3. Near(balance'[a], opening'[a], {})
      BY <2>2, NearEmpty
    <2>4. txns' = KeptTxns(a) \cup {}
      BY <2>1
    <2>5. QED
      BY <2>1, <2>2, <2>3, <2>4, NearCleared
  <1>14. CASE ResetTenantDataset
    BY <1>14 DEF ResetTenantDataset, NearInv, Counted
  <1>15. CASE SeedTenantDataset
    <2>1. open' = BaselineAccounts /\ balance' = BaselineBalance /\ txns' = BaselineTxns /\ opening' = BaselineOpening /\ struck' = {}
      BY <1>15 DEF SeedTenantDataset
    <2>2. \A t \in BaselineTxns : Own(t)'
      BY <2>1, BaselineNear DEF Own
    <2>3. Counted' = BaselineTxns
      BY <2>1 DEF Counted
    <2>4. QED
      BY <2>1, <2>2, <2>3, BaselineNear DEF NearInv
  <1>16. CASE AccrueDailyInterest
    <2>1. PICK d \in Dates :
             /\ txns' = txns \cup
                   {Entry(a, "credit", Interest(a), "posted", Ref("interest", a, d), "interest", 0) : a \in Paid(d)}
             /\ balance' = [a \in Accounts |-> IF a \in Paid(d) THEN RoundMoney(balance[a] + Interest(a)) ELSE balance[a]]
             /\ UNCHANGED <<open, opening, struck>> /\ seq' = seq + 1
      BY <1>16 DEF AccrueDailyInterest, Book
    <2> DEFINE E(a) == Entry(a, "credit", Interest(a), "posted", Ref("interest", a, d), "interest", 0)
    <2>2. Paid(d) \subseteq open
      BY DEF Paid, Due
    <2>3. ASSUME NEW a \in open
          PROVE  /\ E(a).account = a /\ E(a).type = "credit" /\ E(a).seq = seq /\ E(a).amount = Interest(a)
                 /\ Interest(a) \in Int /\ Own(E(a))
      <3>1. /\ E(a).account = a /\ E(a).type = "credit" /\ E(a).seq = seq /\ E(a).amount = Interest(a)
        BY DEF Entry
      <3>3. balance[a] \in Int /\ yields[a].apy \in Nat
        BY <1>a DEF Money, HoldInv, TypeOK, YieldConfig
      <3>4. Interest(a) \in Int
        BY <3>3, DailyInterestType DEF Interest, Money
      <3>5. QED
        BY <3>1, <3>4 DEF Own
    <2>4. txns' = txns \cup {E(a) : a \in Paid(d)}
      BY <2>1
    <2> HIDE DEF E
    <2>5. ASSUME NEW b \in open PROVE Follows(b)
      <3>1. CASE b \in Paid(d)
        <4>1. MoneyOf(Counted', b) = MoneyOf(Counted, b) \cup {E(b)}
          BY <2>1, <2>2, <2>3, <2>4, <3>1 DEF Counted, MoneyOf, EntriesOf
        <4>2. balance'[b] = RoundMoney(balance[b] + E(b).amount)
          BY <1>a, <2>1, <2>3, <3>1
        <4>3. QED
          BY <2>1, <2>3, <4>1, <4>2 DEF Follows
      <3>2. CASE b \notin Paid(d)
        <4>1. MoneyOf(Counted', b) = MoneyOf(Counted, b)
          BY <2>1, <2>2, <2>3, <2>4, <3>2 DEF Counted, MoneyOf, EntriesOf
        <4>2. balance'[b] = balance[b]
          BY <1>a, <2>1, <3>2
        <4>3. QED
          BY <2>1, <4>1, <4>2 DEF Follows
      <3>3. QED
        BY <3>1, <3>2
    <2>6. \A t \in txns' : t \in txns \/ Own(t)
      BY <2>2, <2>3, <2>4
    <2>7. QED
      BY <2>1, <2>5, <2>6, NearKept
  <1>17. QED
    BY <1>1, <1>2, <1>4, <1>5, <1>6, <1>7, <1>8, <1>9, <1>10, <1>11, <1>12, <1>13, <1>14, <1>15, <1>16 DEF Next

\* What an account has on the books is finite: a step books few entries on it.
FiniteBooks == \A a \in Accounts : IsFiniteSet(EntriesOf(Counted, a))

LEMMA BooksFew ==
    ASSUME FiniteBooks, \A a \in Accounts : \E x, y, z : EntriesOf(Counted', a) \subseteq EntriesOf(Counted, a) \cup {x, y, z}
    PROVE  FiniteBooks'
  <1> SUFFICES ASSUME NEW a \in Accounts PROVE IsFiniteSet(EntriesOf(Counted', a))
    BY DEF FiniteBooks
  <1>1. PICK x, y, z : EntriesOf(Counted', a) \subseteq EntriesOf(Counted, a) \cup {x, y, z}
    OBVIOUS
  <1> DEFINE S == EntriesOf(Counted, a)
             U == EntriesOf(Counted', a)
  <1>2. IsFiniteSet(S)
    BY DEF FiniteBooks
  <1>3. U \subseteq ((S \cup {x}) \cup {y}) \cup {z}
    BY <1>1
  <1> HIDE DEF S, U
  <1>4. IsFiniteSet(((S \cup {x}) \cup {y}) \cup {z})
    BY <1>2, FS_AddElement
  <1>5. IsFiniteSet(U)
    BY <1>3, <1>4, FS_Subset
  <1>6. QED
    BY <1>5 DEF U

LEMMA BooksStep == FiniteBooks /\ [Next]_vars => FiniteBooks'
  <1> SUFFICES ASSUME FiniteBooks, [Next]_vars PROVE FiniteBooks'
    OBVIOUS
  <1>1. ASSUME NEW x, NEW y, NEW z, txns' \subseteq txns \cup {x, y, z}, struck' \subseteq struck \cup txns
        PROVE  FiniteBooks'
    BY <1>1, BooksFew DEF EntriesOf, Counted
  <1>2. ASSUME NEW type, NEW amt, NEW from, NEW to, CreateTenantTransfer(type, amt, from, to)
        PROVE  FiniteBooks'
    <2>1. struck' = struck /\ \E x, y : txns' \subseteq txns \cup {x, y}
      BY <1>2 DEF CreateTenantTransfer, Book
    <2>2. QED
      BY <1>1, <2>1
  <1>3. ASSUME NEW a, NEW amt, NEW status, SimulateOutgoing(a, amt, status) PROVE FiniteBooks'
    BY <1>1, <1>3 DEF SimulateOutgoing, Book
  <1>4. CASE InternalTransfer \/ ExternalTransfer \/ LoanOnboardingFunding
    BY <1>2, <1>4 DEF InternalTransfer, ExternalTransfer, LoanOnboardingFunding
  <1>5. CASE SimulateOutgoingAchTransfer \/ CreateOutgoingWire
    BY <1>3, <1>5 DEF SimulateOutgoingAchTransfer, CreateOutgoingWire
  <1>6. CASE \/ UpdateTenantTransfer \/ DeleteTenantTransfer \/ UpsertYieldConfig \/ UNCHANGED vars
    BY <1>1, <1>6 DEF UpdateTenantTransfer, DeleteTenantTransfer, UpsertYieldConfig, vars
  <1>7. CASE SimulateIncomingRailTransfer \/ CardPost
    BY <1>1, <1>7 DEF SimulateIncomingRailTransfer, CardPost, Book
  <1>8. CASE CardAuthorization \/ CardRefund
    <2>1. struck' = struck /\ \E x : txns' = txns \cup {x}
      BY <1>8 DEF CardAuthorization, CardRefund, Book
    <2>2. QED
      BY <1>1, <2>1
  <1>9. CASE CardVoid \/ CardCapture
    <2>1. struck' = struck /\ \E h, x, y : txns' = (txns \ {h}) \cup {x, y}
      BY <1>9 DEF CardVoid, CardCapture
    <2>2. QED
      BY <1>1, <2>1
  <1>10. CASE CreateTenantAccount
    <2>1. struck' = struck /\ \E x : txns' \subseteq txns \cup {x}
      BY <1>10 DEF CreateTenantAccount, Book
    <2>2. QED
      BY <1>1, <2>1
  <1>11. CASE SeedTenantAccountData \/ ResetTenantAccountData
    <2>1. \E a : (txns' = KeptTxns(a) \cup SeedEntries(a) \/ txns' = KeptTxns(a)) /\ struck' \subseteq struck \cup txns
      BY <1>11 DEF Strike, SeedTenantAccountData, ResetTenantAccountData
    <2>2. \A a : \E x, y, z : SeedEntries(a) = {x, y, z}
      <3> TAKE a
      <3> DEFINE E(n) == Entry(a, IF n = 1 THEN "credit" ELSE "debit", SeedAmount[n], "posted", Ref("seed", a, n), "seed", 0)
      <3>1. SeedEntries(a) = {E(n) : n \in 1..3} /\ 1..3 = {1, 2, 3}
        BY DEF SeedEntries
      <3> HIDE DEF E
      <3>2. SeedEntries(a) = {E(1), E(2), E(3)}
        BY <3>1
      <3>3. QED
        BY <3>2
    <2>3. \A a : KeptTxns(a) \subseteq txns
      BY DEF KeptTxns
    <2>4. QED
      BY <1>1, <2>1, <2>2, <2>3
  <1>12. CASE ResetTenantDataset \/ SeedTenantDataset
    <2>1. IsFiniteSet(txns') /\ struck' = {}
      BY <1>12, LedgerAssumption, FS_EmptySet DEF ResetTenantDataset, SeedTenantDataset
    <2>2. \A a \in Accounts : EntriesOf(Counted', a) \subseteq txns'
      BY <2>1 DEF EntriesOf, Counted
    <2>3. QED
      BY <2>1, <2>2, FS_Subset DEF FiniteBooks
  <1>13. CASE AccrueDailyInterest
    <2>1. PICK d \in Dates :
             /\ txns' = txns \cup
                   {Entry(a, "credit", Interest(a), "posted", Ref("interest", a, d), "interest", 0) : a \in Paid(d)}
             /\ struck' = struck
      BY <1>13 DEF AccrueDailyInterest, Book
    <2> DEFINE E(a) == Entry(a, "credit", Interest(a), "posted", Ref("interest", a, d), "interest", 0)
    <2>2. \A a : E(a).account = a
      BY DEF Entry
    <2>3. txns' = txns \cup {E(a) : a \in Paid(d)} /\ struck' = struck
      BY <2>1
    <2> HIDE DEF E
    <2>4. \A a \in Accounts : EntriesOf(Counted', a) \subseteq EntriesOf(Counted, a) \cup {E(a), E(a), E(a)}
      BY <2>2, <2>3 DEF EntriesOf, Counted
    <2>5. QED
      BY <2>4, BooksFew
  <1>14. QED
    BY <1>4, <1>5, <1>6, <1>7, <1>8, <1>9, <1>10, <1>11, <1>12, <1>13 DEF Next

LEMMA NearImplies == HoldInv /\ FiniteBooks /\ NearInv => Reconciled
  <1> SUFFICES ASSUME HoldInv, FiniteBooks, NearInv, NEW a \in open
               PROVE  Abs(balance[a] - opening[a] - Booked(Counted, a)) <=
                          2 * Cardinality({t \in EntriesOf(Counted, a) : t.amount % Cent # 0})
    BY DEF Reconciled
  <1> DEFINE all == {t \in EntriesOf(Counted, a) : t.amount % Cent # 0}
             S == MoneyOf(Counted, a)
             finer == FinerThanCent(S)
  <1>1. Near(balance[a], opening[a], S)
    BY DEF NearInv
  <1>2. IsFiniteSet(all)
    BY FS_Subset DEF FiniteBooks, HoldInv, TypeOK
  <1>3. finer \subseteq all
    BY DEF Counted, FinerThanCent, MoneyOf
  <1>4. balance[a] \in Int /\ opening[a] \in Int
    BY DEF HoldInv, TypeOK, Money
  <1>5. Booked(Counted, a) = Total(S) /\ Total(S) \in Int
    BY <1>1, TotalProps DEF Near, Booked
  <1> HIDE DEF all, S
  <1>6. Abs(balance[a] - opening[a] - Total(S)) <= 2 * Cardinality(finer)
    BY <1>1 DEF Near
  <1> HIDE DEF finer
  <1>7. /\ Cardinality(finer) <= Cardinality(all)
        /\ Cardinality(finer) \in Nat /\ Cardinality(all) \in Nat
    BY <1>2, <1>3, FS_Subset, FS_CardinalityType
  <1>8. Abs(balance[a] - opening[a] - Total(S)) \in Int
    BY <1>4, <1>5 DEF Abs
  <1>9. Abs(balance[a] - opening[a] - Total(S)) <= 2 * Cardinality(all)
    BY <1>6, <1>7, <1>8
  <1>10. QED
    BY <1>5, <1>9 DEF all

\* However requests are ordered, and whatever references clients make up, an
\* account's balance is what its ledger started from plus what its entries add
\* up to, up to half a cent for each entry finer than a cent; the entries are
\* those on the books and those that went with the data of another account.
THEOREM LedgerReconciled == Spec => []Reconciled
  <1>1. Init => NearInv
    BY BaselineNear DEF Init, NearInv, Own, Counted
  <1>2. Init => FiniteBooks
    <2> SUFFICES ASSUME Init PROVE FiniteBooks
      OBVIOUS
    <2>1. \A a \in Accounts : EntriesOf(Counted, a) \subseteq BaselineTxns
      BY DEF EntriesOf, Init, Counted
    <2>2. QED
      BY <2>1, LedgerAssumption, FS_Subset DEF FiniteBooks
  <1>3. QED
    BY <1>1, <1>2, HoldInit, HoldStep, NearStep, BooksStep, NearImplies, PTL DEF Spec

-----------------------------------------------------------------------------
(* Interest *)

PaidTo(ts, a) == {t \in EntriesOf(ts, a) : t.by = "interest"}

\* Of every account, in the list or not: the configuration of one that a
\* request brings back still knows what it paid.
InterestInv ==
    /\ \A t \in txns : (t.by = "interest" => t.amount > 0) /\ (t.type = "hold" => t.by # "interest")
    /\ \A a \in Accounts : /\ yields[a].total \in Money
                           /\ HaveAmounts(PaidTo(txns, a))
                           /\ Total(PaidTo(txns, a)) <= yields[a].total

\* Interest of an account that is gone does not count against its total.
LEMMA InterestKept ==
    ASSUME HoldInv, InterestInv, NEW new, \A t \in new : t.by # "interest",
           \A t \in txns' : t \in txns \/ t \in new,
           \A a \in Accounts : \/ yields'[a].total = yields[a].total
                               \/ yields'[a].total = 0 /\ PaidTo(txns', a) = {},
           \A t \in new : t.type = "hold" => t.by # "interest"
    PROVE  InterestInv'
  <1>1. \A t \in txns' : (t.by = "interest" => t.amount > 0) /\ (t.type = "hold" => t.by # "interest")
    BY DEF InterestInv
  <1>2. ASSUME NEW a \in Accounts
        PROVE  /\ yields'[a].total \in Money
               /\ HaveAmounts(PaidTo(txns', a)) /\ Total(PaidTo(txns', a)) <= yields'[a].total
    <2> DEFINE S == PaidTo(txns, a)
               T == PaidTo(txns', a)
    <2>1. HaveAmounts(S) /\ Total(S) <= yields[a].total /\ yields[a].total \in Money
      BY DEF InterestInv
    <2>2. T \subseteq S /\ \A t \in S : t.amount >= 0
      <3>1. \A t \in txns : t.by = "interest" => t.amount > 0 /\ t.amount \in Int
        BY DEF InterestInv, HoldInv, TypeOK, Txn
      <3>2. QED
        BY <3>1 DEF PaidTo, EntriesOf
    <2>3. CASE yields'[a].total = 0 /\ T = {}
      <3>1. HaveAmounts({}) /\ Total({}) = 0
        BY FS_EmptySet, TotalProps DEF HaveAmounts
      <3>2. 0 \in Money
        BY DEF Money, Cent
      <3>3. QED
        BY <2>3, <3>1, <3>2
    <2>4. CASE yields'[a].total = yields[a].total
      <3> HIDE DEF S, T
      <3>1. HaveAmounts(T) /\ Total(T) <= Total(S) /\ Total(T) \in Int /\ Total(S) \in Int
        BY <2>1, <2>2, TotalSubset, TotalProps
      <3>2. yields'[a].total \in Int /\ yields'[a].total \in Money /\ Total(S) <= yields'[a].total
        BY <2>1, <2>4 DEF Money
      <3>3. QED
        BY <3>1, <3>2 DEF T
    <2>5. yields'[a].total = yields[a].total \/ (yields'[a].total = 0 /\ T = {})
      OBVIOUS
    <2>6. QED
      BY <2>3, <2>4, <2>5
  <1>3. QED
    BY <1>1, <1>2 DEF InterestInv

\* roundMoney leaves the sum of the total and a day's interest alone.
LEMMA InterestStep == HoldInv /\ InterestInv /\ [Next]_vars => InterestInv'
  <1> SUFFICES ASSUME HoldInv, InterestInv, [Next]_vars PROVE InterestInv'
    OBVIOUS
  <1>a. /\ open \subseteq Accounts /\ seq \in Nat /\ balance \in [Accounts -> Money]
        /\ yields \in [Accounts -> YieldConfig] /\ txns \subseteq Txn
    BY DEF HoldInv, TypeOK
  <1>1. ASSUME NEW new, \A t \in new : t.by # "interest", txns' \subseteq txns \cup new, yields' = yields
        PROVE  InterestInv'
    BY <1>1, InterestKept
  <1>2. ASSUME NEW type, NEW amt, NEW from, NEW to, CreateTenantTransfer(type, amt, from, to)
        PROVE  InterestInv'
    <2> DEFINE ref == Ref("transfer", NoOne, seq)
               status == IF type = "internal" THEN "posted" ELSE "pending"
               new == {Entry(from, "debit", -amt, status, ref, "transfer", 0)}
                        \cup {Entry(a, "credit", amt, status, ref, "transfer", 0) : a \in {to} \ {NoOne}}
    <2>1. txns' = txns \cup new /\ yields' = yields
      BY <1>2 DEF CreateTenantTransfer, Book
    <2>2. \A t \in new : t.by # "interest"
      BY DEF Entry
    <2>3. QED
      BY <1>1, <2>1, <2>2
  <1>b. \A a, type, amt, status, ref, by, resolves : Entry(a, type, amt, status, ref, by, resolves).by = by
    BY DEF Entry
  <1>c. ASSUME NEW x, x.by # "interest", txns' \subseteq txns \cup {x}, yields' = yields PROVE InterestInv'
    <2> DEFINE new == {x}
    <2>1. (\A t \in new : t.by # "interest") /\ txns' \subseteq txns \cup new
      BY <1>c
    <2> HIDE DEF new
    <2>2. QED
      BY <1>1, <1>c, <2>1
  <1>3. ASSUME NEW a, NEW amt, NEW status, SimulateOutgoing(a, amt, status) PROVE InterestInv'
    <2>1. /\ txns' = txns \cup {Entry(a, "debit", -amt, "posted", Ref("transfer", NoOne, seq), "transfer", 0)}
          /\ yields' = yields
      BY <1>3 DEF SimulateOutgoing, Book
    <2>2. QED
      BY <1>b, <1>c, <2>1
  <1>4. CASE InternalTransfer \/ ExternalTransfer \/ LoanOnboardingFunding
    BY <1>2, <1>4 DEF InternalTransfer, ExternalTransfer, LoanOnboardingFunding
  <1>5. CASE SimulateOutgoingAchTransfer \/ CreateOutgoingWire
    BY <1>3, <1>5 DEF SimulateOutgoingAchTransfer, CreateOutgoingWire
  <1>6. CASE UpdateTenantTransfer \/ DeleteTenantTransfer \/ UNCHANGED vars
    <2> DEFINE new == {}
    <2>1. txns' \subseteq txns \cup new /\ yields' = yields /\ \A t \in new : t.by # "interest"
      BY <1>6 DEF UpdateTenantTransfer, DeleteTenantTransfer, vars
    <2> HIDE DEF new
    <2>2. QED
      BY <1>1, <2>1
  <1>7. CASE SimulateIncomingRailTransfer \/ CardPost
    <2>1. yields' = yields /\ \E a, type, amt, ref, by : txns' = txns \cup {Entry(a, type, amt, "posted", ref, by, 0)} /\ by # "interest"
      BY <1>7 DEF SimulateIncomingRailTransfer, CardPost, Book
    <2>2. QED
      BY <1>b, <1>c, <2>1
  <1>8. CASE CardAuthorization \/ CardRefund
    <2>1. yields' = yields /\ \E a, type, amt, status, ref, by : txns' = txns \cup {Entry(a, type, amt, status, ref, by, 0)} /\ by # "interest"
      BY <1>8 DEF CardAuthorization, CardRefund, Book
    <2>2. QED
      BY <1>b, <1>c, <2>1
  <1>9. CASE CardVoid \/ CardCapture
    <2>1. PICK h \in txns : /\ h.type = "hold" /\ yields' = yields
                            /\ \E a, type, amt, ref, n :
                                  txns' = (txns \ {h}) \cup {Reversed(h), Entry(a, type, amt, "posted", ref, "card", n)}
      <3>1. CASE CardVoid
        <4>1. PICK a \in open : \E ref \in ClientRefs(a) :
                 \E k \in PendingHolds(a, ref) :
                    /\ txns' = (txns \ {k}) \cup {Reversed(k),
                                  Entry(a, "release", Abs(k.amount), "posted", ref, "card", k.seq)}
                    /\ yields' = yields
          BY <3>1 DEF CardVoid
        <4>2. \A ref : \A k \in PendingHolds(a, ref) : k \in txns /\ k.type = "hold"
          BY DEF PendingHolds, EntriesOf
        <4>3. QED
          BY <4>1, <4>2
      <3>2. CASE CardCapture
        <4>1. PICK a \in open, amt \in CardAmounts : \E ref \in ClientRefs(a) :
                 \E k \in PendingHolds(a, ref) :
                    /\ txns' = (txns \ {k}) \cup {Reversed(k),
                                  Entry(a, "debit", -amt, "posted", ref, "card", k.seq)}
                    /\ yields' = yields
          BY <3>2 DEF CardCapture
        <4>2. \A ref : \A k \in PendingHolds(a, ref) : k \in txns /\ k.type = "hold"
          BY DEF PendingHolds, EntriesOf
        <4>3. QED
          BY <4>1, <4>2
      <3>3. QED
        BY <1>9, <3>1, <3>2
    <2>2. PICK x : txns' = (txns \ {h}) \cup {Reversed(h), x} /\ x.by = "card"
      BY <1>b, <2>1
    <2>3. Reversed(h).by = h.by /\ h.by # "interest"
      BY <1>a, <2>1 DEF Reversed, Txn, InterestInv
    <2> DEFINE new == {Reversed(h), x}
    <2>4. (\A t \in new : t.by # "interest") /\ txns' \subseteq txns \cup new
      BY <2>2, <2>3
    <2> HIDE DEF new
    <2>5. QED
      BY <1>1, <2>1, <2>4
  <1>10. CASE CreateTenantAccount
    <2>1. yields' = yields /\ \E a, type, amt, status, ref : txns' \subseteq txns \cup {Entry(a, type, amt, status, ref, "opening", 0)}
      <3>1. PICK a \in Accounts : \E start : yields' = yields /\ txns' = txns \cup
               (IF start > 0 THEN {Entry(a, "credit", start, "posted", Ref("opening", a, 0), "opening", 0)} ELSE {})
        BY <1>10 DEF CreateTenantAccount, Book
      <3>2. QED
        BY <3>1
    <2>2. QED
      BY <1>b, <1>c, <2>1
  <1>11. CASE SeedTenantAccountData
    <2>1. PICK a : txns' = KeptTxns(a) \cup SeedEntries(a) /\ yields' = yields
      BY <1>11 DEF SeedTenantAccountData
    <2>2. \A t \in SeedEntries(a) : t.by # "interest"
      BY DEF SeedEntries, Entry
    <2>3. QED
      BY <1>1, <2>1, <2>2 DEF KeptTxns
  <1>12. CASE ResetTenantAccountData
    <2>1. PICK a \in open : txns' = KeptTxns(a) /\ yields' = [yields EXCEPT ![a] = NoYield]
      BY <1>12 DEF ResetTenantAccountData
    <2>2. PaidTo(txns', a) = {}
      BY <2>1 DEF PaidTo, EntriesOf, KeptTxns
    <2>3. ASSUME NEW b \in Accounts
          PROVE  yields'[b].total = yields[b].total \/ (yields'[b].total = 0 /\ PaidTo(txns', b) = {})
      BY <1>a, <2>1, <2>2 DEF NoYield
    <2>4. \A t \in txns' : t \in txns
      BY <2>1 DEF KeptTxns
    <2>5. QED
      BY <2>3, <2>4, InterestKept
  <1>13. CASE ResetTenantDataset \/ SeedTenantDataset
    <2>1. /\ yields' = [a \in Accounts |-> NoYield]
          /\ \A t \in txns' : t \in BaselineTxns
      BY <1>13 DEF ResetTenantDataset, SeedTenantDataset
    <2>2. \A t \in BaselineTxns : t.by = "baseline"
      BY LedgerAssumption
    <2>3. \A a \in Accounts : yields'[a].total = 0 /\ PaidTo(txns', a) = {}
      BY <2>1, <2>2 DEF NoYield, PaidTo, EntriesOf
    <2>4. QED
      BY <2>1, <2>2, <2>3, InterestKept
  <1>14. CASE UpsertYieldConfig
    <2>1. PICK a \in open, apy \in Apys, enabled \in BOOLEAN :
             /\ yields' = [yields EXCEPT ![a] = [@ EXCEPT !.set = TRUE, !.apy = apy, !.enabled = enabled]]
             /\ txns' = txns
      BY <1>14 DEF UpsertYieldConfig
    <2>2. yields[a] \in YieldConfig
      BY <1>a
    <2>3. [yields[a] EXCEPT !.set = TRUE, !.apy = apy, !.enabled = enabled].total = yields[a].total
      BY <2>2 DEF YieldConfig
    <2>4. \A b \in Accounts : yields'[b].total = yields[b].total
      BY <1>a, <2>1, <2>3
    <2>5. \A t \in txns' : t \in txns
      BY <2>1
    <2> DEFINE new == {}
    <2>6. \A t \in new : t.by # "interest"
      OBVIOUS
    <2> HIDE DEF new
    <2>7. QED
      BY <2>4, <2>5, <2>6, InterestKept
  <1>15. CASE AccrueDailyInterest
    <2>1. PICK d \in Dates :
             /\ txns' = txns \cup
                   {Entry(a, "credit", Interest(a), "posted", Ref("interest", a, d), "interest", 0) : a \in Paid(d)}
             /\ yields' = [a \in Accounts |->
                   CASE a \in Paid(d) -> [yields[a] EXCEPT !.last = d, !.total = RoundMoney(@ + Interest(a))]
                     [] a \in Due(d) \ Paid(d) -> [yields[a] EXCEPT !.last = d]
                     [] OTHER -> yields[a]]
      BY <1>15 DEF AccrueDailyInterest, Book
    <2> DEFINE E(a) == Entry(a, "credit", Interest(a), "posted", Ref("interest", a, d), "interest", 0)
    <2>2. \A a : /\ E(a).account = a /\ E(a).seq = seq /\ E(a).amount = Interest(a)
                 /\ E(a).by = "interest" /\ E(a).type = "credit"
      BY DEF Entry
    <2>3. txns' = txns \cup {E(a) : a \in Paid(d)}
      BY <2>1
    <2> HIDE DEF E
    <2>4. ASSUME NEW a \in Paid(d) PROVE Interest(a) > 0 /\ Interest(a) \in Money /\ a \in Accounts
      <3>1. a \in open /\ Interest(a) > 0
        BY DEF Paid, Due
      <3>2. balance[a] \in Int /\ yields[a].apy \in Nat
        BY <1>a, <3>1 DEF Money, YieldConfig
      <3>3. QED
        BY <1>a, <3>1, <3>2, DailyInterestType DEF Interest
    <2>5. \A t \in txns' : (t.by = "interest" => t.amount > 0) /\ (t.type = "hold" => t.by # "interest")
      BY <2>2, <2>3, <2>4 DEF InterestInv
    <2>6. ASSUME NEW a \in Accounts
          PROVE  /\ yields'[a].total \in Money
                 /\ HaveAmounts(PaidTo(txns', a)) /\ Total(PaidTo(txns', a)) <= yields'[a].total
      <3> DEFINE S == PaidTo(txns, a)
                 sum == yields[a].total
      <3>1. HaveAmounts(S) /\ Total(S) <= sum /\ sum \in Money /\ Total(S) \in Int /\ sum \in Int
        BY TotalProps DEF InterestInv, Money
      <3>2. yields[a] \in YieldConfig
        BY <1>a
      <3>3. CASE a \in Paid(d)
        <4>1. PaidTo(txns', a) = S \cup {E(a)}
          BY <2>2, <2>3, <3>3 DEF PaidTo, EntriesOf
        <4>2. E(a) \notin S
          BY <1>a, <2>2 DEF HoldInv, TypeOK, Txn, PaidTo, EntriesOf
        <4>3. yields'[a].total = RoundMoney(sum + Interest(a))
          BY <2>1, <3>2, <3>3 DEF YieldConfig
        <4> HIDE DEF S, sum
        <4>4. RoundMoney(sum + Interest(a)) = sum + Interest(a) /\ sum + Interest(a) \in Money
          BY <2>4, <3>1, <3>3, MoneySum
        <4>5. E(a).amount = Interest(a) /\ Interest(a) \in Int
          BY <2>2, <2>4, <3>3 DEF Money
        <4>6. HaveAmounts(S \cup {E(a)}) /\ Total(S \cup {E(a)}) = Total(S) + Interest(a)
          BY <3>1, <4>2, <4>5, TotalAdd
        <4>7. QED
          BY <3>1, <4>1, <4>3, <4>4, <4>5, <4>6
      <3>4. CASE a \notin Paid(d)
        <4>1. PaidTo(txns', a) = S
          BY <2>2, <2>3, <3>4 DEF PaidTo, EntriesOf
        <4>2. yields'[a].total = sum
          BY <2>1, <3>2, <3>4 DEF YieldConfig
        <4>3. QED
          BY <3>1, <4>1, <4>2
      <3>5. QED
        BY <3>3, <3>4
    <2>7. QED
      BY <2>5, <2>6 DEF InterestInv
  <1>16. QED
    BY <1>4, <1>5, <1>6, <1>7, <1>8, <1>9, <1>10, <1>11, <1>12, <1>13, <1>14, <1>15 DEF Next

\* The interest on an account's books never exceeds the total that its yield
\* configuration reports, over every order of accruals, configurations, seeds
\* and resets.
THEOREM LedgerInterestWithinTotal == Spec => []InterestWithinTotal
  <1>1. Init => InterestInv
    <2> SUFFICES ASSUME Init PROVE InterestInv
      OBVIOUS
    <2>1. \A t \in txns : t.by = "baseline" /\ t.type # "hold"
      BY LedgerAssumption DEF Init
    <2>2. \A a \in Accounts : yields[a].total = 0 /\ PaidTo(txns, a) = {}
      BY <2>1 DEF Init, NoYield, PaidTo, EntriesOf
    <2>3. HaveAmounts({}) /\ Total({}) = 0 /\ 0 \in Money
      BY FS_EmptySet, TotalProps DEF HaveAmounts, Money, Cent
    <2>4. QED
      BY <2>1, <2>2, <2>3 DEF InterestInv
  <1>2. HoldInv /\ InterestInv => InterestWithinTotal
    BY DEF HoldInv, TypeOK, InterestInv, InterestWithinTotal, PaidTo
  <1>3. QED
    BY <1>1, <1>2, HoldInit, HoldStep, InterestStep, PTL DEF Spec
=============================================================================
