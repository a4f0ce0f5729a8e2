----------------------------- MODULE MCCustomers -----------------------------
(***************************************************************************)
(* A small instance of CustomerAccounts: the mock customer "c1" with       *)
(* account "a1", a customer and an account that requests may create, and   *)
(* two addresses, one of them in two spellings.                            *)
(***************************************************************************)
EXTENDS CustomerAccounts

MCMockEmail == [c \in MockCustomers |-> "one"]
MCMockOwner == [a \in {"a1"} |-> "c1"]
MCNormal == [e \in Emails |-> IF e = "ONE" THEN "one" ELSE e]

\* Kinds that one request could confuse are together: lists next to each other
\* in one account's metadata, lists of the tables, lists of the Maps.
MCWorkloads ==
    {{"stopCheckPayments", "stopAchPayments"}, {"stopCheckPayments", "documents"},
     {"userDefinedFields", "documents"}, {"escrowDisbursements", "escrowProjections"},
     {"loanChargeAssessment", "remoteDeposits", "rewardProgramLevel"},
     {"statements", "futureRatePaymentChanges"}, {"accountNotes", "reservePremium", "originalLtv"},
     {"creditCards", "olbEnabled", "beneficiaries"}, {"collaterals", "uploads"}, {"debitCards"}}
=============================================================================
