------------------------------ MODULE MCLedger ------------------------------
(***************************************************************************)
(* Small instances of Ledger: account "a1" of the mock data (15420.50, of  *)
(* which 15200.00 available, and one mock entry) and "a2", which a request *)
(* may create.                                                             *)
(***************************************************************************)
EXTENDS Ledger

MCBaselineAccounts == {"a1"}
MCBaselineBalance == [a \in Accounts |-> IF a = "a1" THEN 1542050 * Cent ELSE 0]
MCBaselineAvailable == [a \in Accounts |-> IF a = "a1" THEN 1520000 * Cent ELSE 0]

MCBaselineTxns ==
    {[seq |-> 0, account |-> "a1", amount |-> -15000 * Cent, type |-> "debit", status |-> "posted",
      ref |-> Ref("baseline", NoOne, 1), by |-> "baseline", resolves |-> 0]}

MCBaselineOpening == [a \in Accounts |-> IF a = "a1" THEN 1557050 * Cent ELSE 0]

\* Every reference that a client makes up contains the id of "a1".
MCMentions == [r \in Refs |-> {"a1"}]
=============================================================================
