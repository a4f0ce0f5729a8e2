------------------------------ MODULE MCPortal ------------------------------
(***************************************************************************)
(* A small instance of PortalAuth: one user, whose address is spelled in   *)
(* lower case, with a capital, or with a space behind it.                  *)
(***************************************************************************)
EXTENDS PortalAuth, TLC

MCNormal == [s \in Spellings |-> "u"]
MCLower == [s \in Spellings |-> IF s = "u " THEN "u " ELSE "u"]
MCKeys == ({"login", "reset-request", "reset-confirm"} \X {"u", "u "})
              \cup {<<"api", "accounts">>, <<"api", "resources">>, <<"oauth", "client">>}
\* A code may be guessed three times in a window, by both spellings.
MCLimit == [k \in MCKeys |->
    CASE k[1] = "api" -> 5
      [] k[1] = "reset-request" \/ k = <<"reset-confirm", "u">> -> 1
      [] OTHER -> 2]

\* /accounts is served by the first router, /resources by the fifth.
MCCost == [k \in MCKeys |-> IF k[2] = "resources" THEN 2 ELSE 1]

\* Failures under both spellings, codes guessed under both, and failures with
\* a reset between.
MCWorkloads ==
    {{<<"login", "u">>, <<"login", "u ">>},
     {<<"reset-request", "u">>, <<"reset-confirm", "u">>, <<"reset-confirm", "u ">>},
     {<<"login", "u">>, <<"reset-request", "u">>, <<"reset-confirm", "u">>},
     {<<"api", "accounts">>}, {<<"api", "resources">>}, {<<"oauth", "client">>}}

Symmetry == Permutations(Passwords) \cup Permutations(Codes)
=============================================================================
