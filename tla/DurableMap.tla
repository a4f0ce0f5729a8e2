----------------------------- MODULE DurableMap -----------------------------
(***************************************************************************)
(* What the tenant store promises (README.md, "Durable persistence"): for  *)
(* every tenant there is a dataset that requests see and a dataset that is *)
(* kept; saving keeps what is held at that moment, one tenant at a time,   *)
(* and a start gives back exactly what is kept.                            *)
(***************************************************************************)
CONSTANTS Tenants, Values

VARIABLES held, kept

Init == held = kept /\ kept \in [Tenants -> Values]

\* A request changes the dataset of one tenant.
Write ==
    \E t \in Tenants :
        /\ held'[t] \in Values
        /\ held' = [held EXCEPT ![t] = held'[t]]
        /\ UNCHANGED kept

Save == \E t \in Tenants : kept' = [kept EXCEPT ![t] = held[t]] /\ UNCHANGED held

Restart == held' = kept /\ UNCHANGED kept

Next == Write \/ Save \/ Restart

Spec == Init /\ [][Next]_<<held, kept>>
=============================================================================
