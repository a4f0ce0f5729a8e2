---------------------------- MODULE WriteThrough ----------------------------
(***************************************************************************)
(* What the fallback store promises (README.md: "Tenant and fallback state *)
(* is persisted to a SQLite database so data survives process restarts"):  *)
(* records that change by requests only, one at a time, each kept before   *)
(* it is answered.  There is no step for a crash or a restart: neither may *)
(* show.                                                                   *)
(***************************************************************************)
EXTENDS Naturals

CONSTANTS Ids, Absent

VARIABLES records, writes

Init == records = [id \in Ids |-> Absent] /\ writes = 0

\* A request gives a record new contents, or removes it.
Write ==
    \E id \in Ids :
        /\ writes' = writes + 1
        /\ \/ records' = [records EXCEPT ![id] = writes']
           \/ records' = [records EXCEPT ![id] = Absent]

Spec == Init /\ [][Write]_<<records, writes>>
=============================================================================
