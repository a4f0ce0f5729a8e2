--------------------------- MODULE MCPersistence ---------------------------
(* Bounds for Persistence: SQLite with three changes of datasets, SQL      *)
(* Server, whose steps interleave, with two of them and a wipe.            *)
EXTENDS Persistence

MCMaxChanges == [x \in Adapters |-> IF x = "sqlite" THEN 3 ELSE 2]
MCMaxWipes == [x \in Adapters |-> IF x = "sqlite" THEN 0 ELSE 1]
MCOneWipe == [x \in Adapters |-> 1]
=============================================================================
