---------------------------- MODULE MCIngestion ----------------------------
(* Ingestion on small instances: two versions, of two chunks and of one. *)
EXTENDS Ingestion

CONSTANTS v1, v2

MCVersions == {v1, v2}
MCSlots == 1..2
MCChunksOf == [v \in {v1, v2} |-> IF v = v1 THEN {1, 2} ELSE {1}]
=============================================================================
