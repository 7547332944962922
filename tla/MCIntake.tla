------------------------------ MODULE MCIntake ------------------------------
(* Intake on small instances. *)
EXTENDS Intake, TLC

CONSTANTS n1, n2, c1, c2

MCNames == {n1, n2}
MCContents == {c1, c2}

(* Neither names nor contents are told apart. *)
Interchangeable == Permutations(MCNames) \cup Permutations(MCContents)
=============================================================================
