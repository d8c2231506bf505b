--------------------------- MODULE MCObjectStore ---------------------------
(* Instances of ObjectStore for TLC. *)
EXTENDS ObjectStore, TLC

CONSTANTS o1, o2, n1, n2, c1, c2

Symmetry == Permutations(Clients) \cup Permutations(Oids) \cup Permutations(Names)
=============================================================================
