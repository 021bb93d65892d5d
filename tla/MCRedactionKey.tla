--------------------------- MODULE MCRedactionKey ---------------------------
(* RedactionKey with interchangeable invocations. *)
EXTENDS RedactionKey, TLC

Symmetry == Permutations(Procs)
=============================================================================
