------------------------------ MODULE MCProbe ------------------------------
(* Probe on small sets: probe 1 may hear anything, the others a little. *)
EXTENDS Probe

MCHeard == <<Replies \cup Bodies,
             {"ok", "noted"},
             {"error"}>>
=============================================================================
