-------------------------- MODULE AccountRefinement --------------------------
(* AccountApply implements SnapshotFirst. *)
EXTENDS AccountApply

(* The pushes p has sent and the server has not disposed of, with those p  *)
(* may come to send from the step it is at.                                *)
Ahead(p) ==
    CASE pc[p] = "write" -> {"write", "restore"}
      [] pc[p] \in {"writing", "verify", "restore"} -> {"restore"}
      [] OTHER -> {}

Owed(p) == {w \in Writes : w \in Ahead(p) \/ push[p][w] = "flying"}

Licence == [p \in Procs |-> {Payload(p, w) : w \in Owed(p)}]

Promise == INSTANCE SnapshotFirst WITH
    kept <- {s.coll : s \in disk},
    armed <- {s.by : s \in disk},
    licence <- Licence

(* Whatever the interleaving, a process writes only after it has kept a    *)
(* snapshot, and then at most the target and the snapshot, once each.      *)
KeepsThePromise == Promise!Spec
=============================================================================
