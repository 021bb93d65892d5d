---------------------------- MODULE AccountClaims ----------------------------
(***************************************************************************)
(* Sentences of the repository's documents about account writes, stated    *)
(* over AccountApply as they are written.  Each of them is refuted by a    *)
(* behaviour of the code; the README tells how.                            *)
(***************************************************************************)
EXTENDS AccountApply

(* "Stale plans exit 5 and make no write" (SPEC.md): the push of an apply  *)
(* never replaces a collection other than the base of its plan.  The drift *)
(* guard of apply_plan reads the account once, before the snapshot.        *)
StalePlansMakeNoWrite ==
    [][\A p \in Procs :
          push[p]["write"] = "flying" /\ push'[p]["write"] = "landed"
             => account = job[p].want]_vars

(* "Once a write has been attempted, every failure is reported as an       *)
(* ApplyOutcome with exit code 6" (docstring of apply_plan), also when the *)
(* verification pull cannot be fingerprinted.                              *)
FailedWritesAreReported ==
    \A p \in Procs :
        pc[p] = "done" /\ Sent(p, "write") => exit[p] \in {"ok", "apply"}
=============================================================================
