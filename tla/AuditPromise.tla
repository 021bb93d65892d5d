---------------------------- MODULE AuditPromise ----------------------------
(***************************************************************************)
(* What `probe collection` promises: every descriptor gets a verdict, once *)
(* and for all; the exit code is published when all of them are in and     *)
(* says whether they are fine; an interrupted command gives no report, and *)
(* nothing is probed any more once a command has ended.                    *)
(***************************************************************************)
EXTENDS Naturals

CONSTANTS N

VARIABLES
    audit,    \* how far the command is
    exit,     \* its exit code
    verdict   \* verdict[i]: the status of descriptor i, or "none"

vars == <<audit, exit, verdict>>

OkVerdicts == {"healthy", "warning"}
Verdicts == OkVerdicts \cup
    {"unreachable", "invalid_manifest", "identity_mismatch",
     "insecure_transport", "blocked_destination"}

Init ==
    /\ audit = "idle"
    /\ exit = "none"
    /\ verdict = [i \in 1..N |-> "none"]

Begin ==
    /\ audit = "idle"
    /\ audit' = "running"
    /\ UNCHANGED <<exit, verdict>>

Refuse ==
    /\ audit = "idle"
    /\ audit' = "refused"
    /\ exit' \in {"invalid", "defect"}
    /\ UNCHANGED verdict

Decide(i) ==
    /\ audit \in {"running", "interrupted"}
    /\ verdict[i] = "none"
    /\ verdict' \in {[verdict EXCEPT ![i] = v] : v \in Verdicts}
    /\ UNCHANGED <<audit, exit>>

Publish ==
    /\ audit = "running"
    /\ \A i \in 1..N : verdict[i] # "none"
    /\ audit' = "reported"
    /\ exit' = IF \A i \in 1..N : verdict[i] \in OkVerdicts THEN "ok" ELSE "network"
    /\ UNCHANGED verdict

Interrupt ==
    /\ audit = "running"
    /\ audit' = "interrupted"
    /\ UNCHANGED <<exit, verdict>>

GiveUp ==
    /\ audit = "interrupted"
    /\ audit' = "aborted"
    /\ exit' = "defect"
    /\ UNCHANGED verdict

Next ==
    \/ Begin \/ Refuse \/ Publish \/ Interrupt \/ GiveUp
    \/ \E i \in 1..N : Decide(i)

Spec == Init /\ [][Next]_vars
=============================================================================
