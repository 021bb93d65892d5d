---------------------------- MODULE SnapshotFirst ----------------------------
(***************************************************************************)
(* What the account commands promise of a shared account, without their    *)
(* steps: a process first keeps a collection, and by keeping it obtains a  *)
(* licence to write at most two collections, each of them once, and a      *)
(* second one only if one of the two is the collection it kept.  A licence *)
(* is used up by writing, may be given up, and never grows back.           *)
(***************************************************************************)
CONSTANTS Procs, Collections, Shape

VARIABLES
    account,    \* what the account holds
    kept,       \* the collections that were kept
    armed,      \* the processes that kept theirs
    licence     \* licence[p]: the collections p may still write

vars == <<account, kept, armed, licence>>

Init ==
    /\ account \in Collections
    /\ kept = {}
    /\ armed = {}
    /\ licence = [p \in Procs |-> {}]

Keep(p) ==
    /\ p \notin armed
    /\ armed' = armed \cup {p}
    /\ \E c, d \in Collections :
          /\ kept' = kept \cup {c}
          /\ \E granted \in SUBSET {c, d} : licence' = [licence EXCEPT ![p] = granted]
    /\ UNCHANGED account

(* The server stores the licensed collection, or an equivalent of it. *)
Write(p) ==
    \E c \in licence[p] :
        /\ account' \in {d \in Collections : Shape[d] = Shape[c]}
        /\ licence' = [licence EXCEPT ![p] = @ \ {c}]
        /\ UNCHANGED <<kept, armed>>

GiveUp(p) ==
    /\ \E rest \in SUBSET licence[p] : licence' = [licence EXCEPT ![p] = rest]
    /\ UNCHANGED <<account, kept, armed>>

Others ==
    /\ account' \in Collections
    /\ UNCHANGED <<kept, armed, licence>>

Next == (\E p \in Procs : Keep(p) \/ Write(p) \/ GiveUp(p)) \/ Others

Spec == Init /\ [][Next]_vars
=============================================================================
