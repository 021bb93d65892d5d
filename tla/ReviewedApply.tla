---------------------------- MODULE ReviewedApply ----------------------------
(***************************************************************************)
(* The account commands of AccountApply together with the planner and      *)
(* construct_target of ChangePlan: every `account apply` is given a plan   *)
(* that a person reviewed, the plan of a desired profile for a collection, *)
(* and builds its target from it while others write to the account.        *)
(*                                                                         *)
(* The redaction key and the secrets stay what they were when the plans    *)
(* were made (PlanAndApply changes them), and no plan is a promotion's.    *)
(***************************************************************************)
EXTENDS AccountApply, ChangePlan

CONSTANTS
    Key,         \* the redaction key
    Secrets,     \* what each secret reference resolves to
    Reviewed     \* the profiles whose plans were reviewed

ASSUME KeyAssumption == Key \in Keys
ASSUME SecretsAssumption == Secrets \in [Refs -> Urls \cup {None}]
ASSUME ReviewedAssumption == Reviewed \subseteq Profiles
ASSUME DescriptorAssumption == Collections \subseteq Seq(Descriptors)

(* _structure: the ids and the URLs, in order. *)
ASSUME StructureAssumption ==
    Shape = [c \in Collections |->
                [i \in DOMAIN c |-> <<Id(c[i]), c[i].url>>]]

(* What the reviewed plans build is among the collections of the model. *)
ASSUME ClosedAssumption ==
    \A P \in Reviewed, c \in Collections :
        LET ops == PlanOps(P, c, Key)
        IN  /\ ~PlanRefused(P, c, Key)
            /\ ops # {}
            /\ ~ConstructRefused(ops, c, Key, Secrets)
            => Target(ops, c, Key, Secrets) \in Collections \ Unhashable

VARIABLE
    profile      \* profile[p]: what the plan of p is the plan of

reviewedVars == <<vars, profile>>

(* The operations of the plan p was given. *)
Ops(p) == PlanOps(profile[p], job[p].want, Key)

ReviewedInit ==
    /\ Init
    /\ profile \in [Procs -> Reviewed \cup {None}]
    /\ \A p \in Procs :
          IF job[p].cmd = "rollback" THEN profile[p] = None
          ELSE profile[p] # None /\ ~PlanRefused(profile[p], job[p].want, Key)

-----------------------------------------------------------------------------
(* Where apply_plan reads the operations of the plan. *)

PlanConverged(p) ==
    /\ job[p].cmd = "apply"
    /\ Ops(p) = {}
    /\ AlreadyConverged(p)

PlanToApply(p) ==
    /\ job[p].cmd = "apply"
    /\ Ops(p) # {}
    /\ PullForApply(p)

TargetRefused(p) ==
    /\ pc[p] = "construct"
    /\ ConstructRefused(Ops(p), base[p], Key, Secrets)
    /\ ConstructFails(p)
    /\ exit'[p] = "invalid"

TargetBuilt(p) ==
    /\ pc[p] = "construct"
    /\ ~ConstructRefused(Ops(p), base[p], Key, Secrets)
    /\ ConstructTarget(p)
    /\ target'[p] = Target(Ops(p), base[p], Key, Secrets)

ReviewedRead(p) ==
    \/ Begin(p) \/ Refuse(p)
    \/ PullFails(p) \/ PullUnhashable(p)
    \/ Drifted(p) \/ PlanConverged(p) \/ PlanToApply(p) \/ PullForRollback(p)
    \/ TargetRefused(p) \/ TargetBuilt(p)
    \/ SnapshotFails(p) \/ WriteSnapshot(p)

ReviewedNext ==
    /\ \/ \E p \in Procs : ReviewedRead(p) \/ WriteSide(p) \/ Network(p) \/ Kill(p)
       \/ ForeignWrite
    /\ UNCHANGED profile

ReviewedSpec == ReviewedInit /\ [][ReviewedNext]_reviewedVars

-----------------------------------------------------------------------------
(* What the user asked for is what there is: as long as an apply that      *)
(* ended with 0 is the last to have written, the next plan of its profile  *)
(* for the account is empty, if its endpoints can be compared at all.      *)
OkMeansDesired ==
    \A p \in Procs :
        /\ pc[p] = "done" /\ exit[p] = "ok" /\ job[p].cmd = "apply"
        /\ author = p /\ p \notin late /\ Comparable(profile[p])
        => /\ ~PlanRefused(profile[p], account, Key)
           /\ PlanOps(profile[p], account, Key) = {}

IdsOf(c) == {Id(c[i]) : i \in DOMAIN c}

(* No push of an apply uninstalls a protected add-on of the collection     *)
(* that was reviewed, nor installs what was not in it.                     *)
OnlyReviewedChanges ==
    [][\A p \in Procs :
          push[p]["write"] = "flying" /\ push'[p]["write"] = "landed" =>
              LET c == job[p].want
              IN  /\ IdsOf(account') \subseteq IdsOf(c)
                  /\ \A i \in DOMAIN c : c[i].rest \in Protected =>
                        Id(c[i]) \in IdsOf(account')]_reviewedVars
=============================================================================
