---------------------------- MODULE PlanAndApply ----------------------------
(***************************************************************************)
(* The life of a change plan: `profile init` or the user writes a desired  *)
(* profile, `profile diff`, `account plan` or `aiostreams promote` makes   *)
(* the plan, a person reviews it, `account apply` builds the target        *)
(* collection from it.  Between the commands anything else may change: the *)
(* account, the local redaction key, what the secret references resolve    *)
(* to, what the endpoints serve.                                           *)
(*                                                                         *)
(* The write itself succeeds here; AccountApply models how it can fail.    *)
(***************************************************************************)
EXTENDS ChangePlan

CONSTANTS
    Accounts,         \* collections other clients may leave in the account
    Worlds,           \* what else the commands read
    PlanProfiles,     \* desired profiles
    PlanPromotions,   \* promotions of a profile, or None
    Declarations,     \* sets of ids that `profile init` may be told are public
    NoPlan,
    MaxChanges        \* bound on the changes of the account and the world

ASSUME AccountsAssumption == Accounts \subseteq Seq(Descriptors)
ASSUME WorldsAssumption ==
    Worlds \subseteq [key : Keys, secrets : [Refs -> Urls \cup {None}],
                      served : [Urls -> {m \in Manifests : IdOf[m] # None} \cup {None}]]
ASSUME PlanProfilesAssumption == PlanProfiles \subseteq Profiles
ASSUME PlanPromotionsAssumption == PlanPromotions \subseteq Promotions \cup {None}
ASSUME DeclarationsAssumption == Declarations \subseteq SUBSET Ids
ASSUME MaxChangesAssumption == MaxChanges \in Nat

VARIABLES
    account,     \* the collection of the account
    world,       \* the redaction key, the secrets and the served manifests
    profile,     \* the desired profile
    promotion,   \* its aiostreamsPromotion, with a standby, or None
    plan,        \* the plan file; by, at, key and standby are history
    outcome,     \* how the last command ended
    changes      \* number of changes of the account and the world

vars == <<account, world, profile, promotion, plan, outcome, changes>>
outside == <<account, world, profile, promotion, changes>>

Outcomes == {"none", "starter", "defect", "planned", "converged", "invalid", "network",
             "drift", "applied"}

Init ==
    /\ account \in Accounts
    /\ world \in Worlds
    /\ profile \in PlanProfiles
    /\ promotion \in PlanPromotions
    /\ plan = NoPlan
    /\ outcome = "none"
    /\ changes = 0

-----------------------------------------------------------------------------
(* profile init, from an export of the account.  It is not run while a     *)
(* plan is under review only so that `profile` remains the plan's: apply   *)
(* reads the plan file alone.                                              *)

InitProfile ==
    /\ plan = NoPlan
    /\ \E declared \in Declarations :
          LET starter == Starter(account, world.key, declared)
          IN  Parses(starter) /\ profile' = starter
    /\ outcome' = "starter"
    /\ UNCHANGED <<account, world, promotion, plan, changes>>

(* The starter does not parse: "internal profile contract violation". *)
InitProfileFails ==
    /\ ~Parses(Starter(account, world.key, {}))
    /\ outcome' = "defect"
    /\ UNCHANGED <<plan, outside>>

-----------------------------------------------------------------------------
(* The plan of `how` as the command writes it out. *)
File(how, ops, standby) ==
    [by |-> how, base |-> account, ops |-> ops,
     at |-> changes, key |-> world.key, standby |-> standby]

Written(ops) == outcome' = IF ops = {} THEN "converged" ELSE "planned"

(* profile diff and account plan. *)
PlanProfile ==
    /\ ~PlanRefused(profile, account, world.key)
    /\ LET ops == PlanOps(profile, account, world.key)
       IN  plan' = File("profile", ops, None) /\ Written(ops)
    /\ UNCHANGED outside

PlanProfileRefused ==
    /\ PlanRefused(profile, account, world.key)
    /\ outcome' = "invalid"
    /\ UNCHANGED <<plan, outside>>

(* aiostreams promote. *)
Promote ==
    /\ ~PromotionRefused(promotion, account, world.key, world.secrets, world.served)
    /\ LET ops == PromotionOps(promotion, account, world.key, world.secrets, world.served)
       IN  /\ plan' = File("promotion", ops,
                           world.served[world.secrets[promotion.standby]])
           /\ Written(ops)
    /\ UNCHANGED outside

PromoteRefused ==
    /\ PromotionRefused(promotion, account, world.key, world.secrets, world.served)
    /\ outcome' = IF StandbyUnreachable(promotion, world.secrets, world.served)
                  THEN "network" ELSE "invalid"
    /\ UNCHANGED <<plan, outside>>

-----------------------------------------------------------------------------
(* account apply, with the hash of the plan for confirmation. *)

Ends(code) ==
    /\ outcome' = code
    /\ plan' = NoPlan
    /\ UNCHANGED <<world, profile, promotion, changes>>

(* The drift guard. *)
ApplyDrifted ==
    /\ plan # NoPlan
    /\ account # plan.base
    /\ Ends("drift")
    /\ UNCHANGED account

InSync == plan # NoPlan /\ account = plan.base

ApplyConverged ==
    /\ InSync
    /\ plan.ops = {}
    /\ Ends("converged")
    /\ UNCHANGED account

ApplyRefused ==
    /\ InSync
    /\ plan.ops # {}
    /\ ConstructRefused(plan.ops, account, world.key, world.secrets)
    /\ Ends("invalid")
    /\ UNCHANGED account

Constructs ==
    /\ InSync
    /\ plan.ops # {}
    /\ ~ConstructRefused(plan.ops, account, world.key, world.secrets)

(* The replacements bound to a manifest, with what resolve_target_manifest *)
(* finds: it probes with the default policy, whatever the profile says.    *)
Bound == {o \in plan.ops : o.op = "replaceEndpoint" /\ o.bound # None}

Refetched(o) == Probed(Resolved(o.endpoint, world.secrets), world.served, FALSE)

Answers(o) == Refetched(o) # None /\ IdOf[Refetched(o)] = IdOf[o.bound]

(* The endpoint does not answer, or answers for another id. *)
ApplyUnreachable ==
    /\ Constructs
    /\ \E o \in Bound : ~Answers(o)
    /\ Ends("network")
    /\ UNCHANGED account

(* It serves another manifest of that id. *)
ApplyManifestDrifted ==
    /\ Constructs
    /\ \E o \in Bound : Answers(o) /\ Refetched(o) # o.bound
    /\ Ends("drift")
    /\ UNCHANGED account

(* Mutant of ApplyTarget: the endpoint is not fetched again. *)
ApplyUnchecked ==
    /\ Constructs
    /\ LET target == Target(plan.ops, account, world.key, world.secrets)
       IN  /\ account' = target
           /\ Ends(IF target = account THEN "converged" ELSE "applied")

(* A target that equals the account is not written. *)
ApplyTarget ==
    /\ Constructs
    /\ \A o \in Bound : Refetched(o) = o.bound
    /\ LET target == Target(plan.ops, account, world.key, world.secrets)
       IN  /\ account' = target
           /\ Ends(IF target = account THEN "converged" ELSE "applied")

-----------------------------------------------------------------------------
(* Anything else that happens before, between and after the commands. *)

EditAccount ==
    /\ changes < MaxChanges
    /\ account' \in Accounts \ {account}
    /\ changes' = changes + 1
    /\ UNCHANGED <<world, profile, promotion, plan, outcome>>

ChangeWorld ==
    /\ changes < MaxChanges
    /\ world' \in Worlds \ {world}
    /\ changes' = changes + 1
    /\ UNCHANGED <<account, profile, promotion, plan, outcome>>

Inits == InitProfile \/ InitProfileFails

Plans == PlanProfile \/ PlanProfileRefused \/ Promote \/ PromoteRefused

Applies ==
    \/ ApplyDrifted \/ ApplyConverged \/ ApplyRefused
    \/ ApplyUnreachable \/ ApplyManifestDrifted \/ ApplyTarget

Next == Inits \/ Plans \/ Applies \/ EditAccount \/ ChangeWorld

Spec == Init /\ [][Next]_vars

-----------------------------------------------------------------------------
(* Type invariant: also, every collection of the account is made of        *)
(* descriptors, so no reference and no absent value is ever written to it. *)
TypeOK ==
    /\ account \in Seq(Descriptors)
    /\ world \in Worlds
    /\ profile \in Profiles
    /\ promotion \in PlanPromotions
    /\ plan # NoPlan => plan.base \in Seq(Descriptors) /\ plan.at \in 0..changes
    /\ outcome \in Outcomes
    /\ changes \in 0..MaxChanges

Writes(how) ==
    plan # NoPlan /\ plan.by = how /\ plan' = NoPlan /\ outcome' = "applied"

(* No two descriptors are alike in what no plan changes: each can be       *)
(* recognised after the write.                                             *)
Traceable(c) == \A i, j \in DOMAIN c : c[i].rest = c[j].rest => i = j

(* Where the descriptor with the rest of c[i] is in d. *)
Now(d, c, i) == {p \in DOMAIN d : d[p].rest = c[i].rest}

(* What the profile manages is as it wishes: the absent are gone, the      *)
(* positioned are in place, the endpoints are those wished for.            *)
Desired(P, c, d, k, secrets) ==
    \A a \in DOMAIN P.addons : \A i \in Candidates(P.addons[a], c, k) :
        LET s == P.addons[a]
        IN  IF s.state = "absent"
            THEN "state" \in s.manage => Now(d, c, i) = {}
            ELSE /\ Cardinality(Now(d, c, i)) = 1
                 /\ "position" \in s.manage /\ s.position # None
                      => Now(d, c, i) = {s.position}
                 /\ \A p \in Now(d, c, i) :
                      d[p].url = IF "endpoint" \in s.manage /\ s.endpoint # None
                                    /\ (s.endpoint \in Refs => s.fp = None)
                                 THEN Resolved(s.endpoint, secrets) ELSE c[i].url

(* A write of a profile's plan leaves what the profile manages as desired, *)
(* whatever the order of the collection and whatever else is managed.      *)
AppliedAsDesired ==
    [][Writes("profile") /\ Traceable(account) =>
          Desired(profile, account, account', plan.key, world.secrets)]_vars

(* What the profile does not manage: nothing is invented or doubled, what  *)
(* no entry claims, or only an advisory absence, is kept as it was (unless *)
(* the policy removes what no entry claims), and what has no managed       *)
(* position keeps its order.                                               *)
Untouched(P, c, d, k) ==
    LET unclaimed == {i \in DOMAIN c : Claimants(P, c, k, i) = {}}
        unmanaged == {i \in DOMAIN c : \A s \in {P.addons[a] : a \in Claimants(P, c, k, i)} :
                                         s.state = "absent" /\ "state" \notin s.manage}
        floating  == {i \in DOMAIN c : Anchor(P, c, k, i) = {}}
    IN  /\ \A p \in DOMAIN d : \E i \in DOMAIN c :
              d[p].rest = c[i].rest /\ d[p].manifest = c[i].manifest
        /\ \A i \in DOMAIN c : Cardinality(Now(d, c, i)) <= 1
        /\ \A i \in unmanaged :
              IF i \in unclaimed /\ ~P.keep THEN Now(d, c, i) = {}
              ELSE \E p \in DOMAIN d : d[p] = c[i]
        /\ \A i, j \in floating : \A p \in Now(d, c, i), q \in Now(d, c, j) :
              i < j => p < q

(* A write of a profile's plan touches nothing that the profile does not   *)
(* manage, and carries every unknown field along.                          *)
UnmanagedUntouched ==
    [][Writes("profile") /\ Traceable(account) =>
          Untouched(profile, account, account', plan.key)]_vars

(* A plan that was applied settles: the next plan of the same profile is   *)
(* converged, if the endpoints can be compared at all.                     *)
PlansSettle ==
    [][Writes("profile") /\ Comparable(profile) /\ world.key = plan.key =>
          /\ ~PlanRefused(profile, account', world.key)
          /\ PlanOps(profile, account', world.key) = {}]_vars

Twins(c) ==
    \E i, j \in DOMAIN c : i # j /\ Id(c[i]) = Id(c[j]) /\ c[i].url = c[j].url

AddsOrUninstallsProtected ==
    \E o \in plan.ops :
        \/ o.op = "add"
        \/ o.op = "remove" /\ plan.base[o.from].rest \in Protected

EndpointUnusable ==
    \E o \in plan.ops :
        o.op = "replaceEndpoint" /\ Resolved(o.endpoint, world.secrets) \notin Https

(* apply refuses a plan only for a reason: it adds, it uninstalls what is  *)
(* protected, an endpoint does not resolve to https, the redaction key     *)
(* changed, or two descriptors are twins.  A plan is never inconsistent.   *)
RefusedForAReason ==
    [][plan # NoPlan /\ plan' = NoPlan /\ outcome' = "invalid" =>
          \/ AddsOrUninstallsProtected
          \/ EndpointUnusable
          \/ world.key # plan.key
          \/ Twins(account)]_vars

(* The labels of a plan only mean something with the redaction key they    *)
(* were made with.  Under another key apply does not fall back on the ids: *)
(* it writes nothing, but for a plan that keeps no add-on and so relies on *)
(* no label.                                                               *)
LabelsNeedTheirKey ==
    [][plan # NoPlan /\ plan' = NoPlan /\ outcome' = "applied" =>
          world.key = plan.key \/ account' = <<>>]_vars

(* A starter profile wants what there is: planned at once it is converged. *)
(* There is one unless two descriptors are twins.                          *)
StartersAreConverged ==
    [][changes' = changes =>
          /\ outcome' = "starter" /\ Plannable(account) =>
                /\ ~PlanRefused(profile', account, world.key)
                /\ PlanOps(profile', account, world.key) = {}
          /\ outcome' = "defect" => Twins(account)]_vars

(* The collections that have the descriptors of c in some order. *)
Reorderings(c) ==
    {[i \in DOMAIN c |-> c[f[i]]] : f \in {g \in [DOMAIN c -> DOMAIN c] :
                                             \A i, j \in DOMAIN c : i # j => g[i] # g[j]}}

(* A starter profile brings the order back in which the add-ons were when  *)
(* it was made, if others moved them since, and does nothing else.         *)
StartersRestore ==
    [][Applies /\ plan.by = "profile" /\ outcome' \in {"applied", "converged"} =>
          \A c \in Reorderings(account) :
              profile \in {Starter(c, plan.key, d) : d \in Declarations} =>
                  account' = c]_vars

(* A write of a promotion replaces the endpoint and the manifest of one    *)
(* descriptor together, by the manifest that was probed when the plan was  *)
(* made and is still served where the reference points now.                *)
PromotionIsExact ==
    [][Writes("promotion") =>
          \E i \in DOMAIN account :
              /\ Id(account[i]) = promotion.mid
              /\ account' = [account EXCEPT ![i].url = world.secrets[promotion.standby],
                                            ![i].manifest = plan.standby]
              /\ world.served[account'[i].url] = plan.standby]_vars

(* A promotion that was applied settles: promoting again is converged.     *)
PromotionSettles ==
    [][Writes("promotion")
         /\ ~RefsUnusable(promotion, world.secrets) =>
          /\ ~PromotionRefused(promotion, account', world.key, world.secrets, world.served)
          /\ PromotionOps(promotion, account', world.key, world.secrets, world.served)
                = {}]_vars
=============================================================================
