------------------------- MODULE PlanAndApplyProofs -------------------------
(* Proofs about the life of a plan, for all collections, profiles,         *)
(* promotions, keys and worlds.  What they need of the planner is in       *)
(* ChangePlanProofs.                                                       *)
EXTENDS PlanAndApply, ChangePlanProofs

-----------------------------------------------------------------------------
(* Plans that construct_target accepts. *)

(* Without twins, the preserve operation of a descriptor refers to it.     *)
LEMMA SourceOfPreserve ==
    ASSUME NEW c, NEW k, NEW final, ~Twins(c), NEW i \in DOMAIN c
    PROVE  Sources(Preserve(c, k, i, final), c, k) = {i}
  <1>1. \A j \in DOMAIN c : Id(c[j]) = Id(c[i]) /\ c[j].url = c[i].url => j = i
    BY DEF Twins
  <1>2. \A j : j \in Sources(Preserve(c, k, i, final), c, k)
                 <=> j \in DOMAIN c /\ Id(c[j]) = Id(c[i]) /\ <<c[j].url, k>> = <<c[i].url, k>>
    BY DEF Sources, Preserve, Fingerprint
  <1>3. \A j : <<c[j].url, k>> = <<c[i].url, k>> <=> c[j].url = c[i].url
    OBVIOUS
  <1> QED
    BY <1>1, <1>2, <1>3

(* construct_target builds a target, unless something is added, what is    *)
(* removed is protected, an endpoint does not resolve to https or there    *)
(* are twins.                                                              *)
LEMMA ShapeConstructs ==
    ASSUME NEW ops, NEW c, NEW k, NEW final, NEW secrets,
           PlanShape(ops, c, k, final), ~Twins(c),
           OpsOf("add", ops) = {},
           \A o \in OpsOf("remove", ops) : c[o.from].rest \notin Protected,
           \A o \in OpsOf("replaceEndpoint", ops) : Resolved(o.endpoint, secrets) \in Https
    PROVE  ~ConstructRefused(ops, c, k, secrets)
  <1> DEFINE kept == OpsOf("preserve", ops)
             D    == DOMAIN final
             keep(i) == Preserve(c, k, i, final)
  <1>1. /\ Stayers(c, final) = D /\ kept = {keep(i) : i \in D}
        /\ {o.final : o \in kept} = 1..Cardinality(kept)
        /\ \A i, j \in D : final[i] = final[j] => i = j
    BY PreservesFillSlots
  <1>2. \A i \in D : i \in DOMAIN c
    BY <1>1 DEF Stayers
  <1>3. \A i \in D : Sources(keep(i), c, k) = {i}
    BY <1>2, SourceOfPreserve
  <1>4. \A i \in D : keep(i).final = final[i]
    BY DEF Preserve
  <1> HIDE DEF kept, D, keep
  <1>5. \A o \in kept : \E i \in Sources(o, c, k) : Sources(o, c, k) = {i}
    BY <1>1, <1>3
  <1>6. \A o, q \in kept : o # q => o.final # q.final
    BY <1>1, <1>4
  <1>7. ASSUME NEW o \in OpsOf("replaceEndpoint", ops)
        PROVE  SlotId(o, ops, c, k) = {o.mid}
    <2>1. PICK i \in D : o.mid = Id(c[i]) /\ o.final = final[i]
      <3>1. PICK i \in D, bound \in Manifests \cup {None} :
                o = Replacement(c, i, final, o.endpoint, bound)
        BY <1>1 DEF PlanShape
      <3>2. PICK e : o = Replacement(c, i, final, e, bound)
        BY <3>1
      <3> QED
        BY <3>2 DEF Replacement
    <2>2. {q \in kept : q.final = o.final} = {keep(i)}
      BY <1>1, <1>4, <2>1
    <2>3. UNION {Sources(q, c, k) : q \in {keep(i)}} = {i}
      BY <1>3
    <2>4. UNION {Sources(q, c, k) : q \in {r \in kept : r.final = o.final}} = {i}
      BY <2>2, <2>3
    <2> QED
      BY <2>1, <2>4 DEF SlotId, kept
  <1>8. \A o \in OpsOf("remove", ops) : ~RemovalRefused(o, c)
    BY DEF PlanShape, RemovalRefused
  <1>9. \A o \in OpsOf("replaceEndpoint", ops) : ~ReplacementRefused(o, ops, c, k, secrets)
    BY <1>7 DEF ReplacementRefused
  <1> QED
    BY <1>1, <1>5, <1>6, <1>8, <1>9 DEF ConstructRefused, kept

-----------------------------------------------------------------------------
(* The plan under review is what its command made of the account at the    *)
(* time, with the redaction key and, for a promotion, the secrets and the  *)
(* served manifests of some world, not necessarily the present one.        *)

FromProfile ==
    /\ plan.by = "profile"
    /\ plan.key \in Keys
    /\ ~PlanRefused(profile, plan.base, plan.key)
    /\ plan.ops = PlanOps(profile, plan.base, plan.key)

FromPromotion(w) ==
    /\ plan.by = "promotion"
    /\ plan.key = w.key
    /\ ~PromotionRefused(promotion, plan.base, w.key, w.secrets, w.served)
    /\ plan.ops = PromotionOps(promotion, plan.base, w.key, w.secrets, w.served)
    /\ plan.standby = w.served[w.secrets[promotion.standby]]

PlanMade == plan # NoPlan => FromProfile \/ \E w \in Worlds : FromPromotion(w)

LEMMA WorldFacts ==
    ASSUME NEW w \in Worlds
    PROVE  /\ w.key \in Keys
           /\ w.secrets \in [Refs -> Urls \cup {None}]
           /\ w.served \in [Urls -> Manifests \cup {None}]
           /\ \A u \in Urls : w.served[u] # None => IdOf[w.served[u]] # None
  <1> DEFINE named == {m \in Manifests : IdOf[m] # None}
  <1>1. w.key \in Keys /\ w.secrets \in [Refs -> Urls \cup {None}]
    BY WorldsAssumption
  <1>2. w.served \in [Urls -> named \cup {None}]
    BY WorldsAssumption
  <1>3. \A u \in Urls : w.served[u] \in named \cup {None}
    BY <1>2
  <1>4. w.served \in [Urls -> Manifests \cup {None}]
    BY <1>2, <1>3
  <1> QED
    BY <1>1, <1>3, <1>4

(* The standby a promotion found, if it was not refused.                   *)
LEMMA StandbyFacts ==
    ASSUME NEW w \in Worlds, NEW pr \in Promotions \cup {None}, NEW c, NEW k,
           ~PromotionRefused(pr, c, k, w.secrets, w.served)
    PROVE  /\ pr \in Promotions
           /\ w.secrets[pr.standby] \in Https /\ w.secrets[pr.primary] \in Https
           /\ w.secrets[pr.standby] # w.secrets[pr.primary]
           /\ w.served[w.secrets[pr.standby]] \in Manifests \cup {None}
           /\ w.served[w.secrets[pr.standby]] # None
           /\ IdOf[w.served[w.secrets[pr.standby]]] # None
           /\ ~(w.secrets[pr.standby] \in Private /\ ~pr.allowPrivate)
  <1>1. ~RefsUnusable(pr, w.secrets) /\ ~StandbyUnreachable(pr, w.secrets, w.served)
    BY DEF PromotionRefused
  <1>2. /\ pr \in Promotions
        /\ w.secrets[pr.standby] \in Https /\ w.secrets[pr.primary] \in Https
        /\ w.secrets[pr.standby] # w.secrets[pr.primary]
    BY <1>1 DEF RefsUnusable
  <1>3. w.secrets[pr.standby] \in Urls
    BY <1>2, UrlAssumption
  <1>4. /\ w.served[w.secrets[pr.standby]] # None
        /\ ~(w.secrets[pr.standby] \in Private /\ ~pr.allowPrivate)
    BY <1>1 DEF StandbyUnreachable, Probed
  <1>5. /\ w.served \in [Urls -> Manifests \cup {None}]
        /\ \A u \in Urls : w.served[u] # None => IdOf[w.served[u]] # None
    BY WorldFacts
  <1> QED
    BY <1>2, <1>3, <1>4, <1>5

(* What apply can rely on, unless there is nothing to do.                  *)
LEMMA PlanHasShape ==
    ASSUME TypeOK, PlanMade, plan # NoPlan, plan.ops # {}
    PROVE  \E final : PlanShape(plan.ops, plan.base, plan.key, final)
  <1>1. /\ profile \in Profiles /\ plan.base \in Seq(Descriptors)
        /\ promotion \in Promotions \cup {None}
    BY PlanPromotionsAssumption DEF TypeOK
  <1>2. CASE FromProfile
    BY <1>1, <1>2, PlanOpsShape DEF FromProfile
  <1>3. ASSUME NEW w \in Worlds, FromPromotion(w)
        PROVE  \E final : PlanShape(plan.ops, plan.base, plan.key, final)
    <2> DEFINE secrets == w.secrets
               served  == w.served
               c == plan.base
               k == plan.key
    <2>1. /\ ~PromotionRefused(promotion, c, k, secrets, served)
          /\ plan.ops = PromotionOps(promotion, c, k, secrets, served)
      BY <1>3 DEF FromPromotion
    <2>2. served[secrets[promotion.standby]] \in Manifests \cup {None}
      BY <1>1, <2>1, StandbyFacts
    <2>3. PlanShape(PromotionOps(promotion, c, k, secrets, served), c, k,
                    FinalIndex(PromotionProfile(promotion), c, k))
      <3> HIDE DEF secrets, served, c, k
      <3> QED
        BY <1>1, <2>1, <2>2, PromotionOpsShape DEF c
    <2> QED
      BY <2>1, <2>3
  <1> QED
    BY <1>2, <1>3 DEF PlanMade

LEMMA Invariance ==
    TypeOK /\ PlanMade /\ [Next]_vars => TypeOK' /\ PlanMade'
  <1> SUFFICES ASSUME TypeOK, PlanMade, [Next]_vars PROVE TypeOK' /\ PlanMade'
    OBVIOUS
  <1> USE DEF outside
  <1>1. /\ account \in Seq(Descriptors) /\ world \in Worlds /\ profile \in Profiles
        /\ promotion \in PlanPromotions /\ outcome \in Outcomes /\ changes \in 0..MaxChanges
        /\ changes \in Nat /\ changes \in 0..changes
        /\ plan # NoPlan => plan.base \in Seq(Descriptors) /\ plan.at \in 0..changes
    BY MaxChangesAssumption DEF TypeOK
  <1>2. CASE InitProfile
    <2>1. PICK declared \in Declarations : profile' = Starter(account, world.key, declared)
      BY <1>2 DEF InitProfile
    <2>2. profile' \in Profiles
      BY <1>1, <2>1, StarterType, WorldFacts
    <2>3. plan' = NoPlan /\ outcome' = "starter"
          /\ UNCHANGED <<account, world, promotion, plan, changes>>
      BY <1>2 DEF InitProfile
    <2> QED
      BY <1>1, <2>2, <2>3 DEF TypeOK, PlanMade, Outcomes
  <1>3. CASE PlanProfile
    <2> DEFINE ops == PlanOps(profile, account, world.key)
    <2>1. plan' = File("profile", ops, None) /\ ~PlanRefused(profile, account, world.key)
      BY <1>3 DEF PlanProfile
    <2>2. /\ plan'.by = "profile" /\ plan'.base = account /\ plan'.ops = ops
          /\ plan'.key = world.key /\ plan'.at = changes /\ plan'.key \in Keys
      BY <1>1, <2>1, WorldFacts DEF File
    <2>3. UNCHANGED outside /\ outcome' \in Outcomes
      BY <1>3 DEF PlanProfile, Written, Outcomes
    <2>4. TypeOK'
      BY <1>1, <2>2, <2>3 DEF TypeOK
    <2> QED
      BY <2>1, <2>2, <2>3, <2>4 DEF PlanMade, FromProfile
  <1>4. CASE Promote
    <2> DEFINE ops == PromotionOps(promotion, account, world.key, world.secrets, world.served)
               standby == world.served[world.secrets[promotion.standby]]
    <2>1. /\ plan' = File("promotion", ops, standby)
          /\ ~PromotionRefused(promotion, account, world.key, world.secrets, world.served)
      BY <1>4 DEF Promote
    <2>2. /\ plan'.by = "promotion" /\ plan'.base = account /\ plan'.ops = ops
          /\ plan'.key = world.key /\ plan'.at = changes /\ plan'.standby = standby
      BY <2>1 DEF File
    <2>3. UNCHANGED outside /\ outcome' \in Outcomes
      BY <1>4 DEF Promote, Written, Outcomes
    <2>4. TypeOK'
      BY <1>1, <2>2, <2>3 DEF TypeOK
    <2>5. FromPromotion(world)'
      BY <2>1, <2>2, <2>3 DEF FromPromotion
    <2>6. world' \in Worlds
      BY <1>1, <2>3
    <2> QED
      BY <2>4, <2>5, <2>6 DEF PlanMade
  (* A command that fails leaves the plan alone. *)
  <1>5. CASE InitProfileFails \/ PlanProfileRefused \/ PromoteRefused
    <2>1. UNCHANGED <<plan, outside>> /\ outcome' \in Outcomes
      BY <1>5 DEF InitProfileFails, PlanProfileRefused, PromoteRefused, Outcomes
    <2>2. TypeOK'
      BY <1>1, <2>1 DEF TypeOK
    <2>3. PlanMade'
      BY <2>1 DEF PlanMade, FromProfile, FromPromotion
    <2> QED
      BY <2>2, <2>3
  (* apply ends with no plan. *)
  <1>6. CASE Applies
    <2>1. plan' = NoPlan /\ UNCHANGED <<world, profile, promotion, changes>>
          /\ outcome' \in Outcomes
      BY <1>6 DEF Applies, ApplyDrifted, ApplyConverged, ApplyRefused, ApplyUnreachable,
                  ApplyManifestDrifted, ApplyTarget, Ends, Outcomes
    <2>2. account' \in Seq(Descriptors)
      <3>1. CASE ApplyTarget
        <4> DEFINE ops == plan.ops
                   k   == world.key
        <4>1. /\ account' = Target(plan.ops, account, world.key, world.secrets)
              /\ ~ConstructRefused(plan.ops, account, world.key, world.secrets)
              /\ plan # NoPlan /\ plan.ops # {}
          BY <3>1 DEF ApplyTarget, Constructs, InSync
        <4>2. PICK final : PlanShape(plan.ops, plan.base, plan.key, final)
          BY <4>1, PlanHasShape
        <4>3. IsFiniteSet(OpsOf("preserve", plan.ops))
          <5>1. OpsOf("add", plan.ops) = {}
            BY <4>1 DEF ConstructRefused
          <5> QED
            BY <4>2, <5>1, PreservesFillSlots
        <4>4. \A o \in OpsOf("replaceEndpoint", plan.ops) : o.bound \in Manifests \cup {None}
          <5> SUFFICES ASSUME NEW o \in OpsOf("replaceEndpoint", plan.ops)
                       PROVE  o.bound \in Manifests \cup {None}
            OBVIOUS
          <5>1. PICK i \in Stayers(plan.base, final), b \in Manifests \cup {None} :
                    o = Replacement(plan.base, i, final, o.endpoint, b)
            BY <4>2 DEF PlanShape
          <5>2. PICK e : o = Replacement(plan.base, i, final, e, b)
            BY <5>1
          <5> QED
            BY <5>2 DEF Replacement
        <4> QED
          BY <1>1, <4>1, <4>3, <4>4, TargetType
      <3>2. CASE ~ApplyTarget
        BY <1>1, <1>6, <3>2 DEF Applies, ApplyDrifted, ApplyConverged, ApplyRefused,
                                ApplyUnreachable, ApplyManifestDrifted
      <3> QED
        BY <3>1, <3>2
    <2> QED
      BY <1>1, <2>1, <2>2 DEF TypeOK, PlanMade
  <1>7. CASE EditAccount
    <2>1. account' \in Seq(Descriptors) /\ changes' = changes + 1 /\ changes < MaxChanges
          /\ UNCHANGED <<world, profile, promotion, plan, outcome>>
      BY <1>7, AccountsAssumption DEF EditAccount
    <2>2. changes' \in 0..MaxChanges /\ (plan # NoPlan => plan'.at \in 0..changes')
      BY <1>1, <2>1, MaxChangesAssumption
    <2>3. TypeOK'
      BY <1>1, <2>1, <2>2 DEF TypeOK
    <2>4. PlanMade'
      BY <2>1 DEF PlanMade, FromProfile, FromPromotion
    <2> QED
      BY <2>3, <2>4
  <1>8. CASE ChangeWorld
    <2>1. world' \in Worlds /\ changes' = changes + 1 /\ changes < MaxChanges
          /\ UNCHANGED <<account, profile, promotion, plan, outcome>>
      BY <1>8 DEF ChangeWorld
    <2>2. changes' \in 0..MaxChanges /\ (plan # NoPlan => plan'.at \in 0..changes')
      BY <1>1, <2>1, MaxChangesAssumption
    <2>3. TypeOK'
      BY <1>1, <2>1, <2>2 DEF TypeOK
    <2>4. PlanMade'
      BY <2>1 DEF PlanMade, FromProfile, FromPromotion
    <2> QED
      BY <2>3, <2>4
  <1>9. CASE UNCHANGED vars
    <2>1. UNCHANGED <<account, world, profile, promotion, plan, outcome, changes>>
      BY <1>9 DEF vars
    <2>2. TypeOK'
      BY <1>1, <2>1 DEF TypeOK
    <2>3. PlanMade'
      BY <2>1 DEF PlanMade, FromProfile, FromPromotion
    <2> QED
      BY <2>2, <2>3
  <1> QED
    BY <1>2, <1>3, <1>4, <1>5, <1>6, <1>7, <1>8, <1>9 DEF Next, Inits, Plans

LEMMA Initially == Init => TypeOK /\ PlanMade
  BY AccountsAssumption, PlanProfilesAssumption, MaxChangesAssumption
     DEF Init, TypeOK, PlanMade, Outcomes

(* Every collection of the account is made of descriptors: no reference,   *)
(* no absent URL and no absent manifest is ever written to it.             *)
THEOREM PlanTypeCorrect == Spec => []TypeOK
  <1>1. Spec => [](TypeOK /\ PlanMade)
    BY Initially, Invariance, PTL DEF Spec
  <1> QED
    BY <1>1, PTL

(* apply refuses a plan only for a reason: whatever the plan was made of,  *)
(* its operations are consistent with the collection it was made for.      *)
THEOREM RefusalsHaveReasons == Spec => RefusedForAReason
  <1> DEFINE Reason ==
               \/ AddsOrUninstallsProtected
               \/ EndpointUnusable
               \/ world.key # plan.key
               \/ Twins(account)
             Step == plan # NoPlan /\ plan' = NoPlan /\ outcome' = "invalid" => Reason
  <1>1. TypeOK /\ PlanMade /\ [Next]_vars => [Step]_vars
    <2> SUFFICES ASSUME TypeOK, PlanMade, Next,
                        plan # NoPlan, plan' = NoPlan, outcome' = "invalid", ~Reason
                 PROVE  FALSE
      OBVIOUS
    <2>1. ApplyRefused
      <3>1. ~Inits /\ ~Plans
        <4>1. ~Inits
          BY DEF Inits, InitProfile, InitProfileFails
        <4>2. ~PlanProfileRefused /\ ~PromoteRefused
          BY DEF PlanProfileRefused, PromoteRefused
        <4>3. ~PlanProfile /\ ~Promote
          BY DEF PlanProfile, Promote, Written
        <4> QED
          BY <4>1, <4>2, <4>3 DEF Plans
      <3>2. ~EditAccount /\ ~ChangeWorld
        BY DEF EditAccount, ChangeWorld
      <3>3. ~(ApplyDrifted \/ ApplyConverged \/ ApplyUnreachable \/ ApplyManifestDrifted
              \/ ApplyTarget)
        BY DEF ApplyDrifted, ApplyConverged, ApplyUnreachable, ApplyManifestDrifted,
               ApplyTarget, Ends
      <3> QED
        BY <3>1, <3>2, <3>3 DEF Next, Applies
    <2>2. /\ account = plan.base /\ plan.ops # {} /\ world.key = plan.key /\ ~Twins(account)
          /\ ConstructRefused(plan.ops, account, world.key, world.secrets)
      BY <2>1 DEF ApplyRefused, InSync
    <2>3. PICK final : PlanShape(plan.ops, account, world.key, final)
      BY <2>2, PlanHasShape
    <2>4. OpsOf("add", plan.ops) = {}
      BY DEF AddsOrUninstallsProtected, OpsOf
    <2>5. \A o \in OpsOf("remove", plan.ops) : account[o.from].rest \notin Protected
      BY <2>2 DEF AddsOrUninstallsProtected, OpsOf
    <2>6. \A o \in OpsOf("replaceEndpoint", plan.ops) : Resolved(o.endpoint, world.secrets) \in Https
      BY DEF EndpointUnusable, OpsOf
    <2> QED
      BY <2>2, <2>3, <2>4, <2>5, <2>6, ShapeConstructs
  <1>2. Spec => [](TypeOK /\ PlanMade)
    BY Initially, Invariance, PTL DEF Spec
  <1>3. Spec => [][Step]_vars
    BY <1>1, <1>2, PTL DEF Spec
  <1> QED
    BY <1>3 DEF RefusedForAReason

-----------------------------------------------------------------------------
(* Promotions. *)

(* The plan of a promotion, applied later, replaces the endpoint and the   *)
(* manifest of the primary and nothing else.                               *)
LEMMA PromotedTarget ==
    ASSUME NEW w \in Worlds, NEW pr \in Promotions \cup {None},
           NEW c \in Seq(Descriptors), NEW key, NEW secrets,
           ~PromotionRefused(pr, c, w.key, w.secrets, w.served),
           PromotionOps(pr, c, w.key, w.secrets, w.served) # {},
           ~ConstructRefused(PromotionOps(pr, c, w.key, w.secrets, w.served), c, key, secrets)
    PROVE  LET ops     == PromotionOps(pr, c, w.key, w.secrets, w.served)
               standby == w.served[w.secrets[pr.standby]]
           IN  \E i \in DOMAIN c :
                  /\ Id(c[i]) = pr.mid
                  /\ Target(ops, c, key, secrets)
                       = [c EXCEPT ![i].url = secrets[pr.standby], ![i].manifest = standby]
                  /\ \E o \in ops : /\ o.op = "replaceEndpoint" /\ o.bound = standby
                                    /\ o.endpoint = pr.standby
  <1> DEFINE k       == w.key
             ops     == PromotionOps(pr, c, w.key, w.secrets, w.served)
             standby == w.served[w.secrets[pr.standby]]
             P       == PromotionProfile(pr)
             final   == FinalIndex(P, c, k)
             target  == Target(ops, c, key, secrets)
  <1>1. pr \in Promotions /\ standby \in Manifests \cup {None} /\ standby # None
    BY StandbyFacts
  <1>2. /\ ~PlanRefused(P, c, k) /\ PlanOps(P, c, k) # {}
        /\ ops = {Bind(o, standby) : o \in PlanOps(P, c, k)}
        /\ PlanShape(ops, c, k, final)
    BY <1>1, PromotionOpsShape
  <1>3. /\ final = [x \in DOMAIN c |-> x]
        /\ \A i, j \in DOMAIN c : Id(c[i]) = pr.mid /\ Id(c[j]) = pr.mid => i = j
        /\ \A o \in PlanOps(P, c, k) :
              \/ o.op = "preserve"
              \/ \E i \in DOMAIN c :
                    Id(c[i]) = pr.mid /\ o = Replacement(c, i, final, pr.standby, None)
        /\ \E o \in PlanOps(P, c, k) : o.op = "replaceEndpoint"
    BY <1>1, <1>2, PromotionPlanOps
  <1>4. ~ConstructRefused(ops, c, key, secrets)
    OBVIOUS
  <1> HIDE DEF k, ops, standby, P, final
  <1>5. PICK q \in PlanOps(P, c, k) : q.op = "replaceEndpoint"
    BY <1>3
  <1>6. PICK i \in DOMAIN c : Id(c[i]) = pr.mid /\ q = Replacement(c, i, final, pr.standby, None)
    BY <1>3, <1>5
  <1> DEFINE R == Replacement(c, i, final, pr.standby, standby)
  <1>7. \A j \in DOMAIN c : Bind(Replacement(c, j, final, pr.standby, None), standby)
                              = Replacement(c, j, final, pr.standby, standby)
    BY DEF Bind, Replacement
  <1>8. Bind(q, standby) = R /\ R \in ops
    BY <1>2, <1>6, <1>7
  <1>9. OpsOf("replaceEndpoint", ops) = {R}
    <2>1. R.op = "replaceEndpoint"
      BY DEF Replacement
    <2>2. ASSUME NEW o \in ops, o.op = "replaceEndpoint" PROVE o = R
      <3>1. PICK x \in PlanOps(P, c, k) : o = Bind(x, standby)
        BY <1>2
      <3>2. x.op # "preserve"
        BY <2>2, <3>1 DEF Bind
      <3>3. PICK j \in DOMAIN c : /\ Id(c[j]) = pr.mid
                                  /\ x = Replacement(c, j, final, pr.standby, None)
        BY <1>3, <3>2
      <3>4. j = i
        BY <1>3, <1>6, <3>3
      <3> QED
        BY <1>7, <3>1, <3>3, <3>4
    <2> HIDE DEF R
    <2> QED
      BY <1>8, <2>1, <2>2 DEF OpsOf
  <1>10. R.final = final[i] /\ R.bound = standby /\ R.endpoint = pr.standby
         /\ R.op = "replaceEndpoint"
    BY DEF Replacement
  <1> HIDE DEF R
  <1>11. /\ DOMAIN final = DOMAIN c
         /\ \A x \in DOMAIN c : final[x] = x
    BY <1>3
  <1>12. \A x \in DOMAIN c : Over(ops, final[x]) = IF x = i THEN {R} ELSE {}
    BY <1>6, <1>9, <1>10, <1>11 DEF Over
  <1>13. /\ target = [p \in 1..Cardinality(DOMAIN final) |-> target[p]]
         /\ \A x \in DOMAIN final :
               target[final[x]] =
                 IF Over(ops, final[x]) = {} THEN c[x]
                 ELSE Replaced(c[x], CHOOSE o \in Over(ops, final[x]) : TRUE, secrets)
    BY <1>2, <1>4, TargetOfShape
  <1>14. 1..Cardinality(DOMAIN final) = DOMAIN c
    <2>1. Len(c) \in Nat /\ DOMAIN c = 1..Len(c)
      OBVIOUS
    <2> QED
      BY <1>11, <2>1, FS_Interval
  <1> HIDE DEF target
  <1>15. DOMAIN target = DOMAIN c /\ target = [p \in DOMAIN c |-> target[p]]
    BY <1>13, <1>14
  <1>16. \A x \in DOMAIN c : x # i => target[x] = c[x]
    BY <1>11, <1>12, <1>13
  <1>17. target[i] = Replaced(c[i], R, secrets)
    <2>1. Over(ops, final[i]) = {R}
      BY <1>12
    <2>2. (CHOOSE o \in {R} : TRUE) = R
      OBVIOUS
    <2> QED
      BY <1>6, <1>11, <1>13, <2>1, <2>2
  <1>18. target[i] = [manifest |-> standby, url |-> secrets[pr.standby], rest |-> c[i].rest]
    <2>1. pr.standby \in Refs
      BY <1>1 DEF Promotions
    <2> QED
      BY <1>1, <1>10, <1>17, <2>1 DEF Replaced, Resolved
  <1>19. target = [c EXCEPT ![i].url = secrets[pr.standby], ![i].manifest = standby]
    <2> DEFINE e == [c EXCEPT ![i].url = secrets[pr.standby], ![i].manifest = standby]
    <2>1. c[i] \in Descriptors /\ c = [x \in DOMAIN c |-> c[x]]
      OBVIOUS
    <2>2. c[i] = [manifest |-> c[i].manifest, url |-> c[i].url, rest |-> c[i].rest]
      BY <2>1 DEF Descriptors
    <2>3. DOMAIN e = DOMAIN c /\ \A x \in DOMAIN c : x # i => e[x] = c[x]
      BY <2>1
    <2>4. e[i] = [manifest |-> standby, url |-> secrets[pr.standby], rest |-> c[i].rest]
      BY <2>1, <2>2
    <2>5. e = [x \in DOMAIN c |-> e[x]]
      BY <2>1
    <2> HIDE DEF e
    <2>6. \A x \in DOMAIN c : e[x] = target[x]
      BY <1>16, <1>18, <2>3, <2>4
    <2>7. e = target
      BY <1>15, <2>5, <2>6
    <2> QED
      BY <2>7 DEF e
  <1> QED
    BY <1>6, <1>8, <1>10, <1>19 DEF ops, standby, target

(* What a write does: the target of the plan under review is made of the   *)
(* collection it was made for, and every bound manifest is served.         *)
LEMMA WriteFacts ==
    ASSUME Next, plan # NoPlan, plan' = NoPlan, outcome' = "applied"
    PROVE  /\ account = plan.base /\ plan.ops # {}
           /\ ~ConstructRefused(plan.ops, account, world.key, world.secrets)
           /\ \A o \in Bound : Refetched(o) = o.bound
           /\ account' = Target(plan.ops, account, world.key, world.secrets)
           /\ UNCHANGED <<world, profile, promotion, changes>>
  <1>1. ~Inits
    BY DEF Inits, InitProfile, InitProfileFails
  <1>2. ~Plans
    BY DEF Plans, PlanProfile, PlanProfileRefused, Promote, PromoteRefused, Written
  <1>3. ~EditAccount /\ ~ChangeWorld
    BY DEF EditAccount, ChangeWorld
  <1>4. ~(ApplyDrifted \/ ApplyConverged \/ ApplyRefused \/ ApplyUnreachable
          \/ ApplyManifestDrifted)
    BY DEF ApplyDrifted, ApplyConverged, ApplyRefused, ApplyUnreachable,
           ApplyManifestDrifted, Ends
  <1>5. ApplyTarget
    BY <1>1, <1>2, <1>3, <1>4 DEF Next, Applies
  <1> QED
    BY <1>5 DEF ApplyTarget, Constructs, InSync, Ends

(* A preserve operation refers to nothing under another key, so a target   *)
(* that is built under another key keeps nothing.                          *)
LEMMA ForeignKeyKeepsNothing ==
    ASSUME NEW ops, NEW c, NEW key, NEW k, NEW final, NEW secrets, k # key,
           PlanShape(ops, c, key, final), ~ConstructRefused(ops, c, k, secrets)
    PROVE  Target(ops, c, k, secrets) = <<>>
  <1>1. ASSUME NEW o \in OpsOf("preserve", ops) PROVE FALSE
    <2>1. PICK i \in Stayers(c, final) : o.label = <<c[i].url, key>>
      BY DEF PlanShape, Preserves, Fingerprint
    <2>2. \E j \in DOMAIN c : <<c[j].url, k>> = o.label
      BY DEF ConstructRefused, Sources, Fingerprint
    <2> QED
      BY <2>1, <2>2
  <1>2. Cardinality(OpsOf("preserve", ops)) = 0
    BY <1>1, FS_EmptySet
  <1> QED
    BY <1>2 DEF Target

(* Whatever changed since a plan was made: under another redaction key it  *)
(* is not applied, unless it keeps nothing.                                *)
THEOREM LabelsBindTheKey == Spec => LabelsNeedTheirKey
  <1> DEFINE Step == plan # NoPlan /\ plan' = NoPlan /\ outcome' = "applied" =>
                         world.key = plan.key \/ account' = <<>>
  <1>1. TypeOK /\ PlanMade /\ [Next]_vars => [Step]_vars
    <2> SUFFICES ASSUME TypeOK, PlanMade, Next, plan # NoPlan, plan' = NoPlan,
                        outcome' = "applied", world.key # plan.key
                 PROVE  account' = <<>>
      OBVIOUS
    <2>1. /\ account = plan.base /\ plan.ops # {}
          /\ ~ConstructRefused(plan.ops, account, world.key, world.secrets)
          /\ account' = Target(plan.ops, account, world.key, world.secrets)
      BY WriteFacts
    <2>2. PICK final : PlanShape(plan.ops, account, plan.key, final)
      BY <2>1, PlanHasShape
    <2> QED
      BY <2>1, <2>2, ForeignKeyKeepsNothing
  <1>2. Spec => [](TypeOK /\ PlanMade)
    BY Initially, Invariance, PTL DEF Spec
  <1>3. Spec => [][Step]_vars
    BY <1>1, <1>2, PTL DEF Spec
  <1> QED
    BY <1>3 DEF LabelsNeedTheirKey

LEMMA PromotionWrite ==
    ASSUME TypeOK, PlanMade, Next, Writes("promotion")
    PROVE  \E i \in DOMAIN account, w \in Worlds :
              /\ FromPromotion(w)
              /\ account = plan.base
              /\ Id(account[i]) = promotion.mid
              /\ account' = [account EXCEPT ![i].url = world.secrets[promotion.standby],
                                            ![i].manifest = plan.standby]
              /\ world.secrets[promotion.standby] \in Https \ Private
              /\ world.served[world.secrets[promotion.standby]] = plan.standby
              /\ plan.standby # None
              /\ UNCHANGED <<world, promotion>>
  <1>1. /\ account = plan.base /\ plan.ops # {}
        /\ ~ConstructRefused(plan.ops, account, world.key, world.secrets)
        /\ \A o \in Bound : Refetched(o) = o.bound
        /\ account' = Target(plan.ops, account, world.key, world.secrets)
        /\ UNCHANGED <<world, promotion>>
    BY WriteFacts DEF Writes
  <1>2. PICK w \in Worlds : FromPromotion(w)
    BY DEF Writes, PlanMade, FromProfile
  <1>3. /\ promotion \in Promotions \cup {None} /\ account \in Seq(Descriptors)
    BY PlanPromotionsAssumption DEF TypeOK
  <1>4. /\ ~PromotionRefused(promotion, account, w.key, w.secrets, w.served)
        /\ plan.ops = PromotionOps(promotion, account, w.key, w.secrets, w.served)
        /\ plan.standby = w.served[w.secrets[promotion.standby]]
    BY <1>1, <1>2 DEF FromPromotion
  <1>5. /\ promotion \in Promotions /\ plan.standby # None
    BY <1>3, <1>4, StandbyFacts
  <1>6. PICK i \in DOMAIN account :
           /\ Id(account[i]) = promotion.mid
           /\ Target(plan.ops, account, world.key, world.secrets)
                = [account EXCEPT ![i].url = world.secrets[promotion.standby],
                                  ![i].manifest = plan.standby]
           /\ \E o \in plan.ops : /\ o.op = "replaceEndpoint" /\ o.bound = plan.standby
                                  /\ o.endpoint = promotion.standby
    <2> DEFINE c       == account
               pr      == promotion
               key     == world.key
               secrets == world.secrets
               ops     == PromotionOps(pr, c, w.key, w.secrets, w.served)
               standby == w.served[w.secrets[pr.standby]]
    <2>1. /\ pr \in Promotions \cup {None} /\ c \in Seq(Descriptors)
          /\ ~PromotionRefused(pr, c, w.key, w.secrets, w.served)
          /\ ops # {} /\ ~ConstructRefused(ops, c, key, secrets)
      BY <1>1, <1>3, <1>4
    <2> HIDE DEF c, pr, key, secrets
    <2>2. \E i \in DOMAIN c :
             /\ Id(c[i]) = pr.mid
             /\ Target(ops, c, key, secrets)
                  = [c EXCEPT ![i].url = secrets[pr.standby], ![i].manifest = standby]
             /\ \E o \in ops : /\ o.op = "replaceEndpoint" /\ o.bound = standby
                               /\ o.endpoint = pr.standby
      BY <2>1, PromotedTarget
    <2> HIDE DEF ops, standby
    <2>3. ops = plan.ops /\ standby = plan.standby
      BY <1>4 DEF ops, standby, c, pr
    <2> QED
      BY <2>2, <2>3 DEF c, pr, key, secrets
  <1>7. PICK o \in plan.ops : /\ o.op = "replaceEndpoint" /\ o.bound = plan.standby
                              /\ o.endpoint = promotion.standby
    BY <1>6
  <1>8. Resolved(o.endpoint, world.secrets) = world.secrets[promotion.standby]
    BY <1>5, <1>7 DEF Resolved, Promotions
  <1>9. Resolved(o.endpoint, world.secrets) \in Https
    BY <1>1, <1>7 DEF ConstructRefused, ReplacementRefused, OpsOf
  <1>10. Refetched(o) = plan.standby
    BY <1>1, <1>5, <1>7 DEF Bound
  <1>11. /\ world.secrets[promotion.standby] \notin Private
         /\ world.served[world.secrets[promotion.standby]] = plan.standby
    BY <1>5, <1>8, <1>10 DEF Refetched, Probed
  <1> QED
    BY <1>1, <1>2, <1>5, <1>6, <1>8, <1>9, <1>11

(* A write of a promotion replaces the endpoint and the manifest of one    *)
(* descriptor together, by the manifest that was probed when the plan was  *)
(* made and is still served where the reference points now.                *)
THEOREM PromotionsAreExact == Spec => PromotionIsExact
  <1> DEFINE Exact ==
               \E i \in DOMAIN account :
                  /\ Id(account[i]) = promotion.mid
                  /\ account' = [account EXCEPT ![i].url = world.secrets[promotion.standby],
                                                ![i].manifest = plan.standby]
                  /\ world.served[account'[i].url] = plan.standby
  <1>1. TypeOK /\ PlanMade /\ [Next]_vars => [Writes("promotion") => Exact]_vars
    <2> SUFFICES ASSUME TypeOK, PlanMade, Next, Writes("promotion") PROVE Exact
      OBVIOUS
    <2>1. PICK i \in DOMAIN account :
             /\ Id(account[i]) = promotion.mid
             /\ account' = [account EXCEPT ![i].url = world.secrets[promotion.standby],
                                           ![i].manifest = plan.standby]
             /\ world.served[world.secrets[promotion.standby]] = plan.standby
      BY PromotionWrite
    <2>2. account \in Seq(Descriptors) /\ account[i] \in Descriptors
      BY DEF TypeOK
    <2>3. account'[i].url = world.secrets[promotion.standby]
      BY <2>1, <2>2 DEF Descriptors
    <2> QED
      BY <2>1, <2>3
  <1>2. Spec => [](TypeOK /\ PlanMade)
    BY Initially, Invariance, PTL DEF Spec
  <1>3. Spec => [][Writes("promotion") => Exact]_vars
    BY <1>1, <1>2, PTL DEF Spec
  <1> QED
    BY <1>3 DEF PromotionIsExact

(* A promotion that was applied settles: promoting again is converged.     *)
THEOREM PromotionsConverge == Spec => PromotionSettles
  <1> DEFINE Again ==
               /\ ~PromotionRefused(promotion, account', world.key, world.secrets, world.served)
               /\ PromotionOps(promotion, account', world.key, world.secrets, world.served) = {}
             Step == Writes("promotion") /\ ~RefsUnusable(promotion, world.secrets) => Again
  <1>1. TypeOK /\ PlanMade /\ [Next]_vars => [Step]_vars
    <2> SUFFICES ASSUME TypeOK, PlanMade, Next, Writes("promotion"),
                        ~RefsUnusable(promotion, world.secrets)
                 PROVE  Again
      OBVIOUS
    <2>1. PICK i \in DOMAIN account, w \in Worlds :
             /\ FromPromotion(w)
             /\ account = plan.base
             /\ Id(account[i]) = promotion.mid
             /\ account' = [account EXCEPT ![i].url = world.secrets[promotion.standby],
                                           ![i].manifest = plan.standby]
             /\ world.secrets[promotion.standby] \in Https \ Private
             /\ world.served[world.secrets[promotion.standby]] = plan.standby
             /\ plan.standby # None
      BY PromotionWrite
    <2>2. promotion \in Promotions \cup {None} /\ account \in Seq(Descriptors)
      BY PlanPromotionsAssumption DEF TypeOK
    <2>3. /\ ~PromotionRefused(promotion, account, plan.key, w.secrets, w.served)
          /\ plan.standby = w.served[w.secrets[promotion.standby]]
      BY <2>1 DEF FromPromotion
    <2> DEFINE pr      == promotion
               c       == account
               d       == account'
               k       == world.key
               secrets == world.secrets
               served  == world.served
               standby == plan.standby
    <2>4. /\ pr \in Promotions \cup {None} /\ c \in Seq(Descriptors)
          /\ standby # None /\ Cardinality(Installed(pr, c, standby)) = 1
          /\ i \in DOMAIN c /\ Id(c[i]) = pr.mid
          /\ DOMAIN d = DOMAIN c /\ \A x \in DOMAIN c : x # i => d[x] = c[x]
          /\ d[i].url = secrets[pr.standby] /\ d[i].manifest = standby
          /\ secrets[pr.standby] \notin Private /\ served[secrets[pr.standby]] = standby
          /\ ~RefsUnusable(pr, secrets)
      <3>1. account[i] \in Descriptors
        BY <2>2
      <3>2. /\ DOMAIN account' = DOMAIN account
            /\ \A x \in DOMAIN account : x # i => account'[x] = account[x]
            /\ account'[i].url = world.secrets[promotion.standby]
            /\ account'[i].manifest = plan.standby
        BY <2>1, <2>2, <3>1 DEF Descriptors
      <3> QED
        BY <2>1, <2>2, <2>3, <3>2 DEF PromotionRefused, PromotionMismatch
    <2> HIDE DEF pr, c, d, k, secrets, served, standby
    <2>5. /\ ~PromotionRefused(pr, d, k, secrets, served)
          /\ PromotionOps(pr, d, k, secrets, served) = {}
      BY <2>4, PromotedIsConverged, ZenonT(60)
    <2> QED
      BY <2>5 DEF pr, d, k, secrets, served
  <1>2. Spec => [](TypeOK /\ PlanMade)
    BY Initially, Invariance, PTL DEF Spec
  <1>3. Spec => [][Step]_vars
    BY <1>1, <1>2, PTL DEF Spec
  <1> QED
    BY <1>3 DEF PromotionSettles

-----------------------------------------------------------------------------
(* Desired profiles. *)

(* A descriptor that stays is where it is placed, one that does not is     *)
(* nowhere.                                                                *)
LEMMA NowApplied ==
    ASSUME NEW P, NEW c, NEW k, NEW secrets, NEW d, Placed(P, c, k, secrets, d),
           Traceable(c), NEW i \in DOMAIN c
    PROVE  Now(d, c, i)
             = IF i \in Dropped(P, c, k) THEN {} ELSE {FinalIndex(P, c, k)[i]}
  <1> DEFINE items == DOMAIN c \ Dropped(P, c, k)
             final == FinalIndex(P, c, k)
  <1>1. /\ \A j \in items : final[j] \in DOMAIN d /\ d[final[j]].rest = c[j].rest
        /\ \A p \in DOMAIN d : \E j \in items : final[j] = p
    BY DEF Placed
  <1> HIDE DEF final
  <1>2. \A j \in DOMAIN c : c[j].rest = c[i].rest => j = i
    BY DEF Traceable
  <1>3. ASSUME NEW p \in DOMAIN d, d[p].rest = c[i].rest
        PROVE  i \in items /\ p = final[i]
    <2>1. PICK j \in items : final[j] = p
      BY <1>1
    <2>2. j = i
      BY <1>1, <1>2, <1>3, <2>1
    <2> QED
      BY <2>1, <2>2
  <1>4. Now(d, c, i) = {p \in DOMAIN d : d[p].rest = c[i].rest}
    BY DEF Now
  <1>5. i \in Dropped(P, c, k) => Now(d, c, i) = {}
    BY <1>3, <1>4
  <1>6. i \notin Dropped(P, c, k) => Now(d, c, i) = {final[i]}
    BY <1>1, <1>3, <1>4
  <1> QED
    BY <1>5, <1>6 DEF final

LEMMA AppliedIsDesired ==
    ASSUME NEW P \in Profiles, NEW c \in Seq(Descriptors), NEW k \in Keys, NEW secrets,
           NEW d, ~PlanRefused(P, c, k), Placed(P, c, k, secrets, d), Traceable(c)
    PROVE  Desired(P, c, d, k, secrets)
  <1> DEFINE final == FinalIndex(P, c, k)
  <1>0. Unambiguous(P, c, k) /\ Placeable(P, c, k)
    BY DEF PlanRefused
  <1>1. ASSUME NEW a \in DOMAIN P.addons, NEW i \in Candidates(P.addons[a], c, k)
        PROVE  LET s == P.addons[a]
               IN  IF s.state = "absent"
                   THEN "state" \in s.manage => Now(d, c, i) = {}
                   ELSE /\ Cardinality(Now(d, c, i)) = 1
                        /\ "position" \in s.manage /\ s.position # None
                             => Now(d, c, i) = {s.position}
                        /\ \A p \in Now(d, c, i) :
                             d[p].url = IF "endpoint" \in s.manage /\ s.endpoint # None
                                           /\ (s.endpoint \in Refs => s.fp = None)
                                        THEN Resolved(s.endpoint, secrets) ELSE c[i].url
    <2> DEFINE s == P.addons[a]
    <2>1. i \in DOMAIN c /\ (s.fp # None => Fingerprint(c[i].url, k) = s.fp)
      BY DEF Candidates
    <2>2. a \in Claimants(P, c, k, i)
      BY <2>1 DEF Claimants
    <2>3. /\ s.state = "present" <=> a \in Owner(P, c, k, i)
          /\ \A b \in Claimants(P, c, k, i) : b = a
          /\ Owner(P, c, k, i) \subseteq Claimants(P, c, k, i)
      BY <1>0, <2>1, <2>2, OwnerFacts
    <2>4. Now(d, c, i) = IF i \in Dropped(P, c, k) THEN {} ELSE {final[i]}
      BY <2>1, NowApplied
    <2>5. s.state \in {"present", "absent"} /\ s.endpoint \in Urls \cup Refs \cup {None}
      BY SpecFacts
    <2> HIDE DEF final
    <2>6. CASE s.state = "absent"
      <3>1. "state" \in s.manage => i \in Dropped(P, c, k)
        BY <2>1, <2>2, <2>6 DEF Dropped
      <3> QED
        BY <2>4, <2>6, <3>1
    <2>7. CASE s.state = "present"
      <3>1. i \notin Dropped(P, c, k)
        <4>1. \A b \in Claimants(P, c, k, i) : P.addons[b].state # "absent"
          BY <2>3, <2>7
        <4> QED
          BY <2>2, <4>1 DEF Dropped
      <3>2. Now(d, c, i) = {final[i]}
        BY <2>4, <3>1
      <3>3. Cardinality(Now(d, c, i)) = 1
        BY <3>2, FS_Singleton
      <3>4. a \in Owner(P, c, k, i) /\ Owner(P, c, k, i) = {a}
        BY <2>3, <2>7
      <3>5. ASSUME "position" \in s.manage, s.position # None PROVE final[i] = s.position
        <4>1. Anchor(P, c, k, i) = {s.position}
          BY <3>4, <3>5 DEF Anchor
        <4>2. i \in Items(P, c, k)
          BY <2>1, <3>1 DEF Items
        <4>3. final[i] \in Anchor(P, c, k, i)
          <5> DEFINE rest == {x \in Items(P, c, k) : Anchor(P, c, k, x) = {}}
          <5>1. \A x \in Items(P, c, k) \ rest : final[x] \in Anchor(P, c, k, x)
            BY <1>0, FinalValues DEF final
          <5> QED
            BY <4>1, <4>2, <5>1
        <4> QED
          BY <4>1, <4>3
      <3>6. d[final[i]].url = IF "endpoint" \in s.manage /\ s.endpoint # None
                                 /\ (s.endpoint \in Refs => s.fp = None)
                              THEN Resolved(s.endpoint, secrets) ELSE c[i].url
        <4>1. /\ NeedsEndpoint(s, c[i].url, k) => d[final[i]].url = Resolved(s.endpoint, secrets)
              /\ ~NeedsEndpoint(s, c[i].url, k) => d[final[i]] = c[i]
          <5>1. i \in DOMAIN c \ Dropped(P, c, k)
            BY <2>1, <3>1
          <5>2. \A b \in Owner(P, c, k, i) :
                   NeedsEndpoint(P.addons[b], c[i].url, k) =>
                       d[final[i]].url = Resolved(P.addons[b].endpoint, secrets)
            BY <5>1 DEF Placed, final
          <5>3. (\A b \in Owner(P, c, k, i) : ~NeedsEndpoint(P.addons[b], c[i].url, k))
                   => d[final[i]] = c[i]
            BY <5>1 DEF Placed, final
          <5> QED
            BY <3>4, <5>2, <5>3
        <4>2. c[i].url \in Urls /\ Fingerprint(c[i].url, k) # None
          <5>1. c[i] \in Descriptors
            BY <2>1, DomainFacts
          <5> QED
            BY <5>1, NoneAssumption DEF Descriptors, Fingerprint
        <4> HIDE DEF s
        <4>3. CASE "endpoint" \in s.manage /\ s.endpoint # None /\ s.endpoint \in Urls
          <5>1. s.endpoint \notin Refs /\ Resolved(s.endpoint, secrets) = s.endpoint
            BY <4>3, EndpointAssumption DEF Resolved
          <5>2. ~NeedsEndpoint(s, c[i].url, k) => c[i].url = s.endpoint
            BY <4>3 DEF NeedsEndpoint, Fingerprint
          <5> QED
            BY <4>1, <4>3, <5>1, <5>2
        <4>4. CASE "endpoint" \in s.manage /\ s.endpoint \in Refs
          <5>1. s.endpoint \notin Urls /\ s.endpoint # None
            BY <4>4, EndpointAssumption
          <5>2. NeedsEndpoint(s, c[i].url, k) <=> s.fp = None
            BY <2>1, <4>2, <4>4, <5>1 DEF NeedsEndpoint, s
          <5> QED
            BY <4>1, <4>4, <5>1, <5>2
        <4>5. CASE ~("endpoint" \in s.manage /\ s.endpoint # None)
          <5>1. ~NeedsEndpoint(s, c[i].url, k)
            BY <4>5 DEF NeedsEndpoint
          <5> QED
            BY <4>1, <4>5, <5>1
        <4> QED
          BY <2>5, <4>3, <4>4, <4>5 DEF s
      <3> QED
        BY <2>7, <3>2, <3>3, <3>5, <3>6
    <2> QED
      BY <2>5, <2>6, <2>7
  <1> QED
    BY <1>1 DEF Desired

LEMMA AppliedIsUntouched ==
    ASSUME NEW P \in Profiles, NEW c \in Seq(Descriptors), NEW k \in Keys, NEW secrets,
           NEW d, ~PlanRefused(P, c, k), Placed(P, c, k, secrets, d), Traceable(c)
    PROVE  Untouched(P, c, d, k)
  <1> DEFINE items == DOMAIN c \ Dropped(P, c, k)
             final == FinalIndex(P, c, k)
             unclaimed == {i \in DOMAIN c : Claimants(P, c, k, i) = {}}
             unmanaged == {i \in DOMAIN c : \A s \in {P.addons[a] : a \in Claimants(P, c, k, i)} :
                                              s.state = "absent" /\ "state" \notin s.manage}
             floating  == {i \in DOMAIN c : Anchor(P, c, k, i) = {}}
  <1>0. Unambiguous(P, c, k) /\ Placeable(P, c, k)
    BY DEF PlanRefused
  <1>1. /\ Items(P, c, k) = items
        /\ \A i \in items : /\ final[i] \in DOMAIN d
                            /\ d[final[i]].rest = c[i].rest
                            /\ d[final[i]].manifest = c[i].manifest
        /\ \A p \in DOMAIN d : \E i \in items : final[i] = p
    BY DEF Placed
  <1>2. \A i \in DOMAIN c : Now(d, c, i) = IF i \in Dropped(P, c, k) THEN {} ELSE {final[i]}
    BY NowApplied
  <1>3. \A p \in DOMAIN d : \E i \in DOMAIN c :
           d[p].rest = c[i].rest /\ d[p].manifest = c[i].manifest
    BY <1>1
  <1>4. \A i \in DOMAIN c : Cardinality(Now(d, c, i)) <= 1
    <2> SUFFICES ASSUME NEW i \in DOMAIN c PROVE Cardinality(Now(d, c, i)) <= 1
      OBVIOUS
    <2>1. Cardinality({}) = 0 /\ Cardinality({final[i]}) = 1
      BY FS_EmptySet, FS_Singleton
    <2>2. Now(d, c, i) = {} \/ Now(d, c, i) = {final[i]}
      BY <1>2
    <2>3. Cardinality(Now(d, c, i)) = 0 \/ Cardinality(Now(d, c, i)) = 1
      BY <2>1, <2>2
    <2> QED
      BY <2>3
  <1>5. ASSUME NEW i \in unmanaged
        PROVE  IF i \in unclaimed /\ ~P.keep THEN Now(d, c, i) = {}
               ELSE \E p \in DOMAIN d : d[p] = c[i]
    <2>1. \A a \in Claimants(P, c, k, i) :
             P.addons[a].state = "absent" /\ "state" \notin P.addons[a].manage
      OBVIOUS
    <2>2. CASE i \in unclaimed /\ ~P.keep
      <3>1. i \in Dropped(P, c, k)
        BY <2>2 DEF Dropped
      <3> QED
        BY <1>2, <2>2, <3>1
    <2>3. CASE ~(i \in unclaimed /\ ~P.keep)
      <3>1. i \notin Dropped(P, c, k)
        BY <2>1, <2>3 DEF Dropped
      <3>2. Owner(P, c, k, i) = {}
        <4>1. /\ Owner(P, c, k, i) \subseteq Claimants(P, c, k, i)
              /\ \A a \in Owner(P, c, k, i) : P.addons[a].state = "present"
          BY <1>0, OwnerFacts
        <4>2. "absent" # "present"
          OBVIOUS
        <4> QED
          BY <2>1, <4>1, <4>2
      <3>3. i \in items
        BY <3>1
      <3>4. d[final[i]] = c[i]
        BY <3>2, <3>3 DEF Placed
      <3> QED
        BY <1>1, <2>3, <3>3, <3>4
    <2> QED
      BY <2>2, <2>3
  <1>6. ASSUME NEW i \in floating, NEW j \in floating,
               NEW p \in Now(d, c, i), NEW q \in Now(d, c, j), i < j
        PROVE  p < q
    <2>1. i \in items /\ p = final[i] /\ j \in items /\ q = final[j]
      BY <1>2
    <2>2. i \in Items(P, c, k) /\ j \in Items(P, c, k)
      BY <1>1, <2>1
    <2>3. Anchor(P, c, k, i) = {} /\ Anchor(P, c, k, j) = {}
      OBVIOUS
    <2> HIDE DEF items, floating
    <2>4. final[i] < final[j]
      BY <1>0, <1>6, <2>2, <2>3, FinalOrder
    <2> QED
      BY <2>1, <2>4
  <1> QED
    BY <1>3, <1>4, <1>5, <1>6 DEF Untouched

(* A write of a profile's plan places what the profile says.               *)
LEMMA ProfileWrite ==
    ASSUME TypeOK, PlanMade, Next, Writes("profile")
    PROVE  /\ profile \in Profiles /\ account \in Seq(Descriptors) /\ plan.key \in Keys
           /\ ~PlanRefused(profile, account, plan.key)
           /\ Placed(profile, account, plan.key, world.secrets, account')
           /\ \A o \in OpsOf("replaceEndpoint", PlanOps(profile, account, plan.key)) :
                 Resolved(o.endpoint, world.secrets) \in Https
           /\ UNCHANGED <<world, profile>>
  <1>1. /\ account = plan.base /\ plan.ops # {}
        /\ ~ConstructRefused(plan.ops, account, world.key, world.secrets)
        /\ account' = Target(plan.ops, account, world.key, world.secrets)
        /\ UNCHANGED <<world, profile>>
    BY WriteFacts DEF Writes
  <1>2. FromProfile
    BY DEF Writes, PlanMade, FromPromotion
  <1>3. /\ plan.key \in Keys
        /\ ~PlanRefused(profile, account, plan.key)
        /\ plan.ops = PlanOps(profile, account, plan.key)
    BY <1>1, <1>2 DEF FromProfile
  <1>4. profile \in Profiles /\ account \in Seq(Descriptors)
    BY DEF TypeOK
  <1>5. Placed(profile, account, plan.key, world.secrets, account')
    BY <1>1, <1>3, <1>4, AppliedProfile
  <1>6. \A o \in OpsOf("replaceEndpoint", plan.ops) : Resolved(o.endpoint, world.secrets) \in Https
    BY <1>1 DEF ConstructRefused, ReplacementRefused
  <1> QED
    BY <1>1, <1>3, <1>4, <1>5, <1>6

(* A write of a profile's plan leaves what the profile manages as desired, *)
(* whatever the order of the collection and whatever else is managed.      *)
THEOREM AppliedProfilesHold == Spec => AppliedAsDesired
  <1> DEFINE Step == Writes("profile") /\ Traceable(account) =>
                        Desired(profile, account, account', plan.key, world.secrets)
  <1>1. TypeOK /\ PlanMade /\ [Next]_vars => [Step]_vars
    BY ProfileWrite, AppliedIsDesired
  <1>2. Spec => [](TypeOK /\ PlanMade)
    BY Initially, Invariance, PTL DEF Spec
  <1>3. Spec => [][Step]_vars
    BY <1>1, <1>2, PTL DEF Spec
  <1> QED
    BY <1>3 DEF AppliedAsDesired

(* A write of a profile's plan touches nothing that the profile does not   *)
(* manage, and carries every unknown field along.                          *)
THEOREM UnmanagedStays == Spec => UnmanagedUntouched
  <1> DEFINE Step == Writes("profile") /\ Traceable(account) =>
                        Untouched(profile, account, account', plan.key)
  <1>1. TypeOK /\ PlanMade /\ [Next]_vars => [Step]_vars
    BY ProfileWrite, AppliedIsUntouched
  <1>2. Spec => [](TypeOK /\ PlanMade)
    BY Initially, Invariance, PTL DEF Spec
  <1>3. Spec => [][Step]_vars
    BY <1>1, <1>2, PTL DEF Spec
  <1> QED
    BY <1>3 DEF UnmanagedUntouched

-----------------------------------------------------------------------------
(* Starter profiles. *)

(* Two descriptors with one selector are twins. *)
LEMMA StarterDefect ==
    ASSUME NEW c \in Seq(Descriptors), NEW k \in Keys, NEW declared,
           ~Parses(Starter(c, k, declared))
    PROVE  Twins(c)
  <1> DEFINE P == Starter(c, k, declared)
             named == Named(c)
  <1>1. PICK m, n \in DOMAIN P.addons :
           /\ m # n
           /\ <<P.addons[m].mid, P.addons[m].fp>> = <<P.addons[n].mid, P.addons[n].fp>>
    BY DEF Parses
  <1> HIDE DEF P
  <1>2. PICK i, j \in named :
           /\ i # j
           /\ P.addons[m] = Entry(c, k, declared, i) /\ P.addons[n] = Entry(c, k, declared, j)
    <2>1. /\ \A x \in DOMAIN P.addons : /\ Nth(named, x) \in named
                                        /\ P.addons[x] = Entry(c, k, declared, Nth(named, x))
          /\ \A x, y \in DOMAIN P.addons : Nth(named, x) = Nth(named, y) => x = y
      BY StarterEntries DEF P
    <2> HIDE DEF named
    <2>2. Nth(named, m) # Nth(named, n)
      BY <1>1, <2>1
    <2> QED
      BY <2>1, <2>2
  <1>3. Id(c[i]) = Id(c[j]) /\ StarterFp(c, k, i) = StarterFp(c, k, j)
    BY <1>1, <1>2 DEF Entry
  <1>4. StarterFp(c, k, i) = <<c[i].url, k>> /\ StarterFp(c, k, j) = <<c[j].url, k>>
    BY <1>2, <1>3 DEF Named, StarterFp, Fingerprint
  <1>5. <<c[i].url, k>> = <<c[j].url, k>>
    BY <1>3, <1>4, Zenon
  <1>6. c[i].url = c[j].url
    BY <1>5
  <1> QED
    BY <1>2, <1>3, <1>6 DEF Named, Twins

(* A starter profile wants what there is: planned at once it is converged. *)
(* There is one unless two descriptors are twins.                          *)
THEOREM StartersChangeNothing == Spec => StartersAreConverged
  <1> DEFINE Step == changes' = changes =>
               /\ outcome' = "starter" /\ Plannable(account) =>
                     /\ ~PlanRefused(profile', account, world.key)
                     /\ PlanOps(profile', account, world.key) = {}
               /\ outcome' = "defect" => Twins(account)
  <1>1. TypeOK /\ [Next]_vars => [Step]_vars
    <2> SUFFICES ASSUME TypeOK, Next, changes' = changes PROVE Step
      OBVIOUS
    <2>1. account \in Seq(Descriptors) /\ world.key \in Keys /\ changes \in Nat
      BY WorldFacts, MaxChangesAssumption DEF TypeOK
    <2>2. CASE InitProfile
      <3>1. PICK declared : /\ Parses(Starter(account, world.key, declared))
                            /\ profile' = Starter(account, world.key, declared)
        BY <2>2 DEF InitProfile
      <3>2. outcome' # "defect"
        BY <2>2 DEF InitProfile
      <3> QED
        BY <2>1, <3>1, <3>2, StarterConverged
    <2>3. CASE InitProfileFails
      <3>1. outcome' = "defect" /\ Twins(account)
        BY <2>1, <2>3, StarterDefect DEF InitProfileFails
      <3> QED
        BY <3>1
    <2>4. CASE Plans
      BY <2>4 DEF Plans, PlanProfile, PlanProfileRefused, Promote, PromoteRefused, Written
    <2>5. CASE Applies
      BY <2>5 DEF Applies, ApplyDrifted, ApplyConverged, ApplyRefused, ApplyUnreachable,
                  ApplyManifestDrifted, ApplyTarget, Ends
    <2>6. ~EditAccount /\ ~ChangeWorld
      BY <2>1 DEF EditAccount, ChangeWorld
    <2> QED
      BY <2>2, <2>3, <2>4, <2>5, <2>6 DEF Next, Inits
  <1>2. Spec => [](TypeOK /\ PlanMade)
    BY Initially, Invariance, PTL DEF Spec
  <1>3. Spec => [][Step]_vars
    BY <1>1, <1>2, PTL DEF Spec
  <1> QED
    BY <1>3 DEF StartersAreConverged

-----------------------------------------------------------------------------
(* Plans that were applied. *)

(* A plan that was applied settles: the next plan of the same profile is   *)
(* converged, if the endpoints can be compared at all.                     *)
THEOREM PlansConverge == Spec => PlansSettle
  <1> DEFINE Step == Writes("profile") /\ Comparable(profile) /\ world.key = plan.key =>
                        /\ ~PlanRefused(profile, account', world.key)
                        /\ PlanOps(profile, account', world.key) = {}
  <1>1. TypeOK /\ PlanMade /\ [Next]_vars => [Step]_vars
    <2> SUFFICES ASSUME TypeOK, PlanMade, Next, Writes("profile"), Comparable(profile),
                        world.key = plan.key
                 PROVE  /\ ~PlanRefused(profile, account', world.key)
                        /\ PlanOps(profile, account', world.key) = {}
      OBVIOUS
    <2>1. /\ profile \in Profiles /\ account \in Seq(Descriptors) /\ world.key \in Keys
          /\ ~PlanRefused(profile, account, world.key)
          /\ Placed(profile, account, world.key, world.secrets, account')
      BY ProfileWrite
    <2>2. account' \in Seq(Descriptors)
      BY Invariance DEF TypeOK
    <2> QED
      BY <2>1, <2>2, AppliedIsSettled
  <1>2. Spec => [](TypeOK /\ PlanMade)
    BY Initially, Invariance, PTL DEF Spec
  <1>3. Spec => [][Step]_vars
    BY <1>1, <1>2, PTL DEF Spec
  <1> QED
    BY <1>3 DEF PlansSettle

-----------------------------------------------------------------------------
(* Starters on rearranged collections. *)

(* What was placed after the starter of another order is in that order.    *)
LEMMA PlacedByStarter ==
    ASSUME NEW c \in Seq(Descriptors), NEW k \in Keys, NEW secrets, NEW declared,
           NEW b \in Reorderings(c),
           NEW P \in Profiles, P = Starter(b, k, declared),
           ~PlanRefused(P, c, k), NEW d \in Seq(Descriptors),
           Placed(P, c, k, secrets, d)
    PROVE  d = b
  <1>0. PICK g \in [DOMAIN c -> DOMAIN c] : b = [i \in DOMAIN c |-> c[g[i]]]
    BY DEF Reorderings
  <1>1. Len(c) \in Nat /\ DOMAIN c = 1..Len(c) /\ \A i \in DOMAIN c : c[i] \in Descriptors
    OBVIOUS
  <1>2. b \in Seq(Descriptors) /\ DOMAIN b = DOMAIN c /\ \A i \in DOMAIN c : b[i] = c[g[i]]
    <2>1. DOMAIN b = 1..Len(c) /\ \A i \in DOMAIN c : b[i] = c[g[i]]
      BY <1>0, <1>1
    <2>2. \A i \in 1..Len(c) : b[i] \in Descriptors
      BY <1>1, <2>1
    <2>3. b = [i \in 1..Len(c) |-> b[i]]
      BY <1>0, <1>1
    <2> QED
      BY <1>1, <2>1, <2>2, <2>3
  <1>3. Plannable(c) /\ Unambiguous(P, c, k)
    BY DEF PlanRefused
  <1>4. Plannable(b)
    BY <1>2, <1>3 DEF Plannable, Id
  <1>5. /\ DOMAIN P.addons = DOMAIN c /\ P.keep = TRUE
        /\ \A i \in DOMAIN c : P.addons[i] = Entry(b, k, declared, i)
    <2> DEFINE Q == Starter(b, k, declared)
    <2>0. b \in Seq(Descriptors)
      BY <1>2
    <2>1. /\ DOMAIN Q.addons = DOMAIN b /\ Q.keep = TRUE
          /\ \A i \in DOMAIN b : Q.addons[i] = Entry(b, k, declared, i)
      BY <2>0, <1>4, StarterOfPlannable
    <2> HIDE DEF Q
    <2>2. P = Q
      BY DEF Q
    <2> QED
      BY <1>2, <2>1, <2>2
  <1>6. \A i \in DOMAIN c :
           LET s == P.addons[i]
           IN  /\ s.mid = Id(c[g[i]]) /\ s.fp \in {None, Fingerprint(c[g[i]].url, k)}
               /\ s.state = "present" /\ s.position = i /\ "position" \in s.manage
               /\ s.endpoint \in {c[g[i]].url, None}
    <2> SUFFICES ASSUME NEW i \in DOMAIN c
                 PROVE  LET s == Entry(b, k, declared, i)
                        IN  /\ s.mid = Id(c[g[i]])
                            /\ s.fp \in {None, Fingerprint(c[g[i]].url, k)}
                            /\ s.state = "present" /\ s.position = i
                            /\ "position" \in s.manage
                            /\ s.endpoint \in {c[g[i]].url, None}
      BY <1>5
    <2>1. b[i] = c[g[i]]
      BY <1>2
    <2>2. Id(b[i]) = Id(c[g[i]])
      BY <2>1
    <2> QED
      BY <2>1, <2>2 DEF Entry, StarterFp, StarterManage
  <1>7. \A i \in DOMAIN c : i \in Claimants(P, c, k, g[i])
    BY <1>5, <1>6 DEF Claimants, Candidates
  <1>8. \A i \in DOMAIN c : Owner(P, c, k, g[i]) = {i}
    <2> SUFFICES ASSUME NEW i \in DOMAIN c PROVE Owner(P, c, k, g[i]) = {i}
      OBVIOUS
    <2>1. ~(g[i] > Len(c))
      BY <1>1
    <2>2. i \in Owner(P, c, k, g[i])
      BY <1>6, <1>7, <2>1 DEF Owner
    <2>3. ASSUME NEW a \in Owner(P, c, k, g[i]) PROVE a = i
      <3>1. a \in Claimants(P, c, k, g[i])
        BY <2>1 DEF Owner
      <3>2. i \in Claimants(P, c, k, g[i]) /\ g[i] \in DOMAIN c
        BY <1>7
      <3> QED
        BY <1>3, <3>1, <3>2, ClaimantUnique
    <2> QED
      BY <2>2, <2>3
  <1>9. \A i \in DOMAIN c : Anchor(P, c, k, g[i]) = {i}
    <2> SUFFICES ASSUME NEW i \in DOMAIN c PROVE Anchor(P, c, k, g[i]) = {i}
      OBVIOUS
    <2>1. i # None
      BY <1>1, NoneAssumption
    <2>2. {e \in {i} : "position" \in P.addons[e].manage /\ P.addons[e].position # None}
             = {i}
      BY <1>6, <2>1
    <2>3. Anchor(P, c, k, g[i]) = {P.addons[e].position : e \in {i}}
      BY <1>8, <2>2 DEF Anchor
    <2> QED
      BY <1>6, <2>3
  <1> DEFINE final == FinalIndex(P, c, k)
  <1>10. Dropped(P, c, k) = {}
    <2> SUFFICES ASSUME NEW x \in Dropped(P, c, k) PROVE FALSE
      OBVIOUS
    <2>1. PICK a \in Claimants(P, c, k, x) : P.addons[a].state = "absent"
      BY <1>5 DEF Dropped
    <2> QED
      BY <1>5, <1>6, <2>1 DEF Claimants
  <1>11. /\ Items(P, c, k) = DOMAIN c /\ DOMAIN d = DOMAIN c
    <2>1. /\ Items(P, c, k) = DOMAIN c \ Dropped(P, c, k)
          /\ DOMAIN d = 1..Cardinality(DOMAIN c \ Dropped(P, c, k))
      BY DEF Placed
    <2>2. DOMAIN c \ Dropped(P, c, k) = DOMAIN c
      BY <1>10
    <2>3. Cardinality(1..Len(c)) = Len(c)
      BY <1>1, IntervalCardinality
    <2> QED
      BY <1>1, <2>1, <2>2, <2>3
  <1>12. \A i \in DOMAIN c : final[g[i]] = i
    <2> SUFFICES ASSUME NEW i \in DOMAIN c PROVE final[g[i]] = i
      OBVIOUS
    <2>1. final[g[i]] = CHOOSE p \in Anchor(P, c, k, g[i]) : TRUE
      BY <1>9, <1>11 DEF FinalIndex
    <2> QED
      BY <1>9, <2>1
  <1>13. LET items == DOMAIN c \ Dropped(P, c, k)
         IN  /\ \A x \in items : /\ d[final[x]].rest = c[x].rest
                                   /\ d[final[x]].manifest = c[x].manifest
             /\ \A x \in items : \A a \in Owner(P, c, k, x) :
                   NeedsEndpoint(P.addons[a], c[x].url, k) =>
                       d[final[x]].url = Resolved(P.addons[a].endpoint, secrets)
             /\ \A x \in items :
                   (\A a \in Owner(P, c, k, x) : ~NeedsEndpoint(P.addons[a], c[x].url, k))
                       => d[final[x]] = c[x]
    BY DEF Placed
  <1> HIDE DEF final
  <1>14. DOMAIN c \ Dropped(P, c, k) = DOMAIN c
    BY <1>10
  <1>15. /\ \A x \in DOMAIN c : /\ d[final[x]].rest = c[x].rest
                                  /\ d[final[x]].manifest = c[x].manifest
         /\ \A x \in DOMAIN c : \A a \in Owner(P, c, k, x) :
               NeedsEndpoint(P.addons[a], c[x].url, k) =>
                   d[final[x]].url = Resolved(P.addons[a].endpoint, secrets)
         /\ \A x \in DOMAIN c :
               (\A a \in Owner(P, c, k, x) : ~NeedsEndpoint(P.addons[a], c[x].url, k))
                   => d[final[x]] = c[x]
    BY <1>13, <1>14
  <1>16. \A i \in DOMAIN c : d[i].rest = b[i].rest /\ d[i].manifest = b[i].manifest
    BY <1>2, <1>12, <1>15
  <1>17. \A i \in DOMAIN c : d[i].url = b[i].url
    <2> SUFFICES ASSUME NEW i \in DOMAIN c PROVE d[i].url = b[i].url
      OBVIOUS
    <2>1. g[i] \in DOMAIN c /\ b[i] = c[g[i]] /\ c[g[i]].url \in Urls
      BY <1>1, <1>2 DEF Descriptors
    <2>2. CASE NeedsEndpoint(P.addons[i], c[g[i]].url, k)
      <3>1. P.addons[i].endpoint = c[g[i]].url
        BY <1>6, <2>2 DEF NeedsEndpoint
      <3>2. i \in Owner(P, c, k, g[i]) /\ final[g[i]] = i
        BY <1>8, <1>12
      <3>3. d[i].url = Resolved(P.addons[i].endpoint, secrets)
        BY <1>15, <2>1, <2>2, <3>2
      <3>4. Resolved(P.addons[i].endpoint, secrets) = P.addons[i].endpoint
        BY <2>1, <3>1, ResolvedPublic
      <3> QED
        BY <2>1, <3>1, <3>3, <3>4
    <2>3. CASE ~NeedsEndpoint(P.addons[i], c[g[i]].url, k)
      <3>1. \A a \in Owner(P, c, k, g[i]) : ~NeedsEndpoint(P.addons[a], c[g[i]].url, k)
        BY <1>8, <2>3
      <3> QED
        BY <1>12, <1>15, <2>1, <3>1
    <2> QED
      BY <2>2, <2>3
  <1>18. \A i \in DOMAIN c : d[i] \in Descriptors /\ b[i] \in Descriptors
    <2>1. \A i \in DOMAIN d : d[i] \in Descriptors
      OBVIOUS
    <2> QED
      BY <1>1, <1>2, <1>11, <2>1
  <1>19. \A x, y \in Descriptors :
            x.rest = y.rest /\ x.manifest = y.manifest /\ x.url = y.url => x = y
    BY DEF Descriptors
  <1>20. d = [i \in DOMAIN d |-> d[i]] /\ b = [i \in DOMAIN b |-> b[i]]
    BY <1>2
  <1>21. \A i \in DOMAIN c : d[i] = b[i]
    BY <1>16, <1>17, <1>18, <1>19
  <1> QED
    BY <1>2, <1>11, <1>20, <1>21

(* What an applied or converged plan of a profile leaves, and by whom.     *)
LEMMA ProfileApplied ==
    ASSUME TypeOK, PlanMade, Applies, plan.by = "profile",
           outcome' \in {"applied", "converged"}
    PROVE  /\ profile \in Profiles /\ account \in Seq(Descriptors) /\ plan.key \in Keys
           /\ ~PlanRefused(profile, account, plan.key)
           /\ Placed(profile, account, plan.key, world.secrets, account')
  <1>1. plan # NoPlan
    BY DEF Applies, ApplyDrifted, ApplyConverged, ApplyRefused, ApplyUnreachable,
           ApplyManifestDrifted, ApplyTarget, Constructs, InSync
  <1>2. FromProfile
    BY <1>1 DEF PlanMade, FromPromotion
  <1>3. profile \in Profiles /\ account \in Seq(Descriptors)
    BY DEF TypeOK
  <1>4. CASE ApplyConverged
    <2>1. account = plan.base /\ plan.ops = {} /\ account' = account
      BY <1>4 DEF ApplyConverged, InSync
    <2> QED
      BY <1>2, <1>3, <2>1, ConvergedIsPlaced DEF FromProfile
  <1>5. CASE ApplyTarget
    <2>1. /\ account = plan.base /\ plan.ops # {}
          /\ ~ConstructRefused(plan.ops, account, world.key, world.secrets)
          /\ account' = Target(plan.ops, account, world.key, world.secrets)
      BY <1>5 DEF ApplyTarget, Constructs, InSync
    <2>2. /\ plan.key \in Keys /\ ~PlanRefused(profile, account, plan.key)
          /\ plan.ops = PlanOps(profile, account, plan.key)
      BY <1>2, <2>1 DEF FromProfile
    <2>3. Placed(profile, account, plan.key, world.secrets, account')
      BY <1>3, <2>1, <2>2, AppliedProfile
    <2> QED
      BY <1>3, <2>2, <2>3
  <1>6. ~ApplyDrifted /\ ~ApplyRefused /\ ~ApplyUnreachable /\ ~ApplyManifestDrifted
    BY DEF ApplyDrifted, ApplyRefused, ApplyUnreachable, ApplyManifestDrifted, Ends
  <1> QED
    BY <1>4, <1>5, <1>6 DEF Applies

(* A starter profile brings the order back in which the add-ons were when  *)
(* it was made, if others moved them since, and does nothing else.         *)
THEOREM StartersRestoreOrder == Spec => StartersRestore
  <1> DEFINE Step == Applies /\ plan.by = "profile" /\ outcome' \in {"applied", "converged"} =>
                \A c \in Reorderings(account) :
                    profile \in {Starter(c, plan.key, d) : d \in Declarations} => account' = c
  <1>1. TypeOK /\ PlanMade /\ [Next]_vars /\ TypeOK' => [Step]_vars
    <2> SUFFICES ASSUME TypeOK, PlanMade, TypeOK', Applies, plan.by = "profile",
                        outcome' \in {"applied", "converged"},
                        NEW c \in Reorderings(account), NEW declared \in Declarations,
                        profile = Starter(c, plan.key, declared)
                 PROVE  account' = c
      OBVIOUS
    <2>1. PICK d \in Seq(Descriptors) : d = account'
      BY DEF TypeOK
    <2>2. /\ profile \in Profiles /\ account \in Seq(Descriptors) /\ plan.key \in Keys
          /\ ~PlanRefused(profile, account, plan.key)
          /\ Placed(profile, account, plan.key, world.secrets, account')
      BY ProfileApplied
    <2>3. Placed(profile, account, plan.key, world.secrets, d)
      BY <2>1, <2>2
    <2>4. d = c
      BY <2>2, <2>3, PlacedByStarter
    <2> QED
      BY <2>1, <2>4
  <1>2. Spec => [](TypeOK /\ PlanMade)
    BY Initially, Invariance, PTL DEF Spec
  <1>3. Spec => [][Step]_vars
    BY <1>1, <1>2, PTL DEF Spec
  <1> QED
    BY <1>3, PTL DEF StartersRestore
=============================================================================
