----------------------------- MODULE ChangePlan -----------------------------
(***************************************************************************)
(* The planner (diff.py, aiostreams.py) and the constructor of the target  *)
(* collection (apply.py), as operators.                                    *)
(*                                                                         *)
(* A descriptor has a manifest, a transport URL and the rest of its JSON   *)
(* object, the flags included.  A keyed fingerprint is the pair of what is *)
(* fingerprinted and the key.  The indexes of the model start at 1, those  *)
(* of the code at 0.  A plan is a set of operations: their order is for    *)
(* human review, construct_target goes by kind and by index.  An optional  *)
(* value of the code is None or, for what is computed, a set of at most    *)
(* one element.                                                            *)
(***************************************************************************)
EXTENDS Naturals, Sequences, FiniteSets

CONSTANTS
    Manifests, Ids,  \* manifest objects and their ids
    IdOf,            \* IdOf[m]: the id of manifest m, or None
    Urls,            \* transport URLs
    Https,           \* those with scheme https
    Private,         \* those on addresses a probe refuses by default
    Refs,            \* secret references: env:NAME and file:/path
    Rests,           \* what else a descriptor carries
    Protected,       \* those with flags.protected
    Keys,            \* values of the local redaction key
    None

ASSUME IdAssumption == IdOf \in [Manifests -> Ids \cup {None}] /\ None \notin Ids
ASSUME UrlAssumption == Https \subseteq Urls /\ Private \subseteq Urls
ASSUME ProtectedAssumption == Protected \subseteq Rests
ASSUME EndpointAssumption == Urls \cap Refs = {} /\ None \notin Urls \cup Refs
ASSUME NoneAssumption == None \notin Nat /\ None \notin Urls \X Keys

Descriptors == [manifest : Manifests, url : Urls, rest : Rests]

Fingerprint(url, k) == <<url, k>>

(* An entry of a desired profile: the selector, and what to manage. *)
AddonSpecs ==
    [mid : Ids, fp : (Urls \X Keys) \cup {None}, state : {"present", "absent"},
     position : (Nat \ {0}) \cup {None}, endpoint : Urls \cup Refs \cup {None},
     manage : SUBSET {"state", "position", "endpoint"}]

(* keep is policy.preserveUnmanagedAddons. *)
Profiles == [addons : Seq(AddonSpecs), keep : BOOLEAN]

Id(d) == IdOf[d.manifest]

(* parse_profile: two entries may not have the same selector. *)
Parses(P) ==
    \A a, b \in DOMAIN P.addons :
        a # b => <<P.addons[a].mid, P.addons[a].fp>> # <<P.addons[b].mid, P.addons[b].fp>>

(* The structural gate: every descriptor has an id. *)
Plannable(c) == \A i \in DOMAIN c : Id(c[i]) # None

(* How many elements of S are not above x. *)
Rank(S, x) == Cardinality({y \in S : y <= x})

(* The n-th smallest element of S. *)
Nth(S, n) == CHOOSE x \in S : Rank(S, x) = n

-----------------------------------------------------------------------------
(* build_starter_profile, for the ids whose URLs are declared public.      *)

(* Mutant of StarterFp: an id is always enough. *)
StarterFpNever(c, k, i) == None

(* A descriptor whose id is not the only one is selected by its URL too. *)
StarterFp(c, k, i) ==
    IF \E j \in DOMAIN c \ {i} : Id(c[j]) = Id(c[i]) THEN Fingerprint(c[i].url, k)
    ELSE None

(* Mutant of StarterManage: the positions are noted, not managed. *)
StarterManageState == {"state"}

StarterManage == {"state", "position"}

(* The entry of every descriptor with an id. *)
Starter(c, k, declared) ==
    LET entry(i) ==
            LET public == Id(c[i]) \in declared
            IN  [mid |-> Id(c[i]), fp |-> StarterFp(c, k, i), state |-> "present",
                 position |-> i, endpoint |-> IF public THEN c[i].url ELSE None,
                 manage |-> StarterManage \cup IF public THEN {"endpoint"} ELSE {}]
        named == {i \in DOMAIN c : Id(c[i]) # None}
    IN  [addons |-> [n \in 1..Cardinality(named) |-> entry(Nth(named, n))], keep |-> TRUE]

-----------------------------------------------------------------------------
(* Matching the entries of the profile with the descriptors. *)

Candidates(s, c, k) ==
    {i \in DOMAIN c : /\ Id(c[i]) = s.mid
                      /\ s.fp # None => Fingerprint(c[i].url, k) = s.fp}

(* The entries that claim descriptor i. *)
Claimants(P, c, k, i) ==
    {a \in DOMAIN P.addons : i \in Candidates(P.addons[a], c, k)}

(* No selector matches two descriptors, no descriptor two selectors. *)
Unambiguous(P, c, k) ==
    /\ \A a \in DOMAIN P.addons : Cardinality(Candidates(P.addons[a], c, k)) <= 1
    /\ \A i \in DOMAIN c : Cardinality(Claimants(P, c, k, i)) <= 1

(* Mutant of Dropped: an advisory "absent" removes the add-on. *)
DroppedWhenAbsent(P, c, k) ==
    {i \in DOMAIN c :
        \/ \E a \in Claimants(P, c, k, i) : P.addons[a].state = "absent"
        \/ ~P.keep /\ Claimants(P, c, k, i) = {}}

(* The descriptors to remove: managed absences, and stragglers. *)
Dropped(P, c, k) ==
    {i \in DOMAIN c :
        \/ \E a \in Claimants(P, c, k, i) :
              P.addons[a].state = "absent" /\ "state" \in P.addons[a].manage
        \/ ~P.keep /\ Claimants(P, c, k, i) = {}}

(* The entries that introduce a descriptor. *)
Added(P, c, k) ==
    {a \in DOMAIN P.addons :
        /\ P.addons[a].state = "present" /\ "state" \in P.addons[a].manage
        /\ Candidates(P.addons[a], c, k) = {}}

(* The survivors in their order before the moves: descriptor i of the      *)
(* collection is item i, the descriptor entry a adds is item Len(c) + a.   *)
Items(P, c, k) ==
    (DOMAIN c \ Dropped(P, c, k)) \cup {Len(c) + a : a \in Added(P, c, k)}

(* The entry whose wishes item x follows; an unmanaged absence has none. *)
Owner(P, c, k, x) ==
    IF x > Len(c) THEN {x - Len(c)}
    ELSE {a \in Claimants(P, c, k, x) : P.addons[a].state = "present"}

Anchor(P, c, k, x) ==
    {P.addons[a].position :
        a \in {b \in Owner(P, c, k, x) :
                 "position" \in P.addons[b].manage /\ P.addons[b].position # None}}

-----------------------------------------------------------------------------
(* Placing the survivors. *)

AnchorSlots(P, c, k) == UNION {Anchor(P, c, k, x) : x \in Items(P, c, k)}

(* No position is requested twice, none is out of range. *)
Placeable(P, c, k) ==
    /\ \A x, y \in Items(P, c, k) :
          x # y => Anchor(P, c, k, x) \cap Anchor(P, c, k, y) = {}
    /\ AnchorSlots(P, c, k) \subseteq 1..Cardinality(Items(P, c, k))

(* Mutant of FinalIndex: an anchored item is inserted, the others are not  *)
(* shifted out of its slot.                                                *)
FinalIndexUnshifted(P, c, k) ==
    [x \in Items(P, c, k) |->
        IF Anchor(P, c, k, x) # {} THEN CHOOSE p \in Anchor(P, c, k, x) : TRUE
        ELSE Rank(Items(P, c, k), x)]

(* Anchored items take their slots, the others fill the free ones in order. *)
FinalIndex(P, c, k) ==
    LET items == Items(P, c, k)
        free  == (1..Cardinality(items)) \ AnchorSlots(P, c, k)
        rest  == {x \in items : Anchor(P, c, k, x) = {}}
    IN  [x \in items |->
            IF x \in rest THEN Nth(free, Rank(rest, x))
            ELSE CHOOSE p \in Anchor(P, c, k, x) : TRUE]

-----------------------------------------------------------------------------
(* The operations of a plan; final is the placement of the items.          *)

(* Mutant of NeedsEndpoint: the endpoint is not compared. *)
NeedsEndpointAlways(s, url, k) == "endpoint" \in s.manage /\ s.endpoint # None

(* Mutant of NeedsEndpoint: the selector goes before the public URL. *)
NeedsEndpointBySelector(s, url, k) ==
    /\ NeedsEndpointAlways(s, url, k)
    /\ Fingerprint(url, k) # IF s.fp = None /\ s.endpoint \in Urls
                             THEN Fingerprint(s.endpoint, k) ELSE s.fp

(* A public URL is compared by its fingerprint, a secret reference by the  *)
(* one of the selector; without one it cannot be compared offline.         *)
NeedsEndpoint(s, url, k) ==
    /\ "endpoint" \in s.manage
    /\ s.endpoint # None
    /\ Fingerprint(url, k) # IF s.endpoint \in Urls THEN Fingerprint(s.endpoint, k)
                             ELSE s.fp

Removes(P, c, k) ==
    {[op |-> "remove", mid |-> Id(c[i]), from |-> i] : i \in Dropped(P, c, k)}

Adds(P, c, k, final) ==
    {[op |-> "add", mid |-> P.addons[a].mid, endpoint |-> P.addons[a].endpoint,
      final |-> final[Len(c) + a]] : a \in Added(P, c, k)}

(* The descriptors that stay. *)
Stayers(c, final) == DOMAIN c \cap DOMAIN final

Moves(c, final) ==
    {[op |-> "move", mid |-> Id(c[i]), from |-> i, final |-> final[i]] :
        i \in {x \in Stayers(c, final) : final[x] # Rank(DOMAIN final, x)}}

Replacements(P, c, k, final) ==
    UNION {{[op |-> "replaceEndpoint", mid |-> Id(c[i]), final |-> final[i],
             endpoint |-> P.addons[a].endpoint, bound |-> None] :
              a \in {b \in Owner(P, c, k, i) : NeedsEndpoint(P.addons[b], c[i].url, k)}} :
            i \in Stayers(c, final)}

Preserves(c, k, final) ==
    {[op |-> "preserve", mid |-> Id(c[i]), label |-> Fingerprint(c[i].url, k),
      final |-> final[i]] : i \in Stayers(c, final)}

(* build_change_plan raises instead of returning a plan. *)
PlanRefused(P, c, k) ==
    \/ ~Parses(P)
    \/ ~Plannable(c)
    \/ ~Unambiguous(P, c, k)
    \/ \E a \in Added(P, c, k) : P.addons[a].endpoint = None
    \/ ~Placeable(P, c, k)

(* A converged profile emits nothing at all. *)
PlanOps(P, c, k) ==
    LET final    == FinalIndex(P, c, k)
        mutating == Removes(P, c, k) \cup Adds(P, c, k, final) \cup Moves(c, final)
                      \cup Replacements(P, c, k, final)
    IN  mutating \cup IF mutating = {} THEN {} ELSE Preserves(c, k, final)

(* The next plan can tell that an endpoint is as wished: it is public and  *)
(* selected by its own fingerprint, or selected without one and no other   *)
(* entry selects the wished endpoint; or it is a reference selected by a   *)
(* fingerprint.                                                            *)
Comparable(P) ==
    \A a \in DOMAIN P.addons :
        LET s == P.addons[a]
            elsewhere == {b \in DOMAIN P.addons : P.addons[b].mid = s.mid /\ P.addons[b].fp # None}
        IN  "endpoint" \in s.manage /\ s.endpoint # None =>
                IF s.endpoint \notin Urls THEN s.fp # None
                ELSE IF s.fp # None THEN s.fp[1] = s.endpoint
                ELSE \A b \in elsewhere : P.addons[b].fp[1] # s.endpoint

-----------------------------------------------------------------------------
(* construct_target, from the operations and the pulled collection.        *)
(* secrets[r] is what the reference r resolves to.                         *)

OpsOf(kind, ops) == {o \in ops : o.op = kind}

(* Mutant of Sources: the label is not compared. *)
SourcesById(o, c, k) == {i \in DOMAIN c : Id(c[i]) = o.mid}

(* The descriptors a preserve operation can refer to. *)
Sources(o, c, k) ==
    {i \in DOMAIN c : Id(c[i]) = o.mid /\ Fingerprint(c[i].url, k) = o.label}

Resolved(endpoint, secrets) ==
    IF endpoint \in Refs THEN secrets[endpoint] ELSE endpoint

(* The ids of what the preserve operations put in the slot of o. *)
SlotId(o, ops, c, k) ==
    {Id(c[i]) : i \in UNION {Sources(q, c, k) :
                               q \in {r \in OpsOf("preserve", ops) : r.final = o.final}}}

(* Mutant of ReplacementRefused: the resolved value is not checked. *)
ReplacementMisplaced(o, ops, c, k, secrets) == SlotId(o, ops, c, k) # {o.mid}

(* It lands on another add-on's slot, or does not resolve to https. *)
ReplacementRefused(o, ops, c, k, secrets) ==
    \/ SlotId(o, ops, c, k) # {o.mid}
    \/ Resolved(o.endpoint, secrets) \notin Https

(* Mutant of RemovalRefused: flags.protected is not read. *)
RemovalUnprotected(o, c) == o.from \notin DOMAIN c \/ Id(c[o.from]) # o.mid

(* It is not the add-on that was reviewed, or a protected one. *)
RemovalRefused(o, c) ==
    \/ o.from \notin DOMAIN c
    \/ Id(c[o.from]) # o.mid
    \/ c[o.from].rest \in Protected

(* construct_target raises ValidationError. *)
ConstructRefused(ops, c, k, secrets) ==
    \/ OpsOf("add", ops) # {}
    \/ \E o \in OpsOf("remove", ops) : RemovalRefused(o, c)
    \/ \E o \in OpsOf("preserve", ops) :
          ~\E i \in Sources(o, c, k) : Sources(o, c, k) = {i}
    \/ \E o, q \in OpsOf("preserve", ops) : o # q /\ o.final = q.final
    \/ \E o \in OpsOf("replaceEndpoint", ops) : ReplacementRefused(o, ops, c, k, secrets)
    \/ {o.final : o \in OpsOf("preserve", ops)}
          # 1..Cardinality(OpsOf("preserve", ops))

(* Descriptor d at the endpoint of replacement o, and with the manifest it *)
(* is bound to.                                                            *)
Replaced(d, o, secrets) ==
    [manifest |-> IF o.bound = None THEN d.manifest ELSE o.bound,
     url |-> Resolved(o.endpoint, secrets),
     rest |-> d.rest]

(* What slot p holds in the end. *)
Slot(p, ops, c, k, secrets) ==
    LET kept == CHOOSE o \in OpsOf("preserve", ops) : o.final = p
        here == c[CHOOSE i \in Sources(kept, c, k) : TRUE]
        over == {o \in OpsOf("replaceEndpoint", ops) : o.final = p}
    IN  IF over = {} THEN here ELSE Replaced(here, CHOOSE o \in over : TRUE, secrets)

(* The collection construct_target returns otherwise. *)
Target(ops, c, k, secrets) ==
    [p \in 1..Cardinality(OpsOf("preserve", ops)) |-> Slot(p, ops, c, k, secrets)]

-----------------------------------------------------------------------------
(* build_promotion_plan.  A promotion names the primary's id, the two      *)
(* references, and whether the policy allows private networks; a profile   *)
(* may have none.  served[u] is the manifest a probe of u finds, None if   *)
(* it finds none.                                                          *)

(* parse_profile: no reference is used twice. *)
Promotions ==
    {pr \in [mid : Ids, primary : Refs, standby : Refs, allowPrivate : BOOLEAN] :
        pr.primary # pr.standby}

Probed(url, served, allowPrivate) ==
    IF url \in Private /\ ~allowPrivate THEN None ELSE served[url]

PromotionProfile(pr) ==
    [addons |-> <<[mid |-> pr.mid, fp |-> None, state |-> "present", position |-> None,
                   endpoint |-> pr.standby, manage |-> {"endpoint"}]>>,
     keep |-> TRUE]

(* The installed descriptors with the primary's or the standby's id. *)
Installed(pr, c, standby) == {i \in DOMAIN c : Id(c[i]) \in {pr.mid, IdOf[standby]}}

IsPrimary(pr, d, secrets) == Id(d) = pr.mid /\ d.url = secrets[pr.primary]

(* Mutant of IsStandby: the standby is looked for under the primary's id. *)
IsStandbyByPrimaryId(pr, d, standby, secrets) ==
    Id(d) = pr.mid /\ d.url = secrets[pr.standby]

IsStandby(pr, d, standby, secrets) ==
    Id(d) = IdOf[standby] /\ d.url = secrets[pr.standby]

(* No promotion is configured, a reference does not resolve, or both       *)
(* resolve to one URL.                                                     *)
RefsUnusable(pr, secrets) ==
    \/ pr = None
    \/ /\ pr # None
       /\ \/ {secrets[pr.primary], secrets[pr.standby]} \ Https # {}
          \/ secrets[pr.primary] = secrets[pr.standby]

(* The probe of the standby finds no usable manifest. *)
StandbyUnreachable(pr, secrets, served) ==
    /\ ~RefsUnusable(pr, secrets)
    /\ Probed(secrets[pr.standby], served, pr.allowPrivate) = None

(* Not exactly one installed add-on is the primary or the standby, or it   *)
(* has neither of their endpoints, or the rest cannot be planned.          *)
PromotionMismatch(pr, c, k, secrets, served) ==
    /\ ~RefsUnusable(pr, secrets)
    /\ ~StandbyUnreachable(pr, secrets, served)
    /\ LET standby == served[secrets[pr.standby]]
       IN  \/ Cardinality(Installed(pr, c, standby)) # 1
           \/ \E i \in Installed(pr, c, standby) :
                 /\ ~IsStandby(pr, c[i], standby, secrets)
                 /\ ~IsPrimary(pr, c[i], secrets) \/ PlanRefused(PromotionProfile(pr), c, k)

PromotionRefused(pr, c, k, secrets, served) ==
    \/ RefsUnusable(pr, secrets)
    \/ StandbyUnreachable(pr, secrets, served)
    \/ PromotionMismatch(pr, c, k, secrets, served)

(* The plan of the endpoint's replacement, bound to the probed manifest. *)
PromotionOps(pr, c, k, secrets, served) ==
    LET standby == served[secrets[pr.standby]]
        bind(o) == IF o.op = "replaceEndpoint" THEN [o EXCEPT !.bound = standby] ELSE o
    IN  IF \E i \in Installed(pr, c, standby) : IsStandby(pr, c[i], standby, secrets)
        THEN {}
        ELSE {bind(o) : o \in PlanOps(PromotionProfile(pr), c, k)}
=============================================================================
