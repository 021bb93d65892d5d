------------------------- MODULE ReviewedApplyProofs -------------------------
(***************************************************************************)
(* What the commands make of reviewed plans, whatever the profiles, the    *)
(* collections, the key and the secrets: what is proved of the commands    *)
(* for any target holds for the targets the planner's operations build;    *)
(* what is pushed is what the operations allow, nothing new, and no        *)
(* protected add-on gone; and exit code 0 means that nothing is left to do. *)
(***************************************************************************)
EXTENDS ReviewedApply, AccountApplyProofs, ChangePlanProofs

LEMMA InitImplements == ReviewedInit => Init
  BY DEF ReviewedInit

(* What a run reads, and what it builds from the plan, are steps of the    *)
(* commands.                                                               *)
LEMMA ReadImplements ==
    ASSUME NEW p \in Procs, ReviewedRead(p)
    PROVE  ReadSide(p)
  BY DEF ReviewedRead, ReadSide, PlanConverged, PlanToApply, TargetRefused, TargetBuilt

LEMMA NextImplements == ReviewedNext => Next
  <1> SUFFICES ASSUME ReviewedNext PROVE Next
    OBVIOUS
  <1>1. CASE \E p \in Procs : ReviewedRead(p)
    BY <1>1, ReadImplements DEF Next
  <1>2. CASE \E p \in Procs : WriteSide(p) \/ Network(p) \/ Kill(p)
    BY <1>2 DEF Next
  <1>3. CASE ForeignWrite
    BY <1>3 DEF Next
  <1> QED
    BY <1>1, <1>2, <1>3 DEF ReviewedNext

LEMMA StepImplements == [ReviewedNext]_reviewedVars => [Next]_vars
  BY NextImplements DEF reviewedVars

(* By its definition: each step of a reviewed apply restricts one of       *)
(* AccountApply.                                                           *)
LEMMA ReviewedImplements == ReviewedSpec => Spec
  BY InitImplements, StepImplements, PTL DEF ReviewedSpec, Spec

(* However many reviewed plans are applied at once, what the user had can  *)
(* be restored.                                                            *)
THEOREM ReviewedRecoverability == ReviewedSpec => []OriginalRecoverable
  BY ReviewedImplements, Recoverability

-----------------------------------------------------------------------------
(* What construct_target makes of the operations of a profile's plan.      *)

(* Only a promotion binds a replacement to a manifest. *)
LEMMA UnboundReplacements ==
    ASSUME NEW P, NEW c, NEW o \in PlanOps(P, c, Key), o.op = "replaceEndpoint"
    PROVE  o.bound = None
  <1> DEFINE final == FinalIndex(P, c, Key)
  <1>1. \/ o \in Removes(P, c, Key) \/ o \in Adds(P, c, Key, final)
        \/ o \in Moves(c, final) \/ o \in Replacements(P, c, Key, final)
        \/ o \in Preserves(c, Key, final)
    BY DEF PlanOps
  <1>2. o \notin Removes(P, c, Key)
    BY DEF Removes
  <1>3. o \notin Adds(P, c, Key, final)
    BY DEF Adds
  <1>4. o \notin Moves(c, final)
    BY DEF Moves
  <1>5. o \notin Preserves(c, Key, final)
    BY DEF Preserves
  <1>6. o \in Replacements(P, c, Key, final)
    BY <1>1, <1>2, <1>3, <1>4, <1>5
  <1> QED
    BY <1>6 DEF Replacements

(* Each slot of the target holds, up to its endpoint, a descriptor that a  *)
(* preserve operation of that slot refers to.                              *)
LEMMA SlotsArePreserved ==
    ASSUME NEW P, NEW c \in Collections,
           ~ConstructRefused(PlanOps(P, c, Key), c, Key, Secrets),
           NEW q \in DOMAIN Target(PlanOps(P, c, Key), c, Key, Secrets)
    PROVE  \E o \in OpsOf("preserve", PlanOps(P, c, Key)) :
              /\ o.final = q
              /\ \E i \in Sources(o, c, Key) :
                    Id(Target(PlanOps(P, c, Key), c, Key, Secrets)[q])
                      = Id(c[i])
  <1> DEFINE ops == PlanOps(P, c, Key)
             kept == CHOOSE o \in OpsOf("preserve", ops) : o.final = q
             i == CHOOSE j \in Sources(kept, c, Key) : TRUE
             over == {o \in OpsOf("replaceEndpoint", ops) : o.final = q}
             new == CHOOSE o \in over : TRUE
             slot == Target(ops, c, Key, Secrets)[q]
  <1>1. \E o \in OpsOf("preserve", ops) : o.final = q
    BY DEF Target, ConstructRefused
  <1>2. kept \in OpsOf("preserve", ops) /\ kept.final = q
    BY <1>1
  <1>3. i \in Sources(kept, c, Key)
    BY <1>2 DEF ConstructRefused
  <1>4. slot = IF over = {} THEN c[i] ELSE Replaced(c[i], new, Secrets)
    <2>1. slot = Slot(q, ops, c, Key, Secrets)
      BY DEF Target
    <2> QED
      BY <2>1 DEF Slot
  <1>5. over # {} => new.bound = None
    <2> SUFFICES ASSUME over # {} PROVE new.bound = None
      OBVIOUS
    <2>1. new \in ops /\ new.op = "replaceEndpoint"
      BY DEF OpsOf
    <2> HIDE DEF new, over
    <2> QED
      BY <2>1, UnboundReplacements
  <1>6. slot.manifest = c[i].manifest
    <2> HIDE DEF slot, over, new, i
    <2> QED
      BY <1>4, <1>5 DEF Replaced
  <1> HIDE DEF kept, i, slot
  <1>7. Id(slot) = Id(c[i])
    BY <1>6 DEF Id
  <1> QED
    BY <1>2, <1>3, <1>7 DEF slot

(* The target has no id the collection has not. *)
LEMMA NoNewIds ==
    ASSUME NEW P, NEW c \in Collections,
           ~ConstructRefused(PlanOps(P, c, Key), c, Key, Secrets)
    PROVE  IdsOf(Target(PlanOps(P, c, Key), c, Key, Secrets)) \subseteq IdsOf(c)
  BY SlotsArePreserved DEF IdsOf, Sources

(* A protected descriptor of the collection is not among the dropped ones, *)
(* so one of its id is in the target.                                      *)
LEMMA ProtectedStay ==
    ASSUME NEW P, NEW c \in Collections,
           PlanOps(P, c, Key) # {},
           ~ConstructRefused(PlanOps(P, c, Key), c, Key, Secrets),
           NEW i \in DOMAIN c, c[i].rest \in Protected
    PROVE  Id(c[i])
             \in IdsOf(Target(PlanOps(P, c, Key), c, Key, Secrets))
  <1> DEFINE ops == PlanOps(P, c, Key)
             final == FinalIndex(P, c, Key)
             target0 == Target(ops, c, Key, Secrets)
             remove == [op |-> "remove", mid |-> Id(c[i]), from |-> i]
             preserve == [op |-> "preserve", mid |-> Id(c[i]),
                          label |-> Fingerprint(c[i].url, Key), final |-> final[i]]
  <1>1. i \notin Dropped(P, c, Key)
    <2> SUFFICES ASSUME i \in Dropped(P, c, Key) PROVE FALSE
      OBVIOUS
    <2>1. remove \in Removes(P, c, Key)
      BY DEF Removes
    <2>2. remove \in OpsOf("remove", ops)
      BY <2>1 DEF PlanOps, OpsOf
    <2>3. RemovalRefused(remove, c)
      BY DEF RemovalRefused
    <2> QED
      BY <2>2, <2>3 DEF ConstructRefused
  <1>2. i \in DOMAIN final
    BY <1>1 DEF FinalIndex, Items
  <1>3. preserve \in Preserves(c, Key, final)
    BY <1>2 DEF Preserves, Stayers
  <1>4. preserve \in OpsOf("preserve", ops)
    BY <1>3 DEF PlanOps, OpsOf
  <1> HIDE DEF preserve
  <1>5. preserve.final \in {o.final : o \in OpsOf("preserve", ops)}
    BY <1>4
  <1>6. preserve.final \in DOMAIN target0
    BY <1>5 DEF ConstructRefused, Target
  <1>7. PICK o \in OpsOf("preserve", ops) :
            /\ o.final = preserve.final
            /\ \E j \in Sources(o, c, Key) :
                  Id(target0[preserve.final]) = Id(c[j])
    BY <1>6, SlotsArePreserved
  <1>8. o = preserve
    BY <1>4, <1>7 DEF ConstructRefused
  <1>9. Id(target0[preserve.final]) = preserve.mid
    BY <1>7, <1>8 DEF Sources
  <1>10. preserve.mid = Id(c[i])
    BY DEF preserve
  <1> HIDE DEF target0
  <1> QED
    BY <1>6, <1>9, <1>10 DEF IdsOf, target0

(* Collections of one shape have the same ids. *)
LEMMA ShapeHasIds ==
    ASSUME NEW c \in Collections, NEW d \in Collections, Shape[c] = Shape[d]
    PROVE  IdsOf(c) = IdsOf(d)
  <1> DEFINE S(x) == [i \in DOMAIN x |-> <<Id(x[i]), x[i].url>>]
  <1>1. Shape[c] = S(c) /\ Shape[d] = S(d)
    BY StructureAssumption
  <1>2. DOMAIN c = DOMAIN d
    BY <1>1
  <1>3. \A i \in DOMAIN c : S(c)[i] = S(d)[i]
    BY <1>1
  <1>4. \A i \in DOMAIN c : Id(c[i]) = Id(d[i])
    BY <1>2, <1>3
  <1> QED
    BY <1>2, <1>4 DEF IdsOf

-----------------------------------------------------------------------------
USE DEF vars, commandVars, remoteVars

(* A target that p built is the one of its plan. *)
Built(p) ==
    /\ Ops(p) # {}
    /\ ~ConstructRefused(Ops(p), job[p].want, Key, Secrets)
    /\ target[p] = Target(Ops(p), job[p].want, Key, Secrets)

(* What the pushes rest on: a run constructs only from a plan that has     *)
(* operations, and what it is about to push, or pushed, it has built.      *)
BuiltInv ==
    \A p \in Procs :
        /\ pc[p] = "construct" => Ops(p) # {}
        /\ target[p] # NoCollection => Built(p)
        /\ pc[p] = "write" \/ Sent(p, "write") => target[p] # NoCollection

(* What a step may change of what BuiltInv reads of q, and how.            *)
Frame(q) ==
    /\ job' = job
    /\ pc'[q] = "construct" => pc[q] = "construct" \/ PlanToApply(q)
    /\ target'[q] # target[q] => TargetBuilt(q)
    /\ pc'[q] = "write" => pc[q] = "write" \/ (pc[q] = "snapshot" /\ job[q].cmd = "apply")
    /\ push'[q]["write"] # push[q]["write"] =>
          \/ pc[q] = "write" /\ push'[q]["write"] = "flying"
          \/ /\ push[q]["write"] = "flying"
             /\ push'[q]["write"] = "landed" => account' \in StoredAs(target[q])

LEMMA ReadFrame ==
    ASSUME TypeOK, NEW p \in Procs, NEW q \in Procs, ReviewedRead(p)
    PROVE  Frame(q)
  <1>1. CASE Begin(p) \/ Refuse(p) \/ PullFails(p) \/ PullUnhashable(p)
    BY <1>1 DEF TypeOK, Begin, Refuse, PullFails, PullUnhashable, Goto, Finish, Local, Frame
  <1>2. CASE Drifted(p) \/ PlanConverged(p) \/ PullForRollback(p)
    BY <1>2 DEF TypeOK, Drifted, PlanConverged, AlreadyConverged, PullForRollback, Pulled,
                Goto, Finish, Local, Frame
  <1>3. CASE PlanToApply(p)
    BY <1>3 DEF TypeOK, PlanToApply, PullForApply, Pulled, Goto, Local, Frame
  <1>4. CASE TargetRefused(p)
    BY <1>4 DEF TypeOK, TargetRefused, ConstructFails, Finish, Local, Frame
  <1>5. CASE TargetBuilt(p)
    BY <1>5 DEF TypeOK, TargetBuilt, ConstructTarget, Goto, Finish, Local, Frame
  <1>6. CASE SnapshotFails(p) \/ WriteSnapshot(p)
    BY <1>6 DEF TypeOK, SnapshotFails, WriteSnapshot, Goto, Finish, Local, Frame
  <1> QED
    BY <1>1, <1>2, <1>3, <1>4, <1>5, <1>6 DEF ReviewedRead

LEMMA WriteFrame ==
    ASSUME TypeOK, NEW p \in Procs, NEW q \in Procs, WriteSide(p) \/ Kill(p)
    PROVE  Frame(q)
  <1>1. CASE \E w \in Writes : SendPush(p, w)
    BY <1>1 DEF TypeOK, SendPush, Goto, Awaiting, Writes, Frame
  <1>2. CASE WriteReturns(p) \/ RestoreAcknowledged(p) \/ VerifyMismatch(p)
             \/ VerifyPullFails(p) \/ Kill(p)
    BY <1>2 DEF TypeOK, WriteReturns, RestoreAcknowledged, VerifyMismatch, VerifyPullFails,
                Kill, Goto, Local, Frame
  <1>3. CASE RestoreErrs(p) \/ VerifyTarget(p) \/ VerifyUnchanged(p) \/ VerifyUnhashable(p)
    BY <1>3 DEF TypeOK, RestoreErrs, VerifyTarget, VerifyUnchanged, VerifyUnhashable,
                Finish, Local, Frame
  <1>4. CASE ReverifyRestored(p) \/ ReverifyMismatch(p) \/ ReverifyPullFails(p)
    BY <1>4 DEF TypeOK, ReverifyRestored, ReverifyMismatch, ReverifyPullFails, Reverified,
                Finish, Local, Frame
  <1> QED
    BY <1>1, <1>2, <1>3, <1>4 DEF WriteSide

LEMMA NetworkFrame ==
    ASSUME TypeOK, NEW p \in Procs, NEW q \in Procs, Network(p)
    PROVE  Frame(q)
  <1>1. CASE \E w \in Writes : Deliver(p, w)
    BY <1>1 DEF TypeOK, Deliver, Payload, Writes, Frame
  <1>2. CASE \E w \in Writes : Lose(p, w)
    BY <1>2 DEF TypeOK, Lose, Writes, Frame
  <1> QED
    BY <1>1, <1>2 DEF Network

LEMMA StepFrame ==
    ASSUME TypeOK, ReviewedNext, NEW q \in Procs
    PROVE  Frame(q) /\ profile' = profile
  <1>1. ForeignWrite => Frame(q)
    BY DEF ForeignWrite, Frame
  <1> QED
    BY <1>1, ReadFrame, WriteFrame, NetworkFrame DEF ReviewedNext

LEMMA InitBuilt == ReviewedInit => BuiltInv
  <1> SUFFICES ASSUME Init, NEW p \in Procs
               PROVE  pc[p] = "idle" /\ target[p] = NoCollection /\ ~Sent(p, "write")
    BY InitImplements DEF BuiltInv
  <1> QED
    BY DEF Init, Sent, Writes

LEMMA NextBuilt ==
    ASSUME TypeOK, AccountInv, BuiltInv, [ReviewedNext]_reviewedVars
    PROVE  BuiltInv'
  <1>1. CASE UNCHANGED reviewedVars
    BY <1>1 DEF reviewedVars, BuiltInv, Built, Ops, Sent
  <1>2. CASE ReviewedNext
    <2> SUFFICES ASSUME NEW p \in Procs
                 PROVE  /\ pc'[p] = "construct" => Ops(p)' # {}
                        /\ target'[p] # NoCollection => Built(p)'
                        /\ pc'[p] = "write" \/ Sent(p, "write")' => target'[p] # NoCollection
      BY DEF BuiltInv
    <2>1. Frame(p) /\ profile' = profile
      BY <1>2, StepFrame
    <2>2. Ops(p)' = Ops(p) /\ job' = job
      BY <2>1 DEF Frame, Ops
    <2>3. pc'[p] = "construct" => Ops(p)' # {}
      BY <2>1, <2>2 DEF Frame, BuiltInv, PlanToApply
    <2>4. StepOK(p)
      BY DEF AccountInv, StepInv
    <2>5. TargetBuilt(p) => Built(p)' /\ target'[p] # NoCollection
      <3> SUFFICES ASSUME TargetBuilt(p) PROVE Built(p)' /\ target'[p] # NoCollection
        OBVIOUS
      <3>1. base[p] = job[p].want /\ Ops(p) # {}
        BY <2>4 DEF StepOK, TargetBuilt, BuiltInv
      <3>2. target'[p] \in Collections
        BY DEF TargetBuilt, ConstructTarget, TypeOK
      <3> QED
        BY <2>2, <3>1, <3>2, ConstantFacts DEF TargetBuilt, Built
    <2>6. target'[p] # NoCollection => Built(p)'
      <3>1. target'[p] = target[p] /\ Built(p) => Built(p)'
        BY <2>2 DEF Built
      <3> QED
        BY <2>1, <2>5, <3>1 DEF Frame, BuiltInv
    <2>7. pc'[p] = "write" \/ Sent(p, "write")' => target'[p] # NoCollection
      <3>1. pc[p] = "snapshot" /\ job[p].cmd = "apply" => target[p] # NoCollection
        BY <2>4, ConstantFacts DEF StepOK
      <3>2. pc'[p] = "write" \/ Sent(p, "write")' =>
              pc[p] = "write" \/ Sent(p, "write") \/ target[p] # NoCollection
        BY <2>1, <3>1 DEF Frame, Sent
      <3>3. target[p] # NoCollection => target'[p] # NoCollection
        BY <2>1, <2>5 DEF Frame
      <3> QED
        BY <3>2, <3>3 DEF BuiltInv
    <2> QED
      BY <2>3, <2>6, <2>7
  <1> QED
    BY <1>1, <1>2

(* The ids of what lands are ids of what was reviewed, the protected ones  *)
(* among them.                                                             *)
LEMMA LandedIsReviewed ==
    ASSUME TypeOK, TypeOK', BuiltInv, ReviewedNext, NEW p \in Procs,
           push[p]["write"] = "flying", push'[p]["write"] = "landed"
    PROVE  /\ IdsOf(account') \subseteq IdsOf(job[p].want)
           /\ \A i \in DOMAIN job[p].want : job[p].want[i].rest \in Protected =>
                 Id(job[p].want[i]) \in IdsOf(account')
  <1>1. account' \in StoredAs(target[p])
    BY StepFrame DEF Frame
  <1>2. target[p] # NoCollection /\ Built(p)
    BY DEF BuiltInv, Sent
  <1>3. target[p] \in Collections /\ account' \in Collections /\ job[p].want \in Collections
    BY <1>2 DEF TypeOK, Jobs
  <1>4. IdsOf(account') = IdsOf(target[p])
    BY <1>1, <1>3, ShapeHasIds DEF StoredAs
  <1>5. IdsOf(target[p]) \subseteq IdsOf(job[p].want)
    BY <1>2, <1>3, NoNewIds DEF Built, Ops
  <1>6. ASSUME NEW i \in DOMAIN job[p].want, job[p].want[i].rest \in Protected
        PROVE  Id(job[p].want[i]) \in IdsOf(target[p])
    BY <1>2, <1>3, <1>6, ProtectedStay DEF Built, Ops
  <1> QED
    BY <1>4, <1>5, <1>6

(* Whatever the profiles, the collections, the key and the secrets, and    *)
(* however the runs interleave: a push of an apply installs nothing that   *)
(* was not reviewed and uninstalls no protected add-on.                    *)
THEOREM ReviewedChangesOnly == ReviewedSpec => OnlyReviewedChanges
  <1> DEFINE Exact ==
        \A p \in Procs :
          push[p]["write"] = "flying" /\ push'[p]["write"] = "landed" =>
              LET c == job[p].want
              IN  /\ IdsOf(account') \subseteq IdsOf(c)
                  /\ \A i \in DOMAIN c : c[i].rest \in Protected =>
                        Id(c[i]) \in IdsOf(account')
  <1>1. ReviewedSpec => [](TypeOK /\ AccountInv)
    BY ReviewedImplements, AccountInvariance
  <1>2. ReviewedSpec => []BuiltInv
    BY <1>1, InitBuilt, NextBuilt, PTL DEF ReviewedSpec
  <1>3. TypeOK /\ TypeOK' /\ BuiltInv /\ [ReviewedNext]_reviewedVars => [Exact]_reviewedVars
    BY LandedIsReviewed
  <1>4. ReviewedSpec => [][Exact]_reviewedVars
    BY <1>1, <1>2, <1>3, PTL DEF ReviewedSpec
  <1> QED
    BY <1>4 DEF OnlyReviewedChanges

-----------------------------------------------------------------------------
(* The plans stay the reviewed ones, and none of them was refused.         *)
ReviewedInv ==
    \A p \in Procs : job[p].cmd = "apply" =>
        profile[p] \in Profiles /\ ~PlanRefused(profile[p], job[p].want, Key)

LEMMA InitReviewed == ReviewedInit => ReviewedInv
  BY ReviewedAssumption DEF ReviewedInit, ReviewedInv

LEMMA NextReviewed ==
    ASSUME TypeOK, ReviewedInv, [ReviewedNext]_reviewedVars
    PROVE  ReviewedInv'
  <1>1. UNCHANGED <<job, profile>>
    <2>1. CASE ReviewedNext
      <3>1. PICK q : q \in Procs \/ Procs = {}
        OBVIOUS
      <3>2. CASE q \in Procs
        BY <2>1, <3>2, StepFrame DEF Frame
      <3> QED
        BY <2>1, <3>1, <3>2 DEF ReviewedNext, ForeignWrite, commandVars
    <2>2. CASE UNCHANGED reviewedVars
      BY <2>2 DEF reviewedVars
    <2> QED
      BY <2>1, <2>2
  <1> QED
    BY <1>1 DEF ReviewedInv

(* The target of an apply is what its profile wishes for: the planner has  *)
(* nothing left to do on it.                                               *)
LEMMA BuiltIsSettled ==
    ASSUME TypeOK, ReviewedInv, NEW p \in Procs, job[p].cmd = "apply",
           target[p] \in Collections, Built(p), Comparable(profile[p])
    PROVE  ~PlanRefused(profile[p], target[p], Key) /\ PlanOps(profile[p], target[p], Key) = {}
  <1> DEFINE P == profile[p]
             c == job[p].want
             d == target[p]
  <1>1. P \in Profiles /\ ~PlanRefused(P, c, Key)
    BY DEF ReviewedInv
  <1>2. c \in Seq(Descriptors) /\ d \in Seq(Descriptors)
    BY DescriptorAssumption DEF TypeOK, Jobs
  <1>3. /\ PlanOps(P, c, Key) # {}
        /\ ~ConstructRefused(PlanOps(P, c, Key), c, Key, Secrets)
        /\ d = Target(PlanOps(P, c, Key), c, Key, Secrets)
    BY DEF Built, Ops
  <1> HIDE DEF P, c, d
  <1>4. Placed(P, c, Key, Secrets, d)
    BY <1>1, <1>2, <1>3, AppliedProfile
  <1>5. Comparable(P)
    BY DEF P
  <1>6. ~PlanRefused(P, d, Key) /\ PlanOps(P, d, Key) = {}
    BY <1>1, <1>2, <1>4, <1>5, KeyAssumption, AppliedIsSettled
  <1> QED
    BY <1>6 DEF P, d

(* Whatever the profiles, the collections, the key and the secrets, and    *)
(* however the runs interleave: exit code 0 of an apply means that the     *)
(* account is as its profile wishes, until somebody writes to it.          *)
THEOREM OkIsDesired == ReviewedSpec => []OkMeansDesired
  <1>1. ReviewedSpec => [](TypeOK /\ AccountInv)
    BY ReviewedImplements, AccountInvariance
  <1>2. ReviewedSpec => []BuiltInv
    BY <1>1, InitBuilt, NextBuilt, PTL DEF ReviewedSpec
  <1>3. ReviewedSpec => []ReviewedInv
    BY <1>1, InitReviewed, NextReviewed, PTL DEF ReviewedSpec
  <1>4. TypeOK /\ AccountInv /\ BuiltInv /\ ReviewedInv => OkMeansDesired
    <2> SUFFICES ASSUME TypeOK, AccountInv, BuiltInv, ReviewedInv, NEW p \in Procs,
                        pc[p] = "done", exit[p] = "ok", job[p].cmd = "apply",
                        author = p, p \notin late, Comparable(profile[p])
                 PROVE  /\ ~PlanRefused(profile[p], account, Key)
                        /\ PlanOps(profile[p], account, Key) = {}
      BY DEF OkMeansDesired
    <2>1. account = target[p] /\ account \in Collections
      BY DEF AccountInv, ReportsHold, ReportHolds, Goal, TypeOK
    <2>2. Built(p)
      BY <2>1, ConstantFacts DEF BuiltInv
    <2>3. target[p] \in Collections
      BY <2>1
    <2> QED
      BY <2>1, <2>2, <2>3, BuiltIsSettled
  <1> QED
    BY <1>1, <1>2, <1>3, <1>4, PTL
=============================================================================
