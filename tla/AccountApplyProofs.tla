-------------------------- MODULE AccountApplyProofs --------------------------
(* Proofs about AccountApply, for any number of invocations, collections   *)
(* and writes of other clients: its invariants, and that it keeps the      *)
(* promise of SnapshotFirst.                                               *)
EXTENDS AccountRefinement, TLAPS

USE DEF vars, commandVars, remoteVars

LEMMA ConstantFacts ==
    /\ Shape \in [Collections -> Shapes]
    /\ Unhashable \subseteq Collections
    /\ NoCollection \notin Collections
    /\ Foreign \notin Procs
    /\ MaxForeign \in Nat
  BY ShapeAssumption, UnhashableAssumption, NoCollectionAssumption,
     ForeignAssumption, MaxForeignAssumption

(* What a failed or finished command changes: the step, the exit code and  *)
(* the rollback status of one invocation.                                  *)
Ends(p) ==
    /\ pc' = [pc EXCEPT ![p] = "done"]
    /\ \E code \in ExitCodes : exit' = [exit EXCEPT ![p] = code]
    /\ \E status \in RollbackStatuses : rollback' = [rollback EXCEPT ![p] = status]
    /\ UNCHANGED <<account, disk, push, job, base, target, original, author,
                   late, foreign>>

LEMMA KeepStatus ==
    ASSUME NEW p \in Procs, rollback \in [Procs -> RollbackStatuses],
           rollback' = rollback
    PROVE  \E status \in RollbackStatuses : rollback' = [rollback EXCEPT ![p] = status]
  <1> WITNESS rollback[p] \in RollbackStatuses
  <1> QED
    OBVIOUS

(* The actions that end a run at its reading side, with nothing sent. *)
EndsUnsent(p) ==
    \/ Refuse(p) \/ PullFails(p) \/ PullUnhashable(p)
    \/ ConstructFails(p) \/ SnapshotFails(p)

(* The actions that end a run after a write. *)
EndsSent(p) ==
    \/ RestoreErrs(p) \/ VerifyTarget(p) \/ VerifyUnchanged(p) \/ VerifyUnhashable(p)
    \/ ReverifyRestored(p) \/ ReverifyMismatch(p) \/ ReverifyPullFails(p)

(* The actions that only move a run to another step. *)
Advances(p) ==
    \/ Begin(p) \/ WriteReturns(p) \/ RestoreAcknowledged(p)
    \/ VerifyMismatch(p) \/ VerifyPullFails(p) \/ Kill(p)

PullStep(p) ==
    \/ Drifted(p) \/ AlreadyConverged(p) \/ PullForApply(p) \/ PullForRollback(p)

LEMMA NextCases ==
    ASSUME Next
    PROVE  \/ \E p \in Procs :
                \/ EndsUnsent(p) \/ EndsSent(p) \/ Advances(p) \/ PullStep(p)
                \/ ConstructTarget(p) \/ WriteSnapshot(p)
                \/ \E w \in Writes : SendPush(p, w) \/ Deliver(p, w) \/ Lose(p, w)
           \/ ForeignWrite
  BY DEF Next, ReadSide, WriteSide, Network, EndsUnsent, EndsSent, Advances, PullStep

LEMMA EndsUnsentFacts ==
    ASSUME TypeOK, NEW p \in Procs, EndsUnsent(p)
    PROVE  /\ Ends(p)
           /\ UNCHANGED rollback
           /\ pc[p] \in {"idle", "pull", "construct", "snapshot"}
  <1>1. /\ pc[p] \in {"idle", "pull", "construct", "snapshot"}
        /\ UNCHANGED rollback
    BY DEF EndsUnsent, Refuse, PullFails, PullUnhashable, ConstructFails, SnapshotFails
  <1>2. \E code \in ExitCodes : Finish(p, code)
    BY DEF EndsUnsent, Refuse, PullFails, PullUnhashable, ConstructFails,
       SnapshotFails, ExitCodes
  <1>3. Local /\ UNCHANGED <<disk, commandVars>>
    BY DEF EndsUnsent, Refuse, PullFails, PullUnhashable, ConstructFails, SnapshotFails
  <1> QED
    BY <1>1, <1>2, <1>3, KeepStatus DEF Ends, Finish, Local, TypeOK

LEMMA EndsSentFacts ==
    ASSUME TypeOK, NEW p \in Procs, EndsSent(p)
    PROVE  /\ Ends(p)
           /\ pc[p] \in {"verify", "restoring", "reverify"}
  <1>1. pc[p] \in {"verify", "restoring", "reverify"}
    BY DEF EndsSent, RestoreErrs, VerifyTarget, VerifyUnchanged, VerifyUnhashable,
       ReverifyRestored, ReverifyMismatch, ReverifyPullFails, Reverified
  <1>2. Local /\ UNCHANGED <<disk, commandVars>>
    BY DEF EndsSent, RestoreErrs, VerifyTarget, VerifyUnchanged, VerifyUnhashable,
       ReverifyRestored, ReverifyMismatch, ReverifyPullFails, Reverified
  <1>3. \E code \in ExitCodes : Finish(p, code)
    BY DEF EndsSent, RestoreErrs, VerifyTarget, VerifyUnchanged, VerifyUnhashable,
       ReverifyRestored, ReverifyMismatch, ReverifyPullFails, Reverified, ExitCodes
  <1>4. \/ UNCHANGED rollback
        \/ \E status \in RollbackStatuses : rollback' = [rollback EXCEPT ![p] = status]
    BY DEF EndsSent, RestoreErrs, VerifyTarget, VerifyUnchanged, VerifyUnhashable,
       ReverifyRestored, ReverifyMismatch, ReverifyPullFails, Reverified,
       RollbackStatuses
  <1> QED
    BY <1>1, <1>2, <1>3, <1>4, KeepStatus DEF Ends, Finish, Local, TypeOK

LEMMA AdvancesFacts ==
    ASSUME NEW p \in Procs, Advances(p)
    PROVE  /\ \E step \in Steps \ {"done"} : pc' = [pc EXCEPT ![p] = step]
           /\ UNCHANGED <<account, disk, push, job, base, target, exit, rollback,
                          original, author, late, foreign>>
  BY DEF Advances, Begin, WriteReturns, RestoreAcknowledged, VerifyMismatch,
     VerifyPullFails, Kill, Goto, Local, Steps

-----------------------------------------------------------------------------
(* Type correctness. *)

LEMMA InitTypeOK == Init => TypeOK
  BY ConstantFacts DEF Init, TypeOK, Writes, PushStates, Steps, ExitCodes,
     RollbackStatuses, Snapshots

LEMMA NextTypeOK == TypeOK /\ StepInv /\ [Next]_vars => TypeOK'
  <1> SUFFICES ASSUME TypeOK, StepInv, [Next]_vars PROVE TypeOK'
    OBVIOUS
  <1> USE DEF TypeOK
  <1>1. ASSUME NEW p \in Procs, Ends(p) PROVE TypeOK'
    BY <1>1 DEF Ends, Steps
  <1>2. ASSUME NEW p \in Procs, Advances(p) PROVE TypeOK'
    BY <1>2, AdvancesFacts
  <1>3. ASSUME NEW p \in Procs, PullStep(p) PROVE TypeOK'
    BY <1>3 DEF PullStep, Drifted, AlreadyConverged, PullForApply, PullForRollback,
       Pulled, Goto, Finish, Local, Steps, ExitCodes
  <1>4. ASSUME NEW p \in Procs, ConstructTarget(p) PROVE TypeOK'
    <2>1. PICK t \in Collections \ Unhashable :
             /\ target' = [target EXCEPT ![p] = t]
             /\ Finish(p, "ok") \/ Goto(p, "snapshot")
      BY <1>4 DEF ConstructTarget
    <2>2. pc' \in [Procs -> Steps] /\ exit' \in [Procs -> ExitCodes]
      BY <2>1 DEF Goto, Finish, Steps, ExitCodes
    <2> QED
      BY <2>1, <2>2, <1>4 DEF ConstructTarget, Local
  <1>5. ASSUME NEW p \in Procs, WriteSnapshot(p) PROVE TypeOK'
    <2>1. base[p] \in Collections
      BY <1>5 DEF WriteSnapshot, StepInv, StepOK
    <2>2. disk' \subseteq Snapshots
      BY <2>1, <1>5 DEF WriteSnapshot, Snapshots
    <2>3. Goto(p, "write") \/ Finish(p, "ok") \/ Goto(p, "restore")
      BY <1>5 DEF WriteSnapshot
    <2>4. pc' \in [Procs -> Steps] /\ exit' \in [Procs -> ExitCodes]
      BY <2>3 DEF Goto, Finish, Steps, ExitCodes
    <2> QED
      BY <2>2, <2>4, <1>5 DEF WriteSnapshot, Local
  <1>6. ASSUME NEW p \in Procs, NEW w \in Writes, SendPush(p, w) PROVE TypeOK'
    BY <1>6 DEF SendPush, Goto, Awaiting, Steps, PushStates, Writes
  <1>7. ASSUME NEW p \in Procs, NEW w \in Writes, Deliver(p, w) PROVE TypeOK'
    BY <1>7 DEF Deliver, StoredAs, PushStates
  <1>8. ASSUME NEW p \in Procs, NEW w \in Writes, Lose(p, w) PROVE TypeOK'
    BY <1>8 DEF Lose, PushStates
  <1>9. ASSUME ForeignWrite PROVE TypeOK'
    BY <1>9 DEF ForeignWrite
  <1>10. CASE UNCHANGED vars
    BY <1>10
  <1> QED
    BY <1>1, <1>2, <1>3, <1>4, <1>5, <1>6, <1>7, <1>8, <1>9, <1>10, NextCases,
       EndsUnsentFacts, EndsSentFacts

-----------------------------------------------------------------------------
(* Where the pushes of a run are at each of its steps. *)

LEMMA InitStepInv == Init => StepInv
  <1> SUFFICES ASSUME Init, NEW q \in Procs PROVE StepOK(q)
    BY DEF StepInv
  <1>1. ~Sent(q, "write") /\ ~Sent(q, "restore")
    BY DEF Init, Sent, Writes
  <1>2. pc[q] = "idle" /\ exit[q] = "none" /\ rollback[q] = "not_attempted"
    BY DEF Init
  <1>3. author # q
    BY ConstantFacts DEF Init
  <1>4. disk = {}
    BY DEF Init
  <1> QED
    BY <1>1, <1>2, <1>3, <1>4 DEF StepOK

LEMMA NextStepInv == TypeOK /\ StepInv /\ [Next]_vars => StepInv'
  <1> SUFFICES ASSUME TypeOK, StepInv, [Next]_vars, NEW q \in Procs
               PROVE  StepOK(q)'
    BY DEF StepInv
  <1>q. StepOK(q)
    BY DEF StepInv
  <1> USE DEF TypeOK
  <1>1. ASSUME NEW p \in Procs, Ends(p) PROVE StepOK(q)'
    BY <1>1, <1>q DEF Ends, StepOK, Sent, Armed
  <1>2. ASSUME NEW p \in Procs, Advances(p) PROVE StepOK(q)'
    <2>1. CASE q # p
      BY <2>1, <1>2, <1>q, AdvancesFacts DEF StepOK, Sent, Armed
    <2>2. CASE q = p
      <3>1. ASSUME Begin(p) PROVE StepOK(p)'
        BY <3>1, <2>2, <1>q DEF Begin, Goto, Local, StepOK, Sent, Armed
      <3>4. ASSUME Kill(p) PROVE StepOK(p)'
        <4>1. pc'[p] = "killed" /\ pc[p] # "done"
          BY <3>4 DEF Kill, Goto, Stopped
        <4>2. UNCHANGED <<push, exit, rollback, author>>
          BY <3>4 DEF Kill, Goto, Local
        <4> QED
          BY <4>1, <4>2, <2>2, <1>q DEF StepOK, Sent
      <3>2. ASSUME WriteReturns(p) \/ VerifyMismatch(p) \/ VerifyPullFails(p)
            PROVE  StepOK(p)'
        BY <3>2, <2>2, <1>q DEF WriteReturns, VerifyMismatch, VerifyPullFails,
           Goto, Local, StepOK, Sent, Armed
      <3>3. ASSUME RestoreAcknowledged(p) PROVE StepOK(p)'
        BY <3>3, <2>2, <1>q DEF RestoreAcknowledged, Goto, Local, StepOK, Sent, Armed
      <3> QED
        BY <3>1, <3>2, <3>3, <3>4, <2>2, <1>2 DEF Advances
    <2> QED
      BY <2>1, <2>2
  <1>3. ASSUME NEW p \in Procs, PullStep(p) PROVE StepOK(q)'
    BY <1>3, <1>q DEF PullStep, Drifted, AlreadyConverged, PullForApply,
       PullForRollback, Pulled, Goto, Finish, Local, StepOK, Sent, Armed, Jobs
  <1>4. ASSUME NEW p \in Procs, ConstructTarget(p) PROVE StepOK(q)'
    BY <1>4, <1>q DEF ConstructTarget, Goto, Finish, Local, StepOK, Sent, Armed, Jobs
  <1>5. ASSUME NEW p \in Procs, WriteSnapshot(p) PROVE StepOK(q)'
    BY <1>5, <1>q DEF WriteSnapshot, Goto, Finish, Local, StepOK, Sent, Armed, Jobs
  <1>6. ASSUME NEW p \in Procs, NEW w \in Writes, SendPush(p, w) PROVE StepOK(q)'
    BY <1>6, <1>q DEF SendPush, Goto, Awaiting, StepOK, Sent, Armed, Writes
  <1>7. ASSUME NEW p \in Procs, NEW w \in Writes, Deliver(p, w) PROVE StepOK(q)'
    BY <1>7, <1>q DEF Deliver, StepOK, Sent, Armed, Writes
  <1>8. ASSUME NEW p \in Procs, NEW w \in Writes, Lose(p, w) PROVE StepOK(q)'
    BY <1>8, <1>q DEF Lose, StepOK, Sent, Armed, Writes
  <1>9. ASSUME ForeignWrite PROVE StepOK(q)'
    BY <1>9, <1>q, ConstantFacts DEF ForeignWrite, StepOK, Sent, Armed
  <1>10. CASE UNCHANGED vars
    BY <1>10, <1>q DEF StepOK, Sent, Armed
  <1> QED
    BY <1>1, <1>2, <1>3, <1>4, <1>5, <1>6, <1>7, <1>8, <1>9, <1>10, NextCases,
       EndsUnsentFacts, EndsSentFacts

-----------------------------------------------------------------------------
(* No write without a snapshot, and none over a drifted base. *)

LEMMA NextWritesAreGuarded ==
    TypeOK /\ StepInv /\ WritesAreGuarded /\ [Next]_vars => WritesAreGuarded'
  <1> SUFFICES ASSUME TypeOK, StepInv, WritesAreGuarded, [Next]_vars, NEW q \in Procs
               PROVE  WriteIsGuarded(q)'
    BY DEF WritesAreGuarded
  <1>q. WriteIsGuarded(q) /\ StepOK(q)
    BY DEF WritesAreGuarded, StepInv
  <1> USE DEF TypeOK
  <1>1. ASSUME NEW p \in Procs, Ends(p) PROVE WriteIsGuarded(q)'
    BY <1>1, <1>q DEF Ends, WriteIsGuarded, Wrote, Sent
  <1>2. ASSUME NEW p \in Procs, Advances(p) PROVE WriteIsGuarded(q)'
    BY <1>2, <1>q, AdvancesFacts DEF WriteIsGuarded, Wrote, Sent
  <1>3. ASSUME NEW p \in Procs, PullStep(p) PROVE WriteIsGuarded(q)'
    BY <1>3, <1>q DEF PullStep, Drifted, AlreadyConverged, PullForApply,
       PullForRollback, Pulled, Local, WriteIsGuarded, Wrote, Sent, StepOK, Writes
  <1>4. ASSUME NEW p \in Procs, ConstructTarget(p) PROVE WriteIsGuarded(q)'
    BY <1>4, <1>q DEF ConstructTarget, Local, WriteIsGuarded, Wrote, Sent, StepOK, Writes
  <1>5. ASSUME NEW p \in Procs, WriteSnapshot(p) PROVE WriteIsGuarded(q)'
    BY <1>5, <1>q DEF WriteSnapshot, Local, WriteIsGuarded, Wrote, Sent
  <1>6. ASSUME NEW p \in Procs, NEW w \in Writes, SendPush(p, w)
        PROVE  WriteIsGuarded(q)'
    BY <1>6, <1>q DEF SendPush, WriteIsGuarded, Wrote, Sent, StepOK, Armed, Writes
  <1>7. ASSUME NEW p \in Procs, NEW w \in Writes, Deliver(p, w)
        PROVE  WriteIsGuarded(q)'
    BY <1>7, <1>q DEF Deliver, WriteIsGuarded, Wrote, Sent, Writes
  <1>8. ASSUME NEW p \in Procs, NEW w \in Writes, Lose(p, w)
        PROVE  WriteIsGuarded(q)'
    BY <1>8, <1>q DEF Lose, WriteIsGuarded, Wrote, Sent, Writes
  <1>9. CASE ForeignWrite \/ UNCHANGED vars
    BY <1>9, <1>q DEF ForeignWrite, WriteIsGuarded, Wrote, Sent
  <1> QED
    BY <1>1, <1>2, <1>3, <1>4, <1>5, <1>6, <1>7, <1>8, <1>9, NextCases,
       EndsUnsentFacts, EndsSentFacts

-----------------------------------------------------------------------------
(* The original collection is never lost while nobody else writes. *)

LEMMA NextRecoverable ==
    TypeOK /\ StepInv /\ WritesAreGuarded /\ BaseInv /\ OriginalRecoverable
      /\ [Next]_vars => BaseInv' /\ OriginalRecoverable'
  <1> SUFFICES ASSUME TypeOK, StepInv, WritesAreGuarded, BaseInv,
                      OriginalRecoverable, [Next]_vars
               PROVE  BaseInv' /\ OriginalRecoverable'
    OBVIOUS
  <1> USE DEF TypeOK
  <1>1. ASSUME UNCHANGED <<account, disk, base, original, foreign>>
        PROVE  BaseInv' /\ OriginalRecoverable'
    BY <1>1 DEF BaseInv, OriginalRecoverable, OnDisk
  <1>2. ASSUME NEW p \in Procs, PullStep(p)
        PROVE  BaseInv' /\ OriginalRecoverable'
    <2>1. base' = [base EXCEPT ![p] = account]
      BY <1>2 DEF PullStep, Drifted, AlreadyConverged, PullForApply,
         PullForRollback, Pulled
    <2>2. UNCHANGED <<account, disk, original, foreign>>
      BY <1>2 DEF PullStep, Drifted, AlreadyConverged, PullForApply,
         PullForRollback, Pulled, Local
    <2> QED
      BY <2>1, <2>2 DEF BaseInv, OriginalRecoverable, OnDisk
  <1>3. ASSUME NEW p \in Procs, WriteSnapshot(p)
        PROVE  BaseInv' /\ OriginalRecoverable'
    <2>1. disk \subseteq disk' /\ UNCHANGED <<account, base, original, foreign>>
      BY <1>3 DEF WriteSnapshot, Local
    <2> QED
      BY <2>1 DEF BaseInv, OriginalRecoverable, OnDisk
  <1>4. ASSUME NEW p \in Procs, NEW w \in Writes, Deliver(p, w)
        PROVE  BaseInv' /\ OriginalRecoverable'
    <2>1. UNCHANGED <<disk, base, original, foreign>>
      BY <1>4 DEF Deliver
    <2>2. [by |-> p, coll |-> base[p]] \in disk
      BY <1>4 DEF Deliver, WritesAreGuarded, WriteIsGuarded, Wrote, Sent
    <2>3. OnDisk(base[p]) /\ base[p] # NoCollection
      BY <2>2, ConstantFacts DEF OnDisk, Snapshots
    <2>4. foreign = 0 => OnDisk(original)
      BY <2>3 DEF BaseInv
    <2> QED
      BY <2>1, <2>4 DEF BaseInv, OriginalRecoverable, OnDisk
  <1>5. ASSUME ForeignWrite PROVE BaseInv' /\ OriginalRecoverable'
    <2>1. foreign' # 0
      BY <1>5 DEF ForeignWrite
    <2> QED
      BY <2>1 DEF BaseInv, OriginalRecoverable
  <1>6. ASSUME NEW p \in Procs, ConstructTarget(p)
        PROVE  UNCHANGED <<account, disk, base, original, foreign>>
    BY <1>6 DEF ConstructTarget, Local
  <1>7. ASSUME NEW p \in Procs, NEW w \in Writes, SendPush(p, w) \/ Lose(p, w)
        PROVE  UNCHANGED <<account, disk, base, original, foreign>>
    BY <1>7 DEF SendPush, Lose
  <1>8. ASSUME NEW p \in Procs, Ends(p) \/ Advances(p)
        PROVE  UNCHANGED <<account, disk, base, original, foreign>>
    BY <1>8, AdvancesFacts DEF Ends
  <1>9. CASE UNCHANGED vars
    BY <1>1, <1>9
  <1> QED
    BY <1>1, <1>2, <1>3, <1>4, <1>5, <1>6, <1>7, <1>8, <1>9, NextCases,
       EndsUnsentFacts, EndsSentFacts

-----------------------------------------------------------------------------
(* The exit code and the status tell what was sent. *)

LEMMA NextOutcome ==
    TypeOK /\ StepInv /\ OutcomeAccountsForWrites /\ [Next]_vars
      => OutcomeAccountsForWrites'
  <1> SUFFICES ASSUME TypeOK, StepInv, OutcomeAccountsForWrites, [Next]_vars,
                      NEW q \in Procs
               PROVE  OutcomeAccounts(q)'
    BY DEF OutcomeAccountsForWrites
  <1>q. OutcomeAccounts(q) /\ StepOK(q)
    BY DEF OutcomeAccountsForWrites, StepInv
  <1> USE DEF TypeOK
  <1>1. ASSUME NEW p \in Procs, EndsUnsent(p) PROVE OutcomeAccounts(q)'
    <2>1. CASE q = p
      <3>1. ~Wrote(q) /\ rollback[q] = "not_attempted"
        BY <2>1, <1>1, <1>q, EndsUnsentFacts DEF StepOK, Wrote, Writes
      <3> QED
        BY <3>1, <1>1, EndsUnsentFacts DEF Ends, OutcomeAccounts, Wrote, Sent, Writes
    <2>2. CASE q # p
      BY <2>2, <1>1, <1>q, EndsUnsentFacts DEF Ends, OutcomeAccounts, Wrote, Sent
    <2> QED
      BY <2>1, <2>2
  <1>2. ASSUME NEW p \in Procs, EndsSent(p) PROVE OutcomeAccounts(q)'
    <2>1. CASE q # p
      BY <2>1, <1>2, <1>q, EndsSentFacts DEF Ends, OutcomeAccounts, Wrote, Sent
    <2>2. CASE q = p
      <3>1. exit'[p] \in {"ok", "apply", "defect"}
        BY <1>2 DEF EndsSent, RestoreErrs, VerifyTarget, VerifyUnchanged,
           VerifyUnhashable, ReverifyRestored, ReverifyMismatch, ReverifyPullFails,
           Reverified, Finish
      <3>2. exit'[p] \in {"ok", "apply"} =>
              (rollback'[p] # "not_attempted" <=> pc[p] \in {"restoring", "reverify"})
        BY <1>2, <1>q, <2>2 DEF EndsSent, RestoreErrs, VerifyTarget, VerifyUnchanged,
           VerifyUnhashable, ReverifyRestored, ReverifyMismatch, ReverifyPullFails,
           Reverified, Finish, StepOK
      <3>3. UNCHANGED push /\ (pc[p] \in {"restoring", "reverify"} <=> Sent(p, "restore"))
        BY <1>2, <1>q, <2>2, EndsSentFacts DEF Ends, StepOK
      <3> QED
        BY <3>1, <3>2, <3>3, <2>2 DEF OutcomeAccounts, Sent
    <2> QED
      BY <2>1, <2>2
  <1>3. ASSUME NEW p \in Procs, Advances(p) PROVE OutcomeAccounts(q)'
    BY <1>3, <1>q, AdvancesFacts DEF OutcomeAccounts, Wrote, Sent
  <1>4. ASSUME NEW p \in Procs, PullStep(p) PROVE OutcomeAccounts(q)'
    BY <1>4, <1>q DEF PullStep, Drifted, AlreadyConverged, PullForApply, PullForRollback,
       Pulled, Goto, Finish, Local, OutcomeAccounts, Wrote, Sent, StepOK, Writes
  <1>5. ASSUME NEW p \in Procs, ConstructTarget(p) PROVE OutcomeAccounts(q)'
    BY <1>5, <1>q DEF ConstructTarget, Goto, Finish, Local, OutcomeAccounts, Wrote,
       Sent, StepOK, Writes
  <1>6. ASSUME NEW p \in Procs, WriteSnapshot(p) PROVE OutcomeAccounts(q)'
    BY <1>6, <1>q DEF WriteSnapshot, Goto, Finish, Local, OutcomeAccounts, Wrote,
       Sent, StepOK, Writes
  <1>7. ASSUME NEW p \in Procs, NEW w \in Writes, SendPush(p, w)
        PROVE  OutcomeAccounts(q)'
    <2>1. CASE q = p
      BY <2>1, <1>7, <1>q DEF SendPush, Goto, OutcomeAccounts, StepOK, Writes
    <2>2. CASE q # p
      BY <2>2, <1>7, <1>q DEF SendPush, Goto, OutcomeAccounts, Wrote, Sent
    <2> QED
      BY <2>1, <2>2
  <1>8. ASSUME NEW p \in Procs, NEW w \in Writes, Deliver(p, w) \/ Lose(p, w)
        PROVE  OutcomeAccounts(q)'
    <2>1. UNCHANGED <<exit, rollback>> /\ \A v \in Writes : Sent(q, v)' <=> Sent(q, v)
      BY <1>8 DEF Deliver, Lose, Sent
    <2> QED
      BY <2>1, <1>q DEF OutcomeAccounts, Wrote, Writes
  <1>9. CASE ForeignWrite \/ UNCHANGED vars
    BY <1>9, <1>q DEF ForeignWrite, OutcomeAccounts, Wrote, Sent
  <1> QED
    BY <1>1, <1>2, <1>3, <1>4, <1>5, <1>6, <1>7, <1>8, <1>9, NextCases

-----------------------------------------------------------------------------
(* A report without a late push behind it holds until somebody else writes. *)

LEMMA NextReportsHold ==
    TypeOK /\ StepInv /\ ReportsHold /\ [Next]_vars => ReportsHold'
  <1> SUFFICES ASSUME TypeOK, StepInv, ReportsHold, [Next]_vars, NEW q \in Procs
               PROVE  ReportHolds(q)'
    BY DEF ReportsHold
  <1>q. ReportHolds(q) /\ StepOK(q)
    BY DEF ReportsHold, StepInv
  <1> USE DEF TypeOK
  <1>u. \A p \in Procs : ~Sent(p, "write") /\ ~Sent(p, "restore") /\ StepOK(p)
                            => author # p
    BY DEF StepOK, Sent, Writes
  <1>1. ASSUME NEW p \in Procs, EndsUnsent(p) PROVE ReportHolds(q)'
    <2>1. CASE q = p
      BY <2>1, <1>1, <1>q, <1>u, EndsUnsentFacts DEF Ends, StepOK, ReportHolds
    <2>2. CASE q # p
      BY <2>2, <1>1, <1>q, EndsUnsentFacts DEF Ends, ReportHolds, Goal, Restored,
         SameShape
    <2> QED
      BY <2>1, <2>2
  <1>2. ASSUME NEW p \in Procs, EndsSent(p) PROVE ReportHolds(q)'
    <2>1. CASE q # p
      BY <2>1, <1>2, <1>q, EndsSentFacts DEF Ends, ReportHolds, Goal, Restored, SameShape
    <2>2. CASE q = p
      <3>0. UNCHANGED <<account, job, base, target>>
        BY <1>2, EndsSentFacts DEF Ends
      <3>1. CASE RestoreErrs(p) \/ VerifyUnhashable(p) \/ ReverifyMismatch(p)
                 \/ ReverifyPullFails(p)
        BY <3>1, <2>2, <1>q DEF RestoreErrs, VerifyUnhashable, ReverifyMismatch,
           ReverifyPullFails, Reverified, Finish, ReportHolds, StepOK
      <3>2. CASE VerifyTarget(p)
        BY <3>0, <3>2, <2>2, <1>q DEF VerifyTarget, Finish, ReportHolds, StepOK, Goal
      <3>3. CASE VerifyUnchanged(p)
        BY <3>0, <3>3, <2>2, <1>q DEF VerifyUnchanged, Finish, ReportHolds, StepOK,
           SameShape
      <3>4. CASE ReverifyRestored(p)
        BY <3>0, <3>4, <2>2, <1>q DEF ReverifyRestored, Reverified, Finish,
           ReportHolds, StepOK, Goal, Restored
      <3> QED
        BY <3>1, <3>2, <3>3, <3>4, <1>2 DEF EndsSent
    <2> QED
      BY <2>1, <2>2
  <1>3. ASSUME NEW p \in Procs, Advances(p) PROVE ReportHolds(q)'
    BY <1>3, <1>q, AdvancesFacts DEF ReportHolds, Goal, Restored, SameShape
  <1>4. ASSUME NEW p \in Procs, PullStep(p) \/ ConstructTarget(p) \/ WriteSnapshot(p)
        PROVE  ReportHolds(q)'
    <2>1. CASE q = p
      <3>1. UNCHANGED author /\ pc[p] \in {"pull", "construct", "snapshot"}
        BY <1>4 DEF PullStep, Drifted, AlreadyConverged, PullForApply, PullForRollback,
           Pulled, ConstructTarget, WriteSnapshot, Local
      <3> QED
        BY <3>1, <2>1, <1>q, <1>u DEF StepOK, ReportHolds
    <2>2. CASE q # p
      <3>1. UNCHANGED <<account, author, late, job, rollback>>
        BY <1>4 DEF PullStep, Drifted, AlreadyConverged, PullForApply, PullForRollback,
           Pulled, ConstructTarget, WriteSnapshot, Local
      <3>2. pc'[q] = pc[q] /\ exit'[q] = exit[q]
        BY <2>2, <1>4 DEF PullStep, Drifted, AlreadyConverged, PullForApply,
           PullForRollback, Pulled, ConstructTarget, WriteSnapshot, Goto, Finish
      <3>3. base'[q] = base[q] /\ target'[q] = target[q]
        BY <2>2, <1>4 DEF PullStep, Drifted, AlreadyConverged, PullForApply,
           PullForRollback, Pulled, ConstructTarget, WriteSnapshot
      <3> QED
        BY <3>1, <3>2, <3>3, <1>q DEF ReportHolds, Goal, Restored, SameShape
    <2> QED
      BY <2>1, <2>2
  <1>5. ASSUME NEW p \in Procs, NEW w \in Writes, SendPush(p, w) PROVE ReportHolds(q)'
    BY <1>5, <1>q DEF SendPush, Goto, Awaiting, ReportHolds, Goal, Restored, SameShape
  <1>6. ASSUME NEW p \in Procs, NEW w \in Writes, Deliver(p, w) PROVE ReportHolds(q)'
    <2>1. UNCHANGED pc /\ author' = p /\ (pc[p] = "done" => p \in late')
      BY <1>6 DEF Deliver, Awaiting
    <2> QED
      BY <2>1 DEF ReportHolds
  <1>7. ASSUME NEW p \in Procs, NEW w \in Writes, Lose(p, w) PROVE ReportHolds(q)'
    BY <1>7, <1>q DEF Lose, ReportHolds, Goal, Restored, SameShape
  <1>8. ASSUME ForeignWrite PROVE ReportHolds(q)'
    BY <1>8, ConstantFacts DEF ForeignWrite, ReportHolds
  <1>9. CASE UNCHANGED vars
    BY <1>9, <1>q DEF ReportHolds, Goal, Restored, SameShape
  <1> QED
    BY <1>1, <1>2, <1>3, <1>4, <1>5, <1>6, <1>7, <1>8, <1>9, NextCases

-----------------------------------------------------------------------------
(* The theorems. *)

LEMMA InitAccountInv == Init => AccountInv
  <1> SUFFICES ASSUME Init PROVE AccountInv
    OBVIOUS
  <1>1. StepInv
    BY InitStepInv
  <1>2. WritesAreGuarded
    BY DEF Init, WritesAreGuarded, WriteIsGuarded, Wrote, Sent
  <1>3. BaseInv /\ OriginalRecoverable
    BY DEF Init, BaseInv, OriginalRecoverable
  <1>4. OutcomeAccountsForWrites
    BY DEF Init, OutcomeAccountsForWrites, OutcomeAccounts
  <1>5. ReportsHold
    BY DEF Init, ReportsHold, ReportHolds
  <1> QED
    BY <1>1, <1>2, <1>3, <1>4, <1>5 DEF AccountInv

LEMMA AccountInvariance == Spec => [](TypeOK /\ AccountInv)
  <1>1. Init => TypeOK /\ AccountInv
    BY InitTypeOK, InitAccountInv
  <1>2. (TypeOK /\ AccountInv) /\ [Next]_vars => (TypeOK /\ AccountInv)'
    BY NextTypeOK, NextStepInv, NextWritesAreGuarded, NextRecoverable, NextOutcome,
       NextReportsHold DEF AccountInv
  <1> QED
    BY <1>1, <1>2, PTL DEF Spec

(* Every variable stays in its range. *)
THEOREM TypeCorrect == Spec => []TypeOK
  BY AccountInvariance, PTL

(* The inductive invariant: of every invocation, what its step says of its *)
(* pulls, pushes and report, together with the four properties below.      *)
THEOREM AccountInvariant == Spec => []AccountInv
  BY AccountInvariance, PTL

(* No push of any invocation precedes its persisted snapshot, and no push  *)
(* of an apply follows a pull that differs from the base of its plan.      *)
THEOREM GuardedWrites == Spec => []WritesAreGuarded
  <1>1. AccountInv => WritesAreGuarded
    BY DEF AccountInv
  <1> QED
    BY <1>1, AccountInvariance, PTL

(* With any number of invocations, killed anywhere, and pushes lost or     *)
(* delayed, the original collection stays in the account or on disk as     *)
(* long as no other client writes.                                         *)
THEOREM Recoverability == Spec => []OriginalRecoverable
  <1>1. AccountInv => OriginalRecoverable
    BY DEF AccountInv
  <1> QED
    BY <1>1, AccountInvariance, PTL

(* An exit code 2 to 5 means nothing was sent; a rollback status other     *)
(* than not_attempted means a restore was.                                 *)
THEOREM HonestOutcomes == Spec => []OutcomeAccountsForWrites
  <1>1. AccountInv => OutcomeAccountsForWrites
    BY DEF AccountInv
  <1> QED
    BY <1>1, AccountInvariance, PTL

(* What a run without a late push reports is what the account holds, until *)
(* somebody else writes.                                                   *)
THEOREM LastingReports == Spec => []ReportsHold
  <1>1. AccountInv => ReportsHold
    BY DEF AccountInv
  <1> QED
    BY <1>1, AccountInvariance, PTL

(* No run sends its push or its restore a second time. *)
THEOREM SingleAttempts == Spec => PushedOnce
  <1>1. TypeOK /\ AccountInv /\ [Next]_vars =>
          [\A p \in Procs, w \in Writes :
              pc[p] = w /\ pc'[p] = Awaiting(w) => ~Sent(p, w)]_vars
    <2> SUFFICES ASSUME AccountInv, NEW p \in Procs, NEW w \in Writes, pc[p] = w
                 PROVE  ~Sent(p, w)
      OBVIOUS
    <2> QED
      BY DEF AccountInv, StepInv, StepOK, Writes
  <1> QED
    BY <1>1, AccountInvariance, PTL DEF Spec, PushedOnce

-----------------------------------------------------------------------------
(* The refinement of SnapshotFirst. *)

(* Nothing p owes changes while p's own variables do not. *)
LEMMA SameLicence ==
    ASSUME NEW q \in Procs, pc'[q] = pc[q], push'[q] = push[q], job'[q] = job[q],
           base'[q] = base[q], target'[q] = target[q]
    PROVE  Licence'[q] = Licence[q]
  <1>1. Owed(q)' = Owed(q)
    BY DEF Owed, Ahead
  <1>2. \A w : Payload(q, w)' = Payload(q, w)
    BY DEF Payload, Restored
  <1> QED
    BY <1>1, <1>2 DEF Licence

(* What p owes can only shrink when its documents stay what they are. *)
LEMMA ShrinkingLicence ==
    ASSUME NEW p \in Procs, UNCHANGED <<job, base, target, disk, account>>,
           Owed(p)' \subseteq Owed(p),
           \A q \in Procs \ {p} : pc'[q] = pc[q] /\ push'[q] = push[q]
    PROVE  Promise!Next
  <1>1. \A w : Payload(p, w)' = Payload(p, w)
    BY DEF Payload, Restored
  <1>2. Licence'[p] \subseteq Licence[p]
    BY <1>1 DEF Licence
  <1>3. \A q \in Procs \ {p} : Licence'[q] = Licence[q]
    BY SameLicence
  <1>4. Licence' = [Licence EXCEPT ![p] = Licence'[p]]
    BY <1>3 DEF Licence
  <1>5. Promise!GiveUp(p)
    BY <1>2, <1>4 DEF Promise!GiveUp
  <1> QED
    BY <1>5 DEF Promise!Next

LEMMA RefineInit == Init => Promise!Init
  <1> SUFFICES ASSUME Init PROVE Promise!Init
    OBVIOUS
  <1>1. \A p \in Procs : Owed(p) = {}
    BY DEF Init, Owed, Ahead, Writes
  <1>2. Licence = [p \in Procs |-> {}]
    BY <1>1 DEF Licence
  <1> QED
    BY <1>2 DEF Init, Promise!Init

(* A step that neither sends nor keeps anything owed. *)
LEMMA RefineEnds ==
    ASSUME TypeOK, StepInv, NEW p \in Procs, Ends(p)
    PROVE  Promise!Next
  <1>1. Owed(p)' \subseteq Owed(p)
    BY DEF Ends, Owed, Ahead, TypeOK
  <1> QED
    BY <1>1, ShrinkingLicence DEF Ends, TypeOK

LEMMA RefineAdvances ==
    ASSUME TypeOK, StepInv, NEW p \in Procs, Advances(p)
    PROVE  Promise!Next
  <1>1. Ahead(p)' \subseteq Ahead(p)
    BY DEF Advances, Begin, WriteReturns, RestoreAcknowledged, VerifyMismatch,
       VerifyPullFails, Kill, Goto, Ahead, TypeOK
  <1>2. Owed(p)' \subseteq Owed(p)
    BY <1>1, AdvancesFacts DEF Owed
  <1>3. \A q \in Procs \ {p} : pc'[q] = pc[q] /\ push'[q] = push[q]
    BY AdvancesFacts DEF TypeOK
  <1> QED
    BY <1>2, <1>3, AdvancesFacts, ShrinkingLicence

LEMMA RefineLose ==
    ASSUME TypeOK, StepInv, NEW p \in Procs, NEW w \in Writes, Lose(p, w)
    PROVE  Promise!Next
  <1>1. Owed(p)' \subseteq Owed(p)
    BY DEF Lose, Owed, Ahead, TypeOK, Writes
  <1>2. \A q \in Procs \ {p} : pc'[q] = pc[q] /\ push'[q] = push[q]
    BY DEF Lose, TypeOK
  <1> QED
    BY <1>1, <1>2, ShrinkingLicence DEF Lose

(* The steps before the snapshot owe nothing. *)
LEMMA RefineReading ==
    ASSUME TypeOK, StepInv, NEW p \in Procs, PullStep(p) \/ ConstructTarget(p)
    PROVE  UNCHANGED Promise!vars
  <1>1. /\ pc[p] \in {"pull", "construct"}
        /\ pc'[p] \in {"done", "construct", "snapshot"}
        /\ UNCHANGED <<account, disk, push, job>>
        /\ \A q \in Procs \ {p} : pc'[q] = pc[q] /\ base'[q] = base[q]
                                    /\ target'[q] = target[q]
    BY DEF PullStep, Drifted, AlreadyConverged, PullForApply, PullForRollback, Pulled,
       ConstructTarget, Goto, Finish, Local, TypeOK
  <1>2. Owed(p) = {} /\ Owed(p)' = {}
    BY <1>1 DEF StepInv, StepOK, Sent, Owed, Ahead, Writes
  <1>3. Licence'[p] = Licence[p]
    BY <1>2 DEF Licence
  <1>4. \A q \in Procs : Licence'[q] = Licence[q]
    BY <1>1, <1>3, SameLicence
  <1>5. Licence' = Licence
    BY <1>4 DEF Licence
  <1> QED
    BY <1>1, <1>5 DEF Promise!vars

(* Writing the snapshot is keeping the base. *)
LEMMA RefineSnapshot ==
    ASSUME TypeOK, StepInv, NEW p \in Procs, WriteSnapshot(p)
    PROVE  Promise!Next
  <1> DEFINE other == Payload(p, IF job[p].cmd = "apply" THEN "write" ELSE "restore")
             c == base[p]
             d == IF other \in Collections THEN other ELSE base[p]
  <1>1. /\ pc[p] = "snapshot"
        /\ pc'[p] \in {"write", "restore", "done"}
        /\ pc'[p] = "write" => job[p].cmd = "apply"
        /\ pc'[p] = "restore" => job[p].cmd = "rollback"
        /\ disk' = disk \cup {[by |-> p, coll |-> c]}
        /\ UNCHANGED <<account, push, job, base, target>>
        /\ \A q \in Procs \ {p} : pc'[q] = pc[q]
    BY DEF WriteSnapshot, Goto, Finish, Local, TypeOK
  <1>2. StepOK(p)
    BY DEF StepInv
  <1>3. c \in Collections
    BY <1>1, <1>2 DEF StepOK
  <1>4. p \notin {s.by : s \in disk}
    BY <1>1, <1>2 DEF StepOK
  <1>5. \A w : Payload(p, w)' = Payload(p, w)
    BY <1>1 DEF Payload, Restored
  <1>6. Owed(p)' = Ahead(p)'
    BY <1>1, <1>2 DEF Owed, Ahead, StepOK, Sent, Writes
  <1>7. Licence'[p] \subseteq {c, d}
    <2>1. CASE pc'[p] = "write"
      <3>1. Owed(p)' = {"write", "restore"}
        BY <2>1, <1>6 DEF Ahead
      <3>2. Licence'[p] = {target[p], base[p]}
        BY <3>1, <2>1, <1>1, <1>5 DEF Licence, Payload, Restored
      <3>3. target[p] \in Collections
        BY <2>1, <1>1, <1>2 DEF StepOK, TypeOK
      <3> QED
        BY <3>2, <3>3, <2>1, <1>1 DEF Payload
    <2>2. CASE pc'[p] = "restore"
      <3>1. Owed(p)' = {"restore"}
        BY <2>2, <1>6 DEF Ahead
      <3>2. Licence'[p] = {job[p].want} /\ other = job[p].want
        BY <3>1, <2>2, <1>1, <1>5 DEF Licence, Payload, Restored
      <3>3. job[p].want \in Collections
        BY DEF TypeOK, Jobs
      <3> QED
        BY <3>2, <3>3
    <2>3. CASE pc'[p] = "done"
      <3>1. Owed(p)' = {}
        BY <2>3, <1>6 DEF Ahead
      <3> QED
        BY <3>1 DEF Licence
    <2> QED
      BY <2>1, <2>2, <2>3, <1>1
  <1>8. \A q \in Procs \ {p} : Licence'[q] = Licence[q]
    BY <1>1, SameLicence
  <1>9. Licence' = [Licence EXCEPT ![p] = Licence'[p]]
    BY <1>8 DEF Licence
  <1>10. /\ {s.coll : s \in disk'} = {s.coll : s \in disk} \cup {c}
         /\ {s.by : s \in disk'} = {s.by : s \in disk} \cup {p}
    <2> DEFINE new == [by |-> p, coll |-> c]
    <2>1. disk' = disk \cup {new} /\ new.by = p /\ new.coll = c
      BY <1>1
    <2> HIDE DEF new
    <2> QED
      BY <2>1
  <1>11. d \in Collections
    BY <1>3
  <1>12. Promise!Keep(p)
    BY <1>1, <1>3, <1>4, <1>7, <1>9, <1>10, <1>11 DEF Promise!Keep
  <1> QED
    BY <1>12 DEF Promise!Next

(* Sending does not change what is owed. *)
LEMMA RefineSend ==
    ASSUME TypeOK, StepInv, NEW p \in Procs, NEW w \in Writes, SendPush(p, w)
    PROVE  UNCHANGED Promise!vars
  <1>1. /\ pc[p] = w
        /\ pc'[p] = Awaiting(w)
        /\ push' = [push EXCEPT ![p][w] = "flying"]
        /\ UNCHANGED <<account, disk, job, base, target>>
        /\ \A q \in Procs \ {p} : pc'[q] = pc[q] /\ push'[q] = push[q]
    BY DEF SendPush, Goto, TypeOK
  <1>2. Owed(p)' = Owed(p)
    BY <1>1 DEF Owed, Ahead, Awaiting, Writes, TypeOK
  <1>3. \A v : Payload(p, v)' = Payload(p, v)
    BY <1>1 DEF Payload, Restored
  <1>4. \A q \in Procs : Licence'[q] = Licence[q]
    BY <1>1, <1>2, <1>3, SameLicence DEF Licence
  <1>5. Licence' = Licence
    BY <1>4 DEF Licence
  <1> QED
    BY <1>1, <1>5 DEF Promise!vars

(* A push that lands uses up one of the two licences. *)
LEMMA RefineDeliver ==
    ASSUME TypeOK, StepInv, WritesAreGuarded,
           NEW p \in Procs, NEW w \in Writes, Deliver(p, w)
    PROVE  Promise!Next
  <1> DEFINE c == Payload(p, w)
  <1>1. /\ push[p][w] = "flying"
        /\ push' = [push EXCEPT ![p][w] = "landed"]
        /\ account' \in {d \in Collections : Shape[d] = Shape[c]}
        /\ UNCHANGED <<disk, pc, job, base, target>>
        /\ \A q \in Procs \ {p} : pc'[q] = pc[q] /\ push'[q] = push[q]
    BY DEF Deliver, StoredAs, TypeOK
  <1>2. StepOK(p) /\ WriteIsGuarded(p)
    BY DEF StepInv, WritesAreGuarded
  <1>3. w \notin Ahead(p)
    BY <1>1, <1>2 DEF Ahead, StepOK, Sent, Writes
  <1>4. w \in Owed(p) /\ Owed(p)' = Owed(p) \ {w}
    BY <1>1, <1>3 DEF Owed, Ahead, Writes, TypeOK
  <1>5. \A v \in Owed(p) : Payload(p, v) = Payload(p, w) => v = w
    <2> SUFFICES ASSUME "write" \in Owed(p), "restore" \in Owed(p)
                 PROVE  Payload(p, "write") # Payload(p, "restore")
      BY <1>4 DEF Owed, Writes
    <2>1. pc[p] = "write" \/ Sent(p, "write")
      BY DEF Owed, Ahead, Sent
    <2>2. job[p].cmd = "apply" /\ target[p] # base[p]
      BY <2>1, <1>2 DEF StepOK, Armed, WriteIsGuarded, Wrote, Writes
    <2> QED
      BY <2>2 DEF Payload, Restored
  <1>6. \A v : Payload(p, v)' = Payload(p, v)
    BY <1>1 DEF Payload, Restored
  <1>7. c \in Licence[p] /\ Licence'[p] = Licence[p] \ {c}
    BY <1>4, <1>5, <1>6 DEF Licence
  <1>8. \A q \in Procs \ {p} : Licence'[q] = Licence[q]
    BY <1>1, SameLicence
  <1>9. Licence' = [Licence EXCEPT ![p] = Licence[p] \ {c}]
    BY <1>7, <1>8 DEF Licence
  <1>10. Promise!Write(p)
    BY <1>1, <1>7, <1>9 DEF Promise!Write
  <1> QED
    BY <1>10 DEF Promise!Next

LEMMA RefineForeign == ForeignWrite => Promise!Next
  <1> SUFFICES ASSUME ForeignWrite PROVE Promise!Others
    BY DEF Promise!Next
  <1>1. \A q \in Procs : Licence'[q] = Licence[q]
    BY SameLicence DEF ForeignWrite
  <1>2. Licence' = Licence
    BY <1>1 DEF Licence
  <1> QED
    BY <1>2 DEF ForeignWrite, Promise!Others

LEMMA RefineStutter == UNCHANGED vars => UNCHANGED Promise!vars
  BY DEF Promise!vars, Licence, Owed, Ahead, Payload, Restored

LEMMA RefineNext ==
    TypeOK /\ AccountInv /\ [Next]_vars => [Promise!Next]_(Promise!vars)
  <1> SUFFICES ASSUME TypeOK, StepInv, WritesAreGuarded, [Next]_vars
               PROVE  Promise!Next \/ UNCHANGED Promise!vars
    BY DEF AccountInv
  <1>1. ASSUME NEW p \in Procs, EndsUnsent(p) \/ EndsSent(p)
        PROVE  Promise!Next
    BY <1>1, EndsUnsentFacts, EndsSentFacts, RefineEnds
  <1>2. ASSUME NEW p \in Procs, Advances(p)
        PROVE  Promise!Next
    BY <1>2, RefineAdvances
  <1>3. ASSUME NEW p \in Procs, PullStep(p) \/ ConstructTarget(p)
        PROVE  UNCHANGED Promise!vars
    BY <1>3, RefineReading
  <1>4. ASSUME NEW p \in Procs, WriteSnapshot(p)
        PROVE  Promise!Next
    BY <1>4, RefineSnapshot
  <1>5. ASSUME NEW p \in Procs, NEW w \in Writes, SendPush(p, w)
        PROVE  UNCHANGED Promise!vars
    BY <1>5, RefineSend
  <1>6. ASSUME NEW p \in Procs, NEW w \in Writes, Deliver(p, w)
        PROVE  Promise!Next
    BY <1>6, RefineDeliver
  <1>7. ASSUME NEW p \in Procs, NEW w \in Writes, Lose(p, w)
        PROVE  Promise!Next
    BY <1>7, RefineLose
  <1> QED
    BY <1>1, <1>2, <1>3, <1>4, <1>5, <1>6, <1>7, NextCases, RefineForeign, RefineStutter

(* Every behaviour of the account commands is one of SnapshotFirst: a      *)
(* process writes only after keeping a snapshot, at most twice, and each   *)
(* of its two collections at most once.                                    *)
THEOREM KeepingThePromise == Spec => KeepsThePromise
  <1>1. Init => Promise!Init
    BY RefineInit
  <1>2. TypeOK /\ AccountInv /\ [Next]_vars => [Promise!Next]_(Promise!vars)
    BY RefineNext
  <1> QED
    BY <1>1, <1>2, AccountInvariance, PTL DEF Spec, KeepsThePromise, Promise!Spec
=============================================================================
