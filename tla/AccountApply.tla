---------------------------- MODULE AccountApply ----------------------------
(***************************************************************************)
(* `stremioctl account apply` and `stremioctl account rollback` against    *)
(* the one account they edit (src/stremioctl/apply.py).                    *)
(*                                                                         *)
(* Every invocation of the command line is a process p of Procs: it runs   *)
(* one job to its exit code.  The account is a register on the API server  *)
(* that anybody signed in may overwrite (Stremio clients, another          *)
(* stremioctl), with no compare-and-set: addonCollectionSet replaces the   *)
(* whole collection.  A collection is a value with a shape (the ordered    *)
(* manifest ids and URLs `_structure` compares); two collections of one    *)
(* shape are equivalent to the server, which may store either for the      *)
(* other.  A collection's fingerprint is the collection itself (SHA-256 is *)
(* taken to be injective).                                                 *)
(*                                                                         *)
(* What construct_target computes is any collection here.                  *)
(***************************************************************************)
EXTENDS Naturals

CONSTANTS
    Procs,          \* invocations of the command line
    Collections,    \* values the account can hold
    Shapes,         \* what _structure returns
    Shape,          \* Shape[c]: the shape of collection c
    Unhashable,     \* collections canonical_json_bytes raises on
    NoCollection,   \* a collection variable that is not assigned yet
    Foreign,        \* author of the writes no modelled invocation made
    MaxForeign      \* bound on the writes of other clients

ASSUME ShapeAssumption == Shape \in [Collections -> Shapes]
ASSUME UnhashableAssumption == Unhashable \subseteq Collections
ASSUME NoCollectionAssumption == NoCollection \notin Collections
ASSUME ForeignAssumption == Foreign \notin Procs
ASSUME MaxForeignAssumption == MaxForeign \in Nat

VARIABLES
    account,    \* the collection the server holds
    disk,       \* snapshots persisted under $STREMIOCTL_DATA_DIR/snapshots
    push,       \* push[p][w]: where p's addonCollectionSet of kind w is
    pc,         \* pc[p]: the step p is about to take
    job,        \* job[p]: the command and the document it was given
    base,       \* base[p]: what p's first pull returned
    target,     \* target[p]: what construct_target built
    exit,       \* exit[p]: the exit code, by the name errors.py gives it
    rollback,   \* rollback[p]: ApplyOutcome.rollback
    original,   \* history: what the account held at the start
    author,     \* history: who wrote what the account holds
    late,       \* history: processes with a push that landed unawaited
    foreign     \* history: number of writes by other clients

commandVars == <<job, base, target>>
remoteVars == <<account, author, late, foreign>>
vars == <<account, disk, push, pc, job, base, target, exit, rollback,
          original, author, late, foreign>>

-----------------------------------------------------------------------------
(* The two kinds of write: the push of the plan's target, and the push of  *)
(* the snapshot that _rollback_to makes.                                   *)
Writes == {"write", "restore"}

PushStates == {"unsent", "flying", "landed", "lost"}

Steps == {"idle", "pull", "construct", "snapshot", "write", "writing", "verify",
          "restore", "restoring", "reverify", "done", "killed"}

Stopped == {"done", "killed"}

(* 0, 1 (uncaught), 2, 3, 4, 5 and 6, in that order after "none". *)
ExitCodes == {"none", "ok", "defect", "invalid", "network", "auth", "drift", "apply"}

RollbackStatuses == {"not_attempted", "succeeded", "failed", "unknown"}

(* A job is a command with the collection its document binds it to: the    *)
(* plan's baseCollectionFingerprint, or the snapshot's collection.  Both   *)
(* documents carry a fingerprint, so they never hold an unhashable one.    *)
Jobs == [cmd : {"apply", "rollback"}, want : Collections \ Unhashable]

Snapshots == [by : Procs, coll : Collections]

(* What p restores: the snapshot it took, or the one it was given. *)
Restored(p) == IF job[p].cmd = "apply" THEN base[p] ELSE job[p].want

Payload(p, w) == IF w = "write" THEN target[p] ELSE Restored(p)

(* What the exit code "ok" of p claims the account holds. *)
Goal(p) == IF job[p].cmd = "apply" THEN target[p] ELSE job[p].want

(* The server keeps the shape of what it is sent, not always the bytes. *)
StoredAs(c) == {d \in Collections : Shape[d] = Shape[c]}

Init ==
    /\ account \in Collections
    /\ disk = {}
    /\ push = [p \in Procs |-> [w \in Writes |-> "unsent"]]
    /\ pc = [p \in Procs |-> "idle"]
    /\ job \in [Procs -> Jobs]
    /\ base = [p \in Procs |-> NoCollection]
    /\ target = [p \in Procs |-> NoCollection]
    /\ exit = [p \in Procs |-> "none"]
    /\ rollback = [p \in Procs |-> "not_attempted"]
    /\ original = account
    /\ author = Foreign
    /\ late = {}
    /\ foreign = 0

-----------------------------------------------------------------------------
(* Control: go to a step, or end with an exit code. *)

Goto(p, step) ==
    /\ pc' = [pc EXCEPT ![p] = step]
    /\ UNCHANGED exit

Finish(p, code) ==
    /\ pc' = [pc EXCEPT ![p] = "done"]
    /\ exit' = [exit EXCEPT ![p] = code]

(* Local steps touch neither the account nor the pushes. *)
Local == UNCHANGED <<push, remoteVars, original>>

-----------------------------------------------------------------------------
(* Before the first pull. *)

(* The document, its hash and --confirm are accepted, the snapshots        *)
(* directory is private and an auth key was found.                         *)
Begin(p) ==
    /\ pc[p] = "idle"
    /\ Goto(p, "pull")
    /\ Local
    /\ UNCHANGED <<disk, commandVars, rollback>>

(* One of them was not: exit 2, or 4 for the auth key; or the document     *)
(* cannot be hashed.                                                       *)
Refuse(p) ==
    /\ pc[p] = "idle"
    /\ \E code \in {"defect", "invalid", "auth"} : Finish(p, code)
    /\ Local
    /\ UNCHANGED <<disk, commandVars, rollback>>

(* fetch_addon_collection fails: transport or shape (3), rejected key (4). *)
PullFails(p) ==
    /\ pc[p] = "pull"
    /\ \E code \in {"network", "auth"} : Finish(p, code)
    /\ Local
    /\ UNCHANGED <<disk, commandVars, rollback>>

(* The collection came back but cannot be fingerprinted: the exception is  *)
(* no StremioctlError, so only the boundary of the CLI catches it.         *)
PullUnhashable(p) ==
    /\ pc[p] = "pull"
    /\ account \in Unhashable
    /\ Finish(p, "defect")
    /\ Local
    /\ UNCHANGED <<disk, commandVars, rollback>>

Pulled(p) ==
    /\ pc[p] = "pull"
    /\ account \notin Unhashable
    /\ base' = [base EXCEPT ![p] = account]
    /\ Local
    /\ UNCHANGED <<disk, job, target, rollback>>

(* The drift guard of apply_plan. *)
Drifted(p) ==
    /\ job[p].cmd = "apply"
    /\ account # job[p].want
    /\ Pulled(p)
    /\ Finish(p, "drift")

(* No drift and a plan with no operations. *)
AlreadyConverged(p) ==
    /\ job[p].cmd = "apply"
    /\ account = job[p].want
    /\ Pulled(p)
    /\ Finish(p, "ok")

PullForApply(p) ==
    /\ job[p].cmd = "apply"
    /\ account = job[p].want
    /\ Pulled(p)
    /\ Goto(p, "construct")

(* rollback_snapshot has no drift guard. *)
PullForRollback(p) ==
    /\ job[p].cmd = "rollback"
    /\ Pulled(p)
    /\ Goto(p, "snapshot")

-----------------------------------------------------------------------------
(* From the pull to the push. *)

(* construct_target raises: an operation it refuses or a reference it      *)
(* cannot resolve (2), the manifest check of a new endpoint (3 or 5); or   *)
(* what it built cannot be hashed.                                         *)
ConstructFails(p) ==
    /\ pc[p] = "construct"
    /\ \E code \in {"defect", "invalid", "network", "drift"} : Finish(p, code)
    /\ Local
    /\ UNCHANGED <<disk, commandVars, rollback>>

ConstructTarget(p) ==
    /\ pc[p] = "construct"
    /\ \E t \in Collections \ Unhashable :
          /\ target' = [target EXCEPT ![p] = t]
          /\ IF t = base[p] THEN Finish(p, "ok") ELSE Goto(p, "snapshot")
    /\ Local
    /\ UNCHANGED <<disk, job, base, rollback>>

(* Mutant of SnapshotFails: the snapshot is kept on a best-effort basis. *)
SnapshotIsOptional(p) ==
    /\ pc[p] = "snapshot"
    /\ Goto(p, IF job[p].cmd = "apply" THEN "write" ELSE "restore")
    /\ Local
    /\ UNCHANGED <<disk, commandVars, rollback>>

(* _write_snapshot: the directory is unsafe (2), the write failed (6), or  *)
(* lastModified, which no fingerprint covers, cannot be encoded.           *)
SnapshotFails(p) ==
    /\ pc[p] = "snapshot"
    /\ \E code \in {"defect", "invalid", "apply"} : Finish(p, code)
    /\ Local
    /\ UNCHANGED <<disk, commandVars, rollback>>

(* Mutant of WriteSnapshot: names without a random suffix. *)
SnapshotReplacesAnother(p) ==
    /\ pc[p] = "snapshot"
    /\ disk' = {[by |-> p, coll |-> base[p]]}
    /\ \/ /\ job[p].cmd = "apply"
          /\ Goto(p, "write")
       \/ /\ job[p].cmd = "rollback"
          /\ IF base[p] = job[p].want THEN Finish(p, "ok") ELSE Goto(p, "restore")
    /\ Local
    /\ UNCHANGED <<commandVars, rollback>>

(* The random suffix of its name keeps a snapshot from replacing another.  *)
(* A rollback whose snapshot the account already matches stops here.       *)
WriteSnapshot(p) ==
    /\ pc[p] = "snapshot"
    /\ disk' = disk \cup {[by |-> p, coll |-> base[p]]}
    /\ \/ /\ job[p].cmd = "apply"
          /\ Goto(p, "write")
       \/ /\ job[p].cmd = "rollback"
          /\ IF base[p] = job[p].want THEN Finish(p, "ok") ELSE Goto(p, "restore")
    /\ Local
    /\ UNCHANGED <<commandVars, rollback>>

-----------------------------------------------------------------------------
(* A push: the client sends it and waits, the server stores it or not, and *)
(* the client stops waiting for an answer, for an error or for a timeout.  *)

Awaiting(w) == IF w = "write" THEN "writing" ELSE "restoring"

SendPush(p, w) ==
    /\ pc[p] = w
    /\ push' = [push EXCEPT ![p][w] = "flying"]
    /\ Goto(p, Awaiting(w))
    /\ UNCHANGED <<disk, commandVars, rollback, remoteVars, original>>

(* Also after the client gave up, and after it is gone. *)
Deliver(p, w) ==
    /\ push[p][w] = "flying"
    /\ push' = [push EXCEPT ![p][w] = "landed"]
    /\ account' \in StoredAs(Payload(p, w))
    /\ author' = p
    /\ late' = IF pc[p] = Awaiting(w) THEN late ELSE late \cup {p}
    /\ UNCHANGED <<disk, pc, commandVars, exit, rollback, original, foreign>>

(* Lost on the way, or refused by the server. *)
Lose(p, w) ==
    /\ push[p][w] = "flying"
    /\ push' = [push EXCEPT ![p][w] = "lost"]
    /\ UNCHANGED <<disk, pc, commandVars, exit, rollback, remoteVars, original>>

(* Mutant of WriteReturns: a request without a timeout. *)
WriteAcknowledged(p) ==
    /\ pc[p] = "writing"
    /\ push[p]["write"] = "landed"
    /\ Goto(p, "verify")
    /\ Local
    /\ UNCHANGED <<disk, commandVars, rollback>>

(* apply_plan keeps the error of its push only for the report: with or     *)
(* without one, it pulls to see what the account holds.                    *)
WriteReturns(p) ==
    /\ pc[p] = "writing"
    /\ Goto(p, "verify")
    /\ Local
    /\ UNCHANGED <<disk, commandVars, rollback>>

RestoreAcknowledged(p) ==
    /\ pc[p] = "restoring"
    /\ push[p]["restore"] = "landed"
    /\ Goto(p, "reverify")
    /\ Local
    /\ UNCHANGED <<disk, commandVars, rollback>>

(* Mutant of RestoreErrs: the restore is tried again. *)
RestoreRetried(p) ==
    /\ pc[p] = "restoring"
    /\ push[p]["restore"] = "lost"
    /\ Goto(p, "restore")
    /\ Local
    /\ UNCHANGED <<disk, commandVars, rollback>>

(* _rollback_to: an error of the push is final, no pull follows it. *)
RestoreErrs(p) ==
    /\ pc[p] = "restoring"
    /\ rollback' = [rollback EXCEPT ![p] = "failed"]
    /\ Finish(p, "apply")
    /\ Local
    /\ UNCHANGED <<disk, commandVars>>

-----------------------------------------------------------------------------
(* The verification pull of apply_plan. *)

SameShape(c, d) == Shape[c] = Shape[d]

(* Mutant of VerifyTarget: a target of the same structure is accepted. *)
VerifyEquivalent(p) ==
    /\ pc[p] = "verify"
    /\ account \notin Unhashable
    /\ SameShape(account, target[p])
    /\ Finish(p, "ok")
    /\ Local
    /\ UNCHANGED <<disk, commandVars, rollback>>

VerifyTarget(p) ==
    /\ pc[p] = "verify"
    /\ account \notin Unhashable
    /\ account = target[p]
    /\ Finish(p, "ok")
    /\ Local
    /\ UNCHANGED <<disk, commandVars, rollback>>

(* "the write did not take effect": no rollback. *)
VerifyUnchanged(p) ==
    /\ pc[p] = "verify"
    /\ account \notin Unhashable
    /\ account # target[p]
    /\ SameShape(account, base[p])
    /\ Finish(p, "apply")
    /\ Local
    /\ UNCHANGED <<disk, commandVars, rollback>>

VerifyMismatch(p) ==
    /\ pc[p] = "verify"
    /\ account \notin Unhashable
    /\ account # target[p]
    /\ ~SameShape(account, base[p])
    /\ Goto(p, "restore")
    /\ Local
    /\ UNCHANGED <<disk, commandVars, rollback>>

(* Mutant of VerifyPullFails: the error of the pull is raised. *)
VerifyPullRaises(p) ==
    /\ pc[p] = "verify"
    /\ Finish(p, "network")
    /\ Local
    /\ UNCHANGED <<disk, commandVars, rollback>>

(* The remote state is unknown: roll back. *)
VerifyPullFails(p) ==
    /\ pc[p] = "verify"
    /\ Goto(p, "restore")
    /\ Local
    /\ UNCHANGED <<disk, commandVars, rollback>>

(* Either verification pull raises what no except clause names. *)
VerifyUnhashable(p) ==
    /\ pc[p] \in {"verify", "reverify"}
    /\ account \in Unhashable
    /\ Finish(p, "defect")
    /\ Local
    /\ UNCHANGED <<disk, commandVars, rollback>>

(* Mutant of Reverified: a rollback that succeeded is a success. *)
ReverifiedOk(p, status) ==
    /\ pc[p] = "reverify"
    /\ rollback' = [rollback EXCEPT ![p] = status]
    /\ Finish(p, IF status = "succeeded" THEN "ok" ELSE "apply")
    /\ Local
    /\ UNCHANGED <<disk, commandVars>>

(* The verification pull of _rollback_to: an apply that rolled back exits  *)
(* 6 whatever it finds, a rollback exits 0 if the snapshot is back.        *)
Reverified(p, status) ==
    /\ pc[p] = "reverify"
    /\ rollback' = [rollback EXCEPT ![p] = status]
    /\ Finish(p, IF job[p].cmd = "rollback" /\ status = "succeeded"
                 THEN "ok" ELSE "apply")
    /\ Local
    /\ UNCHANGED <<disk, commandVars>>

ReverifyRestored(p) ==
    /\ account \notin Unhashable
    /\ account = Restored(p)
    /\ Reverified(p, "succeeded")

ReverifyMismatch(p) ==
    /\ account \notin Unhashable
    /\ account # Restored(p)
    /\ Reverified(p, "failed")

(* Mutant of ReverifyPullFails: no status for an unverified restore. *)
ReverifyPullRaises(p) == Reverified(p, "none")

ReverifyPullFails(p) == Reverified(p, "unknown")

-----------------------------------------------------------------------------
(* The world around the invocations. *)

(* The process is killed (Ctrl-C, power): nothing of it runs any more. *)
Kill(p) ==
    /\ pc[p] \notin Stopped \cup {"idle"}
    /\ Goto(p, "killed")
    /\ Local
    /\ UNCHANGED <<disk, commandVars, rollback>>

(* Another client of the account replaces the collection. *)
ForeignWrite ==
    /\ foreign < MaxForeign
    /\ account' \in Collections \ {account}
    /\ author' = Foreign
    /\ foreign' = foreign + 1
    /\ UNCHANGED <<disk, push, pc, commandVars, exit, rollback, original, late>>

(* The steps of the program itself, in the order of the code. *)
ReadSide(p) ==
    \/ Begin(p) \/ Refuse(p)
    \/ PullFails(p) \/ PullUnhashable(p)
    \/ Drifted(p) \/ AlreadyConverged(p) \/ PullForApply(p) \/ PullForRollback(p)
    \/ ConstructFails(p) \/ ConstructTarget(p)
    \/ SnapshotFails(p) \/ WriteSnapshot(p)

WriteSide(p) ==
    \/ \E w \in Writes : SendPush(p, w)
    \/ WriteReturns(p) \/ RestoreAcknowledged(p) \/ RestoreErrs(p)
    \/ VerifyTarget(p) \/ VerifyUnchanged(p) \/ VerifyMismatch(p)
    \/ VerifyPullFails(p) \/ VerifyUnhashable(p)
    \/ ReverifyRestored(p) \/ ReverifyMismatch(p) \/ ReverifyPullFails(p)

Network(p) == \E w \in Writes : Deliver(p, w) \/ Lose(p, w)

Next ==
    \/ \E p \in Procs : ReadSide(p) \/ WriteSide(p) \/ Network(p) \/ Kill(p)
    \/ ForeignWrite

Spec == Init /\ [][Next]_vars

(* Every call of the program returns, and the server or the network        *)
(* disposes of each request sent.  httpx.Timeout bounds the wait for the   *)
(* next bytes, not a whole call: of the API server, and of the endpoint of *)
(* a promotion while the target is constructed, it is assumed that they do *)
(* not go on sending for ever what decodes to nothing (Probe!HoldsBack).   *)
Fairness ==
    /\ \A p \in Procs : WF_vars(pc[p] # "idle" /\ (ReadSide(p) \/ WriteSide(p)))
    /\ \A p \in Procs : WF_vars(Network(p))

FairSpec == Spec /\ Fairness

-----------------------------------------------------------------------------
(* Type invariant. *)
TypeOK ==
    /\ account \in Collections
    /\ disk \subseteq Snapshots
    /\ push \in [Procs -> [Writes -> PushStates]]
    /\ pc \in [Procs -> Steps]
    /\ job \in [Procs -> Jobs]
    /\ base \in [Procs -> Collections \cup {NoCollection}]
    /\ target \in [Procs -> Collections \cup {NoCollection}]
    /\ exit \in [Procs -> ExitCodes]
    /\ rollback \in [Procs -> RollbackStatuses]
    /\ original \in Collections
    /\ author \in Procs \cup {Foreign}
    /\ late \subseteq Procs
    /\ foreign \in Nat

(* Whether p ever issued the push w. *)
Sent(p, w) == push[p][w] # "unsent"

Wrote(p) == \E w \in Writes : Sent(p, w)

OnDisk(c) == \E s \in disk : s.coll = c

(* "Every write is preceded by a successfully persisted snapshot": a push  *)
(* of p implies p's own snapshot of what it pulled is on disk, and an      *)
(* apply only pushes over a pull that equals the base of its plan.         *)
WriteIsGuarded(p) ==
    Wrote(p) =>
        /\ [by |-> p, coll |-> base[p]] \in disk
        /\ job[p].cmd = "apply" => base[p] = job[p].want
        /\ Sent(p, "write") => job[p].cmd = "apply" /\ target[p] # base[p]

(* No write of any invocation escapes the snapshot and the drift guard. *)
WritesAreGuarded == \A p \in Procs : WriteIsGuarded(p)

(* What the user had can be restored: while no other client writes, the    *)
(* original collection is in the account or in a snapshot, whatever        *)
(* invocations interleave, die, or have their pushes delayed or lost.      *)
OriginalRecoverable ==
    foreign = 0 => account = original \/ OnDisk(original)

(* Exit codes 2 to 5 are for runs that sent nothing, and the rollback      *)
(* status of a run tells whether it sent its restore: "every failure is    *)
(* reported with an explicit rollback status, never a concealed result".   *)
OutcomeAccounts(p) ==
    /\ exit[p] \in {"invalid", "network", "auth", "drift"} => ~Wrote(p)
    /\ exit[p] \in {"ok", "apply"} =>
          (rollback[p] # "not_attempted" <=> Sent(p, "restore"))

(* No invocation conceals a write behind its exit code or its status. *)
OutcomeAccountsForWrites == \A p \in Procs : OutcomeAccounts(p)

(* A report stays true until somebody else writes, provided no push of the *)
(* run lands after the run stopped waiting for it: "ok" after a write      *)
(* means the account holds the goal, "succeeded" that it holds what was    *)
(* restored, and "did not take effect" that it has the shape of the base.  *)
ReportHolds(p) ==
    pc[p] = "done" /\ author = p /\ p \notin late =>
        /\ exit[p] = "ok" => account = Goal(p)
        /\ rollback[p] = "succeeded" => account = Restored(p)
        /\ exit[p] = "apply" /\ rollback[p] = "not_attempted"
             => SameShape(account, base[p])

(* Every report without a late push behind it stays true. *)
ReportsHold == \A p \in Procs : ReportHolds(p)

(* Exactly one push and at most one restore: a run that sends a collection *)
(* has not sent it before, whatever became of it.                          *)
PushedOnce ==
    [][\A p \in Procs, w \in Writes :
          pc[p] = w /\ pc'[p] = Awaiting(w) => ~Sent(p, w)]_vars

(* Every invocation ends: no error, no late answer and no silence of the   *)
(* server keeps it waiting for ever (see Fairness for what it may not do). *)
EveryRunEnds ==
    \A p \in Procs : pc[p] # "idle" ~> pc[p] \in Stopped

-----------------------------------------------------------------------------
(* What each step of a run relies on: where its two pushes are, that a run *)
(* past its snapshot is armed with it, and that only finished runs have an *)
(* exit code or a rollback status.                                         *)
Armed(p) ==
    /\ [by |-> p, coll |-> base[p]] \in disk
    /\ job[p].cmd = "apply" => base[p] = job[p].want /\ target[p] # base[p]

StepOK(p) ==
    /\ pc[p] \in {"idle", "pull", "construct", "snapshot", "write"}
          => ~Sent(p, "write")
    /\ pc[p] \in {"idle", "pull", "construct", "snapshot", "write",
                  "writing", "verify", "restore"} => ~Sent(p, "restore")
    /\ pc[p] \in {"idle", "pull", "construct", "snapshot"}
          => \A s \in disk : s.by # p
    /\ pc[p] \in {"restoring", "reverify"} => Sent(p, "restore")
    /\ pc[p] \in {"construct", "write", "writing", "verify"} => job[p].cmd = "apply"
    /\ pc[p] = "construct" => base[p] = job[p].want
    /\ pc[p] = "snapshot" =>
          /\ base[p] \in Collections
          /\ job[p].cmd = "apply" =>
                base[p] = job[p].want /\ target[p] \in Collections \ {base[p]}
    /\ pc[p] \in {"write", "writing", "verify", "restore", "restoring", "reverify"}
          => Armed(p)
    /\ pc[p] # "done" => exit[p] = "none" /\ rollback[p] = "not_attempted"
    /\ author = p => \E w \in Writes : push[p][w] = "landed"

StepInv == \A p \in Procs : StepOK(p)

(* While nobody else writes, whatever a run pulled is the original, or the *)
(* original had been written to disk before.                               *)
BaseInv ==
    foreign = 0 =>
        \A p \in Procs : base[p] # NoCollection =>
            base[p] = original \/ OnDisk(original)

(* The inductive invariant of the account commands. *)
AccountInv ==
    /\ StepInv
    /\ WritesAreGuarded
    /\ BaseInv
    /\ OriginalRecoverable
    /\ OutcomeAccountsForWrites
    /\ ReportsHold
=============================================================================
