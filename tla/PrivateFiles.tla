---------------------------- MODULE PrivateFiles ----------------------------
(***************************************************************************)
(* The commands that write a private artifact to a path: the guard of the  *)
(* path (src/stremioctl/cli.py) when the command starts, its work, and at  *)
(* the end atomic_write_text (src/stremioctl/io.py).  Several commands may *)
(* aim at one path, the user may save a file of their own there, and the   *)
(* machine may lose power.                                                 *)
(*                                                                         *)
(* A file's content is Absent, Manual (written by hand), Torn, or the      *)
(* process whose artifact it is.                                           *)
(***************************************************************************)
EXTENDS Naturals

CONSTANTS Procs, Absent, Manual, Torn, MaxOutside

ASSUME ContentAssumption ==
    /\ {Absent, Manual, Torn} \cap Procs = {}
    /\ Absent # Manual /\ Torn \notin {Absent, Manual}
ASSUME MaxOutsideAssumption == MaxOutside \in Nat

VARIABLES
    file,     \* the content of the path
    onDisk,   \* what the path may hold after a loss of power
    temp,     \* temp[p]: the temporary file of p
    pc,       \* the step a process is about to take
    kind,     \* what a command writes: see Kinds
    seen,     \* history: what the guard of p found at the path
    outside   \* number of saves by the user and of power losses

vars == <<file, onDisk, temp, pc, kind, seen, outside>>

Contents == Procs \cup {Absent, Manual, Torn}

Temps == {"none", "open", "filled", "synced"}

(* redacted copies never replace a file, plans, profiles and pulled        *)
(* snapshots replace an artifact of their own kind, and apply's snapshots  *)
(* have no guard, only a path that nobody else uses.                       *)
Kinds == {"redacted", "artifact"}

Steps == {"idle", "work", "create", "fill", "sync", "replace", "syncdir",
          "done", "refused", "failed", "killed"}

Stopped == {"done", "refused", "failed", "killed"}

Init ==
    /\ file \in {Absent, Manual}
    /\ onDisk = {file}
    /\ temp = [p \in Procs |-> "none"]
    /\ pc = [p \in Procs |-> "idle"]
    /\ kind \in [Procs -> Kinds]
    /\ seen = [p \in Procs |-> Absent]
    /\ outside = 0

Goto(p, step) == pc' = [pc EXCEPT ![p] = step]

Temp(p, state) == temp' = [temp EXCEPT ![p] = state]

-----------------------------------------------------------------------------
(* What the guard lets a command overwrite.  A torn file does not parse. *)
Replaceable(p) ==
    file = Absent \/ (kind[p] = "artifact" /\ file \in Procs)

(* Mutant of Guard: an existing file is accepted as it is. *)
GuardAcceptsAny(p) ==
    /\ pc[p] = "idle"
    /\ seen' = [seen EXCEPT ![p] = file]
    /\ Goto(p, "work")
    /\ UNCHANGED <<file, onDisk, temp, kind, outside>>

Guard(p) ==
    /\ pc[p] = "idle"
    /\ Replaceable(p)
    /\ seen' = [seen EXCEPT ![p] = file]
    /\ Goto(p, "work")
    /\ UNCHANGED <<file, onDisk, temp, kind, outside>>

GuardRefuses(p) ==
    /\ pc[p] = "idle"
    /\ ~Replaceable(p)
    /\ seen' = [seen EXCEPT ![p] = file]
    /\ Goto(p, "refused")
    /\ UNCHANGED <<file, onDisk, temp, kind, outside>>

(* Secrets are read, the account is pulled, the document is built ...      *)
Work(p) ==
    /\ pc[p] = "work"
    /\ \E step \in {"create", "failed"} : Goto(p, step)
    /\ UNCHANGED <<file, onDisk, temp, kind, seen, outside>>

(* mkstemp in the directory of the path. *)
Create(p) ==
    /\ pc[p] = "create"
    /\ \/ Temp(p, "open") /\ Goto(p, "fill")
       \/ Goto(p, "failed") /\ UNCHANGED temp
    /\ UNCHANGED <<file, onDisk, kind, seen, outside>>

Fill(p) ==
    /\ pc[p] = "fill"
    /\ Temp(p, "filled")
    /\ Goto(p, "sync")
    /\ UNCHANGED <<file, onDisk, kind, seen, outside>>

(* Mutant of Sync: the temporary file is not fsynced. *)
SyncSkipped(p) ==
    /\ pc[p] = "sync"
    /\ Goto(p, "replace")
    /\ UNCHANGED <<file, onDisk, temp, kind, seen, outside>>

Sync(p) ==
    /\ pc[p] = "sync"
    /\ Temp(p, "synced")
    /\ Goto(p, "replace")
    /\ UNCHANGED <<file, onDisk, kind, seen, outside>>

(* Mutant of WriteFails: the temporary file stays. *)
WriteFailsUncleaned(p) ==
    /\ pc[p] \in {"fill", "sync", "replace"}
    /\ Goto(p, "failed")
    /\ UNCHANGED <<file, onDisk, temp, kind, seen, outside>>

(* Any error up to and in os.replace: the temporary file is removed. *)
WriteFails(p) ==
    /\ pc[p] \in {"fill", "sync", "replace"}
    /\ Temp(p, "none")
    /\ Goto(p, "failed")
    /\ UNCHANGED <<file, onDisk, kind, seen, outside>>

(* os.replace: what was not fsynced may be torn after a power loss. *)
Replace(p) ==
    /\ pc[p] = "replace"
    /\ file' = p
    /\ onDisk' = onDisk \cup IF temp[p] = "synced" THEN {p} ELSE {p, Torn}
    /\ Temp(p, "none")
    /\ Goto(p, "syncdir")
    /\ UNCHANGED <<kind, seen, outside>>

SyncDirectory(p) ==
    /\ pc[p] = "syncdir"
    /\ onDisk' = {file}
    /\ Goto(p, "done")
    /\ UNCHANGED <<file, temp, kind, seen, outside>>

(* Mutant of SyncDirectoryFails: the error is raised. *)
SyncDirectoryRaises(p) ==
    /\ pc[p] = "syncdir"
    /\ Goto(p, "failed")
    /\ UNCHANGED <<file, onDisk, temp, kind, seen, outside>>

(* _fsync_directory ignores any OSError. *)
SyncDirectoryFails(p) ==
    /\ pc[p] = "syncdir"
    /\ Goto(p, "done")
    /\ UNCHANGED <<file, onDisk, temp, kind, seen, outside>>

(* SIGKILL: no cleanup. *)
Kill(p) ==
    /\ pc[p] \notin Stopped \cup {"idle"}
    /\ Goto(p, "killed")
    /\ UNCHANGED <<file, onDisk, temp, kind, seen, outside>>

-----------------------------------------------------------------------------
(* The user writes a file of their own to the path. *)
Save ==
    /\ outside < MaxOutside
    /\ file' = Manual
    /\ onDisk' = onDisk \cup {Manual}
    /\ outside' = outside + 1
    /\ UNCHANGED <<temp, pc, kind, seen>>

PowerLoss ==
    /\ outside < MaxOutside
    /\ file' \in onDisk
    /\ onDisk' = {file'}
    /\ pc' = [p \in Procs |-> IF pc[p] \in Stopped \cup {"idle"} THEN pc[p] ELSE "killed"]
    /\ outside' = outside + 1
    /\ UNCHANGED <<temp, kind, seen>>

Step(p) ==
    \/ Guard(p) \/ GuardRefuses(p) \/ Work(p)
    \/ Create(p) \/ Fill(p) \/ Sync(p) \/ WriteFails(p)
    \/ Replace(p) \/ SyncDirectory(p) \/ SyncDirectoryFails(p)

Next ==
    \/ \E p \in Procs : Step(p) \/ Kill(p)
    \/ Save
    \/ PowerLoss

Spec == Init /\ [][Next]_vars

-----------------------------------------------------------------------------
(* Type invariant: among others, the temporary file of p is never left     *)
(* open by a p that ended by itself.                                       *)
TypeOK ==
    /\ file \in Contents
    /\ onDisk \subseteq Contents
    /\ temp \in [Procs -> Temps]
    /\ pc \in [Procs -> Steps]
    /\ kind \in [Procs -> Kinds]
    /\ seen \in [Procs -> Contents]
    /\ outside \in Nat
    /\ \A p \in Procs : pc[p] \in {"done", "refused", "failed"} => temp[p] = "none"

(* Nobody ever finds half an artifact: not a reader of the path, whoever   *)
(* else writes it, and not after a loss of power at any point of a write.  *)
NeverTorn == Torn \notin {file} \cup onDisk

(* A command that refused or failed left the path alone, for now and for   *)
(* after a loss of power.                                                  *)
FailureLeavesNoTrace ==
    \A p \in Procs : pc[p] \in {"refused", "failed"} => p \notin {file} \cup onDisk

(* A file written by hand that a guard has seen stays, whichever commands  *)
(* aim at its path and wherever they are: until the user or a power loss   *)
(* interferes, no guard lets anything past it.                             *)
HandWrittenStays ==
    outside = 0 /\ (\E p \in Procs : seen[p] = Manual) =>
        file = Manual /\ onDisk = {Manual}
=============================================================================
