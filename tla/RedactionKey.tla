---------------------------- MODULE RedactionKey ----------------------------
(***************************************************************************)
(* load_or_create_redaction_key (src/stremioctl/privacy.py) run by several *)
(* invocations at once, on a machine that may lose power.                  *)
(*                                                                         *)
(* The key of process p is what p drew at random, so it is named p.  The   *)
(* file is created empty and written in a second step, in place and never  *)
(* fsynced: what was written may be gone after a power loss.  The checks   *)
(* of owner, mode and kind of an existing file pass.                       *)
(***************************************************************************)
EXTENDS Naturals

CONSTANTS Procs, Absent, NoKey, MaxLosses

ASSUME ProcsAssumption == NoKey \notin Procs /\ Absent \notin [by : Procs, whole : BOOLEAN]
ASSUME MaxLossesAssumption == MaxLosses \in Nat

VARIABLES
    file,     \* the key file: who created it and whether its key is written
    pc,       \* the step a process is about to take
    key,      \* the key load_or_create_redaction_key returned
    losses    \* how often the file was deleted or damaged from outside

vars == <<file, pc, key, losses>>

Files == [by : Procs, whole : BOOLEAN] \cup {Absent}

Steps == {"idle", "check", "read", "create", "write", "done", "refused", "killed"}

Stopped == {"done", "refused", "killed"}

Init ==
    /\ file = Absent
    /\ pc = [p \in Procs |-> "idle"]
    /\ key = [p \in Procs |-> NoKey]
    /\ losses = 0

Goto(p, step) == pc' = [pc EXCEPT ![p] = step]

Start(p) ==
    /\ pc[p] = "idle"
    /\ Goto(p, "check")
    /\ UNCHANGED <<file, key, losses>>

(* path.exists() *)
Check(p) ==
    /\ pc[p] = "check"
    /\ Goto(p, IF file = Absent THEN "create" ELSE "read")
    /\ UNCHANGED <<file, key, losses>>

(* Mutant of ReadKey: the length of what was read is not checked. *)
ReadUnchecked(p) ==
    /\ pc[p] = "read"
    /\ file # Absent
    /\ key' = [key EXCEPT ![p] = IF file.whole THEN file.by ELSE ""]
    /\ Goto(p, "done")
    /\ UNCHANGED <<file, losses>>

ReadKey(p) ==
    /\ pc[p] = "read"
    /\ file # Absent
    /\ file.whole
    /\ key' = [key EXCEPT ![p] = file.by]
    /\ Goto(p, "done")
    /\ UNCHANGED <<file, losses>>

(* The file is gone since it was checked, or it does not hold 32 bytes. *)
ReadFails(p) ==
    /\ pc[p] = "read"
    /\ file # Absent => ~file.whole
    /\ Goto(p, "refused")
    /\ UNCHANGED <<file, key, losses>>

(* Mutant of CreateExclusive: O_TRUNC instead of O_EXCL. *)
CreateOrTruncate(p) ==
    /\ pc[p] = "create"
    /\ file' = [by |-> p, whole |-> FALSE]
    /\ Goto(p, "write")
    /\ UNCHANGED <<key, losses>>

(* O_CREAT | O_EXCL. *)
CreateExclusive(p) ==
    /\ pc[p] = "create"
    /\ file = Absent
    /\ file' = [by |-> p, whole |-> FALSE]
    /\ Goto(p, "write")
    /\ UNCHANGED <<key, losses>>

(* FileExistsError: start again. *)
CreateLost(p) ==
    /\ pc[p] = "create"
    /\ file # Absent
    /\ Goto(p, "check")
    /\ UNCHANGED <<file, key, losses>>

(* The write goes to the file p created, which may be gone by now. It is   *)
(* whole: the code does not look at the count that os.write returns, and   *)
(* 32 bytes to a regular file are written at once or not at all.           *)
WriteKey(p) ==
    /\ pc[p] = "write"
    /\ file' = IF file # Absent /\ file.by = p THEN [file EXCEPT !.whole = TRUE] ELSE file
    /\ key' = [key EXCEPT ![p] = p]
    /\ Goto(p, "done")
    /\ UNCHANGED losses

(* OSError, for a full disk say: the empty file stays. *)
WriteFails(p) ==
    /\ pc[p] = "write"
    /\ Goto(p, "refused")
    /\ UNCHANGED <<file, key, losses>>

Kill(p) ==
    /\ pc[p] \notin Stopped \cup {"idle"}
    /\ Goto(p, "killed")
    /\ UNCHANGED <<file, key, losses>>

(* The user removes the key file. *)
Delete ==
    /\ losses < MaxLosses
    /\ file # Absent
    /\ file' = Absent
    /\ losses' = losses + 1
    /\ UNCHANGED <<pc, key>>

(* The bytes of the file, or its name, never reached the disk. *)
PowerLoss ==
    /\ losses < MaxLosses
    /\ file # Absent
    /\ file' \in {Absent, [file EXCEPT !.whole = FALSE], file}
    /\ pc' = [p \in Procs |-> IF pc[p] \in Stopped \cup {"idle"} THEN pc[p] ELSE "killed"]
    /\ losses' = losses + 1
    /\ UNCHANGED key

Step(p) ==
    \/ Start(p) \/ Check(p) \/ ReadKey(p) \/ ReadFails(p)
    \/ CreateExclusive(p) \/ CreateLost(p) \/ WriteKey(p) \/ WriteFails(p)

Next ==
    \/ \E p \in Procs : Step(p) \/ Kill(p)
    \/ Delete
    \/ PowerLoss

Spec == Init /\ [][Next]_vars

-----------------------------------------------------------------------------
(* Type invariant: among others, a key is 32 bytes somebody drew. *)
TypeOK ==
    /\ file \in Files
    /\ pc \in [Procs -> Steps]
    /\ key \in [Procs -> Procs \cup {NoKey}]
    /\ losses \in Nat

(* As long as the file is left alone, every invocation that has a key has  *)
(* the key that is on disk: fingerprints made by one are understood by the *)
(* others, whatever the order of their first uses and their deaths.        *)
KeysAgree ==
    losses = 0 =>
        \A p \in Procs : key[p] # NoKey => file = [by |-> key[p], whole |-> TRUE]

(* What makes KeysAgree inductive: whoever is about to write owns the file *)
(* it created, which nobody else has completed; and the owner of an empty  *)
(* file is the only one that can.                                          *)
OwnerInv ==
    losses = 0 =>
        \A p \in Procs :
            /\ pc[p] = "write" => file = [by |-> p, whole |-> FALSE]
            /\ key[p] # NoKey <=> pc[p] = "done"

KeyInv == KeysAgree /\ OwnerInv
=============================================================================
