------------------------- MODULE PrivateFilesProofs -------------------------
(* Proofs about PrivateFiles, for any number of commands that aim at one   *)
(* path, and any number of saves by the user and of power losses.          *)
EXTENDS PrivateFiles, TLAPS

USE DEF vars

(* The temporary file of a command is there only while it is written, and  *)
(* it is synced when it replaces the path.                                 *)
TempOK(p) ==
    /\ pc[p] \in {"idle", "work", "create", "syncdir", "done", "refused", "failed"} =>
          temp[p] = "none"
    /\ pc[p] = "replace" => temp[p] = "synced"

(* Only a command that came past os.replace has its artifact at the path.  *)
AuthorOK(p) == p \in {file} \cup onDisk => pc[p] \in {"syncdir", "done", "killed"}

(* Before the user or a power loss interferes, either the path holds a     *)
(* file written by hand and every guard refuses, or there is none that a   *)
(* guard could have seen.                                                  *)
HandOK ==
    outside = 0 =>
        \/ /\ file = Manual /\ onDisk = {Manual}
           /\ \A p \in Procs : pc[p] \in {"idle", "refused"}
        \/ /\ Manual \notin {file} \cup onDisk
           /\ \A p \in Procs : seen[p] # Manual

IInv ==
    /\ TypeOK
    /\ NeverTorn
    /\ file \in onDisk
    /\ \A p \in Procs : TempOK(p) /\ AuthorOK(p)
    /\ HandOK

LEMMA InitIInv == Init => IInv
  <1> SUFFICES ASSUME Init PROVE IInv
    OBVIOUS
  <1>1. TypeOK
    BY DEF Init, TypeOK, Contents, Temps, Steps
  <1>2. NeverTorn /\ file \in onDisk
    BY ContentAssumption DEF Init, NeverTorn
  <1>3. \A p \in Procs : TempOK(p) /\ AuthorOK(p)
    BY ContentAssumption DEF Init, TempOK, AuthorOK
  <1>4. HandOK
    BY ContentAssumption DEF Init, HandOK
  <1> QED
    BY <1>1, <1>2, <1>3, <1>4 DEF IInv

(* The steps of a command that leave the path alone. *)
Prepares(p) ==
    \/ Guard(p) \/ GuardRefuses(p) \/ Work(p) \/ Create(p) \/ Fill(p) \/ Sync(p)
    \/ WriteFails(p) \/ SyncDirectoryFails(p) \/ Kill(p)

LEMMA NextCases ==
    ASSUME Next
    PROVE  \/ \E p \in Procs : Prepares(p) \/ Replace(p) \/ SyncDirectory(p)
           \/ Save \/ PowerLoss
  BY DEF Next, Step, Prepares

LEMMA PreparesFacts ==
    ASSUME TypeOK, NEW p \in Procs, Prepares(p)
    PROVE  /\ UNCHANGED <<file, onDisk, kind, outside>>
           /\ pc[p] \notin Stopped
           /\ \E step \in Steps : pc' = [pc EXCEPT ![p] = step]
           /\ \E state \in Temps : temp' = [temp EXCEPT ![p] = state]
           /\ \E found \in {seen[p], file} : seen' = [seen EXCEPT ![p] = found]
  <1> USE DEF Prepares, Guard, GuardRefuses, Work, Create, Fill, Sync, WriteFails,
              SyncDirectoryFails, Kill, Goto, Temp, TypeOK
  <1>1. UNCHANGED <<file, onDisk, kind, outside>> /\ pc[p] \notin Stopped
    BY DEF Stopped
  <1>2. \E step \in Steps : pc' = [pc EXCEPT ![p] = step]
    BY DEF Steps
  <1>3. \E state \in Temps : temp' = [temp EXCEPT ![p] = state]
    <2>1. \/ temp' = [temp EXCEPT ![p] = temp[p]]
          \/ \E state \in {"none", "open", "filled", "synced"} : temp' = [temp EXCEPT ![p] = state]
      OBVIOUS
    <2> QED
      BY <2>1 DEF Temps
  <1>4. \E found \in {seen[p], file} : seen' = [seen EXCEPT ![p] = found]
    OBVIOUS
  <1> QED
    BY <1>1, <1>2, <1>3, <1>4

LEMMA PreparesIInv ==
    ASSUME IInv, NEW p \in Procs, Prepares(p)
    PROVE  IInv'
  <1>1. TypeOK /\ NeverTorn /\ file \in onDisk /\ TempOK(p) /\ AuthorOK(p)
    BY DEF IInv
  <1>2. UNCHANGED <<file, onDisk, kind, outside>> /\ pc[p] \notin Stopped
    BY <1>1, PreparesFacts
  <1>3. PICK step \in Steps : pc' = [pc EXCEPT ![p] = step]
    BY <1>1, PreparesFacts
  <1>4. PICK state \in Temps : temp' = [temp EXCEPT ![p] = state]
    BY <1>1, PreparesFacts
  <1>5. PICK found \in {seen[p], file} : seen' = [seen EXCEPT ![p] = found]
    BY <1>1, PreparesFacts
  <1>6. TempOK(p)'
    BY <1>1 DEF TypeOK, TempOK, Prepares, Guard, GuardRefuses, Work, Create, Fill, Sync,
                WriteFails, SyncDirectoryFails, Kill, Goto, Temp, Stopped
  <1>7. AuthorOK(p)'
    BY <1>1, <1>2 DEF TypeOK, AuthorOK, Prepares, Guard, GuardRefuses, Work, Create, Fill,
                      Sync, WriteFails, SyncDirectoryFails, Kill, Goto, Temp
  <1>8. \A q \in Procs \ {p} : TempOK(q)' /\ AuthorOK(q)'
    BY <1>2, <1>3, <1>4 DEF IInv, TypeOK, TempOK, AuthorOK
  <1>9. TypeOK'
    <2>1. \A q \in Procs : pc'[q] \in {"done", "refused", "failed"} => temp'[q] = "none"
      BY <1>6, <1>8 DEF TempOK
    <2>2. seen' \in [Procs -> Contents]
      BY <1>1, <1>5 DEF TypeOK
    <2> QED
      BY <1>1, <1>2, <1>3, <1>4, <2>1, <2>2 DEF TypeOK
  <1>10. HandOK'
    <2>1. CASE file = Manual /\ onDisk = {Manual} /\ \A q \in Procs : pc[q] \in {"idle", "refused"}
      <3>1. pc'[p] \in {"idle", "refused"}
        BY <2>1, <1>1, ContentAssumption DEF TypeOK, Prepares, Guard, Replaceable, GuardRefuses,
           Work, Create, Fill, Sync, WriteFails, SyncDirectoryFails, Kill, Goto, Temp, Stopped
      <3> QED
        BY <2>1, <3>1, <1>1, <1>2, <1>3 DEF HandOK, TypeOK
    <2>2. CASE Manual \notin {file} \cup onDisk /\ \A q \in Procs : seen[q] # Manual
      BY <2>2, <1>1, <1>2, <1>5 DEF HandOK, TypeOK
    <2>3. CASE outside # 0
      BY <2>3, <1>2 DEF HandOK
    <2> QED
      BY <2>1, <2>2, <2>3 DEF IInv, HandOK
  <1> QED
    BY <1>1, <1>2, <1>6, <1>7, <1>8, <1>9, <1>10 DEF IInv, NeverTorn

(* os.replace puts a synced artifact in the path's place. *)
LEMMA ReplaceIInv ==
    ASSUME IInv, NEW p \in Procs, Replace(p)
    PROVE  IInv'
  <1> USE DEF Replace, Goto, Temp
  <1>1. TypeOK /\ NeverTorn /\ file \in onDisk /\ temp[p] = "synced" /\ pc[p] = "replace"
    BY DEF IInv, TempOK
  <1>2. p \notin {Absent, Manual, Torn}
    BY ContentAssumption
  <1>3. file' = p /\ onDisk' = onDisk \cup {p}
    BY <1>1
  <1>4. pc'[p] = "syncdir" /\ temp'[p] = "none"
    BY <1>1 DEF TypeOK
  <1>5. NeverTorn' /\ (file \in onDisk)'
    BY <1>1, <1>2, <1>3 DEF NeverTorn
  <1>6. \A q \in Procs : TempOK(q)' /\ AuthorOK(q)'
    BY <1>1, <1>3, <1>4 DEF IInv, TypeOK, TempOK, AuthorOK
  <1>7. TypeOK'
    BY <1>1, <1>3, <1>6 DEF TypeOK, TempOK, Contents, Temps, Steps
  <1>8. HandOK'
    BY <1>1, <1>2, <1>3 DEF IInv, HandOK
  <1> QED
    BY <1>5, <1>6, <1>7, <1>8 DEF IInv

LEMMA SyncDirectoryIInv ==
    ASSUME IInv, NEW p \in Procs, SyncDirectory(p)
    PROVE  IInv'
  <1> USE DEF SyncDirectory, Goto
  <1>1. TypeOK /\ NeverTorn /\ file \in onDisk /\ pc[p] = "syncdir" /\ temp[p] = "none"
    BY DEF IInv, TempOK
  <1>2. NeverTorn' /\ (file \in onDisk)'
    BY <1>1 DEF NeverTorn
  <1>3. \A q \in Procs : TempOK(q)' /\ AuthorOK(q)'
    BY <1>1 DEF IInv, TypeOK, TempOK, AuthorOK
  <1>4. TypeOK'
    BY <1>1, <1>3 DEF TypeOK, TempOK, Contents, Steps
  <1>5. HandOK'
    BY <1>1 DEF IInv, HandOK
  <1> QED
    BY <1>2, <1>3, <1>4, <1>5 DEF IInv

(* What the user and the machine do to the path. *)
LEMMA OutsideIInv ==
    ASSUME IInv, Save \/ PowerLoss
    PROVE  IInv'
  <1>1. TypeOK /\ NeverTorn /\ file \in onDisk
    BY DEF IInv
  <1>2. outside' = outside + 1 /\ outside' # 0 /\ UNCHANGED <<temp, kind, seen>>
    BY <1>1 DEF Save, PowerLoss, TypeOK
  <1>3. file' \in onDisk' /\ onDisk' \subseteq onDisk \cup {Manual}
    BY <1>1 DEF Save, PowerLoss
  <1>4. /\ pc' \in [Procs -> Steps]
        /\ \A q \in Procs : pc'[q] = pc[q] \/ pc'[q] = "killed"
    BY <1>1 DEF Save, PowerLoss, TypeOK, Steps
  <1>5. NeverTorn' /\ (file \in onDisk)'
    BY <1>1, <1>3, ContentAssumption DEF NeverTorn
  <1>6. \A q \in Procs : TempOK(q)' /\ AuthorOK(q)'
    <2> SUFFICES ASSUME NEW q \in Procs PROVE TempOK(q)' /\ AuthorOK(q)'
      OBVIOUS
    <2>1. q # Manual /\ TempOK(q) /\ AuthorOK(q)
      BY ContentAssumption DEF IInv
    <2>2. TempOK(q)'
      BY <1>2, <1>4, <2>1 DEF TempOK
    <2>3. AuthorOK(q)'
      BY <1>3, <1>4, <2>1 DEF AuthorOK
    <2> QED
      BY <2>2, <2>3
  <1>7. TypeOK'
    BY <1>1, <1>2, <1>3, <1>4, <1>6 DEF TypeOK, TempOK, Contents
  <1>8. HandOK'
    BY <1>2 DEF HandOK
  <1> QED
    BY <1>5, <1>6, <1>7, <1>8 DEF IInv

LEMMA PathInvariance == Spec => []IInv
  <1>1. ASSUME IInv, UNCHANGED vars PROVE IInv'
    BY <1>1 DEF IInv, TypeOK, NeverTorn, TempOK, AuthorOK, HandOK
  <1>2. IInv /\ [Next]_vars => IInv'
    BY <1>1, NextCases, PreparesIInv, ReplaceIInv, SyncDirectoryIInv, OutsideIInv
  <1> QED
    BY <1>2, InitIInv, PTL DEF Spec

-----------------------------------------------------------------------------
(* Every variable stays in its range, and no command that ended by itself  *)
(* leaves its temporary file.                                              *)
THEOREM PrivateTypeCorrect == Spec => []TypeOK
  <1>1. IInv => TypeOK
    BY DEF IInv
  <1> QED
    BY <1>1, PathInvariance, PTL

(* However many commands write to the path, wherever they are killed or    *)
(* the power fails, nobody ever finds half an artifact there.              *)
THEOREM WholeArtifacts == Spec => []NeverTorn
  <1>1. IInv => NeverTorn
    BY DEF IInv
  <1> QED
    BY <1>1, PathInvariance, PTL

(* A command that refused or failed left the path alone.                   *)
THEOREM NoTraceOfFailure == Spec => []FailureLeavesNoTrace
  <1>1. IInv => FailureLeavesNoTrace
    BY DEF IInv, AuthorOK, FailureLeavesNoTrace
  <1> QED
    BY <1>1, PathInvariance, PTL

(* A file written by hand that a guard has seen stays until the user or a  *)
(* power loss interferes.                                                  *)
THEOREM HandWrittenKept == Spec => []HandWrittenStays
  <1>1. IInv => HandWrittenStays
    BY DEF IInv, HandOK, HandWrittenStays
  <1> QED
    BY <1>1, PathInvariance, PTL
=============================================================================
