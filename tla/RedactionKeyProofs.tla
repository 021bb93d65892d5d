------------------------- MODULE RedactionKeyProofs -------------------------
(***************************************************************************)
(* What holds of RedactionKey for every set of invocations: TypeOK and     *)
(* KeysAgree, the latter by the inductive invariant KeyInv.                *)
(***************************************************************************)
EXTENDS RedactionKey, TLAPS

(* A key file, written or not, is never mistaken for none. *)
LEMMA FileExists == \A r \in Procs, b \in BOOLEAN : [by |-> r, whole |-> b] # Absent
<1> SUFFICES ASSUME NEW r \in Procs, NEW b \in BOOLEAN PROVE [by |-> r, whole |-> b] # Absent
  OBVIOUS
<1>1. [by |-> r, whole |-> b] \in [by : Procs, whole : BOOLEAN]
  OBVIOUS
<1> QED
  BY <1>1, ProcsAssumption

(* Every step keeps the types. *)
LEMMA TypeStep == ASSUME TypeOK, [Next]_vars PROVE TypeOK'
<1>1. CASE UNCHANGED vars
  BY <1>1 DEF TypeOK, vars
<1>2. ASSUME NEW p \in Procs, Step(p) \/ Kill(p) PROVE TypeOK'
  <2>1. CASE Start(p) \/ Check(p) \/ CreateLost(p) \/ ReadFails(p) \/ WriteFails(p) \/ Kill(p)
    BY <2>1 DEF TypeOK, Steps, Goto, Start, Check, CreateLost, ReadFails, WriteFails, Kill
  <2>2. CASE ReadKey(p)
    <3>1. file.by \in Procs
      BY <2>2 DEF TypeOK, Files, ReadKey
    <3> QED
      BY <2>2, <3>1 DEF TypeOK, Steps, Goto, ReadKey
  <2>3. CASE CreateExclusive(p)
    <3>1. file' \in Files
      BY <2>3 DEF CreateExclusive, Files
    <3> QED
      BY <2>3, <3>1 DEF TypeOK, Steps, Goto, CreateExclusive
  <2>4. CASE WriteKey(p)
    <3>1. file' \in Files
      BY <2>4 DEF TypeOK, Files, WriteKey
    <3> QED
      BY <2>4, <3>1 DEF TypeOK, Steps, Goto, WriteKey
  <2> QED
    BY <1>2, <2>1, <2>2, <2>3, <2>4 DEF Step
<1>3. CASE Delete
  BY <1>3 DEF TypeOK, Files, Delete
<1>4. CASE PowerLoss
  <2>1. file' \in Files
    BY <1>4 DEF TypeOK, Files, PowerLoss
  <2>2. pc' \in [Procs -> Steps]
    BY <1>4 DEF TypeOK, Steps, PowerLoss
  <2> QED
    BY <1>4, <2>1, <2>2 DEF TypeOK, PowerLoss
<1> QED
  BY <1>1, <1>2, <1>3, <1>4 DEF Next

(* Every step keeps the ownership of the file, and with it the agreement.  *)
LEMMA KeyStep == ASSUME TypeOK, KeyInv, [Next]_vars PROVE KeyInv'
<1> SUFFICES ASSUME losses' = 0, NEW q \in Procs
             PROVE  /\ key'[q] # NoKey => file' = [by |-> key'[q], whole |-> TRUE]
                    /\ pc'[q] = "write" => file' = [by |-> q, whole |-> FALSE]
                    /\ key'[q] # NoKey <=> pc'[q] = "done"
  BY DEF KeyInv, KeysAgree, OwnerInv
<1>1. CASE UNCHANGED vars
  BY <1>1 DEF KeyInv, KeysAgree, OwnerInv, vars
<1>2. ASSUME NEW p \in Procs, Step(p) \/ Kill(p)
      PROVE  /\ key'[q] # NoKey => file' = [by |-> key'[q], whole |-> TRUE]
             /\ pc'[q] = "write" => file' = [by |-> q, whole |-> FALSE]
             /\ key'[q] # NoKey <=> pc'[q] = "done"
  <2>0. /\ losses = 0
        /\ \A r \in Procs :
              /\ key[r] # NoKey => file = [by |-> key[r], whole |-> TRUE]
              /\ pc[r] = "write" => file = [by |-> r, whole |-> FALSE]
              /\ key[r] # NoKey <=> pc[r] = "done"
        /\ pc \in [Procs -> Steps] /\ key \in [Procs -> Procs \cup {NoKey}]
        /\ file \in Files
    BY <1>2 DEF KeyInv, KeysAgree, OwnerInv, TypeOK, Step, Start, Check, ReadKey,
                ReadFails, CreateExclusive, CreateLost, WriteKey, WriteFails, Kill
  <2>1. CASE Start(p) \/ Check(p) \/ CreateLost(p) \/ ReadFails(p) \/ WriteFails(p) \/ Kill(p)
    BY <2>0, <2>1 DEF Start, Check, CreateLost, ReadFails, WriteFails, Kill, Goto, Stopped
  <2>2. CASE ReadKey(p)
    <3>1. file = [by |-> file.by, whole |-> TRUE] /\ file.by \in Procs
      BY <2>0, <2>2 DEF ReadKey, Files
    <3>2. \A r \in Procs : pc[r] # "write"
      <4> SUFFICES ASSUME NEW r \in Procs, pc[r] = "write" PROVE FALSE
        OBVIOUS
      <4>1. file.whole = FALSE
        BY <2>0
      <4> QED
        BY <4>1, <2>2 DEF ReadKey
    <3> QED
      BY <2>0, <2>2, <3>1, <3>2, ProcsAssumption DEF ReadKey, Goto
  <2>3. CASE CreateExclusive(p)
    <3>1. \A r \in Procs : key[r] = NoKey /\ pc[r] # "write"
      <4> SUFFICES ASSUME NEW r \in Procs PROVE key[r] = NoKey /\ pc[r] # "write"
        OBVIOUS
      <4>1. file = Absent
        BY <2>3 DEF CreateExclusive
      <4>2. pc[r] # "write"
        BY <2>0, <4>1, FileExists
      <4>3. key[r] \in Procs \cup {NoKey}
        BY <2>0
      <4> QED
        BY <2>0, <4>1, <4>2, <4>3, FileExists
    <3> QED
      BY <2>0, <2>3, <3>1 DEF CreateExclusive, Goto
  <2>4. CASE WriteKey(p)
    <3>1. file = [by |-> p, whole |-> FALSE] /\ file # Absent
      BY <2>0, <2>4, FileExists DEF WriteKey
    <3>2. file' = [by |-> p, whole |-> TRUE]
      BY <2>4, <3>1 DEF WriteKey
    <3>3. \A r \in Procs \ {p} : pc[r] # "write" /\ key[r] = NoKey
      <4> SUFFICES ASSUME NEW r \in Procs \ {p} PROVE pc[r] # "write" /\ key[r] = NoKey
        OBVIOUS
      <4>1. pc[r] = "write" => file.by = r
        BY <2>0
      <4>2. key[r] # NoKey => file.whole = TRUE
        BY <2>0
      <4>3. file.by = p /\ file.whole = FALSE
        BY <3>1
      <4> QED
        BY <4>1, <4>2, <4>3
    <3> QED
      BY <2>0, <2>4, <3>2, <3>3, ProcsAssumption DEF WriteKey, Goto
  <2> QED
    BY <1>2, <2>1, <2>2, <2>3, <2>4 DEF Step
<1>3. CASE Delete \/ PowerLoss
  BY <1>3 DEF Delete, PowerLoss, TypeOK
<1> QED
  BY <1>1, <1>2, <1>3 DEF Next

LEMMA KeyInit == Init => TypeOK /\ KeyInv
BY ProcsAssumption DEF Init, TypeOK, Files, Steps, KeyInv, KeysAgree, OwnerInv

LEMMA KeyInvariance == Spec => [](TypeOK /\ KeyInv)
<1>1. TypeOK /\ KeyInv /\ [Next]_vars => (TypeOK /\ KeyInv)'
  BY TypeStep, KeyStep
<1> QED
  BY KeyInit, <1>1, PTL DEF Spec

(* The types of the key file's model are kept for every set of processes.  *)
THEOREM KeyTypeCorrect == Spec => []TypeOK
BY KeyInvariance, PTL

(* Whatever the number of first uses that race, and whichever of them die: *)
(* every key that was handed out is the one on disk.                       *)
THEOREM KeyAgreement == Spec => []KeysAgree
<1>1. TypeOK /\ KeyInv => KeysAgree
  BY DEF KeyInv
<1> QED
  BY KeyInvariance, <1>1, PTL
=============================================================================
