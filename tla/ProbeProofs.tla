----------------------------- MODULE ProbeProofs -----------------------------
(* Proofs about Probe, for every collection, pool, number of attempts and  *)
(* size of a body, and whatever the probes hear.                           *)
EXTENDS Probe, FiniteSetTheorems, TLAPS

USE DEF vars, probeVars

(* How the steps of the probes go with the step of the command: nothing is *)
(* probed before it runs or after it has ended, and what it reported on    *)
(* is complete.                                                            *)
StageOK ==
    /\ audit \in {"idle", "refused"} => \A i \in Probes : pc[i] = "queued"
    /\ audit \in {"reported", "aborted"} => \A i \in Probes : Ended(i)

(* The steps of probe i, by what they do with its row: nothing, ...        *)
Quiet(i) == Unresolved(i) \/ Resolved(i) \/ Retry(i) \/ Breaks(i) \/ Chunk(i) \/ Cut(i)

(* ... or an update of it. *)
Marks(i) ==
    \/ Blocked(i) \/ GiveUp(i) \/ Follow(i) \/ NotFollowed(i) \/ ErrorResponse(i)
    \/ Opens(i) \/ Overflows(i) \/ Classified(i)

LEMMA ProbeStepCases ==
    ASSUME NEW i, ProbeStep(i)
    PROVE  Quiet(i) \/ Marks(i)
  BY DEF ProbeStep, Quiet, Marks

LEMMA InitOK == Init => TypeOK /\ StageOK
  <1> SUFFICES ASSUME Init PROVE TypeOK /\ StageOK
    OBVIOUS
  <1>1. NewEntry \in Entries
    BY DEF NewEntry, Entries, Statuses
  <1>2. entry \in [Probes -> Entries]
    BY <1>1 DEF Init
  <1>3. heard \in [Probes -> Seq(Replies \cup Bodies)]
    BY DEF Init
  <1> QED
    BY <1>2, <1>3, ProbeAssumption DEF Init, TypeOK, StageOK, Steps

(* A probe hears only what there is to be heard. *)
LEMMA HearsType ==
    ASSUME TypeOK, NEW i \in Probes, NEW what, Hears(i, what)
    PROVE  heard' \in [Probes -> Seq(Replies \cup Bodies)]
  <1>1. what \in Replies \cup Bodies
    BY ProbeAssumption DEF Hears
  <1>2. heard[i] \in Seq(Replies \cup Bodies)
    BY DEF TypeOK
  <1>3. Append(heard[i], what) \in Seq(Replies \cup Bodies)
    BY <1>1, <1>2
  <1> QED
    BY <1>3 DEF Hears, TypeOK

LEMMA CountedType ==
    ASSUME TypeOK, NEW i \in Probes
    PROVE  Counted(i) \in Nat
  <1>1. entry[i].attempts \in Nat /\ tries[i] \in Nat
    BY ProbeAssumption DEF TypeOK, Entries
  <1> QED
    BY <1>1 DEF Counted

LEMMA QuietType ==
    ASSUME TypeOK, NEW i \in Probes, Quiet(i)
    PROVE  TypeOK'
  <1> USE ProbeAssumption DEF TypeOK, Goto, Returns, Steps
  <1>1. CASE Unresolved(i)
    BY <1>1 DEF Unresolved
  <1>2. CASE Resolved(i)
    BY <1>2 DEF Resolved
  <1>3. CASE Retry(i)
    BY <1>3, HearsType DEF Retry
  <1>4. CASE Breaks(i)
    BY <1>4, HearsType DEF Breaks
  <1>5. CASE Chunk(i)
    BY <1>5 DEF Chunk
  <1>6. CASE Cut(i)
    BY <1>6, HearsType DEF Cut
  <1> QED
    BY <1>1, <1>2, <1>3, <1>4, <1>5, <1>6 DEF Quiet

LEMMA MarksType ==
    ASSUME TypeOK, NEW i \in Probes, Marks(i)
    PROVE  TypeOK'
  <1> USE ProbeAssumption DEF TypeOK, Goto, Returns, Steps
  <1>1. entry[i] \in Entries /\ Counted(i) \in Nat
    BY CountedType
  <1> USE DEF Entries, Statuses, Replies, Transient, Lost, Redirects
  <1>2. CASE Blocked(i)
    BY <1>1, <1>2 DEF Blocked
  <1>3. CASE GiveUp(i)
    BY <1>1, <1>3, HearsType DEF GiveUp
  <1>4. CASE Follow(i)
    <2> HIDE DEF Replies, Steps, Goto
    <2>0. 1 \in 0..1
      OBVIOUS
    <2>1. entry' \in [Probes -> Entries]
      BY <1>1, <1>4, <2>0 DEF Follow
    <2> USE DEF Goto, Steps
    <2> QED
      BY <1>4, <2>1, HearsType DEF Follow
  <1>5. CASE NotFollowed(i)
    BY <1>1, <1>5, HearsType DEF NotFollowed
  <1>6. CASE ErrorResponse(i)
    <2>1. PICK r \in {"error", "busy"} :
              /\ Hears(i, r)
              /\ entry' = [entry EXCEPT ![i].attempts = Counted(i), ![i].http = r]
      BY <1>6 DEF ErrorResponse
    <2>2. entry' \in [Probes -> Entries]
      BY <1>1, <2>1
    <2> QED
      BY <1>6, <2>1, <2>2, HearsType DEF ErrorResponse
  <1>7. CASE Opens(i)
    BY <1>1, <1>7, HearsType DEF Opens
  <1>8. CASE Overflows(i)
    BY <1>1, <1>8, HearsType DEF Overflows
  <1>9. CASE Classified(i)
    <2>1. PICK body \in Manifests \cup {"foreign", "junk"} :
              /\ Hears(i, body)
              /\ entry' = [entry EXCEPT ![i].status = Finalized(i, body),
                                        ![i].document = body \in Manifests]
      BY <1>9 DEF Classified
    <2>2. Finalized(i, body) \in Statuses /\ (body \in Manifests) \in BOOLEAN
      BY DEF Finalized, OkStatuses
    <2>3. entry' \in [Probes -> Entries]
      BY <1>1, <2>1, <2>2
    <2> QED
      BY <1>9, <2>1, <2>3, HearsType DEF Classified
  <1> QED
    BY <1>2, <1>3, <1>4, <1>5, <1>6, <1>7, <1>8, <1>9 DEF Marks

LEMMA NextType ==
    ASSUME TypeOK, [Next]_vars
    PROVE  TypeOK'
  <1>1. CASE UNCHANGED vars
    BY <1>1 DEF TypeOK
  <1>2. CASE Start \/ RefuseCollection \/ Report \/ Interrupt \/ Abort
    BY <1>2 DEF Start, RefuseCollection, Report, Interrupt, Abort, TypeOK, Steps
  <1>3. CASE \E i \in Probes : Take(i)
    BY <1>3 DEF Take, TypeOK, Steps
  <1>4. CASE \E i \in Probes : ProbeStep(i)
    BY <1>4, ProbeStepCases, QuietType, MarksType
  <1>5. CASE \E i \in Probes : HoldsBack(i)
    BY <1>5 DEF HoldsBack, TypeOK
  <1> QED
    BY <1>1, <1>2, <1>3, <1>4, <1>5 DEF Next

-----------------------------------------------------------------------------
(* A step of a probe finds it at work, and leaves the command and the      *)
(* other probes alone; the row of a probe is final when it is done.        *)
LEMMA ProbeStepLocal ==
    ASSUME TypeOK, NEW i \in Probes, ProbeStep(i)
    PROVE  /\ pc[i] \in {"guard", "send", "body"}
           /\ \E step \in {"guard", "send", "body", "done"} : pc' = [pc EXCEPT ![i] = step]
           /\ \A j \in Probes \ {i} :
                 entry'[j] = entry[j] /\ tries'[j] = tries[j] /\ heard'[j] = heard[j]
           /\ UNCHANGED <<https, audit, exit>>
  <1>1. CASE Quiet(i)
    BY <1>1 DEF Quiet, Unresolved, Resolved, Retry, Breaks, Chunk, Cut, Goto, Returns, Hears, TypeOK
  <1>2. CASE Marks(i)
    BY <1>2 DEF Marks, Blocked, GiveUp, Follow, NotFollowed, ErrorResponse, Opens,
                Overflows, Classified, Goto, Returns, Hears, TypeOK
  <1> QED
    BY <1>1, <1>2, ProbeStepCases

LEMMA NextStage ==
    ASSUME TypeOK, StageOK, [Next]_vars
    PROVE  StageOK'
  <1>1. CASE UNCHANGED vars
    BY <1>1 DEF StageOK, Ended
  <1>2. CASE Start \/ RefuseCollection \/ Report \/ Interrupt \/ Abort
    BY <1>2 DEF Start, RefuseCollection, Report, Interrupt, Abort, StageOK, Ended, TypeOK
  <1>3. CASE \E i \in Probes : Take(i)
    BY <1>3 DEF Take, StageOK, Ended, TypeOK
  <1>4. ASSUME NEW i \in Probes, ProbeStep(i) PROVE StageOK'
    BY <1>4, ProbeStepLocal DEF StageOK, Ended
  <1>5. ASSUME NEW i \in Probes, HoldsBack(i) PROVE StageOK'
    BY <1>5 DEF HoldsBack, StageOK, Ended
  <1> QED
    BY <1>1, <1>2, <1>3, <1>4, <1>5 DEF Next

LEMMA ProbeInvariance == Spec => [](TypeOK /\ StageOK)
  <1>1. TypeOK /\ StageOK /\ [Next]_vars => TypeOK' /\ StageOK'
    BY NextType, NextStage
  <1> QED
    BY <1>1, InitOK, PTL DEF Spec

(* Every variable of an audit stays in its range. *)
THEOREM ProbeTypeCorrect == Spec => []TypeOK
  BY ProbeInvariance, PTL

-----------------------------------------------------------------------------
(* The verdict the refinement shows of each descriptor. *)
Verdict == [i \in Probes |-> IF pc[i] = "done" THEN entry[i].status ELSE "none"]

LEMMA InitPromises == Init => Promise!Init
  BY DEF Init, Promise!Init, Probes

(* A step of the command itself is the abstract one. *)
LEMMA CommandPromises ==
    ASSUME TypeOK, StageOK, Start \/ RefuseCollection \/ Report \/ Interrupt \/ Abort
    PROVE  [Promise!Next]_(Promise!vars)
  <1>1. \A i \in Probes : pc[i] = "done" => entry[i].status \in Statuses
    BY DEF TypeOK, Entries
  <1>2. CASE Start
    BY <1>2 DEF Start, Promise!Next, Promise!Begin
  <1>3. CASE RefuseCollection
    BY <1>3 DEF RefuseCollection, Promise!Next, Promise!Refuse
  <1>4. CASE Report
    BY <1>1, <1>4 DEF Report, Promise!Next, Promise!Publish, Promise!OkVerdicts, OkStatuses,
                      Statuses, Probes
  <1>5. CASE Interrupt
    BY <1>5 DEF Interrupt, TypeOK, Promise!Next, Promise!Interrupt
  <1>6. CASE Abort
    BY <1>6 DEF Abort, Promise!Next, Promise!GiveUp
  <1> QED
    BY <1>2, <1>3, <1>4, <1>5, <1>6

(* A step that ends a probe decides on its descriptor, any other changes   *)
(* no verdict.                                                             *)
LEMMA ProbePromises ==
    ASSUME TypeOK, TypeOK', StageOK, NEW i \in Probes,
           Take(i) \/ ProbeStep(i) \/ HoldsBack(i)
    PROVE  [Promise!Next]_(Promise!vars)
  <1>1. CASE Take(i)
    <2>1. Verdict' = Verdict
      BY <1>1 DEF Take, Verdict, TypeOK
    <2> QED
      BY <1>1, <2>1 DEF Take, Promise!vars, Verdict
  <1>2. CASE ProbeStep(i) /\ pc'[i] # "done"
    <2>1. Verdict' = Verdict
      BY <1>2, ProbeStepLocal DEF Verdict, TypeOK
    <2> QED
      BY <1>2, <2>1, ProbeStepLocal DEF Promise!vars, Verdict
  <1>3. CASE ProbeStep(i) /\ pc'[i] = "done"
    <2> DEFINE status == entry'[i].status
    <2>1. status \in Promise!Verdicts
      BY DEF TypeOK, Entries, Statuses, OkStatuses, Promise!Verdicts, Promise!OkVerdicts
    <2>2. audit \in {"running", "interrupted"}
      BY <1>3, ProbeStepLocal DEF StageOK, Ended, TypeOK
    <2>3. Verdict[i] = "none"
      BY <1>3, ProbeStepLocal DEF Verdict
    <2>4. Verdict' = [Verdict EXCEPT ![i] = status]
      BY <1>3, ProbeStepLocal DEF Verdict, TypeOK
    <2>5. UNCHANGED <<audit, exit>>
      BY <1>3, ProbeStepLocal
    <2> HIDE DEF status
    <2>6. Promise!Decide(i)
      BY <2>1, <2>2, <2>3, <2>4, <2>5 DEF Promise!Decide, Verdict
    <2> QED
      BY <2>6 DEF Promise!Next, Probes
  <1>4. CASE HoldsBack(i)
    BY <1>4 DEF HoldsBack, Promise!vars
  <1> QED
    BY <1>1, <1>2, <1>3, <1>4

(* Whatever the probes hear, however many run at once and wherever it is   *)
(* interrupted, `probe collection` is an AuditPromise.                     *)
THEOREM KeepingTheAuditPromise == Spec => KeepsPromise
  <1>1. TypeOK /\ TypeOK' /\ StageOK /\ [Next]_vars => [Promise!Next]_(Promise!vars)
    <2> SUFFICES ASSUME TypeOK, TypeOK', StageOK, [Next]_vars
                 PROVE  [Promise!Next]_(Promise!vars)
      OBVIOUS
    <2>1. CASE UNCHANGED vars
      BY <2>1 DEF Promise!vars
    <2>2. CASE Next
      BY <2>2, CommandPromises, ProbePromises DEF Next
    <2> QED
      BY <2>1, <2>2
  <1> QED
    BY <1>1, InitPromises, ProbeInvariance, PTL DEF Spec, KeepsPromise, Promise!Spec

-----------------------------------------------------------------------------
(* What a probe hears, how many requests it makes and what its row says.   *)

(* The number of requests probe i made. *)
Made(i) == IF Last(i) \in Bodies THEN Len(heard[i]) - 1 ELSE Len(heard[i])

(* What it heard: the requests come first, each but the last was answered  *)
(* by a transient failure or by a redirect; only of one that is done the   *)
(* last thing heard may be a body.                                         *)
HeardOK(i) ==
    /\ \A n \in 1..Made(i) :
          /\ heard[i][n] \in Replies
          /\ n < Made(i) \/ pc[i] \in {"queued", "guard", "send", "cancelled"}
                => heard[i][n] \in Transient \cup {"redirect"}
    /\ pc[i] # "done" => Last(i) \notin Bodies
    /\ pc[i] = "body" => Last(i) = "ok"
    /\ pc[i] \in {"queued", "cancelled"} => heard[i] = <<>>

(* Its requests since request s, the one that was answered by the redirect *)
(* it follows (0 if there is none): how many they are, which of them the   *)
(* row counts, and that a further redirect ends the probe.                 *)
HopOK(i, s) ==
    /\ s # 0 <=> entry[i].redirects = 1
    /\ s # 0 => heard[i][s] = "redirect"
    /\ s <= Attempts /\ Made(i) <= s + Attempts
    /\ \A n \in 1..Made(i) :
          heard[i][n] = "redirect" /\ n # s => n = Made(i) /\ s # 0 /\ pc[i] = "done"
    /\ pc[i] \in {"queued", "guard"} => Made(i) = s /\ entry[i].attempts = s
    /\ pc[i] = "send" => Made(i) + 1 = s + tries[i] /\ entry[i].attempts = s
    /\ pc[i] = "body" => Made(i) = entry[i].attempts
    /\ pc[i] = "done" =>
          Made(i) = entry[i].attempts + IF Last(i) = "broken" THEN tries[i] ELSE 0

(* Its row: nothing is known before the end but the HTTP status. *)
RowOK(i) ==
    IF pc[i] = "done"
    THEN StatusHolds(i)
    ELSE /\ entry[i].status = "unreachable"
         /\ ~entry[i].document
         /\ entry[i].http = IF pc[i] = "body" THEN "ok" ELSE "none"

ProbeOK(i) == HeardOK(i) /\ RowOK(i) /\ \E s \in 0..Made(i) : HopOK(i, s)

ProbesOK == \A i \in Probes : ProbeOK(i)

LEMMA HeardFacts ==
    ASSUME TypeOK, NEW i \in Probes
    PROVE  /\ Len(heard[i]) \in Nat
           /\ DOMAIN heard[i] = 1..Len(heard[i])
           /\ Made(i) \in 0..Len(heard[i])
           /\ Last(i) \notin Bodies => Made(i) = Len(heard[i])
  <1>1. heard[i] \in Seq(Replies \cup Bodies)
    BY DEF TypeOK
  <1>2. "nothing" \notin Bodies
    BY DEF Bodies, Manifests
  <1>3. Len(heard[i]) = 0 => Last(i) = "nothing"
    BY <1>1 DEF Last
  <1>4. Len(heard[i]) \in Nat /\ DOMAIN heard[i] = 1..Len(heard[i])
    BY <1>1
  <1> QED
    BY <1>2, <1>3, <1>4 DEF Made

(* Hearing one more thing. *)
LEMMA HearsFacts ==
    ASSUME TypeOK, NEW i \in Probes, NEW what, Hears(i, what)
    PROVE  /\ Len(heard'[i]) = Len(heard[i]) + 1
           /\ \A n \in 1..Len(heard[i]) : heard'[i][n] = heard[i][n]
           /\ heard'[i][Len(heard[i]) + 1] = what
           /\ Last(i)' = what
           /\ Made(i)' = IF what \in Bodies THEN Len(heard[i]) ELSE Len(heard[i]) + 1
           /\ \A j \in Probes \ {i} : heard'[j] = heard[j]
  <1>1. heard[i] \in Seq(Replies \cup Bodies) /\ what \in Replies \cup Bodies
    BY ProbeAssumption DEF TypeOK, Hears
  <1>2. heard'[i] = Append(heard[i], what) /\ \A j \in Probes \ {i} : heard'[j] = heard[j]
    BY DEF Hears, TypeOK
  <1>3. /\ Len(heard'[i]) = Len(heard[i]) + 1
        /\ \A n \in 1..Len(heard[i]) : heard'[i][n] = heard[i][n]
        /\ heard'[i][Len(heard[i]) + 1] = what
    BY <1>1, <1>2
  <1>4. Last(i)' = what
    BY <1>1, <1>2, <1>3 DEF Last
  <1>5. Made(i)' = IF what \in Bodies THEN Len(heard[i]) ELSE Len(heard[i]) + 1
    BY <1>3, <1>4, HeardFacts DEF Made
  <1> QED
    BY <1>2, <1>3, <1>4, <1>5

(* What is known of a probe rests on its own variables. *)
LEMMA SameProbe ==
    ASSUME NEW i \in Probes, ProbeOK(i), https' = https, pc'[i] = pc[i],
           entry'[i] = entry[i], tries'[i] = tries[i], heard'[i] = heard[i]
    PROVE  ProbeOK(i)'
  <1>1. /\ Last(i)' = Last(i) /\ Made(i)' = Made(i)
        /\ Requests(i)' = Requests(i) /\ Redirected(i)' = Redirected(i)
    BY DEF Last, Made, Requests, Redirected
  <1>2. HeardOK(i)'
    BY <1>1 DEF ProbeOK, HeardOK
  <1>3. RowOK(i)'
    BY <1>1 DEF ProbeOK, RowOK, StatusHolds, Verdicts
  <1>4. \A s \in 0..Made(i) : HopOK(i, s) => HopOK(i, s)'
    BY <1>1 DEF HopOK
  <1> QED
    BY <1>1, <1>2, <1>3, <1>4 DEF ProbeOK

(* A probe at work made a request for each thing it heard. *)
LEMMA WorkFacts ==
    ASSUME TypeOK, NEW i \in Probes, HeardOK(i), pc[i] # "done"
    PROVE  Made(i) = Len(heard[i]) /\ Last(i) \notin Bodies
  BY HeardFacts DEF HeardOK

(* The answer to a request, by the step it leads to. *)
LEMMA AnswerHeard ==
    ASSUME TypeOK, NEW i \in Probes, HeardOK(i), pc[i] = "send",
           NEW r \in Replies, Hears(i, r), NEW step \in {"send", "guard", "body", "done"},
           pc' = [pc EXCEPT ![i] = step],
           step \in {"send", "guard"} => r \in Transient \cup {"redirect"},
           step = "body" => r = "ok"
    PROVE  /\ HeardOK(i)'
           /\ Made(i)' = Made(i) + 1
           /\ Last(i)' = r
           /\ \A n \in 1..Made(i) : heard'[i][n] = heard[i][n]
           /\ heard'[i][Made(i) + 1] = r
  <1>1. r \notin Bodies
    BY DEF Replies, Transient, Lost, Redirects, Bodies, Manifests
  <1>2. /\ Made(i)' = Made(i) + 1 /\ Last(i)' = r
        /\ \A n \in 1..Made(i) : heard'[i][n] = heard[i][n]
        /\ heard'[i][Made(i) + 1] = r
        /\ Made(i) \in Nat
    BY <1>1, HearsFacts, WorkFacts, HeardFacts
  <1>3. pc'[i] = step
    BY DEF TypeOK
  <1> HIDE DEF Made, Last
  <1>4. \A n \in 1..(Made(i) + 1) : n \in 1..Made(i) \/ n = Made(i) + 1
    BY <1>2
  <1>5. \A n \in 1..Made(i) :
           heard[i][n] \in Replies /\ heard[i][n] \in Transient \cup {"redirect"}
    BY DEF HeardOK
  <1>6. HeardOK(i)'
    BY <1>1, <1>2, <1>3, <1>4, <1>5 DEF HeardOK
  <1> QED
    BY <1>2, <1>6

(* What a body turns out to be is the end of a probe. *)
LEMMA BodyHeard ==
    ASSUME TypeOK, NEW i \in Probes, HeardOK(i), pc[i] = "body",
           NEW b \in Bodies, Hears(i, b), pc' = [pc EXCEPT ![i] = "done"]
    PROVE  /\ HeardOK(i)'
           /\ Made(i)' = Made(i)
           /\ Last(i)' = b
           /\ \A n \in 1..Made(i) : heard'[i][n] = heard[i][n]
  <1>1. /\ Made(i)' = Made(i) /\ Last(i)' = b
        /\ \A n \in 1..Made(i) : heard'[i][n] = heard[i][n]
        /\ Made(i) \in Nat
    BY HearsFacts, WorkFacts, HeardFacts
  <1>2. pc'[i] = "done"
    BY DEF TypeOK
  <1>3. HeardOK(i)'
    BY <1>1, <1>2 DEF HeardOK
  <1> QED
    BY <1>1, <1>3

(* An answer that is not followed belongs to the hop of its request. *)
LEMMA AnswerHop ==
    ASSUME TypeOK, TypeOK', NEW i \in Probes, HeardOK(i), pc[i] = "send",
           NEW s \in 0..Made(i), HopOK(i, s),
           NEW r \in Replies, Hears(i, r), NEW step \in {"send", "body", "done"},
           pc' = [pc EXCEPT ![i] = step],
           step = "send" => r \in Transient,
           step = "body" => r = "ok",
           r = "redirect" => step = "done" /\ entry[i].redirects = 1,
           entry'[i].redirects = entry[i].redirects,
           tries'[i] = IF step = "send" THEN tries[i] + 1 ELSE tries[i],
           entry'[i].attempts =
               IF step = "send" \/ r = "broken" THEN entry[i].attempts ELSE Counted(i)
    PROVE  HopOK(i, s)' /\ s \in 0..Made(i)'
  <1>1. /\ Made(i)' = Made(i) + 1
        /\ Last(i)' = r
        /\ \A n \in 1..Made(i) : heard'[i][n] = heard[i][n]
        /\ heard'[i][Made(i) + 1] = r
    BY AnswerHeard
  <1>2. pc'[i] = step
    BY DEF TypeOK
  <1>0. Made(i) \in Nat
    BY HeardFacts
  <1>3. /\ Made(i) \in Nat /\ tries[i] \in 0..Attempts /\ Attempts \in Nat
        /\ entry[i].attempts \in Nat
    BY <1>0, ProbeAssumption DEF TypeOK, Entries
  <1> HIDE DEF Made, Last
  <1>4. Made(i) + 1 = s + tries[i] /\ entry[i].attempts = s
    BY DEF HopOK
  <1>5. \A n \in 1..(Made(i) + 1) : n \in 1..Made(i) \/ n = Made(i) + 1
    BY <1>3
  <1>6. \A n \in 1..Made(i) : heard[i][n] = "redirect" => n = s
    BY DEF HopOK
  <1>7. /\ s # 0 <=> entry[i].redirects = 1
        /\ s # 0 => heard[i][s] = "redirect" /\ s \in 1..Made(i)
        /\ s <= Attempts
    BY <1>3 DEF HopOK
  <1>8. \A n \in 1..(Made(i) + 1) :
           heard'[i][n] = "redirect" /\ n # s =>
               n = Made(i) + 1 /\ s # 0 /\ step = "done"
    BY <1>1, <1>5, <1>6, <1>7
  <1>9. Made(i)' <= s + Attempts /\ s \in 0..Made(i)'
    BY <1>1, <1>3, <1>4
  <1>10. /\ step = "send" => Made(i)' + 1 = s + tries'[i] /\ entry'[i].attempts = s
         /\ step = "body" => Made(i)' = entry'[i].attempts
         /\ step = "done" => Made(i)' = entry'[i].attempts + IF r = "broken" THEN tries'[i] ELSE 0
    <2>1. step = "send" => Made(i)' + 1 = s + tries'[i] /\ entry'[i].attempts = s
      BY <1>1, <1>3, <1>4
    <2>2. Counted(i) = Made(i) + 1
      BY <1>3, <1>4 DEF Counted
    <2>3. step = "body" => r # "broken"
      OBVIOUS
    <2> QED
      BY <2>1, <2>2, <2>3, <1>1, <1>3, <1>4
  <1> QED
    BY <1>1, <1>2, <1>7, <1>8, <1>9, <1>10 DEF HopOK

(* A probe that got no 2xx is unreachable. *)
LEMMA AnswerRow ==
    ASSUME NEW i \in Probes, RowOK(i), pc[i] = "send",
           NEW r \in Replies \ {"ok"}, Last(i)' = r, pc'[i] = "done",
           entry'[i].status = entry[i].status, entry'[i].document = entry[i].document,
           entry'[i].http = IF r \in {"error", "busy"} THEN r ELSE entry[i].http
    PROVE  RowOK(i)'
  <1>1. entry[i].status = "unreachable" /\ ~entry[i].document /\ entry[i].http = "none"
    BY DEF RowOK
  <1> USE DEF Replies, Transient, Lost, Redirects
  <1>2. r \notin Bodies /\ r # "nothing"
    BY DEF Bodies, Manifests
  <1>3. "unreachable" \in Verdicts(i)'
    BY <1>2 DEF Verdicts, Bodies, Manifests
  <1>4. entry'[i].http = CASE r \in Bodies -> "ok"
                            [] r \in {"error", "busy"} -> r
                            [] OTHER -> "none"
    BY <1>1, <1>2
  <1>5. entry'[i].document <=> r \in Manifests
    BY <1>1, <1>2 DEF Bodies
  <1> QED
    BY <1>1, <1>3, <1>4, <1>5 DEF RowOK, StatusHolds

(* The actions of probe i, one group after the other: the guard, ... *)
LEMMA GuardOK ==
    ASSUME TypeOK, TypeOK', NEW i \in Probes, ProbeOK(i),
           Blocked(i) \/ Unresolved(i) \/ Resolved(i)
    PROVE  ProbeOK(i)'
  <1> USE DEF TypeOK, Goto, Returns
  <1>1. /\ pc[i] = "guard" /\ UNCHANGED <<https, heard>>
        /\ pc'[i] \in {"send", "done"}
        /\ Last(i)' = Last(i) /\ Made(i)' = Made(i)
        /\ Requests(i)' = Requests(i) /\ Redirected(i)' = Redirected(i)
    BY DEF Blocked, Unresolved, Resolved, Last, Made, Requests, Redirected
  <1>2. HeardOK(i)'
    BY <1>1 DEF HeardOK, ProbeOK
  <1>3. PICK s \in 0..Made(i) : HopOK(i, s)
    BY DEF ProbeOK
  <1>4. Made(i) = s /\ entry[i].attempts = s /\ s \in Nat
    BY <1>1, <1>3 DEF HopOK
  <1>5. Made(i) = Len(heard[i]) /\ Last(i) \notin Bodies
    BY <1>1, WorkFacts DEF ProbeOK
  <1>6. Last(i) = IF s = 0 THEN "nothing" ELSE "redirect"
    BY <1>1, <1>3, <1>4, <1>5, HeardFacts DEF Last, HopOK
  <1>7. HopOK(i, s)'
    <2>1. CASE pc'[i] = "done"
      <3>1. entry'[i].attempts = entry[i].attempts /\ entry'[i].redirects = entry[i].redirects
        BY <2>1, <1>1 DEF Blocked, Unresolved, Resolved, Entries
      <3>2. Last(i) # "broken"
        BY <1>6
      <3> QED
        BY <2>1, <3>1, <3>2, <1>1, <1>3, <1>4 DEF HopOK
    <2>2. CASE pc'[i] = "send"
      <3>1. tries'[i] = 1 /\ entry' = entry
        BY <2>2, <1>1 DEF Blocked, Unresolved, Resolved
      <3> QED
        BY <2>2, <3>1, <1>1, <1>3, <1>4 DEF HopOK
    <2> QED
      BY <1>1, <2>1, <2>2
  <1>8. RowOK(i)'
    <2>1. entry[i].status = "unreachable" /\ ~entry[i].document /\ entry[i].http = "none"
      BY <1>1 DEF RowOK, ProbeOK
    <2>2. CASE pc'[i] = "send"
      BY <2>1, <2>2, <1>1 DEF RowOK, Blocked, Unresolved, Resolved
    <2>3. CASE pc'[i] = "done"
      <3>1. /\ entry'[i].status \in {"unreachable", "blocked_destination"}
            /\ ~entry'[i].document /\ entry'[i].http = "none"
        BY <2>1, <2>3, <1>1 DEF Blocked, Unresolved, Resolved, Entries
      <3>2. s # 0 => Cardinality(Redirected(i)) = 1
        <4> SUFFICES ASSUME s # 0 PROVE Redirected(i) = {s}
          BY FS_Singleton
        <4>1. \A n \in DOMAIN heard[i] : heard[i][n] = "redirect" => n = s
          BY <1>1, <1>3, <1>5, HeardFacts DEF HopOK
        <4>2. s \in DOMAIN heard[i] /\ heard[i][s] = "redirect"
          BY <1>3, <1>4, <1>5, HeardFacts DEF HopOK
        <4> QED
          BY <4>1, <4>2 DEF Redirected, Requests, Replies, Redirects
      <3>3. Verdicts(i)' = {"unreachable", "blocked_destination"}
        BY <1>1, <1>6, <3>2 DEF Verdicts, Manifests
      <3>4. Last(i) \notin {"error", "busy"} \cup Manifests
        BY <1>6 DEF Manifests
      <3>5. StatusHolds(i)'
        BY <1>1, <1>5, <3>1, <3>3, <3>4 DEF StatusHolds
      <3> QED
        BY <2>3, <3>5 DEF RowOK
    <2> QED
      BY <1>1, <2>2, <2>3
  <1> QED
    BY <1>1, <1>2, <1>7, <1>8 DEF ProbeOK

(* ... the answers that end it, ... *)
LEMMA AnswerEndsOK ==
    ASSUME TypeOK, TypeOK', NEW i \in Probes, ProbeOK(i),
           GiveUp(i) \/ Breaks(i) \/ NotFollowed(i) \/ ErrorResponse(i)
    PROVE  ProbeOK(i)'
  <1> USE DEF Goto, Returns
  <1>1. entry[i] \in Entries /\ entry \in [Probes -> Entries] /\ pc \in [Probes -> Steps]
    BY DEF TypeOK
  <1>2. /\ pc[i] = "send" /\ pc' = [pc EXCEPT ![i] = "done"]
        /\ UNCHANGED <<https, tries>>
    BY DEF GiveUp, Breaks, NotFollowed, ErrorResponse
  <1> DEFINE Outcome(r) ==
               /\ Hears(i, r)
               /\ r = "redirect" => entry[i].redirects = 1
               /\ entry'[i].redirects = entry[i].redirects
               /\ entry'[i].status = entry[i].status
               /\ entry'[i].document = entry[i].document
               /\ entry'[i].attempts = IF r = "broken" THEN entry[i].attempts ELSE Counted(i)
               /\ entry'[i].http = IF r \in {"error", "busy"} THEN r ELSE entry[i].http
  <1>3. \E r \in Replies \ {"ok"} : Outcome(r)
    <2>1. ASSUME NEW r \in Lost \cup Redirects, Hears(i, r),
                 r = "redirect" => entry[i].redirects = 1,
                 entry' = [entry EXCEPT ![i].attempts = Counted(i)]
          PROVE  r \in Replies \ {"ok"} /\ Outcome(r)
      <3>1. r \in Replies \ {"ok"} /\ r \notin {"broken", "error", "busy"}
        BY DEF Replies, Transient, Lost, Redirects
      <3>2. entry'[i] = [entry[i] EXCEPT !.attempts = Counted(i)]
        BY <1>1, <2>1
      <3> QED
        BY <1>1, <2>1, <3>1, <3>2 DEF Entries
    <2>2. CASE GiveUp(i)
      BY <2>1, <2>2 DEF GiveUp, Lost
    <2>3. CASE Breaks(i)
      BY <2>3 DEF Breaks, Replies
    <2>4. CASE NotFollowed(i)
      BY <2>1, <2>4 DEF NotFollowed
    <2>5. CASE ErrorResponse(i)
      <3>1. PICK r \in {"error", "busy"} :
              /\ Hears(i, r)
              /\ entry' = [entry EXCEPT ![i].attempts = Counted(i), ![i].http = r]
        BY <2>5 DEF ErrorResponse
      <3>2. entry'[i] = [entry[i] EXCEPT !.attempts = Counted(i), !.http = r]
        BY <1>1, <3>1
      <3>3. r \in Replies \ {"ok"}
        BY DEF Replies, Transient
      <3> QED
        BY <1>1, <3>1, <3>2, <3>3 DEF Entries
    <2> QED
      BY <2>2, <2>3, <2>4, <2>5
  <1>4. PICK r \in Replies \ {"ok"} : Outcome(r)
    BY <1>3
  <1>5. PICK s \in 0..Made(i) : HopOK(i, s)
    BY DEF ProbeOK
  <1>6. HeardOK(i)' /\ Last(i)' = r
    BY <1>2, <1>4, AnswerHeard DEF ProbeOK
  <1>7. HopOK(i, s)' /\ s \in 0..Made(i)'
    BY <1>2, <1>4, <1>5, AnswerHop DEF ProbeOK
  <1>8. RowOK(i)'
    <2>1. pc'[i] = "done"
      BY <1>1, <1>2
    <2> QED
      BY <2>1, <1>2, <1>4, <1>6, AnswerRow DEF ProbeOK
  <1> QED
    BY <1>6, <1>7, <1>8 DEF ProbeOK

(* ... those that do not, ... *)
LEMMA AnswerGoesOnOK ==
    ASSUME TypeOK, TypeOK', NEW i \in Probes, ProbeOK(i), Retry(i) \/ Opens(i)
    PROVE  ProbeOK(i)'
  <1> USE DEF TypeOK, Goto, Returns
  <1>1. entry[i] \in Entries
    OBVIOUS
  <1>2. PICK r \in Replies, step \in {"send", "body"} :
          /\ Hears(i, r)
          /\ pc' = [pc EXCEPT ![i] = step]
          /\ step = "send" => r \in Transient /\ tries' = [tries EXCEPT ![i] = @ + 1]
                              /\ entry' = entry
          /\ step = "body" => r = "ok" /\ tries' = tries
                              /\ entry' = [entry EXCEPT ![i].attempts = Counted(i), ![i].http = "ok"]
    <2> USE DEF Replies
    <2>1. CASE Retry(i)
      <3>1. pc' = [pc EXCEPT ![i] = "send"]
        BY <2>1 DEF Retry
      <3> QED
        BY <2>1, <3>1 DEF Retry
    <2>2. CASE Opens(i)
      BY <2>2 DEF Opens
    <2> QED
      BY <2>1, <2>2
  <1>3. pc[i] = "send" /\ UNCHANGED https
    BY DEF Retry, Opens
  <1>4. /\ r # "redirect" /\ r # "broken"
        /\ entry'[i].redirects = entry[i].redirects
        /\ entry'[i].status = entry[i].status
        /\ entry'[i].document = entry[i].document
        /\ entry'[i].attempts = IF step = "send" THEN entry[i].attempts ELSE Counted(i)
        /\ entry'[i].http = IF step = "send" THEN entry[i].http ELSE "ok"
        /\ tries'[i] = IF step = "send" THEN tries[i] + 1 ELSE tries[i]
    BY <1>1, <1>2 DEF Entries, Transient, Lost
  <1>5. PICK s \in 0..Made(i) : HopOK(i, s)
    BY DEF ProbeOK
  <1>6. HeardOK(i)'
    BY <1>2, <1>3, AnswerHeard DEF ProbeOK
  <1>7. HopOK(i, s)' /\ s \in 0..Made(i)'
    BY <1>2, <1>3, <1>4, <1>5, AnswerHop DEF ProbeOK
  <1>8. RowOK(i)'
    BY <1>2, <1>3, <1>4 DEF ProbeOK, RowOK
  <1> QED
    BY <1>6, <1>7, <1>8 DEF ProbeOK

(* ... the redirect it follows, where the next hop starts, ... *)
LEMMA FollowOK ==
    ASSUME TypeOK, TypeOK', NEW i \in Probes, ProbeOK(i), Follow(i)
    PROVE  ProbeOK(i)'
  <1>1. /\ pc[i] = "send" /\ pc' = [pc EXCEPT ![i] = "guard"] /\ pc'[i] = "guard"
        /\ entry[i].redirects = 0 /\ Hears(i, "redirect")
        /\ "redirect" \in Replies
    BY DEF TypeOK, Goto, Returns, Follow, Replies, Redirects
  <1>2. /\ entry'[i].redirects = 1
        /\ entry'[i].status = entry[i].status
        /\ entry'[i].document = entry[i].document
        /\ entry'[i].attempts = Counted(i)
        /\ entry'[i].http = entry[i].http
    BY DEF TypeOK, Follow, Entries
  <1>3. /\ HeardOK(i)'
        /\ Made(i)' = Made(i) + 1
        /\ \A n \in 1..Made(i) : heard'[i][n] = heard[i][n]
        /\ heard'[i][Made(i) + 1] = "redirect"
    BY <1>1, AnswerHeard DEF ProbeOK
  <1>4. PICK s \in 0..Made(i) : HopOK(i, s)
    BY DEF ProbeOK
  <1>5. Made(i) \in Nat /\ tries[i] \in 0..Attempts /\ Attempts \in Nat
    BY HeardFacts, ProbeAssumption DEF TypeOK
  <1> HIDE DEF Made, Last
  <1>6. s = 0 /\ Made(i) + 1 = tries[i] /\ entry[i].attempts = 0
    BY <1>1, <1>4, <1>5 DEF HopOK
  <1>7. \A n \in 1..Made(i) : heard[i][n] # "redirect"
    BY <1>1, <1>4, <1>5, <1>6 DEF HopOK
  <1>8. \A n \in 1..(Made(i) + 1) : n \in 1..Made(i) \/ n = Made(i) + 1
    BY <1>5
  <1>9. PICK t \in 0..Made(i)' : t = Made(i) + 1
    BY <1>3, <1>5
  <1>10. \A n \in 1..Made(i)' : heard'[i][n] = "redirect" => n = t
    BY <1>3, <1>7, <1>8, <1>9
  <1>11. t <= Attempts /\ Made(i)' = t /\ t # 0 /\ heard'[i][t] = "redirect"
    BY <1>3, <1>5, <1>6, <1>9
  <1>12. entry'[i].attempts = t
    BY <1>2, <1>5, <1>6, <1>9 DEF Counted
  <1>13. HopOK(i, t)'
    BY <1>1, <1>2, <1>5, <1>9, <1>10, <1>11, <1>12 DEF HopOK
  <1>14. RowOK(i)'
    BY <1>1, <1>2 DEF ProbeOK, RowOK
  <1> QED
    BY <1>3, <1>9, <1>13, <1>14 DEF ProbeOK

(* ... and the body. *)
LEMMA BodyOK ==
    ASSUME TypeOK, TypeOK', NEW i \in Probes, ProbeOK(i),
           Chunk(i) \/ Overflows(i) \/ Cut(i) \/ Classified(i)
    PROVE  ProbeOK(i)'
  <1>0. CASE Chunk(i)
    BY <1>0, SameProbe DEF Chunk, Returns
  <1>1. CASE Overflows(i) \/ Cut(i) \/ Classified(i)
    <2>1. /\ pc[i] = "body" /\ pc' = [pc EXCEPT ![i] = "done"] /\ pc'[i] = "done"
          /\ UNCHANGED <<https, tries>>
      BY <1>1 DEF TypeOK, Goto, Returns, Overflows, Cut, Classified
    <2>2. /\ entry[i] \in Entries /\ entry \in [Probes -> Entries]
          /\ entry[i].status = "unreachable" /\ ~entry[i].document /\ entry[i].http = "ok"
      BY <2>1 DEF TypeOK, ProbeOK, RowOK
    <2> DEFINE Outcome(b) ==
                 /\ Hears(i, b)
                 /\ entry'[i].redirects = entry[i].redirects
                 /\ entry'[i].attempts = entry[i].attempts
                 /\ entry'[i].http = "ok"
                 /\ entry'[i].document <=> b \in Manifests
                 /\ entry'[i].status = CASE b = "flood" -> "invalid_manifest"
                                           [] b = "cut" -> "unreachable"
                                           [] OTHER -> Finalized(i, b)
    <2>3. \E b \in Bodies : Outcome(b)
      <3>1. CASE Overflows(i)
        <4>1. entry'[i] = [entry[i] EXCEPT !.status = "invalid_manifest"]
          BY <3>1, <2>2 DEF Overflows
        <4>2. Outcome("flood")
          BY <3>1, <4>1, <2>2 DEF Overflows, Entries, Manifests
        <4> QED
          BY <4>2 DEF Bodies
      <3>2. CASE Cut(i)
        <4>1. Outcome("cut")
          BY <3>2, <2>2 DEF Cut, Entries, Manifests
        <4> QED
          BY <4>1 DEF Bodies
      <3>3. CASE Classified(i)
        <4>1. PICK b \in Manifests \cup {"foreign", "junk"} :
                /\ Hears(i, b)
                /\ entry' = [entry EXCEPT ![i].status = Finalized(i, b),
                                          ![i].document = b \in Manifests]
          BY <3>3 DEF Classified
        <4>2. entry'[i] = [entry[i] EXCEPT !.status = Finalized(i, b),
                                           !.document = b \in Manifests]
          BY <4>1, <2>2
        <4>3. b \in Bodies /\ b # "flood" /\ b # "cut"
          BY DEF Bodies, Manifests
        <4> HIDE DEF Finalized
        <4>4. Outcome(b)
          BY <4>1, <4>2, <4>3, <2>2 DEF Entries
        <4> QED
          BY <4>3, <4>4
      <3> QED
        BY <1>1, <3>1, <3>2, <3>3
    <2>4. PICK b \in Bodies : Outcome(b)
      BY <2>3
    <2>5. /\ HeardOK(i)' /\ Made(i)' = Made(i) /\ Last(i)' = b
          /\ \A n \in 1..Made(i) : heard'[i][n] = heard[i][n]
      BY <2>1, <2>4, BodyHeard DEF ProbeOK
    <2>6. PICK s \in 0..Made(i) : HopOK(i, s)
      BY DEF ProbeOK
    <2>7. Made(i) \in Nat /\ entry[i].attempts \in Nat /\ b # "broken"
      BY HeardFacts, <2>2 DEF Entries, Bodies, Manifests
    <2> HIDE DEF Made, Last
    <2>8. HopOK(i, s)' /\ s \in 0..Made(i)'
      <3>1. s # 0 => s \in 1..Made(i)
        BY <2>7
      <3> QED
        BY <2>1, <2>4, <2>5, <2>6, <2>7, <3>1 DEF HopOK
    <2>9. RowOK(i)'
      <3>1. entry'[i].status \in Verdicts(i)'
        BY <2>1, <2>4, <2>5 DEF Verdicts, Finalized, Bodies, Manifests
      <3>2. entry'[i].http = CASE b \in Bodies -> "ok"
                                [] b \in {"error", "busy"} -> b
                                [] OTHER -> "none"
        <4> b \notin {"error", "busy"}
          BY DEF Bodies, Manifests
        <4> QED
          BY <2>4
      <3> QED
        BY <2>1, <2>4, <2>5, <3>1, <3>2 DEF RowOK, StatusHolds
    <2> QED
      BY <2>5, <2>8, <2>9 DEF ProbeOK
  <1> QED
    BY <1>0, <1>1

(* A step changes at most its own probe. *)
LEMMA NextProbes ==
    ASSUME TypeOK, TypeOK', ProbesOK, [Next]_vars
    PROVE  ProbesOK'
  <1> SUFFICES ASSUME NEW j \in Probes PROVE ProbeOK(j)'
    BY DEF ProbesOK
  <1>1. ProbeOK(j)
    BY DEF ProbesOK
  <1>2. CASE UNCHANGED vars \/ Start \/ RefuseCollection \/ Report \/ Abort
    BY <1>1, <1>2, SameProbe DEF Start, RefuseCollection, Report, Abort
  <1>3. CASE Interrupt
    <2>1. CASE pc[j] # "queued"
      BY <1>1, <1>3, <2>1, SameProbe DEF Interrupt
    <2>2. CASE pc[j] = "queued"
      <3>1. pc'[j] = "cancelled" /\ UNCHANGED <<https, entry, tries, heard>>
        BY <1>3, <2>2 DEF Interrupt
      <3>2. Last(j)' = Last(j) /\ Made(j)' = Made(j)
        BY <3>1 DEF Last, Made
      <3>3. PICK s \in 0..Made(j) : HopOK(j, s)
        BY <1>1 DEF ProbeOK
      <3>4. HopOK(j, s)'
        BY <2>2, <3>1, <3>2, <3>3 DEF HopOK
      <3> QED
        BY <1>1, <2>2, <3>1, <3>2, <3>3, <3>4 DEF ProbeOK, HeardOK, RowOK
    <2> QED
      BY <2>1, <2>2
  <1>4. ASSUME NEW i \in Probes, Take(i) PROVE ProbeOK(j)'
    <2>1. CASE i # j
      BY <1>1, <1>4, <2>1, SameProbe DEF Take, TypeOK
    <2>2. CASE i = j
      <3>1. pc[j] = "queued" /\ pc'[j] = "guard" /\ UNCHANGED <<https, entry, tries, heard>>
        BY <1>4, <2>2 DEF Take, TypeOK
      <3>2. Last(j)' = Last(j) /\ Made(j)' = Made(j)
        BY <3>1 DEF Last, Made
      <3>3. PICK s \in 0..Made(j) : HopOK(j, s)
        BY <1>1 DEF ProbeOK
      <3>4. HopOK(j, s)'
        BY <3>1, <3>2, <3>3 DEF HopOK
      <3> QED
        BY <1>1, <3>1, <3>2, <3>3, <3>4 DEF ProbeOK, HeardOK, RowOK
    <2> QED
      BY <2>1, <2>2
  <1>5. ASSUME NEW i \in Probes, ProbeStep(i) PROVE ProbeOK(j)'
    <2>1. CASE i = j
      BY <1>1, <1>5, <2>1, GuardOK, AnswerEndsOK, AnswerGoesOnOK, FollowOK, BodyOK DEF ProbeStep
    <2>2. CASE i # j
      <3>1. /\ pc'[j] = pc[j] /\ entry'[j] = entry[j] /\ https' = https
        BY <1>5, <2>2, ProbeStepLocal DEF TypeOK
      <3>2. tries'[j] = tries[j] /\ heard'[j] = heard[j]
        BY <1>5, <2>2, ProbeStepLocal DEF TypeOK
      <3> QED
        BY <1>1, <3>1, <3>2, SameProbe
    <2> QED
      BY <2>1, <2>2
  <1>6. ASSUME NEW i \in Probes, HoldsBack(i) PROVE ProbeOK(j)'
    BY <1>1, <1>6, SameProbe DEF HoldsBack
  <1> QED
    BY <1>2, <1>3, <1>4, <1>5, <1>6 DEF Next

LEMMA InitProbes == Init => ProbesOK
  <1> SUFFICES ASSUME Init, NEW i \in Probes PROVE ProbeOK(i)
    BY DEF ProbesOK
  <1>1. /\ heard[i] = <<>> /\ pc[i] = "queued" /\ entry[i] = NewEntry /\ tries[i] = 0
    BY DEF Init
  <1>2. Last(i) = "nothing" /\ Made(i) = 0
    BY <1>1 DEF Last, Made, Bodies, Manifests
  <1>3. HeardOK(i)
    BY <1>1, <1>2 DEF HeardOK, Bodies, Manifests
  <1>4. HopOK(i, 0)
    BY <1>1, <1>2, ProbeAssumption DEF HopOK, NewEntry
  <1>5. RowOK(i)
    BY <1>1 DEF RowOK, NewEntry
  <1> QED
    BY <1>2, <1>3, <1>4, <1>5 DEF ProbeOK

LEMMA ProbesInvariance == Spec => [](TypeOK /\ ProbesOK)
  <1>1. Init => TypeOK /\ ProbesOK
    BY InitOK, InitProbes
  <1>2. TypeOK /\ ProbesOK /\ [Next]_vars => TypeOK' /\ ProbesOK'
    BY NextType, NextProbes
  <1> QED
    BY <1>1, <1>2, PTL DEF Spec

-----------------------------------------------------------------------------
(* What the invariant says of the requests: they are the first Made(i)     *)
(* things probe i heard.                                                   *)
LEMMA RequestsMade ==
    ASSUME TypeOK, NEW i \in Probes, HeardOK(i)
    PROVE  Made(i) \in Nat /\ Requests(i) = 1..Made(i)
  <1>1. /\ Len(heard[i]) \in Nat /\ DOMAIN heard[i] = 1..Len(heard[i])
        /\ Made(i) \in 0..Len(heard[i]) /\ (Last(i) \notin Bodies => Made(i) = Len(heard[i]))
    BY HeardFacts
  <1>2. \A n \in 1..Made(i) : n \in Requests(i)
    BY <1>1 DEF HeardOK, Requests
  <1>3. \A n \in Requests(i) : n \in 1..Made(i)
    <2>1. CASE Last(i) \notin Bodies
      BY <2>1, <1>1 DEF Requests
    <2>2. CASE Last(i) \in Bodies
      <3>1. Made(i) = Len(heard[i]) - 1
        BY <2>2 DEF Made
      <3>2. heard[i][Len(heard[i])] \notin Replies
        BY <2>2 DEF Last, Bodies, Manifests, Replies, Transient, Lost, Redirects
      <3> QED
        BY <3>1, <3>2, <1>1 DEF Requests
    <2> QED
      BY <2>1, <2>2
  <1>4. Made(i) \in Nat
    BY <1>1
  <1>5. Requests(i) = 1..Made(i)
    BY <1>2, <1>3, Zenon
  <1> QED
    BY <1>4, <1>5

(* Whatever it hears, a row of the report is the verdict on what its probe *)
(* heard last.                                                             *)
THEOREM RightVerdicts == Spec => []StatusesHold
  <1>1. ProbesOK => StatusesHold
    BY DEF ProbesOK, ProbeOK, RowOK, StatusesHold
  <1> QED
    BY <1>1, ProbesInvariance, PTL

(* No probe makes a request without need, nor more than Attempts of them   *)
(* before or after the one redirect it follows.                            *)
THEOREM BoundedRequests == Spec => []RequestsBounded
  <1>1. TypeOK /\ ProbesOK => RequestsBounded
    <2> SUFFICES ASSUME TypeOK, ProbesOK, NEW i \in Probes
                 PROVE  /\ \A n \in Requests(i) :
                              n + 1 \in Requests(i) => heard[i][n] \in Transient \cup {"redirect"}
                        /\ \A n, m \in Redirected(i) : n < m => m + 1 \notin Requests(i)
                        /\ \A n \in Requests(i) :
                              n > Attempts => \E r \in Redirected(i) : r < n /\ n - r <= Attempts
      BY DEF RequestsBounded
    <2>1. HeardOK(i) /\ \E s \in 0..Made(i) : HopOK(i, s)
      BY DEF ProbesOK, ProbeOK
    <2>2. PICK s \in 0..Made(i) : HopOK(i, s)
      BY <2>1
    <2>3. Made(i) \in Nat /\ Requests(i) = 1..Made(i) /\ Attempts \in Nat
      BY <2>1, RequestsMade, ProbeAssumption
    <2> HIDE DEF Made
    <2>4. \A n \in Redirected(i) : n \in 1..Made(i) /\ (n = s \/ (n = Made(i) /\ s # 0))
      BY <2>2, <2>3 DEF Redirected, HopOK
    <2>5. s # 0 => s \in Redirected(i)
      BY <2>2, <2>3 DEF Redirected, HopOK
    <2>6. ASSUME NEW n \in Requests(i), n + 1 \in Requests(i)
          PROVE  heard[i][n] \in Transient \cup {"redirect"}
      BY <2>1, <2>3, <2>6 DEF HeardOK
    <2>7. ASSUME NEW n \in Redirected(i), NEW m \in Redirected(i), n < m
          PROVE  m + 1 \notin Requests(i)
      BY <2>3, <2>4, <2>7
    <2>8. ASSUME NEW n \in Requests(i), n > Attempts
          PROVE  \E r \in Redirected(i) : r < n /\ n - r <= Attempts
      <3>1. s <= Attempts /\ Made(i) <= s + Attempts
        BY <2>2 DEF HopOK
      <3>2. s # 0 /\ s < n /\ n - s <= Attempts
        BY <2>3, <2>8, <3>1
      <3> QED
        BY <2>5, <3>2
    <2> QED
      BY <2>6, <2>7, <2>8
  <1> QED
    BY <1>1, ProbesInvariance, PTL

(* The attempts a row shows are the requests its probe made, except those  *)
(* of a hop that ended in another exception.                               *)
THEOREM CountedAttempts == Spec => []AttemptsAreCounted
  <1>1. TypeOK /\ ProbesOK => AttemptsAreCounted
    <2> SUFFICES ASSUME TypeOK, ProbesOK, NEW i \in Probes, pc[i] = "done"
                 PROVE  Cardinality(Requests(i)) =
                            entry[i].attempts + IF Last(i) = "broken" THEN tries[i] ELSE 0
      BY DEF AttemptsAreCounted
    <2>1. HeardOK(i) /\ \E s \in 0..Made(i) : HopOK(i, s)
      BY DEF ProbesOK, ProbeOK
    <2>2. Made(i) = entry[i].attempts + IF Last(i) = "broken" THEN tries[i] ELSE 0
      BY <2>1 DEF HopOK
    <2>3. Made(i) \in Nat /\ Requests(i) = 1..Made(i)
      BY <2>1, RequestsMade
    <2>4. Cardinality(1..Made(i)) = Made(i)
      BY <2>3, FS_Interval
    <2> QED
      BY <2>2, <2>3, <2>4
  <1> QED
    BY <1>1, ProbesInvariance, PTL
=============================================================================
