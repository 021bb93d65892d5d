-------------------------- MODULE RedactionProofs --------------------------
(* Proofs about the redacted copies, for all documents and all lists of    *)
(* names the code could have.                                              *)
EXTENDS Redaction, FiniteSetTheorems, TLAPS

(* A nonempty set of naturals has a smallest element: intervals that grow  *)
(* with their length are well-founded.                                     *)
LEMMA Smallest ==
    ASSUME NEW T \in SUBSET Nat, T # {}
    PROVE  \E x \in T : \A y \in T : x <= y
  <1> DEFINE R == StrictSubsetOrdering(Nat)
             F == FiniteSubsetsOf(Nat)
             B == {1..x : x \in T}
  <1>1. IsWellFoundedOn(R, F)
    BY FS_StrictSubsetOrderingWellFounded
  <1>2. \A x \in T : x \in Nat
    OBVIOUS
  <1>3. B \subseteq F /\ B # {}
    <2>1. \A x \in T : 1..x \in SUBSET Nat /\ IsFiniteSet(1..x)
      BY <1>2, FS_Interval
    <2>2. \A x \in T : 1..x \in F
      BY <2>1 DEF FiniteSubsetsOf
    <2> HIDE DEF F
    <2> QED
      BY <2>2
  <1>4. ASSUME NEW X \in SUBSET Nat, NEW Y \in SUBSET Nat, X \subseteq Y, X # Y
        PROVE  <<X, Y>> \in R
    BY <1>4 DEF StrictSubsetOrdering
  <1> HIDE DEF R, F, B
  <1>5. PICK X \in B : \A Y \in B : ~(<<Y, X>> \in R)
    BY <1>1, <1>3, WFMin
  <1>6. PICK x \in T : X = 1..x
    BY DEF B
  <1>7. \A y \in T : x <= y
    <2> SUFFICES ASSUME NEW y \in T, ~(x <= y) PROVE FALSE
      OBVIOUS
    <2>1. y < x /\ x \in Nat /\ y \in Nat
      BY <1>2
    <2>2. 1..y \subseteq 1..x /\ x \in 1..x /\ x \notin 1..y
      BY <2>1
    <2>3. 1..y \in SUBSET Nat /\ 1..x \in SUBSET Nat /\ 1..y # 1..x
      BY <2>1, <2>2
    <2>4. <<1..y, 1..x>> \in R
      BY <1>4, <2>2, <2>3
    <2> QED
      BY <1>5, <1>6, <2>4 DEF B
  <1> QED
    BY <1>7

LEMMA Greatest ==
    ASSUME NEW n \in Nat, NEW T \in SUBSET (1..n), T # {}
    PROVE  \E x \in T : \A y \in T : y <= x
  <1> DEFINE D == {n - x : x \in T}
  <1>1. \A x \in T : x \in Nat /\ n - x \in Nat
    OBVIOUS
  <1>2. D \in SUBSET Nat /\ D # {}
    BY <1>1
  <1>3. PICK d \in D : \A e \in D : d <= e
    BY <1>2, Smallest
  <1>4. PICK x \in T : d = n - x
    OBVIOUS
  <1>5. \A y \in T : n - x <= n - y
    BY <1>3, <1>4
  <1> QED
    BY <1>1, <1>5

-----------------------------------------------------------------------------
(* Paths. *)

Paths == {p \in Seq(Names \cup {Index}) : p # <<>>}

LEMMA PathFacts ==
    ASSUME NEW p \in Paths
    PROVE  /\ Len(p) \in Nat \ {0} /\ DOMAIN p = 1..Len(p)
           /\ p \in Seq(Names \cup {Index})
           /\ \A n \in DOMAIN p : p[n] \in Names \cup {Index}
  BY DEF Paths

LEMMA NamedParts ==
    ASSUME NEW p \in Paths, NEW S \in SUBSET Names
    PROVE  NamesOn(p) \cap S # {} <=> \E n \in DOMAIN p : p[n] \in S
  BY NamesAssumption DEF NamesOn

(* The first and the last name of a path are names on it. *)
LEMMA TopAndLeaf ==
    ASSUME NEW p \in Paths, p[1] # Index
    PROVE  Top(p) \in NamesOn(p) /\ Leaf(p) \in NamesOn(p)
  <1> DEFINE named == {n \in DOMAIN p : p[n] # Index}
             last  == CHOOSE n \in named : \A m \in named : m <= n
  <1>1. Len(p) \in Nat /\ 1 \in DOMAIN p /\ named \in SUBSET (1..Len(p)) /\ 1 \in named
    BY PathFacts
  <1>2. \E n \in named : \A m \in named : m <= n
    <2> HIDE DEF named
    <2>1. named # {}
      BY <1>1
    <2> QED
      BY <1>1, <2>1, Greatest
  <1>3. last \in named
    <2> HIDE DEF named
    <2> QED
      BY <1>2
  <1>4. Leaf(p) = p[last]
    BY DEF Leaf
  <1> HIDE DEF last
  <1>5. Leaf(p) \in NamesOn(p)
    BY <1>3, <1>4 DEF NamesOn
  <1>6. Top(p) \in NamesOn(p)
    BY <1>1 DEF Top, NamesOn
  <1> QED
    BY <1>5, <1>6

(* What is kept of a path is a start of it that ends in the first          *)
(* sensitive name, if there is one.                                        *)
LEMMA KeptFacts ==
    ASSUME NEW p \in Paths
    PROVE  \E n \in 1..Len(p) :
               /\ Kept(p) = SubSeq(p, 1, n)
               /\ \A m \in 1..n - 1 : p[m] \notin Sensitive
               /\ p[n] \notin Sensitive => n = Len(p)
  <1> DEFINE at == {n \in DOMAIN p : p[n] \in Sensitive}
             first == CHOOSE n \in at : \A m \in at : n <= m
  <1>1. Len(p) \in Nat \ {0} /\ DOMAIN p = 1..Len(p) /\ p \in Seq(Names \cup {Index})
    BY PathFacts
  <1>2. CASE at = {}
    <2>1. Kept(p) = p
      BY <1>2 DEF Kept
    <2>2. SubSeq(p, 1, Len(p)) = p
      BY <1>1
    <2>3. \A m \in 1..Len(p) - 1 : p[m] \notin Sensitive
      BY <1>1, <1>2
    <2>4. Len(p) \in 1..Len(p) /\ Kept(p) = SubSeq(p, 1, Len(p))
      BY <1>1, <2>1, <2>2
    <2> QED
      BY <2>3, <2>4
  <1>3. CASE at # {}
    <2>1. Kept(p) = SubSeq(p, 1, first)
      BY <1>3 DEF Kept
    <2>2. at \in SUBSET Nat
      BY <1>1
    <2>3. \E n \in at : \A m \in at : n <= m
      <3> HIDE DEF at
      <3> QED
        BY <1>3, <2>2, Smallest
    <2>4. first \in at /\ \A m \in at : first <= m
      <3> HIDE DEF at
      <3> QED
        BY <2>3
    <2> HIDE DEF first
    <2>5. first \in 1..Len(p) /\ p[first] \in Sensitive
      BY <1>1, <2>4
    <2>6. \A m \in 1..first - 1 : p[m] \notin Sensitive
      <3> SUFFICES ASSUME NEW m \in 1..first - 1, p[m] \in Sensitive PROVE FALSE
        OBVIOUS
      <3>1. m \in at /\ m < first /\ m \in Nat /\ first \in Nat
        BY <1>1, <2>5
      <3> HIDE DEF at
      <3> QED
        BY <2>4, <3>1
    <2> QED
      BY <2>1, <2>5, <2>6
  <1> QED
    BY <1>2, <1>3

LEMMA StartFacts ==
    ASSUME NEW p \in Paths, NEW n \in 1..Len(p)
    PROVE  LET q == SubSeq(p, 1, n)
           IN  /\ q \in Paths /\ Len(q) = n
               /\ \A m \in 1..n : q[m] = p[m]
  <1>1. Len(p) \in Nat \ {0} /\ DOMAIN p = 1..Len(p) /\ p \in Seq(Names \cup {Index})
    BY PathFacts
  <1>2. n \in Nat /\ 1 <= n /\ n <= Len(p)
    BY <1>1
  <1>3. /\ SubSeq(p, 1, n) \in Seq(Names \cup {Index}) /\ Len(SubSeq(p, 1, n)) = n
        /\ \A m \in 1..n : SubSeq(p, 1, n)[m] = p[m]
    BY <1>1, <1>2
  <1>4. SubSeq(p, 1, n) # <<>>
    BY <1>2, <1>3
  <1> QED
    BY <1>3, <1>4 DEF Paths

(* Nothing is left behind the first sensitive name, so to keep what is     *)
(* kept of a path is to keep all of it.                                    *)
LEMMA KeptPath ==
    ASSUME NEW p \in Paths
    PROVE  LET q == Kept(p)
           IN  /\ q \in Paths /\ q[1] = p[1]
               /\ NamesOn(q) \cap Sensitive # {} => q[Len(q)] \in Sensitive
               /\ q[Len(q)] \notin Sensitive => q = p
               /\ Kept(q) = q
  <1> DEFINE q == Kept(p)
  <1>1. PICK n \in 1..Len(p) :
               /\ q = SubSeq(p, 1, n)
               /\ \A m \in 1..n - 1 : p[m] \notin Sensitive
               /\ p[n] \notin Sensitive => n = Len(p)
    BY KeptFacts
  <1> HIDE DEF q
  <1>2. /\ q \in Paths /\ Len(q) = n
        /\ \A m \in 1..n : q[m] = p[m]
    BY <1>1, StartFacts
  <1>3. Len(p) \in Nat \ {0} /\ p \in Seq(Names \cup {Index}) /\ n \in Nat \ {0} /\ n <= Len(p)
    BY PathFacts
  <1>4. \A m \in 1..n : q[m] \in Sensitive => m = n
    BY <1>1, <1>2, <1>3
  <1>5. NamesOn(q) \cap Sensitive # {} => q[Len(q)] \in Sensitive
    <2>1. DOMAIN q = 1..n
      BY <1>2, PathFacts
    <2>2. Sensitive \in SUBSET Names
      BY NamesAssumption
    <2> QED
      BY <1>2, <1>4, <2>1, <2>2, NamedParts
  <1>6. q[Len(q)] \notin Sensitive => q = p
    <2> SUFFICES ASSUME q[Len(q)] \notin Sensitive PROVE q = p
      OBVIOUS
    <2>1. p[n] \notin Sensitive
      BY <1>2, <1>3
    <2>2. n = Len(p)
      BY <1>1, <2>1
    <2>3. SubSeq(p, 1, Len(p)) = p
      BY <1>3
    <2> QED
      BY <1>1, <2>2, <2>3
  <1>7. Kept(q) = q
    <2>1. PICK k \in 1..Len(q) :
                 /\ Kept(q) = SubSeq(q, 1, k)
                 /\ q[k] \notin Sensitive => k = Len(q)
      BY <1>2, KeptFacts
    <2>2. k = n
      BY <1>2, <1>4, <2>1
    <2>3. SubSeq(q, 1, Len(q)) = q
      BY <1>2, PathFacts
    <2> QED
      BY <1>2, <2>1, <2>2, <2>3
  <1>8. q[1] = p[1]
    BY <1>2, <1>3
  <1> QED
    BY <1>2, <1>5, <1>6, <1>7, <1>8 DEF q

-----------------------------------------------------------------------------
(* Values. *)

LEMMA ScalarFacts ==
    ASSUME NEW v \in Scalars
    PROVE  /\ RedactedScalar(v) \in {"redacted", "false", "0", "0.0", "null"}
           /\ RedactedScalar(RedactedScalar(v)) = RedactedScalar(v)
           /\ TypeOf(RedactedScalar(v)) = TypeOf(v)
           /\ v \in Strings <=> RedactedScalar(v) = "redacted"
  BY DEF Scalars, Strings, Labels, HostLabels, RedactedScalar, TypeOf

LEMMA LabelFacts ==
    ASSUME NEW v \in Scalars, NEW hide \in BOOLEAN
    PROVE  LET w == Relabelled(v, hide)
           IN  /\ w \in Scalars
               /\ w \notin {"url", "prose url"}
               /\ hide => w \notin HostLabels
               /\ Relabelled(w, hide) = w
  BY DEF Scalars, Strings, Labels, HostLabels, Relabelled

LEMMA SanitizedFacts ==
    ASSUME NEW v \in Scalars
    PROVE  LET w == Sanitized(v)
           IN  /\ w \in Scalars
               /\ w # "url"
               /\ Sanitized(w) = w
               /\ TypeOf(w) = TypeOf(v)
               /\ v \notin {"url", "prose url", "assignment"} \cup HostLabels => w = v
  BY DEF Scalars, Strings, Labels, HostLabels, Relabelled, Sanitized, TypeOf

-----------------------------------------------------------------------------
(* Redacted documents. *)

LEMMA DocumentPaths ==
    ASSUME NEW d, Document(d), NEW p \in DOMAIN d.leaves
    PROVE  p \in Paths /\ d.leaves[p] \in Scalars /\ (p[1] = Index <=> d.kind = "collection")
  BY DEF Document, Paths

(* A redacted backup is a document and is redacted: nothing changes when   *)
(* it is redacted once more.                                               *)
LEMMA BackupCopies ==
    ASSUME NEW d, Document(d), d.kind = "backup"
    PROVE  LET leaves == RedactBackup(d.leaves)
           IN  /\ DOMAIN leaves = DOMAIN d.leaves
               /\ \A p \in DOMAIN d.leaves :
                     leaves[p] = IF Forced(p) THEN RedactedScalar(d.leaves[p])
                                 ELSE Sanitized(d.leaves[p])
               /\ \A p \in DOMAIN leaves : leaves[p] \in Scalars
               /\ RedactBackup(leaves) = leaves
  <1> DEFINE leaves == RedactBackup(d.leaves)
             P == DOMAIN d.leaves
  <1>1. /\ DOMAIN leaves = P
        /\ \A p \in P : leaves[p] = IF Forced(p) THEN RedactedScalar(d.leaves[p])
                                    ELSE Sanitized(d.leaves[p])
        /\ leaves = [p \in P |-> leaves[p]]
    BY DEF RedactBackup
  <1>2. \A p \in P : d.leaves[p] \in Scalars
    BY DocumentPaths
  <1> HIDE DEF leaves, P
  <1>3. \A p \in P : leaves[p] \in Scalars
    <2>1. {"redacted", "false", "0", "0.0", "null"} \subseteq Scalars
      BY DEF Scalars, Strings
    <2>2. \A v \in Scalars : RedactedScalar(v) \in Scalars /\ Sanitized(v) \in Scalars
      BY <2>1, ScalarFacts, SanitizedFacts
    <2> QED
      BY <1>1, <1>2, <2>2
  <1>4. \A p \in P : leaves[p] = IF Forced(p) THEN RedactedScalar(leaves[p])
                                 ELSE Sanitized(leaves[p])
    BY <1>1, <1>2, ScalarFacts, SanitizedFacts
  <1>5. RedactBackup(leaves) = [p \in P |-> leaves[p]]
    <2>1. RedactBackup(leaves) = [p \in P |-> IF Forced(p) THEN RedactedScalar(leaves[p])
                                              ELSE Sanitized(leaves[p])]
      BY <1>1 DEF RedactBackup
    <2> QED
      BY <1>4, <2>1
  <1> QED
    BY <1>1, <1>3, <1>5 DEF leaves, P

(* The same of a redacted collection, and what it shows. *)
Masked(d, hide, leaves) ==
    /\ DOMAIN leaves = {Kept(p) : p \in DOMAIN d.leaves}
    /\ \A q \in DOMAIN leaves :
          /\ q \in Paths
          /\ q[1] = Index <=> d.kind = "collection"
          /\ NamesOn(q) \cap Sensitive # {} => leaves[q] = "redacted"
          /\ leaves[q] \in Scalars
          /\ leaves[q] \notin {"url", "prose url"}
          /\ hide => leaves[q] \notin HostLabels
    /\ RedactDocument(leaves, hide) = leaves

LEMMA DocumentCopies ==
    ASSUME NEW d, Document(d), NEW hide \in BOOLEAN
    PROVE  Masked(d, hide, RedactDocument(d.leaves, hide))
  <1> DEFINE leaves == RedactDocument(d.leaves, hide)
             P == DOMAIN d.leaves
             Q == {Kept(p) : p \in P}
             value(old, q) == IF q[Len(q)] \in Sensitive THEN "redacted"
                              ELSE Relabelled(old[q], hide)
  <1>1. /\ DOMAIN leaves = Q /\ leaves = [q \in Q |-> leaves[q]]
        /\ \A q \in Q : leaves[q] = value(d.leaves, q)
    BY DEF RedactDocument
  <1>2. \A p \in P : /\ p \in Paths /\ d.leaves[p] \in Scalars
                     /\ p[1] = Index <=> d.kind = "collection"
    BY DocumentPaths
  <1>3. \A p \in P : /\ Kept(p) \in Paths /\ Kept(p)[1] = p[1]
                     /\ NamesOn(Kept(p)) \cap Sensitive # {}
                           => Kept(p)[Len(Kept(p))] \in Sensitive
                     /\ Kept(p)[Len(Kept(p))] \notin Sensitive => Kept(p) = p
                     /\ Kept(Kept(p)) = Kept(p)
    BY <1>2, KeptPath
  <1>4. \A q \in Q : /\ q \in Paths /\ Kept(q) = q
                     /\ q[1] = Index <=> d.kind = "collection"
                     /\ NamesOn(q) \cap Sensitive # {} => q[Len(q)] \in Sensitive
                     /\ q[Len(q)] \notin Sensitive => d.leaves[q] \in Scalars
    <2> SUFFICES ASSUME NEW p \in P
                 PROVE  LET q == Kept(p)
                        IN  /\ q \in Paths /\ Kept(q) = q
                            /\ q[1] = Index <=> d.kind = "collection"
                            /\ NamesOn(q) \cap Sensitive # {} => q[Len(q)] \in Sensitive
                            /\ q[Len(q)] \notin Sensitive => d.leaves[q] \in Scalars
      OBVIOUS
    <2> QED
      BY <1>2, <1>3
  <1>5. "redacted" \in Scalars \ ({"url", "prose url"} \cup HostLabels)
    BY DEF Scalars, Strings, HostLabels
  <1> HIDE DEF leaves, P, Q
  <1>6. \A q \in Q : /\ NamesOn(q) \cap Sensitive # {} => leaves[q] = "redacted"
                     /\ leaves[q] \in Scalars
                     /\ leaves[q] \notin {"url", "prose url"}
                     /\ hide => leaves[q] \notin HostLabels
                     /\ leaves[q] = value(leaves, q)
    <2> SUFFICES ASSUME NEW q \in Q
                 PROVE  /\ NamesOn(q) \cap Sensitive # {} => leaves[q] = "redacted"
                        /\ leaves[q] \in Scalars
                        /\ leaves[q] \notin {"url", "prose url"}
                        /\ hide => leaves[q] \notin HostLabels
                        /\ leaves[q] = value(leaves, q)
      OBVIOUS
    <2>1. CASE q[Len(q)] \in Sensitive
      BY <1>1, <1>5, <2>1
    <2>2. CASE q[Len(q)] \notin Sensitive
      <3>1. leaves[q] = Relabelled(d.leaves[q], hide) /\ d.leaves[q] \in Scalars
        BY <1>1, <1>4, <2>2
      <3>2. NamesOn(q) \cap Sensitive = {}
        BY <1>4, <2>2
      <3> QED
        BY <2>2, <3>1, <3>2, LabelFacts
    <2> QED
      BY <2>1, <2>2
  <1>7. RedactDocument(leaves, hide) = leaves
    <2>1. {Kept(q) : q \in Q} = Q
      BY <1>4
    <2>2. RedactDocument(leaves, hide) = [q \in {Kept(q) : q \in Q} |-> value(leaves, q)]
      BY <1>1 DEF RedactDocument
    <2> HIDE DEF value
    <2>3. RedactDocument(leaves, hide) = [q \in Q |-> value(leaves, q)]
      BY <2>1, <2>2
    <2>4. \A q \in Q : value(leaves, q) = leaves[q]
      BY <1>6
    <2> QED
      BY <1>1, <2>3, <2>4
  <1>8. DOMAIN leaves = {Kept(p) : p \in DOMAIN d.leaves}
    BY <1>1 DEF Q, P
  <1>9. \A q \in DOMAIN leaves : q \in Q
    BY <1>1
  <1>10. Masked(d, hide, leaves)
    BY <1>4, <1>6, <1>7, <1>8, <1>9 DEF Masked
  <1> QED
    BY <1>10 DEF leaves

LEMMA FiniteImage ==
    ASSUME NEW S, IsFiniteSet(S)
    PROVE  IsFiniteSet({Kept(p) : p \in S})
  <1> DEFINE kept == [p \in S |-> Kept(p)]
  <1>1. kept \in Surjection(S, {Kept(p) : p \in S})
    BY DEF Surjection
  <1> HIDE DEF kept
  <1> QED
    BY <1>1, FS_Surjection

-----------------------------------------------------------------------------
(* The inductive invariant: a copy is what its command makes of the        *)
(* source, and a source that is a copy has nothing left to redact.         *)

BackupCopy ==
    /\ copy.by = "redact-backup" /\ copy.kind = "backup" /\ source.kind = "backup"
    /\ copy.leaves = RedactBackup(source.leaves)

DocumentCopy(hide) ==
    /\ copy.by = IF hide THEN "redact --hide-hosts" ELSE "redact"
    /\ copy.kind = "collection" /\ source.kind = "collection"
    /\ copy.leaves = RedactDocument(source.leaves, hide)

CopyMade == copy # NoFile => BackupCopy \/ \E hide \in BOOLEAN : DocumentCopy(hide)

SourceRedacted ==
    /\ by = "redact-backup" => RedactBackup(source.leaves) = source.leaves
    /\ by = "redact --hide-hosts" => RedactDocument(source.leaves, TRUE) = source.leaves

IInv == TypeOK /\ CopyMade /\ SourceRedacted

LEMMA Initially == Init => IInv
  BY DocumentsAssumption DEF Init, IInv, TypeOK, CopyMade, SourceRedacted, Commands

LEMMA CopyIsDocument ==
    ASSUME Document(source)', CopyMade', copy' # NoFile
    PROVE  copy'.by \in Commands /\ Document(copy)'
  <1>1. CASE BackupCopy'
    <2>1. /\ DOMAIN copy'.leaves = DOMAIN source'.leaves
          /\ \A p \in DOMAIN copy'.leaves : copy'.leaves[p] \in Scalars
          /\ copy'.kind = "backup" /\ source'.kind = "backup"
      <3> DEFINE d == source'
      <3>1. Document(d) /\ d.kind = "backup" /\ copy'.leaves = RedactBackup(d.leaves)
        BY <1>1 DEF BackupCopy
      <3> HIDE DEF d
      <3>2. /\ DOMAIN RedactBackup(d.leaves) = DOMAIN d.leaves
            /\ \A p \in DOMAIN RedactBackup(d.leaves) : RedactBackup(d.leaves)[p] \in Scalars
        BY <3>1, BackupCopies
      <3>3. copy'.kind = "backup" /\ source'.kind = "backup"
        BY <1>1 DEF BackupCopy
      <3> QED
        BY <3>1, <3>2, <3>3 DEF d
    <2> QED
      BY <1>1, <2>1 DEF BackupCopy, Commands, Document
  <1>2. ASSUME NEW hide \in BOOLEAN, DocumentCopy(hide)'
        PROVE  copy'.by \in Commands /\ Document(copy)'
    <2> DEFINE d == source'
    <2>1. /\ Document(d) /\ d.kind = "collection" /\ copy'.kind = "collection"
          /\ copy'.leaves = RedactDocument(d.leaves, hide) /\ copy'.by \in Commands
      BY <1>2 DEF DocumentCopy, Commands
    <2> HIDE DEF d
    <2>2. Masked(d, hide, copy'.leaves)
      BY <2>1, DocumentCopies
    <2>3. IsFiniteSet({Kept(p) : p \in DOMAIN d.leaves})
      BY <2>1, FiniteImage DEF Document
    <2> QED
      BY <2>1, <2>2, <2>3 DEF Masked, Document, Paths, Kinds
  <1> QED
    BY <1>1, <1>2 DEF CopyMade

LEMMA SourceOfCopy ==
    ASSUME TypeOK, CopyMade, copy # NoFile
    PROVE  /\ copy.by = "redact-backup" => RedactBackup(copy.leaves) = copy.leaves
           /\ copy.by = "redact --hide-hosts" =>
                 RedactDocument(copy.leaves, TRUE) = copy.leaves
  <1>1. Document(source)
    BY DEF TypeOK
  <1>2. CASE BackupCopy
    <2>1. RedactBackup(copy.leaves) = copy.leaves /\ copy.by = "redact-backup"
      BY <1>1, <1>2, BackupCopies DEF BackupCopy
    <2> QED
      BY <2>1
  <1>3. ASSUME NEW hide \in BOOLEAN, DocumentCopy(hide)
        PROVE  /\ RedactDocument(copy.leaves, hide) = copy.leaves
               /\ copy.by = IF hide THEN "redact --hide-hosts" ELSE "redact"
    <2>1. /\ copy.leaves = RedactDocument(source.leaves, hide)
          /\ copy.by = IF hide THEN "redact --hide-hosts" ELSE "redact"
      BY <1>3 DEF DocumentCopy
    <2>2. Masked(source, hide, copy.leaves)
      BY <1>1, <2>1, DocumentCopies
    <2> QED
      BY <2>1, <2>2 DEF Masked
  <1> QED
    BY <1>2, <1>3 DEF CopyMade

LEMMA FiniteChanges ==
    ASSUME NEW before, NEW after, IsFiniteSet(DOMAIN before)
    PROVE  Changed(before, after) \in Nat
  <1>1. IsFiniteSet({p \in DOMAIN before : before[p] # after[p]})
    BY FS_Subset
  <1> QED
    BY <1>1, FS_CardinalityType DEF Changed

LEMMA Invariance == IInv /\ [Next]_vars => IInv'
  <1> SUFFICES ASSUME IInv, [Next]_vars PROVE IInv'
    OBVIOUS
  <1> USE DEF IInv
  <1>1. CASE UNCHANGED vars
    BY <1>1 DEF vars, TypeOK, CopyMade, BackupCopy, DocumentCopy, SourceRedacted, Document
  <1>2. CASE ValidateBackup
    BY <1>2 DEF ValidateBackup, TypeOK, CopyMade, BackupCopy, DocumentCopy, SourceRedacted,
                Document
  <1>3. CASE BackupRefused
    BY <1>3 DEF BackupRefused, TypeOK, CopyMade, BackupCopy, DocumentCopy, SourceRedacted,
                Document
  <1>4. CASE DocumentRefused
    BY <1>4 DEF DocumentRefused, TypeOK, CopyMade, BackupCopy, DocumentCopy, SourceRedacted,
                Document
  <1>5. CASE BackupRedacted
    <2>1. source.kind = "backup"
      <3>1. source.kind \in Kinds
        BY DEF TypeOK, Document
      <3>2. Check(source) \cap {"invalid_root", "schema", "template_artifact"} = {}
        BY <1>5 DEF BackupRedacted, Errors
      <3>3. source.kind = "collection" => "invalid_root" \in Check(source)
        BY DEF Check
      <3>4. source.kind = "malformed" => "schema" \in Check(source)
        BY DEF Check
      <3>5. source.kind = "template" => "template_artifact" \in Check(source)
        BY DEF Check
      <3> QED
        BY <3>1, <3>2, <3>3, <3>4, <3>5 DEF Kinds
    <2>2. CopyMade' /\ SourceRedacted' /\ Document(source)'
      BY <1>5, <2>1 DEF BackupRedacted, CopyMade, BackupCopy, SourceRedacted, TypeOK, Document
    <2>3. changed' \in Nat
      BY <1>5, FiniteChanges DEF BackupRedacted, TypeOK, Document
    <2>4. exit' \in {0, 2} /\ by' \in Commands \cup {"user"}
      BY <1>5 DEF BackupRedacted, TypeOK
    <2> QED
      BY <2>2, <2>3, <2>4, CopyIsDocument DEF TypeOK
  <1>6. ASSUME NEW hide \in BOOLEAN, DocumentRedacted(hide) PROVE IInv'
    <2>1. DocumentCopy(hide)'
      BY <1>6 DEF DocumentRedacted, DocumentCopy
    <2>2. CopyMade' /\ SourceRedacted' /\ Document(source)'
      BY <1>6, <2>1 DEF DocumentRedacted, CopyMade, SourceRedacted, TypeOK, Document
    <2>3. changed' \in Nat /\ exit' \in {0, 2} /\ by' \in Commands \cup {"user"}
      BY <1>6 DEF DocumentRedacted, TypeOK
    <2> QED
      BY <2>2, <2>3, CopyIsDocument DEF TypeOK
  <1>7. CASE TakeCopy
    <2>1. copy' = NoFile /\ source'.kind = copy.kind /\ source'.leaves = copy.leaves
          /\ by' = copy.by /\ UNCHANGED <<changed, exit>>
      BY <1>7 DEF TakeCopy
    <2>2. TypeOK'
      BY <1>7, <2>1 DEF TakeCopy, TypeOK, Document
    <2>3. SourceRedacted'
      BY <1>7, <2>1, SourceOfCopy DEF SourceRedacted, TakeCopy
    <2> QED
      BY <2>1, <2>2, <2>3 DEF CopyMade
  <1> QED
    BY <1>1, <1>2, <1>3, <1>4, <1>5, <1>6, <1>7 DEF Next

(* Every document is one of its kind, copies are made by a command, and    *)
(* both keep their paths and JSON types.                                   *)
THEOREM RedactionTypeCorrect == Spec => []TypeOK
  <1>1. IInv => TypeOK
    BY DEF IInv
  <1> QED
    BY Initially, Invariance, <1>1, PTL DEF Spec

-----------------------------------------------------------------------------
(* What the copies show. *)

(* A redacted backup keeps object keys, array order and JSON scalar types, *)
(* and all that neither a name on its path nor a regular expression makes  *)
(* suspect.                                                                *)
THEOREM ShapesAreKept == Spec => []ShapeKept
  <1>1. IInv => ShapeKept
    <2> SUFFICES ASSUME IInv, copy # NoFile, copy.by = "redact-backup"
                 PROVE  /\ DOMAIN copy.leaves = DOMAIN source.leaves
                        /\ \A p \in DOMAIN source.leaves :
                              /\ TypeOf(copy.leaves[p]) = TypeOf(source.leaves[p])
                              /\ (/\ NamesOn(p) \cap UNION {TopSecrets, TopText, Suspicious,
                                                       FreeText, ProxySecrets, {"options"}} = {}
                                  /\ source.leaves[p] \notin
                                         {"url", "prose url", "assignment"} \cup HostLabels)
                                   => copy.leaves[p] = source.leaves[p]
      BY DEF ShapeKept
    <2>1. BackupCopy /\ Document(source)
      BY DEF IInv, TypeOK, CopyMade, DocumentCopy
    <2>2. /\ DOMAIN copy.leaves = DOMAIN source.leaves
          /\ \A p \in DOMAIN source.leaves :
                copy.leaves[p] = IF Forced(p) THEN RedactedScalar(source.leaves[p])
                                 ELSE Sanitized(source.leaves[p])
      BY <2>1, BackupCopies DEF BackupCopy
    <2>3. ASSUME NEW p \in DOMAIN source.leaves
          PROVE  p \in Paths /\ p[1] # Index /\ source.leaves[p] \in Scalars
      BY <2>1, DocumentPaths DEF BackupCopy
    <2>4. ASSUME NEW p \in DOMAIN source.leaves
          PROVE  TypeOf(copy.leaves[p]) = TypeOf(source.leaves[p])
      BY <2>2, <2>3, ScalarFacts, SanitizedFacts
    <2>5. ASSUME NEW p \in DOMAIN source.leaves,
                 NamesOn(p) \cap UNION {TopSecrets, TopText, Suspicious, FreeText,
                                         ProxySecrets, {"options"}} = {},
                 source.leaves[p] \notin {"url", "prose url", "assignment"} \cup HostLabels
          PROVE  copy.leaves[p] = source.leaves[p]
      <3>1. Top(p) \in NamesOn(p)
        BY <2>3, TopAndLeaf
      <3>2. \A name \in NamesOn(p) :
               /\ name \notin TopSecrets /\ name \notin TopText /\ name \notin Suspicious
               /\ name \notin FreeText /\ name \notin ProxySecrets /\ name # "options"
        BY <2>5
      <3>3. ~Forced(p)
        BY <3>1, <3>2 DEF Forced, ProxySecrets
      <3> QED
        BY <2>2, <2>3, <2>5, <3>3, SanitizedFacts
    <2> QED
      BY <2>2, <2>4, <2>5
  <1> QED
    BY Initially, Invariance, <1>1, PTL DEF Spec

(* The check and the redaction decide by different rules which leaves are  *)
(* sensitive; whatever string the check counts, the redaction has masked.  *)
THEOREM NothingIsLeftToMask == Spec => []NothingLeftToMask
  <1>1. IInv => NothingLeftToMask
    <2> SUFFICES ASSUME IInv, copy # NoFile, copy.by = "redact-backup",
                        NEW p \in DOMAIN copy.leaves
                 PROVE  LET v == copy.leaves[p]
                        IN  /\ Credential(p, v) => v \in {"false", "0", "0.0"}
                            /\ UrlToReview(v) => v = "scheme"
                            /\ ~TextToReview(p, v)
      BY DEF NothingLeftToMask
    <2>1. BackupCopy /\ Document(source)
      BY DEF IInv, TypeOK, CopyMade, DocumentCopy
    <2>2. /\ p \in DOMAIN source.leaves
          /\ copy.leaves[p] = IF Forced(p) THEN RedactedScalar(source.leaves[p])
                              ELSE Sanitized(source.leaves[p])
      BY <2>1, BackupCopies DEF BackupCopy
    <2>3. p \in Paths /\ p[1] # Index /\ source.leaves[p] \in Scalars
      BY <2>1, <2>2, DocumentPaths DEF BackupCopy
    <2>4. Top(p) \in NamesOn(p) /\ Leaf(p) \in NamesOn(p)
      BY <2>3, TopAndLeaf
    <2>5. CASE Forced(p)
      <3>1. copy.leaves[p] \in {"redacted", "false", "0", "0.0", "null"}
        BY <2>2, <2>3, <2>5, ScalarFacts
      <3> QED
        BY <3>1 DEF Credential, HasValue, SafelyRedacted, UrlToReview, TextToReview, Strings,
                    Labels, HostLabels
    <2>6. CASE ~Forced(p)
      <3>1. copy.leaves[p] # "url"
        BY <2>2, <2>3, <2>6, SanitizedFacts
      <3>2. ~Credential(p, copy.leaves[p])
        BY <2>4, <2>6 DEF Forced, Credential
      <3>3. ~TextToReview(p, copy.leaves[p])
        BY <2>4, <2>6 DEF Forced, TextToReview
      <3> QED
        BY <3>1, <3>2, <3>3 DEF UrlToReview
    <2> QED
      BY <2>5, <2>6
  <1> QED
    BY Initially, Invariance, <1>1, PTL DEF Spec

(* A copy of a collection shows no value under a sensitive name and no URL *)
(* but as a label, without its host if that was asked for, and all other   *)
(* members and elements are still there.                                   *)
THEOREM CollectionsAreRedacted == Spec => []CollectionRedacted
  <1>1. IInv => CollectionRedacted
    <2> SUFFICES ASSUME IInv, copy # NoFile, copy.kind = "collection"
                 PROVE  CollectionRedacted
      BY DEF CollectionRedacted
    <2>1. PICK hide \in BOOLEAN : DocumentCopy(hide)
      BY DEF IInv, CopyMade, BackupCopy
    <2>2. Document(source) /\ copy.leaves = RedactDocument(source.leaves, hide)
      BY <2>1 DEF IInv, TypeOK, DocumentCopy
    <2>3. Masked(source, hide, copy.leaves)
      BY <2>2, DocumentCopies
    <2>4. copy.by = "redact --hide-hosts" => hide
      BY <2>1 DEF DocumentCopy
    <2>5. ASSUME NEW p \in DOMAIN source.leaves
          PROVE  \E n \in DOMAIN p :
                    /\ SubSeq(p, 1, n) \in DOMAIN copy.leaves
                    /\ NamesOn(p) \cap Sensitive = {} => n = Len(p)
      <3>1. p \in Paths /\ Sensitive \in SUBSET Names
        BY <2>2, DocumentPaths, NamesAssumption
      <3>2. PICK n \in 1..Len(p) : /\ Kept(p) = SubSeq(p, 1, n)
                                   /\ p[n] \notin Sensitive => n = Len(p)
        BY <3>1, KeptFacts
      <3>3. n \in DOMAIN p
        BY <3>1, <3>2, PathFacts
      <3>4. NamesOn(p) \cap Sensitive = {} => p[n] \notin Sensitive
        BY <3>1, <3>3, NamedParts
      <3> QED
        BY <2>3, <3>2, <3>3, <3>4 DEF Masked
    <2> QED
      BY <2>3, <2>4, <2>5 DEF CollectionRedacted, Masked
  <1> QED
    BY Initially, Invariance, <1>1, PTL DEF Spec

(* What was redacted stays as it is when it is redacted again by the same  *)
(* command: masks and labels are not taken for secrets or URLs.            *)
THEOREM RedactingTwiceIsRedactingOnce == Spec => RedactedOnce
  <1> DEFINE Step == (/\ copy = NoFile /\ copy' # NoFile
                      /\ by \in {"redact-backup", "redact --hide-hosts"} /\ copy'.by = by)
                        => /\ copy'.leaves = source.leaves
                           /\ by = "redact-backup" => changed' = 0
  <1>1. IInv /\ [Next]_vars => [Step]_vars
    <2> SUFFICES ASSUME IInv, Next, copy = NoFile, copy' # NoFile,
                        by \in {"redact-backup", "redact --hide-hosts"}, copy'.by = by
                 PROVE  /\ copy'.leaves = source.leaves
                        /\ by = "redact-backup" => changed' = 0
      BY DEF vars
    <2>1. CASE BackupRedacted
      <3>1. /\ copy'.by = "redact-backup" /\ copy'.leaves = RedactBackup(source.leaves)
            /\ changed' = Changed(source.leaves, copy'.leaves)
        BY <2>1 DEF BackupRedacted
      <3>2. copy'.leaves = source.leaves
        BY <3>1 DEF IInv, SourceRedacted
      <3>3. Changed(source.leaves, source.leaves) = 0
        <4>1. {p \in DOMAIN source.leaves : source.leaves[p] # source.leaves[p]} = {}
          OBVIOUS
        <4> QED
          BY <4>1, FS_EmptySet DEF Changed
      <3> QED
        BY <3>1, <3>2, <3>3
    <2>2. ASSUME NEW hide \in BOOLEAN, DocumentRedacted(hide)
          PROVE  copy'.leaves = source.leaves /\ by # "redact-backup"
      <3>1. /\ copy'.by = IF hide THEN "redact --hide-hosts" ELSE "redact"
            /\ copy'.leaves = RedactDocument(source.leaves, hide)
        BY <2>2 DEF DocumentRedacted
      <3>2. hide = TRUE /\ by = "redact --hide-hosts"
        BY <3>1
      <3> QED
        BY <3>1, <3>2 DEF IInv, SourceRedacted
    <2>3. ~ValidateBackup /\ ~BackupRefused /\ ~DocumentRefused /\ ~TakeCopy
      BY DEF ValidateBackup, BackupRefused, DocumentRefused, TakeCopy
    <2> QED
      BY <2>1, <2>2, <2>3 DEF Next
  <1>2. Spec => []IInv
    BY Initially, Invariance, PTL DEF Spec
  <1>3. Spec => [][Step]_vars
    BY <1>1, <1>2, PTL DEF Spec
  <1> QED
    BY <1>3, PTL DEF RedactedOnce
=============================================================================
