-------------------------- MODULE ChangePlanProofs --------------------------
(* Proofs about the operators of ChangePlan: the placement, the plans, the *)
(* target construction and starter profiles, for all collections,          *)
(* profiles, promotions, keys and secrets.                                 *)
EXTENDS ChangePlan, FiniteSetTheorems, TLAPS

(* Ranks number a finite set of naturals. *)
LEMMA RankType ==
    ASSUME NEW S \in SUBSET Nat, IsFiniteSet(S), NEW x \in S
    PROVE  Rank(S, x) \in 1..Cardinality(S)
  <1> DEFINE below == {y \in S : y <= x}
  <1>1. IsFiniteSet(below) /\ Cardinality(below) <= Cardinality(S)
    BY FS_Subset
  <1>2. x \in below
    OBVIOUS
  <1>3. Cardinality(below) # 0
    BY <1>1, <1>2, FS_EmptySet
  <1>4. Cardinality(below) \in Nat /\ Cardinality(S) \in Nat
    BY <1>1, FS_CardinalityType
  <1> QED
    BY <1>1, <1>3, <1>4 DEF Rank

LEMMA RankGrows ==
    ASSUME NEW S \in SUBSET Nat, IsFiniteSet(S), NEW x \in S, NEW y \in S, x < y
    PROVE  Rank(S, x) < Rank(S, y)
  <1> DEFINE toX == {z \in S : z <= x}
             toY == {z \in S : z <= y}
  <1>0. x \in Nat /\ y \in Nat
    OBVIOUS
  <1>1. toX \subseteq toY /\ y \in toY /\ y \notin toX
    <2>1. \A z \in S : z \in Nat /\ (z <= x => z <= y)
      BY <1>0
    <2>2. y <= y /\ ~(y <= x)
      BY <1>0
    <2>3. y \in toY /\ y \notin toX
      BY <2>2, Zenon
    <2> QED
      BY <2>1, <2>3, Zenon
  <1>2. IsFiniteSet(toX) /\ IsFiniteSet(toY)
    BY FS_Subset
  <1>3. Cardinality(toX) \in Nat /\ Cardinality(toY) \in Nat
    BY <1>2, FS_CardinalityType
  <1>4. Cardinality(toX) <= Cardinality(toY) /\ Cardinality(toX) # Cardinality(toY)
    <2> HIDE DEF toX, toY
    <2> QED
      BY <1>1, <1>2, FS_Subset
  <1> QED
    BY <1>3, <1>4 DEF Rank

LEMMA RankInjective ==
    ASSUME NEW S \in SUBSET Nat, IsFiniteSet(S), NEW x \in S, NEW y \in S,
           Rank(S, x) = Rank(S, y)
    PROVE  x = y
  <1>1. Rank(S, x) \in Nat /\ Cardinality(S) \in Nat
    BY RankType, FS_CardinalityType
  <1>2. CASE x < y
    BY <1>1, <1>2, RankGrows
  <1>3. CASE y < x
    BY <1>1, <1>3, RankGrows
  <1> QED
    BY <1>2, <1>3

(* The n-th smallest element is the one of rank n. *)
LEMMA NthOfRank ==
    ASSUME NEW S \in SUBSET Nat, IsFiniteSet(S), NEW n \in 1..Cardinality(S)
    PROVE  Nth(S, n) \in S /\ Rank(S, Nth(S, n)) = n
  <1> DEFINE rank == [x \in S |-> Rank(S, x)]
             N == Cardinality(S)
  <1>1. N \in Nat /\ IsFiniteSet(1..N) /\ Cardinality(1..N) = N
    BY FS_CardinalityType, FS_Interval
  <1>2. rank \in Injection(S, 1..N)
    <2>1. \A x \in S : Rank(S, x) \in 1..N
      BY RankType
    <2>2. \A x, y \in S : Rank(S, x) = Rank(S, y) => x = y
      BY RankInjective
    <2> QED
      BY <2>1, <2>2 DEF Injection, IsInjective
  <1>3. rank \in Surjection(S, 1..N)
    <2> HIDE DEF rank
    <2> QED
      BY <1>1, <1>2, FS_Injection
  <1>4. \E x \in S : Rank(S, x) = n
    BY <1>3 DEF Surjection
  <1> QED
    BY <1>4 DEF Nth

LEMMA RankOfNth ==
    ASSUME NEW S \in SUBSET Nat, IsFiniteSet(S), NEW x \in S
    PROVE  Nth(S, Rank(S, x)) = x
  <1>1. Rank(S, x) \in 1..Cardinality(S)
    BY RankType
  <1> DEFINE y == Nth(S, Rank(S, x))
  <1>2. y \in S /\ Rank(S, y) = Rank(S, x)
    BY <1>1, NthOfRank
  <1> HIDE DEF y
  <1>3. y = x
    BY <1>2, RankInjective
  <1> QED
    BY <1>3 DEF y

LEMMA RankInterval ==
    ASSUME NEW n \in Nat, NEW x \in 1..n
    PROVE  Rank(1..n, x) = x
  <1>1. {y \in 1..n : y <= x} = 1..x
    OBVIOUS
  <1>2. Cardinality(1..x) = x
    BY FS_Interval
  <1> QED
    BY <1>1, <1>2 DEF Rank

LEMMA NthInterval ==
    ASSUME NEW n \in Nat, NEW x \in 1..n
    PROVE  Nth(1..n, x) = x
  <1>1. IsFiniteSet(1..n) /\ 1..n \in SUBSET Nat
    BY FS_Interval
  <1> QED
    BY <1>1, RankInterval, RankOfNth

-----------------------------------------------------------------------------
(* The placement of a plan's items. *)

LEMMA AtMostOne ==
    ASSUME NEW S, IsFiniteSet(S), Cardinality(S) <= 1, NEW x \in S, NEW y \in S
    PROVE  x = y
  <1>1. Cardinality(S) \in Nat /\ Cardinality(S) # 0
    BY FS_CardinalityType, FS_EmptySet
  <1>2. \E z : S = {z}
    BY <1>1, FS_Singleton
  <1> QED
    BY <1>2

LEMMA SubsetDifference ==
    ASSUME NEW S, IsFiniteSet(S), NEW T \in SUBSET S
    PROVE  IsFiniteSet(S \ T) /\ Cardinality(S \ T) = Cardinality(S) - Cardinality(T)
  <1>1. S \cap T = T
    OBVIOUS
  <1>2. IsFiniteSet(S \ T) /\ Cardinality(S \ T) = Cardinality(S) - Cardinality(S \cap T)
    BY FS_Difference
  <1> QED
    BY <1>1, <1>2

LEMMA DomainFacts ==
    ASSUME NEW P \in Profiles, NEW c \in Seq(Descriptors)
    PROVE  /\ Len(c) \in Nat /\ DOMAIN c = 1..Len(c) /\ IsFiniteSet(DOMAIN c)
           /\ \A i \in DOMAIN c : c[i] \in Descriptors
           /\ Len(P.addons) \in Nat /\ DOMAIN P.addons = 1..Len(P.addons)
           /\ IsFiniteSet(DOMAIN P.addons)
           /\ \A a \in DOMAIN P.addons : P.addons[a] \in AddonSpecs
  <1>1. P.addons \in Seq(AddonSpecs)
    BY DEF Profiles
  <1>2. /\ Len(c) \in Nat /\ DOMAIN c = 1..Len(c)
        /\ \A i \in DOMAIN c : c[i] \in Descriptors
    OBVIOUS
  <1>3. /\ Len(P.addons) \in Nat /\ DOMAIN P.addons = 1..Len(P.addons)
        /\ \A a \in DOMAIN P.addons : P.addons[a] \in AddonSpecs
    BY <1>1
  <1>4. \A n \in Nat : IsFiniteSet(1..n)
    BY FS_Interval
  <1> QED
    BY <1>2, <1>3, <1>4

LEMMA ItemsFacts ==
    ASSUME NEW P \in Profiles, NEW c \in Seq(Descriptors), NEW k
    PROVE  /\ Items(P, c, k) \in SUBSET Nat
           /\ IsFiniteSet(Items(P, c, k))
           /\ Cardinality(Items(P, c, k)) \in Nat
           /\ \A x \in Items(P, c, k) : x <= Len(c) <=> x \in DOMAIN c
           /\ \A a \in Added(P, c, k) : Len(c) + a \in Items(P, c, k) \ DOMAIN c
  <1>1. /\ Len(c) \in Nat /\ DOMAIN c = 1..Len(c)
        /\ Len(P.addons) \in Nat /\ DOMAIN P.addons = 1..Len(P.addons)
    BY DomainFacts
  <1>2. Added(P, c, k) \subseteq 1..Len(P.addons)
    BY <1>1 DEF Added
  <1>3. Items(P, c, k) \subseteq 1..(Len(c) + Len(P.addons))
    <2>1. \A a \in Added(P, c, k) : Len(c) + a \in 1..(Len(c) + Len(P.addons))
      BY <1>1, <1>2
    <2>2. DOMAIN c \subseteq 1..(Len(c) + Len(P.addons))
      BY <1>1
    <2> QED
      BY <2>1, <2>2 DEF Items
  <1>4. Items(P, c, k) \in SUBSET Nat
    BY <1>1, <1>3
  <1>5. IsFiniteSet(Items(P, c, k))
    <2>1. IsFiniteSet(1..(Len(c) + Len(P.addons)))
      BY <1>1, FS_Interval
    <2> QED
      BY <1>3, <2>1, FS_Subset
  <1>6. Cardinality(Items(P, c, k)) \in Nat
    BY <1>5, FS_CardinalityType
  <1>7. \A x \in Items(P, c, k) : x <= Len(c) <=> x \in DOMAIN c
    BY <1>1, <1>3
  <1>8. \A a \in Added(P, c, k) : Len(c) + a \in Items(P, c, k)
    BY DEF Items
  <1>9. \A a \in Added(P, c, k) : Len(c) + a \notin DOMAIN c
    BY <1>1, <1>2
  <1> QED
    BY <1>4, <1>5, <1>6, <1>7, <1>8, <1>9

(* No descriptor of an unambiguous profile has two entries, hence no item  *)
(* has two positions.                                                      *)
LEMMA ClaimantUnique ==
    ASSUME NEW P \in Profiles, NEW c \in Seq(Descriptors), NEW k, Unambiguous(P, c, k),
           NEW i \in DOMAIN c, NEW a \in Claimants(P, c, k, i), NEW b \in Claimants(P, c, k, i)
    PROVE  a = b
  <1>1. Claimants(P, c, k, i) \in SUBSET DOMAIN P.addons
    BY DEF Claimants
  <1>2. IsFiniteSet(Claimants(P, c, k, i))
    BY <1>1, DomainFacts, FS_Subset
  <1> QED
    BY <1>2, AtMostOne DEF Unambiguous

LEMMA CandidateUnique ==
    ASSUME NEW P \in Profiles, NEW c \in Seq(Descriptors), NEW k, Unambiguous(P, c, k),
           NEW a \in DOMAIN P.addons,
           NEW i \in Candidates(P.addons[a], c, k), NEW j \in Candidates(P.addons[a], c, k)
    PROVE  i = j
  <1>1. Candidates(P.addons[a], c, k) \in SUBSET DOMAIN c
    BY DEF Candidates
  <1>2. IsFiniteSet(Candidates(P.addons[a], c, k))
    BY <1>1, DomainFacts, FS_Subset
  <1> QED
    BY <1>2, AtMostOne DEF Unambiguous

LEMMA AnchorUnique ==
    ASSUME NEW P \in Profiles, NEW c \in Seq(Descriptors), NEW k, Unambiguous(P, c, k),
           NEW x \in Items(P, c, k), NEW p \in Anchor(P, c, k, x), NEW q \in Anchor(P, c, k, x)
    PROVE  p = q
  <1>1. \A a, b \in Owner(P, c, k, x) : a = b
    <2>1. CASE x > Len(c)
      BY <2>1 DEF Owner
    <2>2. CASE ~(x > Len(c))
      <3>1. x \in DOMAIN c
        BY <2>2, ItemsFacts, DomainFacts
      <3> QED
        BY <2>2, <3>1, ClaimantUnique DEF Owner
    <2> QED
      BY <2>1, <2>2
  <1> QED
    BY <1>1 DEF Anchor

(* The anchored items are in their slots, the others in the free ones, in  *)
(* order.                                                                  *)
LEMMA FinalValues ==
    ASSUME NEW P \in Profiles, NEW c \in Seq(Descriptors), NEW k,
           Unambiguous(P, c, k), Placeable(P, c, k)
    PROVE  LET items == Items(P, c, k)
               free  == (1..Cardinality(items)) \ AnchorSlots(P, c, k)
               rest  == {x \in items : Anchor(P, c, k, x) = {}}
               final == FinalIndex(P, c, k)
           IN  /\ DOMAIN final = items /\ final = [x \in items |-> final[x]]
               /\ rest \in SUBSET Nat /\ IsFiniteSet(rest)
               /\ free \in SUBSET Nat /\ IsFiniteSet(free)
               /\ \A x \in rest : final[x] \in free /\ Rank(free, final[x]) = Rank(rest, x)
               /\ \A x \in items \ rest : final[x] \in Anchor(P, c, k, x)
  <1> DEFINE items == Items(P, c, k)
             N     == Cardinality(items)
             A(x)  == Anchor(P, c, k, x)
             slots == AnchorSlots(P, c, k)
             free  == (1..N) \ slots
             rest  == {x \in items : A(x) = {}}
             final == FinalIndex(P, c, k)
  <1>1. items \in SUBSET Nat /\ IsFiniteSet(items) /\ N \in Nat
    BY ItemsFacts
  <1>2. /\ \A x, y \in items : x # y => A(x) \cap A(y) = {}
        /\ slots \subseteq 1..N
        /\ \A p : p \in slots <=> \E x \in items : p \in A(x)
    BY DEF Placeable, AnchorSlots
  <1>3. \A x \in items : \A p, q \in A(x) : p = q
    BY AnchorUnique
  <1>4. final = [x \in items |-> IF x \in rest THEN Nth(free, Rank(rest, x))
                                 ELSE CHOOSE p \in A(x) : TRUE]
    BY DEF FinalIndex
  <1> HIDE DEF A, items, slots, final
  <1>5. IsFiniteSet(1..N) /\ Cardinality(1..N) = N
    BY <1>1, FS_Interval
  <1>6. rest \in SUBSET Nat /\ IsFiniteSet(rest) /\ Cardinality(rest) \in Nat
    BY <1>1, FS_Subset, FS_CardinalityType
  <1>7. free \in SUBSET Nat /\ IsFiniteSet(free) /\ Cardinality(free) \in Nat
    BY <1>1, <1>5, FS_Subset, FS_CardinalityType
  (* As many items are anchored as there are slots taken. *)
  <1>8. Cardinality(rest) <= Cardinality(free)
    <2> DEFINE anchored == items \ rest
               f == [x \in anchored |-> CHOOSE p \in A(x) : TRUE]
    <2>1. IsFiniteSet(anchored) /\ Cardinality(anchored) = N - Cardinality(rest)
      <3>1. rest \in SUBSET items
        OBVIOUS
      <3> HIDE DEF rest
      <3> QED
        BY <3>1, <1>1, SubsetDifference
    <2>2. f \in Surjection(anchored, slots)
      <3>1. \A x \in anchored : f[x] \in A(x) /\ f[x] \in slots
        BY <1>2
      <3>2. \A p \in slots : \E x \in anchored : f[x] = p
        BY <1>2, <1>3, <3>1
      <3> QED
        BY <3>1, <3>2 DEF Surjection
    <2>3. IsFiniteSet(slots) /\ Cardinality(slots) <= Cardinality(anchored)
      <3> HIDE DEF f, anchored
      <3> QED
        BY <2>1, <2>2, FS_Surjection
    <2>4. Cardinality(free) = N - Cardinality(slots)
      BY <1>2, <1>5, SubsetDifference
    <2>5. Cardinality(slots) \in Nat
      BY <2>3, FS_CardinalityType
    <2> HIDE DEF N, free, rest, anchored
    <2> QED
      BY <2>1, <2>3, <2>4, <2>5, <1>1, <1>6, <1>7
  <1>9. \A x \in rest : Rank(rest, x) \in 1..Cardinality(free)
    <2> SUFFICES ASSUME NEW x \in rest PROVE Rank(rest, x) \in 1..Cardinality(free)
      OBVIOUS
    <2>1. Rank(rest, x) \in 1..Cardinality(rest)
      BY <1>6, RankType
    <2> HIDE DEF rest, free
    <2> QED
      BY <2>1, <1>6, <1>7, <1>8
  <1>10. \A x \in rest : /\ final[x] \in free
                         /\ Rank(free, final[x]) = Rank(rest, x)
    BY <1>4, <1>7, <1>9, NthOfRank
  <1>11. \A x \in items \ rest : final[x] \in A(x) /\ final[x] \in slots
    BY <1>2, <1>4
  <1>12. DOMAIN final = items /\ final = [x \in items |-> final[x]]
    BY <1>4
  <1> QED
    BY <1>6, <1>7, <1>10, <1>11, <1>12 DEF A, items, slots, final

(* The items of a plan are placed one by one in the slots 1 to their       *)
(* number.                                                                 *)
THEOREM FinalBijection ==
    ASSUME NEW P \in Profiles, NEW c \in Seq(Descriptors), NEW k,
           Unambiguous(P, c, k), Placeable(P, c, k)
    PROVE  FinalIndex(P, c, k)
               \in Bijection(Items(P, c, k), 1..Cardinality(Items(P, c, k)))
  <1> DEFINE items == Items(P, c, k)
             N     == Cardinality(items)
             A(x)  == Anchor(P, c, k, x)
             slots == AnchorSlots(P, c, k)
             free  == (1..N) \ slots
             rest  == {x \in items : A(x) = {}}
             final == FinalIndex(P, c, k)
  <1>1. items \in SUBSET Nat /\ IsFiniteSet(items) /\ N \in Nat
    BY ItemsFacts
  <1>2. /\ \A x, y \in items : x # y => A(x) \cap A(y) = {}
        /\ slots \subseteq 1..N
        /\ \A p : p \in slots <=> \E x \in items : p \in A(x)
    BY DEF Placeable, AnchorSlots
  <1>5. IsFiniteSet(1..N) /\ Cardinality(1..N) = N
    BY <1>1, FS_Interval
  <1>6. /\ DOMAIN final = items /\ final = [x \in items |-> final[x]]
        /\ rest \in SUBSET Nat /\ IsFiniteSet(rest)
        /\ \A x \in rest : final[x] \in free /\ Rank(free, final[x]) = Rank(rest, x)
        /\ \A x \in items \ rest : final[x] \in A(x)
    BY FinalValues
  <1> HIDE DEF A, items, slots, final
  <1>10. \A x \in rest : final[x] \in free /\ Rank(free, final[x]) = Rank(rest, x)
    BY <1>6
  <1>11. \A x \in items \ rest : final[x] \in A(x) /\ final[x] \in slots
    BY <1>2, <1>6
  <1>12. final \in [items -> 1..N]
    BY <1>2, <1>6, <1>10, <1>11
  <1>13. \A x, y \in items : final[x] = final[y] => x = y
    <2> SUFFICES ASSUME NEW x \in items, NEW y \in items, final[x] = final[y]
                 PROVE  x = y
      OBVIOUS
    <2>1. CASE x \in rest /\ y \in rest
      <3>1. Rank(rest, x) = Rank(rest, y)
        BY <2>1, <1>10
      <3> QED
        BY <2>1, <3>1, <1>6, RankInjective
    <2>2. CASE x \notin rest /\ y \notin rest
      BY <2>2, <1>2, <1>11
    <2>3. CASE ~(x \in rest <=> y \in rest)
      BY <2>3, <1>10, <1>11
    <2> QED
      BY <2>1, <2>2, <2>3
  <1>14. final \in Injection(items, 1..N)
    BY <1>12, <1>13 DEF Injection, IsInjective
  <1>15. final \in Surjection(items, 1..N)
    <2> HIDE DEF N
    <2> QED
      BY <1>1, <1>5, <1>14, FS_Injection DEF N
  <1> QED
    BY <1>14, <1>15 DEF Bijection, items, final

(* Items without a position keep their order. *)
LEMMA FinalOrder ==
    ASSUME NEW P \in Profiles, NEW c \in Seq(Descriptors), NEW k,
           Unambiguous(P, c, k), Placeable(P, c, k),
           NEW x \in Items(P, c, k), NEW y \in Items(P, c, k), x < y,
           Anchor(P, c, k, x) = {}, Anchor(P, c, k, y) = {}
    PROVE  FinalIndex(P, c, k)[x] < FinalIndex(P, c, k)[y]
  <1> DEFINE items == Items(P, c, k)
             free  == (1..Cardinality(items)) \ AnchorSlots(P, c, k)
             rest  == {z \in items : Anchor(P, c, k, z) = {}}
             final == FinalIndex(P, c, k)
  <1>1. /\ rest \in SUBSET Nat /\ IsFiniteSet(rest)
        /\ free \in SUBSET Nat /\ IsFiniteSet(free)
        /\ \A z \in rest : final[z] \in free /\ Rank(free, final[z]) = Rank(rest, z)
    BY FinalValues
  <1>2. x \in rest /\ y \in rest
    OBVIOUS
  <1> HIDE DEF free, rest, final
  <1>3. Rank(rest, x) < Rank(rest, y)
    BY <1>1, <1>2, RankGrows
  <1>4. Rank(rest, x) \in Nat /\ Rank(rest, y) \in Nat
    <2>1. Cardinality(rest) \in Nat
      BY <1>1, FS_CardinalityType
    <2> QED
      BY <1>1, <1>2, <2>1, RankType
  <1>5. final[x] \in free /\ final[y] \in free /\ final[x] \in Nat /\ final[y] \in Nat
    BY <1>1, <1>2
  <1>6. Rank(free, final[x]) < Rank(free, final[y])
    BY <1>1, <1>2, <1>3
  <1>7. final[x] # final[y]
    BY <1>4, <1>6, <1>1, <1>2
  <1>8. ~(final[y] < final[x])
    <2> SUFFICES ASSUME final[y] < final[x] PROVE FALSE
      OBVIOUS
    <2>1. Rank(free, final[y]) < Rank(free, final[x])
      BY <1>1, <1>5, RankGrows
    <2> QED
      BY <1>1, <1>2, <1>4, <1>6, <2>1
  <1> QED
    BY <1>5, <1>7, <1>8 DEF final

-----------------------------------------------------------------------------
(* The shape of a plan's operations. *)

Replacement(c, i, final, endpoint, bound) ==
    [op |-> "replaceEndpoint", mid |-> Id(c[i]), final |-> final[i],
     endpoint |-> endpoint, bound |-> bound]

(* What apply can rely on: a slot for each survivor and one preserve       *)
(* operation for each that was there before, removals and replacements of  *)
(* the add-ons they name, and an add operation for each that was not.      *)
PlanShape(ops, c, k, final) ==
    /\ IsFiniteSet(DOMAIN final)
    /\ final \in Bijection(DOMAIN final, 1..Cardinality(DOMAIN final))
    /\ OpsOf("preserve", ops) = Preserves(c, k, final)
    /\ \A o \in OpsOf("remove", ops) : o.from \in DOMAIN c /\ o.mid = Id(c[o.from])
    /\ \A o \in OpsOf("replaceEndpoint", ops) :
          \E i \in Stayers(c, final), bound \in Manifests \cup {None} :
              o = Replacement(c, i, final, o.endpoint, bound)
    /\ OpsOf("add", ops) = {} => DOMAIN final \subseteq DOMAIN c

LEMMA OpKinds ==
    ASSUME NEW P, NEW c, NEW k, NEW final
    PROVE  /\ \A o \in Removes(P, c, k) : o.op = "remove"
           /\ \A o \in Adds(P, c, k, final) : o.op = "add"
           /\ \A o \in Moves(c, final) : o.op = "move"
           /\ \A o \in Replacements(P, c, k, final) :
                 /\ o.op = "replaceEndpoint"
                 /\ \E i \in Stayers(c, final) : o = Replacement(c, i, final, o.endpoint, None)
           /\ \A o \in Preserves(c, k, final) : o.op = "preserve"
  <1>1. \A o \in Removes(P, c, k) : o.op = "remove"
    BY DEF Removes
  <1>2. \A o \in Adds(P, c, k, final) : o.op = "add"
    BY DEF Adds
  <1>3. \A o \in Moves(c, final) : o.op = "move"
    BY DEF Moves
  <1>4. ASSUME NEW o \in Replacements(P, c, k, final)
        PROVE  /\ o.op = "replaceEndpoint"
               /\ \E i \in Stayers(c, final) : o = Replacement(c, i, final, o.endpoint, None)
    <2>1. \E i \in Stayers(c, final) : \E a \in Owner(P, c, k, i) :
             o = Replacement(c, i, final, P.addons[a].endpoint, None)
      BY DEF Replacements, Replacement
    <2> QED
      BY <2>1 DEF Replacement
  <1>5. \A o \in Preserves(c, k, final) : o.op = "preserve"
    BY DEF Preserves
  <1> QED
    BY <1>1, <1>2, <1>3, <1>4, <1>5

LEMMA PlanOpsShape ==
    ASSUME NEW P \in Profiles, NEW c \in Seq(Descriptors), NEW k,
           ~PlanRefused(P, c, k), PlanOps(P, c, k) # {}
    PROVE  PlanShape(PlanOps(P, c, k), c, k, FinalIndex(P, c, k))
  <1> DEFINE items == Items(P, c, k)
             final == FinalIndex(P, c, k)
             ops   == PlanOps(P, c, k)
  <1>1. IsFiniteSet(items) /\ final \in Bijection(items, 1..Cardinality(items))
    BY ItemsFacts, FinalBijection DEF PlanRefused
  <1>2. DOMAIN final = items
    BY DEF FinalIndex
  <1>3. ops = Removes(P, c, k) \cup Adds(P, c, k, final) \cup Moves(c, final)
                \cup Replacements(P, c, k, final) \cup Preserves(c, k, final)
    BY DEF PlanOps
  <1> HIDE DEF ops, final
  <1>4. OpsOf("preserve", ops) = Preserves(c, k, final)
    BY <1>3, OpKinds DEF OpsOf
  <1>5. OpsOf("remove", ops) = Removes(P, c, k)
    BY <1>3, OpKinds DEF OpsOf
  <1>6. OpsOf("replaceEndpoint", ops) = Replacements(P, c, k, final)
    BY <1>3, OpKinds DEF OpsOf
  <1>7. OpsOf("add", ops) = Adds(P, c, k, final)
    BY <1>3, OpKinds DEF OpsOf
  <1>8. Adds(P, c, k, final) = {} => items \subseteq DOMAIN c
    <2>1. Adds(P, c, k, final) = {} => Added(P, c, k) = {}
      BY DEF Adds
    <2> QED
      BY <2>1 DEF Items
  <1>9. Dropped(P, c, k) \subseteq DOMAIN c
    BY DEF Dropped
  <1>10. \A o \in OpsOf("remove", ops) : o.from \in DOMAIN c /\ o.mid = Id(c[o.from])
    <2>1. \A o \in Removes(P, c, k) : \E i \in Dropped(P, c, k) : o.from = i /\ o.mid = Id(c[i])
      BY DEF Removes
    <2> QED
      BY <2>1, <1>5, <1>9
  <1>11. \A o \in OpsOf("replaceEndpoint", ops) :
            \E i \in Stayers(c, final), bound \in Manifests \cup {None} :
                o = Replacement(c, i, final, o.endpoint, bound)
    BY <1>6, OpKinds
  <1> QED
    BY <1>1, <1>2, <1>4, <1>7, <1>8, <1>10, <1>11 DEF PlanShape, ops, final

Bind(o, standby) ==
    IF o.op = "replaceEndpoint" THEN [o EXCEPT !.bound = standby] ELSE o

(* Binding the replacements to a manifest keeps the shape. *)
LEMMA BoundShape ==
    ASSUME NEW ops, NEW c, NEW k, NEW final, PlanShape(ops, c, k, final),
           NEW standby \in Manifests \cup {None}
    PROVE  PlanShape({Bind(o, standby) : o \in ops}, c, k, final)
  <1> DEFINE bound == {Bind(o, standby) : o \in ops}
  <1>1. \A o \in ops : Bind(o, standby).op = o.op
    <2> SUFFICES ASSUME NEW o \in ops PROVE Bind(o, standby).op = o.op
      OBVIOUS
    <2>1. CASE o.op = "replaceEndpoint"
      <3>1. o \in OpsOf("replaceEndpoint", ops)
        BY <2>1 DEF OpsOf
      <3>2. PICK i, e, b : o = Replacement(c, i, final, e, b)
        BY <3>1 DEF PlanShape
      <3> QED
        BY <3>2 DEF Bind, Replacement
    <2> QED
      BY <2>1 DEF Bind
  <1>2. \A kind : kind # "replaceEndpoint" => OpsOf(kind, bound) = OpsOf(kind, ops)
    BY <1>1 DEF OpsOf, Bind
  <1>3. \A o \in OpsOf("replaceEndpoint", bound) :
           \E i \in Stayers(c, final), b \in Manifests \cup {None} :
               o = Replacement(c, i, final, o.endpoint, b)
    <2> SUFFICES ASSUME NEW q \in ops, Bind(q, standby).op = "replaceEndpoint"
                 PROVE  \E i \in Stayers(c, final), b \in Manifests \cup {None} :
                            Bind(q, standby)
                              = Replacement(c, i, final, Bind(q, standby).endpoint, b)
      BY DEF OpsOf
    <2>1. q \in OpsOf("replaceEndpoint", ops) /\ q.op = "replaceEndpoint"
      BY <1>1 DEF OpsOf
    <2>2. PICK i \in Stayers(c, final) : \E b : q = Replacement(c, i, final, q.endpoint, b)
      BY <2>1 DEF PlanShape
    <2>3. PICK b, e : q = Replacement(c, i, final, e, b)
      BY <2>2
    <2>4. Bind(q, standby) = Replacement(c, i, final, e, standby)
      BY <2>1, <2>3 DEF Bind, Replacement
    <2>5. Bind(q, standby).endpoint = e
      BY <2>4 DEF Replacement
    <2> QED
      BY <2>2, <2>4, <2>5
  <1> HIDE DEF bound
  <1>4. /\ OpsOf("preserve", bound) = OpsOf("preserve", ops)
        /\ OpsOf("remove", bound) = OpsOf("remove", ops)
        /\ OpsOf("add", bound) = OpsOf("add", ops)
    BY <1>2
  <1> QED
    BY <1>3, <1>4 DEF PlanShape, bound

-----------------------------------------------------------------------------
(* construct_target on operations of that shape. *)

Preserve(c, k, i, final) ==
    [op |-> "preserve", mid |-> Id(c[i]), label |-> Fingerprint(c[i].url, k),
     final |-> final[i]]

(* There is one preserve operation for each descriptor that stays, and if  *)
(* nothing is added they fill the slots from 1 on.                         *)
LEMMA PreservesFillSlots ==
    ASSUME NEW ops, NEW c, NEW k, NEW final, PlanShape(ops, c, k, final),
           OpsOf("add", ops) = {}
    PROVE  LET kept == OpsOf("preserve", ops)
           IN  /\ Stayers(c, final) = DOMAIN final
               /\ kept = {Preserve(c, k, i, final) : i \in DOMAIN final}
               /\ IsFiniteSet(kept) /\ Cardinality(kept) = Cardinality(DOMAIN final)
               /\ Cardinality(kept) \in Nat
               /\ {o.final : o \in kept} = 1..Cardinality(kept)
               /\ \A i, j \in DOMAIN final : final[i] = final[j] => i = j
               /\ \A i \in DOMAIN final : final[i] \in 1..Cardinality(kept)
               /\ \A p \in 1..Cardinality(kept) : \E i \in DOMAIN final : final[i] = p
  <1> DEFINE kept == OpsOf("preserve", ops)
             D    == DOMAIN final
             keep == [i \in D |-> Preserve(c, k, i, final)]
  <1>1. D \subseteq DOMAIN c /\ Stayers(c, final) = D
    BY DEF PlanShape, Stayers
  <1>2. kept = {Preserve(c, k, i, final) : i \in D}
    BY <1>1 DEF PlanShape, Preserves, Preserve
  <1>3. IsFiniteSet(D) /\ final \in Bijection(D, 1..Cardinality(D))
    BY DEF PlanShape
  <1>4. \A i, j \in D : final[i] = final[j] => i = j
    BY <1>3 DEF Bijection, Injection, IsInjective
  <1>5. \A i \in D : final[i] \in 1..Cardinality(D)
    BY <1>3 DEF Bijection, Injection
  <1>6. \A p \in 1..Cardinality(D) : \E i \in D : final[i] = p
    BY <1>3 DEF Bijection, Surjection
  <1>7. \A i \in D : keep[i] = Preserve(c, k, i, final) /\ keep[i].final = final[i]
    BY DEF Preserve
  <1>8. kept = {keep[i] : i \in D}
    BY <1>2
  <1> HIDE DEF keep, kept, D
  <1>9. keep \in Bijection(D, kept)
    <2>0. DOMAIN keep = D /\ keep = [i \in D |-> keep[i]]
      BY DEF keep
    <2>1. keep \in [D -> kept]
      BY <1>8, <2>0
    <2>2. \A i, j \in D : keep[i] = keep[j] => i = j
      BY <1>4, <1>7
    <2>3. \A o \in kept : \E i \in D : keep[i] = o
      BY <1>8
    <2> QED
      BY <2>1, <2>2, <2>3 DEF Bijection, Injection, Surjection, IsInjective
  <1>10. IsFiniteSet(kept) /\ Cardinality(kept) = Cardinality(D)
    BY <1>3, <1>9, FS_Bijection DEF ExistsBijection
  <1>11. Cardinality(kept) \in Nat
    BY <1>10, FS_CardinalityType
  <1>12. {o.final : o \in kept} = {final[i] : i \in D}
    BY <1>7, <1>8
  <1>13. {final[i] : i \in D} = 1..Cardinality(D)
    BY <1>5, <1>6
  <1> QED
    BY <1>1, <1>2, <1>4, <1>5, <1>6, <1>10, <1>11, <1>12, <1>13 DEF kept, D

-----------------------------------------------------------------------------
(* Types. *)

LEMMA StarterType ==
    ASSUME NEW c \in Seq(Descriptors), NEW k \in Keys, NEW declared
    PROVE  Starter(c, k, declared) \in Profiles
  <1> DEFINE named == {i \in DOMAIN c : Id(c[i]) # None}
             public(i) == Id(c[i]) \in declared
             entry(i) ==
               [mid |-> Id(c[i]), fp |-> StarterFp(c, k, i), state |-> "present",
                position |-> i, endpoint |-> IF public(i) THEN c[i].url ELSE None,
                manage |-> StarterManage \cup IF public(i) THEN {"endpoint"} ELSE {}]
             addons == [n \in 1..Cardinality(named) |-> entry(Nth(named, n))]
  <1>1. /\ Len(c) \in Nat /\ DOMAIN c = 1..Len(c)
        /\ \A i \in DOMAIN c : c[i] \in Descriptors
    OBVIOUS
  <1>2. named \in SUBSET Nat /\ IsFiniteSet(named)
    <2>1. IsFiniteSet(1..Len(c))
      BY <1>1, FS_Interval
    <2>2. named \subseteq 1..Len(c)
      BY <1>1
    <2> QED
      BY <1>1, <2>1, <2>2, FS_Subset
  <1>3. Cardinality(named) \in Nat
    BY <1>2, FS_CardinalityType
  <1>4. \A i \in named : entry(i) \in AddonSpecs
    <2> SUFFICES ASSUME NEW i \in named PROVE entry(i) \in AddonSpecs
      OBVIOUS
    <2>1. c[i] \in Descriptors /\ i \in Nat \ {0}
      BY <1>1
    <2>2. c[i].url \in Urls /\ c[i].manifest \in Manifests
      BY <2>1 DEF Descriptors
    <2>3. Id(c[i]) \in Ids
      BY <2>2, IdAssumption DEF Id
    <2>4. StarterFp(c, k, i) \in (Urls \X Keys) \cup {None}
      BY <2>2 DEF StarterFp, Fingerprint
    <2>5. (IF public(i) THEN c[i].url ELSE None) \in Urls \cup Refs \cup {None}
      BY <2>2
    <2>6. (StarterManage \cup IF public(i) THEN {"endpoint"} ELSE {})
              \in SUBSET {"state", "position", "endpoint"}
      BY DEF StarterManage
    <2> QED
      BY <2>1, <2>3, <2>4, <2>5, <2>6 DEF AddonSpecs
  <1>5. \A n \in 1..Cardinality(named) : Nth(named, n) \in named
    <2> HIDE DEF named
    <2> QED
      BY <1>2, NthOfRank
  <1>6. addons \in Seq(AddonSpecs)
    <2>1. \A n \in 1..Cardinality(named) : addons[n] \in AddonSpecs
      BY <1>4, <1>5
    <2> HIDE DEF entry, named
    <2>2. addons \in [1..Cardinality(named) -> AddonSpecs]
      BY <2>1
    <2> HIDE DEF addons
    <2> QED
      BY <1>3, <2>2
  <1>7. Starter(c, k, declared) = [addons |-> addons, keep |-> TRUE]
    BY DEF Starter
  <1> HIDE DEF addons
  <1> QED
    BY <1>6, <1>7 DEF Profiles

LEMMA PromotionProfileType ==
    ASSUME NEW pr \in Promotions
    PROVE  PromotionProfile(pr) \in Profiles
  <1> DEFINE s == [mid |-> pr.mid, fp |-> None, state |-> "present", position |-> None,
                   endpoint |-> pr.standby, manage |-> {"endpoint"}]
  <1>1. s \in AddonSpecs
    BY DEF Promotions, AddonSpecs
  <1>2. <<s>> \in Seq(AddonSpecs)
    BY <1>1
  <1> QED
    BY <1>2 DEF PromotionProfile, Profiles

LEMMA ReplacedType ==
    ASSUME NEW d \in Descriptors, NEW o, NEW secrets,
           o.bound \in Manifests \cup {None}, Resolved(o.endpoint, secrets) \in Urls
    PROVE  Replaced(d, o, secrets) \in Descriptors
  BY DEF Replaced, Descriptors

(* What construct_target returns is a collection. *)
LEMMA TargetType ==
    ASSUME NEW ops, NEW c \in Seq(Descriptors), NEW k, NEW secrets,
           IsFiniteSet(OpsOf("preserve", ops)),
           ~ConstructRefused(ops, c, k, secrets),
           \A o \in OpsOf("replaceEndpoint", ops) : o.bound \in Manifests \cup {None}
    PROVE  Target(ops, c, k, secrets) \in Seq(Descriptors)
  <1> DEFINE kept == OpsOf("preserve", ops)
             N == Cardinality(kept)
  <1>1. N \in Nat
    BY FS_CardinalityType
  <1>2. \A i \in DOMAIN c : c[i] \in Descriptors
    OBVIOUS
  <1>3. /\ {o.final : o \in kept} = 1..N
        /\ \A o \in kept : \E i \in Sources(o, c, k) : Sources(o, c, k) = {i}
        /\ \A o \in OpsOf("replaceEndpoint", ops) : ~ReplacementRefused(o, ops, c, k, secrets)
    BY DEF ConstructRefused
  <1>4. \A o \in OpsOf("replaceEndpoint", ops) : Resolved(o.endpoint, secrets) \in Urls
    BY <1>3, UrlAssumption DEF ReplacementRefused
  <1>5. \A p \in 1..N : Slot(p, ops, c, k, secrets) \in Descriptors
    <2> SUFFICES ASSUME NEW p \in 1..N PROVE Slot(p, ops, c, k, secrets) \in Descriptors
      OBVIOUS
    <2> DEFINE it == CHOOSE o \in kept : o.final = p
               i  == CHOOSE j \in Sources(it, c, k) : TRUE
               over == {o \in OpsOf("replaceEndpoint", ops) : o.final = p}
               by == CHOOSE o \in over : TRUE
    <2>1. it \in kept
      BY <1>3
    <2>2. i \in Sources(it, c, k)
      BY <1>3, <2>1
    <2>3. c[i] \in Descriptors
      BY <1>2, <2>2 DEF Sources
    <2>4. Slot(p, ops, c, k, secrets) = IF over = {} THEN c[i] ELSE Replaced(c[i], by, secrets)
      BY DEF Slot
    <2>5. over # {} => by \in OpsOf("replaceEndpoint", ops)
      OBVIOUS
    <2> HIDE DEF i, over, by
    <2>6. over # {} => Replaced(c[i], by, secrets) \in Descriptors
      BY <1>4, <2>3, <2>5, ReplacedType
    <2> QED
      BY <2>3, <2>4, <2>6
  <1>6. Target(ops, c, k, secrets) \in [1..N -> Descriptors]
    BY <1>5 DEF Target
  <1> HIDE DEF N
  <1> QED
    BY <1>1, <1>6

LEMMA PromotionOpsShape ==
    ASSUME NEW pr \in Promotions \cup {None}, NEW c \in Seq(Descriptors), NEW k,
           NEW secrets, NEW served,
           served[secrets[pr.standby]] \in Manifests \cup {None},
           ~PromotionRefused(pr, c, k, secrets, served),
           PromotionOps(pr, c, k, secrets, served) # {}
    PROVE  LET P == PromotionProfile(pr)
           IN  /\ pr \in Promotions
               /\ ~PlanRefused(P, c, k) /\ PlanOps(P, c, k) # {}
               /\ PromotionOps(pr, c, k, secrets, served)
                    = {Bind(o, served[secrets[pr.standby]]) : o \in PlanOps(P, c, k)}
               /\ PlanShape(PromotionOps(pr, c, k, secrets, served), c, k, FinalIndex(P, c, k))
  <1> DEFINE standby == served[secrets[pr.standby]]
             P == PromotionProfile(pr)
             there == Installed(pr, c, standby)
             ops == PromotionOps(pr, c, k, secrets, served)
  <1>1. ~RefsUnusable(pr, secrets) /\ ~StandbyUnreachable(pr, secrets, served)
    BY DEF PromotionRefused
  <1>2. pr \in Promotions
    BY <1>1 DEF RefsUnusable
  <1>3. /\ Cardinality(there) = 1
        /\ \A i \in there : ~IsStandby(pr, c[i], standby, secrets) => ~PlanRefused(P, c, k)
    BY <1>1 DEF PromotionRefused, PromotionMismatch
  <1>4. there # {}
    <2>1. Cardinality(there) = 1
      BY <1>3
    <2> HIDE DEF there
    <2>2. Cardinality({}) = 0
      BY FS_EmptySet
    <2>3. Cardinality(there) # Cardinality({})
      BY <2>1, <2>2
    <2> QED
      BY <2>3, Zenon
  <1>5. ~\E i \in there : IsStandby(pr, c[i], standby, secrets)
    BY DEF PromotionOps
  <1>6. ~PlanRefused(P, c, k)
    BY <1>3, <1>4, <1>5
  <1>7. ops = {Bind(o, standby) : o \in PlanOps(P, c, k)}
    BY <1>5 DEF PromotionOps, Bind
  <1>8. PlanOps(P, c, k) # {}
    BY <1>7
  <1> HIDE DEF ops, P, standby
  <1>9. PlanShape(PlanOps(P, c, k), c, k, FinalIndex(P, c, k))
    BY <1>2, <1>6, <1>8, PromotionProfileType, PlanOpsShape DEF P
  <1>10. PlanShape(ops, c, k, FinalIndex(P, c, k))
    <2>1. standby \in Manifests \cup {None}
      BY DEF standby
    <2> QED
      BY <1>7, <1>9, <2>1, BoundShape
  <1> QED
    BY <1>2, <1>6, <1>7, <1>8, <1>10 DEF ops, P, standby

-----------------------------------------------------------------------------
(* The target construct_target makes of operations of that shape: what was *)
(* in slot i is in slot final[i], replaced or not.  It takes the redaction *)
(* key the labels were made with.                                          *)
Over(ops, p) == {o \in OpsOf("replaceEndpoint", ops) : o.final = p}

LEMMA TargetOfShape ==
    ASSUME NEW ops, NEW c, NEW k, NEW key, NEW final, NEW secrets,
           PlanShape(ops, c, k, final), ~ConstructRefused(ops, c, key, secrets)
    PROVE  LET target == Target(ops, c, key, secrets)
           IN  /\ DOMAIN final \subseteq DOMAIN c
               /\ target = [p \in 1..Cardinality(DOMAIN final) |-> target[p]]
               /\ \A i \in DOMAIN final :
                     /\ key = k
                     /\ final[i] \in 1..Cardinality(DOMAIN final)
                     /\ target[final[i]] =
                          IF Over(ops, final[i]) = {} THEN c[i]
                          ELSE Replaced(c[i], CHOOSE o \in Over(ops, final[i]) : TRUE, secrets)
               /\ \A i, j \in DOMAIN final : final[i] = final[j] => i = j
               /\ \A p \in DOMAIN target : \E i \in DOMAIN final : final[i] = p
  <1> DEFINE kept == OpsOf("preserve", ops)
             D    == DOMAIN final
             keep(i) == Preserve(c, k, i, final)
             N == Cardinality(D)
             target == Target(ops, c, key, secrets)
  <1>1. OpsOf("add", ops) = {}
    BY DEF ConstructRefused
  <1>2. /\ Stayers(c, final) = D /\ kept = {keep(i) : i \in D}
        /\ Cardinality(kept) = N
        /\ \A i, j \in D : final[i] = final[j] => i = j
        /\ \A i \in D : final[i] \in 1..N
        /\ \A p \in 1..N : \E i \in D : final[i] = p
    BY <1>1, PreservesFillSlots
  <1>3. D \subseteq DOMAIN c
    BY <1>2 DEF Stayers
  <1>4. target = [p \in 1..N |-> Slot(p, ops, c, key, secrets)]
    BY <1>2 DEF Target
  <1>5. \A o \in kept : \E i \in Sources(o, c, key) : Sources(o, c, key) = {i}
    BY DEF ConstructRefused
  <1>6. ASSUME NEW i \in D
        PROVE  /\ key = k
               /\ Slot(final[i], ops, c, key, secrets) =
                    IF Over(ops, final[i]) = {} THEN c[i]
                    ELSE Replaced(c[i], CHOOSE o \in Over(ops, final[i]) : TRUE, secrets)
    <2>1. keep(i) \in kept /\ keep(i).final = final[i]
      BY <1>2 DEF Preserve
    <2>2. PICK j \in Sources(keep(i), c, key) : Sources(keep(i), c, key) = {j}
      BY <1>5, <2>1
    <2>3. <<c[j].url, key>> = <<c[i].url, k>>
      BY <2>2 DEF Sources, Preserve, Fingerprint
    <2>4. key = k
      BY <2>3
    <2>5. i \in Sources(keep(i), c, key)
      BY <1>3, <2>4 DEF Sources, Preserve
    <2>6. (CHOOSE x \in Sources(keep(i), c, key) : TRUE) = i
      <3>1. Sources(keep(i), c, key) = {i}
        BY <2>2, <2>5
      <3> QED
        BY <3>1
    <2>7. \A o \in kept : o.final = final[i] => o = keep(i)
      BY <1>2 DEF Preserve
    <2>8. (CHOOSE o \in kept : o.final = final[i]) = keep(i)
      BY <2>1, <2>7
    <2> DEFINE found == CHOOSE o \in kept : o.final = final[i]
               here  == CHOOSE x \in Sources(found, c, key) : TRUE
               over  == Over(ops, final[i])
    <2>9. Slot(final[i], ops, c, key, secrets) =
             IF over = {} THEN c[here] ELSE Replaced(c[here], CHOOSE o \in over : TRUE, secrets)
      BY DEF Slot, Over
    <2>10. here = i
      <3>1. found = keep(i)
        BY <2>8
      <3> HIDE DEF found, keep
      <3> QED
        BY <3>1, <2>6
    <2> HIDE DEF here, over
    <2> QED
      BY <2>4, <2>9, <2>10 DEF over
  <1>7. \A i \in D : target[final[i]] = Slot(final[i], ops, c, key, secrets)
    BY <1>2, <1>4
  <1>8. DOMAIN target = 1..N /\ target = [p \in 1..N |-> target[p]]
    BY <1>4
  <1> HIDE DEF target, N, D
  <1>9. \A i \in D :
           /\ key = k
           /\ final[i] \in 1..N
           /\ target[final[i]] =
                IF Over(ops, final[i]) = {} THEN c[i]
                ELSE Replaced(c[i], CHOOSE o \in Over(ops, final[i]) : TRUE, secrets)
    BY <1>2, <1>6, <1>7
  <1> QED
    BY <1>2, <1>3, <1>8, <1>9 DEF target, N, D

-----------------------------------------------------------------------------
(* Promotions. *)

(* A promotion's plan moves, adds and removes nothing.                     *)
LEMMA PromotionPlanOps ==
    ASSUME NEW pr \in Promotions, NEW c \in Seq(Descriptors), NEW k,
           ~PlanRefused(PromotionProfile(pr), c, k)
    PROVE  LET P == PromotionProfile(pr)
               final == FinalIndex(P, c, k)
           IN  /\ final = [x \in DOMAIN c |-> x]
               /\ \A i, j \in DOMAIN c : Id(c[i]) = pr.mid /\ Id(c[j]) = pr.mid => i = j
               /\ \A o \in PlanOps(P, c, k) :
                     \/ o.op = "preserve"
                     \/ \E i \in DOMAIN c :
                           /\ Id(c[i]) = pr.mid
                           /\ o = Replacement(c, i, final, pr.standby, None)
               /\ PlanOps(P, c, k) # {} => \E o \in PlanOps(P, c, k) : o.op = "replaceEndpoint"
  <1> DEFINE P == PromotionProfile(pr)
             s == [mid |-> pr.mid, fp |-> None, state |-> "present", position |-> None,
                   endpoint |-> pr.standby, manage |-> {"endpoint"}]
             final == FinalIndex(P, c, k)
  <1>1. P.addons = <<s>> /\ P.keep = TRUE
    BY DEF PromotionProfile
  <1>2. DOMAIN P.addons = {1} /\ P.addons[1] = s
    BY <1>1
  <1>3. /\ s.mid = pr.mid /\ s.fp = None /\ s.state = "present" /\ s.position = None
        /\ s.endpoint = pr.standby /\ s.manage = {"endpoint"}
    OBVIOUS
  <1> HIDE DEF s, P
  <1>4. P \in Profiles
    BY PromotionProfileType DEF P
  <1>5. \A i \in DOMAIN c : i \in Candidates(s, c, k) <=> Id(c[i]) = pr.mid
    BY <1>3 DEF Candidates
  <1>6. \A i \in DOMAIN c : \A a : a \in Claimants(P, c, k, i) <=> a = 1 /\ Id(c[i]) = pr.mid
    BY <1>2, <1>5 DEF Claimants
  <1>7. Dropped(P, c, k) = {} /\ Added(P, c, k) = {}
    BY <1>1, <1>2, <1>3, <1>6 DEF Dropped, Added
  <1>8. Items(P, c, k) = DOMAIN c
    BY <1>7 DEF Items
  <1>9. /\ Len(c) \in Nat /\ DOMAIN c = 1..Len(c) /\ Cardinality(DOMAIN c) = Len(c)
        /\ IsFiniteSet(DOMAIN c)
    <2>1. Len(c) \in Nat /\ DOMAIN c = 1..Len(c)
      OBVIOUS
    <2> QED
      BY <2>1, FS_Interval
  <1>10. \A x \in DOMAIN c : \A a \in Owner(P, c, k, x) : a = 1 /\ Id(c[x]) = pr.mid
    <2>1. \A x \in DOMAIN c : ~(x > Len(c))
      BY <1>9
    <2> QED
      BY <2>1, <1>6 DEF Owner
  <1>11. \A x \in DOMAIN c : Anchor(P, c, k, x) = {}
    BY <1>2, <1>3, <1>10 DEF Anchor
  <1>12. AnchorSlots(P, c, k) = {}
    BY <1>8, <1>11 DEF AnchorSlots
  <1>13. /\ {x \in DOMAIN c : Anchor(P, c, k, x) = {}} = DOMAIN c
         /\ (1..Cardinality(DOMAIN c)) \ AnchorSlots(P, c, k) = 1..Len(c)
    BY <1>9, <1>11, <1>12
  <1>14. \A x \in DOMAIN c : Rank(DOMAIN c, x) = x /\ Nth(1..Len(c), x) = x
    BY <1>9, RankInterval, NthInterval
  <1>15. final = [x \in DOMAIN c |-> x]
    <2>1. final = [x \in DOMAIN c |->
                     IF x \in DOMAIN c THEN Nth(1..Len(c), Rank(DOMAIN c, x))
                     ELSE CHOOSE p \in Anchor(P, c, k, x) : TRUE]
      BY <1>8, <1>13 DEF FinalIndex
    <2> HIDE DEF final
    <2> QED
      BY <1>14, <2>1
  <1> HIDE DEF final
  <1>16. \A i, j \in DOMAIN c : Id(c[i]) = pr.mid /\ Id(c[j]) = pr.mid => i = j
    <2>1. Unambiguous(P, c, k)
      BY DEF PlanRefused, P
    <2>2. \A i, j \in Candidates(P.addons[1], c, k) : i = j
      BY <1>2, <1>4, <2>1, CandidateUnique
    <2> QED
      BY <1>2, <1>5, <2>2
  <1>17. Removes(P, c, k) = {} /\ Adds(P, c, k, final) = {} /\ Moves(c, final) = {}
    <2>1. Moves(c, final) = {}
      BY <1>14, <1>15 DEF Moves, Stayers
    <2> QED
      BY <1>7, <2>1 DEF Removes, Adds
  <1>18. \A o \in Replacements(P, c, k, final) :
            /\ o.op = "replaceEndpoint"
            /\ \E i \in DOMAIN c :
                  Id(c[i]) = pr.mid /\ o = Replacement(c, i, final, pr.standby, None)
    BY <1>2, <1>3, <1>10 DEF Replacements, Replacement, Stayers
  <1>19. \A o \in Preserves(c, k, final) : o.op = "preserve"
    BY DEF Preserves
  <1>20. PlanOps(P, c, k) = Replacements(P, c, k, final)
                              \cup IF Replacements(P, c, k, final) = {} THEN {}
                                   ELSE Preserves(c, k, final)
    BY <1>17 DEF PlanOps, final
  <1>21. \A o \in PlanOps(P, c, k) :
            \/ o.op = "preserve"
            \/ \E i \in DOMAIN c :
                  Id(c[i]) = pr.mid /\ o = Replacement(c, i, final, pr.standby, None)
    BY <1>18, <1>19, <1>20
  <1>22. PlanOps(P, c, k) # {} => \E o \in PlanOps(P, c, k) : o.op = "replaceEndpoint"
    BY <1>18, <1>20
  <1> QED
    BY <1>15, <1>16, <1>21, <1>22 DEF P, final

(* Where the standby has taken the primary's place, promoting is converged. *)
LEMMA PromotedIsConverged ==
    ASSUME NEW pr, NEW c \in Seq(Descriptors), NEW k, NEW secrets, NEW served,
           NEW standby, standby # None, Cardinality(Installed(pr, c, standby)) = 1,
           NEW i \in DOMAIN c, Id(c[i]) = pr.mid,
           NEW d, DOMAIN d = DOMAIN c,
           \A x \in DOMAIN c : x # i => d[x] = c[x],
           d[i].url = secrets[pr.standby], d[i].manifest = standby,
           secrets[pr.standby] \notin Private,
           served[secrets[pr.standby]] = standby,
           ~RefsUnusable(pr, secrets)
    PROVE  /\ ~PromotionRefused(pr, d, k, secrets, served)
           /\ PromotionOps(pr, d, k, secrets, served) = {}
  <1>5. i \in Installed(pr, c, standby)
    BY DEF Installed
  <1>6. Installed(pr, c, standby) = {i}
    <2>1. IsFiniteSet(Installed(pr, c, standby))
      <3>1. Len(c) \in Nat /\ DOMAIN c = 1..Len(c)
        OBVIOUS
      <3>2. IsFiniteSet(DOMAIN c)
        BY <3>1, FS_Interval
      <3>3. Installed(pr, c, standby) \in SUBSET DOMAIN c
        BY DEF Installed
      <3> QED
        BY <3>2, <3>3, FS_Subset
    <2>2. \A x, y \in Installed(pr, c, standby) : x = y
      BY <2>1, AtMostOne
    <2> QED
      BY <1>5, <2>2
  <1>7. Installed(pr, d, standby) = {i}
    <2>1. \A x \in DOMAIN c : x # i => Id(c[x]) \notin {pr.mid, IdOf[standby]}
      BY <1>6 DEF Installed
    <2>2. \A x \in DOMAIN d : x \in Installed(pr, d, standby) <=> Id(d[x]) \in {pr.mid, IdOf[standby]}
      BY DEF Installed
    <2>3. Id(d[i]) = IdOf[standby]
      BY DEF Id
    <2>4. \A x \in DOMAIN c : x # i => Id(d[x]) = Id(c[x])
      BY DEF Id
    <2>5. \A x : x \in Installed(pr, d, standby) => x \in DOMAIN c
      BY DEF Installed
    <2>6. i \in Installed(pr, d, standby)
      BY <2>2, <2>3
    <2>7. \A x \in DOMAIN c : x # i => x \notin Installed(pr, d, standby)
      BY <2>1, <2>2, <2>4
    <2> QED
      BY <2>5, <2>6, <2>7, Zenon
  <1>8. IsStandby(pr, d[i], standby, secrets)
    BY DEF IsStandby, Id
  <1>9. ~StandbyUnreachable(pr, secrets, served)
    BY DEF StandbyUnreachable, Probed
  <1>10. ~PromotionMismatch(pr, d, k, secrets, served)
    <2>1. Cardinality({i}) = 1
      BY FS_Singleton
    <2>2. Cardinality(Installed(pr, d, standby)) = 1
      BY <1>7, <2>1
    <2> QED
      BY <1>7, <1>8, <2>2 DEF PromotionMismatch
  <1>11. PromotionOps(pr, d, k, secrets, served) = {}
    BY <1>7, <1>8 DEF PromotionOps
  <1> QED
    BY <1>9, <1>10, <1>11 DEF PromotionRefused

-----------------------------------------------------------------------------
(* Desired profiles. *)

LEMMA SpecFacts ==
    ASSUME NEW P \in Profiles, NEW a \in DOMAIN P.addons
    PROVE  LET s == P.addons[a]
           IN  /\ s.mid \in Ids /\ s.state \in {"present", "absent"}
               /\ s.fp \in (Urls \X Keys) \cup {None}
               /\ s.position \in (Nat \ {0}) \cup {None}
               /\ s.endpoint \in Urls \cup Refs \cup {None}
  <1>1. P.addons \in Seq(AddonSpecs)
    BY DEF Profiles
  <1>2. P.addons[a] \in AddonSpecs
    BY <1>1
  <1> QED
    BY <1>2 DEF AddonSpecs

(* What applying a profile's plan makes of each descriptor: d is c without *)
(* the dropped, each of the others in its place, with the endpoint that    *)
(* its entry needs, and otherwise as it was.                               *)
Placed(P, c, k, secrets, d) ==
    LET items == DOMAIN c \ Dropped(P, c, k)
        final == FinalIndex(P, c, k)
    IN  /\ Items(P, c, k) = items /\ Added(P, c, k) = {}
        /\ DOMAIN d = 1..Cardinality(items)
        /\ \A i \in items : /\ final[i] \in DOMAIN d
                            /\ d[final[i]].rest = c[i].rest
                            /\ d[final[i]].manifest = c[i].manifest
        /\ \A i, j \in items : final[i] = final[j] => i = j
        /\ \A p \in DOMAIN d : \E i \in items : final[i] = p
        /\ \A i \in items : \A a \in Owner(P, c, k, i) :
              NeedsEndpoint(P.addons[a], c[i].url, k) =>
                  d[final[i]].url = Resolved(P.addons[a].endpoint, secrets)
        /\ \A i \in items :
              (\A a \in Owner(P, c, k, i) : ~NeedsEndpoint(P.addons[a], c[i].url, k))
                  => d[final[i]] = c[i]

LEMMA AppliedProfile ==
    ASSUME NEW P \in Profiles, NEW c \in Seq(Descriptors), NEW k, NEW key, NEW secrets,
           ~PlanRefused(P, c, k), PlanOps(P, c, k) # {},
           ~ConstructRefused(PlanOps(P, c, k), c, key, secrets)
    PROVE  Placed(P, c, k, secrets, Target(PlanOps(P, c, k), c, key, secrets))
  <1> DEFINE ops   == PlanOps(P, c, k)
             d     == Target(ops, c, key, secrets)
             items == DOMAIN c \ Dropped(P, c, k)
             final == FinalIndex(P, c, k)
             R(i, a) == Replacement(c, i, final, P.addons[a].endpoint, None)
             wanted(i) == {a \in Owner(P, c, k, i) : NeedsEndpoint(P.addons[a], c[i].url, k)}
  <1>1. PlanShape(ops, c, k, final) /\ DOMAIN final = Items(P, c, k)
    BY PlanOpsShape DEF FinalIndex
  <1>2. Unambiguous(P, c, k)
    BY DEF PlanRefused
  <1>3. /\ ops = Removes(P, c, k) \cup Adds(P, c, k, final) \cup Moves(c, final)
                   \cup Replacements(P, c, k, final) \cup Preserves(c, k, final)
    BY DEF PlanOps
  <1>4. /\ DOMAIN final \subseteq DOMAIN c
        /\ d = [p \in 1..Cardinality(DOMAIN final) |-> d[p]]
        /\ \A i \in DOMAIN final :
              /\ final[i] \in 1..Cardinality(DOMAIN final)
              /\ d[final[i]] =
                   IF Over(ops, final[i]) = {} THEN c[i]
                   ELSE Replaced(c[i], CHOOSE o \in Over(ops, final[i]) : TRUE, secrets)
        /\ \A i, j \in DOMAIN final : final[i] = final[j] => i = j
        /\ \A p \in DOMAIN d : \E i \in DOMAIN final : final[i] = p
    <2> HIDE DEF ops, final
    <2>1. PlanShape(ops, c, k, final) /\ ~ConstructRefused(ops, c, key, secrets)
      BY <1>1 DEF ops
    <2> QED
      BY <2>1, TargetOfShape
  <1> HIDE DEF ops, final, d
  <1>5. Added(P, c, k) = {} /\ Items(P, c, k) = items
    <2>1. \A a \in Added(P, c, k) : Len(c) + a \in Items(P, c, k) \ DOMAIN c
      BY ItemsFacts
    <2>2. Added(P, c, k) = {}
      BY <1>1, <1>4, <2>1
    <2> QED
      BY <2>2 DEF Items
  <1>6. DOMAIN final = items
    BY <1>1, <1>5
  <1>7. \A i \in items : \A a, b \in Owner(P, c, k, i) : a = b
    <2> SUFFICES ASSUME NEW i \in items, NEW a \in Owner(P, c, k, i), NEW b \in Owner(P, c, k, i)
                 PROVE  a = b
      OBVIOUS
    <2>1. i \in DOMAIN c /\ i <= Len(c)
      BY DomainFacts
    <2>2. a \in Claimants(P, c, k, i) /\ b \in Claimants(P, c, k, i)
      BY <2>1, DomainFacts DEF Owner
    <2> QED
      BY <1>2, <2>1, <2>2, ClaimantUnique
  (* The replacements of item i are those of its owner. *)
  <1>8. \A o : o \in OpsOf("replaceEndpoint", ops)
                 <=> \E i \in items : \E a \in wanted(i) : o = R(i, a)
    <2>1. OpsOf("replaceEndpoint", ops) = Replacements(P, c, k, final)
      BY <1>3, OpKinds DEF OpsOf
    <2>2. Stayers(c, final) = items
      BY <1>6 DEF Stayers
    <2> QED
      BY <2>1, <2>2 DEF Replacements, Replacement
  <1>9. \A i, a : R(i, a).final = final[i] /\ R(i, a).bound = None
                  /\ R(i, a).endpoint = P.addons[a].endpoint
    BY DEF Replacement
  <1> HIDE DEF R, wanted, items
  <1>10. \A i \in items : \A o : o \in Over(ops, final[i]) <=> \E a \in wanted(i) : o = R(i, a)
    BY <1>4, <1>6, <1>8, <1>9 DEF Over
  <1>11. ASSUME NEW i \in items, NEW a \in wanted(i)
         PROVE  /\ d[final[i]].rest = c[i].rest
                /\ d[final[i]].manifest = c[i].manifest
                /\ d[final[i]].url = Resolved(P.addons[a].endpoint, secrets)
    <2>1. \A b \in wanted(i) : b = a
      BY <1>7 DEF wanted
    <2>2. Over(ops, final[i]) = {R(i, a)}
      BY <1>10, <2>1
    <2>3. (CHOOSE o \in {R(i, a)} : TRUE) = R(i, a)
      OBVIOUS
    <2>4. d[final[i]] = Replaced(c[i], R(i, a), secrets)
      BY <1>4, <1>6, <2>2, <2>3
    <2>5. R(i, a).bound = None /\ R(i, a).endpoint = P.addons[a].endpoint
      BY <1>9
    <2> QED
      BY <2>4, <2>5 DEF Replaced
  <1>12. ASSUME NEW i \in items, wanted(i) = {} PROVE d[final[i]] = c[i]
    <2>1. Over(ops, final[i]) = {}
      BY <1>10, <1>12
    <2> QED
      BY <1>4, <1>6, <2>1
  <1>13. \A i \in items : /\ final[i] \in DOMAIN d
                          /\ d[final[i]].rest = c[i].rest
                          /\ d[final[i]].manifest = c[i].manifest
    <2> SUFFICES ASSUME NEW i \in items
                 PROVE  /\ final[i] \in DOMAIN d
                        /\ d[final[i]].rest = c[i].rest
                        /\ d[final[i]].manifest = c[i].manifest
      OBVIOUS
    <2>1. final[i] \in DOMAIN d
      BY <1>4, <1>6
    <2>2. CASE wanted(i) = {}
      BY <1>12, <2>1, <2>2
    <2>3. ASSUME NEW a \in wanted(i)
          PROVE  d[final[i]].rest = c[i].rest /\ d[final[i]].manifest = c[i].manifest
      BY <1>11
    <2> QED
      BY <2>1, <2>2, <2>3
  <1>14. \A i \in items : \A a \in Owner(P, c, k, i) :
            NeedsEndpoint(P.addons[a], c[i].url, k) =>
                d[final[i]].url = Resolved(P.addons[a].endpoint, secrets)
    <2> SUFFICES ASSUME NEW i \in items, NEW a \in wanted(i)
                 PROVE  d[final[i]].url = Resolved(P.addons[a].endpoint, secrets)
      BY DEF wanted
    <2> QED
      BY <1>11
  <1>15. \A i \in items :
            (\A a \in Owner(P, c, k, i) : ~NeedsEndpoint(P.addons[a], c[i].url, k))
                => d[final[i]] = c[i]
    BY <1>12 DEF wanted
  <1>16. DOMAIN d = 1..Cardinality(items)
    BY <1>4, <1>6
  <1> QED
    BY <1>4, <1>5, <1>6, <1>13, <1>14, <1>15, <1>16 DEF Placed, items, d, final, ops

(* The position managed by the one owner of an item is its anchor. *)
LEMMA OwnerFacts ==
    ASSUME NEW P \in Profiles, NEW c \in Seq(Descriptors), NEW k, Unambiguous(P, c, k),
           NEW i \in DOMAIN c
    PROVE  /\ \A a \in Claimants(P, c, k, i) :
                 P.addons[a].state = "present" <=> a \in Owner(P, c, k, i)
           /\ Owner(P, c, k, i) \subseteq Claimants(P, c, k, i)
           /\ \A a \in Owner(P, c, k, i) : P.addons[a].state = "present"
           /\ Claimants(P, c, k, i) \subseteq DOMAIN P.addons
           /\ \A a, b \in Claimants(P, c, k, i) : a = b
  <1>1. Owner(P, c, k, i) = {a \in Claimants(P, c, k, i) : P.addons[a].state = "present"}
    <2>1. ~(i > Len(c))
      BY DomainFacts
    <2> QED
      BY <2>1 DEF Owner
  <1>2. \A a, b \in Claimants(P, c, k, i) : a = b
    BY ClaimantUnique
  <1>3. Claimants(P, c, k, i) \subseteq DOMAIN P.addons
    BY DEF Claimants
  <1> QED
    BY <1>1, <1>2, <1>3

-----------------------------------------------------------------------------
(* Converged profiles: nothing to drop or to add, every position taken     *)
(* already, no endpoint to replace.                                        *)

Settled(P, c, k) ==
    /\ Dropped(P, c, k) = {} /\ Added(P, c, k) = {}
    /\ \A x \in DOMAIN c : Anchor(P, c, k, x) \subseteq {x}
    /\ \A x \in DOMAIN c : \A a \in Owner(P, c, k, x) :
          ~NeedsEndpoint(P.addons[a], c[x].url, k)

LEMMA SettledIsConverged ==
    ASSUME NEW P \in Profiles, NEW c \in Seq(Descriptors), NEW k,
           Parses(P), Plannable(c), Unambiguous(P, c, k), Settled(P, c, k)
    PROVE  ~PlanRefused(P, c, k) /\ PlanOps(P, c, k) = {}
  <1> DEFINE n     == Len(c)
             slots == AnchorSlots(P, c, k)
             free  == (1..n) \ slots
             rest  == {x \in DOMAIN c : Anchor(P, c, k, x) = {}}
             final == FinalIndex(P, c, k)
  <1>1. n \in Nat /\ DOMAIN c = 1..n /\ IsFiniteSet(DOMAIN c) /\ Cardinality(DOMAIN c) = n
    <2>1. n \in Nat /\ DOMAIN c = 1..n
      OBVIOUS
    <2> HIDE DEF n
    <2> QED
      BY <2>1, FS_Interval
  <1>2. Items(P, c, k) = DOMAIN c
    <2>1. Dropped(P, c, k) = {} /\ Added(P, c, k) = {}
      BY DEF Settled
    <2>2. \A x : x \in Items(P, c, k) <=> x \in DOMAIN c
      BY <2>1 DEF Items
    <2> QED
      BY <2>2, Zenon
  <1>3. \A x \in DOMAIN c : Anchor(P, c, k, x) \subseteq {x}
    BY DEF Settled
  <1>4. slots = UNION {Anchor(P, c, k, x) : x \in DOMAIN c}
    BY <1>2 DEF AnchorSlots
  <1> HIDE DEF n, slots
  <1>5. \A x \in DOMAIN c : x \in slots <=> Anchor(P, c, k, x) # {}
    <2> SUFFICES ASSUME NEW x \in DOMAIN c PROVE x \in slots <=> Anchor(P, c, k, x) # {}
      OBVIOUS
    <2>1. ASSUME x \in slots PROVE Anchor(P, c, k, x) # {}
      <3>1. PICK y \in DOMAIN c : x \in Anchor(P, c, k, y)
        BY <1>4, <2>1
      <3>2. x = y
        BY <1>3, <3>1
      <3> QED
        BY <3>1, <3>2
    <2>2. ASSUME Anchor(P, c, k, x) # {} PROVE x \in slots
      <3>1. x \in Anchor(P, c, k, x)
        BY <1>3, <2>2
      <3> QED
        BY <1>4, <3>1
    <2> QED
      BY <2>1, <2>2
  <1>6. slots \subseteq DOMAIN c
    BY <1>3, <1>4
  <1>7. free = rest
    BY <1>1, <1>5
  <1>8. rest \in SUBSET Nat /\ IsFiniteSet(rest)
    <2>1. rest \in SUBSET DOMAIN c
      OBVIOUS
    <2> HIDE DEF rest
    <2>2. DOMAIN c \subseteq Nat
      BY <1>1
    <2> QED
      BY <1>1, <2>1, <2>2, FS_Subset
  <1>9. final = [x \in DOMAIN c |-> IF x \in rest THEN Nth(rest, Rank(rest, x))
                                    ELSE CHOOSE p \in Anchor(P, c, k, x) : TRUE]
    <2> DEFINE items    == Items(P, c, k)
               floating == {y \in items : Anchor(P, c, k, y) = {}}
               empty    == (1..Cardinality(items)) \ slots
    <2>1. final = [x \in items |-> IF x \in floating THEN Nth(empty, Rank(floating, x))
                                  ELSE CHOOSE p \in Anchor(P, c, k, x) : TRUE]
      BY DEF FinalIndex, slots
    <2>2. items = DOMAIN c
      BY <1>2
    <2>3. floating = rest
      BY <2>2
    <2>4. empty = rest
      BY <1>1, <1>7, <2>2
    <2> HIDE DEF items, floating, empty, rest, final
    <2> QED
      BY <2>1, <2>2, <2>3, <2>4
  <1> HIDE DEF final
  <1>10. \A x \in DOMAIN c : final[x] = x
    <2> SUFFICES ASSUME NEW x \in DOMAIN c PROVE final[x] = x
      OBVIOUS
    <2>1. CASE x \in rest
      <3>1. Nth(rest, Rank(rest, x)) = x
        <4> HIDE DEF rest
        <4> QED
          BY <1>8, <2>1, RankOfNth
      <3> QED
        BY <1>9, <2>1, <3>1
    <2>2. CASE x \notin rest
      <3>1. Anchor(P, c, k, x) = {x}
        BY <1>3, <2>2
      <3>2. (CHOOSE p \in {x} : TRUE) = x
        OBVIOUS
      <3> QED
        BY <1>9, <2>2, <3>1, <3>2
    <2> QED
      BY <2>1, <2>2
  <1>11. DOMAIN final = DOMAIN c
    BY <1>9
  <1>12. Placeable(P, c, k)
    <2>1. \A x, y \in DOMAIN c : x # y => Anchor(P, c, k, x) \cap Anchor(P, c, k, y) = {}
      BY <1>3
    <2>2. AnchorSlots(P, c, k) \subseteq 1..Cardinality(DOMAIN c)
      BY <1>1, <1>6 DEF slots
    <2> QED
      BY <1>2, <2>1, <2>2 DEF Placeable
  <1>13. ~PlanRefused(P, c, k)
    BY <1>12 DEF PlanRefused, Settled
  <1>14. Moves(c, final) = {}
    <2>1. \A x \in DOMAIN c : Rank(DOMAIN c, x) = x
      BY <1>1, RankInterval
    <2> QED
      BY <1>10, <1>11, <2>1 DEF Moves, Stayers
  <1>15. Replacements(P, c, k, final) = {}
    BY DEF Replacements, Stayers, Settled
  <1>16. Removes(P, c, k) = {} /\ Adds(P, c, k, final) = {}
    BY DEF Removes, Adds, Settled
  <1> QED
    BY <1>13, <1>14, <1>15, <1>16 DEF PlanOps, final

-----------------------------------------------------------------------------
(* Starter profiles. *)

Entry(c, k, declared, i) ==
    LET public == Id(c[i]) \in declared
    IN  [mid |-> Id(c[i]), fp |-> StarterFp(c, k, i), state |-> "present",
         position |-> i, endpoint |-> IF public THEN c[i].url ELSE None,
         manage |-> StarterManage \cup IF public THEN {"endpoint"} ELSE {}]

Named(c) == {i \in DOMAIN c : Id(c[i]) # None}

(* A starter has one entry for each named descriptor. *)
LEMMA StarterEntries ==
    ASSUME NEW c \in Seq(Descriptors), NEW k, NEW declared
    PROVE  LET P == Starter(c, k, declared)
           IN  /\ DOMAIN P.addons = 1..Cardinality(Named(c)) /\ P.keep = TRUE
               /\ \A n \in DOMAIN P.addons :
                     /\ Nth(Named(c), n) \in Named(c)
                     /\ P.addons[n] = Entry(c, k, declared, Nth(Named(c), n))
               /\ \A m, n \in DOMAIN P.addons : Nth(Named(c), m) = Nth(Named(c), n) => m = n
  <1> DEFINE P == Starter(c, k, declared)
  <1>1. Named(c) \in SUBSET Nat /\ IsFiniteSet(Named(c))
    <2>1. Len(c) \in Nat /\ DOMAIN c = 1..Len(c)
      OBVIOUS
    <2>2. IsFiniteSet(DOMAIN c) /\ Named(c) \subseteq DOMAIN c
      BY <2>1, FS_Interval DEF Named
    <2> QED
      BY <2>1, <2>2, FS_Subset
  <1>2. P = [addons |-> [n \in 1..Cardinality(Named(c)) |->
                            Entry(c, k, declared, Nth(Named(c), n))],
             keep |-> TRUE]
    BY DEF Starter, Entry, Named
  <1> HIDE DEF P
  <1>3. DOMAIN P.addons = 1..Cardinality(Named(c)) /\ P.keep = TRUE
    BY <1>2
  <1>4. \A n \in DOMAIN P.addons : /\ Nth(Named(c), n) \in Named(c)
                                   /\ P.addons[n] = Entry(c, k, declared, Nth(Named(c), n))
                                   /\ Rank(Named(c), Nth(Named(c), n)) = n
    BY <1>1, <1>2, <1>3, NthOfRank
  <1>5. \A m, n \in DOMAIN P.addons : Nth(Named(c), m) = Nth(Named(c), n) => m = n
    BY <1>4
  <1> QED
    BY <1>3, <1>4, <1>5 DEF P

(* A starter of a collection that can be planned has one for each. *)
LEMMA StarterOfPlannable ==
    ASSUME NEW c \in Seq(Descriptors), NEW k, NEW declared, Plannable(c)
    PROVE  LET P == Starter(c, k, declared)
           IN  /\ DOMAIN P.addons = DOMAIN c /\ P.keep = TRUE
               /\ \A i \in DOMAIN c : P.addons[i] = Entry(c, k, declared, i)
  <1>1. Len(c) \in Nat /\ DOMAIN c = 1..Len(c)
    OBVIOUS
  <1>2. Named(c) = 1..Len(c)
    BY <1>1 DEF Named, Plannable
  <1>3. Cardinality(Named(c)) = Len(c)
    BY <1>1, <1>2, FS_Interval
  <1>4. \A i \in DOMAIN c : Nth(Named(c), i) = i
    BY <1>1, <1>2, NthInterval
  <1> DEFINE P == Starter(c, k, declared)
  <1>5. /\ DOMAIN P.addons = 1..Cardinality(Named(c)) /\ P.keep = TRUE
        /\ \A n \in DOMAIN P.addons : P.addons[n] = Entry(c, k, declared, Nth(Named(c), n))
    BY StarterEntries
  <1> HIDE DEF P
  <1>6. DOMAIN P.addons = DOMAIN c
    BY <1>1, <1>3, <1>5
  <1> QED
    BY <1>4, <1>5, <1>6 DEF P

LEMMA StarterConverged ==
    ASSUME NEW c \in Seq(Descriptors), NEW k \in Keys, NEW declared,
           Plannable(c), Parses(Starter(c, k, declared))
    PROVE  /\ ~PlanRefused(Starter(c, k, declared), c, k)
           /\ PlanOps(Starter(c, k, declared), c, k) = {}
  <1> DEFINE P == Starter(c, k, declared)
  <1>1. /\ P \in Profiles /\ DOMAIN P.addons = DOMAIN c /\ P.keep = TRUE
        /\ \A i \in DOMAIN c : P.addons[i] = Entry(c, k, declared, i)
    BY StarterType, StarterOfPlannable
  <1>2. \A i \in DOMAIN c : c[i].url \in Urls
    <2>1. \A i \in DOMAIN c : c[i] \in Descriptors
      BY <1>1, DomainFacts
    <2> QED
      BY <2>1 DEF Descriptors
  <1> HIDE DEF P
  <1>3. \A i \in DOMAIN c :
           LET s == P.addons[i]
           IN  /\ s.mid = Id(c[i]) /\ s.fp = StarterFp(c, k, i) /\ s.state = "present"
               /\ s.position = i /\ s.endpoint \in {c[i].url, None}
    <2> SUFFICES ASSUME NEW i \in DOMAIN c
                 PROVE  LET s == Entry(c, k, declared, i)
                        IN  /\ s.mid = Id(c[i]) /\ s.fp = StarterFp(c, k, i)
                            /\ s.state = "present" /\ s.position = i
                            /\ s.endpoint \in {c[i].url, None}
      BY <1>1
    <2> QED
      BY DEF Entry
  <1>4. \A i \in DOMAIN c : Candidates(P.addons[i], c, k) = {i}
    <2> SUFFICES ASSUME NEW i \in DOMAIN c PROVE Candidates(P.addons[i], c, k) = {i}
      OBVIOUS
    <2>1. i \in Candidates(P.addons[i], c, k)
      BY <1>3 DEF Candidates, StarterFp
    <2>2. ASSUME NEW j \in Candidates(P.addons[i], c, k), j # i PROVE FALSE
      <3>1. j \in DOMAIN c /\ Id(c[j]) = Id(c[i])
        BY <1>3 DEF Candidates
      <3>2. StarterFp(c, k, i) = <<c[i].url, k>> /\ StarterFp(c, k, j) = <<c[j].url, k>>
        BY <2>2, <3>1 DEF StarterFp, Fingerprint
      <3>3. StarterFp(c, k, i) # None
        BY <1>2, <3>2, NoneAssumption
      <3>4. <<c[j].url, k>> = <<c[i].url, k>>
        BY <1>3, <3>2, <3>3 DEF Candidates, Fingerprint
      <3>5. <<P.addons[i].mid, P.addons[i].fp>> = <<P.addons[j].mid, P.addons[j].fp>>
        BY <1>3, <3>1, <3>2, <3>4
      <3> QED
        BY <1>1, <2>2, <3>1, <3>5 DEF Parses, P
    <2> QED
      BY <2>1, <2>2
  <1>5. \A i \in DOMAIN c : Claimants(P, c, k, i) = {i}
    <2> SUFFICES ASSUME NEW i \in DOMAIN c PROVE Claimants(P, c, k, i) = {i}
      OBVIOUS
    <2>1. \A a \in DOMAIN c : i \in Candidates(P.addons[a], c, k) <=> a = i
      BY <1>4
    <2>2. DOMAIN P.addons = DOMAIN c
      BY <1>1
    <2>3. Claimants(P, c, k, i) = {a \in DOMAIN c : i \in Candidates(P.addons[a], c, k)}
      BY <2>2 DEF Claimants
    <2> QED
      BY <2>1, <2>3
  <1>6. Unambiguous(P, c, k)
    <2>1. \A i \in DOMAIN c : Cardinality({i}) = 1
      BY FS_Singleton
    <2>2. \A i \in DOMAIN c : Cardinality({i}) <= 1
      BY <2>1
    <2> QED
      BY <1>1, <1>4, <1>5, <2>2 DEF Unambiguous
  <1>7. \A i \in DOMAIN c : Owner(P, c, k, i) = {i}
    <2>1. \A i \in DOMAIN c : ~(i > Len(c))
      BY <1>1, DomainFacts
    <2> QED
      BY <1>3, <1>5, <2>1 DEF Owner
  <1>8. Dropped(P, c, k) = {} /\ Added(P, c, k) = {}
    <2>1. \A i \in DOMAIN c : i \notin Dropped(P, c, k)
      <3>1. \A i \in DOMAIN c : \A a \in Claimants(P, c, k, i) : P.addons[a].state # "absent"
        BY <1>3, <1>5
      <3> QED
        BY <1>1, <3>1 DEF Dropped
    <2>2. \A i \in DOMAIN c : i \notin Added(P, c, k)
      BY <1>4 DEF Added
    <2>3. Dropped(P, c, k) \subseteq DOMAIN c /\ Added(P, c, k) \subseteq DOMAIN c
      BY <1>1 DEF Dropped, Added
    <2> QED
      BY <2>1, <2>2, <2>3
  <1>9. \A i \in DOMAIN c : Anchor(P, c, k, i) \subseteq {i}
    BY <1>3, <1>7 DEF Anchor
  <1>10. \A i \in DOMAIN c : ~NeedsEndpoint(P.addons[i], c[i].url, k)
    BY <1>2, <1>3 DEF NeedsEndpoint
  <1>11. Settled(P, c, k)
    BY <1>7, <1>8, <1>9, <1>10 DEF Settled
  <1> QED
    BY <1>1, <1>6, <1>11, SettledIsConverged DEF P

-----------------------------------------------------------------------------
(* A plan that was applied settles. *)

LEMMA AtMostOneElement ==
    ASSUME NEW S, \A x, y \in S : x = y
    PROVE  Cardinality(S) <= 1
  <1>1. CASE S = {}
    BY <1>1, FS_EmptySet
  <1>2. CASE S # {}
    <2>1. PICK x : x \in S
      BY <1>2
    <2>2. S = {x}
      BY <2>1
    <2>3. Cardinality(S) = 1
      BY <2>2, FS_Singleton
    <2> QED
      BY <2>3
  <1> QED
    BY <1>1, <1>2

LEMMA ResolvedPublic ==
    ASSUME NEW url \in Urls, NEW secrets
    PROVE  Resolved(url, secrets) = url
  BY EndpointAssumption DEF Resolved

(* An endpoint is only replaced for an entry without a fingerprint, by the *)
(* public URL it wishes for, which no other entry of the id selects.       *)
LEMMA ReplacedComparably ==
    ASSUME NEW P \in Profiles, NEW c \in Seq(Descriptors), NEW k \in Keys,
           Comparable(P), NEW i \in DOMAIN c, NEW a \in Claimants(P, c, k, i),
           NeedsEndpoint(P.addons[a], c[i].url, k)
    PROVE  /\ P.addons[a].mid = Id(c[i]) /\ P.addons[a].fp = None
           /\ P.addons[a].endpoint \in Urls
           /\ \A b \in DOMAIN P.addons :
                 P.addons[b].mid = P.addons[a].mid /\ P.addons[b].fp # None
                   => P.addons[b].fp # Fingerprint(P.addons[a].endpoint, k)
  <1> DEFINE s == P.addons[a]
  <1>1. a \in DOMAIN P.addons /\ i \in Candidates(s, c, k)
    BY DEF Claimants
  <1>2. s.fp # None => Fingerprint(c[i].url, k) = s.fp
    BY <1>1 DEF Candidates
  <1>3. s.mid = Id(c[i])
    BY <1>1 DEF Candidates
  <1> HIDE DEF s
  <1>4. /\ "endpoint" \in s.manage /\ s.endpoint # None
        /\ Fingerprint(c[i].url, k) # IF s.endpoint \in Urls THEN Fingerprint(s.endpoint, k)
                                      ELSE s.fp
    BY DEF NeedsEndpoint, s
  <1>5. /\ s.endpoint \notin Urls => s.fp # None
        /\ s.endpoint \in Urls /\ s.fp # None => s.fp[1] = s.endpoint
        /\ s.endpoint \in Urls /\ s.fp = None =>
              \A b \in DOMAIN P.addons :
                 P.addons[b].mid = s.mid /\ P.addons[b].fp # None =>
                     P.addons[b].fp[1] # s.endpoint
    BY <1>1, <1>4 DEF Comparable, s
  <1>6. s.endpoint \in Urls
    BY <1>2, <1>4, <1>5
  <1>7. s.fp = None
    <2> SUFFICES ASSUME s.fp # None PROVE FALSE
      OBVIOUS
    <2>1. Fingerprint(c[i].url, k)[1] = s.endpoint
      BY <1>2, <1>5, <1>6
    <2>2. c[i].url = s.endpoint
      BY <2>1 DEF Fingerprint
    <2> QED
      BY <1>4, <1>6, <2>2
  <1>9. ASSUME NEW b \in DOMAIN P.addons, P.addons[b].mid = s.mid, P.addons[b].fp # None
        PROVE  P.addons[b].fp # Fingerprint(s.endpoint, k)
    <2>1. P.addons[b].fp[1] # s.endpoint
      BY <1>5, <1>6, <1>7, <1>9
    <2>2. Fingerprint(s.endpoint, k)[1] = s.endpoint
      BY DEF Fingerprint
    <2> QED
      BY <2>1, <2>2
  <1> QED
    BY <1>3, <1>6, <1>7, <1>9 DEF s

(* Where an entry's descriptor went, the entry follows. *)
LEMMA CandidatesFollow ==
    ASSUME NEW P \in Profiles, NEW c \in Seq(Descriptors), NEW k \in Keys, NEW secrets,
           NEW d, ~PlanRefused(P, c, k), Placed(P, c, k, secrets, d), Comparable(P),
           NEW i \in DOMAIN c \ Dropped(P, c, k), NEW a \in DOMAIN P.addons
    PROVE  FinalIndex(P, c, k)[i] \in Candidates(P.addons[a], d, k)
             <=> i \in Candidates(P.addons[a], c, k)
  <1> DEFINE p == FinalIndex(P, c, k)[i]
  <1>1. Unambiguous(P, c, k)
    BY DEF PlanRefused
  <1>2. p \in DOMAIN d /\ Id(d[p]) = Id(c[i])
    BY DEF Placed, Id
  <1>3. /\ \A b \in Owner(P, c, k, i) :
              NeedsEndpoint(P.addons[b], c[i].url, k) =>
                  d[p].url = Resolved(P.addons[b].endpoint, secrets)
        /\ (\A b \in Owner(P, c, k, i) : ~NeedsEndpoint(P.addons[b], c[i].url, k))
              => d[p] = c[i]
    BY DEF Placed
  <1>4. /\ Owner(P, c, k, i) \subseteq Claimants(P, c, k, i)
        /\ \A x, y \in Claimants(P, c, k, i) : x = y
    BY <1>1, OwnerFacts
  <1> HIDE DEF p
  <1>5. CASE \A b \in Owner(P, c, k, i) : ~NeedsEndpoint(P.addons[b], c[i].url, k)
    <2>1. d[p] = c[i]
      BY <1>3, <1>5
    <2> QED
      BY <1>2, <2>1 DEF Candidates, p
  <1>6. ASSUME NEW b \in Owner(P, c, k, i), NeedsEndpoint(P.addons[b], c[i].url, k)
        PROVE  p \in Candidates(P.addons[a], d, k) <=> i \in Candidates(P.addons[a], c, k)
    <2>1. /\ P.addons[b].mid = Id(c[i]) /\ P.addons[b].fp = None
          /\ P.addons[b].endpoint \in Urls
          /\ P.addons[a].mid = P.addons[b].mid /\ P.addons[a].fp # None
               => P.addons[a].fp # Fingerprint(P.addons[b].endpoint, k)
      BY <1>4, <1>6, ReplacedComparably
    <2>2. d[p].url = P.addons[b].endpoint
      BY <1>3, <1>6, <2>1, ResolvedPublic
    <2>3. ASSUME i \in Candidates(P.addons[a], c, k) PROVE p \in Candidates(P.addons[a], d, k)
      <3>1. a \in Claimants(P, c, k, i)
        BY <2>3 DEF Claimants
      <3>2. a = b
        BY <1>4, <3>1
      <3> QED
        BY <1>2, <2>1, <3>2 DEF Candidates
    <2>4. ASSUME p \in Candidates(P.addons[a], d, k) PROVE i \in Candidates(P.addons[a], c, k)
      <3>1. P.addons[a].mid = Id(c[i])
        BY <1>2, <2>4 DEF Candidates
      <3>2. P.addons[a].fp = None
        <4>1. P.addons[a].fp # None => Fingerprint(d[p].url, k) = P.addons[a].fp
          BY <2>4 DEF Candidates
        <4> QED
          BY <2>1, <2>2, <3>1, <4>1
      <3> QED
        BY <3>1, <3>2 DEF Candidates
    <2> QED
      BY <2>3, <2>4
  <1> QED
    BY <1>5, <1>6 DEF p

LEMMA AppliedIsSettled ==
    ASSUME NEW P \in Profiles, NEW c \in Seq(Descriptors), NEW k \in Keys, NEW secrets,
           NEW d \in Seq(Descriptors), ~PlanRefused(P, c, k),
           Placed(P, c, k, secrets, d), Comparable(P)
    PROVE  ~PlanRefused(P, d, k) /\ PlanOps(P, d, k) = {}
  <1> DEFINE items == DOMAIN c \ Dropped(P, c, k)
             final == FinalIndex(P, c, k)
             A(n)  == P.addons[n]
  <1>1. /\ Parses(P) /\ Plannable(c) /\ Unambiguous(P, c, k) /\ Placeable(P, c, k)
    BY DEF PlanRefused
  <1>2. /\ Items(P, c, k) = items /\ Added(P, c, k) = {}
        /\ \A i \in items : final[i] \in DOMAIN d /\ d[final[i]].manifest = c[i].manifest
        /\ \A p \in DOMAIN d : \E i \in items : final[i] = p
    BY DEF Placed
  <1>3. \A i \in items : \A a \in DOMAIN P.addons :
           final[i] \in Candidates(P.addons[a], d, k) <=> i \in Candidates(P.addons[a], c, k)
    BY CandidatesFollow
  <1>4. \A i \in items : \A a : a \in Claimants(P, d, k, final[i]) <=> a \in Claimants(P, c, k, i)
    BY <1>3 DEF Claimants
  <1>5. \A i \in items : Claimants(P, d, k, final[i]) = Claimants(P, c, k, i)
    BY <1>4
  <1>6. \A i \in items : Owner(P, d, k, final[i]) = Owner(P, c, k, i)
    <2>1. \A i \in items : ~(i > Len(c)) /\ ~(final[i] > Len(d))
      BY <1>2, DomainFacts
    <2> QED
      BY <1>5, <2>1 DEF Owner
  <1>7. \A i \in items : Anchor(P, d, k, final[i]) \subseteq {final[i]}
    <2> SUFFICES ASSUME NEW i \in items, NEW p \in Anchor(P, d, k, final[i])
                 PROVE  p = final[i]
      OBVIOUS
    <2>1. p \in Anchor(P, c, k, i)
      BY <1>6 DEF Anchor
    <2>2. i \in Items(P, c, k)
      BY <1>2
    <2>3. final[i] \in Anchor(P, c, k, i)
      <3> DEFINE rest == {x \in Items(P, c, k) : Anchor(P, c, k, x) = {}}
      <3>1. \A x \in Items(P, c, k) \ rest : final[x] \in Anchor(P, c, k, x)
        BY <1>1, FinalValues
      <3> QED
        BY <2>1, <2>2, <3>1
    <2> QED
      BY <1>1, <2>1, <2>2, <2>3, AnchorUnique
  <1>8. \A i \in items : Id(d[final[i]]) = Id(c[i])
    BY <1>2 DEF Id
  <1>9. \A i \in items : \A a \in Owner(P, c, k, i) :
           ~NeedsEndpoint(P.addons[a], d[final[i]].url, k)
    <2> SUFFICES ASSUME NEW i \in items, NEW a \in Owner(P, c, k, i)
                 PROVE  ~NeedsEndpoint(P.addons[a], d[final[i]].url, k)
      OBVIOUS
    <2>1. a \in Claimants(P, c, k, i) /\ \A b \in Owner(P, c, k, i) : b = a
      BY <1>1, OwnerFacts
    <2>2. CASE NeedsEndpoint(P.addons[a], c[i].url, k)
      <3>1. P.addons[a].endpoint \in Urls
        BY <2>1, <2>2, ReplacedComparably
      <3>2. d[final[i]].url = P.addons[a].endpoint
        <4>1. d[final[i]].url = Resolved(P.addons[a].endpoint, secrets)
          BY <2>2 DEF Placed
        <4>2. Resolved(P.addons[a].endpoint, secrets) = P.addons[a].endpoint
          BY <3>1, ResolvedPublic
        <4> QED
          BY <4>1, <4>2
      <3> QED
        BY <3>1, <3>2 DEF NeedsEndpoint
    <2>3. CASE ~NeedsEndpoint(P.addons[a], c[i].url, k)
      <3>1. \A b \in Owner(P, c, k, i) : ~NeedsEndpoint(P.addons[b], c[i].url, k)
        BY <2>1, <2>3
      <3>2. d[final[i]] = c[i]
        BY <3>1 DEF Placed
      <3> QED
        BY <2>3, <3>2
    <2> QED
      BY <2>2, <2>3
  <1> HIDE DEF items, final
  <1>10. Plannable(d)
    <2>1. \A i \in items : Id(c[i]) # None
      BY <1>1 DEF Plannable, items
    <2> QED
      BY <1>2, <1>8, <2>1 DEF Plannable
  <1>11. Unambiguous(P, d, k)
    <2>1. ASSUME NEW a \in DOMAIN P.addons
          PROVE  Cardinality(Candidates(P.addons[a], d, k)) <= 1
      <3>1. ASSUME NEW p \in Candidates(P.addons[a], d, k), NEW q \in Candidates(P.addons[a], d, k)
            PROVE  p = q
        <4>1. p \in DOMAIN d /\ q \in DOMAIN d
          BY DEF Candidates
        <4>2. PICK i \in items, j \in items : p = final[i] /\ q = final[j]
          BY <1>2, <4>1
        <4>3. i \in Candidates(P.addons[a], c, k) /\ j \in Candidates(P.addons[a], c, k)
          BY <1>3, <4>2
        <4>4. i = j
          BY <1>1, <4>3, CandidateUnique
        <4> QED
          BY <4>2, <4>4
      <3> QED
        BY <3>1, AtMostOneElement
    <2>2. ASSUME NEW p \in DOMAIN d PROVE Cardinality(Claimants(P, d, k, p)) <= 1
      <3>1. PICK i \in items : p = final[i]
        BY <1>2
      <3> QED
        BY <1>1, <1>5, <3>1 DEF Unambiguous, items
    <2> QED
      BY <2>1, <2>2 DEF Unambiguous
  <1>12. Dropped(P, d, k) = {}
    <2> SUFFICES ASSUME NEW p \in Dropped(P, d, k) PROVE FALSE
      OBVIOUS
    <2>1. p \in DOMAIN d
      BY DEF Dropped
    <2>2. PICK i \in items : p = final[i]
      BY <1>2, <2>1
    <2>3. i \in Dropped(P, c, k)
      BY <1>5, <2>2 DEF Dropped, items
    <2> QED
      BY <2>3 DEF items
  <1>13. Added(P, d, k) = {}
    <2> SUFFICES ASSUME NEW a \in Added(P, d, k) PROVE FALSE
      OBVIOUS
    <2>1. /\ a \in DOMAIN P.addons /\ P.addons[a].state = "present"
          /\ "state" \in P.addons[a].manage /\ Candidates(P.addons[a], d, k) = {}
      BY DEF Added
    <2>2. PICK i : i \in Candidates(P.addons[a], c, k)
      <3>1. a \notin Added(P, c, k)
        BY <1>2
      <3> QED
        BY <2>1, <3>1 DEF Added
    <2>3. i \in DOMAIN c
      BY <2>2 DEF Candidates
    <2>4. a \in Claimants(P, c, k, i)
      BY <2>1, <2>2 DEF Claimants
    <2>5. \A b \in Claimants(P, c, k, i) : P.addons[b].state # "absent"
      BY <1>1, <2>1, <2>3, <2>4, OwnerFacts
    <2>6. i \in items
      BY <2>3, <2>4, <2>5 DEF items, Dropped
    <2> QED
      BY <1>3, <2>1, <2>2, <2>6
  <1>14. \A p \in DOMAIN d : Anchor(P, d, k, p) \subseteq {p}
    BY <1>2, <1>7
  <1>15. \A p \in DOMAIN d : \A a \in Owner(P, d, k, p) :
            ~NeedsEndpoint(P.addons[a], d[p].url, k)
    BY <1>2, <1>6, <1>9
  <1>16. Settled(P, d, k)
    BY <1>12, <1>13, <1>14, <1>15 DEF Settled
  <1> QED
    BY <1>1, <1>10, <1>11, <1>16, SettledIsConverged

-----------------------------------------------------------------------------
(* A starter profile restores the order it was made from. *)

LEMMA IntervalCardinality ==
    ASSUME NEW n \in Nat
    PROVE  Cardinality(1..n) = n
  BY FS_Interval

(* A plan without operations leaves every item where it is. *)
LEMMA ConvergedIsPlaced ==
    ASSUME NEW P \in Profiles, NEW c \in Seq(Descriptors), NEW k, NEW secrets,
           ~PlanRefused(P, c, k), PlanOps(P, c, k) = {}
    PROVE  Placed(P, c, k, secrets, c)
  <1> DEFINE items == DOMAIN c \ Dropped(P, c, k)
             final == FinalIndex(P, c, k)
  <1>1. /\ Removes(P, c, k) = {} /\ Adds(P, c, k, final) = {}
        /\ Moves(c, final) = {} /\ Replacements(P, c, k, final) = {}
    BY DEF PlanOps
  <1>2. Dropped(P, c, k) = {}
    BY <1>1 DEF Removes
  <1>3. Added(P, c, k) = {}
    BY <1>1 DEF Adds
  <1>4. Items(P, c, k) = DOMAIN c /\ items = DOMAIN c
    BY <1>2, <1>3 DEF Items
  <1>5. DOMAIN final = DOMAIN c
    BY <1>4 DEF FinalIndex
  <1>6. Len(c) \in Nat /\ DOMAIN c = 1..Len(c) /\ Cardinality(items) = Len(c)
    <2>1. Len(c) \in Nat /\ DOMAIN c = 1..Len(c)
      OBVIOUS
    <2>2. Cardinality(1..Len(c)) = Len(c)
      BY <2>1, IntervalCardinality
    <2> HIDE DEF items
    <2> QED
      BY <1>4, <2>1, <2>2
  <1> HIDE DEF final
  <1>7. \A i \in items : final[i] = i
    <2>1. Stayers(c, final) = DOMAIN c
      BY <1>5 DEF Stayers
    <2>2. \A i \in DOMAIN c : final[i] = Rank(DOMAIN final, i)
      BY <1>1, <2>1 DEF Moves
    <2>3. \A i \in 1..Len(c) : Rank(1..Len(c), i) = i
      BY <1>6, RankInterval
    <2> QED
      BY <1>4, <1>5, <1>6, <2>2, <2>3
  <1>8. \A i \in items : \A a \in Owner(P, c, k, i) : ~NeedsEndpoint(P.addons[a], c[i].url, k)
    <2> SUFFICES ASSUME NEW i \in items, NEW a \in Owner(P, c, k, i),
                        NeedsEndpoint(P.addons[a], c[i].url, k)
                 PROVE  FALSE
      OBVIOUS
    <2>1. i \in Stayers(c, final)
      BY <1>4, <1>5 DEF Stayers
    <2> DEFINE o == [op |-> "replaceEndpoint", mid |-> Id(c[i]), final |-> final[i],
                     endpoint |-> P.addons[a].endpoint, bound |-> None]
    <2>2. o \in Replacements(P, c, k, final)
      BY <2>1 DEF Replacements
    <2> HIDE DEF o
    <2> QED
      BY <1>1, <2>2
  <1> HIDE DEF items
  <1>9. Placed(P, c, k, secrets, c)
         <=> LET f == final
             IN  /\ Items(P, c, k) = items /\ Added(P, c, k) = {}
                 /\ DOMAIN c = 1..Cardinality(items)
                 /\ \A i \in items : /\ f[i] \in DOMAIN c
                                     /\ c[f[i]].rest = c[i].rest
                                     /\ c[f[i]].manifest = c[i].manifest
                 /\ \A i, j \in items : f[i] = f[j] => i = j
                 /\ \A p \in DOMAIN c : \E i \in items : f[i] = p
                 /\ \A i \in items : \A a \in Owner(P, c, k, i) :
                       NeedsEndpoint(P.addons[a], c[i].url, k) =>
                           c[f[i]].url = Resolved(P.addons[a].endpoint, secrets)
                 /\ \A i \in items :
                       (\A a \in Owner(P, c, k, i) : ~NeedsEndpoint(P.addons[a], c[i].url, k))
                           => c[f[i]] = c[i]
    BY DEF Placed, items, final
  <1> QED
    BY <1>3, <1>4, <1>6, <1>7, <1>8, <1>9
=============================================================================
