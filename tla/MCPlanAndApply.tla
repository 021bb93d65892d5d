--------------------------- MODULE MCPlanAndApply ---------------------------
(* PlanAndApply on small sets. *)
EXTENDS PlanClaims, SequencesExt

CONSTANTS a, b, b2, bad,           \* manifests; b and b2 have one id
          u, v, w, h,              \* URLs: w is private, h is plain http
          r, r2,                   \* secret references
          p1, p2, p3, locked       \* what else is in a descriptor

MCManifests == {a, b, b2, bad}
MCIds == {"a", "b"}
MCIdOf == a :> "a" @@ b :> "b" @@ b2 :> "b" @@ bad :> None
MCUrls == {u, v, w, h}
MCKeys == {1, 2}

Rest(i) == CASE i = 1 -> p1 [] i = 2 -> p2 [] OTHER -> p3

(* Collections of the manifests ms and the URLs us, each descriptor with   *)
(* something of its own.                                                   *)
Collections(n, ms, us) ==
    {[i \in 1..n |-> [manifest |-> f[i][1], url |-> f[i][2], rest |-> Rest(i)]] :
        f \in [1..n -> ms \X us]}

(* What is locked in the first descriptor. *)
Locked(c) == [c EXCEPT ![1].rest = locked]

(* An entry manages what it states, and its state if st.                   *)
Entry(mid, fp, state, position, endpoint, st) ==
    [mid |-> mid, fp |-> fp, state |-> state, position |-> position,
     endpoint |-> endpoint,
     manage |-> (IF st THEN {"state"} ELSE {})
                \cup (IF position # None THEN {"position"} ELSE {})
                \cup (IF endpoint # None THEN {"endpoint"} ELSE {})]

Entries(ids, fps, positions, endpoints, sts) ==
    {Entry(e[1], e[2], e[3], e[4], e[5], e[6]) :
        e \in ids \X fps \X {"present", "absent"} \X positions \X endpoints \X sts}

Steady ==
    [key |-> 1, secrets |-> (r :> u @@ r2 :> v),
     served |-> (u :> a @@ v :> b @@ w :> b @@ h :> None)]

SteadyWorlds == {Steady}
NoPromotions == {None}

-----------------------------------------------------------------------------
(* One entry of every kind, or two at once, and the starters, on all kinds *)
(* of collections of up to three add-ons.                                  *)
ProfileAccounts ==
    Collections(0, {a, b}, {u, v}) \cup Collections(1, {a, b, bad}, {u, v})
      \cup Collections(2, {a, b}, {u, v})
      \cup {Locked(c) : c \in Collections(2, {a, b}, {u, v})}
      \cup {c \in Collections(3, {a, b}, {u, v}) :
                 c[1].manifest = a /\ c[1].url = u /\ ~Twins(c)}

OneEntry ==
    {[addons |-> <<s>>, keep |-> keep] :
        s \in Entries({"a"}, {None, <<u, 1>>}, {None, 1, 3}, {None, u, v, r2, h}, BOOLEAN),
        keep \in BOOLEAN}

(* The order of the entries of a profile does not matter. *)
Some == Entries({"a", "b"}, {None, <<u, 1>>}, {None, 1, 3}, {None, v}, {TRUE})
          \cup {Entry("b", None, "absent", None, None, FALSE),
                Entry("a", <<v, 1>>, "absent", None, None, TRUE)}
TwoEntries ==
    {[addons |-> SetToSeq({s, t}), keep |-> TRUE] : s, t \in Some}

ProfileSet == OneEntry \cup TwoEntries
Publics == {{}, {"a"}}
NoPublics == {{}}

(* Promotions, with an account and a world that change. *)
PrimaryFirst ==
    {c \in Collections(2, {a, b, b2}, {u, v}) : c[1].manifest = a /\ c[1].url = u}
PromotionAccounts ==
    Collections(1, {a, b}, {u}) \cup PrimaryFirst
      \cup {Reverse(c) : c \in {d \in PrimaryFirst : d[2].url = v}}
World(k, s, m) ==
    [key |-> k, secrets |-> (r :> u @@ r2 :> s),
     served |-> (u :> a @@ v :> m @@ w :> b @@ h :> None)]
PromotionWorlds ==
    {World(2, v, b)} \cup {World(1, s, b) : s \in {u, v, w, h, None}}
      \cup {World(1, v, m) : m \in {a, b2, None}}
PromotionSet ==
    {[mid |-> "a", primary |-> r, standby |-> r2, allowPrivate |-> private] :
        private \in BOOLEAN}
PromotionProfiles ==
    {[addons |-> <<Entry("a", None, "present", None, r2, TRUE)>>, keep |-> TRUE]}
=============================================================================
