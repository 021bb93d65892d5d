-------------------------- MODULE MCReviewedApply --------------------------
(* ReviewedApply with two add-ons, b and a, which is at u or at v; at v it  *)
(* may be protected, and the server may return either form for the other.  *)
EXTENDS ReviewedApply, AccountRefinement, TLC

CONSTANTS a, b, u, v, h, r, plain, locked

MCIdOf == a :> "a" @@ b :> "b"
MCSecrets == r :> v
MCUrls == {u, v, h}

Base == [manifest |-> b, url |-> u, rest |-> plain]
At(url, rest) == [manifest |-> a, url |-> url, rest |-> rest]

MCCollections ==
    {<<Base>>, <<At(u, plain), Base>>} \cup
    {<<Base, x>> : x \in {At(u, plain), At(v, plain), At(v, locked)}}

MCShape ==
    [c \in MCCollections |-> [i \in DOMAIN c |-> <<MCIdOf[c[i].manifest], c[i].url>>]]
MCShapes == {MCShape[c] : c \in MCCollections}

Want(mid, fp, state, position, endpoint) ==
    [addons |-> <<[mid |-> mid, fp |-> fp, state |-> state, position |-> position,
                   endpoint |-> endpoint, manage |-> {"state", "position", "endpoint"}]>>,
     keep |-> TRUE]

(* Move a behind b and to v; remove a; give it an endpoint without https.  *)
MCReviewed ==
    {Want("a", None, "present", 2, v), Want("a", None, "absent", None, None),
     Want("a", None, "present", None, h)}

Symmetry == Permutations(Procs)
=============================================================================
