--------------------------- MODULE MCAccountApply ---------------------------
(* Instances of AccountApply: four collections of two shapes, A and A2     *)
(* being one shape in two forms, and a fifth one that cannot be hashed.    *)
EXTENDS AccountClaims

MCShape == [c \in Collections |->
              CASE c \in {"A", "A2"} -> "a"
                [] c \in {"B", "B2"} -> "b"
                [] OTHER -> "x"]
=============================================================================
