---------------------------- MODULE MCRedaction ----------------------------
(* Redaction on documents of one leaf on every path of up to three parts,  *)
(* and of two leaves on some.                                              *)
EXTENDS Redaction

MCNames == {"plain", "uuid", "apiToken", "script", "addonName", "proxy", "credentials",
            "url", "publicUrl", "publicIp", "presets", "options"}

(* The proxy's fields but one are all alike. *)
Parts == (MCNames \ {"publicUrl", "publicIp"}) \cup {Index}

Paths == UNION {[1..n -> Parts] : n \in 1..3}

Starts(parts) == {path \in Paths : path[1] \in parts}

OneLeaf(kind, paths) ==
    {[kind |-> kind, leaves |-> [p \in {path} |-> v]] : path \in paths, v \in Scalars}

Two == {<<Index, "plain">>, <<Index, "apiToken", "plain">>, <<Index, "apiToken", "url">>}

TwoLeaves ==
    {[kind |-> "collection", leaves |-> [p \in {path, other} |-> IF p = path THEN v ELSE "url"]] :
        path, other \in Two, v \in {"text", "host label"}}

MCDocuments ==
    OneLeaf("backup", Starts(Parts \ {Index})) \cup OneLeaf("collection", Starts({Index}))
      \cup OneLeaf("template", {<<"plain">>})
      \cup OneLeaf("malformed", {<<"uuid">>}) \cup TwoLeaves
=============================================================================
