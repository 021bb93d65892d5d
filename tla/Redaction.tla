----------------------------- MODULE Redaction -----------------------------
(***************************************************************************)
(* The copies made for sharing: `aiostreams redact-backup` with the check  *)
(* of `aiostreams validate-backup` (aiostreams.py), and `backup redact`    *)
(* (privacy.py).                                                           *)
(*                                                                         *)
(* A document is a function from the paths of its leaves to their values.  *)
(* A path is a sequence of names and of Index, which stands for a place in *)
(* a list: a collection is a list, all other documents are objects.  Of a  *)
(* name only the lists of the code it is on are known, of a value only its *)
(* JSON type and what the regular expressions find in it.                  *)
(***************************************************************************)
EXTENDS Naturals, Sequences, FiniteSets

CONSTANTS
    Names,          \* names of object members
    TopSecrets,     \* those of _TOP_LEVEL_SECRETS
    TopText,        \* those of _TOP_LEVEL_FREE_TEXT
    Suspicious,     \* those _suspicious_name finds a token in
    FreeText,       \* those with one of _FREE_TEXT_TOKENS
    Sensitive,      \* those is_sensitive_key accepts
    Index,          \* any place in a list
    Documents,      \* [kind, leaves]: the files a user may have
    NoFile

ProxySecrets == {"credentials", "url", "publicUrl", "publicIp"}

ASSUME NamesAssumption ==
    /\ {"proxy", "presets", "options"} \cup ProxySecrets \subseteq Names
    /\ UNION {TopSecrets, TopText, Suspicious, FreeText, Sensitive} \subseteq Names
    /\ Index \notin Names
    /\ "credentials" \in Suspicious \cap Sensitive

(* Strings: <redacted> itself; an endpoint label without and with its host *)
(* and a text with one; a URL, a text with a URL or an assignment such as  *)
(* token=... in it, a scheme with nothing behind it, and any other.        *)
Labels == {"label", "prose label"}
HostLabels == {"host label", "prose host label"}
Strings == {"redacted", "url", "prose url", "assignment", "scheme", "text", "empty"}
             \cup Labels \cup HostLabels
Scalars == Strings \cup {"null", "false", "true", "0", "int", "0.0", "float"}

TypeOf(v) ==
    CASE v \in Strings -> "string"
      [] v \in {"false", "true"} -> "boolean"
      [] v \in {"0", "int"} -> "integer"
      [] v \in {"0.0", "float"} -> "float"
      [] OTHER -> "null"

(* A template or a dashboard export is a "template", an object that breaks *)
(* the schema of a backup "malformed".                                     *)
Kinds == {"backup", "template", "malformed", "collection"}

Document(d) ==
    /\ d.kind \in Kinds
    /\ IsFiniteSet(DOMAIN d.leaves)
    /\ \A path \in DOMAIN d.leaves :
          /\ path \in Seq(Names \cup {Index}) /\ path # <<>>
          /\ path[1] = Index <=> d.kind = "collection"
          /\ d.leaves[path] \in Scalars

ASSUME DocumentsAssumption == \A d \in Documents : Document(d)

-----------------------------------------------------------------------------
(* check_backup. *)

NamesOn(path) == {path[n] : n \in DOMAIN path} \ {Index}

(* The first and the last name on the path to a leaf of an object.         *)
Top(path) == path[1]

Leaf(path) ==
    LET named == {n \in DOMAIN path : path[n] # Index}
    IN  path[CHOOSE n \in named : \A m \in named : m <= n]

(* <redacted> is somewhere in the string. *)
SafelyRedacted(v) == v \in {"redacted"} \cup Labels \cup HostLabels

HasValue(v) == v \notin {"null", "empty"} /\ ~SafelyRedacted(v)

Credential(path, v) ==
    /\ HasValue(v)
    /\ \/ Top(path) \in TopSecrets
       \/ "credentials" \in NamesOn(path)
       \/ Top(path) = "proxy" /\ Leaf(path) \in ProxySecrets
       \/ Leaf(path) \in Suspicious

(* The string starts with the scheme of a URL. *)
UrlToReview(v) == v \in {"url", "scheme"}

TextToReview(path, v) ==
    v \in Strings /\ ~SafelyRedacted(v) /\ Leaf(path) \in FreeText

(* The findings on the leaves, by their codes. *)
LeafFindings(leaves) ==
    {code \in {"credential_values", "url_review_required", "free_text_review_required"} :
        \E p \in DOMAIN leaves :
            \/ code = "credential_values" /\ Credential(p, leaves[p])
            \/ code = "url_review_required" /\ UrlToReview(leaves[p])
            \/ code = "free_text_review_required" /\ TextToReview(p, leaves[p])}

(* All findings; the leaves of a document that is no object are not read.  *)
Check(d) ==
    CASE d.kind = "backup" -> LeafFindings(d.leaves)
      [] d.kind = "template" -> {"template_artifact"} \cup LeafFindings(d.leaves)
      [] d.kind = "malformed" -> {"schema"} \cup LeafFindings(d.leaves)
      [] d.kind = "collection" -> {"invalid_root"}

(* What validate-backup exits with 2 for; the others are warnings. *)
Errors == {"invalid_root", "schema", "template_artifact", "credential_values"}

-----------------------------------------------------------------------------
(* redact_backup. *)

(* Mutant of Forced: the name of the leaf alone decides, as in the check.  *)
ForcedByLeaf(path) ==
    \/ Top(path) \in TopSecrets \cup TopText
    \/ Leaf(path) \in Suspicious \cup FreeText
    \/ Top(path) = "proxy" /\ Leaf(path) \in ProxySecrets

(* One of the names on the way to the leaf says that it is to be masked.   *)
Forced(path) ==
    \/ Top(path) \in TopSecrets \cup TopText
    \/ NamesOn(path) \cap (Suspicious \cup FreeText \cup {"credentials"}) # {}
    \/ Top(path) = "proxy" /\ NamesOn(path) \cap ProxySecrets # {}
    \/ Top(path) = "presets" /\ "options" \in NamesOn(path)

(* Mutant of RedactedScalar: everything becomes a string. *)
RedactedString(v) == "redacted"

(* _redacted_scalar keeps the type. *)
RedactedScalar(v) ==
    CASE v \in Strings -> "redacted"
      [] TypeOf(v) = "boolean" -> "false"
      [] TypeOf(v) = "integer" -> "0"
      [] TypeOf(v) = "float" -> "0.0"
      [] OTHER -> "null"

(* The URLs in a string become labels, without the host if hide; a label   *)
(* that shows its host is itself taken for a URL.                          *)
Relabelled(v, hide) ==
    CASE v \in {"url", "host label"} -> IF hide THEN "label" ELSE "host label"
      [] v \in {"prose url", "prose host label"} ->
            IF hide THEN "prose label" ELSE "prose host label"
      [] OTHER -> v

(* Mutant of Sanitized: what is masked already is marked once more. *)
SanitizedAgain(v) ==
    CASE v = "assignment" -> "prose label"
      [] v = "label" -> "prose label"
      [] OTHER -> Relabelled(v, TRUE)

(* sanitize_text also masks the values of assignments. *)
Sanitized(v) == IF v = "assignment" THEN "prose label" ELSE Relabelled(v, TRUE)

RedactBackup(leaves) ==
    [p \in DOMAIN leaves |->
        IF Forced(p) THEN RedactedScalar(leaves[p]) ELSE Sanitized(leaves[p])]

Changed(before, after) ==
    Cardinality({p \in DOMAIN before : before[p] # after[p]})

-----------------------------------------------------------------------------
(* redact_document: what is under a sensitive name is replaced whole.      *)

(* Mutant of Kept: only a value that is itself under a sensitive name. *)
KeptUnlessNested(path) == path

(* How much of the path is left. *)
Kept(path) ==
    LET at == {n \in DOMAIN path : path[n] \in Sensitive}
    IN  IF at = {} THEN path
        ELSE SubSeq(path, 1, CHOOSE n \in at : \A m \in at : n <= m)

RedactDocument(leaves, hide) ==
    [q \in {Kept(p) : p \in DOMAIN leaves} |->
        IF q[Len(q)] \in Sensitive THEN "redacted"
        ELSE Relabelled(leaves[q], hide)]

-----------------------------------------------------------------------------
(* The commands, and the files they are given. *)
VARIABLES
    source,     \* the input file
    copy,       \* the file at --out, or NoFile
    by,         \* history: the command that made the source, or "user"
    findings,   \* what validate-backup printed last
    changed,    \* how many values redact-backup said it masked
    exit        \* the exit code of the last command

vars == <<source, copy, by, findings, changed, exit>>

Commands == {"redact-backup", "redact", "redact --hide-hosts"}

Init ==
    /\ source \in Documents
    /\ copy = NoFile
    /\ by = "user"
    /\ findings = {}
    /\ changed = 0
    /\ exit = 0

(* Mutant of ValidateBackup: it exits with the number of errors.           *)
ValidateBackupCounting ==
    /\ findings' = Check(source)
    /\ exit' = Cardinality(findings' \cap Errors)
    /\ UNCHANGED <<source, copy, by, changed>>

ValidateBackup ==
    /\ findings' = Check(source)
    /\ exit' = IF findings' \cap Errors = {} THEN 0 ELSE 2
    /\ UNCHANGED <<source, copy, by, changed>>

(* Any error but credential_values, or an output path that is taken. *)
BackupRefused ==
    /\ Check(source) \cap (Errors \ {"credential_values"}) # {} \/ copy # NoFile
    /\ exit' = 2
    /\ UNCHANGED <<source, copy, by, findings, changed>>

BackupRedacted ==
    /\ Check(source) \cap (Errors \ {"credential_values"}) = {} /\ copy = NoFile
    /\ copy' = [by |-> "redact-backup", kind |-> "backup",
                leaves |-> RedactBackup(source.leaves)]
    /\ changed' = Changed(source.leaves, copy'.leaves)
    /\ exit' = 0
    /\ UNCHANGED <<source, by, findings>>

(* The root is no array, or the output path is taken. *)
DocumentRefused ==
    /\ source.kind # "collection" \/ copy # NoFile
    /\ exit' = 2
    /\ UNCHANGED <<source, copy, by, findings, changed>>

DocumentRedacted(hide) ==
    /\ source.kind = "collection" /\ copy = NoFile
    /\ copy' = [by |-> IF hide THEN "redact --hide-hosts" ELSE "redact",
                kind |-> "collection", leaves |-> RedactDocument(source.leaves, hide)]
    /\ exit' = 0
    /\ UNCHANGED <<source, by, findings, changed>>

(* A copy is an input like any other; the user moves it out of the way.    *)
TakeCopy ==
    /\ copy # NoFile
    /\ source' = [kind |-> copy.kind, leaves |-> copy.leaves]
    /\ by' = copy.by
    /\ copy' = NoFile
    /\ UNCHANGED <<findings, changed, exit>>

Next ==
    \/ ValidateBackup \/ BackupRefused \/ BackupRedacted
    \/ DocumentRefused \/ \E hide \in BOOLEAN : DocumentRedacted(hide)
    \/ TakeCopy

Spec == Init /\ [][Next]_vars

-----------------------------------------------------------------------------
(* Type invariant. *)
TypeOK ==
    /\ Document(source)
    /\ copy # NoFile => copy.by \in Commands /\ Document(copy)
    /\ by \in Commands \cup {"user"}
    /\ changed \in Nat
    /\ exit \in {0, 2}

(* A redacted backup keeps object keys, array order and JSON scalar types, *)
(* and all that neither a name on its path nor a regular expression makes  *)
(* suspect.                                                                *)
ShapeKept ==
    copy # NoFile /\ copy.by = "redact-backup" =>
        /\ DOMAIN copy.leaves = DOMAIN source.leaves
        /\ \A p \in DOMAIN source.leaves :
              /\ TypeOf(copy.leaves[p]) = TypeOf(source.leaves[p])
              /\ (/\ NamesOn(p) \cap UNION {TopSecrets, TopText, Suspicious, FreeText,
                                           ProxySecrets, {"options"}} = {}
                  /\ source.leaves[p] \notin
                         {"url", "prose url", "assignment"} \cup HostLabels)
                   => copy.leaves[p] = source.leaves[p]

(* The check and the redaction decide by different rules which leaves are  *)
(* sensitive; whatever string the check counts, the redaction has masked.  *)
(* Only a scheme without a URL, and the masked false, 0 and 0.0, are       *)
(* counted again.                                                          *)
NothingLeftToMask ==
    copy # NoFile /\ copy.by = "redact-backup" =>
        \A p \in DOMAIN copy.leaves :
            LET v == copy.leaves[p]
            IN  /\ Credential(p, v) => v \in {"false", "0", "0.0"}
                /\ UrlToReview(v) => v = "scheme"
                /\ ~TextToReview(p, v)

(* What was redacted stays as it is when it is redacted again by the same  *)
(* command: masks and labels are not taken for secrets or URLs.            *)
RedactedOnce ==
    [][(/\ copy = NoFile /\ copy' # NoFile
        /\ by \in {"redact-backup", "redact --hide-hosts"} /\ copy'.by = by)
          => /\ copy'.leaves = source.leaves
             /\ by = "redact-backup" => changed' = 0]_vars

(* A copy of a collection shows no value under a sensitive name and no URL *)
(* but as a label, without its host if that was asked for, and all other   *)
(* members and elements are still there.                                   *)
CollectionRedacted ==
    copy # NoFile /\ copy.kind = "collection" =>
        /\ \A q \in DOMAIN copy.leaves :
              /\ NamesOn(q) \cap Sensitive # {} => copy.leaves[q] = "redacted"
              /\ copy.leaves[q] \notin {"url", "prose url"}
              /\ copy.by = "redact --hide-hosts" => copy.leaves[q] \notin HostLabels
        /\ \A p \in DOMAIN source.leaves :
              \E n \in DOMAIN p :
                  /\ SubSeq(p, 1, n) \in DOMAIN copy.leaves
                  /\ NamesOn(p) \cap Sensitive = {} => n = Len(p)
=============================================================================
