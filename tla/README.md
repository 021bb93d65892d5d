# A verification project for stremioctl

`stremioctl` is a command line tool that inspects a Stremio add-on collection,
plans changes to it from a declarative profile, and applies a reviewed plan to
the account. These TLA+ modules model the parts of it that decide what happens
to a user's account and files; TLC checks them on small instances, and TLAPS
proves the main results for every instance. Paths below are relative to the
repository (`src/stremioctl/...`).

## 1. The system

| Part | State | Operations | What makes it correct |
| --- | --- | --- | --- |
| Account commands (`apply.py`, `cli.py`) | the account's collection on the API server, `snapshots/` on disk | `apply_plan`, `rollback_snapshot`, `_rollback_to`, `_write_snapshot` | nothing is written unguarded or twice; what the user had can be restored; exit codes and rollback statuses tell the truth; every command ends |
| API client (`account.py`) | none (one connection per request) | `fetch_addon_collection`, `push_addon_collection`, `resolve_auth_key` | every failure has a documented exit code; every request has a timeout |
| Planner (`diff.py`, `plans.py`) | none; writes a plan file | `build_change_plan`: matching, removals, additions, `_place`, endpoint comparison | a plan does what the profile manages and touches nothing else; it is consistent; planning after applying converges |
| Target construction (`apply.py`) | none | `construct_target`, `resolve_endpoint_ref`, `resolve_target_manifest` | what was reviewed is what is built, or it is refused |
| AIOStreams promotion (`aiostreams.py`) | none; writes a plan file | `build_promotion_plan` | exactly one descriptor changes, endpoint and manifest together; repeating it converges |
| Private files (`io.py`, `cli.py`) | output files | `_guard_output_path`, `atomic_write_bytes`, `_fsync_directory` | no torn file, no trace of a failed write, no clobbered file |
| Redaction key (`privacy.py`) | `redaction.key` | `load_or_create_redaction_key` | all invocations use one key |
| Desired profile (`profiles.py`) | none | `parse_profile`, `build_starter_profile` | the planner only sees profiles it can rely on |
| Collection model, validation, fingerprints (`models.py`, `validation.py`, `fingerprints.py`) | none | accessors, `validate_collection` | lossless; the planner's gate holds |
| Probing (`probing.py`) | none; a pool of threads and a row per descriptor during an audit | `probe_collection`, `probe_manifest_url`, `audit_exit_code` | bounded attempts and redirects; the row says what was heard last; one report of all probes; every audit ends |
| Redaction (`privacy.py`, `aiostreams.py`) | the redacted copy | `check_backup`, `redact_backup`, `redact_document` | no secret in a shared copy, shape kept, redacting again changes nothing |
| Reports, schemas, command line (`reports.py`, `schemas.py`, `cli.py`, `errors.py`) | none | rendering, `_run` | stable exit codes |

**Interactions.** The commands are separate processes. They share the account
(with other Stremio clients, too), the private data directory, the output paths
and the environment; a plan or a snapshot is a file that one command writes and
a later command reads, possibly days later. Inside a command everything is
sequential; the only threads are those of `probe collection`.

**What is hard to test here.** The account has no compare-and-set, so every
order of pulls and pushes of two clients is possible; a push may be stored after
the client stopped waiting for its answer; a process may die at any step; a plan
may be applied to another account, with another redaction key, with references
that resolve differently and endpoints that serve something else than when it
was made; a first use of the redaction key may race with another; power may be
lost in the middle of a file. `PROJECT.json` lists the hazards at their lines.

## 2. The modules

| Module | Models |
| --- | --- |
| `AccountApply` | the account commands, any number of invocations at once |
| `SnapshotFirst` | what they promise, without their steps |
| `AccountRefinement` | the refinement mapping from the former to the latter |
| `AccountClaims` | sentences of the documents about them that the code refutes |
| `ChangePlan` | the planner, the starter profile, the target construction and the promotion, as operators |
| `PlanAndApply` | the life of a plan: made, reviewed, applied, while the world changes |
| `PlanClaims` | sentences of the documents about plans that the code refutes |
| `ReviewedApply` | `AccountApply` composed with `ChangePlan`: every apply carries a reviewed plan |
| `Probe` | `probe collection`: the pool, the retries, redirects and bodies of its probes, the exit code |
| `AuditPromise` | what it promises, without its steps |
| `Redaction` | `validate-backup`, `redact-backup` and `backup redact`, on documents as sets of leaves |
| `RedactionKey` | the first uses of the redaction key |
| `PrivateFiles` | the commands that write a private file to a path |
| `AccountApplyProofs`, `ReviewedApplyProofs`, `ChangePlanProofs`, `PlanAndApplyProofs`, `ProbeProofs`, `RedactionProofs`, `RedactionKeyProofs`, `PrivateFilesProofs` | theorems and proofs |
| `MCAccountApply`, `MCReviewedApply`, `MCPlanAndApply`, `MCProbe`, `MCRedaction`, `MCRedactionKey` | instances for TLC |

### AccountApply

`pc[p]` is where invocation `p` stands; each action is one stretch of
`apply_plan` or `rollback_snapshot` between two things another process can see:
the first pull with the drift guard (`Drifted`, `AlreadyConverged`,
`PullForApply`, `PullForRollback`, `PullFails`, `PullUnhashable`), the
construction (`ConstructTarget`, `ConstructFails`), the snapshot
(`WriteSnapshot`, `SnapshotFails`), the push (`SendPush`, `WriteReturns`), the
verification pull (`Verify...`), and `_rollback_to` (`SendPush` of the restore,
`RestoreAcknowledged`, `RestoreErrs`, `Reverify...`). A pull and what the code
decides from its result are one action, because nothing the code reads in
between can change. `exit` holds the name that `errors.py` gives the exit code;
`defect` is exit code 1, an exception that only `_run` catches: a collection,
a target or `lastModified` with a lone surrogate, which Python's JSON parser
accepts and UTF-8 does not (`Unhashable`).

A push is a message: `flying` from the moment it is sent, then `landed` or
`lost`, also after the client gave up on it or was killed. The server may store
any collection of the same *shape* (what `_structure` compares) as the one it
was sent, since the code itself expects server-side normalisation.
`ForeignWrite` is any other client. `construct_target` may return any collection
here; what it really returns is `ChangePlan`'s subject.

`original`, `author`, `late` and `foreign` are history variables that only the
properties read.

### SnapshotFirst and the refinement

The abstract specification has no commands, pulls or pushes: a process first
*keeps* a collection and thereby gets a licence to write at most two
collections, once each. `AccountRefinement` maps `kept` to the snapshots on disk
and the licence of `p` to the payloads of the pushes that are under way or that
`p` may still send from its step. `KeepsThePromise` is checked by TLC and
proved.

### ChangePlan and PlanAndApply

`ChangePlan` states `build_change_plan`, `construct_target` and
`build_promotion_plan` as operators over small records. Where the code builds
lists with cursors, the operators say which descriptor ends up where: item `x`
of the survivors takes its managed position, and the others fill the free slots
in order (`FinalIndex`), which is what the loop of `_place` computes. A plan is
a set of operations; their order in the file is for the reviewer,
`construct_target` goes by kind and index. Indexes start at 1. A keyed
fingerprint is the pair of URL and key, so that a changed key changes it.

`PlanAndApply` puts them in a state machine: a plan is made (`PlanProfile`,
`Promote`, or refused), and later applied. `EditAccount` and `ChangeWorld` may
change the account, the key, what references resolve to and what endpoints
serve, at any point. Each outcome of `account apply` up to the write is an
action. The write succeeds; how it can fail is `AccountApply`'s subject.

`Starter` is `build_starter_profile`: an entry per descriptor with an id,
selected by the id, and by the fingerprint of the URL too where the id is not
unique. `InitProfile` is `profile init` on an export of the account;
`InitProfileFails` is its exit code 1 when the generated profile breaks its own
contract.

### ReviewedApply

`ReviewedApply` EXTENDS `AccountApply` and `ChangePlan`.
Every apply is given a profile whose plan was reviewed (`profile`), the
operations are those of `build_change_plan` on the collection of the plan, and
three steps of the commands are restricted by them: `PlanConverged` and
`PlanToApply` after the drift guard, and `TargetRefused` or `TargetBuilt`, which
use `construct_target` on what was pulled. The shape of a collection is what
`_structure` compares, the ids and the URLs in order. The key and the secrets
do not change here (`PlanAndApply` has that), and no plan is a promotion's.
Every step is one of `AccountApply` with more conditions, so whatever holds of
`AccountApply` holds here.

### Probe and AuditPromise

`pc[i]` is where the probe of descriptor `i` stands: in the queue of the pool,
at the guard of a destination, in a request, in a body. What the network does is
a sequence of things that a probe *hears* (`heard`, a history variable): a
request is refused, times out, is answered by a status that is retried (`busy`),
by a redirect, by an error or by 2xx, or ends in another exception (`broken`); a
body is a manifest of the expected id with or without notes, one of another id,
no manifest, more than the limit, or breaks. `Retry` and `GiveUp` are the loop
of `_fetch_with_retry`, `Follow` and `NotFollowed` the loop of `_run_probe`;
`Counted` is the sum that `entry.attempts` receives when a hop returns. The main
thread waits for all of the pool (`Report`), also after Ctrl-C (`Interrupt`,
`Abort`), when what is still queued is cancelled. A server may also keep a probe
in one call for ever (`HoldsBack`): `read_capped_body` counts the decoded bytes
that `iter_bytes` yields, and compressed bytes that decode to nothing yield none,
nor do interim 1xx responses, while every read of the socket is answered in
time. `held` is the set of such probes; whether they ever return is the
server's decision.

`AuditPromise` has neither requests nor threads: each descriptor gets one
verdict for good, and the exit code is published when all verdicts are in.
`KeepsPromise` is checked and proved; the mapping takes a probe's status as its
verdict from the moment it is done.

### Redaction

A document is a function from the paths of its leaves to their values, a path a
sequence of names and of `Index`. Of a name only the lists and tokens of the
code that it matches are known, of a string only what the regular expressions
find in it: a URL, a URL in prose, an assignment, an endpoint label with or
without its host, the mask. `Credential`, `UrlToReview` and `TextToReview` are
the rules by which `check_backup` counts a leaf; `Forced` is the rule by which
the recursion of `redact_backup` masks it, which looks at all names on the way
and not only at the last. `redact_document` replaces everything below a
sensitive name by one mask, so its copy has shorter paths (`Kept`). A copy may
be given to the commands again (`TakeCopy`). The name lists are constants; the
instance has one name per list.

### RedactionKey and PrivateFiles

`RedactionKey` has one action per system call of `load_or_create_redaction_key`.
`PrivateFiles` has the guard of the output path at the start of a command, its
work, and the steps of `atomic_write_bytes`. Both model a loss of power: the
bytes of a file that was not fsynced, or its name if the directory was not, may
be gone (`onDisk` holds the contents the path may have afterwards).

## 3. The runs

| Run | Shows |
| --- | --- |
| `account_one` | one invocation, five collections (two shapes in two forms each, one unhashable), two foreign writes: `WritesAreGuarded`, `OutcomeAccountsForWrites`, `PushedOnce`, and `AccountInv`, the inductive invariant of the proofs; under `Fairness`, `EveryRunEnds` |
| `reviewed_apply` | two invocations, each an apply of one of three reviewed plans or a rollback, on four collections of two add-ons and one of one, no foreign write: `OriginalRecoverable`, `ReportsHold`, `KeepsThePromise`, and for the plans `OkMeansDesired`, `OnlyReviewedChanges` |
| `plan_profiles` | every single-entry profile, with and without `preserveUnmanagedAddons`, pairs of entries, and the starter profiles, on collections of up to three add-ons with two ids, two URLs, a missing id and a protected flag: `AppliedAsDesired`, `UnmanagedUntouched`, `RefusedForAReason`, `PlansSettle`, `StartersAreConverged` |
| `plan_promotion` | a profile, a starter profile and a promotion, with two changes of the account or the world at any point: `PromotionIsExact`, `PromotionSettles`, `StartersRestore`, `LabelsNeedTheirKey` (under another key no label of the plan is taken for a descriptor, at any index), and `TypeOK`, by which no unresolved reference is ever written |
| `probe_audit` | two workers, three descriptors of which one may hear anything and the others a little, two attempts, a body of one chunk: `StatusesHold`, `RequestsBounded`, `AttemptsAreCounted`, `KeepsPromise`; under `Fairness`, `EveryAuditEnds`: only a server that holds a call back keeps an audit from ending, and only probes it holds, or a pool full of them, wait |
| `backup_redaction` | every kind of value at every path of up to three parts, and two leaves at once under one sensitive name, any number of redactions: `ShapeKept`, `NothingLeftToMask`, `CollectionRedacted`, `RedactedOnce` |
| `redaction_key` | three invocations, two losses of the file: `KeysAgree` |
| `private_files` | two commands of either kind and two interferences from outside: `NeverTorn`, `FailureLeavesNoTrace`, `HandWrittenStays` |

**Bounds.** Two invocations are enough for every pairwise race: an invocation
reads the account, its own snapshot and nothing else of another's. Two foreign
writes allow one before and one after a push, or one after each of two pulls.
Two collections of one shape in different forms and one of another shape are the
least with which "equal", "equivalent" and "different" are distinct; the
unhashable one is in the run with one invocation. Three add-ons allow a managed
position to shift add-ons on both sides; positions 1 and 3 are the ends, and out
of range of smaller targets. In `reviewed_apply` the plans move an add-on to
another endpoint, remove it (it may be protected), and ask for an endpoint
without https, so that each way through `construct_target` happens. Two changes
of the world suffice for a change before and one after a plan. Probes share
nothing but the queue, so one probe with every answer next to two others, on two
workers, shows every order; two attempts are the default. Redaction treats
leaves one by one, except where several lie under one sensitive name; three
parts of a path put a list's name above, at and below the leaf. `MaxForeign`,
`MaxChanges`, `MaxLosses` and `MaxOutside` are the only bounds in guards.

**Deadlock** is not checked where the system may stop: every invocation ends in
`done`, `killed` or the like. `PlanAndApply` never stops, and there it is.

**Fairness.** `AccountApply!Fairness` is weak fairness of the steps of a started
invocation and of the network. Every request runs under `httpx.Timeout`, and the
processes are otherwise sequential code without waiting; that a request returns
is an assumption about two servers as well. `read_capped_body` has the gap
described at `Probe` above wherever it is used: for the answers of the API
(`account.py:149`, `account.py:248`) and for the probe of a promotion's endpoint,
which precedes every write. Both are trusted not to use it. Nothing makes a user
start a command, so `Begin` has no fairness; nothing makes a foreign client
write or a kill happen. Without the timeout (the mutant of `EveryRunEnds`) a lost
push would be waited for for ever.

`Probe!Fairness` trusts no server. It is weak fairness of the main thread's end,
of a worker's taking a queued probe, and of the steps of a probe that no server
holds back (`i \notin held`). Such a call returns: the resolver has its own
timeout, `httpx.Timeout` bounds every wait for the network, `_backoff` is at
most two seconds, and a body that yields chunks reaches the limit after finitely
many (the mutant that forgets the total never does). A probe that is held back
may return or not. `EveryAuditEnds` then says who may wait for ever: a probe of a
running audit is done unless it is held back for good itself, or as many others as there are
workers are; and the command ends unless some probe is held back for good.
Nothing makes the user start or interrupt an audit, and an interrupt does not
help: the pool waits for its running probes.

### What the documents say and the code does not do

Each of these runs checks one sentence and finds it violated; the findings in
`PROJECT.json` quote the lines.

| Run | The code |
| --- | --- |
| `claim_stale_plan` | checks the base of the plan once, before references, probe and snapshot; a foreign write after that is overwritten |
| `claim_reported` | computes the fingerprint outside the `try` of the pull, so that an unhashable collection ends the command with exit code 1 in the middle of a write |
| `claim_promotion` | probes the standby under the profile's policy when planning and under the default policy when applying |
| `claim_attempts` | loses the attempts of a hop whose last request ends in an exception that is not retried (`httpx.ReadError`, `DecodingError`): the row may say 0 after requests were sent |

Seen while modelling, visible in the modules' actions, without a run of their
own:

- `apply.py:544` prints that the account is unchanged when ids and URLs are as
  before (`_structure`), although the server may store another form of it.
- `docs/security.md:140` speaks of rolling back what the verification finds; one
  pull is taken for the ground truth, and a push that is stored later is neither
  reported nor rolled back.
- `docs/data-formats.md:335` lists a snapshot that cannot be written under exit
  code 6; when it is the snapshots directory that is refused, it is exit code 2.
- `SPEC.md:338` has files written atomically; `redaction.key` is written in place,
  and a kill or a full disk leaves an empty file that later commands refuse.
- `docs/security.md:162` says that a redacted copy never overwrites; that the path
  is free is checked at the start, and the end of the command replaces whatever is there.
- `SPEC.md:661` has every write preceded by a successfully persisted snapshot; the failure of the
  directory's fsync is ignored.
- A collection with two descriptors of one id and URL (`Twins`) can be planned
  against and never applied to, since `_match_current_index` cannot tell them apart;
  `docs/data-formats.md:206` says that `account apply` builds from such a plan
  directly. `profile init` of such a collection ends in exit code 1.
- A followed redirect starts the attempts anew, so a probe may make four requests
  where `SPEC.md:446` and `docs/data-formats.md:279` have "two attempts total".
- `docs/data-formats.md:279` and `SPEC.md:440` have an "8-second overall timeout".
  It is one of each wait for the network. A probe may take many times as long,
  and a server that holds a call back (`HoldsBack`) keeps the audit, and its
  exit code, for ever.
- The row of a redirect that is not followed has no `httpStatus`, although a
  response was received (`docs/data-formats.md:256`: null "if no response was received"); a body that breaks off leaves `unreachable` next to status 200.
- `redact-backup` keeps the type of a masked number or boolean, and `validate-backup`
  counts the 0 or `false` as a populated credential: a redacted copy with one
  is reported invalid. The tests only check strings.
- A string that is only the scheme of a URL is counted by `validate-backup` and
  not masked by `redact-backup`.
- `backup redact` without `--hide-hosts` takes its own labels for URLs and labels them
  anew, with another fingerprint.
- `docs/data-formats.md:98` says that `backup redact` refuses only two things;
  it refuses every output path that `_guard_output_path` does.

Most properties that pass leave these behaviours out, and each says so:
`ReportsHold` exempts a late push of the same run, `OriginalRecoverable` speaks
while no other client writes, `PlansSettle` leaves out endpoints that cannot be
compared (`Comparable`), `StatusesHold` says nothing of the HTTP status of a
redirect that is not followed, `AttemptsAreCounted` says which attempts are
missing, `EveryAuditEnds` exempts what is held back, `NothingLeftToMask` names
the values that are counted again, `RedactedOnce` is about `redact-backup` and
`--hide-hosts`. Two speak of less than the documents do: `RequestsBounded` bounds
the requests of each hop, so that it holds with the four requests in all that the
documents do not allow; and `WritesAreGuarded` says that the account was compared
with the plan before the push, which a foreign write between the two does not
disturb (that is `claim_stale_plan`).

## 4. What is proved

For every value of the constants that the named assumptions of the modules
allow: every set of invocations, collections and shapes, and any number of
foreign writes (`AccountApply`); every set of reviewed profiles whose targets
are among the collections (`ReviewedApply`); all collections of any length, all
profiles, keys, secrets and served manifests, and any number of changes
(`PlanAndApply`); any number of descriptors, workers and attempts (`Probe`);
every set of documents, of paths of any length, and of names on the lists
(`Redaction`); any number of commands, saves and losses of power
(`PrivateFiles`, `RedactionKey`).

| Theorem | States |
| --- | --- |
| `AccountInvariant`, `TypeCorrect` | `Spec => []AccountInv`, `Spec => []TypeOK` of `AccountApply` |
| `GuardedWrites` | `Spec => []WritesAreGuarded` |
| `Recoverability` | `Spec => []OriginalRecoverable` |
| `HonestOutcomes` | `Spec => []OutcomeAccountsForWrites` |
| `LastingReports` | `Spec => []ReportsHold` |
| `SingleAttempts` | `Spec => PushedOnce` |
| `KeepingThePromise` | `Spec => KeepsThePromise` (the refinement) |
| `ReviewedRecoverability` | `ReviewedSpec => []OriginalRecoverable` |
| `ReviewedChangesOnly` | `ReviewedSpec => OnlyReviewedChanges` |
| `OkIsDesired` | `ReviewedSpec => []OkMeansDesired` |
| `FinalBijection` | what stays and what is added goes one to one onto the slots `1..n` |
| `PlanTypeCorrect` | `Spec => []TypeOK` of `PlanAndApply` |
| `RefusalsHaveReasons` | `Spec => RefusedForAReason` |
| `AppliedProfilesHold`, `UnmanagedStays` | `Spec => AppliedAsDesired`, `Spec => UnmanagedUntouched` |
| `PlansConverge` | `Spec => PlansSettle` |
| `StartersChangeNothing`, `StartersRestoreOrder` | `Spec => StartersAreConverged`, `Spec => StartersRestore` |
| `LabelsBindTheKey` | `Spec => LabelsNeedTheirKey` |
| `PromotionsAreExact`, `PromotionsConverge` | `Spec => PromotionIsExact`, `Spec => PromotionSettles` |
| `ProbeTypeCorrect` | `Spec => []TypeOK` of `Probe` |
| `RightVerdicts`, `BoundedRequests`, `CountedAttempts` | `Spec => []StatusesHold`, `[]RequestsBounded`, `[]AttemptsAreCounted` |
| `KeepingTheAuditPromise` | `Spec => KeepsPromise` of `Probe` (the refinement) |
| `RedactionTypeCorrect` | `Spec => []TypeOK` of `Redaction`: a copy is again a document |
| `ShapesAreKept`, `NothingIsLeftToMask` | `Spec => []ShapeKept`, `Spec => []NothingLeftToMask` |
| `CollectionsAreRedacted`, `RedactingTwiceIsRedactingOnce` | `Spec => []CollectionRedacted`, `Spec => RedactedOnce` |
| `KeyTypeCorrect`, `KeyAgreement` | `Spec => []TypeOK`, `Spec => []KeysAgree` of `RedactionKey` |
| `PrivateTypeCorrect` | `Spec => []TypeOK` of `PrivateFiles` |
| `WholeArtifacts`, `NoTraceOfFailure`, `HandWrittenKept` | `Spec => []NeverTorn`, `[]FailureLeavesNoTrace`, `[]HandWrittenStays` |

**The argument for the account.** None of the four invariants is inductive: that
the account can be restored depends on what an invocation pulled long before it
pushes, and that a report holds depends on where its pushes are. `AccountInv`
adds `StepInv`, which says for each step where the two pushes of the invocation
are and that it is armed with a snapshot of its own pull, and `BaseInv`, which
says that what was pulled is the original or came after the original was put on
disk. A push can then only replace the original by something else when its owner
has a snapshot of its base; by `BaseInv` the original is that base or is on disk
already. The proofs go action by action: first the steps of one invocation
against its own state, then that they leave what another invocation relies on
alone. `PushedOnce` follows from `StepInv` in one step, and the refinement from
`StepInv` with one lemma per kind of step (keep, write, give up, stutter).

**The argument for reviewed plans.** `ReviewedSpec` implies `Spec` of
`AccountApply` by its form (the lemma `ReviewedImplements`), which brings the
account's theorems here. For `ReviewedChangesOnly` the
invariant `BuiltInv` says that what an invocation holds as its target was built
by `Target` from its own reviewed operations and the collection the plan is
based on; what lands is that target. What remains is about operators. Every slot
of a target comes from a `preserve` that matches exactly one descriptor, and a
`replaceEndpoint` of a profile's plan is not bound to a manifest, so the id
stays. A protected descriptor is not dropped, since its `remove` would be
refused; so it has a `preserve`, which no other one shares a slot with. The
checks that `construct_target` makes itself carry this proof; nothing about the
placement of the planner is used. `OkIsDesired` puts all parts together: by
`ReportsHold` the account is the target, by `BuiltInv` that was built from the
reviewed operations, by `ReviewedInv` these are an accepted plan of the profile,
and by `AppliedProfile` and `AppliedIsSettled` of `ChangePlanProofs` the planner
has nothing left to do on such a target.

**The argument for the planner.** The state machine is small: the invariant is
`TypeOK /\ PlanMade`, where `PlanMade` says that a plan at hand is what the
planner computes from the collection of its base, and a promotion's from some
world. The rest is about operators, most of it in `ChangePlanProofs`.

- *Placement.* `Rank` counts the smaller members of a set of indexes and `Nth`
  is its inverse (`RankInjective`, `NthOfRank`, `RankOfNth`). With as many free
  slots as items without an anchor, `FinalIndex` is the anchor on one part and
  `Nth` of the free slots after `Rank` on the other: `FinalBijection`. That it
  keeps the order of what has no anchor is `FinalOrder`.
- *Consistency.* `PlanShape` says what the operations of any plan look like, of a
  profile (`PlanOpsShape`) or of a promotion (`PromotionOpsShape`): one
  `preserve` per survivor, with its label and final index, and at most one
  `replaceEndpoint` per slot. Unless two descriptors are twins or the key
  changed, each label matches its own descriptor, so `construct_target` can
  only refuse for the reasons of `RefusedForAReason` (`ShapeConstructs`). If the
  key did change, no `preserve` matches anything, since its label pairs the URL
  with the old key (`ForeignKeyKeepsNothing`): `LabelsBindTheKey`.
- *The target.* `TargetOfShape` gives what is at each slot of a target, and
  `Placed` says it of a profile's plan: the survivor whose final index it is,
  with the URL it had or the one wished for. Both halves of "what is managed is
  as desired, the rest untouched" follow from `Placed` and the uniqueness of
  claims.
- *Convergence.* `Settled` names what makes a plan empty: nothing claimed is
  absent, nothing has to be added, anchors are where they are wished, no
  endpoint needs replacing (`SettledIsConverged`). That an applied plan is
  settled needs that the selectors find in the new collection the descriptors
  they found in the old one, wherever these went and whatever URL they got
  (`CandidatesFollow`); this is where `Comparable` is needed.
- *Starter profiles.* On a rearranged collection a starter profile finds each
  descriptor it names (`StarterEntries`, `PlacedByStarter`); every descriptor of
  the original order has an anchor, or there would be no plan, so `Placed`
  determines the whole target.

**The argument for the audit.** `StageOK` adds to the types where the probes can
be when the main thread is idle, running, interrupted or has ended: a report is
only made of probes that are done, and no step of a probe is enabled after it.
For what the rows say, `ProbesOK` relates each row to the history of its probe:
every answer but the last is one after which the probe goes on, the requests
since the hop began are `tries`, those before it are what `attempts` has
counted (`HopOK`, with the place where the hop began as a witness), and the
fields of the row are those of the last answer (`RowOK`). The proof goes by
what a probe hears: one that ends it, one that lets it go on, a redirect, a body.

**The argument for redaction.** A leaf is redacted by names on its path, so the
lemmas are about paths: there is a least place with a sensitive name and a
greatest with any name (`Smallest`, `Greatest`, by well-foundedness of strict
subsets, since no induction over sequences is at hand), cutting a path behind
the former is idempotent and loses no name that matters (`KeptFacts`,
`KeptPath`). The invariant adds to `TypeOK` that a copy is what its command makes
of the source (`CopyMade`), and that a source made by a command shows nothing
that this command would still redact (`SourceRedacted`); the latter is what
`RedactedOnce` needs and is established by `TakeCopy`.

**The argument for files.** `OwnerInv` of `RedactionKeyProofs` adds that an
invocation about to write owns an empty file, and that it has a key exactly when
it is done. For `PrivateFiles` the temporary file of a command must be known at
each of its steps (`TempOK`), above all that it is synced when it replaces the
path; an artifact at the path, or one that a loss of power may bring back, is of
a command that came past `os.replace` (`AuthorOK`); and as long as nobody
interferes, either a file written by hand is there and every command is still
at or before its guard, or no guard saw one (`HandOK`).

**Assumptions.** The theorems rest on nothing but the named assumptions of the
modules, which TLC evaluates in every run. They say what the constants stand
for: shapes partition collections; `None` is no id, URL or fingerprint
(`NoneAssumption`); a document has finitely many leaves, and a collection is a
list (`DocumentsAssumption`); the contents of a path are artifacts, `Manual`,
`Torn` and nothing, all different (`ContentAssumption`).

**What the proofs changed.** Four properties were true in the instances and not
in general, and now say what they need. `AppliedAsDesired` and
`UnmanagedUntouched` recognise a descriptor after the write by the part of it
that no plan changes, so this part must differ (`Traceable`); an account may
hold one add-on twice, and then the properties would have no meaning.
`PlansSettle` and `OkMeansDesired` were false for an entry without a fingerprint
that wishes the URL another entry of the same id selects: once applied, both
claim one descriptor, and the next plan is refused as ambiguous (`diff.py:100`).
`Comparable` excludes it, and it is listed as a hazard; `plan_profiles` now has
such a profile.

**Only model-checked.** `EveryRunEnds` and `EveryAuditEnds`, because liveness
under fairness and `ENABLED` are out of the prover's reach. Every other property
of a passing run is proved. What refutes the sentences of the documents are
counterexamples of TLC, which need no proof.

## 5. What is not modelled

- The list of findings of `backup validate` and `profile validate`, reports,
  rendering and schemas: pure functions without state, interaction or failure
  modes that a model would expose.
- What the schema of an AIOStreams backup demands: a document may break it
  (`malformed`) whatever its leaves. The warning about import-only fields.
- Which tokens make a name suspicious and what a regular expression matches: the
  model has names and strings by their classes. Leak sentinels are a last check
  on the output that ends the command.
- Which addresses a probe refuses: `Blocked` may happen at any guard.
- A short write of the key: the count that `os.write` returns is not looked at
  (`privacy.py:210`), so one would hand out a key that is not the one on disk.
  For 32 bytes to a regular file it does not happen in practice: the write is
  done or fails (`WriteFails`), and `KeysAgree` rests on that.
- Owners, permissions and symlinks of private files: refusals that change nothing.
- Sizes of documents. A snapshot is an indented copy of up to 8 MiB of JSON and
  may exceed the 16 MiB that `account rollback` reads; this is listed as a hazard.
- A `publicUrl` together with a `transportFingerprint` of another URL: the model
  covers it, and it does not settle (the next plan adds the add-on once more).
  No document says that it should; `PlansSettle` leaves it out.
- A difference to the documents that no run shows: an endpoint that serves
  another manifest at apply time exits 5 as well, which the table in
  `docs/data-formats.md` does not list.

## 6. Plan

Done, in this order: `AccountApply` with `SnapshotFirst` and its proofs,
`ChangePlan` and `PlanAndApply`, `RedactionKey`, `PrivateFiles`, `Probe` with
`AuditPromise` and its proofs, the starter profile, `ReviewedApply` with its
proofs, `Redaction`.

Then the theorems: planner, files, probes and redaction.

Left: to extend the model, if at all, by snapshot files as `PrivateFiles` writes
them, read back by `account rollback`, and by sizes of documents.
