------------------------------- MODULE Probe -------------------------------
(***************************************************************************)
(* `stremioctl probe collection` (probing.py): a pool of threads fetches   *)
(* the manifest of every descriptor of a collection, the report and the    *)
(* exit code say what they found.                                          *)
(*                                                                         *)
(* A probe hears a sequence of things from the network: what became of     *)
(* each request, and of the body of the one that was answered with 2xx.    *)
(* It guards every destination, tries a request again after a transient    *)
(* failure, follows one redirect and reads a body of bounded size.         *)
(* Descriptors are numbered in the order of the collection.                *)
(***************************************************************************)
EXTENDS Naturals, Sequences, FiniteSets

CONSTANTS
    N,          \* number of descriptors in the collection
    Https,      \* which of them may have https URLs: a set of sets
    Workers,    \* ProbeConfig.concurrency
    Attempts,   \* ProbeConfig.attempts
    MaxChunks,  \* how many chunks of a body fit in ProbeConfig.max_bytes
    Heard       \* Heard[i]: what probe i may hear from the network

Probes == 1..N

(* What becomes of a request: _RETRYABLE_ERRORS and _RETRYABLE_STATUS are  *)
(* transient, any other exception ("broken") is not; a redirect stays in   *)
(* its origin or leads elsewhere, or nowhere; the rest is an error         *)
(* response or a 2xx with a body to come.                                  *)
Lost == {"refused", "timeout"}
Transient == Lost \cup {"busy"}
Redirects == {"redirect", "elsewhere"}
Replies == Transient \cup {"broken", "error", "ok"} \cup Redirects

(* What becomes of a body: a manifest of the expected id, without and with *)
(* something to note about it; one of another id; not a manifest; more     *)
(* than the limit; or the connection breaks.                               *)
Manifests == {"manifest", "noted"}
Bodies == Manifests \cup {"foreign", "junk", "flood", "cut"}

ASSUME ProbeAssumption ==
    /\ N \in Nat \ {0} /\ Workers \in Nat \ {0} /\ Attempts \in Nat \ {0}
    /\ MaxChunks \in Nat
    /\ Https \subseteq SUBSET Probes
    /\ Heard \in [Probes -> SUBSET (Replies \cup Bodies)]

VARIABLES
    https,   \* the descriptors with an https URL
    audit,   \* the main thread: where the command is
    exit,    \* the exit code
    pc,      \* pc[i]: the step probe i is about to take
    entry,   \* entry[i]: its row of the report
    tries,   \* tries[i]: attempts of the current request
    chunks,  \* chunks[i]: chunks of the body read so far
    held,    \* the probes whose server keeps a call from returning
    heard    \* history: heard[i], what probe i heard so far

probeVars == <<entry, tries, chunks, heard>>
vars == <<https, audit, exit, pc, held, probeVars>>

OkStatuses == {"healthy", "warning"}
Statuses == OkStatuses \cup
    {"unreachable", "invalid_manifest", "identity_mismatch",
     "insecure_transport", "blocked_destination"}

Steps == {"queued", "guard", "send", "body", "done", "cancelled"}

Entries == [status : Statuses, http : Replies \cup {"none"}, attempts : Nat,
            redirects : 0..1, document : BOOLEAN]

NewEntry == [status |-> "unreachable", http |-> "none", attempts |-> 0,
             redirects |-> 0, document |-> FALSE]

Ended(i) == pc[i] \in {"done", "cancelled"}

Busy == {i \in Probes : pc[i] \in {"guard", "send", "body"}}

Init ==
    /\ https \in Https
    /\ audit = "idle"
    /\ exit = "none"
    /\ pc = [i \in Probes |-> "queued"]
    /\ entry = [i \in Probes |-> NewEntry]
    /\ tries = [i \in Probes |-> 0]
    /\ chunks = [i \in Probes |-> 0]
    /\ held = {}
    /\ heard = [i \in Probes |-> <<>>]

-----------------------------------------------------------------------------
(* The main thread. *)

Start ==
    /\ audit = "idle"
    /\ audit' = "running"
    /\ UNCHANGED <<https, exit, pc, held, probeVars>>

(* The collection does not parse, or fails the structural gate; a string   *)
(* that cannot be encoded is a defect of the validation.                   *)
RefuseCollection ==
    /\ audit = "idle"
    /\ audit' = "refused"
    /\ exit' \in {"invalid", "defect"}
    /\ UNCHANGED <<https, pc, held, probeVars>>

(* Mutant of Report: it does not wait for the pool. *)
ReportEarly ==
    /\ audit = "running"
    /\ audit' = "reported"
    /\ exit' = IF \A i \in Probes : entry[i].status \in OkStatuses
               THEN "ok" ELSE "network"
    /\ UNCHANGED <<https, pc, held, probeVars>>

(* pool.map yields the entries in the order of the collection and the      *)
(* report is built from all of them.                                       *)
Report ==
    /\ audit = "running"
    /\ \A i \in Probes : pc[i] = "done"
    /\ audit' = "reported"
    /\ exit' = IF \A i \in Probes : entry[i].status \in OkStatuses
               THEN "ok" ELSE "network"
    /\ UNCHANGED <<https, pc, held, probeVars>>

(* Ctrl-C: pool.map cancels what is still queued, then the pool is joined. *)
Interrupt ==
    /\ audit = "running"
    /\ audit' = "interrupted"
    /\ pc' = [i \in Probes |-> IF pc[i] = "queued" THEN "cancelled" ELSE pc[i]]
    /\ UNCHANGED <<https, exit, held, probeVars>>

Abort ==
    /\ audit = "interrupted"
    /\ \A i \in Probes : Ended(i)
    /\ audit' = "aborted"
    /\ exit' = "defect"
    /\ UNCHANGED <<https, pc, held, probeVars>>

-----------------------------------------------------------------------------
(* A worker thread: _probe_one and _run_probe. *)

(* A free worker takes the oldest probe of the queue. *)
Take(i) ==
    /\ audit = "running"
    /\ pc[i] = "queued"
    /\ \A j \in 1..(i - 1) : pc[j] # "queued"
    /\ Cardinality(Busy) < Workers
    /\ pc' = [pc EXCEPT ![i] = "guard"]
    /\ UNCHANGED <<https, audit, exit, held, probeVars>>

(* The call that probe i waited for has returned. *)
Returns(i) ==
    /\ held' = held \ {i}
    /\ UNCHANGED <<https, audit, exit>>

Goto(i, step) ==
    /\ pc' = [pc EXCEPT ![i] = step]
    /\ Returns(i)

Hears(i, what) ==
    /\ what \in Heard[i]
    /\ heard' = [heard EXCEPT ![i] = Append(@, what)]

(* Mutant of Counted: the attempts of the last hop only. *)
CountedAnew(i) == tries[i]

(* _fetch_with_retry returned: its attempts are added to the entry's. *)
Counted(i) == entry[i].attempts + tries[i]

(* _guard_destination, before the request and before the redirect is       *)
(* followed: an address may not be contacted, or there is none.            *)
Blocked(i) ==
    /\ pc[i] = "guard"
    /\ entry' = [entry EXCEPT ![i].status = "blocked_destination"]
    /\ Goto(i, "done")
    /\ UNCHANGED <<tries, chunks, heard>>

Unresolved(i) ==
    /\ pc[i] = "guard"
    /\ Goto(i, "done")
    /\ UNCHANGED probeVars

Resolved(i) ==
    /\ pc[i] = "guard"
    /\ tries' = [tries EXCEPT ![i] = 1]
    /\ Goto(i, "send")
    /\ UNCHANGED <<entry, chunks, heard>>

(* Mutant of Retry: one time too many. *)
RetryOnceMore(i) ==
    /\ pc[i] = "send"
    /\ tries[i] <= Attempts
    /\ \E r \in Transient : Hears(i, r)
    /\ tries' = [tries EXCEPT ![i] = @ + 1]
    /\ Returns(i)
    /\ UNCHANGED <<pc, entry, chunks>>

(* A transient failure, with attempts left: the backoff, then again. *)
Retry(i) ==
    /\ pc[i] = "send"
    /\ tries[i] < Attempts
    /\ \E r \in Transient : Hears(i, r)
    /\ tries' = [tries EXCEPT ![i] = @ + 1]
    /\ Returns(i)
    /\ UNCHANGED <<pc, entry, chunks>>

(* A transient error on the last attempt. *)
GiveUp(i) ==
    /\ pc[i] = "send"
    /\ tries[i] = Attempts
    /\ \E r \in Lost : Hears(i, r)
    /\ entry' = [entry EXCEPT ![i].attempts = Counted(i)]
    /\ Goto(i, "done")
    /\ UNCHANGED <<tries, chunks>>

(* Any other exception leaves _run_probe: its attempts are not counted. *)
Breaks(i) ==
    /\ pc[i] = "send"
    /\ Hears(i, "broken")
    /\ Goto(i, "done")
    /\ UNCHANGED <<entry, tries, chunks>>

(* Mutant of Follow: the redirects are not counted. *)
FollowAny(i) ==
    /\ pc[i] = "send"
    /\ Hears(i, "redirect")
    /\ entry' = [entry EXCEPT ![i].attempts = Counted(i)]
    /\ Goto(i, "guard")
    /\ UNCHANGED <<tries, chunks>>

(* The first redirect within the origin. *)
Follow(i) ==
    /\ pc[i] = "send"
    /\ entry[i].redirects = 0
    /\ Hears(i, "redirect")
    /\ entry' = [entry EXCEPT ![i].attempts = Counted(i), ![i].redirects = 1]
    /\ Goto(i, "guard")
    /\ UNCHANGED <<tries, chunks>>

(* A second one, one to another origin, or one without a location. *)
NotFollowed(i) ==
    /\ pc[i] = "send"
    /\ \E r \in Redirects :
          /\ r = "redirect" => entry[i].redirects = 1
          /\ Hears(i, r)
    /\ entry' = [entry EXCEPT ![i].attempts = Counted(i)]
    /\ Goto(i, "done")
    /\ UNCHANGED <<tries, chunks>>

(* A final response of 400 or above. *)
ErrorResponse(i) ==
    /\ pc[i] = "send"
    /\ \E r \in {"error", "busy"} :
          /\ r = "busy" => tries[i] = Attempts
          /\ Hears(i, r)
          /\ entry' = [entry EXCEPT ![i].attempts = Counted(i), ![i].http = r]
    /\ Goto(i, "done")
    /\ UNCHANGED <<tries, chunks>>

Opens(i) ==
    /\ pc[i] = "send"
    /\ Hears(i, "ok")
    /\ entry' = [entry EXCEPT ![i].attempts = Counted(i), ![i].http = "ok"]
    /\ Goto(i, "body")
    /\ UNCHANGED <<tries, chunks>>

-----------------------------------------------------------------------------
(* read_capped_body and the verdict on the manifest. *)

(* Mutant of Chunk: the size of the last chunk is compared, not the total. *)
ChunkAlone(i) ==
    /\ pc[i] = "body"
    /\ chunks' = [chunks EXCEPT ![i] = (@ + 1) % (MaxChunks + 1)]
    /\ Returns(i)
    /\ UNCHANGED <<pc, entry, tries, heard>>

Chunk(i) ==
    /\ pc[i] = "body"
    /\ chunks[i] < MaxChunks
    /\ chunks' = [chunks EXCEPT ![i] = @ + 1]
    /\ Returns(i)
    /\ UNCHANGED <<pc, entry, tries, heard>>

(* One chunk more than the limit. *)
Overflows(i) ==
    /\ pc[i] = "body"
    /\ chunks[i] = MaxChunks
    /\ Hears(i, "flood")
    /\ entry' = [entry EXCEPT ![i].status = "invalid_manifest"]
    /\ Goto(i, "done")
    /\ UNCHANGED <<tries, chunks>>

(* An exception while the body is read or parsed: still unreachable. *)
Cut(i) ==
    /\ pc[i] = "body"
    /\ Hears(i, "cut")
    /\ Goto(i, "done")
    /\ UNCHANGED <<entry, tries, chunks>>

(* Mutant of Finalized: a note outranks the missing https. *)
FinalizedNoteFirst(i, body) ==
    CASE body = "junk" -> "invalid_manifest"
      [] body = "foreign" -> "identity_mismatch"
      [] body = "noted" -> "warning"
      [] body = "manifest" /\ i \notin https -> "insecure_transport"
      [] OTHER -> "healthy"

(* _classify_manifest and _finalize_status: content comes before the       *)
(* missing https, which comes before the notes.                            *)
Finalized(i, body) ==
    CASE body = "junk" -> "invalid_manifest"
      [] body = "foreign" -> "identity_mismatch"
      [] body \in Manifests /\ i \notin https -> "insecure_transport"
      [] body = "noted" /\ i \in https -> "warning"
      [] OTHER -> "healthy"

Classified(i) ==
    /\ pc[i] = "body"
    /\ \E body \in Manifests \cup {"foreign", "junk"} :
          /\ Hears(i, body)
          /\ entry' = [entry EXCEPT ![i].status = Finalized(i, body),
                                    ![i].document = body \in Manifests]
    /\ Goto(i, "done")
    /\ UNCHANGED <<tries, chunks>>

(* The server sends what neither ends the call nor counts: bytes of a      *)
(* compressed body from which nothing is decoded, for which iter_bytes     *)
(* yields no chunk, or interim responses (1xx) before the answer.  No read *)
(* times out, and the call returns when the server goes on.                *)
HoldsBack(i) ==
    /\ pc[i] \in {"send", "body"}
    /\ i \notin held
    /\ held' = held \cup {i}
    /\ UNCHANGED <<https, audit, exit, pc, probeVars>>

ProbeStep(i) ==
    \/ Blocked(i) \/ Unresolved(i) \/ Resolved(i)
    \/ Retry(i) \/ GiveUp(i) \/ Breaks(i)
    \/ Follow(i) \/ NotFollowed(i) \/ ErrorResponse(i) \/ Opens(i)
    \/ Chunk(i) \/ Overflows(i) \/ Cut(i) \/ Classified(i)

Next ==
    \/ Start \/ RefuseCollection \/ Report \/ Interrupt \/ Abort
    \/ \E i \in Probes : Take(i) \/ ProbeStep(i) \/ HoldsBack(i)

Spec == Init /\ [][Next]_vars

(* A call of a worker returns unless its server holds it back: the         *)
(* resolver has its own timeout, httpx.Timeout bounds every wait for the   *)
(* next bytes, and the backoff is at most two seconds.  There is no clock  *)
(* over a whole call, so nothing makes a call return that is held back.    *)
(* The main thread waits for nothing but the workers.                      *)
Fairness ==
    /\ WF_vars(Report) /\ WF_vars(Abort)
    /\ \A i \in Probes : WF_vars(Take(i)) /\ WF_vars(i \notin held /\ ProbeStep(i))

FairSpec == Spec /\ Fairness
-----------------------------------------------------------------------------
(* Type invariant. *)
TypeOK ==
    /\ https \in Https
    /\ audit \in {"idle", "running", "interrupted", "refused", "reported", "aborted"}
    /\ exit \in {"none", "ok", "invalid", "network", "defect"}
    /\ pc \in [Probes -> Steps]
    /\ entry \in [Probes -> Entries]
    /\ tries \in [Probes -> 0..Attempts]
    /\ chunks \in [Probes -> 0..MaxChunks]
    /\ held \in SUBSET Probes
    /\ heard \in [Probes -> Seq(Replies \cup Bodies)]

(* What a probe heard last, and the answers to its requests. *)
Last(i) == IF heard[i] = <<>> THEN "nothing" ELSE heard[i][Len(heard[i])]

Requests(i) == {n \in DOMAIN heard[i] : heard[i][n] \in Replies}
Redirected(i) == {n \in Requests(i) : heard[i][n] = "redirect"}

(* The table of statuses (docs/data-formats.md): the verdict on what was   *)
(* heard last, however many attempts and redirects came before it.  Only   *)
(* where a guard may have stopped the probe are there two.                 *)
Verdicts(i) ==
    CASE Last(i) \in Manifests /\ i \notin https -> {"insecure_transport"}
      [] Last(i) = "manifest" /\ i \in https -> {"healthy"}
      [] Last(i) = "noted" /\ i \in https -> {"warning"}
      [] Last(i) = "foreign" -> {"identity_mismatch"}
      [] Last(i) \in {"junk", "flood"} -> {"invalid_manifest"}
      [] \/ Last(i) = "nothing"
         \/ /\ Last(i) = "redirect"
            /\ Cardinality(Redirected(i)) = 1
           -> {"unreachable", "blocked_destination"}
      [] OTHER -> {"unreachable"}

(* The row of a probe that ended is the verdict on what it heard last; it  *)
(* keeps a document, which a promotion trusts, only of a usable manifest;  *)
(* and it shows the HTTP status of the answer to the last request, not of  *)
(* an earlier hop or attempt, and none if that was not answered.  What it  *)
(* shows after a redirect at which it stopped is left open: the code shows *)
(* none, docs/data-formats.md:256 has that only "if no response was        *)
(* received".                                                              *)
StatusHolds(i) ==
    /\ entry[i].status \in Verdicts(i)
    /\ entry[i].document <=> Last(i) \in Manifests
    /\ Last(i) \notin Redirects =>
          entry[i].http = CASE Last(i) \in Bodies -> "ok"
                            [] Last(i) \in {"error", "busy"} -> Last(i)
                            [] OTHER -> "none"

StatusesHold == \A i \in Probes : pc[i] = "done" => StatusHolds(i)

(* No request is made without need: each but the last was answered by a    *)
(* transient failure or by the one redirect that is followed, and neither  *)
(* before nor after the redirect are there more than Attempts of them.     *)
RequestsBounded ==
    \A i \in Probes :
        /\ \A n \in Requests(i) :
              n + 1 \in Requests(i) => heard[i][n] \in Transient \cup {"redirect"}
        /\ \A n, m \in Redirected(i) : n < m => m + 1 \notin Requests(i)
        /\ \A n \in Requests(i) :
              n > Attempts => \E r \in Redirected(i) : r < n /\ n - r <= Attempts

(* The attempts of the report are the requests of all hops, except that    *)
(* those of a hop that ended in another exception are missing.             *)
AttemptsAreCounted ==
    \A i \in Probes :
        pc[i] = "done" =>
            Cardinality(Requests(i)) =
                entry[i].attempts + IF Last(i) = "broken" THEN tries[i] ELSE 0

(* These probes are held back for ever. *)
Stuck(S) == <>[](S \subseteq held)

(* A server that holds its probe back for ever costs the audit that probe  *)
(* and a worker, and the command its end, but nothing else: every other    *)
(* probe, also one that is still queued, ends while there is a worker      *)
(* left; and if no server does that, the command ends, with a report or    *)
(* after an interrupt.                                                     *)
EveryAuditEnds ==
    /\ \A i \in Probes :
          \/ Stuck({i})
          \/ \E S \in {T \in SUBSET Probes : Cardinality(T) = Workers} : Stuck(S)
          \/ (audit = "running") ~> Ended(i)
    /\ \/ \E i \in Probes : Stuck({i})
       \/ (audit \in {"running", "interrupted"}) ~> (exit # "none")

(* What the command promises: see AuditPromise. *)
Promise == INSTANCE AuditPromise WITH
    verdict <- [i \in Probes |-> IF pc[i] = "done" THEN entry[i].status ELSE "none"]

(* The command is an AuditPromise. *)
KeepsPromise == Promise!Spec

(* docs/data-formats.md:258: "attempts: Total request attempts across      *)
(* retries and any followed redirect."                                     *)
AttemptsAreTotal ==
    \A i \in Probes :
        pc[i] = "done" => entry[i].attempts = Cardinality(Requests(i))
=============================================================================
