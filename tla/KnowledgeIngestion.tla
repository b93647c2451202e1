------------------------- MODULE KnowledgeIngestion -------------------------
(***************************************************************************)
(* Upload, ingestion and retry of documents in one workspace:              *)
(* backend/app/services/knowledge_service.py with the blob store of         *)
(* backend/app/knowledge/blob_store.py and the constraints of migration     *)
(* 0003.                                                                   *)
(*                                                                         *)
(* upload_document always creates a new document with one version and one   *)
(* job, so a document id stands for all three.  A request is split at its   *)
(* commits and at the unlocked reads whose result it uses later; a final    *)
(* flush and its commit are one step, since every transaction that writes   *)
(* chunk rows inserts them in the same order and a conflicting insert waits *)
(* for the other's commit.  That the source is active is read once, at the  *)
(* start of an upload, and update_source may switch it at any time;          *)
(* GroundedAnswering has the two switches, source and archive.              *)
(***************************************************************************)
EXTENDS Naturals, FiniteSets

CONSTANTS Docs, Keys,
          Requests,   \* HTTP requests that can be in progress at once
          MaxChunks   \* bound on the chunks of a document

ASSUME IngestionAssumption == Docs # {} /\ Keys # {} /\ MaxChunks \in Nat

VARIABLES
    job,          \* knowledge_ingestion_jobs.status; "pending" is uncommitted
    key,          \* idempotency_key of a job
    size,         \* how many chunks the chunker makes of a document
    blobs,        \* documents whose content is in the blob store
    chunks,       \* knowledge_chunks (each with its embedding)
    audit,        \* audit events of a document's job
    req,          \* what each request is doing; see RequestStates
    \* history, which no action reads:
    overlapped,   \* documents on which requests overlap, until the last of them ends
    interrupted   \* documents of requests that a crash or an I/O error cut short

vars == <<job, key, size, blobs, chunks, audit, req, overlapped, interrupted>>

JobStates == {"absent", "pending", "queued", "running", "succeeded", "failed"}
Events == {"uploaded", "succeeded", "failed", "retry_requested"}
ChunkRows == [doc : Docs, index : 0..(MaxChunks - 1), run : Requests]

\* "written": the blob is stored; "inserted": the rows are flushed; "start":
\* about to run the ingestion; "pipeline": the job is marked running;
\* "retrying": a failed job was read; "reset": it was put back to queued.
RequestStates ==
    [pc : {"idle", "written", "inserted", "start", "pipeline", "retrying", "reset"},
     doc : Docs]

IdleRequest == [pc |-> "idle", doc |-> CHOOSE d \in Docs : TRUE]

Idle(r) == req[r].pc = "idle"
WorksOn(r, d) == ~Idle(r) /\ req[r].doc = d
Goto(r, p) == req' = [req EXCEPT ![r].pc = p]
Finish(r) ==
    /\ req' = [req EXCEPT ![r] = IdleRequest]
    /\ overlapped' = {d \in overlapped : \E q \in Requests \ {r} : WorksOn(q, d)}
Chunks(d) == {c \in chunks : c.doc = d}
Settled == {"succeeded", "failed"}

-----------------------------------------------------------------------------
(* POST .../sources/{source_id}/documents *)

\* Steps 1-8 of upload_document: the source is active; the document row is
\* flushed and the content written under a key made of fresh UUIDs, by a rename
\* that leaves either the whole blob or none.
Upload(r, d, k, n) ==
    /\ Idle(r)
    /\ job[d] = "absent" /\ d \notin blobs
    /\ blobs' = blobs \cup {d}
    /\ key' = [key EXCEPT ![d] = k]
    /\ size' = [size EXCEPT ![d] = n]
    /\ req' = [req EXCEPT ![r] = [pc |-> "written", doc |-> d]]
    /\ UNCHANGED <<job, chunks, audit, overlapped, interrupted>>

\* Mutant: the unique index covers committed rows only (a pre-flight read).
InsertJobPreflight(r) ==
    /\ req[r].pc = "written"
    /\ \A d \in Docs : job[d] \notin {"absent", "pending"} => key[d] # key[req[r].doc]
    /\ job' = [job EXCEPT ![req[r].doc] = "pending"]
    /\ Goto(r, "inserted")
    /\ UNCHANGED <<key, size, blobs, chunks, audit, overlapped, interrupted>>

\* Steps 9-10: the version and the job are flushed.  The unique constraint on
\* the idempotency key makes the INSERT wait for a concurrent one to end.
InsertJob(r) ==
    /\ req[r].pc = "written"
    /\ \A d \in Docs : job[d] # "absent" => key[d] # key[req[r].doc]
    /\ job' = [job EXCEPT ![req[r].doc] = "pending"]
    /\ Goto(r, "inserted")
    /\ UNCHANGED <<key, size, blobs, chunks, audit, overlapped, interrupted>>

\* Mutant: a cleanup that deletes the blob of the job that has the key.
IdempotencyConflictDeletes(r) ==
    /\ req[r].pc = "written"
    /\ \E d \in Docs :
          /\ job[d] \notin {"absent", "pending"} /\ key[d] = key[req[r].doc]
          /\ blobs' = blobs \ {d}
    /\ Finish(r)
    /\ UNCHANGED <<job, key, size, chunks, audit, interrupted>>

\* The key belongs to a committed job: IntegrityError, rollback, 409.  The
\* handler leaves the blob in the store.
IdempotencyConflict(r) ==
    /\ req[r].pc = "written"
    /\ \E d \in Docs : job[d] \notin {"absent", "pending"} /\ key[d] = key[req[r].doc]
    /\ Finish(r)
    /\ UNCHANGED <<job, key, size, blobs, chunks, audit, interrupted>>

\* Steps 11-12: the audit event, and the commit of the queued job.
CommitUpload(r) ==
    /\ req[r].pc = "inserted"
    /\ job' = [job EXCEPT ![req[r].doc] = "queued"]
    /\ audit' = [audit EXCEPT ![req[r].doc] = @ \cup {"uploaded"}]
    /\ Goto(r, "start")
    /\ UNCHANGED <<key, size, blobs, chunks, overlapped, interrupted>>

-----------------------------------------------------------------------------
(* _run_ingestion *)

\* Mutant: the mark is left out for a job that says "succeeded".
StartRunUnlessSucceeded(r) ==
    /\ req[r].pc = "start"
    /\ job' = [job EXCEPT ![req[r].doc] = IF @ = "succeeded" THEN @ ELSE "running"]
    /\ Goto(r, "pipeline")
    /\ UNCHANGED <<key, size, blobs, chunks, audit, overlapped, interrupted>>

\* The job is marked running, whatever its row says by now: the SELECT returns
\* the object already in the session, and the UPDATE is by primary key.
StartRun(r) ==
    /\ req[r].pc = "start"
    /\ job' = [job EXCEPT ![req[r].doc] = "running"]
    /\ Goto(r, "pipeline")
    /\ UNCHANGED <<key, size, blobs, chunks, audit, overlapped, interrupted>>

\* Mutant: no unique(version_id, chunk_index).
RunSucceedsAnyway(r) ==
    LET d == req[r].doc IN
    /\ req[r].pc = "pipeline"
    /\ chunks' = chunks \cup {[doc |-> d, index |-> i, run |-> r] : i \in 0..(size[d] - 1)}
    /\ job' = [job EXCEPT ![d] = "succeeded"]
    /\ audit' = [audit EXCEPT ![d] = @ \cup {"succeeded"}]
    /\ Finish(r)
    /\ UNCHANGED <<key, size, blobs, interrupted>>

\* Mutant: off by one in the chunk indexes.
RunSucceedsOneMore(r) ==
    LET d == req[r].doc IN
    /\ req[r].pc = "pipeline"
    /\ size[d] = 0 \/ Chunks(d) = {}
    /\ chunks' = chunks \cup {[doc |-> d, index |-> i, run |-> r] : i \in 0..size[d]}
    /\ job' = [job EXCEPT ![d] = "succeeded"]
    /\ audit' = [audit EXCEPT ![d] = @ \cup {"succeeded"}]
    /\ Finish(r)
    /\ UNCHANGED <<key, size, blobs, interrupted>>

\* Parsing, chunking and embedding went well: the chunk rows, the status and
\* the audit event are committed together.
RunSucceeds(r) ==
    LET d == req[r].doc IN
    /\ req[r].pc = "pipeline"
    /\ size[d] = 0 \/ Chunks(d) = {}
    /\ chunks' = chunks \cup {[doc |-> d, index |-> i, run |-> r] : i \in 0..(size[d] - 1)}
    /\ job' = [job EXCEPT ![d] = "succeeded"]
    /\ audit' = [audit EXCEPT ![d] = @ \cup {"succeeded"}]
    /\ Finish(r)
    /\ UNCHANGED <<key, size, blobs, interrupted>>

\* The same commit when another run's rows already hold the chunk indexes:
\* unique(version_id, chunk_index) fails it.  The commit is outside the
\* pipeline's try, so that the request ends and the status stays as it is.
ChunkConflict(r) ==
    LET d == req[r].doc IN
    /\ req[r].pc = "pipeline"
    /\ size[d] > 0 /\ Chunks(d) # {}
    /\ Finish(r)
    /\ UNCHANGED <<job, key, size, blobs, chunks, audit, interrupted>>

\* Mutant: an exception of the pipeline is not caught.
RunFailsUncaught(r) ==
    /\ req[r].pc = "pipeline"
    /\ Finish(r)
    /\ UNCHANGED <<job, key, size, blobs, chunks, audit, interrupted>>

\* Mutant: a failed run goes straight back to the queue.
RunFailsRequeues(r) ==
    /\ req[r].pc = "pipeline"
    /\ job' = [job EXCEPT ![req[r].doc] = "queued"]
    /\ audit' = [audit EXCEPT ![req[r].doc] = @ \cup {"failed"}]
    /\ Goto(r, "start")
    /\ UNCHANGED <<key, size, blobs, chunks, overlapped, interrupted>>

\* The pipeline raised: the job is marked failed, with no chunk row.
RunFails(r) ==
    /\ req[r].pc = "pipeline"
    /\ job' = [job EXCEPT ![req[r].doc] = "failed"]
    /\ audit' = [audit EXCEPT ![req[r].doc] = @ \cup {"failed"}]
    /\ Finish(r)
    /\ UNCHANGED <<key, size, blobs, chunks, interrupted>>

-----------------------------------------------------------------------------
(* POST .../jobs/{job_id}/retry *)

\* Mutant: a job that has succeeded can be retried.
RetryReadSettled(r, d) ==
    /\ Idle(r)
    /\ job[d] \in Settled
    /\ req' = [req EXCEPT ![r] = [pc |-> "retrying", doc |-> d]]
    /\ overlapped' = IF \E q \in Requests : WorksOn(q, d) THEN overlapped \cup {d} ELSE overlapped
    /\ UNCHANGED <<job, key, size, blobs, chunks, audit, interrupted>>

\* retry_job reads the job without a lock and goes on if it has failed, also when
\* another retry of it is under way.
RetryRead(r, d) ==
    /\ Idle(r)
    /\ job[d] = "failed"
    /\ req' = [req EXCEPT ![r] = [pc |-> "retrying", doc |-> d]]
    /\ overlapped' = IF \E q \in Requests : WorksOn(q, d) THEN overlapped \cup {d} ELSE overlapped
    /\ UNCHANGED <<job, key, size, blobs, chunks, audit, interrupted>>

\* The job is put back to queued, whatever its row says by now.
RetryReset(r) ==
    /\ req[r].pc = "retrying"
    /\ job' = [job EXCEPT ![req[r].doc] = "queued"]
    /\ audit' = [audit EXCEPT ![req[r].doc] = @ \cup {"retry_requested"}]
    /\ Goto(r, "reset")
    /\ UNCHANGED <<key, size, blobs, chunks, overlapped, interrupted>>

\* The content is read back and the version's chunk rows are deleted.
RetryClean(r) ==
    /\ req[r].pc = "reset"
    /\ req[r].doc \in blobs
    /\ chunks' = chunks \ Chunks(req[r].doc)
    /\ Goto(r, "start")
    /\ UNCHANGED <<job, key, size, blobs, audit, overlapped, interrupted>>

-----------------------------------------------------------------------------
\* The process dies, the connection is lost or the blob cannot be read: the
\* open transaction is rolled back, what was committed stays.
Fault(r) ==
    /\ ~Idle(r)
    /\ job' = IF req[r].pc = "inserted" THEN [job EXCEPT ![req[r].doc] = "absent"] ELSE job
    /\ interrupted' = interrupted \cup {req[r].doc}
    /\ Finish(r)
    /\ UNCHANGED <<key, size, blobs, chunks, audit>>

-----------------------------------------------------------------------------
Init ==
    /\ job = [d \in Docs |-> "absent"]
    /\ key = [d \in Docs |-> CHOOSE k \in Keys : TRUE]
    /\ size = [d \in Docs |-> 0]
    /\ blobs = {}
    /\ chunks = {}
    /\ audit = [d \in Docs |-> {}]
    /\ req = [r \in Requests |-> IdleRequest]
    /\ overlapped = {}
    /\ interrupted = {}

\* The next step of a request that has begun.
Progress(r) ==
    \/ InsertJob(r) \/ IdempotencyConflict(r) \/ CommitUpload(r)
    \/ StartRun(r) \/ RunSucceeds(r) \/ ChunkConflict(r) \/ RunFails(r)
    \/ RetryReset(r) \/ RetryClean(r)

Next ==
    \E r \in Requests :
        \/ Progress(r)
        \/ Fault(r)
        \/ \E d \in Docs : RetryRead(r, d)
        \/ \E d \in Docs, k \in Keys, n \in 0..MaxChunks : Upload(r, d, k, n)

Spec == Init /\ [][Next]_vars

\* A request that has begun is served to its end: the event loop runs it, and
\* its embedding calls return or raise.
FairSpec == Spec /\ \A r \in Requests : WF_vars(Progress(r))

-----------------------------------------------------------------------------
(* Properties *)

\* The types of the rows, the store and the requests.
TypeOK ==
    /\ job \in [Docs -> JobStates]
    /\ key \in [Docs -> Keys]
    /\ size \in [Docs -> 0..MaxChunks]
    /\ blobs \subseteq Docs
    /\ chunks \subseteq ChunkRows
    /\ audit \in [Docs -> SUBSET Events]
    /\ req \in [Requests -> RequestStates]
    /\ overlapped \subseteq Docs
    /\ interrupted \subseteq Docs

\* Two uploads with one idempotency key, however they interleave and fail,
\* never both leave a job.
OneJobPerKey ==
    \A d, e \in Docs :
        (job[d] # "absent" /\ job[e] # "absent" /\ key[d] = key[e]) => d = e

\* Every job's content is in the blob store, so that a retry can load it.
JobHasBlob == \A d \in Docs : job[d] # "absent" => d \in blobs

\* The chunk rows of a version are always the whole output of one run: no
\* interleaving of runs, cleanups and faults leaves a part, or a mixture of two.
ChunksOfOneRun ==
    \A d \in Docs : Chunks(d) # {} =>
        \E r \in Requests :
            Chunks(d) = {[doc |-> d, index |-> i, run |-> r] : i \in 0..(size[d] - 1)}

\* Search joins chunks with jobs that have succeeded.  Overlapping retries may delete
\* the chunks of such a job; then one of them is about to run the job again, and only
\* its being cut short leaves a job that says "succeeded" and is not found.
SucceededIsSearchable ==
    \A d \in Docs : job[d] = "succeeded" =>
        \/ Cardinality(Chunks(d)) = size[d]
        \/ \E r \in Requests : req[r].pc = "start" /\ req[r].doc = d
        \/ d \in interrupted

\* Nobody works on the job, and no status tells a client that it may be searched or
\* retried.
Abandoned(d) ==
    /\ job[d] \notin Settled \cup {"absent"}
    /\ \A r \in Requests : ~WorksOn(r, d)

\* What abandons a job, other than a request cut short, is the conflict of a run with
\* the chunks of another: those chunks are there, and the audit trail has the failure,
\* the retry and the success.
NoneAbandoned ==
    \A d \in Docs : Abandoned(d) =>
        \/ d \in interrupted
        \/ Chunks(d) # {} /\ {"failed", "retry_requested", "succeeded"} \subseteq audit[d]

\* The job rows as their readers see them, and the jobs with overlapping requests.
Lifecycle == INSTANCE JobLifecycle WITH
    Jobs <- Docs,
    status <- [d \in Docs |-> IF job[d] = "pending" THEN "absent" ELSE job[d]],
    contested <- overlapped

\* A job's status makes the moves of INGESTION_JOB_TRANSITIONS, whatever faults there
\* are; it makes others only while requests overlap on it, and those begin with a
\* failed job.
ImplementsLifecycle == Lifecycle!Spec

\* Every job comes to an end or is abandoned, which NoneAbandoned bounds.
JobsSettle ==
    \A d \in Docs : job[d] \in {"queued", "running"} ~> (job[d] \in Settled \/ Abandoned(d))

\* "Succeeded and cancelled jobs are terminal and cannot be retried"
\* (knowledge_service.py:757): false of overlapping retries, see the run retry_race.
SucceededIsTerminal == [][\A d \in Docs : job[d] = "succeeded" => job'[d] = "succeeded"]_vars
=============================================================================
