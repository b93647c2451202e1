----------------------- MODULE KnowledgeIngestionProofs -----------------------
(***************************************************************************)
(* Safety of KnowledgeIngestion for every set of documents, keys and        *)
(* requests and any number of chunks, faults and overlapping retries, and   *)
(* that it implements JobLifecycle.  At the end, what the chunker of the     *)
(* pipeline computes for every number of words and all settings its          *)
(* constructor accepts.                                                     *)
(***************************************************************************)
EXTENDS KnowledgeIngestion, FiniteSetTheorems, TLAPS

PCs == {"idle", "written", "inserted", "start", "pipeline", "retrying", "reset"}
Uploading(r) == req[r].pc \in {"written", "inserted"}
Committed(d) == job[d] \notin {"absent", "pending"}
Output(d, r) == {[doc |-> d, index |-> i, run |-> r] : i \in 0..(size[d] - 1)}

\* What a request knows of its document.
RequestInv ==
    \A r \in Requests :
        /\ ~Idle(r) => req[r].doc \in blobs
        /\ req[r].pc = "written" => job[req[r].doc] = "absent"
        /\ req[r].pc = "inserted" => job[req[r].doc] = "pending"
        /\ ~Idle(r) /\ ~Uploading(r) => Committed(req[r].doc)

\* A document is uploaded by one request: its blob, written first, keeps others off.
UploadInv ==
    \A r, q \in Requests :
        Uploading(r) /\ Uploading(q) /\ req[r].doc = req[q].doc => r = q

ChunkInv == \A c \in chunks : Committed(c.doc)

IInv == TypeOK /\ RequestInv /\ UploadInv /\ ChunkInv /\ OneJobPerKey /\ JobHasBlob /\ ChunksOfOneRun

\* At most one request works on a document.
Alone(d) == \A r, q \in Requests : WorksOn(r, d) /\ WorksOn(q, d) => r = q

\* The job is in the status its request left it in, and a run finds no chunks.
InStep(d) ==
    \A r \in Requests : WorksOn(r, d) =>
        /\ req[r].pc \in {"start", "reset"} => job[d] = "queued"
        /\ req[r].pc = "pipeline" => job[d] = "running"
        /\ req[r].pc = "retrying" => job[d] = "failed"
        /\ req[r].pc \in {"start", "pipeline"} => Chunks(d) = {}

\* What the audit trail has of a failure, of the retries it led to, and of success.
\* A run without a failure before it is the first, and has the document to itself.
Trail(d) ==
    /\ "failed" \notin audit[d] => Alone(d)
    /\ job[d] = "failed" => "failed" \in audit[d]
    /\ "failed" \in audit[d] => Committed(d)
    /\ Chunks(d) # {} => "succeeded" \in audit[d]
    /\ \A r \in Requests : WorksOn(r, d) =>
          /\ req[r].pc \in {"retrying", "reset"} => "failed" \in audit[d]
          /\ req[r].pc = "reset" => "retry_requested" \in audit[d]
          /\ req[r].pc \in {"start", "pipeline"} =>
                \/ {"failed", "retry_requested"} \subseteq audit[d]
                \/ Chunks(d) = {} /\ "failed" \notin audit[d]

\* A job that says "succeeded" has a run's chunks, or is about to be run again.
Success(d) ==
    job[d] = "succeeded" =>
        \/ \E r \in Requests : Chunks(d) = Output(d, r)
        \/ \E r \in Requests : req[r].pc = "start" /\ req[r].doc = d
        \/ d \in interrupted

Explained(d) ==
    Abandoned(d) =>
        \/ d \in interrupted
        \/ Chunks(d) # {} /\ {"failed", "retry_requested", "succeeded"} \subseteq audit[d]

\* What holds of each document by itself; while no requests overlap on it, more.
DocInv(d) ==
    /\ d \in overlapped => \E r \in Requests : WorksOn(r, d)
    /\ d \notin overlapped => Alone(d) /\ InStep(d)
    /\ Trail(d)
    /\ Success(d)
    /\ Explained(d)

DocsInv == \A d \in Docs : DocInv(d)

-----------------------------------------------------------------------------
(* How requests change *)

LEMMA IdleTyped == IdleRequest \in RequestStates /\ IdleRequest.pc = "idle"
<1>1. (CHOOSE d \in Docs : TRUE) \in Docs
  BY IngestionAssumption
<1>2. QED
  BY <1>1 DEF IdleRequest, RequestStates

LEMMA GotoFacts ==
    ASSUME req \in [Requests -> RequestStates], NEW r \in Requests, NEW p \in PCs, Goto(r, p)
    PROVE  /\ req' \in [Requests -> RequestStates]
           /\ req'[r].pc = p /\ req'[r].doc = req[r].doc
           /\ \A q \in Requests : q # r => req'[q] = req[q]
BY DEF Goto, RequestStates, PCs

LEMMA AssignFacts ==
    ASSUME req \in [Requests -> RequestStates], NEW r \in Requests, NEW p \in PCs, NEW d \in Docs,
           req' = [req EXCEPT ![r] = [pc |-> p, doc |-> d]]
    PROVE  /\ req' \in [Requests -> RequestStates]
           /\ req'[r].pc = p /\ req'[r].doc = d
           /\ \A q \in Requests : q # r => req'[q] = req[q]
BY DEF RequestStates, PCs

LEMMA FinishFacts ==
    ASSUME req \in [Requests -> RequestStates], NEW r \in Requests, Finish(r)
    PROVE  /\ req' \in [Requests -> RequestStates]
           /\ req'[r].pc = "idle"
           /\ \A q \in Requests : q # r => req'[q] = req[q]
           /\ overlapped' \subseteq overlapped
BY IdleTyped DEF Finish

-----------------------------------------------------------------------------
(* The invariant, action by action *)

LEMMA InitIInv == Init => IInv
<1> SUFFICES ASSUME Init PROVE IInv
  OBVIOUS
<1>1. (CHOOSE k \in Keys : TRUE) \in Keys
  BY IngestionAssumption
<1>2. TypeOK
  BY <1>1, IdleTyped, IngestionAssumption DEF Init, TypeOK, JobStates
<1>3. RequestInv /\ UploadInv /\ ChunkInv
  BY IdleTyped DEF Init, RequestInv, UploadInv, ChunkInv, Idle, Uploading
<1>4. OneJobPerKey /\ JobHasBlob /\ ChunksOfOneRun
  BY DEF Init, OneJobPerKey, JobHasBlob, ChunksOfOneRun, Chunks
<1>5. QED
  BY <1>2, <1>3, <1>4 DEF IInv

LEMMA UploadIInv ==
    ASSUME IInv, NEW r \in Requests, NEW d \in Docs, NEW k \in Keys, NEW n \in 0..MaxChunks,
           Upload(r, d, k, n)
    PROVE  IInv'
<1> USE DEF IInv, TypeOK
<1>1. /\ req' \in [Requests -> RequestStates]
      /\ req'[r].pc = "written" /\ req'[r].doc = d
      /\ \A q \in Requests : q # r => req'[q] = req[q]
  BY AssignFacts DEF Upload, PCs
<1>2. TypeOK'
  BY <1>1 DEF Upload
<1>3. RequestInv'
  BY <1>1 DEF Upload, RequestInv, Idle, Uploading, Committed
<1>4. UploadInv'
  BY <1>1 DEF Upload, UploadInv, RequestInv, Idle, Uploading
<1>5. ChunkInv' /\ OneJobPerKey' /\ JobHasBlob'
  BY DEF Upload, ChunkInv, Committed, OneJobPerKey, JobHasBlob
<1>6. ChunksOfOneRun'
  BY DEF Upload, ChunksOfOneRun, Chunks, ChunkInv, Committed
<1>7. QED
  BY <1>2, <1>3, <1>4, <1>5, <1>6

LEMMA InsertJobIInv ==
    ASSUME IInv, NEW r \in Requests, InsertJob(r)
    PROVE  IInv'
<1> USE DEF IInv, TypeOK
<1>1. /\ req' \in [Requests -> RequestStates]
      /\ req'[r].pc = "inserted" /\ req'[r].doc = req[r].doc
      /\ \A q \in Requests : q # r => req'[q] = req[q]
  BY GotoFacts DEF InsertJob, PCs
<1>2. req[r].doc \in Docs /\ req[r].pc = "written" /\ job[req[r].doc] = "absent"
  BY DEF InsertJob, RequestStates, RequestInv
<1>3. TypeOK'
  BY <1>1, <1>2 DEF InsertJob, JobStates
<1>4. UploadInv'
  BY <1>1, <1>2 DEF UploadInv, Uploading
<1>5. RequestInv'
  BY <1>1, <1>2 DEF InsertJob, RequestInv, UploadInv, Idle, Uploading, Committed
<1>6. ChunkInv' /\ JobHasBlob' /\ OneJobPerKey'
  BY <1>2 DEF InsertJob, ChunkInv, Committed, OneJobPerKey, JobHasBlob, RequestInv, Idle, ChunkRows
<1>7. ChunksOfOneRun'
  BY DEF InsertJob, ChunksOfOneRun, Chunks
<1>8. QED
  BY <1>3, <1>4, <1>5, <1>6, <1>7

\* A request that ends with nothing written.
LEMMA FinishIInv ==
    ASSUME IInv, NEW r \in Requests, Finish(r), req[r].pc # "inserted",
           UNCHANGED <<job, key, size, blobs, chunks, audit>>, interrupted' \subseteq Docs
    PROVE  IInv'
<1> USE DEF IInv, TypeOK
<1>1. /\ req' \in [Requests -> RequestStates]
      /\ req'[r].pc = "idle"
      /\ \A q \in Requests : q # r => req'[q] = req[q]
      /\ overlapped' \subseteq overlapped
  BY FinishFacts
<1>2. TypeOK' /\ UploadInv' /\ RequestInv'
  BY <1>1 DEF UploadInv, RequestInv, Idle, Uploading, Committed
<1>3. ChunkInv' /\ JobHasBlob' /\ OneJobPerKey' /\ ChunksOfOneRun'
  BY DEF ChunkInv, Committed, OneJobPerKey, JobHasBlob, ChunksOfOneRun, Chunks
<1>4. QED
  BY <1>2, <1>3

\* A request that has its job moved to another committed status, writes no chunk, and
\* ends or goes on with the same document.
LEMMA StatusIInv ==
    ASSUME IInv, NEW r \in Requests, NEW st \in JobStates \ {"absent", "pending"},
           ~Idle(r), req[r].pc # "written",
           job' = [job EXCEPT ![req[r].doc] = st],
           \/ Finish(r)
           \/ \E p \in PCs \ {"written", "inserted"} : Goto(r, p),
           audit' \in [Docs -> SUBSET Events],
           overlapped' \subseteq overlapped,
           UNCHANGED <<key, size, blobs, chunks, interrupted>>
    PROVE  IInv'
<1> USE DEF IInv, TypeOK
<1>1. /\ req' \in [Requests -> RequestStates]
      /\ ~Uploading(r)'
      /\ req'[r].pc = "idle" \/ req'[r].doc = req[r].doc
      /\ \A q \in Requests : q # r => req'[q] = req[q]
  BY FinishFacts, GotoFacts DEF Uploading
<1>2. req[r].doc \in Docs /\ job[req[r].doc] # "absent"
  BY DEF RequestStates, RequestInv, Committed, Idle, Uploading
<1>3. TypeOK'
  BY <1>1, <1>2
<1>4. UploadInv'
  BY <1>1 DEF UploadInv, Uploading
<1>5. \A q \in Requests : q # r /\ Uploading(q) => req[q].doc # req[r].doc
  BY DEF RequestInv, UploadInv, Uploading, Committed, Idle
<1>6. RequestInv'
  BY <1>1, <1>2, <1>5 DEF RequestInv, Idle, Uploading, Committed
<1>7. ChunkInv' /\ JobHasBlob' /\ OneJobPerKey'
  BY <1>2 DEF ChunkInv, Committed, OneJobPerKey, JobHasBlob, ChunkRows
<1>8. ChunksOfOneRun'
  BY DEF ChunksOfOneRun, Chunks
<1>9. QED
  BY <1>3, <1>4, <1>6, <1>7, <1>8

LEMMA CommitUploadIInv ==
    ASSUME IInv, NEW r \in Requests, CommitUpload(r)
    PROVE  IInv'
<1>1. audit' \in [Docs -> SUBSET Events]
  BY DEF CommitUpload, IInv, TypeOK, Events
<1>2. QED
  BY <1>1, StatusIInv DEF CommitUpload, Idle, JobStates, PCs

LEMMA StartRunIInv ==
    ASSUME IInv, NEW r \in Requests, StartRun(r)
    PROVE  IInv'
BY StatusIInv DEF StartRun, Idle, JobStates, PCs, IInv, TypeOK

LEMMA RunFailsIInv ==
    ASSUME IInv, NEW r \in Requests, RunFails(r)
    PROVE  IInv'
<1>1. audit' \in [Docs -> SUBSET Events]
  BY DEF RunFails, IInv, TypeOK, Events
<1>2. QED
  BY <1>1, StatusIInv DEF RunFails, Idle, JobStates, Finish

LEMMA RetryResetIInv ==
    ASSUME IInv, NEW r \in Requests, RetryReset(r)
    PROVE  IInv'
<1>1. audit' \in [Docs -> SUBSET Events]
  BY DEF RetryReset, IInv, TypeOK, Events
<1>2. QED
  BY <1>1, StatusIInv DEF RetryReset, Idle, JobStates, PCs

LEMMA RunSucceedsIInv ==
    ASSUME IInv, NEW r \in Requests, RunSucceeds(r)
    PROVE  IInv'
<1> USE DEF IInv, TypeOK
<1>0. PICK d \in Docs : d = req[r].doc
  BY DEF RequestStates
<1>1. /\ req' \in [Requests -> RequestStates]
      /\ req'[r].pc = "idle"
      /\ \A q \in Requests : q # r => req'[q] = req[q]
      /\ overlapped' \subseteq overlapped
  BY FinishFacts DEF RunSucceeds
<1>2. Committed(d) /\ size[d] \in 0..MaxChunks
  BY <1>0 DEF RequestStates, RequestInv, Idle, Uploading, RunSucceeds
<1>3. Output(d, r) \subseteq ChunkRows /\ \A c \in Output(d, r) : c.doc = d
  BY <1>2, IngestionAssumption DEF Output, ChunkRows
<1>4. chunks' = chunks \cup Output(d, r) /\ (size[d] = 0 \/ Chunks(d) = {})
  BY <1>0 DEF RunSucceeds, Output
<1>5. TypeOK'
  BY <1>0, <1>1, <1>2, <1>3, <1>4 DEF RunSucceeds, JobStates, Events
<1>6. UploadInv'
  BY <1>1 DEF UploadInv, Uploading
<1>7. RequestInv'
  BY <1>0, <1>1, <1>2 DEF RunSucceeds, RequestInv, UploadInv, Idle, Uploading, Committed
<1>8. ChunkInv'
  BY <1>0, <1>2, <1>3, <1>4 DEF RunSucceeds, ChunkInv, Committed, ChunkRows
<1>9. JobHasBlob' /\ OneJobPerKey'
  BY <1>0, <1>2 DEF RunSucceeds, Committed, OneJobPerKey, JobHasBlob
<1>10. ChunksOfOneRun'
  <2>1. \A e \in Docs : e # d => Chunks(e)' = Chunks(e)
    BY <1>3, <1>4 DEF Chunks
  <2>2. CASE size[d] = 0
    <3>1. Output(d, r) = {}
      BY <2>2 DEF Output
    <3>2. QED
      BY <1>0, <3>1, <1>4 DEF RunSucceeds, ChunksOfOneRun, Chunks
  <2>3. CASE Chunks(d) = {}
    <3>1. Chunks(d)' = Output(d, r)
      BY <1>3, <1>4, <2>3 DEF Chunks
    <3>2. QED
      BY <1>0, <2>1, <3>1 DEF RunSucceeds, ChunksOfOneRun, Output
  <2>4. QED
    BY <1>4, <2>2, <2>3
<1>11. QED
  BY <1>5, <1>6, <1>7, <1>8, <1>9, <1>10

LEMMA RetryReadIInv ==
    ASSUME IInv, NEW r \in Requests, NEW d \in Docs, RetryRead(r, d)
    PROVE  IInv'
<1> USE DEF IInv, TypeOK
<1>1. /\ req' \in [Requests -> RequestStates]
      /\ req'[r].pc = "retrying" /\ req'[r].doc = d
      /\ \A q \in Requests : q # r => req'[q] = req[q]
  BY AssignFacts DEF RetryRead, PCs
<1>2. TypeOK' /\ UploadInv'
  BY <1>1 DEF RetryRead, UploadInv, Uploading
<1>3. RequestInv'
  BY <1>1 DEF RetryRead, RequestInv, JobHasBlob, Idle, Uploading, Committed
<1>4. ChunkInv' /\ JobHasBlob' /\ OneJobPerKey' /\ ChunksOfOneRun'
  BY DEF RetryRead, ChunkInv, Committed, OneJobPerKey, JobHasBlob, ChunksOfOneRun, Chunks
<1>5. QED
  BY <1>2, <1>3, <1>4

LEMMA RetryCleanIInv ==
    ASSUME IInv, NEW r \in Requests, RetryClean(r)
    PROVE  IInv'
<1> USE DEF IInv, TypeOK
<1>1. /\ req' \in [Requests -> RequestStates]
      /\ req'[r].pc = "start" /\ req'[r].doc = req[r].doc
      /\ \A q \in Requests : q # r => req'[q] = req[q]
  BY GotoFacts DEF RetryClean, PCs
<1>2. TypeOK' /\ UploadInv'
  BY <1>1 DEF RetryClean, UploadInv, Uploading
<1>3. RequestInv'
  BY <1>1 DEF RetryClean, RequestInv, Idle, Uploading, Committed
<1>4. ChunkInv' /\ JobHasBlob' /\ OneJobPerKey'
  BY DEF RetryClean, ChunkInv, Committed, OneJobPerKey, JobHasBlob
<1>5. \A e \in Docs : Chunks(e)' = IF e = req[r].doc THEN {} ELSE Chunks(e)
  BY DEF RetryClean, Chunks
<1>6. ChunksOfOneRun'
  BY <1>5 DEF RetryClean, ChunksOfOneRun
<1>7. QED
  BY <1>2, <1>3, <1>4, <1>6

LEMMA FaultIInv ==
    ASSUME IInv, NEW r \in Requests, Fault(r)
    PROVE  IInv'
<1> USE DEF IInv, TypeOK
<1>0. interrupted' \subseteq Docs
  BY DEF Fault, RequestStates
<1>1. CASE req[r].pc # "inserted"
  BY <1>0, <1>1, FinishIInv DEF Fault
<1>2. CASE req[r].pc = "inserted"
  <2>1. /\ req' \in [Requests -> RequestStates]
        /\ req'[r].pc = "idle"
        /\ \A q \in Requests : q # r => req'[q] = req[q]
        /\ overlapped' \subseteq overlapped
    BY FinishFacts DEF Fault
  <2>2. req[r].doc \in Docs /\ job[req[r].doc] = "pending" /\ job' = [job EXCEPT ![req[r].doc] = "absent"]
    BY <1>2 DEF Fault, RequestStates, RequestInv
  <2>3. TypeOK' /\ UploadInv'
    BY <1>0, <2>1, <2>2 DEF Fault, UploadInv, Uploading, JobStates
  <2>4. \A q \in Requests : q # r /\ ~Idle(q) => req[q].doc # req[r].doc
    BY <1>2, <2>2 DEF RequestInv, UploadInv, Uploading, Committed
  <2>5. RequestInv'
    BY <2>1, <2>2, <2>4 DEF Fault, RequestInv, Idle, Uploading, Committed
  <2>6. ChunkInv' /\ JobHasBlob' /\ OneJobPerKey' /\ ChunksOfOneRun'
    BY <2>2 DEF Fault, ChunkInv, ChunkRows, Committed, OneJobPerKey, JobHasBlob, ChunksOfOneRun, Chunks
  <2>7. QED
    BY <2>3, <2>5, <2>6
<1>3. QED
  BY <1>1, <1>2

LEMMA StutterIInv == ASSUME IInv, UNCHANGED vars PROVE IInv'
<1>1. TypeOK'
  BY DEF IInv, TypeOK, vars
<1>2. RequestInv' /\ UploadInv' /\ ChunkInv' /\ JobHasBlob' /\ OneJobPerKey' /\ ChunksOfOneRun'
  BY DEF vars, IInv, RequestInv, UploadInv, Idle, Uploading, ChunkInv, Committed, OneJobPerKey,
         JobHasBlob, ChunksOfOneRun, Chunks
<1>3. QED
  BY <1>1, <1>2 DEF IInv

LEMMA NextIInv == IInv /\ [Next]_vars => IInv'
<1> SUFFICES ASSUME IInv, [Next]_vars PROVE IInv'
  OBVIOUS
<1>1. ASSUME NEW r \in Requests, Progress(r) PROVE IInv'
  <2>1. CASE IdempotencyConflict(r) \/ ChunkConflict(r)
    BY <2>1, FinishIInv DEF IdempotencyConflict, ChunkConflict, IInv, TypeOK
  <2>2. QED
    BY <1>1, <2>1, InsertJobIInv, CommitUploadIInv, StartRunIInv, RunSucceedsIInv, RunFailsIInv,
       RetryResetIInv, RetryCleanIInv DEF Progress
<1>2. QED
  BY <1>1, StutterIInv, FaultIInv, RetryReadIInv, UploadIInv DEF Next

\* The inductive invariant of uploads, runs and retries, overlapping or not.
THEOREM SafetyInductive == Spec => []IInv
BY InitIInv, NextIInv, PTL DEF Spec

\* Rows, store and requests keep their types.
THEOREM TypeCorrect == Spec => []TypeOK
<1>1. IInv => TypeOK
  BY DEF IInv
<1>2. QED
  BY <1>1, SafetyInductive, PTL

\* However many uploads race for an idempotency key and fail, one job has it.
THEOREM KeysAreUnique == Spec => []OneJobPerKey
<1>1. IInv => OneJobPerKey
  BY DEF IInv
<1>2. QED
  BY <1>1, SafetyInductive, PTL

\* No job is ever without its content in the blob store.
THEOREM JobsHaveBlobs == Spec => []JobHasBlob
<1>1. IInv => JobHasBlob
  BY DEF IInv
<1>2. QED
  BY <1>1, SafetyInductive, PTL

\* For any number of overlapping runs and cleanups, the chunks of a version are the
\* output of one run.
THEOREM ChunksAreWhole == Spec => []ChunksOfOneRun
<1>1. IInv => ChunksOfOneRun
  BY DEF IInv
<1>2. QED
  BY <1>1, SafetyInductive, PTL

-----------------------------------------------------------------------------
(* Each document by itself *)

LEMMA InitDocs == Init => DocsInv
<1> SUFFICES ASSUME Init, NEW d \in Docs PROVE DocInv(d)
  BY DEF DocsInv
<1>1. \A r \in Requests : ~WorksOn(r, d)
  BY IdleTyped DEF Init, WorksOn, Idle
<1>2. QED
  BY <1>1 DEF Init, DocInv, Alone, InStep, Trail, Success, Explained, Abandoned, Chunks

\* A step of a request leaves the documents alone that it does not work on.
LEMMA Elsewhere ==
    ASSUME NEW e \in Docs, DocInv(e), NEW r \in Requests,
           ~WorksOn(r, e), ~WorksOn(r, e)',
           \A q \in Requests : q # r => req'[q] = req[q],
           job'[e] = job[e], audit'[e] = audit[e], size'[e] = size[e], Chunks(e)' = Chunks(e),
           e \in interrupted => e \in interrupted',
           e \in overlapped' <=> e \in overlapped
    PROVE  DocInv(e)'
<1>1. \A q \in Requests : WorksOn(q, e)' <=> WorksOn(q, e)
  BY DEF WorksOn, Idle
<1>2. \A q \in Requests : WorksOn(q, e) => req'[q] = req[q]
  OBVIOUS
<1>3. Alone(e)' <=> Alone(e)
  BY <1>1 DEF Alone
<1>4. InStep(e) => InStep(e)'
  BY <1>1, <1>2 DEF InStep
<1>5. /\ (e \in overlapped => \E q \in Requests : WorksOn(q, e))'
      /\ (e \notin overlapped => Alone(e) /\ InStep(e))'
  BY <1>1, <1>3, <1>4 DEF DocInv
<1>6. Trail(e)'
  BY <1>1, <1>2, <1>3 DEF DocInv, Trail, Committed
<1>7. Success(e)'
  <2>1. \A q \in Requests : Output(e, q)' = Output(e, q)
    BY DEF Output
  <2>2. \A q \in Requests : req[q].pc = "start" /\ req[q].doc = e => WorksOn(q, e)
    BY DEF WorksOn, Idle
  <2>3. QED
    BY <2>1, <2>2, <1>2 DEF DocInv, Success
<1>8. Explained(e)'
  BY <1>1 DEF DocInv, Explained, Abandoned
<1>9. QED
  BY <1>5, <1>6, <1>7, <1>8 DEF DocInv

\* The steps of a request that has begun, its own document aside.
LEMMA OthersKeep ==
    ASSUME IInv, DocsInv, NEW r \in Requests, NEW d \in Docs, d = req[r].doc, ~Idle(r),
           \/ Finish(r)
           \/ UNCHANGED overlapped /\ \E p \in PCs : Goto(r, p),
           \A e \in Docs \ {d} :
               /\ job'[e] = job[e] /\ audit'[e] = audit[e] /\ Chunks(e)' = Chunks(e)
               /\ e \in interrupted => e \in interrupted',
           UNCHANGED size, DocInv(d)'
    PROVE  DocsInv'
<1> SUFFICES ASSUME NEW e \in Docs, e # d PROVE DocInv(e)'
  BY DEF DocsInv
<1>1. /\ req'[r].pc = "idle" \/ req'[r].doc = req[r].doc
      /\ \A q \in Requests : q # r => req'[q] = req[q]
  BY FinishFacts, GotoFacts DEF IInv, TypeOK
<1>2. ~WorksOn(r, e) /\ ~WorksOn(r, e)'
  BY <1>1 DEF WorksOn, Idle
<1>3. e \in overlapped' <=> e \in overlapped
  <2>1. CASE Finish(r)
    BY <2>1, <1>2 DEF Finish, DocsInv, DocInv
  <2>2. CASE UNCHANGED overlapped
    BY <2>2
  <2>3. QED
    BY <2>1, <2>2
<1>4. QED
  BY <1>1, <1>2, <1>3, Elsewhere DEF DocsInv

\* An upload works on a document that nobody has a blob of.
LEMMA UploadDocs ==
    ASSUME IInv, DocsInv, NEW r \in Requests, NEW d \in Docs, NEW k \in Keys,
           NEW n \in 0..MaxChunks, Upload(r, d, k, n)
    PROVE  DocsInv'
<1> USE DEF IInv, TypeOK
<1>1. /\ req'[r].pc = "written" /\ req'[r].doc = d
      /\ \A q \in Requests : q # r => req'[q] = req[q]
  BY AssignFacts DEF Upload, PCs
<1>2. \A q \in Requests : ~WorksOn(q, d)
  BY DEF Upload, WorksOn, RequestInv
<1>3. \A q \in Requests : WorksOn(q, d)' => q = r
  BY <1>1, <1>2 DEF WorksOn, Idle
<1>4. Chunks(d)' = {} /\ job'[d] = "absent"
  BY DEF Upload, Chunks, ChunkInv, Committed
<1>5. DocInv(d)'
  BY <1>1, <1>2, <1>3, <1>4 DEF Upload, Committed, DocsInv, DocInv, Alone, InStep, Trail, Success, Explained, Abandoned
<1>6. ASSUME NEW e \in Docs, e # d PROVE DocInv(e)'
  <2>1. ~WorksOn(r, e) /\ ~WorksOn(r, e)'
    BY <1>1, <1>6 DEF Upload, WorksOn, Idle
  <2>2. QED
    BY <1>1, <1>6, <2>1, Elsewhere DEF DocsInv, Upload, Chunks
<1>7. QED
  BY <1>5, <1>6 DEF DocsInv

\* A retry that finds others at work marks the document; the job has failed.
LEMMA RetryReadDocs ==
    ASSUME IInv, DocsInv, NEW r \in Requests, NEW d \in Docs, RetryRead(r, d)
    PROVE  DocsInv'
<1> USE DEF IInv, TypeOK
<1>1. /\ req'[r].pc = "retrying" /\ req'[r].doc = d
      /\ \A q \in Requests : q # r => req'[q] = req[q]
  BY AssignFacts DEF RetryRead, PCs
<1>2. /\ \A q \in Requests : WorksOn(q, d)' <=> q = r \/ WorksOn(q, d)
      /\ \A q \in Requests : WorksOn(q, d) => q # r /\ req'[q] = req[q]
  BY <1>1 DEF RetryRead, WorksOn, Idle
<1>3. Chunks(d)' = Chunks(d) /\ job' = job /\ audit' = audit /\ job[d] = "failed"
      /\ size' = size
  BY DEF RetryRead, Chunks
<1>4. /\ (d \in overlapped => \E q \in Requests : WorksOn(q, d))'
      /\ (d \notin overlapped => Alone(d) /\ InStep(d))'
  BY <1>1, <1>2, <1>3 DEF RetryRead, DocInv, Alone, InStep
<1>5. "failed" \in audit[d]
  BY <1>3 DEF DocsInv, DocInv, Trail
<1>6. Trail(d)'
  BY <1>1, <1>2, <1>3, <1>5 DEF DocsInv, DocInv, Trail, Committed
<1>7. Success(d)' /\ Explained(d)'
  BY <1>3 DEF Success, Explained, Abandoned, Settled
<1>8. ASSUME NEW e \in Docs, e # d PROVE DocInv(e)'
  <2>1. ~WorksOn(r, e) /\ ~WorksOn(r, e)'
    BY <1>1, <1>8 DEF RetryRead, WorksOn, Idle
  <2>2. QED
    BY <1>1, <1>8, <2>1, Elsewhere DEF DocsInv, RetryRead, Chunks
<1>9. QED
  BY <1>4, <1>6, <1>7, <1>8 DEF DocsInv, DocInv

\* A request goes on: its document.
LEMMA GotoDoc ==
    ASSUME IInv, DocsInv, NEW r \in Requests, NEW d \in Docs, d = req[r].doc, ~Idle(r),
           NEW p \in PCs \ {"idle"}, Goto(r, p), UNCHANGED <<size, overlapped, interrupted>>,
           audit[d] \subseteq audit'[d], "failed" \in audit'[d] => "failed" \in audit[d],
           Chunks(d)' \subseteq Chunks(d),
           p \in {"start", "reset"} => d \in overlapped \/ job'[d] = "queued",
           p = "pipeline" => job'[d] = "running",
           p = "retrying" => FALSE,
           p \in {"start", "pipeline"} => Chunks(d)' = {} \/ (d \in overlapped /\ Chunks(d)' = Chunks(d)),
           job'[d] = "failed" => job[d] = "failed",
           p = "reset" => {"failed", "retry_requested"} \subseteq audit'[d],
           p \in {"start", "pipeline"} =>
               \/ {"failed", "retry_requested"} \subseteq audit'[d]
               \/ Chunks(d)' = {} /\ "failed" \notin audit'[d],
           job'[d] = "succeeded" => p = "start",
           Committed(d) => Committed(d)'
    PROVE  DocInv(d)'
<1>1. /\ req'[r].pc = p /\ req'[r].doc = d
      /\ \A q \in Requests : q # r => req'[q] = req[q]
  BY GotoFacts DEF IInv, TypeOK
<1>2. /\ \A q \in Requests : WorksOn(q, d)' <=> WorksOn(q, d)
      /\ WorksOn(r, d)
  BY <1>1 DEF WorksOn, Idle
<1>3. Alone(d)' <=> Alone(d)
  BY <1>2 DEF Alone
<1>4. Alone(d) => \A q \in Requests : WorksOn(q, d) => q = r
  BY <1>2 DEF Alone
<1>5. /\ (d \in overlapped => \E q \in Requests : WorksOn(q, d))'
      /\ (d \notin overlapped => Alone(d) /\ InStep(d))'
  BY <1>1, <1>2, <1>3, <1>4 DEF DocsInv, DocInv, InStep
<1>6. Trail(d)'
  BY <1>1, <1>2, <1>3, <1>4 DEF DocsInv, DocInv, Trail
<1>7. Success(d)'
  BY <1>1 DEF Success
<1>8. Explained(d)'
  BY <1>2 DEF Explained, Abandoned
<1>9. QED
  BY <1>5, <1>6, <1>7, <1>8 DEF DocInv

\* A request ends: its document.
LEMMA FinishDoc ==
    ASSUME IInv, DocsInv, NEW r \in Requests, NEW d \in Docs, d = req[r].doc, ~Idle(r), Finish(r),
           UNCHANGED size,
           audit[d] \subseteq audit'[d],
           "failed" \in audit'[d] /\ "failed" \notin audit[d] => req[r].pc = "pipeline",
           d \in interrupted => d \in interrupted',
           Chunks(d) \subseteq Chunks(d)',
           Chunks(d)' # {} => "succeeded" \in audit'[d],
           Chunks(d)' # Chunks(d) => req[r].pc = "pipeline",
           job'[d] = "failed" => "failed" \in audit'[d],
           "failed" \in audit'[d] => Committed(d)',
           Success(d)', Explained(d)'
    PROVE  DocInv(d)'
<1>1. /\ req'[r].pc = "idle"
      /\ \A q \in Requests : q # r => req'[q] = req[q]
      /\ overlapped' \subseteq overlapped
  BY FinishFacts DEF IInv, TypeOK
<1>2. /\ \A q \in Requests : WorksOn(q, d)' <=> q # r /\ WorksOn(q, d)
      /\ WorksOn(r, d)
  BY <1>1 DEF WorksOn, Idle
<1>3. Alone(d) => \A q \in Requests : ~WorksOn(q, d)'
  BY <1>2 DEF Alone
<1>4. d \notin overlapped' => \A q \in Requests : ~WorksOn(q, d)'
  <2>1. CASE d \in overlapped
    BY <2>1, <1>2 DEF Finish
  <2>2. CASE d \notin overlapped
    BY <2>2, <1>3 DEF DocsInv, DocInv
  <2>3. QED
    BY <2>1, <2>2
<1>5. /\ (d \in overlapped => \E q \in Requests : WorksOn(q, d))'
      /\ (d \notin overlapped => Alone(d) /\ InStep(d))'
  BY <1>2, <1>4 DEF Alone, InStep, Finish
<1>6. Trail(d)'
  <2>1. CASE Alone(d)
    BY <2>1, <1>3 DEF Trail, Alone
  <2>2. CASE ~Alone(d)
    <3>1. "failed" \in audit[d] /\ Trail(d)
      BY <2>2 DEF DocsInv, DocInv, Trail
    <3>2. \A q \in Requests : WorksOn(q, d)' => WorksOn(q, d) /\ req'[q] = req[q]
      BY <1>1, <1>2
    <3>3. QED
      BY <3>1, <3>2 DEF Trail
  <2>3. QED
    BY <2>1, <2>2
<1>7. QED
  BY <1>5, <1>6 DEF DocInv

\* The document of a request, and what its row and chunks are like.
LEMMA OwnDoc ==
    ASSUME IInv, DocsInv, NEW r \in Requests, ~Idle(r)
    PROVE  /\ req[r].doc \in Docs /\ WorksOn(r, req[r].doc)
           /\ Trail(req[r].doc) /\ (req[r].doc \notin overlapped => InStep(req[r].doc))
           /\ \A d \in Docs : job[d] \in {"absent", "pending"} => Chunks(d) = {}
BY DEF IInv, TypeOK, RequestStates, WorksOn, Idle, DocsInv, DocInv, ChunkInv, Committed, Chunks

\* The steps of an upload up to its commit.
LEMMA UploadingDocs ==
    ASSUME IInv, DocsInv, NEW r \in Requests,
           InsertJob(r) \/ IdempotencyConflict(r) \/ CommitUpload(r)
    PROVE  DocsInv'
<1>0. /\ ~Idle(r) /\ req[r].doc \in Docs /\ Trail(req[r].doc)
      /\ req[r].pc = "written" => job[req[r].doc] = "absent"
      /\ req[r].pc = "inserted" => job[req[r].doc] = "pending"
  BY OwnDoc DEF InsertJob, IdempotencyConflict, CommitUpload, Idle, IInv, RequestInv
<1>1. PICK d \in Docs : d = req[r].doc
  BY <1>0
<1>2. Chunks(d) = {} /\ "failed" \notin audit[d] /\ ~Committed(d) /\ ~Idle(r)
  BY <1>0, <1>1, OwnDoc DEF InsertJob, IdempotencyConflict, CommitUpload, Trail, Committed
<1>3. /\ UNCHANGED <<size, interrupted>> /\ \A e \in Docs : Chunks(e)' = Chunks(e)
      /\ \A e \in Docs \ {d} : job'[e] = job[e] /\ audit'[e] = audit[e]
  BY <1>1 DEF InsertJob, IdempotencyConflict, CommitUpload, Chunks, IInv, TypeOK
<1>4. CASE InsertJob(r)
  <2>1. job'[d] = "pending" /\ audit' = audit
    BY <1>1, <1>4 DEF InsertJob, IInv, TypeOK
  <2>2. DocInv(d)'
    BY <1>1, <1>2, <1>3, <1>4, <2>1, GotoDoc DEF InsertJob, PCs
  <2>3. QED
    BY <1>1, <1>2, <1>3, <1>4, <2>2, OthersKeep DEF InsertJob, PCs
<1>5. CASE CommitUpload(r)
  <2>1. job'[d] = "queued" /\ audit'[d] = audit[d] \cup {"uploaded"}
    BY <1>1, <1>5 DEF CommitUpload, IInv, TypeOK
  <2>2. DocInv(d)'
    BY <1>1, <1>2, <1>3, <1>5, <2>1, GotoDoc DEF CommitUpload, PCs, Committed
  <2>3. QED
    BY <1>1, <1>2, <1>3, <1>5, <2>2, OthersKeep DEF CommitUpload, PCs
<1>6. CASE IdempotencyConflict(r)
  <2>1. job' = job /\ audit' = audit /\ job[d] = "absent"
    BY <1>0, <1>1, <1>6 DEF IdempotencyConflict
  <2>2. Success(d)' /\ Explained(d)'
    BY <2>1 DEF Success, Explained, Abandoned
  <2>3. DocInv(d)'
    BY <1>1, <1>2, <1>3, <1>6, <2>1, <2>2, FinishDoc DEF IdempotencyConflict
  <2>4. QED
    BY <1>1, <1>2, <1>3, <1>6, <2>1, <2>3, OthersKeep DEF IdempotencyConflict
<1>7. QED
  BY <1>4, <1>5, <1>6

\* The steps of a run.
LEMMA RunningDocs ==
    ASSUME IInv, DocsInv, NEW r \in Requests,
           StartRun(r) \/ RunFails(r) \/ ChunkConflict(r)
    PROVE  DocsInv'
<1>0. ~Idle(r)
  BY DEF StartRun, RunFails, ChunkConflict, Idle
<1>1. PICK d \in Docs : d = req[r].doc
  BY <1>0, OwnDoc
<1>2. WorksOn(r, d) /\ Trail(d) /\ (d \notin overlapped => InStep(d))
  BY <1>0, <1>1, OwnDoc
<1>3. /\ UNCHANGED <<size, interrupted>> /\ \A e \in Docs : Chunks(e)' = Chunks(e)
      /\ \A e \in Docs \ {d} : job'[e] = job[e] /\ audit'[e] = audit[e]
  BY <1>1 DEF StartRun, RunFails, ChunkConflict, Chunks, IInv, TypeOK
<1>4. Committed(d)
  BY <1>0, <1>1 DEF StartRun, RunFails, ChunkConflict, IInv, RequestInv, Uploading
<1>5. CASE StartRun(r)
  <2>1. job'[d] = "running" /\ audit' = audit
    BY <1>1, <1>5 DEF StartRun, IInv, TypeOK
  <2>2. /\ d \in overlapped \/ Chunks(d) = {}
        /\ \/ {"failed", "retry_requested"} \subseteq audit[d]
           \/ Chunks(d) = {} /\ "failed" \notin audit[d]
    BY <1>1, <1>2, <1>5 DEF StartRun, InStep, Trail
  <2>3. DocInv(d)'
    BY <1>0, <1>1, <1>3, <1>4, <1>5, <2>1, <2>2, GotoDoc DEF StartRun, PCs, Committed
  <2>4. QED
    BY <1>0, <1>1, <1>3, <1>5, <2>3, OthersKeep DEF StartRun, PCs
<1>6. CASE RunFails(r)
  <2>1. job'[d] = "failed" /\ audit'[d] = audit[d] \cup {"failed"} /\ req[r].pc = "pipeline"
    BY <1>1, <1>6 DEF RunFails, IInv, TypeOK
  <2>2. Success(d)' /\ Explained(d)'
    BY <2>1 DEF Success, Explained, Abandoned, Settled
  <2>3. DocInv(d)'
    BY <1>0, <1>1, <1>2, <1>3, <1>6, <2>1, <2>2, FinishDoc DEF RunFails, Trail, Committed
  <2>4. QED
    BY <1>0, <1>1, <1>3, <1>6, <2>3, OthersKeep DEF RunFails
<1>7. CASE ChunkConflict(r)
  <2>1. job' = job /\ audit' = audit /\ Chunks(d) # {} /\ req[r].pc = "pipeline"
    BY <1>1, <1>7 DEF ChunkConflict
  <2>2. {"failed", "retry_requested", "succeeded"} \subseteq audit[d]
    BY <1>2, <2>1 DEF Trail
  <2>3. Explained(d)'
    BY <1>3, <2>1, <2>2 DEF Explained
  <2>4. Success(d)'
    <3>1. PICK q \in Requests : Chunks(d) = Output(d, q)
      BY <2>1 DEF IInv, ChunksOfOneRun, Output
    <3>2. Chunks(d)' = Output(d, q)'
      BY <1>3, <3>1 DEF Output
    <3>3. QED
      BY <3>2 DEF Success
  <2>5. DocInv(d)'
    BY <1>0, <1>1, <1>2, <1>3, <1>4, <1>7, <2>1, <2>2, <2>3, <2>4, FinishDoc
       DEF ChunkConflict, Trail, Committed
  <2>6. QED
    BY <1>0, <1>1, <1>3, <1>7, <2>1, <2>5, OthersKeep DEF ChunkConflict
<1>8. QED
  BY <1>5, <1>6, <1>7

\* A run that succeeds finds no chunks, or writes none.
LEMMA RunSucceedsDocs ==
    ASSUME IInv, DocsInv, NEW r \in Requests, RunSucceeds(r)
    PROVE  DocsInv'
<1>0. ~Idle(r)
  BY DEF RunSucceeds, Idle
<1>1. PICK d \in Docs : d = req[r].doc
  BY <1>0, OwnDoc
<1>2. WorksOn(r, d) /\ Trail(d) /\ req[r].pc = "pipeline"
  BY <1>0, <1>1, OwnDoc DEF RunSucceeds
<1>3. /\ UNCHANGED <<size, interrupted>>
      /\ \A e \in Docs \ {d} : job'[e] = job[e] /\ audit'[e] = audit[e]
      /\ job'[d] = "succeeded" /\ audit'[d] = audit[d] \cup {"succeeded"}
  BY <1>1 DEF RunSucceeds, IInv, TypeOK
<1>4. chunks' = chunks \cup Output(d, r) /\ (size[d] = 0 \/ Chunks(d) = {})
  BY <1>1 DEF RunSucceeds, Output
<1>5. \A c \in Output(d, r) : c.doc = d
  BY DEF Output
<1>6. /\ \A e \in Docs \ {d} : Chunks(e)' = Chunks(e)
      /\ Chunks(d)' = Chunks(d) \cup Output(d, r)
  BY <1>4, <1>5 DEF Chunks
<1>7. Chunks(d) = {}
  <2>1. CASE size[d] = 0
    BY <2>1 DEF IInv, ChunksOfOneRun
  <2>2. QED
    BY <1>4, <2>1
<1>8. Output(d, r)' = Output(d, r)
  BY <1>3 DEF Output
<1>9. Success(d)' /\ Explained(d)'
  BY <1>3, <1>6, <1>7, <1>8 DEF Success, Explained, Abandoned, Settled
<1>10. DocInv(d)'
  BY <1>0, <1>1, <1>2, <1>3, <1>6, <1>9, FinishDoc DEF RunSucceeds, Committed
<1>11. QED
  BY <1>0, <1>1, <1>3, <1>6, <1>10, OthersKeep DEF RunSucceeds

\* The steps of a retry.
LEMMA RetryDocs ==
    ASSUME IInv, DocsInv, NEW r \in Requests, RetryReset(r) \/ RetryClean(r)
    PROVE  DocsInv'
<1>0. ~Idle(r)
  BY DEF RetryReset, RetryClean, Idle
<1>1. PICK d \in Docs : d = req[r].doc
  BY <1>0, OwnDoc
<1>2. WorksOn(r, d) /\ Trail(d) /\ (d \notin overlapped => InStep(d))
  BY <1>0, <1>1, OwnDoc
<1>3. /\ UNCHANGED <<size, interrupted, overlapped>>
      /\ \A e \in Docs \ {d} : job'[e] = job[e] /\ audit'[e] = audit[e] /\ Chunks(e)' = Chunks(e)
  BY <1>1 DEF RetryReset, RetryClean, Chunks, IInv, TypeOK
<1>4. Committed(d)
  BY <1>0, <1>1 DEF RetryReset, RetryClean, IInv, RequestInv, Uploading
<1>5. CASE RetryReset(r)
  <2>1. /\ job'[d] = "queued" /\ audit'[d] = audit[d] \cup {"retry_requested"}
        /\ Chunks(d)' = Chunks(d)
    BY <1>1, <1>5 DEF RetryReset, IInv, TypeOK, Chunks
  <2>2. "failed" \in audit[d]
    BY <1>1, <1>2, <1>5 DEF RetryReset, Trail
  <2>3. DocInv(d)'
    BY <1>0, <1>1, <1>3, <1>4, <1>5, <2>1, <2>2, GotoDoc DEF RetryReset, PCs, Committed
  <2>4. QED
    BY <1>0, <1>1, <1>3, <1>5, <2>3, OthersKeep DEF RetryReset, PCs
<1>6. CASE RetryClean(r)
  <2>1. job' = job /\ audit' = audit /\ Chunks(d)' = {}
    BY <1>1, <1>6 DEF RetryClean, Chunks
  <2>2. {"failed", "retry_requested"} \subseteq audit[d] /\ (d \in overlapped \/ job[d] = "queued")
    BY <1>1, <1>2, <1>6 DEF RetryClean, Trail, InStep
  <2>3. DocInv(d)'
    BY <1>0, <1>1, <1>3, <1>4, <1>6, <2>1, <2>2, GotoDoc DEF RetryClean, PCs, Committed
  <2>4. QED
    BY <1>0, <1>1, <1>3, <1>6, <2>3, OthersKeep DEF RetryClean, PCs
<1>7. QED
  BY <1>5, <1>6

LEMMA FaultDocs ==
    ASSUME IInv, DocsInv, NEW r \in Requests, Fault(r)
    PROVE  DocsInv'
<1>0. ~Idle(r)
  BY DEF Fault
<1>1. PICK d \in Docs : d = req[r].doc
  BY <1>0, OwnDoc
<1>2. WorksOn(r, d) /\ Trail(d)
  BY <1>0, <1>1, OwnDoc
<1>3. /\ UNCHANGED <<size, audit>> /\ \A e \in Docs : Chunks(e)' = Chunks(e)
      /\ \A e \in Docs \ {d} : job'[e] = job[e]
      /\ interrupted' = interrupted \cup {d}
  BY <1>1 DEF Fault, Chunks, IInv, TypeOK
<1>4. job'[d] = job[d] \/ (job'[d] = "absent" /\ job[d] = "pending")
  BY <1>0, <1>1 DEF Fault, IInv, TypeOK, RequestInv
<1>5. Success(d)' /\ Explained(d)'
  BY <1>3 DEF Success, Explained
<1>6. DocInv(d)'
  BY <1>0, <1>1, <1>2, <1>3, <1>4, <1>5, FinishDoc DEF Fault, Trail, Committed
<1>7. QED
  BY <1>0, <1>1, <1>3, <1>6, OthersKeep DEF Fault

LEMMA StutterDocs == ASSUME DocsInv, UNCHANGED vars PROVE DocsInv'
BY DEF vars, DocsInv, DocInv, Alone, InStep, Trail, Success, Explained, Abandoned, Committed, WorksOn,
       Idle, Chunks, Output

LEMMA NextDocs == IInv /\ DocsInv /\ [Next]_vars => DocsInv'
BY StutterDocs, UploadingDocs, RunningDocs, RunSucceedsDocs, RetryDocs, FaultDocs, RetryReadDocs,
   UploadDocs DEF Next, Progress

\* The invariant of each document: while requests do not overlap on it one request works
\* on it and its job has the status that request left it in, and whatever overlaps, the
\* audit trail tells the first run from a retry.
THEOREM DocsInductive == Spec => []DocsInv
BY InitDocs, NextDocs, SafetyInductive, PTL DEF Spec

\* The chunks of a whole run are as many as the chunker made.
LEMMA OutputCardinality ==
    ASSUME NEW d, NEW r, size[d] \in Nat
    PROVE  Cardinality(Output(d, r)) = size[d]
<1> DEFINE I == 0..(size[d] - 1)
           f == [i \in I |-> [doc |-> d, index |-> i, run |-> r]]
<1>1. IsFiniteSet(I) /\ Cardinality(I) = size[d]
  BY FS_Interval
<1>2. f \in Bijection(I, Output(d, r))
  BY DEF Bijection, Injection, Surjection, IsInjective, Output
<1>3. QED
  BY <1>1, <1>2, FS_Bijection DEF ExistsBijection

\* For any number of overlapping retries, a job that has succeeded has all its chunks, or
\* is about to be run again, or a retry of it was cut short.
THEOREM SuccessIsSearchable == Spec => []SucceededIsSearchable
<1>1. IInv /\ DocsInv => SucceededIsSearchable
  <2> SUFFICES ASSUME IInv, DocsInv, NEW d \in Docs, job[d] = "succeeded",
                      NEW r \in Requests, Chunks(d) = Output(d, r)
               PROVE  Cardinality(Chunks(d)) = size[d]
    BY DEF SucceededIsSearchable, DocsInv, DocInv, Success
  <2>1. size[d] \in Nat
    BY DEF IInv, TypeOK
  <2>2. QED
    BY <2>1, OutputCardinality
<1>2. QED
  BY <1>1, SafetyInductive, DocsInductive, PTL

\* Only a request cut short, or a chunk conflict after a failure, a retry and another
\* run's success, leaves a job unsettled with nobody working on it.
THEOREM AbandonmentExplained == Spec => []NoneAbandoned
<1>1. DocsInv => NoneAbandoned
  BY DEF DocsInv, DocInv, Explained, NoneAbandoned
<1>2. QED
  BY <1>1, DocsInductive, PTL

-----------------------------------------------------------------------------
(* The refinement *)

Shown(st) == IF st = "pending" THEN "absent" ELSE st
statusBar == [d \in Docs |-> IF job[d] = "pending" THEN "absent" ELSE job[d]]

\* One job that moves along the table, or is contested, is a step of JobLifecycle.
LEMMA MoveMaps ==
    ASSUME TypeOK, NEW d \in Docs, NEW st \in JobStates \ {"absent", "pending"},
           job' = [job EXCEPT ![d] = st],
           d \in overlapped \/ st \in Lifecycle!Transitions(Shown(job[d])),
           overlapped' \in {overlapped, overlapped \ {d}}
    PROVE  Lifecycle!Next
<1>1. statusBar' = [statusBar EXCEPT ![d] = st]
  BY DEF statusBar, TypeOK
<1>2. statusBar[d] = Shown(job[d])
  BY DEF statusBar, Shown
<1>3. QED
  BY <1>1, <1>2 DEF Lifecycle!Next, Lifecycle!Move, Lifecycle!Statuses, JobStates, statusBar

\* An uncommitted job is not seen by others.
LEMMA HiddenMaps ==
    ASSUME TypeOK, NEW d \in Docs, NEW st \in JobStates, job' = [job EXCEPT ![d] = st],
           Shown(st) = Shown(job[d])
    PROVE  statusBar' = statusBar
BY DEF statusBar, Shown, TypeOK

\* Who ends takes at most its own document from the contested ones.
LEMMA FinishMaps ==
    ASSUME IInv, DocsInv, NEW r \in Requests, ~Idle(r), Finish(r)
    PROVE  overlapped' \in {overlapped, overlapped \ {req[r].doc}}
<1>1. \A d \in overlapped : \E q \in Requests : WorksOn(q, d)
  BY DEF IInv, TypeOK, DocsInv, DocInv
<1>2. \A d \in overlapped \ {req[r].doc} : d \in overlapped'
  BY <1>1 DEF Finish, WorksOn
<1>3. overlapped' \subseteq overlapped
  BY DEF Finish
<1>4. QED
  BY <1>2, <1>3

StutterBar == statusBar' = statusBar /\ overlapped' = overlapped

\* A request that ends and leaves the job as its readers see it.
LEMMA LeaveMaps ==
    ASSUME IInv, DocsInv, NEW r \in Requests, ~Idle(r), Finish(r), statusBar' = statusBar
    PROVE  Lifecycle!Next \/ StutterBar
<1>1. PICK d \in Docs : d = req[r].doc
  BY DEF IInv, TypeOK, RequestStates
<1>2. CASE overlapped' = overlapped \ {d}
  BY <1>2 DEF Lifecycle!Next, Lifecycle!Leave, statusBar
<1>3. CASE overlapped' = overlapped
  BY <1>3 DEF StutterBar
<1>4. QED
  BY <1>1, <1>2, <1>3, FinishMaps

\* A second retry begins with a failed job.
LEMMA ContestMaps ==
    ASSUME IInv, NEW r \in Requests, NEW d \in Docs, RetryRead(r, d)
    PROVE  Lifecycle!Next \/ StutterBar
<1>1. statusBar' = statusBar /\ statusBar[d] = "failed"
  BY DEF RetryRead, statusBar
<1>2. CASE overlapped' = overlapped \cup {d}
  BY <1>1, <1>2 DEF Lifecycle!Next, Lifecycle!Contest, statusBar
<1>3. QED
  BY <1>1, <1>2 DEF RetryRead, StutterBar

LEMMA StepMaps ==
    ASSUME IInv, DocsInv, [Next]_vars
    PROVE  Lifecycle!Next \/ StutterBar
<1> USE DEF IInv
<1>0. \A r \in Requests : req[r].doc \in Docs
  BY DEF TypeOK, RequestStates
<1>a. \A r \in Requests : ~Idle(r) /\ req[r].doc \notin overlapped => InStep(req[r].doc) /\ WorksOn(r, req[r].doc)
  BY <1>0 DEF DocsInv, DocInv, WorksOn
<1>1. ASSUME NEW r \in Requests, InsertJob(r)
      PROVE  StutterBar
  BY <1>0, <1>1, HiddenMaps DEF InsertJob, RequestInv, Shown, JobStates, StutterBar
<1>2. ASSUME NEW r \in Requests, CommitUpload(r)
      PROVE  Lifecycle!Next
  BY <1>0, <1>2, MoveMaps DEF CommitUpload, RequestInv, Shown, JobStates, Lifecycle!Transitions
<1>3. ASSUME NEW r \in Requests, StartRun(r)
      PROVE  Lifecycle!Next
  BY <1>0, <1>a, <1>3, MoveMaps DEF StartRun, Idle, InStep, Shown, JobStates, Lifecycle!Transitions
<1>4. ASSUME NEW r \in Requests, RunSucceeds(r) \/ RunFails(r)
      PROVE  Lifecycle!Next
  <2>1. ~Idle(r) /\ req[r].pc = "pipeline"
    BY <1>4 DEF RunSucceeds, RunFails, Idle
  <2>2. overlapped' \in {overlapped, overlapped \ {req[r].doc}}
    BY <1>4, <2>1, FinishMaps DEF RunSucceeds, RunFails
  <2>3. req[r].doc \in overlapped \/ job[req[r].doc] = "running"
    BY <1>a, <2>1 DEF InStep
  <2>4. QED
    BY <1>0, <1>4, <2>2, <2>3, MoveMaps
       DEF RunSucceeds, RunFails, Shown, JobStates, Lifecycle!Transitions
<1>5. ASSUME NEW r \in Requests, RetryReset(r)
      PROVE  Lifecycle!Next
  BY <1>0, <1>a, <1>5, MoveMaps DEF RetryReset, Idle, InStep, Shown, JobStates, Lifecycle!Transitions
<1>6. ASSUME NEW r \in Requests, Fault(r)
      PROVE  Lifecycle!Next \/ StutterBar
  <2>1. CASE req[r].pc = "inserted"
    <3>1. statusBar' = statusBar
      BY <1>0, <1>6, <2>1, HiddenMaps DEF Fault, RequestInv, Shown, JobStates
    <3>2. QED
      BY <1>6, <3>1, LeaveMaps DEF Fault
  <2>2. CASE req[r].pc # "inserted"
    BY <1>6, <2>2, LeaveMaps DEF Fault, statusBar
  <2>3. QED
    BY <2>1, <2>2
<1>7. ASSUME NEW r \in Requests, IdempotencyConflict(r) \/ ChunkConflict(r)
      PROVE  Lifecycle!Next \/ StutterBar
  BY <1>7, LeaveMaps DEF IdempotencyConflict, ChunkConflict, Idle, statusBar
<1>8. ASSUME UNCHANGED <<job, overlapped>>
      PROVE  StutterBar
  BY <1>8 DEF statusBar, StutterBar
<1>9. QED
  BY <1>1, <1>2, <1>3, <1>4, <1>5, <1>6, <1>7, <1>8, ContestMaps
     DEF Next, Progress, vars, RetryClean, Upload

\* Every step of uploads, runs, retries and faults, overlapping or not, is a step of
\* JobLifecycle: the status that readers of a job see makes the moves of
\* INGESTION_JOB_TRANSITIONS and, outside an overlap of retries, no others.
THEOREM Refinement == Spec => ImplementsLifecycle
<1>1. Init => Lifecycle!Init
  BY DEF Init, Lifecycle!Init
<1>2. IInv /\ DocsInv /\ [Next]_vars => [Lifecycle!Next]_<<statusBar, overlapped>>
  BY StepMaps DEF StutterBar
<1>3. QED
  BY <1>1, <1>2, SafetyInductive, DocsInductive, PTL
     DEF Spec, ImplementsLifecycle, Lifecycle!Spec, Lifecycle!vars, statusBar

-----------------------------------------------------------------------------
(* The chunker, which the pipeline calls between two commits.  Its loop is        *)
(* sequential, its state its own.                                              *)

VARIABLES wordsPerChunk, overlap, words, start, idx, cuts, done

C == INSTANCE Chunker WITH size <- wordsPerChunk, chunks <- cuts

ChunkRecords == [index : Nat, from : Nat, to : Nat]

ChunkerTypes ==
    /\ wordsPerChunk \in Int /\ overlap \in Int /\ C!Valid /\ words \in Nat
    /\ start \in Nat /\ idx \in Nat /\ cuts \subseteq ChunkRecords
    /\ done \in BOOLEAN
    /\ \A c \in cuts : c.index < idx

\* Before the end of the loop the chunks are full, and the words up to the end of
\* the last of them, which lies overlap words after start, are covered.
ChunkerLoop ==
    ~done =>
        /\ idx = 0 => start = 0 /\ cuts = {}
        /\ idx > 0 => start + overlap < words
        /\ \A c \in cuts : c.index = idx - 1 => c.to = start + overlap
        /\ \A i \in 0..(words - 1) :
              idx > 0 /\ i < start + overlap => \E c \in cuts : c.from <= i /\ i < c.to

ChunkerInv == ChunkerTypes /\ ChunkerLoop /\ C!ChunksFit /\ C!NoWordLost /\ C!OverlapExact

\* The invariant holds of the empty list.
LEMMA ChunkerInit == C!Init => ChunkerInv
<1> SUFFICES ASSUME C!Init PROVE ChunkerInv
  OBVIOUS
<1>1. ChunkerTypes
  BY DEF C!Init, ChunkerTypes, C!Valid
<1>2. ChunkerLoop
  BY DEF C!Init, ChunkerLoop
<1>3. C!ChunksFit /\ C!NoWordLost /\ C!OverlapExact
  BY Zenon DEF C!Init, C!ChunksFit, C!NoWordLost, C!OverlapExact
<1> QED BY <1>1, <1>2, <1>3 DEF ChunkerInv

\* A round of the loop of TextChunker.chunk preserves the invariant.
LEMMA ChunkerRound == ASSUME ChunkerInv, C!Chunk PROVE ChunkerInv'
<1> DEFINE end == C!Minimum(start + wordsPerChunk, words)
           new == [index |-> idx, from |-> start, to |-> end]
<1> USE DEF ChunkerInv, ChunkerTypes
<1>1. /\ ~done /\ start < words /\ cuts' = cuts \cup {new} /\ idx' = idx + 1
      /\ wordsPerChunk' = wordsPerChunk /\ overlap' = overlap /\ words' = words
      /\ end = words => done' = TRUE /\ start' = start
      /\ end # words => done' = FALSE /\ start' = start + (wordsPerChunk - overlap)
  BY DEF C!Chunk, C!config, C!step
<1>2. /\ end \in Nat /\ start < end /\ end <= words /\ end - start <= wordsPerChunk
      /\ end # words => end = start + wordsPerChunk /\ end < words
  BY <1>1 DEF C!Minimum, C!Valid
<1>3. new \in ChunkRecords
  BY <1>2 DEF ChunkRecords
<1>4. ChunkerTypes'
  <2>1. cuts' \subseteq ChunkRecords
    BY <1>1, <1>3
  <2>2. \A c \in cuts' : c.index < idx'
    BY <1>1 DEF ChunkRecords
  <2>3. start' \in Nat
    BY <1>1, <1>2 DEF C!Valid
  <2>4. done' \in BOOLEAN
    BY <1>1, Zenon
  <2> QED BY <1>1, <2>1, <2>2, <2>3, <2>4 DEF C!Valid
<1>5. C!ChunksFit'
  BY <1>1, <1>2 DEF C!ChunksFit
<1>6. \A i \in 0..(words - 1) : i < end => \E c \in cuts' : c.from <= i /\ i < c.to
  <2> SUFFICES ASSUME NEW i \in 0..(words - 1), i < end
               PROVE  \E c \in cuts' : c.from <= i /\ i < c.to
    OBVIOUS
  <2>1. CASE start <= i
    <3>1. new \in cuts' /\ new.from <= i /\ i < new.to
      BY <1>1, <2>1
    <3> QED BY <3>1
  <2>2. CASE i < start
    BY <1>1, <2>2 DEF ChunkerLoop, C!Valid
  <2> QED BY <2>1, <2>2
<1>7. C!NoWordLost'
  BY <1>1, <1>2, <1>6 DEF C!NoWordLost
<1>8. ChunkerLoop'
  BY <1>1, <1>2, <1>6 DEF ChunkerLoop, C!Valid
<1>9. C!OverlapExact'
  <2> SUFFICES ASSUME NEW c \in cuts', NEW d \in cuts', d.index = c.index + 1
               PROVE  c.to - d.from = overlap /\ c.to < d.to
    BY <1>1 DEF C!OverlapExact
  <2>1. CASE c \in cuts /\ d \in cuts
    BY <2>1 DEF C!OverlapExact
  <2>2. CASE c \in cuts /\ d = new
    BY <1>1, <1>2, <2>2 DEF ChunkerLoop, ChunkRecords, C!Valid
  <2>3. CASE c = new
    BY <1>1, <2>3 DEF ChunkRecords
  <2> QED BY <1>1, <2>1, <2>2, <2>3
<1> QED BY <1>4, <1>5, <1>7, <1>8, <1>9

\* Leaving the loop at its condition preserves the invariant.
LEMMA ChunkerEnd == ASSUME ChunkerInv, C!Finish PROVE ChunkerInv'
  BY DEF ChunkerInv, ChunkerTypes, ChunkerLoop, C!ChunksFit, C!NoWordLost, C!OverlapExact,
         C!Finish, C!Valid

\* Every step does.
LEMMA ChunkerNext == ChunkerInv /\ [C!Next]_(C!vars) => ChunkerInv'
<1>1. ASSUME ChunkerInv, UNCHANGED C!vars PROVE ChunkerInv'
  BY <1>1 DEF ChunkerInv, ChunkerTypes, ChunkerLoop, C!ChunksFit, C!NoWordLost, C!OverlapExact,
              C!Valid, C!vars
<1> QED BY <1>1, ChunkerRound, ChunkerEnd DEF C!Next

\* The list of chunks of TextChunker.chunk: no word is lost, no chunk is empty or too
\* long, and neighbours share exactly the configured number of words.
THEOREM ChunksAreRight == C!Spec => [](C!ChunksFit /\ C!NoWordLost /\ C!OverlapExact)
<1>1. ChunkerInv => C!ChunksFit /\ C!NoWordLost /\ C!OverlapExact
  BY DEF ChunkerInv
<1> QED BY ChunkerInit, ChunkerNext, <1>1, PTL DEF C!Spec

\* Every round of the loop moves on, so that it ends for every accepted setting.
THEOREM LoopMovesOn == C!Spec => C!Progress
<1>1. ASSUME ChunkerInv, C!Next PROVE done' \/ (start' > start /\ start' < words)
  <2>1. CASE C!Chunk
    BY <1>1, <2>1 DEF ChunkerInv, ChunkerTypes, C!Chunk, C!Valid, C!step, C!Minimum
  <2>2. CASE C!Finish
    BY <2>2 DEF C!Finish
  <2> QED BY <1>1, <2>1, <2>2 DEF C!Next
<1>2. ChunkerInv /\ [C!Next]_(C!vars) => [done' \/ (start' > start /\ start' < words)]_(C!vars)
  BY <1>1
<1> QED BY ChunkerInit, ChunkerNext, <1>2, PTL DEF C!Spec, C!Progress
=============================================================================
