--------------------------- MODULE JobLifecycle ---------------------------
(***************************************************************************)
(* What an ingestion job promises to whoever polls its status: the moves of *)
(* INGESTION_JOB_TRANSITIONS in                                            *)
(* backend/app/db/models/knowledge_ingestion_job.py.  transition_to would    *)
(* enforce the table; the service assigns the status itself and never calls *)
(* it, so that the moves of a contested job, one that a second client       *)
(* retries while it is being worked on, are free.                           *)
(***************************************************************************)
CONSTANT Jobs

VARIABLES status,
          contested  \* jobs that more than one client works on

vars == <<status, contested>>

Statuses == {"queued", "running", "succeeded", "failed", "cancelled"}

\* INGESTION_JOB_TRANSITIONS, and the insertion of the row.
Transitions(s) ==
    CASE s = "absent"  -> {"queued"}
      [] s = "queued"  -> {"running", "cancelled"}
      [] s = "running" -> {"succeeded", "failed", "cancelled"}
      [] s = "failed"  -> {"queued"}
      [] OTHER         -> {}

Init == status = [j \in Jobs |-> "absent"] /\ contested = {}

\* A status is written; the one who writes it may be the last to leave the job.
Move(j) ==
    /\ \E s \in IF j \in contested THEN Statuses \ {"cancelled"} ELSE Transitions(status[j]) :
          status' = [status EXCEPT ![j] = s]
    /\ contested' \in {contested, contested \ {j}}

\* A second client finds the job failed and begins to retry it.
Contest(j) ==
    /\ status[j] = "failed"
    /\ contested' = contested \cup {j}
    /\ UNCHANGED status

\* The last client leaves the job as it is.
Leave(j) ==
    /\ contested' = contested \ {j}
    /\ UNCHANGED status

Next == \E j \in Jobs : Move(j) \/ Contest(j) \/ Leave(j)

Spec == Init /\ [][Next]_vars
=============================================================================
