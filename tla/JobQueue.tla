------------------------------ MODULE JobQueue ------------------------------
(***************************************************************************)
(* The ingestion_jobs table and the processes that drive it: the upload    *)
(* API that enqueues a job, the worker loops that claim it and settle it,  *)
(* and the retry endpoint.  Source: JobWorker.run_once and the job methods *)
(* of SQLAlchemyMetadataRepository (workers/document-parser).              *)
(*                                                                         *)
(* Every repository method is one transaction of its own, at READ          *)
(* COMMITTED; a handler that calls several of them is several steps here,  *)
(* and other processes run between them.  Three transactions are split     *)
(* further, because what they write depends on what they read and another  *)
(* process can run in between: claim_next_job, which keeps the row locked  *)
(* meanwhile (FOR UPDATE SKIP LOCKED), and fail_job and retry_job, which   *)
(* do not lock and write by primary key.  (complete_job writes the same    *)
(* whatever it reads, and is one step.)                                    *)
(*                                                                         *)
(* A job of this module is a new upload, target_document_id being NULL, so *)
(* its staged source_path names at most one documents row: the document of *)
(* job j is written j too.  Version uploads are in DocumentVersions.       *)
(***************************************************************************)
EXTENDS Naturals, FiniteSets

CONSTANTS
    Jobs,         \* job ids that may be enqueued
    Workers,      \* worker processes
    Unreliable,   \* the workers that may die at any point of a job
    Requests,     \* retry requests that the API may be serving at one time
    MaxAttempts,  \* settings.ingestion_job_max_attempts
    MaxEnqueues,  \* bound: how often a job enters the queue, retries included
    NoJob         \* no job: cur of an idle worker, a request with nothing read

ASSUME MaxAttemptsAssumption == MaxAttempts \in Nat \ {0}
ASSUME NoJobAssumption == NoJob \notin Jobs

VARIABLES
    status,       \* ingestion_jobs.status, "absent" before the row exists
    attempt,      \* ingestion_jobs.attempt
    queued_at,    \* ingestion_jobs.queued_at, in ticks of clock
    clock,        \* time of the next enqueue
    document_id,  \* the jobs whose document_id column is not NULL
    documents,    \* the jobs whose source_path has a documents row
    pc,           \* where each worker is in run_once
    cur,          \* the job each worker has claimed
    held,         \* the workers whose looked-up document row still exists
    verdict,      \* the status that a worker's fail_job is about to write
    retrying      \* the job a retry request has read as failed

tableVars  == <<status, attempt, queued_at, clock>>
docVars    == <<document_id, documents>>
workerVars == <<pc, cur, held, verdict>>
vars       == <<tableVars, docVars, workerVars, retrying>>

Statuses == {"absent", "queued", "extracting", "indexed", "failed"}
Places   == {"idle", "claim", "load", "index", "lookup",
             "complete", "discard", "fail", "settle", "down"}
Verdicts == {"none", "queued", "failed"}

\* Mutant: the claim's SELECT takes no lock and skips none.
Locked_Never(j) == FALSE

\* The row lock of a claim transaction that has selected j and not committed.
Locked(j) == \E w \in Workers : pc[w] = "claim" /\ cur[w] = j

TypeOK ==
    /\ status \in [Jobs -> Statuses]
    /\ attempt \in [Jobs -> Nat]
    /\ queued_at \in [Jobs -> Nat]
    /\ clock \in Nat
    /\ document_id \subseteq Jobs
    /\ documents \subseteq Jobs
    /\ pc \in [Workers -> Places]
    /\ cur \in [Workers -> Jobs \cup {NoJob}]
    /\ \A w \in Workers : cur[w] = NoJob <=> pc[w] \in {"idle", "down"}
    /\ held \subseteq Workers
    /\ verdict \in [Workers -> Verdicts]
    /\ retrying \in [Requests -> Jobs \cup {NoJob}]

Init ==
    /\ status = [j \in Jobs |-> "absent"]
    /\ attempt = [j \in Jobs |-> 0]
    /\ queued_at = [j \in Jobs |-> 0]
    /\ clock = 0
    /\ document_id = {}
    /\ documents = {}
    /\ pc = [w \in Workers |-> "idle"]
    /\ cur = [w \in Workers |-> NoJob]
    /\ held = {}
    /\ verdict = [w \in Workers |-> "none"]
    /\ retrying = [r \in Requests |-> NoJob]

-----------------------------------------------------------------------------
(* The API's side: uploads and manual retries.                             *)

create_ingestion_job(j) ==
    /\ status[j] = "absent"
    /\ clock < MaxEnqueues
    /\ status' = [status EXCEPT ![j] = "queued"]
    /\ queued_at' = [queued_at EXCEPT ![j] = clock]
    /\ clock' = clock + 1
    /\ UNCHANGED <<attempt, docVars, workerVars, retrying>>

\* retry_job reads the row and goes on only if it is failed ...
retry_job_read(r, j) ==
    /\ retrying[r] = NoJob
    /\ status[j] = "failed"
    /\ retrying' = [retrying EXCEPT ![r] = j]
    /\ UNCHANGED <<tableVars, docVars, workerVars>>

\* Mutant: a retry takes the place of the first submission again.
RetriedAt_First(j) == queued_at[j]

\* retry_job stamps the row anew: the job goes to the tail.
RetriedAt(j) == clock

\* ... and commits by primary key, whatever the row has become since.  (An
\* attempt that was read as 0 is not in the UPDATE; a failed job has one only
\* after racing retries.)
retry_job_commit(r) ==
    LET j == retrying[r] IN
    /\ j # NoJob
    /\ ~Locked(j)
    /\ clock < MaxEnqueues
    /\ status' = [status EXCEPT ![j] = "queued"]
    /\ attempt' = [attempt EXCEPT ![j] = 0]
    /\ queued_at' = [queued_at EXCEPT ![j] = RetriedAt(j)]
    /\ clock' = clock + 1
    /\ retrying' = [retrying EXCEPT ![r] = NoJob]
    /\ UNCHANGED <<docVars, workerVars>>

-----------------------------------------------------------------------------
(* JobWorker.run_once, step by step.                                       *)

Goto(w, place) == pc' = [pc EXCEPT ![w] = place]

\* Mutant: the loop goes on with the job of the last round.
Leave_KeepsJob(w, place) == Goto(w, place) /\ UNCHANGED cur

\* Leaves the job: run_once returns, or its process is gone.
Leave(w, place) ==
    /\ Goto(w, place)
    /\ cur' = [cur EXCEPT ![w] = NoJob]

Claimable == {j \in Jobs : status[j] = "queued" /\ ~Locked(j)}

\* SELECT ... ORDER BY queued_at LIMIT 1 FOR UPDATE SKIP LOCKED
claim_next_job_select(w) ==
    /\ pc[w] = "idle"
    /\ \E j \in Claimable :
         /\ \A k \in Claimable : queued_at[j] <= queued_at[k]
         /\ cur' = [cur EXCEPT ![w] = j]
    /\ Goto(w, "claim")
    /\ UNCHANGED <<tableVars, docVars, held, verdict, retrying>>

claim_next_job_commit(w) ==
    /\ pc[w] = "claim"
    /\ status' = [status EXCEPT ![cur[w]] = "extracting"]
    /\ attempt' = [attempt EXCEPT ![cur[w]] = @ + 1]
    /\ Goto(w, "load")
    /\ UNCHANGED <<queued_at, clock, docVars, cur, held, verdict, retrying>>

\* pipeline.ingest up to upsert_document: the documents row exists from here.
ingest_upsert(w) ==
    /\ pc[w] = "load"
    /\ documents' = documents \cup {cur[w]}
    /\ Goto(w, "index")
    /\ UNCHANGED <<tableVars, document_id, cur, held, verdict, retrying>>

\* The rest of pipeline.ingest: chunks, embeddings and vectors all written.
ingest_completes(w) ==
    /\ pc[w] = "index"
    /\ Goto(w, "lookup")
    /\ UNCHANGED <<tableVars, docVars, cur, held, verdict, retrying>>

\* Mutant: a failed attempt goes to fail_job and leaves its document.
ingest_fails_Undeleted(w) ==
    /\ pc[w] \in {"load", "index"}
    /\ Goto(w, "fail")
    /\ UNCHANGED <<tableVars, docVars, cur, held, verdict, retrying>>

\* An exception anywhere in pipeline.ingest: the run is finished as FAILED.
ingest_fails(w) ==
    /\ pc[w] \in {"load", "index"}
    /\ Goto(w, "discard")
    /\ UNCHANGED <<tableVars, docVars, cur, held, verdict, retrying>>

get_document_by_source_path(w) ==
    /\ pc[w] = "lookup"
    /\ \/ /\ cur[w] \in documents
          /\ held' = held \cup {w}
          /\ Goto(w, "complete")
       \/ /\ cur[w] \notin documents
          /\ held' = held
          /\ Goto(w, "discard")
    /\ UNCHANGED <<tableVars, docVars, cur, verdict, retrying>>

\* When the row that was looked up is gone, the foreign key on document_id
\* rejects the update, and nothing in run_once or run_forever catches the
\* exception.
complete_job(w) ==
    /\ pc[w] = "complete"
    /\ held' = held \ {w}
    /\ IF w \in held
       THEN /\ ~Locked(cur[w])
            /\ status' = [status EXCEPT ![cur[w]] = "indexed"]
            /\ document_id' = document_id \cup {cur[w]}
            /\ Leave(w, "idle")
       ELSE Leave(w, "down") /\ UNCHANGED <<status, document_id>>
    /\ UNCHANGED <<attempt, queued_at, clock, documents, verdict, retrying>>

\* Mutant: the delete finds nothing, as with another spelling of the path.
DeleteDocument_Missed(j) == UNCHANGED <<docVars, held>>

\* DELETE of a documents row.  ON DELETE SET NULL clears document_id; a row
\* created later has another uuid, so nobody holds this one any more.
DeleteDocument(j) ==
    /\ documents' = documents \ {j}
    /\ document_id' = document_id \ {j}
    /\ held' = {w \in held : cur[w] # j}

delete_document_by_source_path(w) ==
    /\ pc[w] = "discard"
    /\ DeleteDocument(cur[w])
    /\ Goto(w, "fail")
    /\ UNCHANGED <<tableVars, cur, verdict, retrying>>

\* Mutant: off by one.
HasAttemptLeft_OneMore(j) == attempt[j] <= MaxAttempts

HasAttemptLeft(j) == attempt[j] < MaxAttempts

Verdict(w, v) == verdict' = [verdict EXCEPT ![w] = v]

\* fail_job reads the row, without a lock, and decides: requeued while attempts
\* remain, else failed.  A status it has already is not in the UPDATE.
fail_job_read(w) ==
    LET outcome == IF HasAttemptLeft(cur[w]) THEN "queued" ELSE "failed" IN
    /\ pc[w] = "fail"
    /\ Verdict(w, IF outcome = status[cur[w]] THEN "none" ELSE outcome)
    /\ Goto(w, "settle")
    /\ UNCHANGED <<tableVars, docVars, cur, held, retrying>>

\* Mutant: every requeue starts the count again.
fail_job_commit_Refreshed(w) ==
    /\ pc[w] = "settle"
    /\ ~Locked(cur[w])
    /\ status' = [status EXCEPT ![cur[w]] = "queued"]
    /\ attempt' = [attempt EXCEPT ![cur[w]] = 0]
    /\ Verdict(w, "none")
    /\ Leave(w, "idle")
    /\ UNCHANGED <<queued_at, clock, docVars, held, retrying>>

\* ... and commits by primary key, whatever the row has become since.  The job
\* keeps its attempt and its queued_at.
fail_job_commit(w) ==
    /\ pc[w] = "settle"
    /\ ~Locked(cur[w])
    /\ status' = [status EXCEPT ![cur[w]] =
                     IF verdict[w] = "none" THEN @ ELSE verdict[w]]
    /\ Verdict(w, "none")
    /\ Leave(w, "idle")
    /\ UNCHANGED <<attempt, queued_at, clock, docVars, held, retrying>>

\* The process dies, or a database call outside pipeline.ingest raises.  An
\* open claim transaction rolls back, which frees its row lock.  (A death
\* between two jobs loses nothing and is left out.)
worker_dies(w) ==
    /\ w \in Unreliable
    /\ pc[w] \notin {"idle", "down"}
    /\ held' = held \ {w}
    /\ Verdict(w, "none")
    /\ Leave(w, "down")
    /\ UNCHANGED <<tableVars, docVars, retrying>>

\* docker-compose.prod.yml: restart: unless-stopped
worker_restarts(w) ==
    /\ pc[w] = "down"
    /\ Goto(w, "idle")
    /\ UNCHANGED <<tableVars, docVars, cur, held, verdict, retrying>>

-----------------------------------------------------------------------------
run_once(w) ==
    \/ claim_next_job_select(w) \/ claim_next_job_commit(w)
    \/ ingest_upsert(w) \/ ingest_completes(w) \/ ingest_fails(w)
    \/ get_document_by_source_path(w)
    \/ complete_job(w)
    \/ delete_document_by_source_path(w)
    \/ fail_job_read(w) \/ fail_job_commit(w)

Worker(w) == run_once(w) \/ worker_dies(w) \/ worker_restarts(w)

Api ==
    \/ \E j \in Jobs : create_ingestion_job(j)
    \/ \E r \in Requests :
         \/ \E j \in Jobs : retry_job_read(r, j)
         \/ retry_job_commit(r)

Next == Api \/ \E w \in Workers : Worker(w)

Spec == Init /\ [][Next]_vars

\* The worker loop never pauses for ever and its container is restarted; an
\* upload or a retry is the user's choice.
Fairness == \A w \in Workers :
    WF_vars(run_once(w)) /\ WF_vars(worker_restarts(w))

FairSpec == Spec /\ Fairness

-----------------------------------------------------------------------------
(* Properties.                                                             *)

\* A worker that has claimed a job is alone with it: its pipeline, its delete
\* and its complete_job never mix with another worker's on the same job.
\* (claim_next_job's row lock, fail_job's requeue and retry_job's check.)
ExclusiveWork ==
    \A v, w \in Workers :
        cur[v] = cur[w] /\ cur[v] # NoJob => v = w

\* A job is started at most MaxAttempts times per submission: one waiting in
\* the queue has an attempt left, one given up on has used them all.
\* (claim_next_job counts, fail_job decides, retry_job resets.)  This holds
\* while retries are serial.
AttemptBudget ==
    \A j \in Jobs :
        /\ attempt[j] <= MaxAttempts
        /\ status[j] = "queued" => attempt[j] < MaxAttempts
        /\ status[j] = "failed" => attempt[j] = MaxAttempts

\* "Auto-retries before a job is marked failed" (README, on the setting
\* INGESTION_JOB_MAX_ATTEMPTS): no attempt beyond the last.  This does not hold
\* when retries race: fail_job decides on an attempt that may be an old one.
AttemptsBounded == \A j \in Jobs : attempt[j] <= MaxAttempts

\* The documents table agrees with the job table: an indexed job's document
\* is there and linked, and a job that waits or has failed left none behind.
\* (run_once deletes before fail_job and looks up before complete_job.)
DocumentsMatchStatus ==
    \A j \in Jobs :
        /\ status[j] = "indexed" => j \in documents /\ j \in document_id
        /\ status[j] \in {"absent", "queued", "failed"} => j \notin documents

\* The unsettled jobs that entered the queue before j.
AheadOf(j) == {k \in Jobs : /\ status[k] \in {"queued", "extracting"}
                            /\ queued_at[k] < queued_at[j]}

\* While a job waits, nobody gets in front of it: a requeued attempt keeps its
\* old place and a manual retry goes to the tail, so the position that
\* queue_position reports never exceeds the one reported on entry by more
\* than the jobs that were being extracted then.
NoOvertaking ==
    [][\A j \in Jobs :
         /\ status[j] = "queued" /\ status'[j] = "queued"
         /\ queued_at'[j] = queued_at[j]
         => AheadOf(j)' \subseteq AheadOf(j)]_vars

\* Every job taken into the queue ends indexed or failed.  This does not hold:
\* a job whose worker died stays extracting.
EveryJobSettles ==
    \A j \in Jobs :
        status[j] = "queued" ~> status[j] \in {"indexed", "failed"}

\* A worker has died over the job: it stays extracting and nobody works on it.
Orphaned(j) == status[j] = "extracting" /\ \A w \in Workers : cur[w] # j

\* Once the workers have stopped dying, every job in the queue is indexed,
\* failed for good or orphaned by a death before: no requeue goes on for ever
\* and no job starves behind others.  (run_forever, fail_job, queued_at.)
JobsSettleUnlessOrphaned ==
    <>[](\A w \in Workers : pc[w] # "down") =>
        \A j \in Jobs : status[j] = "queued" ~>
            status[j] \in {"indexed", "failed"} \/ Orphaned(j)

\* One retry request at a time.
SerialRetries == \A r, s \in Requests : r = s

\* What makes ExclusiveWork and DocumentsMatchStatus inductive when retries
\* are serial: where each worker stands determines its job's row.
WorkerInv ==
    \A w \in Workers :
        LET j == cur[w] IN
        /\ pc[w] = "claim" => status[j] = "queued"
        /\ pc[w] \notin {"idle", "down", "claim"} => status[j] = "extracting"
        /\ pc[w] \in {"claim", "load", "fail", "settle"} => j \notin documents
        /\ pc[w] \in {"index", "lookup"} => j \in documents
        /\ pc[w] = "complete" => j \in documents /\ w \in held
        /\ pc[w] = "settle" =>
             verdict[w] = IF attempt[j] < MaxAttempts THEN "queued" ELSE "failed"

RetryInv ==
    \A r \in Requests :
        retrying[r] # NoJob => status[retrying[r]] = "failed"

FreshJobs == \A j \in Jobs : status[j] = "absent" => attempt[j] = 0

StartedJobs ==
    \A j \in Jobs : status[j] \in {"extracting", "indexed"} => attempt[j] > 0

IInv ==
    /\ TypeOK
    /\ AttemptBudget
    /\ FreshJobs
    /\ StartedJobs
    /\ RetryInv
    /\ WorkerInv
    /\ ExclusiveWork
    /\ DocumentsMatchStatus

-----------------------------------------------------------------------------
(* The promise to the uploader, implemented while retries are serial.      *)

phase == [j \in Jobs |->
            CASE status[j] = "absent" -> "none"
              [] status[j] \in {"queued", "extracting"} -> "pending"
              [] OTHER -> status[j]]

Promise == INSTANCE JobPromise WITH tries <- attempt, stored <- documents

ImplementsPromise == Promise!Spec
=============================================================================
