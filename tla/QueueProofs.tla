------------------------------ MODULE QueueProofs ------------------------------
(***************************************************************************)
(* What holds of JobQueue for every number of jobs, workers and requests;  *)
(* then of SyncRun for any number of runs, pages, workers and uploads      *)
(* while sync runs fail anywhere: the cleanup of a failed run stops at its *)
(* own jobs, and reaches all of them.                                      *)
(***************************************************************************)
EXTENDS SyncRun, FiniteSetTheorems, TLAPS

(***************************************************************************)
(* The type invariant: rows, places and claims stay well formed, and a     *)
(* worker has a job exactly when it is inside run_once.                    *)
(***************************************************************************)
LEMMA TypeStep == TypeOK /\ [Next]_vars => TypeOK'
<1> SUFFICES ASSUME TypeOK, [Next]_vars PROVE TypeOK'
  OBVIOUS
<1> USE NoJobAssumption DEF TypeOK, Statuses, Places, Verdicts, tableVars, docVars, workerVars
<1>1. ASSUME NEW j \in Jobs, create_ingestion_job(j) PROVE TypeOK'
  BY <1>1 DEF create_ingestion_job
<1>2. ASSUME NEW r \in Requests, NEW j \in Jobs, retry_job_read(r, j) PROVE TypeOK'
  BY <1>2 DEF retry_job_read
<1>3. ASSUME NEW r \in Requests, retry_job_commit(r) PROVE TypeOK'
  BY <1>3 DEF retry_job_commit, RetriedAt
<1>4. ASSUME NEW w \in Workers, Worker(w) PROVE TypeOK'
  <2>1. CASE claim_next_job_select(w)
    BY <2>1 DEF claim_next_job_select, Goto, Claimable
  <2>2. CASE claim_next_job_commit(w)
    BY <2>2 DEF claim_next_job_commit, Goto
  <2>3. CASE ingest_upsert(w)
    BY <2>3 DEF ingest_upsert, Goto
  <2>4. CASE ingest_completes(w) \/ ingest_fails(w)
    BY <2>4 DEF ingest_completes, ingest_fails, Goto
  <2>5. CASE get_document_by_source_path(w)
    BY <2>5 DEF get_document_by_source_path, Goto
  <2>6. CASE complete_job(w)
    BY <2>6 DEF complete_job, Leave, Goto
  <2>7. CASE delete_document_by_source_path(w)
    BY <2>7 DEF delete_document_by_source_path, DeleteDocument, Goto
  <2>8. CASE fail_job_read(w) \/ fail_job_commit(w)
    BY <2>8 DEF fail_job_read, fail_job_commit, HasAttemptLeft, Verdict, Leave, Goto
  <2>9. CASE worker_dies(w)
    BY <2>9 DEF worker_dies, Verdict, Leave, Goto
  <2>10. CASE worker_restarts(w)
    BY <2>10 DEF worker_restarts, Goto
  <2> QED
    BY <1>4, <2>1, <2>2, <2>3, <2>4, <2>5, <2>6, <2>7, <2>8, <2>9, <2>10
    DEF Worker, run_once
<1>5. CASE UNCHANGED vars
  BY <1>5 DEF vars
<1> QED
  BY <1>1, <1>2, <1>3, <1>4, <1>5 DEF Next, Api

\* ingestion_jobs, the workers' program counters and the documents keep their
\* types, whatever the workers and the API do.
THEOREM TypeCorrect == Spec => []TypeOK
<1>1. Init => TypeOK
  BY NoJobAssumption DEF Init, TypeOK, Statuses, Places, Verdicts
<1> QED
  BY <1>1, TypeStep, PTL DEF Spec

-----------------------------------------------------------------------------
(***************************************************************************)
(* With one retry request at a time a worker is alone with its job, the    *)
(* table and the documents agree, and no attempt is made beyond the last.  *)
(* The strengthening is IInv: where a worker stands fixes its job's row, a *)
(* retry that has read a failed row still finds it failed, since nobody    *)
(* else moves a failed job, and what fail_job decided on the attempt it    *)
(* read is still right when it commits.                                    *)
(***************************************************************************)
LEMMA SerialStep == SerialRetries /\ IInv /\ [Next]_vars => IInv'
<1> SUFFICES ASSUME SerialRetries, IInv, [Next]_vars, TypeOK' PROVE IInv'
  BY TypeStep DEF IInv
<1> USE NoJobAssumption, MaxAttemptsAssumption
    DEF SerialRetries, IInv, TypeOK, AttemptBudget, FreshJobs, StartedJobs,
        RetryInv, WorkerInv, ExclusiveWork, DocumentsMatchStatus,
        tableVars, docVars, workerVars, Locked, Statuses, Places, Verdicts
<1>1. ASSUME NEW j \in Jobs, create_ingestion_job(j) PROVE IInv'
  BY <1>1 DEF create_ingestion_job
<1>2. ASSUME NEW r \in Requests, NEW j \in Jobs, retry_job_read(r, j) PROVE IInv'
  BY <1>2 DEF retry_job_read
<1>3. ASSUME NEW r \in Requests, retry_job_commit(r) PROVE IInv'
  BY <1>3 DEF retry_job_commit, RetriedAt
<1>4. ASSUME NEW w \in Workers, Worker(w) PROVE IInv'
  <2>1. CASE claim_next_job_select(w)
    BY <2>1 DEF claim_next_job_select, Goto, Claimable
  <2>2. CASE claim_next_job_commit(w)
    BY <2>2 DEF claim_next_job_commit, Goto
  <2>3. CASE ingest_upsert(w)
    BY <2>3 DEF ingest_upsert, Goto
  <2>4. CASE ingest_completes(w) \/ ingest_fails(w)
    BY <2>4 DEF ingest_completes, ingest_fails, Goto
  <2>5. CASE get_document_by_source_path(w)
    BY <2>5 DEF get_document_by_source_path, Goto
  <2>6. CASE complete_job(w)
    BY <2>6 DEF complete_job, Leave, Goto
  <2>7. CASE worker_dies(w)
    BY <2>7 DEF worker_dies, Verdict, Leave, Goto
  <2>8. CASE delete_document_by_source_path(w)
    BY <2>8 DEF delete_document_by_source_path, DeleteDocument, Goto
  <2>9. CASE fail_job_read(w) \/ fail_job_commit(w)
    BY <2>9 DEF fail_job_read, fail_job_commit, HasAttemptLeft, Verdict, Leave, Goto
  <2>10. CASE worker_restarts(w)
    BY <2>10 DEF worker_restarts, Goto
  <2> QED
    BY <1>4, <2>1, <2>2, <2>3, <2>4, <2>5, <2>6, <2>7, <2>8, <2>9, <2>10
    DEF Worker, run_once
<1>5. CASE UNCHANGED vars
  BY <1>5 DEF vars
<1> QED
  BY <1>1, <1>2, <1>3, <1>4, <1>5 DEF Next, Api

LEMMA SerialInvariant == SerialRetries => (Spec => []IInv)
<1> SUFFICES ASSUME SerialRetries PROVE Spec => []IInv
  OBVIOUS
<1>1. Init => IInv
  BY NoJobAssumption, MaxAttemptsAssumption
  DEF Init, IInv, TypeOK, AttemptBudget, FreshJobs, StartedJobs, RetryInv, WorkerInv,
      ExclusiveWork, DocumentsMatchStatus, Statuses, Places, Verdicts
<1>2. IInv /\ [Next]_vars => IInv'
  BY SerialStep
<1> QED
  BY <1>1, <1>2, PTL DEF Spec

\* With serial retries no two workers ever work on one job (claim_next_job's
\* FOR UPDATE SKIP LOCKED).
THEOREM WorkIsExclusive == SerialRetries => (Spec => []ExclusiveWork)
<1>1. IInv => ExclusiveWork
  BY DEF IInv
<1> QED
  BY <1>1, SerialInvariant, PTL

\* With serial retries a job is started at most MaxAttempts times per submission,
\* one in the queue has an attempt left and one given up on has used them all
\* (claim_next_job counts, fail_job reads the count and commits later).
THEOREM BudgetRespected == SerialRetries => (Spec => []AttemptBudget)
<1>1. IInv => AttemptBudget
  BY DEF IInv
<1> QED
  BY <1>1, SerialInvariant, PTL

\* With serial retries a job's document exists exactly as its status says
\* (complete_job, delete_document_by_source_path).
THEOREM DocumentsAgree == SerialRetries => (Spec => []DocumentsMatchStatus)
<1>1. IInv => DocumentsMatchStatus
  BY DEF IInv
<1> QED
  BY <1>1, SerialInvariant, PTL

-----------------------------------------------------------------------------
(***************************************************************************)
(* Nobody overtakes a waiting job: a job becomes unsettled only with the   *)
(* latest queued_at of all, and one that is requeued was unsettled before. *)
(***************************************************************************)
QueuedBefore == \A j \in Jobs : status[j] # "absent" => queued_at[j] < clock

Unsettled(j) == status[j] \in {"queued", "extracting"}

\* The row of each job in one step, as far as the order of the queue goes.
SlotStep ==
    \A j \in Jobs :
        \/ /\ queued_at'[j] = queued_at[j]
           /\ Unsettled(j)' => Unsettled(j)
           /\ status'[j] = "absent" <=> status[j] = "absent"
        \/ /\ queued_at'[j] = clock
           /\ clock' = clock + 1

LEMMA EveryStepKeepsSlots ==
    SerialRetries /\ IInv /\ [Next]_vars => SlotStep /\ clock' >= clock
<1> SUFFICES ASSUME SerialRetries, IInv, [Next]_vars
             PROVE  SlotStep /\ clock' >= clock
  OBVIOUS
<1> USE DEF IInv, TypeOK, WorkerInv, RetryInv, SlotStep, Unsettled,
            tableVars, docVars, workerVars, Places
<1>1. ASSUME NEW j \in Jobs, create_ingestion_job(j)
      PROVE  SlotStep /\ clock' >= clock
  BY <1>1 DEF create_ingestion_job
<1>2. ASSUME NEW r \in Requests, NEW j \in Jobs, retry_job_read(r, j)
      PROVE  SlotStep /\ clock' >= clock
  BY <1>2 DEF retry_job_read
<1>3. ASSUME NEW r \in Requests, retry_job_commit(r)
      PROVE  SlotStep /\ clock' >= clock
  BY <1>3 DEF retry_job_commit, RetriedAt
<1>4. ASSUME NEW w \in Workers, Worker(w)
      PROVE  SlotStep /\ clock' >= clock
  <2>1. CASE claim_next_job_commit(w)
    BY <2>1 DEF claim_next_job_commit
  <2>2. CASE complete_job(w)
    BY <2>2 DEF complete_job
  <2>3. CASE fail_job_commit(w)
    BY <2>3 DEF fail_job_commit
  <2>4. CASE UNCHANGED tableVars
    BY <2>4
  <2> QED
    BY <1>4, <2>1, <2>2, <2>3, <2>4
    DEF Worker, run_once, claim_next_job_select, ingest_upsert,
        ingest_completes, ingest_fails, get_document_by_source_path,
        delete_document_by_source_path, fail_job_read,
        worker_dies, worker_restarts
<1>5. CASE UNCHANGED vars
  BY <1>5 DEF vars
<1> QED
  BY <1>1, <1>2, <1>3, <1>4, <1>5 DEF Next, Api

\* With serial retries no job gets in front of one that waits in the queue
\* (queued_at in claim_next_job, fail_job and retry_job).
THEOREM NeverOvertaken == SerialRetries => (Spec => NoOvertaking)
<1> SUFFICES ASSUME SerialRetries PROVE Spec => NoOvertaking
  OBVIOUS
<1>1. Init => QueuedBefore
  BY DEF Init, QueuedBefore
<1>2. IInv /\ QueuedBefore /\ [Next]_vars => QueuedBefore'
  <2> SUFFICES ASSUME IInv, QueuedBefore, [Next]_vars,
                      NEW j \in Jobs, status'[j] # "absent"
               PROVE  queued_at'[j] < clock'
    BY DEF QueuedBefore
  <2>1. SlotStep /\ clock' >= clock /\ TypeOK /\ TypeOK'
    BY EveryStepKeepsSlots, TypeStep DEF IInv
  <2>2. CASE queued_at'[j] = queued_at[j] /\ status[j] # "absent"
    BY <2>1, <2>2 DEF QueuedBefore, TypeOK
  <2>3. CASE queued_at'[j] = clock /\ clock' = clock + 1
    BY <2>1, <2>3 DEF TypeOK
  <2> QED
    BY <2>1, <2>2, <2>3 DEF SlotStep
<1>3. IInv /\ QueuedBefore /\ [Next]_vars =>
        [\A j \in Jobs :
           /\ status[j] = "queued" /\ status'[j] = "queued"
           /\ queued_at'[j] = queued_at[j]
           => AheadOf(j)' \subseteq AheadOf(j)]_vars
  BY EveryStepKeepsSlots
  DEF SlotStep, QueuedBefore, AheadOf, Unsettled, IInv, TypeOK
<1> QED
  BY <1>1, <1>2, <1>3, SerialInvariant, PTL DEF Spec, NoOvertaking

-----------------------------------------------------------------------------
(***************************************************************************)
(* The queue keeps the promise made to the uploader: every step of the     *)
(* queue is a step of JobPromise or leaves its variables unchanged.        *)
(***************************************************************************)
LEMMA StepKeepsPromise ==
    SerialRetries /\ IInv /\ [Next]_vars => [Promise!Next]_(Promise!vars)
<1> SUFFICES ASSUME SerialRetries, IInv, [Next]_vars
             PROVE  [Promise!Next]_(Promise!vars)
  OBVIOUS
<1> USE NoJobAssumption, MaxAttemptsAssumption
    DEF IInv, TypeOK, WorkerInv, RetryInv, AttemptBudget, FreshJobs, StartedJobs,
        DocumentsMatchStatus, Promise!vars,
        tableVars, docVars, workerVars, Statuses, Places
<1>0. /\ phase = [j \in Jobs |-> phase[j]] /\ phase' = [j \in Jobs |-> phase'[j]]
      /\ \A j \in Jobs :
           /\ status[j] = "absent" => phase[j] = "none"
           /\ status[j] \in {"queued", "extracting"} => phase[j] = "pending"
           /\ status[j] \in {"indexed", "failed"} => phase[j] = status[j]
           /\ status'[j] \in {"queued", "extracting"} => phase'[j] = "pending"
           /\ status'[j] \in {"indexed", "failed"} => phase'[j] = status'[j]
           /\ status'[j] = status[j] => phase'[j] = phase[j]
  <2> DEFINE PhaseOf(s) == CASE s = "absent" -> "none"
                             [] s \in {"queued", "extracting"} -> "pending"
                             [] OTHER -> s
  <2>1. /\ PhaseOf("absent") = "none"
        /\ \A s \in {"queued", "extracting"} : PhaseOf(s) = "pending"
        /\ \A s \in {"indexed", "failed"} : PhaseOf(s) = s
    OBVIOUS
  <2>2. /\ phase = [j \in Jobs |-> PhaseOf(status[j])]
        /\ phase' = [j \in Jobs |-> PhaseOf(status'[j])]
    BY Zenon DEF phase
  <2> HIDE DEF PhaseOf
  <2> QED
    BY <2>1, <2>2
<1>1. ASSUME NEW j \in Jobs, create_ingestion_job(j)
      PROVE  Promise!Submit(j)
  <2>1. /\ status[j] = "absent" /\ attempt[j] = 0
        /\ status' = [status EXCEPT ![j] = "queued"]
        /\ UNCHANGED <<attempt, documents>>
    BY <1>1 DEF create_ingestion_job
  <2>2. phase[j] = "none" /\ phase' = [phase EXCEPT ![j] = "pending"]
    BY <1>0, <2>1
  <2>3. attempt' = [attempt EXCEPT ![j] = 0]
    BY <2>1
  <2> QED
    BY <2>1, <2>2, <2>3 DEF Promise!Submit
<1>2. ASSUME NEW r \in Requests, retry_job_commit(r)
      PROVE  Promise!Submit(retrying[r])
  <2>1. /\ status[retrying[r]] = "failed"
        /\ status' = [status EXCEPT ![retrying[r]] = "queued"]
        /\ attempt' = [attempt EXCEPT ![retrying[r]] = 0]
        /\ UNCHANGED documents
    BY <1>2 DEF retry_job_commit, RetriedAt
  <2>2. /\ phase[retrying[r]] = "failed"
        /\ phase' = [phase EXCEPT ![retrying[r]] = "pending"]
    BY <1>0, <2>1, <1>2 DEF retry_job_commit
  <2> QED
    BY <2>1, <2>2 DEF Promise!Submit
<1>3. ASSUME NEW w \in Workers, claim_next_job_commit(w)
      PROVE  Promise!Try(cur[w])
  <2>1. /\ status[cur[w]] = "queued"
        /\ status' = [status EXCEPT ![cur[w]] = "extracting"]
        /\ attempt' = [attempt EXCEPT ![cur[w]] = @ + 1]
        /\ UNCHANGED documents
    BY <1>3 DEF claim_next_job_commit
  <2>2. phase[cur[w]] = "pending" /\ phase' = phase
    BY <1>0, <1>3, <2>1 DEF claim_next_job_commit
  <2>3. attempt[cur[w]] < MaxAttempts
    BY <1>3, <2>1 DEF claim_next_job_commit
  <2> QED
    BY <2>1, <2>2, <2>3 DEF Promise!Try
<1>4. ASSUME NEW w \in Workers,
             ingest_upsert(w) \/ delete_document_by_source_path(w)
      PROVE  Promise!Store(cur[w])
  <2>1. /\ status[cur[w]] = "extracting" /\ cur[w] \in Jobs
        /\ documents' \in {documents \cup {cur[w]}, documents \ {cur[w]}}
        /\ UNCHANGED <<status, attempt>>
    BY <1>4 DEF ingest_upsert, delete_document_by_source_path, DeleteDocument
  <2>2. phase[cur[w]] = "pending" /\ phase' = phase /\ attempt[cur[w]] > 0
    BY <1>0, <2>1
  <2> QED
    BY <2>1, <2>2 DEF Promise!Store
<1>5. ASSUME NEW w \in Workers, complete_job(w)
      PROVE  Promise!Index(cur[w])
  <2>1. /\ status[cur[w]] = "extracting" /\ cur[w] \in documents
        /\ status' = [status EXCEPT ![cur[w]] = "indexed"]
        /\ UNCHANGED <<attempt, documents>>
    BY <1>5 DEF complete_job
  <2>2. /\ phase[cur[w]] = "pending"
        /\ phase' = [phase EXCEPT ![cur[w]] = "indexed"]
    BY <1>0, <1>5, <2>1 DEF complete_job
  <2> QED
    BY <2>1, <2>2 DEF Promise!Index
<1>6. ASSUME NEW w \in Workers, fail_job_commit(w)
      PROVE  Promise!GiveUp(cur[w]) \/ UNCHANGED Promise!vars
  <2>1. /\ status[cur[w]] = "extracting" /\ cur[w] \in Jobs
        /\ cur[w] \notin documents
        /\ attempt[cur[w]] <= MaxAttempts
        /\ verdict[w] = IF attempt[cur[w]] < MaxAttempts THEN "queued" ELSE "failed"
        /\ UNCHANGED <<attempt, documents>>
    BY <1>6 DEF fail_job_commit
  <2>2. phase[cur[w]] = "pending"
    BY <1>0, <2>1
  <2>3. CASE verdict[w] = "queued"
    <3>1. status' = [status EXCEPT ![cur[w]] = "queued"]
      BY <1>6, <2>3 DEF fail_job_commit
    <3>2. phase' = phase
      BY <1>0, <2>1, <3>1
    <3> QED
      BY <2>1, <3>2
  <2>4. CASE verdict[w] = "failed"
    <3>1. status' = [status EXCEPT ![cur[w]] = "failed"]
      BY <1>6, <2>4 DEF fail_job_commit
    <3>2. phase' = [phase EXCEPT ![cur[w]] = "failed"]
      BY <1>0, <2>1, <3>1
    <3>3. attempt[cur[w]] = MaxAttempts
      BY <2>1, <2>4
    <3> QED
      BY <2>1, <2>2, <3>2, <3>3 DEF Promise!GiveUp
  <2> QED
    BY <2>1, <2>3, <2>4
<1>7. UNCHANGED <<status, attempt, documents>> => UNCHANGED Promise!vars
  BY DEF phase
<1>8. /\ \A w \in Workers : cur[w] \in Jobs \/ pc[w] \in {"idle", "down"}
      /\ \A r \in Requests : retrying[r] \in Jobs \cup {NoJob}
  OBVIOUS
<1> HIDE DEF IInv, TypeOK, WorkerInv, RetryInv, AttemptBudget, FreshJobs,
             StartedJobs, DocumentsMatchStatus, Promise!vars
<1>9. ASSUME NEW w \in Workers, Worker(w)
      PROVE  Promise!Next \/ UNCHANGED Promise!vars
  <2>1. CASE UNCHANGED <<status, attempt, documents>>
    BY <1>7, <2>1
  <2>2. CASE claim_next_job_commit(w)
    BY <1>3, <1>8, <2>2 DEF claim_next_job_commit, Promise!Next
  <2>3. CASE ingest_upsert(w) \/ delete_document_by_source_path(w)
    BY <1>4, <1>8, <2>3
    DEF ingest_upsert, delete_document_by_source_path, Promise!Next
  <2>4. CASE complete_job(w)
    BY <1>5, <1>8, <2>4 DEF complete_job, Promise!Next
  <2>5. CASE fail_job_commit(w)
    BY <1>6, <1>8, <2>5 DEF fail_job_commit, Promise!Next
  <2> QED
    BY <1>9, <2>1, <2>2, <2>3, <2>4, <2>5
    DEF Worker, run_once, claim_next_job_select, ingest_completes, ingest_fails,
        get_document_by_source_path, fail_job_read, worker_dies, worker_restarts
<1>10. ASSUME Api PROVE Promise!Next \/ UNCHANGED Promise!vars
  <2>1. ASSUME NEW j \in Jobs, create_ingestion_job(j) PROVE Promise!Next
    BY <1>1, <2>1 DEF Promise!Next
  <2>2. ASSUME NEW r \in Requests, retry_job_commit(r) PROVE Promise!Next
    BY <1>2, <1>8, <2>2 DEF retry_job_commit, RetriedAt, Promise!Next
  <2>3. ASSUME NEW r \in Requests, NEW j \in Jobs, retry_job_read(r, j)
        PROVE  UNCHANGED Promise!vars
    BY <1>7, <2>3 DEF retry_job_read
  <2> QED
    BY <1>10, <2>1, <2>2, <2>3 DEF Api
<1>11. CASE UNCHANGED vars
  BY <1>7, <1>11 DEF vars
<1> QED
  BY <1>9, <1>10, <1>11 DEF Next

\* With serial retries JobQueue implements JobPromise, what the API promises
\* of one job.
THEOREM QueueKeepsPromise == SerialRetries => (Spec => ImplementsPromise)
<1> SUFFICES ASSUME SerialRetries PROVE Spec => ImplementsPromise
  OBVIOUS
<1>1. Init => Promise!Init
  BY DEF Init, Promise!Init, phase
<1>2. IInv /\ [Next]_vars => [Promise!Next]_(Promise!vars)
  BY StepKeepsPromise
<1> QED
  BY <1>1, <1>2, SerialInvariant, PTL DEF Spec, ImplementsPromise, Promise!Spec

-----------------------------------------------------------------------------
(* Sync runs.                                                              *)

\* The cleanup of the run has committed.
CleanedUp(s) == at[s] = "done" /\ run_status[s] = "failed"

\* No cleanup has written the job's row.
Untouched(j) == sync_run_id[j] = NoRun \/ ~CleanedUp(sync_run_id[j])

\* What JobQueue promises of one job: its row, its document and the worker
\* that has it agree, and a retry in flight still finds it failed.
RowInv(j) ==
    /\ attempt[j] <= MaxAttempts
    /\ status[j] = "queued" => attempt[j] < MaxAttempts
    /\ status[j] = "failed" => attempt[j] = MaxAttempts
    /\ status[j] = "absent" => attempt[j] = 0
    /\ status[j] \in {"extracting", "indexed"} => attempt[j] > 0
    /\ status[j] = "indexed" => j \in documents /\ j \in document_id
    /\ status[j] \in {"absent", "queued", "failed"} => j \notin documents

HandsInv(j) ==
    /\ \A r \in Requests : retrying[r] = j => status[j] = "failed"
    /\ \A v, w \in Workers : cur[v] = j /\ cur[w] = j => v = w
    /\ \A w \in Workers : cur[w] = j =>
        /\ pc[w] = "claim" => status[j] = "queued"
        /\ pc[w] # "claim" => status[j] = "extracting"
        /\ pc[w] \in {"claim", "load", "fail", "settle"} => j \notin documents
        /\ pc[w] \in {"index", "lookup"} => j \in documents
        /\ pc[w] = "complete" => j \in documents /\ w \in held
        /\ pc[w] = "settle" =>
             verdict[w] = IF attempt[j] < MaxAttempts THEN "queued" ELSE "failed"

JobInv(j) == RowInv(j) /\ HandsInv(j)

\* How far a run has got, and what its cleanup will discard.
RunInv ==
    /\ \A s \in Runs :
        /\ at[s] \in {"none", "list"} => pages[s].indexed = 0
        /\ at[s] \in {"none", "list", "enqueue"} => run_status[s] # "failed"
        /\ at[s] \in {"select", "discard"} => run_status[s] = "failed"
        /\ at[s] = "discard" => doomed[s] \cup unlinked[s] \subseteq JobsOf(s)
    /\ \A j \in Jobs : status[j] = "absent" => sync_run_id[j] = NoRun

SyncInv ==
    /\ SyncTypeOK
    /\ RunInv
    /\ \A j \in Jobs : Untouched(j) => JobInv(j)

\* A job that the cleanup has not read as queued or extracting is not so again
\* before the cleanup commits, unless it has been queued anew.
DoomedInv ==
    \A s \in Runs : at[s] = "discard" =>
        /\ selected_at[s] <= clock
        /\ \A j \in JobsOf(s) : status[j] \in Discarded =>
             j \in doomed[s] \/ queued_at[j] >= selected_at[s]

-----------------------------------------------------------------------------
\* Every step of the queue keeps what it promises of a job, whatever has become
\* of the other jobs.
LEMMA JobStep ==
    ASSUME SerialRetries, TypeOK, [Next]_vars, NEW j \in Jobs, JobInv(j)
    PROVE  JobInv(j)'
<1> USE NoJobAssumption, MaxAttemptsAssumption
    DEF SerialRetries, TypeOK, JobInv, RowInv, HandsInv,
        tableVars, docVars, workerVars, Locked, Statuses, Places, Verdicts
<1>1. ASSUME NEW k \in Jobs, create_ingestion_job(k) PROVE JobInv(j)'
  BY <1>1 DEF create_ingestion_job
<1>2. ASSUME NEW r \in Requests, NEW k \in Jobs, retry_job_read(r, k) PROVE JobInv(j)'
  BY <1>2 DEF retry_job_read
<1>3. ASSUME NEW r \in Requests, retry_job_commit(r) PROVE JobInv(j)'
  BY <1>3 DEF retry_job_commit, RetriedAt
<1>4. ASSUME NEW w \in Workers, Worker(w) PROVE JobInv(j)'
  <2>1. CASE claim_next_job_select(w)
    BY <2>1 DEF claim_next_job_select, Goto, Claimable
  <2>2. CASE claim_next_job_commit(w)
    BY <2>2 DEF claim_next_job_commit, Goto
  <2>3. CASE ingest_upsert(w)
    BY <2>3 DEF ingest_upsert, Goto
  <2>4. CASE ingest_completes(w) \/ ingest_fails(w)
    BY <2>4 DEF ingest_completes, ingest_fails, Goto
  <2>5. CASE get_document_by_source_path(w)
    BY <2>5 DEF get_document_by_source_path, Goto
  <2>6. CASE complete_job(w)
    BY <2>6 DEF complete_job, Leave, Goto
  <2>7. CASE worker_dies(w)
    BY <2>7 DEF worker_dies, Verdict, Leave, Goto
  <2>8. CASE delete_document_by_source_path(w)
    BY <2>8 DEF delete_document_by_source_path, DeleteDocument, Goto
  <2>9. CASE fail_job_read(w) \/ fail_job_commit(w)
    BY <2>9 DEF fail_job_read, fail_job_commit, HasAttemptLeft, Verdict, Leave, Goto
  <2>10. CASE worker_restarts(w)
    BY <2>10 DEF worker_restarts, Goto
  <2> QED
    BY <1>4, <2>1, <2>2, <2>3, <2>4, <2>5, <2>6, <2>7, <2>8, <2>9, <2>10
    DEF Worker, run_once
<1>5. CASE UNCHANGED vars
  BY <1>5 DEF vars
<1> QED
  BY <1>1, <1>2, <1>3, <1>4, <1>5 DEF Next, Api

\* A cleanup is over for good, and the run of a job never changes once the job
\* has a row.
RunsKept ==
    /\ \A s \in Runs : CleanedUp(s) => CleanedUp(s)'
    /\ \A j \in Jobs : \/ sync_run_id'[j] = sync_run_id[j]
                       \/ status[j] = "absent" /\ sync_run_id[j] = NoRun
    /\ \A j \in Jobs : Untouched(j)' => Untouched(j)

\* No step of a sync, or of the queue, undoes a cleanup.
LEMMA RunsStay == SyncInv /\ [SyncNext]_allVars => RunsKept
<1> SUFFICES ASSUME SyncInv, [SyncNext]_allVars PROVE RunsKept
  OBVIOUS
<1> USE NoRunAssumption
    DEF SyncInv, SyncTypeOK, RunInv, RunsKept, CleanedUp, Untouched, StepTo, syncVars,
        cleanupVars
<1>1. ASSUME NEW s \in Runs, sync(s) PROVE RunsKept
  BY <1>1 DEF sync, list_pages, enqueue_page, create_ingestion_job, finish_completed,
    audit_completed, sync_raises, finish_failed, cleanup_sync_run_select,
    cleanup_sync_run_commit
<1>2. ASSUME NEW s \in Runs, create_sync_run(s) \/ api_dies(s) PROVE RunsKept
  BY <1>2 DEF create_sync_run, api_dies
<1>3. CASE QueueNext \/ UNCHANGED allVars
  BY <1>3 DEF QueueNext, allVars
<1> QED
  BY <1>1, <1>2, <1>3 DEF SyncNext

\* The cleanup of a run writes on none of the rows of others.
LEMMA CleanupStep ==
    ASSUME SyncInv, NEW s \in Runs, cleanup_sync_run_commit(s),
           NEW j \in Jobs, Untouched(j)', JobInv(j)
    PROVE  JobInv(j)'
<1>1. sync_run_id[j] # s
  BY NoRunAssumption
  DEF Untouched, CleanedUp, cleanup_sync_run_commit, StepTo, SyncInv, SyncTypeOK, RunInv
<1>2. j \notin doomed[s] /\ j \notin unlinked[s]
  BY <1>1 DEF SyncInv, RunInv, JobsOf, cleanup_sync_run_commit
<1>3. /\ status'[j] = status[j]
      /\ j \in documents' <=> j \in documents
      /\ j \in document_id' <=> j \in document_id
      /\ \A w \in Workers : cur[w] = j => (w \in held' <=> w \in held)
      /\ UNCHANGED <<attempt, pc, cur, verdict, retrying>>
  BY <1>2 DEF cleanup_sync_run_commit
<1> QED
  BY <1>3 DEF JobInv, RowInv, HandsInv

\* Whatever a sync does, the jobs that no cleanup has written keep in order.
LEMMA JobsKept ==
    ASSUME SerialRetries, SyncInv, [SyncNext]_allVars, NEW j \in Jobs, Untouched(j)'
    PROVE  JobInv(j)'
<1>1. JobInv(j)
  BY RunsStay DEF RunsKept, SyncInv
<1>2. TypeOK
  BY DEF SyncInv, SyncTypeOK
<1>3. CASE [Next]_vars
  BY <1>1, <1>2, <1>3, JobStep
<1>4. ASSUME NEW s \in Runs, cleanup_sync_run_commit(s) PROVE JobInv(j)'
  BY <1>1, <1>4, CleanupStep
<1>5. ASSUME NEW s \in Runs, enqueue_page(s) PROVE Next
  BY <1>5 DEF enqueue_page, Next, Api
<1> QED
  BY <1>3, <1>4, <1>5
  DEF SyncNext, QueueNext, create_sync_run, sync, api_dies, list_pages, finish_completed,
      audit_completed, sync_raises, finish_failed, cleanup_sync_run_select, allVars

-----------------------------------------------------------------------------
\* The steps of a sync keep its rows and its counters well formed.
LEMMA SyncTypeStep == SyncTypeOK /\ RunInv /\ [SyncNext]_allVars => SyncTypeOK' /\ RunInv'
<1> SUFFICES ASSUME SyncTypeOK, RunInv, [SyncNext]_allVars PROVE SyncTypeOK' /\ RunInv'
  OBVIOUS
<1> USE MaxPagesAssumption, NoRunAssumption
    DEF SyncTypeOK, RunInv, RunStatuses, SyncPlaces, StepTo, JobsOf, syncVars, cleanupVars
<1>1. TypeOK'
  <2>1. CASE [Next]_vars
    BY <2>1, TypeStep
  <2>2. ASSUME NEW s \in Runs, cleanup_sync_run_commit(s) PROVE TypeOK'
    BY <2>2 DEF cleanup_sync_run_commit, TypeOK, Statuses
  <2>3. ASSUME NEW s \in Runs, enqueue_page(s) PROVE Next
    BY <2>3 DEF enqueue_page, Next, Api
  <2> QED
    BY <2>1, <2>2, <2>3
    DEF SyncNext, QueueNext, create_sync_run, sync, api_dies, list_pages,
        finish_completed, audit_completed, sync_raises, finish_failed,
        cleanup_sync_run_select, allVars
<1>2. ASSUME NEW s \in Runs, create_sync_run(s) \/ api_dies(s)
      PROVE  SyncTypeOK' /\ RunInv'
  <2>1. CASE create_sync_run(s)
    BY <1>1, <2>1 DEF create_sync_run, vars, tableVars
  <2>2. CASE api_dies(s)
    BY <1>1, <2>2 DEF api_dies, vars, tableVars
  <2> QED
    BY <1>2, <2>1, <2>2
<1>3. ASSUME NEW s \in Runs, list_pages(s) PROVE SyncTypeOK' /\ RunInv'
  BY <1>1, <1>3 DEF list_pages, vars, tableVars
<1>4. ASSUME NEW s \in Runs, enqueue_page(s) PROVE SyncTypeOK' /\ RunInv'
  <2>1. PICK j \in Jobs : create_ingestion_job(j)
                          /\ sync_run_id' = [sync_run_id EXCEPT ![j] = s]
    BY <1>4 DEF enqueue_page
  <2>2. /\ pages' = [pages EXCEPT ![s].indexed = @ + 1]
        /\ pages[s].indexed < pages[s].seen
        /\ UNCHANGED <<run_status, at, doomed, unlinked, selected_at>>
    BY <1>4 DEF enqueue_page, PagesLeft
  <2>3. /\ pages' \in [Runs -> [seen : 0 .. MaxPages, indexed : 0 .. MaxPages]]
        /\ \A r \in Runs : pages'[r].indexed <= pages'[r].seen
    BY <2>2
  <2>4. sync_run_id' \in [Jobs -> Runs \cup {NoRun}]
    BY <2>1
  <2>5. SyncTypeOK'
    BY <1>1, <2>2, <2>3, <2>4
  <2>6. status' = [status EXCEPT ![j] = "queued"] /\ status \in [Jobs -> Statuses]
    BY <2>1 DEF create_ingestion_job, TypeOK
  <2>7. \A i \in Jobs : status'[i] = "absent" => sync_run_id'[i] = NoRun
    BY <2>1, <2>6
  <2>8. \A r \in Runs :
          at[r] = "discard" => doomed[r] \cup unlinked[r] \subseteq JobsOf(r)'
    BY <1>4, <2>1, <2>6, status[j] = "absent" DEF create_ingestion_job
  <2> QED
    BY <1>4, <2>2, <2>5, <2>7, <2>8 DEF enqueue_page
<1>5. ASSUME NEW s \in Runs,
             finish_completed(s) \/ audit_completed(s) \/ sync_raises(s) \/ finish_failed(s)
      PROVE  SyncTypeOK' /\ RunInv'
  <2>1. UNCHANGED <<vars, sync_run_id, pages, cleanupVars>> /\ UNCHANGED tableVars
    BY <1>5 DEF finish_completed, audit_completed, sync_raises, finish_failed, vars
  <2>2. CASE finish_completed(s)
    BY <1>1, <2>1, <2>2 DEF finish_completed, tableVars
  <2>3. CASE audit_completed(s)
    BY <1>1, <2>1, <2>3 DEF audit_completed, tableVars
  <2>4. CASE sync_raises(s)
    BY <1>1, <2>1, <2>4 DEF sync_raises, tableVars
  <2>5. CASE finish_failed(s)
    BY <1>1, <2>1, <2>5 DEF finish_failed, tableVars
  <2> QED
    BY <1>5, <2>2, <2>3, <2>4, <2>5
<1>6. ASSUME NEW s \in Runs, cleanup_sync_run_select(s) PROVE SyncTypeOK' /\ RunInv'
  <2>1. clock \in Nat
    BY DEF TypeOK
  <2> QED
    BY <1>1, <1>6, <2>1 DEF cleanup_sync_run_select, vars, tableVars
<1>7. ASSUME NEW s \in Runs, cleanup_sync_run_commit(s) PROVE SyncTypeOK' /\ RunInv'
  BY <1>1, <1>7 DEF cleanup_sync_run_commit
<1>8. CASE QueueNext
  <2>1. \A j \in Jobs : status'[j] = "absent" => status[j] = "absent"
    <3>1. ASSUME NEW w \in Workers, Worker(w)
          PROVE  \A j \in Jobs : status'[j] = "absent" => status[j] = "absent"
      <4>1. CASE claim_next_job_commit(w)
        BY <4>1 DEF claim_next_job_commit, TypeOK
      <4>2. CASE complete_job(w)
        BY <4>2 DEF complete_job, TypeOK
      <4>3. CASE fail_job_commit(w)
        BY <4>3 DEF fail_job_commit, TypeOK, Verdicts
      <4>4. CASE UNCHANGED status
        BY <4>4
      <4> QED
        BY <3>1, <4>1, <4>2, <4>3, <4>4
        DEF Worker, run_once, claim_next_job_select, ingest_upsert, ingest_completes,
            ingest_fails, get_document_by_source_path, delete_document_by_source_path,
            fail_job_read, worker_dies, worker_restarts, tableVars
    <3>2. ASSUME Api PROVE \A j \in Jobs : status'[j] = "absent" => status[j] = "absent"
      BY <3>2 DEF Api, create_ingestion_job, retry_job_read, retry_job_commit, tableVars,
        TypeOK
    <3> QED
      BY <1>8, <3>1, <3>2 DEF QueueNext, Next
  <2> QED
    BY <1>1, <1>8, <2>1 DEF QueueNext
<1>9. CASE UNCHANGED allVars
  BY <1>1, <1>9 DEF allVars, vars, tableVars
<1> QED
  BY <1>2, <1>3, <1>4, <1>5, <1>6, <1>7, <1>8, <1>9 DEF SyncNext, sync

\* Before the first run there is no job.
LEMMA SyncStart == SyncInit => SyncInv
<1> SUFFICES ASSUME SyncInit PROVE SyncInv
  OBVIOUS
<1>1. TypeOK
  BY NoJobAssumption DEF SyncInit, Init, TypeOK, Statuses, Places, Verdicts
<1>2. SyncTypeOK /\ RunInv
  BY <1>1, MaxPagesAssumption
  DEF SyncInit, Init, SyncTypeOK, RunInv, RunStatuses, SyncPlaces
<1>3. ASSUME NEW j \in Jobs PROVE JobInv(j)
  BY NoJobAssumption, MaxAttemptsAssumption DEF SyncInit, Init, JobInv, RowInv, HandsInv
<1> QED
  BY <1>2, <1>3 DEF SyncInv

\* sync_runs, the jobs' sync_run_id and the counters of a run keep their types,
\* whatever the workers and the API do.
THEOREM SyncTypeCorrect == SyncSpec => []SyncTypeOK
<1>1. SyncInit => SyncTypeOK /\ RunInv
  BY SyncStart DEF SyncInv
<1> QED
  BY <1>1, SyncTypeStep, PTL DEF SyncSpec

\* With serial retries no step of a sync takes anything out of order.
LEMMA SyncInvariant == SerialRetries => (SyncSpec => []SyncInv)
<1> SUFFICES ASSUME SerialRetries PROVE SyncSpec => []SyncInv
  OBVIOUS
<1>1. SyncInv /\ [SyncNext]_allVars => SyncInv'
  BY SyncTypeStep, JobsKept DEF SyncInv
<1> QED
  BY <1>1, SyncStart, PTL DEF SyncSpec

-----------------------------------------------------------------------------
\* No upload is ever in the way of a cleanup.
LEMMA UploadsInOrder == SyncInv => UploadsUndisturbed
<1> SUFFICES ASSUME SyncInv, NEW j \in Uploads
             PROVE  /\ RowInv(j)
                    /\ Cardinality({w \in Workers : cur[w] = j}) <= 1
  BY DEF UploadsUndisturbed, RowInv
<1>1. JobInv(j)
  BY DEF SyncInv, Uploads, Untouched
<1>2. CASE \A w \in Workers : cur[w] # j
  <2>1. {w \in Workers : cur[w] = j} = {}
    BY <1>2
  <2> QED
    BY <1>1, <2>1, FS_EmptySet DEF JobInv
<1>3. ASSUME NEW v \in Workers, cur[v] = j
      PROVE  Cardinality({w \in Workers : cur[w] = j}) = 1
  <2>1. {w \in Workers : cur[w] = j} = {v}
    BY <1>1, <1>3 DEF JobInv, HandsInv
  <2> QED
    BY <2>1, FS_Singleton
<1> QED
  BY <1>1, <1>2, <1>3 DEF JobInv

\* With serial retries a sync that fails and cleans up, whenever and however
\* often, leaves the jobs, documents and workers of uploads as they were
\* (cleanup_sync_run's WHERE on sync_run_id).
THEOREM UploadsStayUndisturbed == SerialRetries => (SyncSpec => []UploadsUndisturbed)
  BY SyncInvariant, UploadsInOrder, PTL

\* A step that takes an indexed page's document is a delete of its own run's
\* cleanup, or of a worker that works on after the cleanup.
LEMMA PageGone ==
    ASSUME SyncInv, SyncNext, NEW s \in Runs, NEW j \in JobsOf(s),
           status[j] = "indexed", j \in documents, j \notin documents'
    PROVE  run_status[s] = "failed"
<1>1. j \in Jobs /\ sync_run_id[j] = s
  BY DEF JobsOf
<1>2. ASSUME NEW w \in Workers, cur[w] = j PROVE ~JobInv(j)
  BY <1>2, NoJobAssumption DEF JobInv, HandsInv
<1>3. CASE QueueNext
  <2>1. PICK w \in Workers : delete_document_by_source_path(w)
    BY <1>1, <1>3 DEF QueueNext, Next, Api, Worker, run_once, create_ingestion_job,
      retry_job_read, retry_job_commit, claim_next_job_select, claim_next_job_commit,
      ingest_upsert, ingest_completes, ingest_fails, get_document_by_source_path,
      complete_job, fail_job_read, fail_job_commit,
      worker_dies, worker_restarts, docVars
  <2>2. cur[w] = j
    BY <2>1 DEF delete_document_by_source_path, DeleteDocument
  <2> QED
    BY <1>1, <1>2, <2>2 DEF SyncInv, Untouched, CleanedUp
<1>4. ASSUME NEW t \in Runs, cleanup_sync_run_commit(t) PROVE run_status[s] = "failed"
  <2>1. j \in JobsOf(t) /\ run_status[t] = "failed"
    BY <1>4 DEF cleanup_sync_run_commit, SyncInv, RunInv
  <2> QED
    BY <1>1, <2>1 DEF JobsOf
<1> QED
  BY <1>3, <1>4
  DEF SyncNext, create_sync_run, sync, api_dies, list_pages, enqueue_page,
      create_ingestion_job, finish_completed, audit_completed, sync_raises, finish_failed,
      cleanup_sync_run_select, vars, docVars

\* With serial retries an indexed page's document disappears only after its run
\* has been marked failed (sync's except clause, run_once's delete).
THEOREM PagesOutlive == SerialRetries => (SyncSpec => PagesOutliveAllButFailure)
<1> SUFFICES ASSUME SerialRetries PROVE SyncSpec => PagesOutliveAllButFailure
  OBVIOUS
<1>1. SyncInv /\ [SyncNext]_allVars =>
        [\A s \in Runs : \A j \in JobsOf(s) :
           status[j] = "indexed" /\ j \in documents /\ j \notin documents'
           => run_status[s] = "failed"]_allVars
  BY PageGone
<1> QED
  BY <1>1, SyncInvariant, PTL DEF SyncSpec, PagesOutliveAllButFailure

-----------------------------------------------------------------------------
\* The clock goes on, and no step but create_ingestion_job and retry_job's commit
\* stamps a job.
LEMMA StampStep ==
    ASSUME SyncInv, [SyncNext]_allVars
    PROVE  /\ clock' >= clock
           /\ \A j \in Jobs : \/ queued_at'[j] = queued_at[j]
                              \/ queued_at'[j] = clock
<1> USE DEF SyncInv, SyncTypeOK, TypeOK
<1>1. ASSUME NEW j \in Jobs, create_ingestion_job(j)
      PROVE  /\ clock' >= clock
             /\ \A k \in Jobs : queued_at'[k] = queued_at[k] \/ queued_at'[k] = clock
  BY <1>1 DEF create_ingestion_job
<1>2. ASSUME NEW r \in Requests, retry_job_commit(r)
      PROVE  /\ clock' >= clock
             /\ \A k \in Jobs : queued_at'[k] = queued_at[k] \/ queued_at'[k] = clock
  BY <1>2 DEF retry_job_commit, RetriedAt
<1>3. CASE UNCHANGED <<queued_at, clock>>
  BY <1>3
<1>4. ASSUME NEW w \in Workers, Worker(w) PROVE UNCHANGED <<queued_at, clock>>
  BY <1>4 DEF Worker, run_once, claim_next_job_select, claim_next_job_commit,
    ingest_upsert, ingest_completes, ingest_fails, get_document_by_source_path,
    complete_job, delete_document_by_source_path,
    fail_job_read, fail_job_commit, worker_dies, worker_restarts, tableVars
<1>5. ASSUME NEW r \in Requests, NEW j \in Jobs, retry_job_read(r, j)
      PROVE  UNCHANGED <<queued_at, clock>>
  BY <1>5 DEF retry_job_read, tableVars
<1>6. ASSUME NEW s \in Runs, enqueue_page(s)
      PROVE  \E j \in Jobs : create_ingestion_job(j)
  BY <1>6 DEF enqueue_page
<1>7. ASSUME NEW s \in Runs, cleanup_sync_run_commit(s)
      PROVE  UNCHANGED <<queued_at, clock>>
  BY <1>7 DEF cleanup_sync_run_commit
<1> QED
  BY <1>1, <1>2, <1>3, <1>4, <1>5, <1>6, <1>7
  DEF SyncNext, QueueNext, Next, Api, create_sync_run, sync, api_dies, list_pages,
      finish_completed, audit_completed, sync_raises, finish_failed,
      cleanup_sync_run_select, allVars, vars, tableVars

\* Between the cleanup's SELECT and its commit the run gets no new job, and its
\* old ones get into the queue or to a worker only from there, or by a retry.
LEMMA DoomedStep ==
    SerialRetries /\ SyncInv /\ DoomedInv /\ [SyncNext]_allVars => DoomedInv'
<1> SUFFICES ASSUME SerialRetries, SyncInv, DoomedInv, [SyncNext]_allVars,
                    NEW s \in Runs, (at[s] = "discard")'
             PROVE  /\ selected_at'[s] <= clock'
                    /\ \A j \in Jobs : sync_run_id'[j] = s /\ status'[j] \in Discarded =>
                         j \in doomed'[s] \/ queued_at'[j] >= selected_at'[s]
  BY DEF DoomedInv, JobsOf
<1>1. CASE cleanup_sync_run_select(s)
  BY <1>1 DEF cleanup_sync_run_select, JobsOf, vars, tableVars, SyncInv, SyncTypeOK, TypeOK
<1>2. CASE ~cleanup_sync_run_select(s)
  <2>1. at[s] = "discard" /\ doomed'[s] = doomed[s] /\ selected_at'[s] = selected_at[s]
    BY <1>2 DEF SyncNext, create_sync_run, sync, api_dies, list_pages, enqueue_page,
      finish_completed, audit_completed, sync_raises, finish_failed,
      cleanup_sync_run_select, cleanup_sync_run_commit, QueueNext, StepTo, syncVars,
      cleanupVars, allVars, SyncInv, SyncTypeOK
  <2>2. selected_at[s] \in Nat /\ clock \in Nat /\ clock' \in Nat /\ clock' >= clock
    BY StampStep, TypeStep, SyncTypeStep DEF SyncInv, SyncTypeOK, TypeOK
  <2>3. selected_at'[s] <= clock'
    BY <2>1, <2>2 DEF DoomedInv
  <2> SUFFICES ASSUME NEW j \in Jobs, sync_run_id'[j] = s, status'[j] \in Discarded
               PROVE  j \in doomed'[s] \/ queued_at'[j] >= selected_at'[s]
    BY <2>3
  <2>4. CASE queued_at'[j] = clock
    BY <2>1, <2>2, <2>4 DEF DoomedInv
  <2>5. ASSUME queued_at'[j] = queued_at[j], queued_at'[j] # clock
        PROVE  j \in doomed'[s] \/ queued_at'[j] >= selected_at'[s]
    <3>1. sync_run_id[j] = s
      BY <2>1 DEF SyncNext, create_sync_run, sync, api_dies, list_pages, enqueue_page,
        create_ingestion_job, finish_completed, audit_completed, sync_raises,
        finish_failed, cleanup_sync_run_select, cleanup_sync_run_commit, QueueNext,
        syncVars, allVars, SyncInv, SyncTypeOK
    <3>2. JobInv(j)
      BY <2>1, <3>1 DEF SyncInv, Untouched, CleanedUp
    <3>3. ASSUME NEW w \in Workers, Worker(w) PROVE status[j] \in Discarded
      BY <3>2, <3>3 DEF Worker, run_once, claim_next_job_select, claim_next_job_commit,
        ingest_upsert, ingest_completes, ingest_fails, get_document_by_source_path,
        complete_job, delete_document_by_source_path,
        fail_job_read, fail_job_commit, worker_dies, worker_restarts,
        tableVars, JobInv, HandsInv, Discarded, SyncInv, SyncTypeOK, TypeOK
    <3>4. ASSUME NEW k \in Jobs, create_ingestion_job(k) PROVE status[j] \in Discarded
      BY <2>5, <3>4 DEF create_ingestion_job, SyncInv, SyncTypeOK, TypeOK
    <3>5. ASSUME NEW r \in Requests, retry_job_commit(r) PROVE status[j] \in Discarded
      BY <2>5, <3>5 DEF retry_job_commit, RetriedAt, SyncInv, SyncTypeOK, TypeOK
    <3>6. ASSUME NEW r \in Requests, NEW k \in Jobs, retry_job_read(r, k)
          PROVE  status[j] \in Discarded
      BY <3>6 DEF retry_job_read, tableVars
    <3>7. ASSUME NEW t \in Runs, enqueue_page(t) PROVE \E k \in Jobs : create_ingestion_job(k)
      BY <3>7 DEF enqueue_page
    <3>8. ASSUME NEW t \in Runs, cleanup_sync_run_commit(t) PROVE status[j] \in Discarded
      BY <3>8 DEF cleanup_sync_run_commit, Discarded
    <3>9. status[j] \in Discarded
      BY <3>3, <3>4, <3>5, <3>6, <3>7, <3>8
      DEF SyncNext, QueueNext, Next, Api, create_sync_run, sync, api_dies,
          list_pages, finish_completed, audit_completed, sync_raises, finish_failed,
          cleanup_sync_run_select, allVars, vars, tableVars
    <3> QED
      BY <2>1, <2>5, <3>1, <3>9 DEF DoomedInv, JobsOf
  <2> QED
    BY <2>4, <2>5, StampStep
<1> QED
  BY <1>1, <1>2

\* The commit turns every job that could still be claimed into a failed one, if
\* it has not been queued anew since the cleanup read it.
LEMMA DoomedAreAll ==
    ASSUME SyncInv, DoomedInv, SyncNext, NEW s \in Runs,
           at[s] = "discard" /\ at'[s] = "done",
           NEW j \in JobsOf(s), status'[j] \in {"queued", "extracting"}
    PROVE  queued_at[j] >= selected_at[s]
<1>1. cleanup_sync_run_commit(s)
  BY DEF SyncNext, create_sync_run, sync, api_dies, list_pages, enqueue_page,
    finish_completed, audit_completed, sync_raises, finish_failed,
    cleanup_sync_run_select, cleanup_sync_run_commit, QueueNext, StepTo, syncVars,
    SyncInv, SyncTypeOK
<1> QED
  BY <1>1 DEF cleanup_sync_run_commit, DoomedInv, JobsOf, Discarded

\* With serial retries no job of the run is left to be claimed when the cleanup
\* commits, however the workers have moved them since it read them, but for one
\* that has been queued anew by a retry.
THEOREM CleanupReachesAll == SerialRetries => (SyncSpec => CleanupStopsRun)
<1> SUFFICES ASSUME SerialRetries PROVE SyncSpec => CleanupStopsRun
  OBVIOUS
<1>1. SyncInit => DoomedInv
  BY DEF SyncInit, DoomedInv
<1>2. SyncInv /\ DoomedInv /\ [SyncNext]_allVars => DoomedInv'
  BY DoomedStep
<1>3. SyncInv /\ DoomedInv /\ [SyncNext]_allVars =>
        [\A s \in Runs :
           at[s] = "discard" /\ at'[s] = "done"
           => \A j \in JobsOf(s) : status'[j] \in {"queued", "extracting"}
                                     => queued_at[j] >= selected_at[s]]_allVars
  BY DoomedAreAll
<1> QED
  BY <1>1, <1>2, <1>3, SyncInvariant, PTL DEF SyncSpec, CleanupStopsRun
=============================================================================
