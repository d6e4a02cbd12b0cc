------------------------------- MODULE SyncRun -------------------------------
(***************************************************************************)
(* A Confluence sync (ConfluenceSyncService.sync) composed with the job    *)
(* queue it feeds.  A run lists the pages of a space, stages one job per   *)
(* page, and marks itself completed; any exception marks it failed and     *)
(* discards what it created, while the workers of JobQueue keep claiming   *)
(* and settling those same jobs.                                           *)
(*                                                                         *)
(* cleanup_sync_run is one transaction without row locks: it reads the     *)
(* run's jobs, and writes the rows it read; workers run in between.        *)
(***************************************************************************)
EXTENDS JobQueue

CONSTANTS
    Runs,        \* sync runs that an admin may trigger
    NoRun,       \* sync_run_id NULL: the job is an upload
    MaxPages,    \* bound: pages in a space
    ApiMayDie    \* whether a sync() call may end without its handler

ASSUME NoRunAssumption == NoRun \notin Runs
ASSUME MaxPagesAssumption == MaxPages \in Nat

VARIABLES
    sync_run_id,   \* ingestion_jobs.sync_run_id
    run_status,    \* sync_runs.status, "none" before the row exists
    at,            \* where each run's sync() call is
    pages,         \* pages_seen, and how many of them are enqueued
    doomed,        \* the rows cleanup_sync_run has read as queued or extracting
    unlinked,      \* the rows it has read with a document_id
    selected_at    \* auxiliary: when it has read them, in ticks of clock

cleanupVars == <<doomed, unlinked, selected_at>>
syncVars    == <<sync_run_id, run_status, at, pages, cleanupVars>>
allVars     == <<vars, syncVars>>

SyncPlaces == {"none", "list", "enqueue", "audit", "failing", "select",
               "discard", "done", "lost"}

RunStatuses == {"none", "running", "completed", "failed"}

SyncTypeOK ==
    /\ TypeOK
    /\ sync_run_id \in [Jobs -> Runs \cup {NoRun}]
    /\ run_status \in [Runs -> RunStatuses]
    /\ at \in [Runs -> SyncPlaces]
    /\ pages \in [Runs -> [seen : 0 .. MaxPages, indexed : 0 .. MaxPages]]
    /\ \A s \in Runs : pages[s].indexed <= pages[s].seen
    /\ doomed \in [Runs -> SUBSET Jobs]
    /\ unlinked \in [Runs -> SUBSET Jobs]
    /\ selected_at \in [Runs -> Nat]

SyncInit ==
    /\ Init
    /\ sync_run_id = [j \in Jobs |-> NoRun]
    /\ run_status = [s \in Runs |-> "none"]
    /\ at = [s \in Runs |-> "none"]
    /\ pages = [s \in Runs |-> [seen |-> 0, indexed |-> 0]]
    /\ doomed = [s \in Runs |-> {}]
    /\ unlinked = [s \in Runs |-> {}]
    /\ selected_at = [s \in Runs |-> 0]

\* Mutant: the cleanup forgets to select by sync_run_id.
JobsOf_All(s) == Jobs

JobsOf(s) == {j \in Jobs : sync_run_id[j] = s}

-----------------------------------------------------------------------------
StepTo(s, place) == at' = [at EXCEPT ![s] = place]

create_sync_run(s) ==
    /\ at[s] = "none"
    /\ run_status' = [run_status EXCEPT ![s] = "running"]
    /\ StepTo(s, "list")
    /\ UNCHANGED <<vars, sync_run_id, pages, cleanupVars>>

list_pages(s) ==
    /\ at[s] = "list"
    /\ \E n \in 0 .. MaxPages : pages' = [pages EXCEPT ![s].seen = n]
    /\ StepTo(s, "enqueue")
    /\ UNCHANGED <<vars, sync_run_id, run_status, cleanupVars>>

\* Mutant: off by one.
PagesLeft_OneMore(s) == pages[s].indexed <= pages[s].seen

PagesLeft(s) == pages[s].indexed < pages[s].seen

enqueue_page(s) ==
    /\ at[s] = "enqueue"
    /\ PagesLeft(s)
    /\ \E j \in Jobs :
         /\ create_ingestion_job(j)
         /\ sync_run_id' = [sync_run_id EXCEPT ![j] = s]
    /\ pages' = [pages EXCEPT ![s].indexed = @ + 1]
    /\ UNCHANGED <<run_status, at, cleanupVars>>

finish_completed(s) ==
    /\ at[s] = "enqueue"
    /\ ~PagesLeft(s)
    /\ run_status' = [run_status EXCEPT ![s] = "completed"]
    /\ StepTo(s, "audit")
    /\ UNCHANGED <<vars, sync_run_id, pages, cleanupVars>>

audit_completed(s) ==
    /\ at[s] = "audit"
    /\ StepTo(s, "done")
    /\ UNCHANGED <<vars, sync_run_id, run_status, pages, cleanupVars>>

\* Any exception inside the try: the bridge, the staging file, the database,
\* or the audit insert that follows a successful finish_sync_run.
sync_raises(s) ==
    /\ at[s] \in {"list", "enqueue", "audit"}
    /\ StepTo(s, "failing")
    /\ UNCHANGED <<vars, sync_run_id, run_status, pages, cleanupVars>>

\* Mutant: the cleanup runs without the failure having been recorded.
finish_failed_Unmarked(s) ==
    /\ at[s] = "failing"
    /\ StepTo(s, "select")
    /\ UNCHANGED <<vars, sync_run_id, run_status, pages, cleanupVars>>

finish_failed(s) ==
    /\ at[s] = "failing"
    /\ run_status' = [run_status EXCEPT ![s] = "failed"]
    /\ StepTo(s, "select")
    /\ UNCHANGED <<vars, sync_run_id, pages, cleanupVars>>

\* Mutant: a job that a worker has already claimed is left to it.
Discarded_QueuedOnly == {"queued"}

\* The statuses that cleanup_sync_run turns into failed.
Discarded == {"queued", "extracting"}

cleanup_sync_run_select(s) ==
    /\ at[s] = "select"
    /\ doomed' = [doomed EXCEPT ![s] =
                    {j \in JobsOf(s) : status[j] \in Discarded}]
    /\ unlinked' = [unlinked EXCEPT ![s] = JobsOf(s) \cap document_id]
    /\ selected_at' = [selected_at EXCEPT ![s] = clock]
    /\ StepTo(s, "discard")
    /\ UNCHANGED <<vars, sync_run_id, run_status, pages>>

\* The updates wait for a claim that holds one of the rows; the delete sets
\* the document_id of the jobs that pointed at the documents to NULL.
cleanup_sync_run_commit(s) ==
    LET gone == unlinked[s] \cap document_id IN
    /\ at[s] = "discard"
    /\ \A j \in doomed[s] : ~Locked(j)
    /\ status' = [j \in Jobs |-> IF j \in doomed[s] THEN "failed" ELSE status[j]]
    /\ documents' = documents \ gone
    /\ document_id' = document_id \ gone
    /\ held' = {w \in held : cur[w] \notin gone}
    /\ StepTo(s, "done")
    /\ UNCHANGED <<attempt, queued_at, clock, pc, cur, verdict, retrying,
                   sync_run_id, run_status, pages, cleanupVars>>

\* The API process dies inside sync(), or a database call outside the try
\* raises (the first audit, or finish_sync_run in the handler of an exception
\* that was the database's own); nothing resumes the run.
api_dies(s) ==
    /\ ApiMayDie
    /\ at[s] \notin {"none", "done", "lost"}
    /\ StepTo(s, "lost")
    /\ UNCHANGED <<vars, sync_run_id, run_status, pages, cleanupVars>>

-----------------------------------------------------------------------------
sync(s) ==
    \/ list_pages(s) \/ enqueue_page(s)
    \/ finish_completed(s) \/ audit_completed(s)
    \/ sync_raises(s) \/ finish_failed(s)
    \/ cleanup_sync_run_select(s) \/ cleanup_sync_run_commit(s)

QueueNext == Next /\ UNCHANGED syncVars

SyncNext ==
    \/ QueueNext
    \/ \E s \in Runs : create_sync_run(s) \/ sync(s) \/ api_dies(s)

SyncSpec == SyncInit /\ [][SyncNext]_allVars

\* The request handler runs on while its process lives, as the workers do.
SyncFairSpec ==
    /\ SyncSpec
    /\ Fairness
    /\ \A s \in Runs : WF_allVars(sync(s))

-----------------------------------------------------------------------------
(* Properties.                                                             *)

Uploads == {j \in Jobs : sync_run_id[j] = NoRun}

\* A sync that fails and cleans up beside them leaves the uploads alone: for
\* them the job table, the documents and the workers agree as if there were
\* no sync.  (cleanup_sync_run selects by sync_run_id.)
UploadsUndisturbed ==
    \A j \in Uploads :
        /\ status[j] = "indexed" => j \in documents /\ j \in document_id
        /\ status[j] \in {"absent", "queued", "failed"} => j \notin documents
        /\ status[j] = "failed" => attempt[j] = MaxAttempts
        /\ Cardinality({w \in Workers : cur[w] = j}) <= 1

\* When cleanup_sync_run commits, none of the run's jobs is left for a worker
\* to claim, however the workers moved them since it read them, but for one that
\* has been queued again since: a failed page that is retried by hand between
\* the two steps.
CleanupStopsRun ==
    [][\A s \in Runs :
         at[s] = "discard" /\ at'[s] = "done"
         => \A j \in JobsOf(s) : status'[j] \in {"queued", "extracting"}
                                   => queued_at[j] >= selected_at[s]]_allVars

\* The document of an indexed page disappears only after its run has been
\* marked failed: the worker of another attempt never deletes it, and sync()
\* reports the failure before it discards.
PagesOutliveAllButFailure ==
    [][\A s \in Runs : \A j \in JobsOf(s) :
         status[j] = "indexed" /\ j \in documents /\ j \notin documents'
         => run_status[s] = "failed"]_allVars

\* Every run that is started ends completed or failed, whichever call raises,
\* unless the call of sync() itself is lost.
EveryRunEnds ==
    \A s \in Runs : run_status[s] = "running" ~>
        run_status[s] \in {"completed", "failed"} \/ at[s] = "lost"

\* "with full cleanup on a failed run": once the cleanup is over, no document
\* of the run is ever found again when no worker is inside one of its jobs.
\* This does not hold: a page that a worker was extracting meanwhile survives.
FailedRunLeavesNothing ==
    \A s \in Runs :
        /\ run_status[s] = "failed" /\ at[s] = "done"
        /\ \A w \in Workers : cur[w] \notin JobsOf(s)
        => JobsOf(s) \cap documents = {}
=============================================================================
