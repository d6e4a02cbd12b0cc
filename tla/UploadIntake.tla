---------------------------- MODULE UploadIntake ----------------------------
(***************************************************************************)
(* UploadService.accept: a request with a batch of files, each of which is *)
(* rejected, reported as a duplicate, or staged and made a job.  What then *)
(* becomes of a job of a new upload is what JobPromise says, which         *)
(* JobQueue implements; a job with a target document, whose worker part is *)
(* in DocumentVersions, is reduced here to what it does to the content of  *)
(* its target: one version of a document is under way at a time.           *)
(*                                                                         *)
(* Requests are served at once, each file of a batch by the calls of its   *)
(* own: the duplicate test reads, and the job is inserted later.  The size *)
(* limits and the access tests of the request are left out, but for what   *)
(* they come to: a file is rejected, a request refused.  A document is     *)
(* written as the job that created it.  A target is the document of an     *)
(* indexed job, or the page of a sync run that may still fail and take its *)
(* pages away, though not in the middle of a version.                      *)
(***************************************************************************)
EXTENDS Naturals, Sequences, FiniteSets, SequencesExt

CONSTANTS
    Uploads,     \* upload requests
    Contents,    \* file contents, written for their raw SHA-256
    Refused,     \* a file of an unsupported type, empty, or too large
    MaxFiles,    \* settings.upload_max_files_per_batch
    MaxAttempts, \* settings.ingestion_job_max_attempts
    MaxTaken,    \* bound: how many files are uploaded altogether
    MaxRetries,  \* bound: how often failed jobs are retried
    Page,        \* the document of a sync run under way, whose job has no hash
    None,        \* no target, no job found, no content
    Nothing      \* no version is under way

Jobs      == Uploads \X (1..MaxFiles)
Documents == Jobs \cup {Page}

ASSUME IntakeAssumption ==
    /\ MaxFiles \in Nat \ {0} /\ Refused \notin Contents /\ None \notin Contents \cup Jobs
    /\ Page \notin Jobs \cup {None} /\ Nothing \notin Contents \cup {None}

VARIABLES
    request,  \* the step of each request, its files and target, the file in
              \* hand, the job the duplicate test found, and the history
              \* known: the contents that were indexed when it came in, if
              \* it was to be tested for duplicates
    phase, tries, stored, \* the jobs and their documents, as in JobPromise
    finished, \* the indexed jobs in the order of finished_at
    pages,    \* the page, while it is there
    gone,     \* history: the contents of the versions that the page took
              \* with it
    current,  \* the content that each document has, None without a hash
    before,   \* the content to go back to while a version is under way
    notices,  \* duplicate notices sent: a content and a document
    retries   \* how often jobs were retried

Promise == INSTANCE JobPromise

promiseVars  == <<phase, tries, stored>>
documentVars == <<current, before, finished, pages, gone>>
vars         == <<request, promiseVars, documentVars, notices, retries>>

Request == [step : {"none", "file", "document", "create", "ended"},
            files : Seq(Contents \cup {Refused}), target : Jobs \cup {Page, None},
            at : Nat, found : Jobs \cup {None}, known : SUBSET Contents]

raw_content_hash(j) == request[j[1]].files[j[2]]
target_document_id(j) == request[j[1]].target
document_id(j) == IF target_document_id(j) = None THEN j ELSE target_document_id(j)

\* A DuplicateNotice: the content and the document that has it already.
Notice == Contents \X Documents

IntakeTypeOK ==
    /\ request \in [Uploads -> Request]
    /\ stored \subseteq Jobs /\ ToSet(finished) \subseteq Jobs
    /\ pages \subseteq {Page} /\ gone \subseteq Contents
    /\ current \in [Documents -> Contents \cup {None}]
    /\ before \in [Documents -> Contents \cup {None, Nothing}]
    /\ notices \subseteq Notice
    /\ retries \in 0..MaxRetries

Init ==
    /\ Promise!Init
    /\ request = [u \in Uploads |-> [step |-> "none", files |-> << >>, target |-> None,
                                     at |-> 1, found |-> None, known |-> {}]]
    /\ finished = << >> /\ notices = {} /\ retries = 0
    /\ pages = {Page} /\ gone = {}
    /\ current = [d \in Documents |-> None] /\ before = [d \in Documents |-> Nothing]

-----------------------------------------------------------------------------
(* The request.                                                            *)

Indexed(c) == {j \in ToSet(finished) : raw_content_hash(j) = c}

\* The files that the requests so far came with.
Taken == SumFunction([u \in Uploads |-> Len(request[u].files)])

\* The batch as a whole: a target goes with a single file.
accept(u) ==
    /\ request[u].step = "none"
    /\ \E n \in 1..MaxFiles : \E files \in [1..n -> Contents \cup {Refused}] :
       \E target \in {document_id(j) : j \in ToSet(finished)} \cup pages \cup {None} :
           /\ Taken + n <= MaxTaken
           /\ target # None => n = 1 /\ target \in stored \cup pages
           /\ request' = [request EXCEPT ![u] =
                [step |-> "file", files |-> files, target |-> target, at |-> 1,
                 found |-> None, known |-> IF target = None THEN {c \in Contents : Indexed(c) # {}} ELSE {}]]
    /\ UNCHANGED <<promiseVars, documentVars, notices, retries>>

At(u, step) == request[u].step = step
File(u)     == request[u].files[request[u].at]

\* On with the next file, or the response.
NextFile(u) ==
    request' = [request EXCEPT
        ![u].at    = @ + 1,
        ![u].found = None,
        ![u].step  = IF request[u].at = Len(request[u].files) THEN "ended" ELSE "file"]

reject(u) ==
    /\ At(u, "file") /\ File(u) = Refused
    /\ NextFile(u)
    /\ UNCHANGED <<promiseVars, documentVars, notices, retries>>

Newest(jobs) ==
    LET places == {i \in DOMAIN finished : finished[i] \in jobs} IN
    IF places = {} THEN None ELSE finished[Max(places)]

\* Mutant: jobs that made a new version are not looked at.
find_indexed_job_Fresh(c) == Newest({j \in Indexed(c) : target_document_id(j) = None})

\* Mutant: contents that their document no longer has are not looked at.
find_indexed_job_Current(c) == Newest({j \in Indexed(c) : current[document_id(j)] = c})

\* The job of this content that was indexed last.
find_indexed_job(c) == Newest(Indexed(c))

\* A file to be taken: without a target, the duplicate test comes first.
find_indexed_job_by_raw_hash(u) ==
    /\ At(u, "file") /\ File(u) # Refused
    /\ LET found == IF request[u].target = None THEN find_indexed_job(File(u)) ELSE None IN
       request' = [request EXCEPT ![u].found = found,
                                  ![u].step = IF found = None THEN "create" ELSE "document"]
    /\ UNCHANGED <<promiseVars, documentVars, notices, retries>>

\* The document of the job found, if it is there: a notice, and no job.
get_document(u) ==
    LET document == document_id(request[u].found) IN
    /\ At(u, "document")
    /\ \/ /\ document \in stored \cup pages
          /\ notices' = notices \cup {<<File(u), document>>}
          /\ NextFile(u)
       \/ /\ document \notin stored \cup pages
          /\ request' = [request EXCEPT ![u].step = "create"]
          /\ UNCHANGED notices
    /\ UNCHANGED <<promiseVars, documentVars, retries>>

\* The file is staged and its job inserted.
create_ingestion_job(u) ==
    /\ At(u, "create")
    /\ Promise!Submit(<<u, request[u].at>>)
    /\ NextFile(u)
    /\ UNCHANGED <<documentVars, notices, retries>>

\* Staging or a call raises, or the process dies: the jobs of the files
\* before stay, the caller learns of none of them.
accept_raises(u) ==
    /\ request[u].step \in {"file", "document", "create"}
    /\ request' = [request EXCEPT ![u].step = "ended", ![u].found = None]
    /\ UNCHANGED <<promiseVars, documentVars, notices, retries>>

-----------------------------------------------------------------------------
(* The jobs.  A new upload's, step by step as JobPromise has it ...        *)

Fresh(j) == phase[j] # "none" /\ target_document_id(j) = None

job_works(j) ==
    /\ Fresh(j)
    /\ Promise!Try(j) \/ Promise!Store(j) \/ Promise!GiveUp(j)
    /\ current' = [current EXCEPT ![j] = IF j \in stored' THEN raw_content_hash(j) ELSE None]
    /\ UNCHANGED <<request, before, finished, pages, gone, notices, retries>>

complete_job(j) ==
    /\ Fresh(j)
    /\ Promise!Index(j)
    /\ finished' = Append(finished, j)
    /\ UNCHANGED <<request, current, before, pages, gone, notices, retries>>

\* ... a failed job's again, without another duplicate test ...
retry_job(j) ==
    /\ phase[j] = "failed"
    /\ retries < MaxRetries
    /\ retries' = retries + 1
    /\ Promise!Submit(j)
    /\ UNCHANGED <<request, documentVars, notices>>

\* ... and a new version's, which overwrites its target and is then indexed,
\* or fails for good and gives the target its content back.
Versioning(j) == phase[j] = "pending" /\ target_document_id(j) # None

upsert_document_version(j) ==
    LET d == target_document_id(j) IN
    /\ Versioning(j) /\ tries[j] = 0
    /\ before[d] = Nothing
    /\ before' = [before EXCEPT ![d] = current[d]]
    /\ current' = [current EXCEPT ![d] = raw_content_hash(j)]
    /\ tries' = [tries EXCEPT ![j] = 1]
    /\ UNCHANGED <<request, phase, stored, finished, pages, gone, notices, retries>>

version_settles(j) ==
    LET d == target_document_id(j) IN
    /\ Versioning(j) /\ tries[j] = 1
    /\ \/ /\ phase' = [phase EXCEPT ![j] = "indexed"]
          /\ finished' = Append(finished, j)
          /\ UNCHANGED current
       \/ /\ phase' = [phase EXCEPT ![j] = "failed"]
          /\ current' = [current EXCEPT ![d] = before[d]]
          /\ UNCHANGED finished
    /\ before' = [before EXCEPT ![d] = Nothing]
    /\ UNCHANGED <<request, pages, gone, tries, stored, notices, retries>>

\* The sync run fails and takes its page away: document_id and target of the
\* jobs that made versions of it become NULL, and one that has not run yet is
\* a new upload from now on.
cleanup_sync_run ==
    /\ pages # {} /\ before[Page] = Nothing
    /\ pages' = {}
    /\ gone' = {raw_content_hash(j) : j \in {k \in ToSet(finished) : document_id(k) = Page}}
    /\ current' = [current EXCEPT ![Page] = None]
    /\ request' = [u \in Uploads |->
         IF request[u].target = Page
         THEN [request[u] EXCEPT !.target = None,
                                 !.step = IF request[u].step \in {"file", "create"} THEN "ended" ELSE @]
         ELSE request[u]]
    /\ UNCHANGED <<promiseVars, before, finished, notices, retries>>

Serve(u) ==
    \/ accept(u) \/ reject(u) \/ find_indexed_job_by_raw_hash(u)
    \/ get_document(u) \/ create_ingestion_job(u) \/ accept_raises(u)

Work(j) ==
    \/ job_works(j) \/ complete_job(j) \/ retry_job(j)
    \/ upsert_document_version(j) \/ version_settles(j)

Next == cleanup_sync_run \/ (\E u \in Uploads : Serve(u)) \/ (\E j \in Jobs : Work(j))

Spec == Init /\ [][Next]_vars

-----------------------------------------------------------------------------
(* Properties.                                                             *)

\* A content that had been indexed when a request came in is not made a
\* document by that request: not by a later file of the batch, nor when a job
\* is retried, nor when the document has got another content since.  Only a
\* version that has lost its document can hide the older job of its content.
NoLateDuplicate ==
    \A j \in stored : raw_content_hash(j) \in request[j[1]].known
                      => raw_content_hash(j) \in gone

\* What the library holds, the duplicate test finds: the content of each
\* indexed document, whether its upload, a new version or a failed version's
\* undoing brought it there, leads to a document that is there.
HeldIsFound ==
    \A d \in {j \in stored : phase[j] = "indexed"} \cup pages :
        before[d] = Nothing /\ current[d] \notin gone \cup {None}
        => LET job == find_indexed_job(current[d]) IN
           job # None /\ document_id(job) \in stored \cup pages
=============================================================================
