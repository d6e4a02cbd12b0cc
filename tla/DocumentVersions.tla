-------------------------- MODULE DocumentVersions --------------------------
(***************************************************************************)
(* New versions of an existing document: the part of run_once and          *)
(* pipeline.ingest that a job with target_document_id takes, the read-     *)
(* confirmation (ack) of the document, and what search can find of it.     *)
(* The claim, the settling and the retry of the job are JobQueue's.        *)
(*                                                                         *)
(* One document is modelled.  Each job uploads another content, written as *)
(* the job that staged it; Original is the content of the first version.   *)
(* JobQueue's variable documents is here the set of jobs whose staged path *)
(* is the document's current source_path: at most one.                     *)
(*                                                                         *)
(* The repository methods read the row, compute, and flush without a lock. *)
(* SQLAlchemy writes only the columns whose value differs from the loaded  *)
(* one, so each is a read step and a commit step joined by Flush.          *)
(***************************************************************************)
EXTENDS JobQueue

CONSTANTS
    Original,     \* the content of version 1, indexed by an earlier upload
    Acks,         \* ack requests that the API may be serving at one time
    LoadMayFail,  \* whether the loader may fail on a staged file
    IndexMayFail, \* whether chunking, embedding or Qdrant may fail after it
    None          \* nothing read yet

ASSUME OriginalAssumption == Original \notin Jobs
ASSUME ActorsAssumption == Workers \cap Acks = {}

VARIABLES
    row,        \* documents: [version, path, acked] of the document
    snapshots,  \* document_versions: the same columns of earlier versions
    chunks,     \* the batch of chunk rows the document has
    hidden,     \* batches whose points are in Qdrant with published = false
    published,  \* batches whose points are in Qdrant with published = true
    loaded,     \* what each worker's open transaction, or ack, has read
    acking      \* the batch each ack request is going to publish

versionVars == <<row, snapshots, chunks, hidden, published, loaded, acking>>
allVars     == <<vars, versionVars>>

Contents == Jobs \cup {Original}
Row      == [version : Nat \ {0}, path : Contents, acked : BOOLEAN]
Batch    == [path : Contents, queued_at : Nat, attempt : Nat]
Pending  == [row : Row, snapshot : Row]
Actors   == Workers \cup Acks

ASSUME NoneAssumption == None \notin Row \cup Pending \cup Batch

\* Mutant: versions counted from zero.
First_Zero == [version |-> 0, path |-> Original, acked |-> FALSE]

First == [version |-> 1, path |-> Original, acked |-> FALSE]

VersionTypeOK ==
    /\ row \in Row
    /\ snapshots \subseteq Row
    /\ chunks \in Batch
    /\ hidden \subseteq Batch /\ published \subseteq Batch
    /\ \A x \in Actors : loaded[x] = None \/ loaded[x] \in Row
                         \/ loaded[x] \in Pending
    /\ acking \in [Acks -> Batch \cup {None}]
    /\ documents = {row.path} \cap Jobs

VersionInit ==
    /\ Init
    /\ row = First
    /\ snapshots = {}
    /\ chunks = [path |-> Original, queued_at |-> 0, attempt |-> 1]
    /\ hidden = {chunks}
    /\ published = {}
    /\ loaded = [x \in Actors |-> None]
    /\ acking = [a \in Acks |-> None]

\* The row after a transaction that loaded one row and assigned another:
\* columns assigned their loaded value are not in the UPDATE.
Flush(old, new) ==
    [c \in DOMAIN row |-> IF new[c] = old[c] THEN row[c] ELSE new[c]]

WriteRow(old, new) ==
    /\ row' = Flush(old, new)
    /\ documents' = {row'.path} \cap Jobs

Load(x, value) == loaded' = [loaded EXCEPT ![x] = value]

\* Each attempt of each submission has chunk ids of its own.
BatchOf(w) ==
    [path |-> cur[w], queued_at |-> queued_at[cur[w]], attempt |-> attempt[cur[w]]]

-----------------------------------------------------------------------------
(* pipeline.ingest and run_once for a job with a target document.          *)

load_fails(w) ==
    /\ LoadMayFail
    /\ pc[w] = "load" /\ loaded[w] = None
    /\ Goto(w, "discard")
    /\ UNCHANGED <<tableVars, docVars, cur, held, verdict, retrying, versionVars>>

upsert_document_version_read(w) ==
    /\ pc[w] = "load" /\ loaded[w] = None
    /\ Load(w, row)
    /\ UNCHANGED <<vars, row, snapshots, chunks, hidden, published, acking>>

\* Mutant: the version number is left as it was.
NextVersion_Uncounted(old, j) ==
    [version |-> old.version, path |-> j, acked |-> FALSE]

NextVersion(old, j) ==
    [version |-> old.version + 1, path |-> j, acked |-> FALSE]

\* Mutant: the row is overwritten without a snapshot.
Archive_Skipped(old) == UNCHANGED snapshots

Archive(old) == snapshots' = snapshots \cup {old}

\* Snapshot the row that was read, overwrite it and clear the ack.  A second
\* snapshot of one version violates uq(document_id, version_number).
upsert_document_version_commit(w) ==
    LET old == loaded[w] IN
    /\ pc[w] = "load" /\ old # None
    /\ \/ /\ \A s \in snapshots : s.version # old.version
          /\ Archive(old)
          /\ WriteRow(old, NextVersion(old, cur[w]))
          /\ Goto(w, "index")
       \/ /\ \E s \in snapshots : s.version = old.version
          /\ Goto(w, "discard")
          /\ UNCHANGED <<documents, row, snapshots>>
    /\ Load(w, None)
    /\ UNCHANGED <<tableVars, document_id, cur, held, verdict, retrying,
                   chunks, hidden, published, acking>>

\* Mutant: the rows of the version before are taken for those of this one.
replace_chunks_Kept(w) ==
    /\ pc[w] = "index"
    /\ Goto(w, "embed")
    /\ UNCHANGED <<tableVars, docVars, cur, held, verdict, retrying, versionVars>>

\* Deletes the document's chunk rows and inserts those of this attempt.
replace_chunks(w) ==
    /\ pc[w] = "index"
    /\ chunks' = BatchOf(w)
    /\ Goto(w, "embed")
    /\ UNCHANGED <<tableVars, docVars, cur, held, verdict, retrying,
                   row, snapshots, hidden, published, loaded, acking>>

\* New points are unpublished; the points of replaced chunks stay in Qdrant.
upsert_chunks(w) ==
    /\ pc[w] = "embed"
    /\ hidden' = hidden \cup {BatchOf(w)}
    /\ \E place \in {"lookup"} \cup (IF IndexMayFail THEN {"discard"} ELSE {}) :
         Goto(w, place)
    /\ UNCHANGED <<tableVars, docVars, cur, held, verdict, retrying,
                   row, snapshots, chunks, published, loaded, acking>>

index_fails(w) ==
    /\ IndexMayFail
    /\ pc[w] \in {"index", "embed"}
    /\ Goto(w, "discard")
    /\ UNCHANGED <<tableVars, docVars, cur, held, verdict, retrying, versionVars>>

\* Returns early at version 1 or without the snapshot it looks for.
rollback_failed_version_read(w) ==
    LET previous == {s \in snapshots : s.version = row.version - 1} IN
    /\ pc[w] = "discard"
    /\ \/ /\ previous = {}
          /\ Goto(w, "fail")
          /\ UNCHANGED loaded
       \/ \E s \in previous :
             /\ Load(w, [row |-> row, snapshot |-> s])
             /\ Goto(w, "rollback")
    /\ UNCHANGED <<tableVars, docVars, cur, held, verdict, retrying,
                   row, snapshots, chunks, hidden, published, acking>>

rollback_failed_version_commit(w) ==
    /\ pc[w] = "rollback"
    /\ WriteRow(loaded[w].row, loaded[w].snapshot)
    /\ snapshots' = snapshots \ {loaded[w].snapshot}
    /\ Load(w, None)
    /\ Goto(w, "fail")
    /\ UNCHANGED <<tableVars, document_id, cur, held, verdict, retrying,
                   chunks, hidden, published, acking>>

VersionWorker(w) ==
    \/ load_fails(w) \/ index_fails(w)
    \/ upsert_document_version_read(w) \/ upsert_document_version_commit(w)
    \/ replace_chunks(w) \/ upsert_chunks(w)
    \/ rollback_failed_version_read(w) \/ rollback_failed_version_commit(w)
    \/ /\ \/ claim_next_job_select(w) \/ claim_next_job_commit(w)
          \/ get_document_by_source_path(w)
          \/ complete_job(w) \/ worker_restarts(w)
          \/ fail_job_read(w) \/ fail_job_commit(w)
       /\ UNCHANGED versionVars
    \/ /\ worker_dies(w)
       /\ Load(w, None)
       /\ UNCHANGED <<row, snapshots, chunks, hidden, published, acking>>

-----------------------------------------------------------------------------
(* AckService.ack: one transaction, then the payload of the points.        *)

ack_document_read(a) ==
    /\ loaded[a] = None /\ acking[a] = None
    /\ ~row.acked
    /\ Load(a, row)
    /\ UNCHANGED <<vars, row, snapshots, chunks, hidden, published, acking>>

\* The chunk ids are selected after the flush, from the rows of that moment.
ack_document_commit(a) ==
    /\ loaded[a] # None
    /\ WriteRow(loaded[a], [loaded[a] EXCEPT !.acked = TRUE])
    /\ Load(a, None)
    /\ acking' = [acking EXCEPT ![a] = chunks]
    /\ UNCHANGED <<tableVars, document_id, workerVars, retrying,
                   snapshots, chunks, hidden, published>>

\* set_payload changes the points that exist; a chunk without one stays out.
set_payload(a) ==
    /\ acking[a] # None
    /\ published' = published \cup ({acking[a]} \cap hidden)
    /\ hidden' = hidden \ {acking[a]}
    /\ acking' = [acking EXCEPT ![a] = None]
    /\ UNCHANGED <<vars, row, snapshots, chunks, loaded>>

ack(a) == ack_document_read(a) \/ ack_document_commit(a) \/ set_payload(a)

-----------------------------------------------------------------------------
VersionNext ==
    \/ Api /\ UNCHANGED versionVars
    \/ \E w \in Workers : VersionWorker(w)
    \/ \E a \in Acks : ack(a)

VersionSpec == VersionInit /\ [][VersionNext]_allVars

-----------------------------------------------------------------------------
(* Properties.                                                             *)

History == snapshots \cup {row}

\* The history is what the versions page shows: the numbers 1 to
\* current_version, each once and each of another upload, however many
\* attempts have failed and been rolled back on the way.
HistoryIsLinear ==
    /\ {s.version : s \in History} = 1 .. row.version
    /\ \A s, t \in History : s.version = t.version \/ s.path = t.path => s = t

\* "it may have earlier, successfully-indexed history" (run_once, on rolling
\* back instead of deleting): a version that was indexed stays in the history.
IndexedVersionKept ==
    \A j \in Jobs : status[j] = "indexed" => \E s \in History : s.path = j

\* The only step that may drop a version that was indexed is the rollback of an
\* attempt that never got to write the row.  (The snapshot it pops is then not
\* "taken moments ago", as run_once assumes.)
OnlyUnwrittenRollbackForgets ==
    [][\A j \in Jobs :
         /\ status[j] = "indexed"
         /\ \E s \in History : s.path = j
         /\ \A s \in History' : s.path # j
         => \E w \in Workers : pc[w] = "rollback" /\ cur[w] # row.path]_allVars

Quiet ==
    /\ \A w \in Workers : pc[w] = "idle"
    /\ \A a \in Acks : loaded[a] = None /\ acking[a] = None

\* When nothing is in flight and no worker has died over a job, the chunk rows
\* are not those of a version that the history shows as superseded.  (Those of
\* a failed attempt they may be: the rollback restores the row only.)
ChunksNotSuperseded ==
    Quiet /\ (\A j \in Jobs : status[j] # "extracting")
    => \A s \in snapshots : chunks.path # s.path

\* "this gate flips a chunk's published payload flag so it starts showing up
\* in search" (AckService): an acked document can be found when nothing is in
\* flight.  This does not hold: an ack may come before the points.
AckedIsSearchable == Quiet /\ row.acked => chunks \in published

=============================================================================
