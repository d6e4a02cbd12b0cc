---------------------------- MODULE DirectIngest ----------------------------
(***************************************************************************)
(* Ingestion of a directory as it is: POST /api/v1/ingest and the command  *)
(* line both run IngestionPipeline.ingest in the caller's process, without *)
(* job or worker.  A run loads every supported file below the path, and    *)
(* then takes one file after the other: unchanged ones are skipped, of the *)
(* others the document, the chunk rows and the points are written by three *)
(* calls, each of which commits by itself.                                 *)
(*                                                                         *)
(* The files change at any time, runs may be served at once, every call    *)
(* may raise and the process may die.  As in DocumentVersions, a call that *)
(* reads and then writes is a read step and a commit step.  The records of *)
(* tsx_bridge and of the audit log are left out, and so are unsupported    *)
(* files, which the loader passes over.  A document stands for the text of *)
(* its content hash, and a text has at least one chunk.                    *)
(***************************************************************************)
EXTENDS Naturals, Sequences, FiniteSets, SequencesExt

CONSTANTS
    Paths,      \* the files below the directory, written as their place in
                \* the order that the loader reads them in
    Texts,      \* what files contain, frontmatter taken off
    Runs,       \* ingestion runs
    MaxEdits,   \* bound: how often files are changed
    Missing,    \* no such file, no such document
    Unreadable  \* a file that the loader raises at

ASSUME PathsAssumption == Paths \subseteq Nat /\ {Missing, Unreadable} \cap Texts = {}

VARIABLES
    file,   \* what is on the disk
    edits,  \* how often that has changed
    doc,    \* documents by source_path: the text of the content hash
    rows,   \* chunk rows: the batches that each document has
    points, \* batches whose points are in Qdrant
    run,    \* ingestion_runs.status, and where each run's ingest is
    torn    \* history: the paths whose last change was not one run's alone,
            \* or was not completed by it

storeVars == <<doc, rows, points, torn>>
vars      == <<file, edits, storeVars, run>>

Batch  == [path : Paths, run : Runs, text : Texts]
Status == {"none", "running", "completed", "failed"}
Steps  == {"load", "select", "commit", "delete", "insert", "upsert", "finish"}

DirectTypeOK ==
    /\ file \in [Paths -> Texts \cup {Missing, Unreadable}]
    /\ edits \in 0..MaxEdits
    /\ doc \in [Paths -> Texts \cup {Missing}]
    /\ rows \in [Paths -> SUBSET Batch]
    /\ points \subseteq Batch
    /\ run \in [Runs -> [status : Status, step : Steps, todo : Seq(Paths \X Texts),
                         found : Texts \cup {Missing}, old : SUBSET Batch]]
    /\ torn \subseteq Paths

Unstarted == [status |-> "none", step |-> "load", todo |-> << >>,
              found |-> Missing, old |-> {}]

Init ==
    /\ file \in [Paths -> Texts]
    /\ edits = 0
    /\ doc = [p \in Paths |-> Missing]
    /\ rows = [p \in Paths |-> {}]
    /\ points = {}
    /\ run = [r \in Runs |-> Unstarted]
    /\ torn = {}

-----------------------------------------------------------------------------
\* Somebody writes, damages or removes a file.
edit(p) ==
    /\ edits < MaxEdits
    /\ edits' = edits + 1
    /\ \E f \in (Texts \cup {Missing, Unreadable}) \ {file[p]} :
         file' = [file EXCEPT ![p] = f]
    /\ UNCHANGED <<storeVars, run>>

At(r, steps) == run[r].status = "running" /\ run[r].step \in steps

Path(r) == Head(run[r].todo)[1]
Text(r) == Head(run[r].todo)[2]

Goto(r, step) == run' = [run EXCEPT ![r].step = step]

\* The run is through with its first file: on to the next, or to the end.
NextFile(r) ==
    LET rest == Tail(run[r].todo) IN
    run' = [run EXCEPT ![r].todo = rest, ![r].found = Missing, ![r].old = {},
                       ![r].step = IF rest = << >> THEN "finish" ELSE "select"]

create_ingestion_run(r) ==
    /\ run[r].status = "none"
    /\ run' = [run EXCEPT ![r].status = "running"]
    /\ UNCHANGED <<file, edits, storeVars>>

\* load_documents: all the files below the path, in order, or none of them.
load_documents(r) ==
    LET found == SetToSortSeq({p \in Paths : file[p] # Missing}, <) IN
    /\ At(r, {"load"})
    /\ \A p \in Paths : file[p] # Unreadable
    /\ run' = [run EXCEPT ![r].todo = [i \in DOMAIN found |-> <<found[i], file[found[i]]>>],
                          ![r].step = IF found = << >> THEN "finish" ELSE "select"]
    /\ UNCHANGED <<file, edits, storeVars>>

\* upsert_document reads the row and leaves it if the content hash is the same ...
upsert_document_select(r) ==
    /\ At(r, {"select"})
    /\ \/ /\ doc[Path(r)] = Text(r)
          /\ NextFile(r)
       \/ /\ doc[Path(r)] # Text(r)
          /\ run' = [run EXCEPT ![r].step = "commit", ![r].found = doc[Path(r)]]
    /\ UNCHANGED <<file, edits, storeVars>>

\* Another run has the same path in hand.
Shared(r) ==
    \E s \in Runs \ {r} :
        At(s, {"commit", "delete", "insert", "upsert"}) /\ Path(s) = Path(r)

\* Two runs insert one source_path: the unique constraint refuses the later.
Conflict(r) == run[r].found = Missing /\ doc[Path(r)] # Missing

\* ... or inserts or overwrites it.
upsert_document_commit(r) ==
    /\ At(r, {"commit"}) /\ ~Conflict(r)
    /\ doc' = [doc EXCEPT ![Path(r)] = Text(r)]
    /\ torn' = IF Shared(r) THEN torn \cup {Path(r)} ELSE torn \ {Path(r)}
    /\ Goto(r, "delete")
    /\ UNCHANGED <<file, edits, rows, points>>

\* The DELETE of replace_chunks takes the rows that it sees.
replace_chunks_delete(r) ==
    /\ At(r, {"delete"})
    /\ run' = [run EXCEPT ![r].old = rows[Path(r)], ![r].step = "insert"]
    /\ UNCHANGED <<file, edits, storeVars>>

BatchOf(r) == [path |-> Path(r), run |-> r, text |-> Text(r)]

\* Every batch starts at chunk_index 0, so the unique constraint on document and
\* index refuses the INSERT beside rows that the DELETE has not seen: the run
\* then fails.
replace_chunks_commit(r) ==
    /\ At(r, {"insert"})
    /\ rows[Path(r)] \subseteq run[r].old
    /\ rows' = [rows EXCEPT ![Path(r)] = {BatchOf(r)}]
    /\ Goto(r, "upsert")
    /\ UNCHANGED <<file, edits, doc, points, torn>>

\* Mutant: a path that has points already is taken to be done.
upsert_chunks_Once(r) ==
    /\ At(r, {"upsert"})
    /\ points' = IF \E b \in points : b.path = Path(r) THEN points
                 ELSE points \cup {BatchOf(r)}
    /\ NextFile(r)
    /\ UNCHANGED <<file, edits, doc, rows, torn>>

upsert_chunks(r) ==
    /\ At(r, {"upsert"})
    /\ points' = points \cup {BatchOf(r)}
    /\ NextFile(r)
    /\ UNCHANGED <<file, edits, doc, rows, torn>>

finish_ingestion_run(r) ==
    /\ At(r, {"finish"})
    /\ run' = [run EXCEPT ![r].status = "completed"]
    /\ UNCHANGED <<file, edits, storeVars>>

\* Whatever raises in ingest, the run is finished as failed, even if it is the
\* audit record of a run that is completed; the files before stay indexed,
\* those after it stay as they were.  A process that dies leaves the stores
\* just as one that raises; only its run stays "running".
ingest_fails(r) ==
    /\ run[r].status \in {"running", "completed"}
    /\ run' = [run EXCEPT ![r] = [Unstarted EXCEPT !.status = "failed"]]
    /\ torn' = IF At(r, {"delete", "insert", "upsert"}) THEN torn \cup {Path(r)} ELSE torn
    /\ UNCHANGED <<file, edits, doc, rows, points>>

ingest(r) ==
    \/ create_ingestion_run(r) \/ load_documents(r)
    \/ upsert_document_select(r) \/ upsert_document_commit(r)
    \/ replace_chunks_delete(r) \/ replace_chunks_commit(r)
    \/ upsert_chunks(r) \/ finish_ingestion_run(r) \/ ingest_fails(r)

Next == (\E p \in Paths : edit(p)) \/ (\E r \in Runs : ingest(r))

Spec == Init /\ [][Next]_vars

-----------------------------------------------------------------------------
(* Properties.                                                             *)

\* A later scan skips a document whose content hash is that of its file, so
\* the hash must not promise more than there is: unless a run is in the middle
\* of the path, or the last change of it was cut short or shared by two runs,
\* its chunk rows are those of one run, of the text of the hash, and their
\* points are in Qdrant.
HashIsIndexed ==
    \A p \in Paths :
        \/ doc[p] = Missing
        \/ p \in torn
        \/ \E r \in Runs : At(r, {"delete", "insert", "upsert"}) /\ Path(r) = p
        \/ \E b \in points : rows[p] = {b} /\ b.text = doc[p]
=============================================================================
