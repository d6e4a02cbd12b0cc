---------------------------- MODULE IngestProofs ----------------------------
(* What holds of the two halves of an ingestion.  Of DirectIngest, for any *)
(* files, texts and number of runs that overlap and fail anywhere: a       *)
(* content hash stands for what is indexed.  Of Chunker, for any document, *)
(* chunk size and overlap: chunks have all of the text, and each one has   *)
(* the headings its text is under.  The two share no state.                *)
EXTENDS DirectIngest, Chunker, FiniteSetTheorems, WellFoundedInduction, TLAPS

-----------------------------------------------------------------------------
(* Direct ingestion.                                                       *)

\* Run r has written the document of path p, and not yet all that goes with it.
Busy(r, p) == At(r, {"delete", "insert", "upsert"}) /\ Path(r) = p

\* What a run keeps.
IsRun(x) == x = [f \in {"status", "step", "todo", "found", "old"} |-> x[f]]

\* The tables are functions, and what a run keeps is a record.
Shape ==
    /\ doc = [p \in Paths |-> doc[p]]
    /\ rows = [p \in Paths |-> rows[p]]
    /\ run = [r \in Runs |-> run[r]]
    /\ \A r \in Runs : IsRun(run[r])

\* At most one run writes a path, and the row's hash is that of its text ...
OneWriter(p) ==
    \A r \in Runs : Busy(r, p) =>
        /\ \A s \in Runs : Busy(s, p) => s = r
        /\ doc[p] = Text(r)

\* ... whose DELETE has seen all the rows there are, so that its own remain.
OwnRows(p) ==
    \A r \in Runs : Busy(r, p) =>
        /\ run[r].step = "insert" => run[r].old = rows[p]
        /\ run[r].step = "upsert" => rows[p] = {BatchOf(r)}

\* The document is indexed as its hash says, or about to be.
Settled(p) ==
    \/ doc[p] = Missing
    \/ \E r \in Runs : Busy(r, p)
    \/ \E b \in points : rows[p] = {b} /\ b.text = doc[p]

\* Unless its last change was cut short or shared.
PathInv(p) ==
    \/ p \in torn
    \/ OneWriter(p) /\ OwnRows(p) /\ Settled(p)

\* A run that has not been started has no file in hand.
FreshRuns == \A r \in Runs : run[r].status = "none" => run[r].step = "load"

IInv == Shape /\ FreshRuns /\ \A p \in Paths : PathInv(p)

-----------------------------------------------------------------------------
\* No path has a document before the first run.
LEMMA InitInv == Init => IInv
<1> SUFFICES ASSUME Init PROVE IInv
  OBVIOUS
<1>1. Shape
  <2>1. IsRun(Unstarted)
    BY DEF Unstarted, IsRun
  <2> QED
    BY <2>1 DEF Init, Shape
<1>2. ASSUME NEW p \in Paths PROVE PathInv(p)
  BY DEF Init, Unstarted, PathInv, OneWriter, OwnRows, Settled, Busy, At
<1>3. FreshRuns
  BY DEF Init, Unstarted, FreshRuns
<1> QED
  BY <1>1, <1>2, <1>3 DEF IInv

\* A new record of one run in place of its old one.
LEMMA PutRun ==
    ASSUME Shape, NEW r \in Runs, NEW x, IsRun(x), run' = [run EXCEPT ![r] = x],
           doc' = [p \in Paths |-> doc'[p]], rows' = [p \in Paths |-> rows'[p]]
    PROVE  Shape'
<1>1. \A s \in Runs : IsRun(run'[s])
  BY DEF Shape, IsRun
<1>2. run' = [s \in Runs |-> run'[s]]
  BY DEF Shape
<1> QED
  BY <1>1, <1>2 DEF Shape, IsRun

\* What a run keeps stays a record whatever its step.
LEMMA ShapeKept == Shape /\ [Next]_vars => Shape'
<1> SUFFICES ASSUME Shape, [Next]_vars PROVE Shape'
  OBVIOUS
<1>1. ASSUME NEW r \in Runs, ingest(r) PROVE Shape'
  <2>1. doc' = [p \in Paths |-> doc'[p]] /\ rows' = [p \in Paths |-> rows'[p]]
    BY <1>1 DEF ingest, create_ingestion_run, load_documents, upsert_document_select,
      upsert_document_commit, replace_chunks_delete, replace_chunks_commit, upsert_chunks,
      finish_ingestion_run, ingest_fails, storeVars, Shape
  <2>2. IsRun(run[r])
    BY DEF Shape
  <2>3. ASSUME NEW step, Goto(r, step) PROVE Shape'
    <3>1. run' = [run EXCEPT ![r] = [run[r] EXCEPT !.step = step]]
      BY <2>3 DEF Goto
    <3>2. IsRun([run[r] EXCEPT !.step = step])
      BY <2>2 DEF IsRun
    <3> QED
      BY <2>1, <3>1, <3>2, PutRun
  <2>4. ASSUME NextFile(r) PROVE Shape'
    <3> DEFINE rest == Tail(run[r].todo)
               step == IF rest = << >> THEN "finish" ELSE "select"
               x == [run[r] EXCEPT !.todo = rest, !.found = Missing, !.old = {}, !.step = step]
    <3>1. run' = [run EXCEPT ![r] = x]
      BY <2>4 DEF NextFile
    <3> HIDE DEF rest, step
    <3>2. IsRun(x)
      BY <2>2 DEF IsRun
    <3> QED
      BY <2>1, <3>1, <3>2, PutRun
  <2>5. CASE load_documents(r)
    <3>1. PICK todo, step :
            run' = [run EXCEPT ![r] = [run[r] EXCEPT !.todo = todo, !.step = step]]
      BY <2>5 DEF load_documents
    <3>2. IsRun([run[r] EXCEPT !.todo = todo, !.step = step])
      BY <2>2 DEF IsRun
    <3> QED
      BY <2>1, <3>1, <3>2, PutRun
  <2>6. CASE upsert_document_select(r)
    <3>1. CASE run' = [run EXCEPT ![r].step = "commit", ![r].found = doc[Path(r)]]
      <4>1. run' = [run EXCEPT ![r] = [run[r] EXCEPT !.step = "commit", !.found = doc[Path(r)]]]
        BY <3>1
      <4>2. IsRun([run[r] EXCEPT !.step = "commit", !.found = doc[Path(r)]])
        BY <2>2 DEF IsRun
      <4> QED
        BY <2>1, <4>1, <4>2, PutRun
    <3> QED
      BY <2>4, <2>6, <3>1 DEF upsert_document_select
  <2>7. CASE replace_chunks_delete(r)
    <3>1. run' = [run EXCEPT ![r] = [run[r] EXCEPT !.old = rows[Path(r)], !.step = "insert"]]
      BY <2>7 DEF replace_chunks_delete
    <3>2. IsRun([run[r] EXCEPT !.old = rows[Path(r)], !.step = "insert"])
      BY <2>2 DEF IsRun
    <3> QED
      BY <2>1, <3>1, <3>2, PutRun
  <2>8. CASE create_ingestion_run(r) \/ finish_ingestion_run(r)
    <3>1. PICK status : run' = [run EXCEPT ![r] = [run[r] EXCEPT !.status = status]]
      BY <2>8 DEF create_ingestion_run, finish_ingestion_run
    <3>2. IsRun([run[r] EXCEPT !.status = status])
      BY <2>2 DEF IsRun
    <3> QED
      BY <2>1, <3>1, <3>2, PutRun
  <2>9. CASE ingest_fails(r)
    <3>1. IsRun([Unstarted EXCEPT !.status = "failed"])
      BY DEF Unstarted, IsRun
    <3> QED
      BY <2>1, <2>9, <3>1, PutRun DEF ingest_fails
  <2> QED
    BY <1>1, <2>3, <2>4, <2>5, <2>6, <2>7, <2>8, <2>9
    DEF ingest, upsert_document_commit, replace_chunks_commit, upsert_chunks
<1>2. ASSUME NEW p \in Paths, edit(p) PROVE Shape'
  BY <1>2 DEF edit, storeVars, Shape
<1>3. CASE UNCHANGED vars
  BY <1>3 DEF vars, storeVars, Shape
<1> QED
  BY <1>1, <1>2, <1>3 DEF Next

\* A step of one run leaves the places of the others alone.
LEMMA OthersStay ==
    ASSUME Shape, NEW r \in Runs, ingest(r), NEW s \in Runs, s # r
    PROVE  run'[s] = run[s]
BY DEF ingest, create_ingestion_run, load_documents, upsert_document_select,
    upsert_document_commit, replace_chunks_delete, replace_chunks_commit, upsert_chunks,
    finish_ingestion_run, ingest_fails, Goto, NextFile, Shape

\* A path that a run neither writes nor has just stopped writing is left alone,
\* whether or not the points of another are added.
LEMMA OtherPath ==
    ASSUME NEW p \in Paths, PathInv(p), NEW r \in Runs, ~Busy(r, p), ~Busy(r, p)',
           \A s \in Runs \ {r} : run'[s] = run[s],
           doc'[p] = doc[p], rows'[p] = rows[p], points \subseteq points',
           p \in torn => p \in torn'
    PROVE  PathInv(p)'
<1>1. \A s \in Runs : /\ Busy(s, p)' <=> Busy(s, p)
                      /\ Busy(s, p) => Text(s)' = Text(s) /\ BatchOf(s)' = BatchOf(s)
                                       /\ run'[s] = run[s]
  <2> SUFFICES ASSUME NEW s \in Runs
               PROVE  /\ Busy(s, p)' <=> Busy(s, p)
                      /\ Busy(s, p) => Text(s)' = Text(s) /\ BatchOf(s)' = BatchOf(s)
                                       /\ run'[s] = run[s]
    OBVIOUS
  <2>1. CASE s = r
    BY <2>1
  <2>2. CASE s # r
    BY <2>2 DEF Busy, At, Path, Text, BatchOf
  <2> QED
    BY <2>1, <2>2
<1>2. CASE p \in torn
  BY <1>2 DEF PathInv
<1>3. CASE p \notin torn
  <2>1. OneWriter(p) /\ OwnRows(p) /\ Settled(p)
    BY <1>3 DEF PathInv
  <2>2. OneWriter(p)'
    BY <1>1, <2>1 DEF OneWriter
  <2>3. OwnRows(p)'
    BY <1>1, <2>1 DEF OwnRows
  <2>4. Settled(p)'
    BY <1>1, <2>1 DEF Settled
  <2> QED
    BY <2>2, <2>3, <2>4 DEF PathInv
<1> QED
  BY <1>2, <1>3

\* A path that is written alone has one writer and its rows, and is settled.
LEMMA WrittenAlone ==
    ASSUME NEW p \in Paths, PathInv(p), p \notin torn, NEW r \in Runs, Busy(r, p)
    PROVE  /\ \A s \in Runs : Busy(s, p) => s = r
           /\ doc[p] = Text(r)
           /\ run[r].step = "insert" => run[r].old = rows[p]
           /\ run[r].step = "upsert" => rows[p] = {BatchOf(r)}
BY DEF PathInv, OneWriter, OwnRows

\* One run alone writes a path: what there is of it is that run's.
LEMMA AloneIsOrdered ==
    ASSUME NEW p \in Paths, NEW r \in Runs, Busy(r, p), doc[p] = Text(r),
           \A s \in Runs : Busy(s, p) => s = r,
           run[r].step = "insert" => run[r].old = rows[p],
           run[r].step = "upsert" => rows[p] = {BatchOf(r)}
    PROVE  PathInv(p)
<1>1. OneWriter(p) /\ OwnRows(p)
  BY DEF OneWriter, OwnRows
<1>2. Settled(p)
  BY DEF Settled
<1> QED
  BY <1>1, <1>2 DEF PathInv

\* The document of a path is written: by one run alone, or the path is torn.
LEMMA CommitKeeps ==
    ASSUME IInv, NEW r \in Runs, upsert_document_commit(r), NEW p \in Paths
    PROVE  PathInv(p)'
<1>1. /\ run'[r] = [run[r] EXCEPT !.step = "delete"]
      /\ \A s \in Runs \ {r} : run'[s] = run[s]
  BY DEF upsert_document_commit, Goto, IInv, Shape
<1>2. run'[r].step = "delete" /\ run'[r].todo = run[r].todo /\ run'[r].status = run[r].status
  BY <1>1 DEF IInv, Shape, IsRun
<1>3. Path(r)' = Path(r) /\ Text(r)' = Text(r) /\ At(r, {"delete", "insert", "upsert"})'
  BY <1>2 DEF Path, Text, At, upsert_document_commit
<1>4. run[r].step = "commit" /\ run[r].status = "running"
  BY DEF upsert_document_commit, At
<1>5. CASE p # Path(r)
  <2>1. ~Busy(r, p) /\ ~Busy(r, p)'
    BY <1>3, <1>5 DEF Busy
  <2>2. doc'[p] = doc[p] /\ rows'[p] = rows[p] /\ points' = points
    BY <1>5 DEF upsert_document_commit, IInv, Shape
  <2>3. p \in torn => p \in torn'
    BY <1>5 DEF upsert_document_commit
  <2> QED
    BY <1>1, <2>1, <2>2, <2>3, OtherPath DEF IInv
<1>6. CASE p = Path(r) /\ Shared(r)
  <2>1. p \in torn'
    BY <1>6 DEF upsert_document_commit
  <2> QED
    BY <2>1 DEF PathInv
<1>7. CASE p = Path(r) /\ ~Shared(r)
  <2>1. \A s \in Runs : Busy(s, p)' => s = r
    <3> SUFFICES ASSUME NEW s \in Runs, s # r PROVE ~Busy(s, p)'
      OBVIOUS
    <3>1. ~Busy(s, p)
      BY <1>7 DEF Shared, Busy, At
    <3> QED
      BY <1>1, <3>1 DEF Busy, At, Path
  <2>2. Busy(r, p)' /\ doc'[p] = Text(r)'
    BY <1>3, <1>7 DEF Busy, upsert_document_commit, IInv, Shape
  <2>3. OneWriter(p)' /\ OwnRows(p)'
    BY <1>2, <2>1, <2>2 DEF OneWriter, OwnRows
  <2>4. Settled(p)'
    BY <2>2 DEF Settled
  <2> QED
    BY <2>3, <2>4 DEF PathInv
<1> QED
  BY <1>5, <1>6, <1>7

\* The DELETE takes note of the rows there are.
LEMMA DeleteKeeps ==
    ASSUME IInv, NEW r \in Runs, replace_chunks_delete(r), NEW p \in Paths
    PROVE  PathInv(p)'
<1>1. /\ run'[r] = [run[r] EXCEPT !.old = rows[Path(r)], !.step = "insert"]
      /\ \A s \in Runs \ {r} : run'[s] = run[s]
  BY DEF replace_chunks_delete, IInv, Shape
<1>2. /\ run'[r].step = "insert" /\ run'[r].todo = run[r].todo
      /\ run'[r].status = run[r].status /\ run'[r].old = rows[Path(r)]
  BY <1>1 DEF IInv, Shape, IsRun
<1>3. /\ Path(r)' = Path(r) /\ Text(r)' = Text(r)
      /\ At(r, {"delete", "insert", "upsert"})' /\ At(r, {"delete", "insert", "upsert"})
  BY <1>2 DEF Path, Text, At, replace_chunks_delete
<1>4. UNCHANGED <<doc, rows, points, torn>>
  BY DEF replace_chunks_delete, storeVars
<1>5. CASE p # Path(r)
  BY <1>1, <1>3, <1>4, <1>5, OtherPath DEF Busy, IInv
<1>6. CASE p = Path(r) /\ p \notin torn
  <2>1. Busy(r, p) /\ Busy(r, p)' /\ PathInv(p)
    BY <1>3, <1>6 DEF Busy, IInv
  <2>2. (\A s \in Runs : Busy(s, p) => s = r) /\ doc[p] = Text(r)
    BY <1>6, <2>1, WrittenAlone
  <2>3. \A s \in Runs : Busy(s, p)' => s = r
    BY <1>1, <2>2 DEF Busy, At, Path
  <2>4. OneWriter(p)' /\ OwnRows(p)' /\ Settled(p)'
    BY <1>2, <1>3, <1>4, <1>6, <2>1, <2>2, <2>3 DEF OneWriter, OwnRows, Settled
  <2> QED
    BY <2>4 DEF PathInv
<1>7. CASE p \in torn
  BY <1>4, <1>7 DEF PathInv
<1> QED
  BY <1>5, <1>6, <1>7

\* After the INSERT the rows are those of its own run only.
LEMMA InsertKeeps ==
    ASSUME IInv, NEW r \in Runs, replace_chunks_commit(r), NEW p \in Paths
    PROVE  PathInv(p)'
<1>1. /\ run'[r] = [run[r] EXCEPT !.step = "upsert"]
      /\ \A s \in Runs \ {r} : run'[s] = run[s]
  BY DEF replace_chunks_commit, Goto, IInv, Shape
<1>2. run'[r].step = "upsert" /\ run'[r].todo = run[r].todo /\ run'[r].status = run[r].status
  BY <1>1 DEF IInv, Shape, IsRun
<1>3. /\ Path(r)' = Path(r) /\ Text(r)' = Text(r) /\ BatchOf(r)' = BatchOf(r)
      /\ At(r, {"delete", "insert", "upsert"})' /\ At(r, {"delete", "insert", "upsert"})
  BY <1>2 DEF Path, Text, BatchOf, At, replace_chunks_commit
<1>4. UNCHANGED <<doc, points, torn>>
  BY DEF replace_chunks_commit
<1>5. CASE p # Path(r)
  <2>1. rows'[p] = rows[p]
    BY <1>5 DEF replace_chunks_commit, IInv, Shape
  <2> QED
    BY <1>1, <1>3, <1>4, <1>5, <2>1, OtherPath DEF Busy, IInv
<1>6. CASE p = Path(r) /\ p \notin torn
  <2>1. Busy(r, p) /\ Busy(r, p)' /\ PathInv(p) /\ run[r].step = "insert"
    BY <1>3, <1>6 DEF Busy, IInv, replace_chunks_commit, At
  <2>2. (\A s \in Runs : Busy(s, p) => s = r) /\ doc[p] = Text(r) /\ run[r].old = rows[p]
    BY <1>6, <2>1, WrittenAlone
  <2>3. \A s \in Runs : Busy(s, p)' => s = r
    BY <1>1, <2>2 DEF Busy, At, Path
  <2>4. rows'[p] = {BatchOf(r)}
    BY <1>6, <2>2 DEF replace_chunks_commit, IInv, Shape
  <2>5. OneWriter(p)' /\ OwnRows(p)' /\ Settled(p)'
    BY <1>2, <1>3, <1>4, <2>1, <2>2, <2>3, <2>4 DEF OneWriter, OwnRows, Settled
  <2> QED
    BY <2>5 DEF PathInv
<1>7. CASE p \in torn
  BY <1>4, <1>7 DEF PathInv
<1> QED
  BY <1>5, <1>6, <1>7

\* With the points the path is settled, and the run leaves it.
LEMMA UpsertKeeps ==
    ASSUME IInv, NEW r \in Runs, upsert_chunks(r), NEW p \in Paths
    PROVE  PathInv(p)'
<1>1. \A s \in Runs \ {r} : run'[s] = run[s]
  BY OthersStay DEF IInv, ingest
<1>2. run'[r].step \in {"finish", "select"}
  BY DEF upsert_chunks, NextFile, IInv, Shape, IsRun
<1>3. At(r, {"delete", "insert", "upsert"}) /\ run[r].step = "upsert"
      /\ ~At(r, {"delete", "insert", "upsert"})'
  BY <1>2 DEF At, upsert_chunks
<1>4. UNCHANGED <<doc, rows, torn>> /\ points' = points \cup {BatchOf(r)}
  BY DEF upsert_chunks
<1>5. CASE p # Path(r)
  BY <1>1, <1>3, <1>4, <1>5, OtherPath DEF Busy, IInv
<1>6. CASE p = Path(r) /\ p \notin torn
  <2>1. Busy(r, p) /\ PathInv(p)
    BY <1>3, <1>6 DEF Busy, IInv
  <2>2. (\A s \in Runs : Busy(s, p) => s = r) /\ doc[p] = Text(r) /\ rows[p] = {BatchOf(r)}
    BY <1>3, <1>6, <2>1, WrittenAlone
  <2>3. \A s \in Runs : ~Busy(s, p)'
    BY <1>1, <1>3, <2>2 DEF Busy, At, Path
  <2>4. BatchOf(r).text = Text(r)
    BY DEF BatchOf
  <2>5. OneWriter(p)' /\ OwnRows(p)' /\ Settled(p)'
    BY <1>4, <2>2, <2>3, <2>4 DEF OneWriter, OwnRows, Settled
  <2> QED
    BY <2>5 DEF PathInv
<1>7. CASE p \in torn
  BY <1>4, <1>7 DEF PathInv
<1> QED
  BY <1>5, <1>6, <1>7

\* A run that fails with a document written leaves the path torn.
LEMMA FailureKeeps ==
    ASSUME IInv, NEW r \in Runs, ingest_fails(r), NEW p \in Paths
    PROVE  PathInv(p)'
<1>1. \A s \in Runs \ {r} : run'[s] = run[s]
  BY OthersStay DEF IInv, ingest
<1>2. run'[r].status = "failed"
  BY DEF ingest_fails, Unstarted, IInv, Shape
<1>3. ~Busy(r, p)'
  BY <1>2 DEF Busy, At
<1>4. UNCHANGED <<doc, rows, points>> /\ torn \subseteq torn'
  BY DEF ingest_fails
<1>5. CASE Busy(r, p)
  BY <1>5 DEF Busy, ingest_fails, PathInv
<1>6. CASE ~Busy(r, p)
  BY <1>1, <1>3, <1>4, <1>6, OtherPath DEF IInv
<1> QED
  BY <1>5, <1>6

\* The other steps of a run write nothing.
LEMMA IdleKeeps ==
    ASSUME IInv, NEW r \in Runs, NEW p \in Paths,
           \/ create_ingestion_run(r) \/ load_documents(r)
           \/ upsert_document_select(r) \/ finish_ingestion_run(r)
    PROVE  PathInv(p)'
<1>1. \A s \in Runs \ {r} : run'[s] = run[s]
  BY OthersStay DEF IInv, ingest
<1>2. UNCHANGED <<doc, rows, points, torn>>
  BY DEF create_ingestion_run, load_documents, upsert_document_select, finish_ingestion_run,
         storeVars
<1>3. ~At(r, {"delete", "insert", "upsert"})
  BY DEF At, create_ingestion_run, load_documents, upsert_document_select,
         finish_ingestion_run
<1>4. ~At(r, {"delete", "insert", "upsert"})'
  <2>1. CASE create_ingestion_run(r)
    <3>1. run'[r].step = run[r].step
      BY <2>1 DEF create_ingestion_run, IInv, Shape, IsRun
    <3> QED
      BY <2>1, <3>1 DEF create_ingestion_run, At, IInv, FreshRuns
  <2>2. CASE load_documents(r)
    <3>1. run'[r].step \in {"finish", "select"}
      BY <2>2 DEF load_documents, IInv, Shape, IsRun
    <3> QED
      BY <3>1 DEF At
  <2>3. CASE upsert_document_select(r)
    <3>1. CASE NextFile(r)
      <4>1. run'[r].step \in {"finish", "select"}
        BY <3>1 DEF NextFile, IInv, Shape, IsRun
      <4> QED
        BY <4>1 DEF At
    <3>2. CASE run' = [run EXCEPT ![r].step = "commit", ![r].found = doc[Path(r)]]
      <4>1. run' = [run EXCEPT ![r] = [run[r] EXCEPT !.step = "commit",
                                                     !.found = doc[Path(r)]]]
        BY <3>2
      <4>2. run'[r].step = "commit"
        BY <4>1 DEF IInv, Shape, IsRun
      <4> QED
        BY <4>2 DEF At
    <3> QED
      BY <2>3, <3>1, <3>2 DEF upsert_document_select
  <2>4. CASE finish_ingestion_run(r)
    <3>1. run'[r].status = "completed"
      BY <2>4 DEF finish_ingestion_run, IInv, Shape, IsRun
    <3> QED
      BY <3>1 DEF At
  <2> QED
    BY <2>1, <2>2, <2>3, <2>4
<1> QED
  BY <1>1, <1>2, <1>3, <1>4, OtherPath DEF Busy, IInv

\* Every step of a run gives it a status other than none, for good.
LEMMA FreshKept == Shape /\ FreshRuns /\ [Next]_vars => FreshRuns'
<1> SUFFICES ASSUME Shape, FreshRuns, [Next]_vars PROVE FreshRuns'
  OBVIOUS
<1>1. ASSUME NEW r \in Runs, ingest(r) PROVE FreshRuns'
  <2>1. run'[r].status # "none"
    <3>1. CASE create_ingestion_run(r) \/ finish_ingestion_run(r)
      BY <3>1 DEF create_ingestion_run, finish_ingestion_run, Shape, IsRun
    <3>2. CASE ingest_fails(r)
      BY <3>2 DEF ingest_fails, Unstarted, Shape
    <3>3. CASE load_documents(r)
      BY <3>3 DEF load_documents, At, Shape, IsRun
    <3>4. CASE upsert_document_select(r)
      BY <3>4 DEF upsert_document_select, NextFile, At, Shape, IsRun
    <3>5. CASE \/ upsert_document_commit(r) \/ replace_chunks_delete(r)
               \/ replace_chunks_commit(r) \/ upsert_chunks(r)
      BY <3>5 DEF upsert_document_commit, replace_chunks_delete, replace_chunks_commit,
                  upsert_chunks, Goto, NextFile, At, Shape, IsRun
    <3> QED
      BY <1>1, <3>1, <3>2, <3>3, <3>4, <3>5 DEF ingest
  <2> QED
    BY <1>1, <2>1, OthersStay DEF FreshRuns
<1>2. ASSUME UNCHANGED run PROVE FreshRuns'
  BY <1>2 DEF FreshRuns
<1> QED
  BY <1>1, <1>2 DEF Next, edit, vars

\* Every step of a run, and every change of a file, keeps the paths in order.
LEMMA NextInv == IInv /\ [Next]_vars => IInv'
<1> SUFFICES ASSUME IInv, [Next]_vars PROVE IInv'
  OBVIOUS
<1>1. Shape' /\ FreshRuns'
  BY ShapeKept, FreshKept DEF IInv
<1>2. ASSUME NEW r \in Runs, ingest(r), NEW p \in Paths PROVE PathInv(p)'
  BY <1>2, CommitKeeps, DeleteKeeps, InsertKeeps, UpsertKeeps, FailureKeeps, IdleKeeps
  DEF ingest
<1>3. ASSUME UNCHANGED <<doc, rows, points, torn, run>>, NEW p \in Paths PROVE PathInv(p)'
  BY <1>3 DEF IInv, PathInv, OneWriter, OwnRows, Settled, Busy, At, Path, Text, BatchOf
<1>4. ASSUME NEW p \in Paths PROVE PathInv(p)'
  BY <1>2, <1>3, <1>4 DEF Next, edit, vars, storeVars
<1> QED
  BY <1>1, <1>4 DEF IInv

\* For any files, texts and runs: unless the last change of a path was cut
\* short or shared, the hash that a later scan compares with is that of the
\* rows and points there are (upsert_document, replace_chunks, upsert_chunks).
THEOREM HashesAreIndexed == Spec => []HashIsIndexed
<1>1. IInv => HashIsIndexed
  BY DEF IInv, PathInv, Settled, Busy, HashIsIndexed
<1> QED
  BY <1>1, InitInv, NextInv, PTL DEF Spec

-----------------------------------------------------------------------------
(* The chunker: the invariants.                                            *)

\* From the levels of headings to the lines they are in.
HeadingPaths == UNION {[S -> Nat] : S \in SUBSET Nat}
DocLine      == [kind : {"heading", "text", "mark", "blank"}, level : Nat, text : Seq(Nat)]
Block        == [text : Seq(Nat), heading_path : HeadingPaths]
ChunkRecord  == [content : Seq(Nat), heading_path : HeadingPaths]

ChunkerTypes ==
    /\ at \in {"markdown_blocks", "chunk_document", "done"}
    /\ document \in Seq(DocLine) /\ position \in Nat
    /\ heading_stack \in HeadingPaths /\ block_path \in HeadingPaths
    /\ current_lines \in Seq(Nat) /\ text \in Seq(Nat)
    /\ blocks \in Seq(Block)
    /\ current \in Seq(Nat) /\ current_heading_path \in HeadingPaths
    /\ chunks \in Seq(ChunkRecord)

\* No white space at an end; solid characters in the document's order.
Trimmed(s) == s # << >> => s[1] # Space /\ s[Len(s)] # Space
Forward(s) == \A i, j \in DOMAIN s : i < j /\ Space \notin {s[i], s[j]} => s[i] < s[j]
\* Between two characters that are not white space there is one at most that is.
Tight(s)   == \A i \in 1..(Len(s) - 1) : s[i] # Space \/ s[i + 1] # Space
Clean(s)   == Trimmed(s) /\ Forward(s) /\ Tight(s)

\* Nothing after position n; all of a before all of b.
Within(s, n)   == \A c \in Solid(s) : c <= n
Precedes(a, b) == \A c \in Solid(a), d \in Solid(b) : c < d

\* Where the loop of markdown_blocks is.
Reading ==
    /\ at = "markdown_blocks" => current = << >> /\ chunks = << >>
    /\ \A i \in DOMAIN document : Within(document[i].text, position)
    /\ Within(text, position) /\ \A k \in DOMAIN blocks : Within(blocks[k].text, position)
    /\ current_lines = << >> <=> text = << >>
    /\ current_lines # << >> => block_path = heading_stack

\* The paths of everything on its way.
Headed ==
    /\ HeadingsAt(document, heading_stack, Len(document))
    /\ Under(document, text, block_path)
    /\ \A k \in DOMAIN blocks : Under(document, blocks[k].text, blocks[k].heading_path)
    /\ Under(document, current, current_heading_path)
    /\ ChunksUnderTheirHeadings

\* Inductive, and gives ChunksUnderTheirHeadings.
HeadedInv == ChunkerTypes /\ Reading /\ Headed

\* The lines of the block being read are the last ones, and the first of them is
\* a heading or is preceded by a blank line.
LastLines ==
    /\ Len(current_lines) <= Len(document)
    /\ \A j \in DOMAIN current_lines :
         current_lines[j] = (Len(document) - Len(current_lines)) + j
    /\ LET before == Len(document) - Len(current_lines)
       IN  at = "markdown_blocks" /\ before > 0 =>
             \/ document[before].kind = "blank"
             \/ current_lines # << >> /\ document[before + 1].kind = "heading"

\* The solid characters of blocks that wait.
Queued == UNION {Solid(blocks[k].text) : k \in DOMAIN blocks}
\* What has been taken into blocks, be it in a chunk by now or not.
Taken  == Queued \cup Solid(current) \cup Contents

\* A text line is being read, has been taken, or is one that is dropped.
Covered ==
    \A i \in DOMAIN document : document[i].kind = "text" =>
      \/ /\ \E j \in DOMAIN current_lines : current_lines[j] = i
         /\ Solid(document[i].text) \subseteq Solid(text)
      \/ Solid(document[i].text) \subseteq Taken
      \/ Dropped(document, i) /\ (at = "markdown_blocks" => i < Len(document))

\* The texts on their way are clean and follow each other.
InOrder ==
    /\ Clean(text)
    /\ \A k \in DOMAIN blocks :
         /\ blocks[k].text # << >> /\ Clean(blocks[k].text)
         /\ Precedes(blocks[k].text, text) /\ Precedes(current, blocks[k].text)
         /\ \A m \in DOMAIN blocks : k < m => Precedes(blocks[k].text, blocks[m].text)
         /\ \A m \in DOMAIN chunks : Precedes(chunks[m].content, blocks[k].text)
    /\ Trimmed(current) /\ Forward(current) /\ (Len(current) > MaxChars => Tight(current))

\* Of a text that follows chunk a only its first overlap_chars may be in a.
Continues(s, a) ==
    /\ \A i \in DOMAIN s :
         s[i] = Space \/ s[i] \in Beyond(s, a) \/ (i <= Overlap /\ s[i] \in Solid(a))
    /\ Step > 1 => \E i \in DOMAIN s : i <= MaxChars /\ s[i] \in Beyond(s, a)

\* The chunks are cut as they should be, and the current one goes on beyond them.
Cut ==
    /\ \A k \in DOMAIN chunks : WellCut(chunks[k].content)
    /\ \A k \in 1..(Len(chunks) - 1) : Follows(chunks[k + 1].content, chunks[k].content)
    /\ current # << >> /\ chunks # << >> => Continues(current, chunks[Len(chunks)].content)
    /\ at = "done" => blocks = << >> /\ current = << >>
    /\ at # "markdown_blocks" => current_lines = << >> /\ text = << >>

\* Inductive, and gives ChunksCoverText.
CoverInv == ChunkerTypes /\ Reading /\ LastLines /\ Covered /\ InOrder /\ Cut
-----------------------------------------------------------------------------
(* Texts.                                                                  *)

\* A part of a text.
LEMMA PartIs ==
    ASSUME NEW s \in Seq(Nat), NEW a \in Nat \ {0}, NEW b \in Nat, b <= Len(s)
    PROVE  /\ SubSeq(s, a, b) \in Seq(Nat)
           /\ Len(SubSeq(s, a, b)) = IF a <= b THEN (b - a) + 1 ELSE 0
           /\ \A i \in DOMAIN SubSeq(s, a, b) :
                (a + i) - 1 \in a..b /\ SubSeq(s, a, b)[i] = s[(a + i) - 1]
           /\ Solid(SubSeq(s, a, b)) \subseteq Solid(s)
<1>1. SubSeq(s, a, b) \in Seq(Nat)
      /\ Len(SubSeq(s, a, b)) = IF a <= b THEN (b - a) + 1 ELSE 0
  OBVIOUS
<1>2. \A i \in DOMAIN SubSeq(s, a, b) :
        (a + i) - 1 \in a..b /\ SubSeq(s, a, b)[i] = s[(a + i) - 1]
  BY <1>1
<1>3. Solid(SubSeq(s, a, b)) \subseteq Solid(s)
  <2> SUFFICES ASSUME NEW c \in Solid(SubSeq(s, a, b)) PROVE c \in Solid(s)
    OBVIOUS
  <2>1. PICK i \in DOMAIN SubSeq(s, a, b) : c = SubSeq(s, a, b)[i]
    BY DEF Solid
  <2>2. (a + i) - 1 \in DOMAIN s /\ c = s[(a + i) - 1]
    BY <1>2, <2>1
  <2> QED
    BY <2>2 DEF Solid
<1> QED
  BY <1>1, <1>2, <1>3

\* A set of numbers that is not empty has a least one: the library's
\* well-founded order of finite sets, applied to the intervals up to each.
LEMMA LeastOf ==
    ASSUME NEW S \in SUBSET Nat, S # {}
    PROVE  \E m \in S : \A n \in S : m <= n
<1> DEFINE R == StrictSubsetOrdering(Nat)
           U == {0..n : n \in S}
<1>1. IsWellFoundedOn(R, FiniteSubsetsOf(Nat))
  BY FS_StrictSubsetOrderingWellFounded, Zenon
<1>2. U \subseteq FiniteSubsetsOf(Nat) /\ U # {}
  <2>1. ASSUME NEW n \in S PROVE 0..n \in FiniteSubsetsOf(Nat)
    <3>1. 0 \in Int /\ n \in Int /\ 0..n \subseteq Nat
      OBVIOUS
    <3>2. IsFiniteSet(0..n)
      BY <3>1, FS_Interval, Zenon
    <3> QED
      BY <3>1, <3>2 DEF FiniteSubsetsOf
  <2> QED
    BY <2>1
<1>3. \E X \in U : \A Y \in U : ~ (<<Y, X>> \in R)
  <2> HIDE DEF R, U
  <2> QED
    BY <1>1, <1>2, WFMin, Zenon
<1>4. PICK m \in S : \A n \in S : ~ (<<0..n, 0..m>> \in R)
  BY <1>3
<1>5. ASSUME NEW n \in S, n < m PROVE FALSE
  <2>1. 0..n \in SUBSET Nat /\ 0..m \in SUBSET Nat
    OBVIOUS
  <2>2. 0..n \subseteq 0..m /\ 0..n # 0..m
    BY <1>5
  <2>3. <<0..n, 0..m>> \in R
    BY <2>1, <2>2, Zenon DEF StrictSubsetOrdering
  <2> QED
    BY <2>3, <1>4
<1> QED
  BY <1>5

\* A set of positions has a first and a last one.
LEMMA EndsOf ==
    ASSUME NEW n \in Nat, NEW S \in SUBSET (1..n), S # {}
    PROVE  \E a, b \in S : \A i \in S : a <= i /\ i <= b
<1>1. PICK a \in S : \A i \in S : a <= i
  <2>1. S \in SUBSET Nat
    OBVIOUS
  <2> QED
    BY <2>1, LeastOf
<1> DEFINE D == {n - i : i \in S}
<1>2. PICK d \in D : \A e \in D : d <= e
  <2>1. D \in SUBSET Nat /\ D # {}
    OBVIOUS
  <2> HIDE DEF D
  <2> QED
    BY <2>1, LeastOf
<1>3. PICK b \in S : \A i \in S : n - b <= n - i
  BY <1>2
<1>4. \A i \in S : i <= b
  BY <1>3
<1> QED
  BY <1>1, <1>4

\* strip() cuts off what is outside the first and the last solid character.
LEMMA StripIs ==
    ASSUME NEW s \in Seq(Nat)
    PROVE  \/ Strip(s) = << >> /\ \A i \in DOMAIN s : s[i] = Space
           \/ \E a, b \in DOMAIN s :
                /\ a <= b /\ s[a] # Space /\ s[b] # Space
                /\ \A i \in DOMAIN s : s[i] # Space => i \in a..b
                /\ Strip(s) = SubSeq(s, a, b)
<1> DEFINE solid == {i \in DOMAIN s : s[i] # Space}
<1>1. CASE solid = {}
  BY <1>1 DEF Strip
<1>2. CASE solid # {}
  <2>1. solid \in SUBSET (1..Len(s))
    OBVIOUS
  <2> HIDE DEF solid
  <2>2. PICK a, b \in solid : \A i \in solid : a <= i /\ i <= b
    <3>1. Len(s) \in Nat
      OBVIOUS
    <3> QED
      BY <1>2, <2>1, <3>1, EndsOf
  <2>3. a = CHOOSE i \in solid : \A j \in solid : i <= j
    <3> DEFINE m == CHOOSE i \in solid : \A j \in solid : i <= j
    <3>1. m \in solid /\ \A j \in solid : m <= j
      BY <2>2
    <3> HIDE DEF m
    <3>2. a = m
      BY <2>1, <2>2, <3>1
    <3> QED
      BY <3>2 DEF m
  <2>4. b = CHOOSE i \in solid : \A j \in solid : j <= i
    <3> DEFINE m == CHOOSE i \in solid : \A j \in solid : j <= i
    <3>1. m \in solid /\ \A j \in solid : j <= m
      BY <2>2
    <3> HIDE DEF m
    <3>2. b = m
      BY <2>1, <2>2, <3>1
    <3> QED
      BY <3>2 DEF m
  <2>5. Strip(s) = SubSeq(s, a, b)
    BY <1>2, <2>3, <2>4, Zenon DEF Strip, solid
  <2>6. /\ a \in DOMAIN s /\ b \in DOMAIN s /\ a <= b /\ s[a] # Space /\ s[b] # Space
        /\ \A i \in DOMAIN s : s[i] # Space => i \in a..b
    BY <2>1, <2>2 DEF solid
  <2> QED
    BY <2>5, <2>6
<1> QED
  BY <1>1, <1>2

\* strip() keeps every solid character.
LEMMA StripKeeps ==
    ASSUME NEW s \in Seq(Nat)
    PROVE  /\ Strip(s) \in Seq(Nat) /\ Len(Strip(s)) <= Len(s)
           /\ Solid(Strip(s)) = Solid(s)
<1>1. CASE Strip(s) = << >> /\ \A i \in DOMAIN s : s[i] = Space
  BY <1>1 DEF Solid
<1>2. ASSUME NEW a \in DOMAIN s, NEW b \in DOMAIN s, a <= b,
             \A i \in DOMAIN s : s[i] # Space => i \in a..b,
             Strip(s) = SubSeq(s, a, b)
      PROVE  /\ Strip(s) \in Seq(Nat) /\ Len(Strip(s)) <= Len(s)
             /\ Solid(Strip(s)) = Solid(s)
  <2>1. a \in Nat \ {0} /\ b \in Nat /\ b <= Len(s)
    OBVIOUS
  <2> DEFINE t == SubSeq(s, a, b)
  <2>2. t \in Seq(Nat) /\ Len(t) = (b - a) + 1 /\ Solid(t) \subseteq Solid(s)
        /\ \A i \in DOMAIN t : t[i] = s[(a + i) - 1]
    BY <1>2, <2>1, PartIs
  <2>3. ASSUME NEW c \in Solid(s) PROVE c \in Solid(t)
    <3> HIDE DEF t
    <3>1. PICK i \in DOMAIN s : c = s[i] /\ s[i] # Space
      BY DEF Solid
    <3>2. i \in a..b
      BY <1>2, <3>1
    <3>3. (i - a) + 1 \in DOMAIN t
      BY <2>1, <2>2, <3>2, SMTT(30)
    <3>4. (a + ((i - a) + 1)) - 1 = i
      BY <2>1, <3>2
    <3>5. t[(i - a) + 1] = c
      BY <2>2, <3>1, <3>3, <3>4
    <3> QED
      BY <3>1, <3>3, <3>5 DEF Solid
  <2>4. Len(t) <= Len(s)
    BY <2>1, <2>2
  <2> QED
    BY <1>2, <2>2, <2>3, <2>4
<1> QED
  BY StripIs, <1>1, <1>2

\* What the joins put between two texts.
LEMMA GapIs ==
    ASSUME NEW gap \in {<< Space >>, << Space, Space >>}
    PROVE  gap \in Seq(Nat) /\ Len(gap) \in 1..2 /\ \A i \in DOMAIN gap : gap[i] = Space
<1>1. CASE gap = << Space >>
  BY <1>1 DEF Space
<1>2. CASE gap = << Space, Space >>
  BY <1>2 DEF Space
<1> QED
  BY <1>1, <1>2

\* The joins put white space between two texts, if there are two.
LEMMA JoinIs ==
    ASSUME NEW a \in Seq(Nat), NEW b \in Seq(Nat), a # << >>,
           NEW gap \in {<< Space >>, << Space, Space >>}
    PROVE  /\ Joined(a, gap, b) \in Seq(Nat)
           /\ Len(Joined(a, gap, b)) = Len(a) + Len(gap) + Len(b)
           /\ \A i \in DOMAIN a : Joined(a, gap, b)[i] = a[i]
           /\ \A i \in DOMAIN gap : Joined(a, gap, b)[Len(a) + i] = Space
           /\ \A i \in DOMAIN b : Joined(a, gap, b)[Len(a) + Len(gap) + i] = b[i]
<1>1. gap \in Seq(Nat) /\ Len(gap) \in 1..2 /\ \A i \in DOMAIN gap : gap[i] = Space
  BY GapIs
<1>2. Joined(a, gap, b) = (a \o gap) \o b
  BY Zenon DEF Joined
<1> DEFINE c == a \o gap
<1>3. c \in Seq(Nat) /\ Len(c) = Len(a) + Len(gap)
      /\ (\A i \in DOMAIN a : c[i] = a[i])
      /\ \A i \in DOMAIN gap : c[Len(a) + i] = gap[i]
  BY <1>1
<1> HIDE DEF c
<1>4. c \in Seq(Nat)
  BY <1>3
<1>5. c \o b \in Seq(Nat) /\ Len(c \o b) = Len(c) + Len(b)
      /\ (\A i \in DOMAIN c : (c \o b)[i] = c[i])
      /\ \A i \in DOMAIN b : (c \o b)[Len(c) + i] = b[i]
  BY <1>4
<1>6. Joined(a, gap, b) = c \o b
  BY <1>2 DEF c
<1>7. \A i \in DOMAIN a : i \in DOMAIN c
  BY <1>1, <1>3
<1>8. \A i \in DOMAIN gap : Len(a) + i \in DOMAIN c /\ c[Len(a) + i] = Space
  BY <1>1, <1>3, SMTT(30)
<1> QED
  BY <1>3, <1>5, <1>6, <1>7, <1>8

\* Joining neither adds nor loses a solid character.
LEMMA JoinKeeps ==
    ASSUME NEW a \in Seq(Nat), NEW b \in Seq(Nat), NEW gap \in {<< Space >>, << Space, Space >>}
    PROVE  Joined(a, gap, b) \in Seq(Nat) /\ Solid(Joined(a, gap, b)) = Solid(a) \cup Solid(b)
<1>1. CASE a = << >>
  BY <1>1 DEF Joined, Solid
<1>2. CASE a # << >>
  <2> DEFINE t == Joined(a, gap, b)
  <2>1. /\ t \in Seq(Nat) /\ Len(t) = Len(a) + Len(gap) + Len(b)
        /\ \A i \in DOMAIN a : t[i] = a[i]
        /\ \A i \in DOMAIN gap : t[Len(a) + i] = Space
        /\ \A i \in DOMAIN b : t[Len(a) + Len(gap) + i] = b[i]
    BY <1>2, JoinIs, ZenonT(40)
  <2>2. Len(gap) \in 1..2 /\ gap \in Seq(Nat)
    BY GapIs
  <2> HIDE DEF t
  <2>3. ASSUME NEW c \in Solid(t) PROVE c \in Solid(a) \cup Solid(b)
    <3>1. PICK i \in DOMAIN t : c = t[i] /\ t[i] # Space
      BY DEF Solid
    <3>2. CASE i <= Len(a)
      <4>1. i \in DOMAIN a
        BY <2>1, <3>1, <3>2
      <4> QED
        BY <2>1, <3>1, <4>1 DEF Solid
    <3>3. CASE i > Len(a) /\ i <= Len(a) + Len(gap)
      <4>1. i - Len(a) \in DOMAIN gap /\ Len(a) + (i - Len(a)) = i
        BY <2>1, <2>2, <3>1, <3>3
      <4> QED
        BY <2>1, <3>1, <4>1
    <3>4. CASE i > Len(a) + Len(gap)
      <4> DEFINE j == i - (Len(a) + Len(gap))
      <4>1. j \in DOMAIN b /\ Len(a) + Len(gap) + j = i
        BY <2>1, <2>2, <3>1, <3>4
      <4> HIDE DEF j
      <4>2. b[j] = c
        BY <2>1, <3>1, <4>1
      <4> QED
        BY <3>1, <4>1, <4>2 DEF Solid
    <3> QED
      BY <2>1, <2>2, <3>1, <3>2, <3>3, <3>4
  <2>4. ASSUME NEW c \in Solid(a) PROVE c \in Solid(t)
    <3>1. PICK i \in DOMAIN a : c = a[i] /\ c # Space
      BY DEF Solid
    <3>2. i \in DOMAIN t /\ t[i] = c
      BY <2>1, <2>2, <3>1
    <3> QED
      BY <3>1, <3>2 DEF Solid
  <2>5. ASSUME NEW c \in Solid(b) PROVE c \in Solid(t)
    <3>1. PICK i \in DOMAIN b : c = b[i] /\ c # Space
      BY DEF Solid
    <3>2. Len(a) + Len(gap) + i \in DOMAIN t /\ t[Len(a) + Len(gap) + i] = c
      BY <2>1, <2>2, <3>1, SMTT(30)
    <3> QED
      BY <3>1, <3>2 DEF Solid
  <2>6. Solid(t) = Solid(a) \cup Solid(b)
    BY <2>3, <2>4, <2>5
  <2> QED
    BY <2>1, <2>6 DEF t
<1> QED
  BY <1>1, <1>2

-----------------------------------------------------------------------------
(* Lines and their headings.                                               *)

\* Reading a line adds one to the document.
LEMMA Grown ==
    ASSUME NEW D \in Seq(DocLine), NEW l \in DocLine
    PROVE  /\ Append(D, l) \in Seq(DocLine) /\ Len(Append(D, l)) = Len(D) + 1
           /\ \A i \in DOMAIN D : Append(D, l)[i] = D[i]
           /\ Append(D, l)[Len(D) + 1] = l
OBVIOUS

\* The headings in force at the lines read so far do not change.
LEMMA HeadingsStay ==
    ASSUME NEW D \in Seq(DocLine), NEW l \in DocLine, NEW path \in HeadingPaths,
           NEW i \in 0..Len(D), HeadingsAt(D, path, i)
    PROVE  HeadingsAt(Append(D, l), path, i)
<1> DEFINE E == Append(D, l)
<1>1. E \in Seq(DocLine) /\ Len(E) = Len(D) + 1 /\ \A j \in DOMAIN D : E[j] = D[j]
  BY Grown
<1> HIDE DEF E
<1>2. \A h \in DOMAIN D : InForce(E, h, i) <=> InForce(D, h, i)
  <2> SUFFICES ASSUME NEW h \in DOMAIN D PROVE InForce(E, h, i) <=> InForce(D, h, i)
    OBVIOUS
  <2>1. E[h] = D[h] /\ \A j \in (h + 1)..i : E[j] = D[j]
    BY <1>1
  <2> QED
    BY <2>1 DEF InForce
<1>3. \A h \in DOMAIN E : InForce(E, h, i) => h \in DOMAIN D
  BY <1>1 DEF InForce
<1>4. \A n \in DOMAIN path : path[n] \in DOMAIN E /\ InForce(E, path[n], i)
                                /\ E[path[n]].level = n
  BY <1>1, <1>2 DEF HeadingsAt
<1>5. \A h \in DOMAIN E : InForce(E, h, i) => \E n \in DOMAIN path : path[n] = h
  BY <1>2, <1>3 DEF HeadingsAt
<1>6. HeadingsAt(E, path, i)
  BY <1>4, <1>5 DEF HeadingsAt
<1> QED
  BY <1>6 DEF E

\* A line that is no heading is under the headings of the line before.
LEMMA UnderTheSame ==
    ASSUME NEW D \in Seq(DocLine), NEW l \in DocLine, l.kind # "heading",
           NEW path \in HeadingPaths, HeadingsAt(D, path, Len(D))
    PROVE  HeadingsAt(Append(D, l), path, Len(D) + 1)
<1> DEFINE E == Append(D, l)
<1>1. E \in Seq(DocLine) /\ Len(E) = Len(D) + 1 /\ E[Len(D) + 1] = l
      /\ \A j \in DOMAIN D : E[j] = D[j]
  BY Grown
<1> HIDE DEF E
<1>2. \A h \in DOMAIN D : InForce(E, h, Len(D) + 1) <=> InForce(D, h, Len(D))
  BY <1>1 DEF InForce
<1>3. \A h \in DOMAIN E : InForce(E, h, Len(D) + 1) => h \in DOMAIN D
  BY <1>1 DEF InForce
<1>4. \A n \in DOMAIN path :
        path[n] \in DOMAIN E /\ InForce(E, path[n], Len(D) + 1) /\ E[path[n]].level = n
  BY <1>1, <1>2 DEF HeadingsAt
<1>5. \A h \in DOMAIN E : InForce(E, h, Len(D) + 1) => \E n \in DOMAIN path : path[n] = h
  BY <1>2, <1>3 DEF HeadingsAt
<1>6. HeadingsAt(E, path, Len(D) + 1)
  BY <1>4, <1>5 DEF HeadingsAt
<1> QED
  BY <1>6 DEF E

\* What a heading leaves of the stack is in force, and nothing else.
LEMMA UnderANewOne ==
    ASSUME NEW D \in Seq(DocLine), NEW l \in DocLine, l.kind = "heading",
           NEW stack \in HeadingPaths, HeadingsAt(D, stack, Len(D)),
           NEW path \in HeadingPaths,
           DOMAIN path = {m \in DOMAIN stack : m < l.level} \cup {l.level},
           path[l.level] = Len(D) + 1,
           \A n \in DOMAIN stack : n < l.level => path[n] = stack[n]
    PROVE  HeadingsAt(Append(D, l), path, Len(D) + 1)
<1> DEFINE E == Append(D, l)
           k == Len(D) + 1
<1>1. E \in Seq(DocLine) /\ Len(E) = k /\ E[k] = l /\ k \in DOMAIN E
      /\ (\A j \in DOMAIN D : j \in DOMAIN E /\ E[j] = D[j] /\ j < k)
      /\ \A j \in DOMAIN E : j = k \/ j \in DOMAIN D
  BY Grown
<1> HIDE DEF E
<1>2. l.level \in Nat /\ \A n \in DOMAIN stack : n \in Nat
  <2>1. PICK S \in SUBSET Nat : stack \in [S -> Nat]
    BY DEF HeadingPaths
  <2> QED
    BY <2>1 DEF DocLine
<1>3. \A h \in DOMAIN D :
        InForce(E, h, k) <=> InForce(D, h, Len(D)) /\ D[h].level < l.level
  <2> SUFFICES ASSUME NEW h \in DOMAIN D
               PROVE  InForce(E, h, k) <=> InForce(D, h, Len(D)) /\ D[h].level < l.level
    OBVIOUS
  <2>1. E[h] = D[h] /\ h <= k /\ h <= Len(D)
    BY <1>1
  <2>2. k \in (h + 1)..k /\ E[k] = l
    BY <1>1
  <2>3. \A j : j \in (h + 1)..k <=> j = k \/ j \in (h + 1)..Len(D)
    OBVIOUS
  <2>4. \A j \in (h + 1)..Len(D) : E[j] = D[j]
    BY <1>1
  <2>5. D[h].level \in Nat
    <3>1. D[h] \in DocLine
      OBVIOUS
    <3> QED
      BY <3>1 DEF DocLine
  <2> HIDE DEF k
  <2> QED
    BY <1>2, <2>1, <2>2, <2>3, <2>4, <2>5 DEF InForce
<1>4. InForce(E, k, k)
  BY <1>1 DEF InForce
<1>5. \A n \in DOMAIN stack :
        stack[n] \in DOMAIN D /\ InForce(D, stack[n], Len(D)) /\ D[stack[n]].level = n
  BY DEF HeadingsAt
<1>6. ASSUME NEW n \in DOMAIN path
      PROVE  path[n] \in DOMAIN E /\ InForce(E, path[n], k) /\ E[path[n]].level = n
  <2>1. CASE n = l.level
    BY <1>1, <1>4, <2>1
  <2>2. CASE n # l.level
    <3>1. n \in DOMAIN stack /\ n < l.level /\ path[n] = stack[n]
      BY <2>2
    <3> QED
      BY <1>1, <1>3, <1>5, <3>1
  <2> QED
    BY <2>1, <2>2
<1>7. ASSUME NEW h \in DOMAIN E, InForce(E, h, k) PROVE \E n \in DOMAIN path : path[n] = h
  <2>1. CASE h = k
    BY <2>1
  <2>2. CASE h \in DOMAIN D
    <3>1. InForce(D, h, Len(D)) /\ D[h].level < l.level
      BY <1>3, <1>7, <2>2
    <3>2. PICK n \in DOMAIN stack : stack[n] = h
      BY <2>2, <3>1 DEF HeadingsAt
    <3>3. n < l.level
      BY <1>5, <3>1, <3>2
    <3> QED
      BY <3>2, <3>3
  <2> QED
    BY <1>1, <2>1, <2>2
<1>8. ASSUME NEW m \in DOMAIN path, NEW n \in DOMAIN path, m < n PROVE path[m] < path[n]
  <2>1. m \in DOMAIN stack /\ m < l.level /\ path[m] = stack[m]
    BY <1>2, <1>8
  <2>2. CASE n = l.level
    BY <1>1, <1>5, <2>1, <2>2
  <2>3. CASE n # l.level
    BY <1>8, <2>1, <2>3 DEF HeadingsAt
  <2> QED
    BY <2>2, <2>3
<1>9. HeadingsAt(E, path, k)
  BY <1>6, <1>7, <1>8 DEF HeadingsAt
<1> QED
  BY <1>9 DEF E

\* A text from the lines read so far stays under its headings.
LEMMA UnderStays ==
    ASSUME NEW D \in Seq(DocLine), NEW l \in DocLine, NEW n \in Nat,
           \A c \in Solid(l.text) : c > n,
           NEW s \in Seq(Nat), Within(s, n), NEW path \in HeadingPaths, Under(D, s, path)
    PROVE  Under(Append(D, l), s, path)
<1> DEFINE E == Append(D, l)
<1>1. Len(E) = Len(D) + 1 /\ E[Len(D) + 1] = l /\ DOMAIN E = 1..(Len(D) + 1)
      /\ \A j \in DOMAIN D : E[j] = D[j]
  BY Grown
<1>2. Solid(s) \cap Solid(l.text) = {}
  <2>1. \A c \in Solid(s) : c \in Nat
    BY DEF Solid
  <2> QED
    BY <2>1 DEF Within
<1> SUFFICES ASSUME NEW i \in DOMAIN E, Solid(s) \cap Solid(E[i].text) # {}
             PROVE  HeadingsAt(E, path, i)
  BY Zenon DEF Under
<1>3. i # Len(D) + 1
  BY <1>1, <1>2
<1>4. i \in DOMAIN D /\ i \in 0..Len(D) /\ E[i] = D[i]
  BY <1>1, <1>3
<1>5. HeadingsAt(D, path, i)
  BY <1>4 DEF Under
<1> QED
  BY <1>4, <1>5, HeadingsStay

\* ... the new line's own text is under what is in force there,
LEMMA UnderItsOwn ==
    ASSUME NEW D \in Seq(DocLine), NEW l \in DocLine, NEW n \in Nat,
           \A i \in DOMAIN D : Within(D[i].text, n),
           \A c \in Solid(l.text) : c > n,
           NEW path \in HeadingPaths, HeadingsAt(Append(D, l), path, Len(D) + 1)
    PROVE  Under(Append(D, l), l.text, path)
<1> DEFINE E == Append(D, l)
<1>1. Len(E) = Len(D) + 1 /\ E[Len(D) + 1] = l /\ DOMAIN E = 1..(Len(D) + 1)
      /\ \A j \in DOMAIN D : E[j] = D[j]
  BY Grown
<1> SUFFICES ASSUME NEW i \in DOMAIN E, Solid(l.text) \cap Solid(E[i].text) # {}
             PROVE  HeadingsAt(E, path, i)
  BY Zenon DEF Under
<1>2. ASSUME i # Len(D) + 1 PROVE FALSE
  <2>1. i \in DOMAIN D /\ E[i] = D[i]
    BY <1>1, <1>2
  <2>2. PICK c \in Solid(l.text) : c \in Solid(D[i].text)
    BY <2>1
  <2>3. D[i].text \in Seq(Nat)
    <3>1. D[i] \in DocLine
      BY <2>1
    <3> QED
      BY <3>1 DEF DocLine
  <2>4. c \in Nat
    BY <2>2, <2>3 DEF Solid
  <2>5. c > n /\ c <= n
    BY <2>1, <2>2 DEF Within
  <2> QED
    BY <2>4, <2>5
<1> QED
  BY <1>2

\* ... and a text made of two under the same headings is under them.
LEMMA UnderBoth ==
    ASSUME NEW D, NEW a, NEW b, NEW s, NEW path, Under(D, a, path), Under(D, b, path),
           Solid(s) \subseteq Solid(a) \cup Solid(b)
    PROVE  Under(D, s, path)
BY DEF Under

\* No text is under any headings.
LEMMA UnderNone == ASSUME NEW D, NEW path PROVE Under(D, << >>, path)
BY DEF Under, Solid

-----------------------------------------------------------------------------
(* What the actions do.                                                    *)

\* The text of a line: its characters come after those of the lines before.
LEMMA LineTextIs ==
    ASSUME ChunkerTypes, NEW line \in LineKinds
    PROVE  /\ LineText(line) \in Seq(Nat) /\ Length(line) \in Nat
           /\ Len(LineText(line)) = Length(line)
           /\ \A c \in 1..Length(line) :
                \/ LineText(line)[c] = position + c
                \/ LineText(line)[c] = Space /\ line.kind = "heading" /\ c = line.level + 1
           /\ \A c \in Solid(LineText(line)) : c > position /\ c <= position + Length(line)
           /\ line.kind \in {"heading", "text", "mark", "blank"} /\ line.level \in Nat
           /\ line.kind # "blank" => Length(line) > 0
           /\ line.kind = "heading" => line.level > 0 /\ Length(line) > line.level + 1
<1>1. /\ Length(line) \in Nat /\ line.level \in Nat
      /\ line.kind \in {"heading", "text", "mark", "blank"}
      /\ line.kind # "blank" => Length(line) > 0
      /\ line.kind = "heading" => line.level > 0 /\ Length(line) > line.level + 1
  <2>1. line \in Line
    BY LinesAssumption
  <2>2. CASE line \in [kind : {"heading"}, level : 1..6, length : Nat \ {0}]
    BY <2>2 DEF Length
  <2>3. CASE line \in [kind : {"text"}, level : {0}, length : Nat \ {0}]
    BY <2>3 DEF Length
  <2>4. CASE line \in [kind : {"mark"}, level : {0}, length : 1..6]
    BY <2>4 DEF Length
  <2>5. CASE line \in [kind : {"blank"}, level : {0}, length : {0}]
    BY <2>5 DEF Length
  <2> QED
    BY <2>1, <2>2, <2>3, <2>4, <2>5 DEF Line
<1>2. position \in Nat
  BY DEF ChunkerTypes
<1>3. LineText(line) \in Seq(Nat) /\ Len(LineText(line)) = Length(line)
  BY <1>1, <1>2 DEF LineText, Space
<1>4. \A c \in 1..Length(line) :
        \/ LineText(line)[c] = position + c
        \/ LineText(line)[c] = Space /\ line.kind = "heading" /\ c = line.level + 1
  BY <1>1 DEF LineText
<1>5. ASSUME NEW c \in Solid(LineText(line))
      PROVE  c > position /\ c <= position + Length(line)
  <2>1. PICK i \in 1..Length(line) : c = LineText(line)[i] /\ c # Space
    BY <1>1, <1>3 DEF Solid
  <2>2. c = position + i
    BY <1>4, <2>1
  <2> QED
    BY <1>1, <1>2, <2>1, <2>2
<1> QED
  BY <1>1, <1>3, <1>4, <1>5

\* A line that is read is the document's next one.
LEMMA Reads ==
    ASSUME ChunkerTypes, NEW line \in LineKinds, Read(line)
    PROVE  \E l \in DocLine :
             /\ l.kind = line.kind /\ l.level = line.level /\ l.text = LineText(line)
             /\ document' = Append(document, l)
             /\ position' \in Nat /\ position' > position
             /\ \A c \in Solid(l.text) : c > position
             /\ Within(l.text, position')
<1> DEFINE l == [kind |-> line.kind, level |-> line.level, text |-> LineText(line)]
<1>1. l \in DocLine /\ l.kind = line.kind /\ l.level = line.level /\ l.text = LineText(line)
  BY LineTextIs DEF DocLine
<1>2. document' = Append(document, l) /\ position' = position + Length(line) + 1
  BY DEF Read
<1> HIDE DEF l
<1>3. position \in Nat /\ Length(line) \in Nat
  BY LineTextIs DEF ChunkerTypes
<1>4. \A c \in Solid(l.text) : c \in Nat /\ c > position /\ c <= position + Length(line)
  <2>1. LineText(line) \in Seq(Nat)
    BY LineTextIs
  <2>2. \A c \in Solid(l.text) : c \in Nat
    BY <1>1, <2>1 DEF Solid
  <2>3. \A c \in Solid(LineText(line)) : c > position /\ c <= position + Length(line)
    BY LineTextIs
  <2> QED
    BY <1>1, <2>2, <2>3
<1>5. Within(l.text, position')
  BY <1>2, <1>3, <1>4 DEF Within
<1> QED
  BY <1>1, <1>2, <1>3, <1>4, <1>5

\* A flush adds the lines of the block being read, or nothing.
LEMMA FlushedIs ==
    ASSUME ChunkerTypes
    PROVE  /\ Flushed \in Seq(Block) /\ Len(Flushed) >= Len(blocks)
           /\ \A k \in DOMAIN blocks : Flushed[k] = blocks[k]
           /\ \A k \in DOMAIN Flushed :
                \/ k \in DOMAIN blocks /\ Flushed[k] = blocks[k]
                \/ /\ k = Len(blocks) + 1 /\ current_lines # << >>
                   /\ Flushed[k].text = text /\ Flushed[k].heading_path = block_path
           /\ current_lines # << >> /\ ~is_heading_only =>
                /\ Len(Flushed) = Len(blocks) + 1
                /\ Flushed[Len(blocks) + 1].text = text
<1> DEFINE b == [text |-> text, heading_path |-> block_path]
<1>1. b \in Block /\ b.text = text /\ b.heading_path = block_path /\ blocks \in Seq(Block)
  BY DEF ChunkerTypes, Block
<1>2. CASE current_lines = << >> \/ is_heading_only
  <2>1. Flushed = blocks
    BY <1>2 DEF Flushed
  <2> QED
    BY <1>1, <1>2, <2>1
<1>3. CASE current_lines # << >> /\ ~is_heading_only
  <2>1. Flushed = Append(blocks, b)
    BY <1>3, Zenon DEF Flushed
  <2> HIDE DEF b
  <2> QED
    BY <1>1, <1>3, <2>1
<1> QED
  BY <1>2, <1>3

\* The first block and the others.
LEMMA HeadTailOf ==
    ASSUME NEW q \in Seq(Block), q # << >>
    PROVE  /\ Head(q) \in Block /\ Head(q) = q[1] /\ 1 \in DOMAIN q
           /\ Tail(q) \in Seq(Block) /\ Len(q) = Len(Tail(q)) + 1
           /\ \A k \in DOMAIN Tail(q) : k + 1 \in DOMAIN q /\ Tail(q)[k] = q[k + 1]
OBVIOUS

\* Closing adds the current chunk, if there is any.
LEMMA ClosedIs ==
    ASSUME ChunkerTypes
    PROVE  /\ Closed \in Seq(ChunkRecord)
           /\ Len(Closed) = IF current = << >> THEN Len(chunks) ELSE Len(chunks) + 1
           /\ \A k \in DOMAIN chunks : Closed[k] = chunks[k]
           /\ current # << >> =>
                /\ Closed[Len(chunks) + 1].content = current
                /\ Closed[Len(chunks) + 1].heading_path = current_heading_path
<1> DEFINE c == Chunk(current)
<1>1. c \in ChunkRecord /\ c.content = current /\ c.heading_path = current_heading_path
      /\ chunks \in Seq(ChunkRecord)
  BY DEF ChunkerTypes, ChunkRecord, Chunk
<1>2. Closed = IF current = << >> THEN chunks ELSE Append(chunks, c)
  BY DEF Closed
<1> HIDE DEF c
<1> QED
  BY <1>1, <1>2

\* A block is joined to what it is to follow.
LEMMA ProposedIs ==
    ASSUME ChunkerTypes, NEW block \in Block
    PROVE  /\ block.text \in Seq(Nat) /\ block.heading_path \in HeadingPaths
           /\ Before(block) \in Seq(Nat) /\ Proposed(block) \in Seq(Nat)
           /\ Solid(Proposed(block)) = Solid(Before(block)) \cup Solid(block.text)
<1>1. block.text \in Seq(Nat) /\ block.heading_path \in HeadingPaths /\ current \in Seq(Nat)
  BY DEF ChunkerTypes, Block
<1>2. Before(block) \in Seq(Nat)
  BY <1>1 DEF Before
<1> QED
  BY <1>1, <1>2, JoinKeeps DEF Proposed

\* A window and what is left after it.
LEMMA WindowIs ==
    ASSUME NEW s \in Seq(Nat), Len(s) > MaxChars
    PROVE  LET window == SubSeq(s, 1, MaxChars)
               rest   == SubSeq(s, Step + 1, Len(s))
           IN  /\ Step \in 1..MaxChars /\ MaxChars \in Nat /\ MaxChars - Step = Overlap
               /\ window \in Seq(Nat) /\ Len(window) = MaxChars
               /\ \A i \in DOMAIN window : window[i] = s[i]
               /\ rest \in Seq(Nat) /\ Len(rest) = Len(s) - Step
               /\ \A i \in DOMAIN rest : i + Step \in DOMAIN s /\ rest[i] = s[i + Step]
               /\ Solid(window) \subseteq Solid(s) /\ Solid(rest) \subseteq Solid(s)
<1>1. Step \in 1..MaxChars /\ MaxChars \in Nat /\ MaxChars - Step = Overlap
  BY ChunkerAssumption DEF Step
<1>2. 1 \in Nat \ {0} /\ MaxChars <= Len(s)
  BY <1>1
<1> DEFINE window == SubSeq(s, 1, MaxChars)
           rest   == SubSeq(s, Step + 1, Len(s))
<1>3. /\ window \in Seq(Nat) /\ Len(window) = IF 1 <= MaxChars THEN (MaxChars - 1) + 1 ELSE 0
      /\ \A i \in DOMAIN window : (1 + i) - 1 \in 1..MaxChars /\ window[i] = s[(1 + i) - 1]
      /\ Solid(window) \subseteq Solid(s)
  BY <1>1, <1>2, PartIs
<1>4. Step + 1 \in Nat \ {0} /\ Len(s) \in Nat /\ Len(s) <= Len(s)
  BY <1>1
<1>5. /\ rest \in Seq(Nat)
      /\ Len(rest) = IF Step + 1 <= Len(s) THEN (Len(s) - (Step + 1)) + 1 ELSE 0
      /\ \A i \in DOMAIN rest :
           ((Step + 1) + i) - 1 \in (Step + 1)..Len(s) /\ rest[i] = s[((Step + 1) + i) - 1]
      /\ Solid(rest) \subseteq Solid(s)
  BY <1>4, PartIs
<1> HIDE DEF window, rest
<1>6. Len(window) = MaxChars /\ Len(rest) = Len(s) - Step
  BY <1>1, <1>2, <1>3, <1>5
<1>7. \A i \in DOMAIN window : window[i] = s[i]
  <2>1. \A i \in DOMAIN window : (1 + i) - 1 = i
    BY <1>3
  <2> QED
    BY <1>3, <2>1
<1>8. \A i \in DOMAIN rest : i + Step \in DOMAIN s /\ rest[i] = s[i + Step]
  <2>1. \A i \in DOMAIN rest : ((Step + 1) + i) - 1 = i + Step /\ i + Step \in 1..Len(s)
    BY <1>1, <1>5, SMTT(30)
  <2> QED
    BY <1>5, <2>1
<1>9. /\ Step \in 1..MaxChars /\ MaxChars \in Nat /\ MaxChars - Step = Overlap
      /\ window \in Seq(Nat) /\ Len(window) = MaxChars
      /\ \A i \in DOMAIN window : window[i] = s[i]
      /\ rest \in Seq(Nat) /\ Len(rest) = Len(s) - Step
      /\ \A i \in DOMAIN rest : i + Step \in DOMAIN s /\ rest[i] = s[i + Step]
      /\ Solid(window) \subseteq Solid(s) /\ Solid(rest) \subseteq Solid(s)
  BY <1>1, <1>3, <1>5, <1>6, <1>7, <1>8
<1> QED
  BY <1>9 DEF window, rest

\* A heading replaces those of its level and below on the stack.
LEMMA PushIs ==
    ASSUME ChunkerTypes, NEW level \in Nat, NEW i \in Nat
    PROVE  /\ PushHeading(level, i) \in HeadingPaths
           /\ DOMAIN PushHeading(level, i)
                = {m \in DOMAIN heading_stack : m < level} \cup {level}
           /\ PushHeading(level, i)[level] = i
           /\ \A n \in DOMAIN heading_stack : n < level =>
                PushHeading(level, i)[n] = heading_stack[n]
<1>1. PICK S \in SUBSET Nat : heading_stack \in [S -> Nat]
  BY DEF ChunkerTypes, HeadingPaths
<1> DEFINE T == {m \in DOMAIN heading_stack : m < level} \cup {level}
<1>2. T \in SUBSET Nat /\ \A n \in T : n # level => n \in S /\ n < level
  BY <1>1
<1>3. PushHeading(level, i) = [n \in T |-> IF n = level THEN i ELSE heading_stack[n]]
  BY DEF PushHeading
<1>4. level \in T /\ \A n \in DOMAIN heading_stack : n < level => n \in T /\ n # level
  BY <1>1
<1> HIDE DEF T
<1>5. PushHeading(level, i) \in [T -> Nat]
  BY <1>1, <1>2, <1>3
<1>6. PushHeading(level, i) \in HeadingPaths
  BY <1>2, <1>5 DEF HeadingPaths
<1>7. /\ DOMAIN PushHeading(level, i) = T
      /\ PushHeading(level, i)[level] = i
      /\ \A n \in DOMAIN heading_stack : n < level =>
           PushHeading(level, i)[n] = heading_stack[n]
  BY <1>3, <1>4
<1> QED
  BY <1>6, <1>7 DEF T

\* The empty path.
LEMMA NoPath == << >> \in HeadingPaths
<1>1. << >> \in [{} -> Nat] /\ {} \in SUBSET Nat
  OBVIOUS
<1> QED
  BY <1>1 DEF HeadingPaths

\* The types hold of the empty locals.
LEMMA ChunkerTypesInit == ChunkerInit => ChunkerTypes
BY NoPath DEF ChunkerInit, ChunkerTypes

\* Every step keeps the types.
LEMMA ChunkerTypesKept == ChunkerTypes /\ [ChunkerNext]_chunkerVars => ChunkerTypes'
<1> SUFFICES ASSUME ChunkerTypes, [ChunkerNext]_chunkerVars PROVE ChunkerTypes'
  OBVIOUS
<1> USE DEF ChunkerTypes
<1>1. ASSUME NEW line \in LineKinds, read_heading(line) PROVE ChunkerTypes'
  <2>1. PICK l \in DocLine : document' = Append(document, l) /\ position' \in Nat
    BY <1>1, Reads DEF read_heading
  <2>2. document' \in Seq(DocLine) /\ NextLine \in Nat
    BY <2>1, Grown DEF NextLine
  <2>3. LineText(line) \in Seq(Nat) /\ line.level \in Nat
    BY LineTextIs
  <2>4. heading_stack' \in HeadingPaths /\ block_path' \in HeadingPaths
    BY <1>1, <2>2, <2>3, PushIs, Zenon DEF read_heading
  <2>5. blocks' \in Seq(Block) /\ current_lines' \in Seq(Nat) /\ text' \in Seq(Nat)
    BY <1>1, <2>2, <2>3, FlushedIs DEF read_heading
  <2> QED
    BY <1>1, <2>1, <2>2, <2>4, <2>5 DEF read_heading, Read, chunkVars
<1>2. ASSUME NEW line \in LineKinds, read_blank(line) PROVE ChunkerTypes'
  <2>1. PICK l \in DocLine : document' = Append(document, l) /\ position' \in Nat
    BY <1>2, Reads DEF read_blank
  <2>2. document' \in Seq(DocLine) /\ blocks' \in Seq(Block)
    BY <1>2, <2>1, Grown, FlushedIs DEF read_blank
  <2> QED
    BY <1>2, <2>1, <2>2 DEF read_blank, Read, chunkVars
<1>3. ASSUME NEW line \in LineKinds, read_text(line) PROVE ChunkerTypes'
  <2>1. PICK l \in DocLine : document' = Append(document, l) /\ position' \in Nat
    BY <1>3, Reads DEF read_text
  <2>2. document' \in Seq(DocLine) /\ NextLine \in Nat
    BY <2>1, Grown DEF NextLine
  <2>3. LineText(line) \in Seq(Nat)
    BY LineTextIs
  <2>4. text' \in Seq(Nat)
    BY <1>3, <2>3, JoinKeeps DEF read_text
  <2> QED
    BY <1>3, <2>1, <2>2, <2>4 DEF read_text, Read, chunkVars
<1>4. CASE end_of_content
  <2>1. blocks' \in Seq(Block)
    BY <1>4, FlushedIs DEF end_of_content
  <2> QED
    BY <1>4, <2>1 DEF end_of_content, chunkVars
<1>5. ASSUME NEW block, TakeBlock(block)
      PROVE  /\ block \in Block /\ blocks' \in Seq(Block) /\ at' = at
             /\ Proposed(block) \in Seq(Nat) /\ block.text \in Seq(Nat)
             /\ block.heading_path \in HeadingPaths /\ Closed \in Seq(ChunkRecord)
  <2>1. block \in Block /\ blocks' \in Seq(Block)
    BY <1>5, HeadTailOf DEF TakeBlock
  <2> QED
    BY <1>5, <2>1, ProposedIs, ClosedIs DEF TakeBlock
<1>6. ASSUME add_block(Head(blocks)) PROVE ChunkerTypes'
  BY <1>5, <1>6 DEF add_block, TakeBlock, blockVars
<1>7. ASSUME open_block(Head(blocks)) PROVE ChunkerTypes'
  BY <1>5, <1>7 DEF open_block, TakeBlock, blockVars
<1>8. CASE cut_window
  <2> DEFINE w == Strip(SubSeq(current, 1, MaxChars))
  <2>1. /\ w \in Seq(Nat)
        /\ Strip(SubSeq(current, Step + 1, Len(current))) \in Seq(Nat)
    BY <1>8, WindowIs, StripKeeps DEF cut_window
  <2>2. Chunk(w) \in ChunkRecord
    BY <2>1 DEF Chunk, ChunkRecord
  <2>3. chunks' \in Seq(ChunkRecord)
    BY <1>8, <2>2 DEF cut_window
  <2> QED
    BY <1>8, <2>1, <2>3 DEF cut_window, blockVars
<1>9. CASE end_of_blocks
  BY <1>9, ClosedIs DEF end_of_blocks, blockVars
<1>10. CASE UNCHANGED chunkerVars
  BY <1>10 DEF chunkerVars, blockVars, chunkVars
<1> QED
  BY <1>1, <1>2, <1>3, <1>4, <1>6, <1>7, <1>8, <1>9, <1>10 DEF ChunkerNext

-----------------------------------------------------------------------------
(* Every text is under its headings.                                       *)

\* Before the first line there is nothing to place.
LEMMA ReadingInit == ChunkerInit => Reading
BY DEF ChunkerInit, Reading, Within, Solid

\* What was within the lines read before is so after one more.
LEMMA WithinMore ==
    ASSUME NEW m \in Nat, NEW n \in Nat, m < n, NEW s \in Seq(Nat), Within(s, m)
    PROVE  Within(s, n)
<1>1. \A c \in Solid(s) : c \in Nat
  BY DEF Solid
<1> QED
  BY <1>1 DEF Within

\* The lines of the document and the blocks after a line has been read.
LEMMA ReadingLines ==
    ASSUME ChunkerTypes, Reading, NEW line \in LineKinds, Read(line)
    PROVE  /\ at' = "markdown_blocks" /\ current' = << >> /\ chunks' = << >>
           /\ \A i \in DOMAIN document' : Within(document'[i].text, position')
           /\ Within(text, position') /\ Within(LineText(line), position')
           /\ \A k \in DOMAIN blocks : Within(blocks[k].text, position')
           /\ \A k \in DOMAIN Flushed : Within(Flushed[k].text, position')
<1>1. PICK l \in DocLine :
        /\ l.text = LineText(line) /\ Within(l.text, position')
        /\ document' = Append(document, l) /\ position' \in Nat /\ position' > position
  BY Reads
<1>2. position \in Nat /\ document \in Seq(DocLine) /\ text \in Seq(Nat) /\ blocks \in Seq(Block)
  BY DEF ChunkerTypes
<1>3. \A i \in DOMAIN document : document[i].text \in Seq(Nat)
  <2>1. \A i \in DOMAIN document : document[i] \in DocLine
    BY <1>2
  <2> QED
    BY <2>1 DEF DocLine
<1>4. \A k \in DOMAIN blocks : blocks[k].text \in Seq(Nat)
  <2>1. \A k \in DOMAIN blocks : blocks[k] \in Block
    BY <1>2
  <2> QED
    BY <2>1 DEF Block
<1>5. \A i \in DOMAIN document : Within(document[i].text, position')
  BY <1>1, <1>2, <1>3, WithinMore DEF Reading
<1>6. \A k \in DOMAIN blocks : Within(blocks[k].text, position')
  BY <1>1, <1>2, <1>4, WithinMore DEF Reading
<1>7. Within(text, position')
  BY <1>1, <1>2, WithinMore DEF Reading
<1>8. \A i \in DOMAIN document' : Within(document'[i].text, position')
  <2>1. \A i \in DOMAIN document' :
          (i \in DOMAIN document /\ document'[i] = document[i]) \/ document'[i] = l
    BY <1>1, <1>2, Grown
  <2> QED
    BY <1>1, <1>5, <2>1
<1>9. \A k \in DOMAIN Flushed : Within(Flushed[k].text, position')
  BY <1>6, <1>7, FlushedIs
<1>10. at' = "markdown_blocks" /\ current' = << >> /\ chunks' = << >>
  BY DEF Read, Reading, chunkVars
<1> QED
  BY <1>1, <1>6, <1>7, <1>8, <1>9, <1>10

\* Every step keeps the place of the loop.
LEMMA ReadingKept == ChunkerTypes /\ Reading /\ [ChunkerNext]_chunkerVars => Reading'
<1> SUFFICES ASSUME ChunkerTypes, Reading, [ChunkerNext]_chunkerVars PROVE Reading'
  OBVIOUS
<1>1. ASSUME NEW line \in LineKinds, read_heading(line) PROVE Reading'
  <2>1. LineText(line) \in Seq(Nat) /\ Len(LineText(line)) > 0
    BY <1>1, LineTextIs DEF read_heading
  <2>2. text' # << >> /\ current_lines' # << >> /\ block_path' = heading_stack'
        /\ blocks' = Flushed /\ text' = LineText(line) /\ Read(line)
    BY <1>1, <2>1 DEF read_heading
  <2> QED
    BY <2>2, ReadingLines DEF Reading
<1>2. ASSUME NEW line \in LineKinds, read_blank(line) PROVE Reading'
  <2>1. text' = << >> /\ current_lines' = << >> /\ blocks' = Flushed /\ Read(line)
    BY <1>2 DEF read_blank
  <2>2. Within(text', position')
    BY <2>1 DEF Within, Solid
  <2> QED
    BY <2>1, <2>2, ReadingLines DEF Reading
<1>3. ASSUME NEW line \in LineKinds, read_text(line) PROVE Reading'
  <2>1. /\ LineText(line) \in Seq(Nat) /\ Len(LineText(line)) > 0 /\ text \in Seq(Nat)
        /\ current_lines \in Seq(Nat) /\ NextLine \in Nat
    BY <1>3, LineTextIs DEF read_text, ChunkerTypes, NextLine
  <2>2. /\ text' = Joined(text, << Space >>, LineText(line)) /\ blocks' = blocks
        /\ Read(line) /\ current_lines' = Append(current_lines, NextLine)
        /\ heading_stack' = heading_stack
        /\ block_path' = IF current_lines = << >> THEN heading_stack ELSE block_path
    BY <1>3 DEF read_text
  <2>3. Solid(text') = Solid(text) \cup Solid(LineText(line))
    BY <2>1, <2>2, JoinKeeps
  <2>4. Within(text', position')
    BY <2>2, <2>3, ReadingLines DEF Within
  <2>5. text' # << >>
    <3>1. CASE text = << >>
      BY <2>1, <2>2, <3>1 DEF Joined
    <3>2. CASE text # << >>
      <4>1. Len(text') = Len(text) + Len(<< Space >>) + Len(LineText(line))
        BY <2>1, <2>2, <3>2, JoinIs
      <4> QED
        BY <2>1, <4>1
    <3> QED
      BY <3>1, <3>2
  <2>6. current_lines' # << >> /\ block_path' = heading_stack'
    BY <2>1, <2>2 DEF Reading
  <2> QED
    BY <2>2, <2>4, <2>5, <2>6, ReadingLines DEF Reading
<1>4. CASE end_of_content
  <2>1. \A k \in DOMAIN Flushed : Within(Flushed[k].text, position)
    BY FlushedIs DEF Reading
  <2>2. text' = << >> /\ current_lines' = << >> /\ blocks' = Flushed /\ at' # "markdown_blocks"
        /\ document' = document /\ position' = position
    BY <1>4 DEF end_of_content
  <2>3. Within(text', position')
    BY <2>2 DEF Within, Solid
  <2> QED
    BY <2>1, <2>2, <2>3 DEF Reading
<1>5. ASSUME blocks # << >>, TakeBlock(Head(blocks)) PROVE Reading'
  <2>1. blocks' = Tail(blocks) /\ at' # "markdown_blocks" /\ UNCHANGED blockVars
    BY <1>5 DEF TakeBlock, Packing
  <2>2. \A k \in DOMAIN Tail(blocks) : Within(Tail(blocks)[k].text, position)
    BY <1>5, HeadTailOf DEF Reading, ChunkerTypes
  <2> QED
    BY <2>1, <2>2 DEF Reading, blockVars
<1>6. CASE cut_window \/ end_of_blocks
  BY <1>6 DEF cut_window, end_of_blocks, Packing, blockVars, Reading
<1>7. CASE UNCHANGED chunkerVars
  BY <1>7 DEF chunkerVars, blockVars, chunkVars, Reading
<1> QED
  BY <1>1, <1>2, <1>3, <1>4, <1>5, <1>6, <1>7 DEF ChunkerNext, add_block, open_block

\* Before the first line no heading is in force and nothing is under any.
LEMMA HeadedInit == ChunkerInit => Headed
<1> SUFFICES ASSUME ChunkerInit PROVE Headed
  OBVIOUS
<1>1. document = << >> /\ heading_stack = << >> /\ text = << >> /\ blocks = << >>
      /\ current = << >> /\ chunks = << >>
  BY DEF ChunkerInit
<1>2. HeadingsAt(<< >>, << >>, 0)
  BY DEF HeadingsAt
<1> QED
  BY <1>1, <1>2, UnderNone DEF Headed, ChunksUnderTheirHeadings

\* What was under its headings is so when a line has been read.
LEMMA ReadingHeaded ==
    ASSUME HeadedInv, NEW line \in LineKinds, Read(line)
    PROVE  /\ Under(document', text, block_path)
           /\ \A k \in DOMAIN blocks : Under(document', blocks[k].text, blocks[k].heading_path)
           /\ \A k \in DOMAIN Flushed :
                Under(document', Flushed[k].text, Flushed[k].heading_path)
           /\ Under(document', current', current_heading_path')
           /\ ChunksUnderTheirHeadings'
<1> USE DEF HeadedInv
<1>1. PICK l \in DocLine :
        document' = Append(document, l) /\ \A c \in Solid(l.text) : c > position
  BY Reads
<1>2. /\ position \in Nat /\ document \in Seq(DocLine) /\ text \in Seq(Nat)
      /\ blocks \in Seq(Block) /\ block_path \in HeadingPaths
  BY DEF ChunkerTypes
<1>3. \A k \in DOMAIN blocks :
        blocks[k].text \in Seq(Nat) /\ blocks[k].heading_path \in HeadingPaths
  <2>1. \A k \in DOMAIN blocks : blocks[k] \in Block
    BY <1>2
  <2> QED
    BY <2>1 DEF Block
<1>4. Under(document', text, block_path)
  BY <1>1, <1>2, UnderStays DEF Headed, Reading
<1>5. \A k \in DOMAIN blocks : Under(document', blocks[k].text, blocks[k].heading_path)
  BY <1>1, <1>2, <1>3, UnderStays DEF Headed, Reading
<1>6. \A k \in DOMAIN Flushed : Under(document', Flushed[k].text, Flushed[k].heading_path)
  BY <1>4, <1>5, FlushedIs
<1>7. Under(document', current', current_heading_path') /\ ChunksUnderTheirHeadings'
  <2>1. current' = << >> /\ chunks' = << >>
    BY ReadingLines
  <2> QED
    BY <2>1, UnderNone DEF ChunksUnderTheirHeadings
<1> QED
  BY <1>4, <1>5, <1>6, <1>7

\* What the path of a block or of a chunk names is in force.
LEMMA HeadedKept == HeadedInv /\ [ChunkerNext]_chunkerVars => Headed'
<1> SUFFICES ASSUME HeadedInv, [ChunkerNext]_chunkerVars PROVE Headed'
  OBVIOUS
<1>0. ChunkerTypes /\ Reading /\ Headed /\ document \in Seq(DocLine) /\ position \in Nat
      /\ heading_stack \in HeadingPaths /\ text \in Seq(Nat)
      /\ HeadingsAt(document, heading_stack, Len(document))
      /\ \A i \in DOMAIN document : Within(document[i].text, position)
  BY DEF HeadedInv, ChunkerTypes, Headed, Reading
<1>1. ASSUME NEW line \in LineKinds, read_heading(line) PROVE Headed'
  <2>1. PICK l \in DocLine :
          /\ l.kind = line.kind /\ l.level = line.level /\ l.text = LineText(line)
          /\ document' = Append(document, l) /\ \A c \in Solid(l.text) : c > position
    BY <1>0, <1>1, Reads DEF read_heading
  <2>2. line.level \in Nat /\ NextLine \in Nat /\ NextLine = Len(document) + 1
    BY <1>0, LineTextIs DEF NextLine
  <2> DEFINE path == PushHeading(line.level, NextLine)
  <2>3. /\ path \in HeadingPaths
        /\ DOMAIN path = {m \in DOMAIN heading_stack : m < line.level} \cup {line.level}
        /\ path[line.level] = NextLine
        /\ \A n \in DOMAIN heading_stack : n < line.level => path[n] = heading_stack[n]
    BY <1>0, <2>2, PushIs, Zenon
  <2>4. heading_stack' = path /\ block_path' = path /\ text' = l.text /\ blocks' = Flushed
        /\ l.kind = "heading" /\ Read(line)
    BY <1>1, <2>1 DEF read_heading
  <2> HIDE DEF path
  <2>5. HeadingsAt(document', path, Len(document) + 1)
    BY <1>0, <2>1, <2>2, <2>3, <2>4, UnderANewOne
  <2>6. Under(document', l.text, path)
    BY <1>0, <2>1, <2>3, <2>5, UnderItsOwn
  <2>7. Len(document') = Len(document) + 1
    BY <1>0, <2>1, Grown
  <2> QED
    BY <2>4, <2>5, <2>6, <2>7, ReadingHeaded DEF Headed
<1>2. ASSUME NEW line \in LineKinds, read_blank(line) PROVE Headed'
  <2>1. PICK l \in DocLine : l.kind = line.kind /\ document' = Append(document, l)
    BY <1>0, <1>2, Reads DEF read_blank
  <2>2. heading_stack' = heading_stack /\ text' = << >> /\ blocks' = Flushed
        /\ l.kind # "heading" /\ Read(line)
    BY <1>2, <2>1 DEF read_blank
  <2>3. HeadingsAt(document', heading_stack, Len(document) + 1)
    BY <1>0, <2>1, <2>2, UnderTheSame
  <2>4. Len(document') = Len(document) + 1
    BY <1>0, <2>1, Grown
  <2> QED
    BY <2>2, <2>3, <2>4, ReadingHeaded, UnderNone DEF Headed
<1>3. ASSUME NEW line \in LineKinds, read_text(line) PROVE Headed'
  <2>1. PICK l \in DocLine :
          /\ l.kind = line.kind /\ l.text = LineText(line)
          /\ document' = Append(document, l) /\ \A c \in Solid(l.text) : c > position
    BY <1>0, <1>3, Reads DEF read_text
  <2>2. /\ heading_stack' = heading_stack /\ blocks' = blocks
        /\ text' = Joined(text, << Space >>, l.text)
        /\ block_path' = IF current_lines = << >> THEN heading_stack ELSE block_path
        /\ l.kind # "heading" /\ Read(line)
    BY <1>3, <2>1 DEF read_text
  <2>3. HeadingsAt(document', heading_stack, Len(document) + 1)
    BY <1>0, <2>1, <2>2, UnderTheSame
  <2>4. Len(document') = Len(document) + 1
    BY <1>0, <2>1, Grown
  <2>5. Under(document', l.text, heading_stack)
    BY <1>0, <2>1, <2>3, UnderItsOwn
  <2>6. block_path' = heading_stack /\ Under(document', text, heading_stack)
    <3>1. CASE current_lines = << >>
      BY <1>0, <2>2, <3>1, UnderNone DEF Reading
    <3>2. CASE current_lines # << >>
      BY <1>0, <2>2, <3>2, ReadingHeaded DEF Reading
    <3> QED
      BY <3>1, <3>2
  <2>7. Solid(text') = Solid(text) \cup Solid(l.text)
    <3>1. l.text \in Seq(Nat)
      BY <1>0, <2>1, LineTextIs
    <3> QED
      BY <1>0, <2>2, <3>1, JoinKeeps
  <2>8. Under(document', text', block_path')
    BY <2>5, <2>6, <2>7, UnderBoth
  <2> QED
    BY <2>2, <2>3, <2>4, <2>8, ReadingHeaded DEF Headed
<1>4. CASE end_of_content
  <2>1. \A k \in DOMAIN Flushed : Under(document, Flushed[k].text, Flushed[k].heading_path)
    BY <1>0, FlushedIs DEF Headed
  <2> QED
    BY <1>0, <1>4, <2>1, UnderNone
    DEF end_of_content, Headed, ChunksUnderTheirHeadings, chunkVars
<1>5. \A k \in DOMAIN Closed : Under(document, Closed[k].content, Closed[k].heading_path)
  <2> SUFFICES ASSUME NEW k \in DOMAIN Closed
               PROVE  Under(document, Closed[k].content, Closed[k].heading_path)
    OBVIOUS
  <2>1. CASE k \in DOMAIN chunks
    BY <1>0, <2>1, ClosedIs DEF Headed, ChunksUnderTheirHeadings
  <2>2. CASE k \notin DOMAIN chunks
    <3>1. current # << >> /\ k = Len(chunks) + 1
      BY <1>0, <2>2, ClosedIs DEF ChunkerTypes
    <3> QED
      BY <1>0, <3>1, ClosedIs DEF Headed
  <2> QED
    BY <2>1, <2>2
<1>6. ASSUME NEW block, TakeBlock(block)
      PROVE  /\ block \in Block /\ Under(document, block.text, block.heading_path)
             /\ \A k \in DOMAIN blocks' :
                  Under(document, blocks'[k].text, blocks'[k].heading_path)
             /\ document' = document /\ heading_stack' = heading_stack
             /\ text' = text /\ block_path' = block_path
  BY <1>0, <1>6, HeadTailOf DEF TakeBlock, blockVars, Headed, ChunkerTypes
<1>7. ASSUME NEW block, block = Head(blocks), add_block(block) PROVE Headed'
  <2>0. /\ TakeBlock(block) /\ current' = Proposed(block)
        /\ chunks' = IF NewSection(block) THEN Closed ELSE chunks
        /\ current_heading_path' = IF Before(block) = << >> THEN block.heading_path
                                   ELSE current_heading_path
    BY <1>7 DEF add_block
  <2>1. \A k \in DOMAIN chunks' : Under(document, chunks'[k].content, chunks'[k].heading_path)
    BY <1>0, <1>5, <2>0 DEF Headed, ChunksUnderTheirHeadings
  <2>2. Under(document, current', current_heading_path')
    <3>1. Solid(current') = Solid(Before(block)) \cup Solid(block.text)
      BY <1>0, <1>6, <2>0, ProposedIs
    <3>2. CASE Before(block) = << >>
      BY <1>6, <2>0, <3>1, <3>2, SMTT(30) DEF Solid, Under
    <3>3. CASE Before(block) # << >>
      <4>1. Before(block) = current /\ block.heading_path = current_heading_path
        BY <3>3 DEF Before, NewSection
      <4>2. Under(document, current, current_heading_path)
        BY <1>0 DEF Headed
      <4> QED
        BY <1>6, <2>0, <3>1, <3>3, <4>1, <4>2, UnderBoth
    <3> QED
      BY <3>2, <3>3
  <2> QED
    BY <1>0, <1>6, <2>0, <2>1, <2>2 DEF Headed, ChunksUnderTheirHeadings
<1>8. ASSUME NEW block, open_block(block) PROVE Headed'
  <2>1. TakeBlock(block) /\ current' = block.text /\ current_heading_path' = block.heading_path
        /\ chunks' = Closed
    BY <1>8 DEF open_block
  <2> QED
    BY <1>0, <1>5, <1>6, <2>1 DEF Headed, ChunksUnderTheirHeadings
<1>9. CASE cut_window
  <2> DEFINE w == Strip(SubSeq(current, 1, MaxChars))
             r == Strip(SubSeq(current, Step + 1, Len(current)))
  <2>1. /\ w \in Seq(Nat) /\ Solid(w) \subseteq Solid(current)
        /\ Solid(r) \subseteq Solid(current)
    BY <1>0, <1>9, WindowIs, StripKeeps DEF cut_window, ChunkerTypes
  <2>2. Under(document, w, current_heading_path) /\ Under(document, r, current_heading_path)
    <3>1. Under(document, current, current_heading_path)
      BY <1>0 DEF Headed
    <3> HIDE DEF w, r
    <3> QED
      BY <2>1, <3>1 DEF Under
  <2>3. Chunk(w) \in ChunkRecord /\ Chunk(w).content = w
        /\ Chunk(w).heading_path = current_heading_path
    BY <1>0, <2>1 DEF Chunk, ChunkRecord, ChunkerTypes
  <2>4. /\ chunks' = Append(chunks, Chunk(w)) /\ current' = r
        /\ current_heading_path' = current_heading_path /\ chunks \in Seq(ChunkRecord)
        /\ UNCHANGED blockVars /\ blocks' = blocks
    BY <1>0, <1>9 DEF cut_window, ChunkerTypes
  <2> HIDE DEF w, r
  <2>5. \A k \in DOMAIN chunks' : (k \in DOMAIN chunks /\ chunks'[k] = chunks[k])
                                   \/ chunks'[k] = Chunk(w)
    BY <2>3, <2>4
  <2>6. \A k \in DOMAIN chunks' : Under(document, chunks'[k].content, chunks'[k].heading_path)
    BY <1>0, <2>2, <2>3, <2>5 DEF Headed, ChunksUnderTheirHeadings
  <2> QED
    BY <1>0, <2>2, <2>4, <2>6 DEF Headed, ChunksUnderTheirHeadings, blockVars
<1>10. CASE end_of_blocks
  BY <1>0, <1>5, <1>10, UnderNone
  DEF end_of_blocks, Headed, ChunksUnderTheirHeadings, blockVars
<1>11. CASE UNCHANGED chunkerVars
  BY <1>0, <1>11 DEF chunkerVars, blockVars, chunkVars, Headed, ChunksUnderTheirHeadings
<1> QED
  BY <1>1, <1>2, <1>3, <1>4, <1>7, <1>8, <1>9, <1>10, <1>11 DEF ChunkerNext

\* In every document, whatever its lines and the bounds of the chunker, no chunk
\* is cited under a heading that is not in force where its text is from, nor
\* without one that is.
THEOREM HeadingPathsAreInForce == ChunkerSpec => []ChunksUnderTheirHeadings
<1>1. ChunkerInit => HeadedInv
  BY ChunkerTypesInit, ReadingInit, HeadedInit DEF HeadedInv
<1>2. HeadedInv /\ [ChunkerNext]_chunkerVars => HeadedInv'
  BY ChunkerTypesKept, ReadingKept, HeadedKept DEF HeadedInv
<1>3. HeadedInv => ChunksUnderTheirHeadings
  BY DEF HeadedInv, Headed
<1> QED
  BY <1>1, <1>2, <1>3, PTL DEF ChunkerSpec

-----------------------------------------------------------------------------
(* Cutting and joining.                                                    *)

\* strip() leaves no white space at the ends, and takes nothing from a text that
\* has none there.
LEMMA StripTrims ==
    ASSUME NEW s \in Seq(Nat)
    PROVE  Trimmed(Strip(s)) /\ (Trimmed(s) => Strip(s) = s)
<1>1. CASE Strip(s) = << >> /\ \A i \in DOMAIN s : s[i] = Space
  <2>1. Trimmed(s) => s = << >>
    BY <1>1 DEF Trimmed
  <2> QED
    BY <1>1, <2>1 DEF Trimmed
<1>2. ASSUME NEW a \in DOMAIN s, NEW b \in DOMAIN s, a <= b, s[a] # Space, s[b] # Space,
             \A i \in DOMAIN s : s[i] # Space => i \in a..b,
             Strip(s) = SubSeq(s, a, b)
      PROVE  Trimmed(Strip(s)) /\ (Trimmed(s) => Strip(s) = s)
  <2>1. a \in Nat \ {0} /\ b \in Nat /\ b <= Len(s)
    OBVIOUS
  <2> DEFINE t == SubSeq(s, a, b)
  <2>2. t \in Seq(Nat) /\ Len(t) = (b - a) + 1 /\ \A i \in DOMAIN t : t[i] = s[(a + i) - 1]
    BY <1>2, <2>1, PartIs
  <2> HIDE DEF t
  <2>3. 1 \in DOMAIN t /\ Len(t) \in DOMAIN t /\ (a + 1) - 1 = a /\ (a + Len(t)) - 1 = b
    <3>1. DOMAIN t = 1..Len(t)
      BY <2>2
    <3>2. Len(t) = (b - a) + 1 /\ a \in Int /\ b \in Int
      BY <2>1, <2>2
    <3>3. (a + 1) - 1 = a /\ (a + Len(t)) - 1 = b
      BY <3>2
    <3>4. 1 \in 1..Len(t) /\ Len(t) \in 1..Len(t)
      BY <1>2, <3>2, SMTT(30)
    <3> QED
      BY <3>1, <3>3, <3>4
  <2>4. Trimmed(t)
    BY <1>2, <2>2, <2>3 DEF Trimmed
  <2>5. ASSUME Trimmed(s) PROVE t = s
    <3>1. s # << >> /\ 1 \in DOMAIN s /\ Len(s) \in DOMAIN s
      BY <2>1
    <3>2. a = 1 /\ b = Len(s)
      BY <1>2, <2>1, <2>5, <3>1 DEF Trimmed
    <3> QED
      BY <3>2 DEF t
  <2> QED
    BY <1>2, <2>4, <2>5 DEF t
<1> QED
  BY StripIs, <1>1, <1>2

\* A part of a text that reads forward, without wide gaps, does so too.
LEMMA PartReadsOn ==
    ASSUME NEW s \in Seq(Nat), NEW t \in Seq(Nat), NEW off \in Nat,
           \A i \in DOMAIN t : off + i \in DOMAIN s /\ t[i] = s[off + i]
    PROVE  (Forward(s) => Forward(t)) /\ (Tight(s) => Tight(t))
<1>1. ASSUME Forward(s), NEW i \in DOMAIN t, NEW j \in DOMAIN t, i < j,
             Space \notin {t[i], t[j]}
      PROVE  t[i] < t[j]
  <2>1. off + i < off + j
    BY <1>1
  <2> QED
    BY <1>1, <2>1 DEF Forward
<1>2. ASSUME Tight(s), NEW i \in 1..(Len(t) - 1) PROVE t[i] # Space \/ t[i + 1] # Space
  <2>1. i \in DOMAIN t /\ i + 1 \in DOMAIN t
    OBVIOUS
  <2>2. off + (i + 1) = (off + i) + 1 /\ off + i \in 1..(Len(s) - 1)
    <3>1. off + i \in DOMAIN s /\ off + (i + 1) \in DOMAIN s
      BY <2>1
    <3>2. i \in Nat /\ DOMAIN s = 1..Len(s)
      OBVIOUS
    <3> QED
      BY <3>1, <3>2
  <2>3. t[i] = s[off + i] /\ t[i + 1] = s[(off + i) + 1]
    BY <2>1, <2>2
  <2> QED
    BY <1>2, <2>2, <2>3 DEF Tight
<1> QED
  BY <1>1, <1>2 DEF Forward, Tight

\* strip() of such a text is such a text.
LEMMA StripReadsOn ==
    ASSUME NEW s \in Seq(Nat)
    PROVE  (Forward(s) => Forward(Strip(s))) /\ (Tight(s) => Tight(Strip(s)))
<1>1. CASE Strip(s) = << >>
  BY <1>1 DEF Forward, Tight
<1>2. ASSUME NEW a \in DOMAIN s, NEW b \in DOMAIN s, a <= b, Strip(s) = SubSeq(s, a, b)
      PROVE  (Forward(s) => Forward(Strip(s))) /\ (Tight(s) => Tight(Strip(s)))
  <2>1. a \in Nat \ {0} /\ b \in Nat /\ b <= Len(s) /\ a - 1 \in Nat
    OBVIOUS
  <2> DEFINE t == SubSeq(s, a, b)
  <2>2. t \in Seq(Nat)
        /\ \A i \in DOMAIN t : (a + i) - 1 \in a..b /\ t[i] = s[(a + i) - 1]
    BY <1>2, <2>1, PartIs
  <2> HIDE DEF t
  <2>3. \A i \in DOMAIN t : (a + i) - 1 = (a - 1) + i /\ (a - 1) + i \in DOMAIN s
    <3>1. a..b \subseteq DOMAIN s /\ DOMAIN t \subseteq Nat
      BY <2>1, <2>2, SMTT(30)
    <3>2. \A i \in DOMAIN t : (a + i) - 1 = (a - 1) + i
      BY <2>1, <3>1
    <3> QED
      BY <2>2, <3>1, <3>2
  <2>4. \A i \in DOMAIN t : (a - 1) + i \in DOMAIN s /\ t[i] = s[(a - 1) + i]
    BY <2>2, <2>3
  <2>5. (Forward(s) => Forward(t)) /\ (Tight(s) => Tight(t))
    BY <2>1, <2>2, <2>4, PartReadsOn
  <2> QED
    BY <1>2, <2>5 DEF t
<1> QED
  BY StripIs, <1>1, <1>2

\* Where each position of a join is from.
LEMMA JoinParts ==
    ASSUME NEW a \in Seq(Nat), NEW b \in Seq(Nat), a # << >>,
           NEW gap \in {<< Space >>, << Space, Space >>},
           NEW i \in DOMAIN Joined(a, gap, b)
    PROVE  LET t == Joined(a, gap, b)
               n == Len(a) + Len(gap)
           IN  \/ i \in DOMAIN a /\ t[i] = a[i]
               \/ i \in (Len(a) + 1)..n /\ t[i] = Space
               \/ i > n /\ i - n \in DOMAIN b /\ t[i] = b[i - n]
<1> DEFINE t == Joined(a, gap, b)
           n == Len(a) + Len(gap)
<1>1. /\ t \in Seq(Nat) /\ Len(t) = n + Len(b)
      /\ \A j \in DOMAIN a : t[j] = a[j]
      /\ \A j \in DOMAIN gap : t[Len(a) + j] = Space
      /\ \A j \in DOMAIN b : t[n + j] = b[j]
  BY JoinIs, ZenonT(40)
<1>2. gap \in Seq(Nat) /\ Len(gap) \in 1..2
  BY GapIs
<1>3. i \in DOMAIN t /\ n \in Nat
  BY <1>2
<1> SUFFICES \/ i \in DOMAIN a /\ t[i] = a[i]
             \/ i \in (Len(a) + 1)..n /\ t[i] = Space
             \/ i > n /\ i - n \in DOMAIN b /\ t[i] = b[i - n]
  OBVIOUS
<1> HIDE DEF t
<1>4. CASE i <= Len(a)
  BY <1>1, <1>3, <1>4
<1>5. CASE i > Len(a) /\ i <= n
  <2>1. i - Len(a) \in DOMAIN gap /\ Len(a) + (i - Len(a)) = i
    BY <1>1, <1>2, <1>3, <1>5, SMTT(30)
  <2> QED
    BY <1>1, <1>3, <1>5, <2>1
<1>6. CASE i > n
  <2>1. i - n \in DOMAIN b /\ n + (i - n) = i
    BY <1>1, <1>3, <1>6, SMTT(30)
  <2> HIDE DEF n
  <2> QED
    BY <1>1, <1>6, <2>1
<1> QED
  BY <1>1, <1>3, <1>4, <1>5, <1>6

\* Texts of which one precedes the other are joined into one that reads forward.
LEMMA JoinReadsOn ==
    ASSUME NEW a \in Seq(Nat), NEW b \in Seq(Nat), NEW gap \in {<< Space >>, << Space, Space >>},
           Trimmed(a), Trimmed(b), Forward(a), Forward(b), b # << >>, Precedes(a, b)
    PROVE  LET t == Joined(a, gap, b)
           IN  /\ t # << >> /\ Trimmed(t) /\ Forward(t)
               /\ gap = << Space >> /\ Tight(a) /\ Tight(b) => Tight(t)
<1> DEFINE t == Joined(a, gap, b)
           n == Len(a) + Len(gap)
<1>0. CASE a = << >>
  BY <1>0 DEF Joined
<1>1. CASE a # << >>
  <2>1. /\ t \in Seq(Nat) /\ Len(t) = n + Len(b)
        /\ \A j \in DOMAIN a : t[j] = a[j]
        /\ \A j \in DOMAIN b : t[n + j] = b[j]
    BY <1>1, JoinIs, ZenonT(40)
  <2>2. n \in Nat /\ n > Len(a)
    <3>1. Len(gap) \in 1..2 /\ gap \in Seq(Nat)
      BY GapIs
    <3>2. Len(a) \in Nat
      OBVIOUS
    <3>3. n \in Nat
      BY <3>1, <3>2
    <3>4. \A m \in Nat, g \in 1..2 : m + g > m
      OBVIOUS
    <3>5. n > Len(a)
      BY <3>1, <3>2, <3>4, Zenon
    <3> QED
      BY <3>3, <3>5
  <2>3. \A i \in DOMAIN t :
          \/ i \in DOMAIN a /\ t[i] = a[i]
          \/ i \in (Len(a) + 1)..n /\ t[i] = Space
          \/ i > n /\ i - n \in DOMAIN b /\ t[i] = b[i - n]
    BY <1>1, JoinParts
  <2> HIDE DEF t
  <2>9. \A i \in DOMAIN t : i > n => i - n \in DOMAIN b /\ t[i] = b[i - n]
    BY <2>2, <2>3
  <2> HIDE DEF n
  <2>4. t # << >> /\ Trimmed(t)
    <3>1. 1 \in DOMAIN a /\ Len(b) \in DOMAIN b
      BY <1>1
    <3>2. t[1] = a[1]
      BY <2>1, <3>1
    <3>3. t[n + Len(b)] = b[Len(b)]
      BY <2>1, <3>1
    <3>4. Len(t) = n + Len(b) /\ Len(t) > 0
      BY <2>1, <2>2
    <3> QED
      BY <1>1, <2>1, <3>2, <3>3, <3>4 DEF Trimmed
  <2>5. Forward(t)
    <3> SUFFICES ASSUME NEW i \in DOMAIN t, NEW j \in DOMAIN t, i < j,
                        Space \notin {t[i], t[j]}
                 PROVE  t[i] < t[j]
      BY DEF Forward
    <3>1. CASE i \in DOMAIN a /\ j \in DOMAIN a
      <4>1. t[i] = a[i] /\ t[j] = a[j]
        BY <2>1, <3>1
      <4> QED
        BY <3>1, <4>1 DEF Forward
    <3>2. CASE i \in DOMAIN a /\ j > n
      <4>1. t[i] = a[i] /\ j - n \in DOMAIN b /\ t[j] = b[j - n]
        BY <2>1, <2>9, <3>2
      <4>2. t[i] \in Solid(a) /\ t[j] \in Solid(b)
        BY <3>2, <4>1 DEF Solid
      <4> QED
        BY <4>2 DEF Precedes
    <3>3. CASE i > n
      <4>1. j > n /\ i - n < j - n
        BY <2>1, <2>2, <3>3
      <4>2. i - n \in DOMAIN b /\ t[i] = b[i - n] /\ j - n \in DOMAIN b /\ t[j] = b[j - n]
        BY <2>9, <3>3, <4>1
      <4> QED
        BY <4>1, <4>2 DEF Forward
    <3> QED
      BY <2>1, <2>2, <2>3, <3>1, <3>2, <3>3
  <2>6. ASSUME gap = << Space >>, Tight(a), Tight(b) PROVE Tight(t)
    <3>1. n = Len(a) + 1
      BY <2>6 DEF n
    <3> SUFFICES ASSUME NEW i \in 1..(Len(t) - 1) PROVE t[i] # Space \/ t[i + 1] # Space
      BY DEF Tight
    <3>2. CASE i < Len(a)
      <4>1. i \in 1..(Len(a) - 1) /\ i \in DOMAIN a /\ i + 1 \in DOMAIN a
        BY <2>1, <3>2, SMTT(30)
      <4> QED
        BY <2>1, <2>6, <4>1 DEF Tight
    <3>3. CASE i = Len(a)
      BY <1>1, <2>1, <3>3 DEF Trimmed
    <3>4. CASE i = n
      <4>1. 1 \in DOMAIN b /\ n + 1 = i + 1
        BY <3>4
      <4> QED
        BY <2>1, <4>1 DEF Trimmed
    <3>5. CASE i > n
      <4>1. i - n \in 1..(Len(b) - 1) /\ i - n \in DOMAIN b /\ (i - n) + 1 \in DOMAIN b
            /\ n + (i - n) = i /\ n + ((i - n) + 1) = i + 1
        BY <2>1, <2>2, <3>5
      <4>2. b[i - n] # Space \/ b[(i - n) + 1] # Space
        BY <2>6, <4>1, Zenon DEF Tight
      <4>3. t[n + (i - n)] = b[i - n] /\ t[n + ((i - n) + 1)] = b[(i - n) + 1]
        BY <2>1, <4>1, Zenon
      <4> QED
        BY <4>1, <4>2, <4>3
    <3> QED
      BY <2>1, <2>2, <3>1, <3>2, <3>3, <3>4, <3>5
  <2> QED
    BY <2>4, <2>5, <2>6 DEF t
<1> QED
  BY <1>0, <1>1

\* A text that another precedes continues it, and so does whatever it is joined
\* to such a text's end.
LEMMA FreshContinues ==
    ASSUME NEW s \in Seq(Nat), NEW a \in Seq(Nat), s # << >>, Trimmed(s), Precedes(a, s)
    PROVE  Continues(s, a)
<1>1. \A i \in DOMAIN s : s[i] # Space => s[i] \in Beyond(s, a)
  BY DEF Beyond, Precedes, Solid
<1>2. 1 \in DOMAIN s /\ 1 <= MaxChars /\ s[1] # Space
  BY ChunkerAssumption DEF Trimmed
<1> QED
  BY <1>1, <1>2 DEF Continues

\* A text that goes on beyond a chunk still does with another one joined to it.
LEMMA JoinContinues ==
    ASSUME NEW s \in Seq(Nat), NEW a \in Seq(Nat), NEW b \in Seq(Nat), s # << >>,
           NEW gap \in {<< Space >>, << Space, Space >>}, Continues(s, a), Precedes(a, b)
    PROVE  Continues(Joined(s, gap, b), a)
<1> DEFINE t == Joined(s, gap, b)
<1>1. Solid(t) = Solid(s) \cup Solid(b) /\ t \in Seq(Nat)
  BY JoinKeeps, ZenonT(40)
<1>2. Beyond(s, a) \subseteq Beyond(t, a) /\ Solid(b) \subseteq Beyond(t, a)
  BY <1>1 DEF Beyond, Precedes
<1>3. ASSUME NEW i \in DOMAIN t
      PROVE  t[i] = Space \/ t[i] \in Beyond(t, a) \/ (i <= Overlap /\ t[i] \in Solid(a))
  <2>1. CASE i \in DOMAIN s /\ t[i] = s[i]
    BY <1>2, <2>1 DEF Continues
  <2>2. CASE t[i] = Space
    BY <2>2
  <2>3. CASE \E j \in DOMAIN b : t[i] = b[j]
    BY <1>2, <2>3 DEF Solid
  <2>4. \/ i \in DOMAIN s /\ t[i] = s[i]
        \/ t[i] = Space
        \/ i - (Len(s) + Len(gap)) \in DOMAIN b /\ t[i] = b[i - (Len(s) + Len(gap))]
    BY JoinParts
  <2> QED
    BY <2>1, <2>2, <2>3, <2>4, Zenon
<1>4. ASSUME Step > 1 PROVE \E i \in DOMAIN t : i <= MaxChars /\ t[i] \in Beyond(t, a)
  <2>1. PICK i \in DOMAIN s : i <= MaxChars /\ s[i] \in Beyond(s, a)
    BY <1>4 DEF Continues
  <2>2. Len(t) = Len(s) + Len(gap) + Len(b) /\ \A j \in DOMAIN s : t[j] = s[j]
    <3>1. /\ t \in Seq(Nat)
          /\ Len(t) = Len(s) + Len(gap) + Len(b)
          /\ \A j \in DOMAIN s : t[j] = s[j]
          /\ \A j \in DOMAIN gap : t[Len(s) + j] = Space
          /\ \A j \in DOMAIN b : t[Len(s) + Len(gap) + j] = b[j]
      BY JoinIs, ZenonT(40)
    <3> QED
      BY <3>1, Zenon
  <2>3. Len(gap) \in Nat
    BY GapIs
  <2> HIDE DEF t
  <2>4. i \in DOMAIN t /\ t[i] = s[i]
    BY <1>1, <2>2, <2>3
  <2> QED
    BY <1>2, <2>1, <2>2, <2>4
<1> QED
  BY <1>3, <1>4 DEF Continues

\* The first characters of a text that continues a chunk may follow it.
LEMMA MayFollow ==
    ASSUME NEW s \in Seq(Nat), NEW a \in Seq(Nat), NEW w \in Seq(Nat), Continues(s, a),
           Solid(w) \subseteq Solid(s),
           \A i \in DOMAIN s : i <= MaxChars /\ s[i] # Space => s[i] \in Solid(w)
    PROVE  Follows(w, a)
<1>1. \A c \in Beyond(s, a) : c \in Solid(w) => c \in Beyond(w, a)
  BY DEF Beyond
<1>2. \A c \in Beyond(s, a) : c # Space /\ c \notin Solid(a)
  <2>1. \A c \in Solid(a) : c \in Nat /\ ~(c < c)
    BY DEF Solid
  <2>2. \A c \in Beyond(s, a) : c \in Solid(s) /\ \A d \in Solid(a) : d < c
    BY DEF Beyond
  <2> QED
    BY <2>1, <2>2 DEF Solid
<1>3. Step > 1 => Beyond(w, a) # {}
  BY <1>1, <1>2 DEF Continues
<1>4. Solid(w) \subseteq Solid(a) \cup Beyond(w, a)
  <2> SUFFICES ASSUME NEW c \in Solid(w) PROVE c \in Solid(a) \cup Beyond(w, a)
    OBVIOUS
  <2>1. PICK i \in DOMAIN s : c = s[i] /\ c # Space
    BY DEF Solid
  <2> QED
    BY <1>1, <2>1 DEF Continues
<1>5. Cardinality(Solid(a) \cap Solid(w)) <= Overlap
  <2> DEFINE I == {i \in 1..Overlap : i \in DOMAIN s}
             f == [i \in I |-> s[i]]
             T == {f[i] : i \in I}
  <2>1. Overlap \in Nat
    BY ChunkerAssumption
  <2>2. IsFiniteSet(1..Overlap) /\ Cardinality(1..Overlap) = Overlap
    BY <2>1, FS_Interval
  <2>3. IsFiniteSet(I) /\ Cardinality(I) <= Overlap
    <3>1. I \in SUBSET (1..Overlap)
      OBVIOUS
    <3> HIDE DEF I
    <3> QED
      BY <2>2, <3>1, FS_Subset
  <2>4. IsFiniteSet(T) /\ Cardinality(T) <= Cardinality(I)
    <3>1. f \in [I -> T] /\ T = {f[i] : i \in I}
      OBVIOUS
    <3>2. f \in Surjection(I, T)
      BY <3>1 DEF Surjection
    <3> HIDE DEF I, f, T
    <3> QED
      BY <2>3, <3>2, FS_Surjection
  <2>5. Solid(a) \cap Solid(w) \in SUBSET T
    <3> SUFFICES ASSUME NEW c \in Solid(a), c \in Solid(w) PROVE c \in T
      OBVIOUS
    <3>1. PICK i \in DOMAIN s : c = s[i] /\ c # Space
      BY DEF Solid
    <3>2. i <= Overlap
      BY <1>2, <3>1 DEF Continues
    <3>3. i \in I
      BY <2>1, <3>1, <3>2
    <3> QED
      BY <3>1, <3>3
  <2>6. Cardinality(Solid(a) \cap Solid(w)) <= Cardinality(T)
    <3> HIDE DEF I, f, T
    <3> QED
      BY <2>4, <2>5, FS_Subset
  <2>7. Cardinality(Solid(a) \cap Solid(w)) \in Nat /\ Cardinality(T) \in Nat
        /\ Cardinality(I) \in Nat
    <3> HIDE DEF I, f, T
    <3>1. IsFiniteSet(Solid(a) \cap Solid(w))
      BY <2>4, <2>5, FS_Subset
    <3> QED
      BY <2>3, <2>4, <3>1, FS_CardinalityType
  <2> HIDE DEF I, f, T
  <2> QED
    BY <2>1, <2>3, <2>4, <2>6, <2>7
<1> QED
  BY <1>3, <1>4, <1>5 DEF Follows

\* What is left of a text when a window has been cut off: all of it but step
\* characters, and one more if that is white space.
LEMMA RestIs ==
    ASSUME NEW s \in Seq(Nat), Len(s) > MaxChars, Trimmed(s), Tight(s)
    PROVE  LET r == Strip(SubSeq(s, Step + 1, Len(s)))
           IN  /\ r \in Seq(Nat) /\ r # << >> /\ Trimmed(r)
               /\ \E off \in {Step, Step + 1} :
                    /\ Len(r) = Len(s) - off
                    /\ \A i \in DOMAIN r : off + i \in DOMAIN s /\ r[i] = s[off + i]
                    /\ off = Step + 1 => s[Step + 1] = Space
<1> DEFINE t == SubSeq(s, Step + 1, Len(s))
           r == Strip(t)
<1>1. /\ Step \in 1..MaxChars /\ MaxChars \in Nat
      /\ t \in Seq(Nat) /\ Len(t) = Len(s) - Step
      /\ \A i \in DOMAIN t : i + Step \in DOMAIN s /\ t[i] = s[i + Step]
  BY WindowIs
<1>2. r \in Seq(Nat) /\ Trimmed(r)
  BY <1>1, StripKeeps, StripTrims
<1>3. \/ r = << >> /\ \A i \in DOMAIN t : t[i] = Space
      \/ \E a, b \in DOMAIN t :
           /\ a <= b /\ t[a] # Space /\ t[b] # Space
           /\ \A i \in DOMAIN t : t[i] # Space => i \in a..b
           /\ r = SubSeq(t, a, b)
  BY <1>1, StripIs
<1> HIDE DEF t
<1>a. /\ DOMAIN t = 1..Len(t) /\ Len(t) \in Nat /\ Len(s) \in Nat /\ DOMAIN s = 1..Len(s)
       /\ Step \in Nat /\ Step >= 1 /\ Len(t) = Len(s) - Step
  BY <1>1
<1>4. Len(t) \in DOMAIN t /\ t[Len(t)] # Space /\ Len(t) >= 1
  <2>1. Len(t) \in 1..Len(t)
    BY <1>1
  <2>2. Len(t) \in DOMAIN t /\ Len(t) + Step = Len(s) /\ Len(s) > 0
    BY <1>1, <2>1
  <2>3. t[Len(t)] = s[Len(s)]
    BY <1>1, <2>2
  <2> QED
    BY <1>1, <2>1, <2>2, <2>3 DEF Trimmed
<1>5. PICK a, b \in DOMAIN t :
        /\ a <= b /\ t[a] # Space
        /\ \A i \in DOMAIN t : t[i] # Space => i \in a..b
        /\ r = SubSeq(t, a, b)
  BY <1>3, <1>4
<1> HIDE DEF r
<1>6. b = Len(t) /\ a \in Nat \ {0} /\ b \in Nat /\ a <= Len(t)
  <2>1. Len(t) \in a..b
    BY <1>4, <1>5
  <2>2. a \in 1..Len(t) /\ b \in 1..Len(t)
    BY <1>a
  <2> QED
    BY <1>a, <2>1, <2>2
<1>7. a = 1 \/ (a = 2 /\ s[Step + 1] = Space)
  <2>1. 1 \in DOMAIN t /\ 1 + Step = Step + 1 /\ t[1] = s[Step + 1]
    <3>1. 1 \in 1..Len(t)
      BY <1>1, <1>4
    <3>2. 1 \in DOMAIN t /\ 1 + Step = Step + 1
      BY <1>1, <3>1
    <3> QED
      BY <1>1, <3>2
  <2>2. CASE t[1] # Space
    <3>1. 1 \in a..b
      BY <1>5, <2>1, <2>2
    <3> QED
      BY <1>6, <3>1
  <2>3. CASE t[1] = Space
    <3>0. Len(t) # 1
      BY <1>4, <2>3
    <3>1. Len(t) > 1
      <4>1. \A n \in Nat : n >= 1 /\ n # 1 => n > 1
        OBVIOUS
      <4>2. Len(t) \in Nat /\ Len(t) >= 1
        BY <1>4, <1>a
      <4> QED
        BY <3>0, <4>1, <4>2, Zenon
    <3>2. 2 \in DOMAIN t /\ 2 + Step = (Step + 1) + 1 /\ Step + 1 \in 1..(Len(s) - 1)
      BY <1>a, <3>1
    <3>3. t[2] = s[(Step + 1) + 1]
      BY <1>1, <3>2
    <3>4. t[2] # Space
      BY <2>1, <2>3, <3>2, <3>3 DEF Tight
    <3>5. 2 \in a..b
      BY <1>5, <3>2, <3>4
    <3>6. a # 1
      BY <1>5, <2>3
    <3> QED
      BY <1>6, <2>1, <2>3, <3>5, <3>6
  <2> QED
    BY <2>2, <2>3
<1>8. /\ Len(r) = IF a <= b THEN (b - a) + 1 ELSE 0
      /\ \A i \in DOMAIN r : (a + i) - 1 \in a..b /\ r[i] = t[(a + i) - 1]
  <2>1. b <= Len(t)
    BY <1>6
  <2> QED
    BY <1>1, <1>5, <1>6, <2>1, PartIs
<1> DEFINE off == (Step + a) - 1
<1>9. off \in {Step, Step + 1} /\ (off = Step + 1 => s[Step + 1] = Space)
  <2>1. CASE a = 1
    <3>1. off = Step /\ off # Step + 1
      BY <1>a, <2>1
    <3> QED
      BY <3>1
  <2>2. CASE a = 2 /\ s[Step + 1] = Space
    <3>1. off = Step + 1
      BY <1>a, <2>2
    <3> QED
      BY <2>2, <3>1
  <2> QED
    BY <1>7, <2>1, <2>2
<1>10. Len(r) = Len(s) - off /\ r # << >>
  <2>1. Len(r) = (b - a) + 1
    BY <1>6, <1>8
  <2>2. Len(r) = Len(s) - off /\ Len(r) >= 1
    BY <1>6, <1>a, <2>1, SMTT(30)
  <2> QED
    BY <1>2, <2>2
<1>11. ASSUME NEW i \in DOMAIN r PROVE off + i \in DOMAIN s /\ r[i] = s[off + i]
  <2>1. (a + i) - 1 \in a..b /\ r[i] = t[(a + i) - 1]
    BY <1>8
  <2>2. (a + i) - 1 \in DOMAIN t
    BY <1>6, <1>a, <2>1
  <2>3. i \in Nat
    BY <1>2
  <2>4. ((a + i) - 1) + Step = off + i
    BY <1>6, <1>a, <2>3
  <2> HIDE DEF off
  <2> QED
    BY <1>1, <2>1, <2>2, <2>4
<1> HIDE DEF off
<1> QED
  BY <1>2, <1>9, <1>10, <1>11 DEF r, t

\* It continues the window, reads forward like the text, and no character of the
\* text is in neither.
LEMMA RestContinues ==
    ASSUME NEW s \in Seq(Nat), Len(s) > MaxChars, Trimmed(s), Tight(s), Forward(s)
    PROVE  LET w == Strip(SubSeq(s, 1, MaxChars))
               r == Strip(SubSeq(s, Step + 1, Len(s)))
           IN  /\ w \in Seq(Nat) /\ WellCut(w)
               /\ Solid(w) \subseteq Solid(s)
               /\ \A i \in DOMAIN s : i <= MaxChars /\ s[i] # Space => s[i] \in Solid(w)
               /\ r \in Seq(Nat) /\ r # << >> /\ Trimmed(r) /\ Forward(r) /\ Tight(r)
               /\ Solid(r) \subseteq Solid(s) /\ Solid(s) \subseteq Solid(w) \cup Solid(r)
               /\ Continues(r, w)
<1> DEFINE v == SubSeq(s, 1, MaxChars)
           t == SubSeq(s, Step + 1, Len(s))
           w == Strip(v)
           r == Strip(t)
<1>1. /\ Step \in 1..MaxChars /\ MaxChars \in Nat /\ MaxChars - Step = Overlap
      /\ v \in Seq(Nat) /\ Len(v) = MaxChars
      /\ \A i \in DOMAIN v : v[i] = s[i]
      /\ t \in Seq(Nat) /\ Len(t) = Len(s) - Step
      /\ \A i \in DOMAIN t : i + Step \in DOMAIN s /\ t[i] = s[i + Step]
      /\ Solid(v) \subseteq Solid(s) /\ Solid(t) \subseteq Solid(s)
  BY WindowIs
<1>2. /\ r \in Seq(Nat) /\ r # << >> /\ Trimmed(r)
      /\ \E off \in {Step, Step + 1} :
           /\ Len(r) = Len(s) - off
           /\ \A i \in DOMAIN r : off + i \in DOMAIN s /\ r[i] = s[off + i]
           /\ off = Step + 1 => s[Step + 1] = Space
  BY RestIs
<1>3. /\ w \in Seq(Nat) /\ Len(w) <= Len(v) /\ Solid(w) = Solid(v)
      /\ Solid(r) = Solid(t) /\ Trimmed(w)
  BY <1>1, StripKeeps, StripTrims
<1>4. Strip(w) = w
  <2> HIDE DEF w
  <2> QED
    BY <1>3, StripTrims
<1>5. Forward(w)
  <2>1. Forward(v)
    <3> HIDE DEF v
    <3>1. \A i \in DOMAIN v : 0 + i \in DOMAIN s /\ v[i] = s[0 + i]
      <4>1. DOMAIN v = 1..MaxChars /\ MaxChars \in Nat
        BY <1>1
      <4>2. \A i \in DOMAIN v : 0 + i = i /\ i \in DOMAIN s
        BY <4>1
      <4> QED
        BY <1>1, <4>2
    <3> QED
      BY <1>1, <3>1, PartReadsOn
  <2> HIDE DEF v
  <2> QED
    BY <1>1, <2>1, StripReadsOn
<1> HIDE DEF v, t, w, r
<1>6. Step \in Nat /\ Step >= 1 /\ Step <= MaxChars
        /\ MaxChars \in Nat /\ Overlap = MaxChars - Step
      /\ Len(s) \in Nat /\ DOMAIN s = 1..Len(s) /\ DOMAIN v = 1..MaxChars
  BY <1>1
<1>7. \A i \in DOMAIN s : i <= MaxChars /\ s[i] # Space => s[i] \in Solid(w)
  <2> SUFFICES ASSUME NEW i \in DOMAIN s, i <= MaxChars, s[i] # Space PROVE s[i] \in Solid(v)
    BY <1>3
  <2>1. i \in DOMAIN v
    BY <1>6
  <2>2. v[i] = s[i]
    BY <1>1, <2>1
  <2> QED
    BY <2>1, <2>2 DEF Solid
<1>8. Forward(r) /\ Tight(r)
  <2>1. PICK off \in {Step, Step + 1} :
          \A i \in DOMAIN r : off + i \in DOMAIN s /\ r[i] = s[off + i]
    BY <1>2
  <2>2. off \in Nat
    BY <1>6
  <2> QED
    BY <1>2, <2>1, <2>2, PartReadsOn
<1>9. w # << >> /\ WellCut(w)
  <2>1. 1 \in DOMAIN s /\ 1 <= MaxChars /\ s[1] # Space
    BY <1>6 DEF Trimmed
  <2>2. s[1] \in Solid(w)
    BY <1>7, <2>1
  <2>3. w # << >>
    BY <2>2 DEF Solid
  <2>4. Len(w) <= MaxChars
    BY <1>1, <1>3
  <2> QED
    BY <1>4, <1>5, <2>3, <2>4 DEF WellCut, Forward
<1>10. Solid(s) \subseteq Solid(w) \cup Solid(r)
  <2> SUFFICES ASSUME NEW c \in Solid(s), c \notin Solid(w) PROVE c \in Solid(t)
    BY <1>3
  <2>1. PICK j \in DOMAIN s : c = s[j] /\ s[j] # Space
    BY DEF Solid
  <2>2. j > MaxChars
    BY <1>6, <1>7, <2>1
  <2>3. j - Step \in 1..(Len(s) - Step) /\ (j - Step) + Step = j
    BY <1>6, <2>2
  <2>4. j - Step \in DOMAIN t
    BY <1>1, <2>3
  <2>5. t[j - Step] = s[j]
    BY <1>1, <2>3, <2>4
  <2> QED
    BY <2>1, <2>4, <2>5 DEF Solid
<1>11. Continues(r, w)
  <2>1. PICK off \in {Step, Step + 1} :
          /\ Len(r) = Len(s) - off
          /\ \A i \in DOMAIN r : off + i \in DOMAIN s /\ r[i] = s[off + i]
          /\ off = Step + 1 => s[Step + 1] = Space
    BY <1>2
  <2>2. off \in Nat /\ off >= Step /\ off <= Step + 1 /\ DOMAIN r = 1..(Len(s) - off)
    <3>1. DOMAIN r = 1..Len(r)
      BY <1>2
    <3>2. off \in Nat /\ off >= Step /\ off <= Step + 1
      BY <1>6
    <3> QED
      BY <2>1, <3>1, <3>2
  <2>3. \A m \in DOMAIN s : m > MaxChars /\ s[m] # Space =>
          \A d \in Solid(w) : d < s[m]
    <3> SUFFICES ASSUME NEW m \in DOMAIN s, m > MaxChars, s[m] # Space, NEW d \in Solid(v)
                 PROVE  d < s[m]
      BY <1>3
    <3>1. PICK k \in DOMAIN v : d = v[k] /\ d # Space
      BY DEF Solid
    <3>2. k \in DOMAIN s /\ k < m
      BY <1>6
    <3>3. v[k] = s[k]
      BY <1>1
    <3> QED
      BY <3>1, <3>2, <3>3 DEF Forward
  <2>4. \A i \in DOMAIN r : r[i] # Space /\ off + i > MaxChars => r[i] \in Beyond(r, w)
    BY <2>1, <2>3 DEF Beyond, Solid
  <2>5. ASSUME NEW i \in DOMAIN r, r[i] # Space, off + i <= MaxChars
        PROVE  i <= Overlap /\ r[i] \in Solid(w)
    <3>1. i <= Overlap
      BY <1>6, <2>2, <2>5
    <3> QED
      BY <1>7, <2>1, <2>5, <3>1
  <2>6. ASSUME Step > 1 PROVE \E i \in DOMAIN r : i <= MaxChars /\ r[i] \in Beyond(r, w)
    <3>1. PICK m \in {MaxChars + 1, MaxChars + 2} :
            m <= Len(s) /\ s[m] # Space /\ m > off
      <4>1. CASE s[MaxChars + 1] # Space
        <5>1. off # Step + 1 \/ Step # MaxChars
          BY <2>1, <4>1
        <5>2. MaxChars + 1 > off
          BY <1>6, <2>2, <5>1
        <5>3. MaxChars + 1 <= Len(s)
          BY <1>6
        <5> QED
          BY <4>1, <5>2, <5>3
      <4>2. CASE s[MaxChars + 1] = Space
        <5>1. s[Len(s)] # Space
          BY <1>6 DEF Trimmed
        <5>2. Len(s) # MaxChars + 1
          BY <4>2, <5>1
        <5>a. \A n \in Nat, m \in Nat : n > m /\ n # m + 1 =>
                m + 1 \in 1..(n - 1) /\ (m + 1) + 1 = m + 2
          OBVIOUS
        <5>3. MaxChars + 1 \in 1..(Len(s) - 1) /\ (MaxChars + 1) + 1 = MaxChars + 2
          BY <1>6, <5>2, <5>a, Zenon
        <5>4. s[MaxChars + 2] # Space
          BY <4>2, <5>3 DEF Tight
        <5>5. MaxChars + 2 <= Len(s) /\ MaxChars + 2 > off
          BY <1>6, <2>2, <5>3
        <5> QED
          BY <5>4, <5>5
      <4> QED
        BY <4>1, <4>2
    <3>2. m - off \in DOMAIN r /\ m - off <= MaxChars /\ off + (m - off) = m /\ m > MaxChars
      BY <1>6, <2>2, <2>6, <3>1
    <3>3. r[m - off] = s[m]
      BY <2>1, <3>2
    <3>4. r[m - off] \in Beyond(r, w)
      BY <2>4, <3>1, <3>2, <3>3
    <3> QED
      BY <3>2, <3>4
  <2>7. \A i \in DOMAIN r : off + i > MaxChars \/ off + i <= MaxChars
    BY <1>6, <2>2
  <2> QED
    BY <2>4, <2>5, <2>6, <2>7 DEF Continues
<1>12. Solid(w) \subseteq Solid(s) /\ Solid(r) \subseteq Solid(s)
  BY <1>1, <1>3
<1> QED
  BY <1>2, <1>3, <1>7, <1>8, <1>9, <1>10, <1>11, <1>12 DEF w, r, v, t

-----------------------------------------------------------------------------
(* Reading loses no text and keeps its order.                              *)

\* The types of the pieces.
LEMMA PiecesTyped ==
    ASSUME ChunkerTypes
    PROVE  /\ \A i \in DOMAIN document : document[i] \in DocLine /\ document[i].text \in Seq(Nat)
           /\ \A k \in DOMAIN blocks : blocks[k] \in Block /\ blocks[k].text \in Seq(Nat)
           /\ \A k \in DOMAIN chunks :
                chunks[k] \in ChunkRecord /\ chunks[k].content \in Seq(Nat)
<1>1. document \in Seq(DocLine) /\ blocks \in Seq(Block) /\ chunks \in Seq(ChunkRecord)
  BY DEF ChunkerTypes
<1>2. /\ \A i \in DOMAIN document : document[i] \in DocLine
      /\ \A k \in DOMAIN blocks : blocks[k] \in Block
      /\ \A k \in DOMAIN chunks : chunks[k] \in ChunkRecord
  BY <1>1
<1> QED
  BY <1>2 DEF DocLine, Block, ChunkRecord

\* A line has one white space at most, which is at neither end.
LEMMA LineIsClean ==
    ASSUME ChunkerTypes, NEW line \in LineKinds, line.kind # "blank"
    PROVE  LineText(line) # << >> /\ Clean(LineText(line))
<1> DEFINE s == LineText(line)
<1>1. /\ s \in Seq(Nat) /\ Length(line) \in Nat /\ Length(line) > 0 /\ Len(s) = Length(line)
      /\ \A c \in 1..Length(line) :
           s[c] = position + c \/ (s[c] = Space /\ line.kind = "heading" /\ c = line.level + 1)
      /\ line.level \in Nat
      /\ line.kind = "heading" => line.level > 0 /\ Length(line) > line.level + 1
  BY LineTextIs
<1>2. position \in Nat /\ Space = 0
  BY DEF ChunkerTypes, Space
<1> HIDE DEF s
<1>3. s # << >>
  BY <1>1
<1>4. \A c \in 1..Length(line) : s[c] # Space => s[c] = position + c
  BY <1>1
<1>5. \A c \in 1..Length(line) : s[c] = Space =>
        line.kind = "heading" /\ c = line.level + 1
  <2> SUFFICES ASSUME NEW c \in 1..Length(line), s[c] = Space, s[c] = position + c PROVE FALSE
    BY <1>1
  <2>1. position + c # Space
    <3>1. c \in Nat /\ c > 0
      BY <1>1
    <3>2. \A n, m \in Nat : m > 0 => n + m # 0
      OBVIOUS
    <3> QED
      BY <1>2, <3>1, <3>2, Zenon
  <2> QED
    BY <2>1, Zenon
<1>6. Trimmed(s)
  <2>1. 1 \in 1..Length(line) /\ Length(line) \in 1..Length(line)
    BY <1>1
  <2>2. s[1] # Space
    BY <1>1, <1>5, <2>1
  <2>3. s[Length(line)] # Space
    BY <1>1, <1>5, <2>1
  <2> QED
    BY <1>1, <2>2, <2>3 DEF Trimmed
<1>7. Forward(s)
  <2> SUFFICES ASSUME NEW i \in DOMAIN s, NEW j \in DOMAIN s, i < j, Space \notin {s[i], s[j]}
               PROVE  s[i] < s[j]
    BY DEF Forward
  <2>1. i \in 1..Length(line) /\ j \in 1..Length(line)
    BY <1>1
  <2>2. s[i] = position + i /\ s[j] = position + j
    BY <1>4, <2>1
  <2> QED
    BY <1>1, <1>2, <2>1, <2>2
<1>8. Tight(s)
  <2> SUFFICES ASSUME NEW i \in 1..(Len(s) - 1), s[i] = Space, s[i + 1] = Space PROVE FALSE
    BY DEF Tight
  <2>1. i \in 1..Length(line) /\ i + 1 \in 1..Length(line)
    BY <1>1
  <2>2. i = line.level + 1 /\ i + 1 = line.level + 1
    BY <1>5, <2>1
  <2> QED
    BY <1>1, <2>2
<1> QED
  BY <1>3, <1>6, <1>7, <1>8 DEF Clean, s

\* Characters up to a position precede those after it.
LEMMA PrecedesAfter ==
    ASSUME NEW n \in Nat, NEW a \in Seq(Nat), NEW b \in Seq(Nat), Within(a, n),
           \A c \in Solid(b) : c > n
    PROVE  Precedes(a, b)
<1>1. \A c \in Solid(a) \cup Solid(b) : c \in Nat
  BY DEF Solid
<1> QED
  BY <1>1 DEF Precedes, Within

\* No text precedes and follows every text.
LEMMA PrecedesNone == ASSUME NEW s PROVE Precedes(<< >>, s) /\ Precedes(s, << >>)
BY DEF Precedes, Solid

\* Every step leaves the lines of the block being read the last ones.
LEMMA LastLinesKept ==
    ChunkerTypes /\ LastLines /\ [ChunkerNext]_chunkerVars => LastLines'
<1> SUFFICES ASSUME ChunkerTypes, LastLines, [ChunkerNext]_chunkerVars PROVE LastLines'
  OBVIOUS
<1> DEFINE n == Len(document)
           b == Len(document) - Len(current_lines)
<1>0. document \in Seq(DocLine) /\ n \in Nat /\ current_lines \in Seq(Nat)
  BY DEF ChunkerTypes
<1>1. ASSUME NEW line \in LineKinds, read_heading(line) PROVE LastLines'
  <2>1. PICK l \in DocLine : l.kind = line.kind /\ document' = Append(document, l)
    BY <1>1, Reads DEF read_heading
  <2>2. current_lines' = << n + 1 >> /\ l.kind = "heading"
    BY <1>1, <2>1 DEF read_heading, NextLine
  <2>3. Len(document') = n + 1 /\ document'[n + 1] = l
    BY <1>0, <2>1, Grown
  <2>4. Len(current_lines') = 1 /\ DOMAIN current_lines' = {1} /\ current_lines'[1] = n + 1
    BY <2>2
  <2>5. (n + 1) - 1 = n /\ 1 <= n + 1 /\ ((n + 1) - 1) + 1 = n + 1
    BY <1>0
  <2> HIDE DEF n
  <2> QED
    BY <2>2, <2>3, <2>4, <2>5 DEF LastLines
<1>2. ASSUME NEW line \in LineKinds, read_blank(line) PROVE LastLines'
  <2>1. PICK l \in DocLine : l.kind = line.kind /\ document' = Append(document, l)
    BY <1>2, Reads DEF read_blank
  <2>2. current_lines' = << >> /\ l.kind = "blank"
    BY <1>2, <2>1 DEF read_blank
  <2>3. Len(document') = n + 1 /\ document'[n + 1] = l
    BY <1>0, <2>1, Grown
  <2>4. Len(current_lines') = 0 /\ (n + 1) - 0 = n + 1 /\ 0 <= n + 1
    BY <1>0, <2>2
  <2> HIDE DEF n
  <2> QED
    BY <2>2, <2>3, <2>4 DEF LastLines
<1>3. ASSUME NEW line \in LineKinds, read_text(line) PROVE LastLines'
  <2>1. PICK l \in DocLine : l.kind = line.kind /\ document' = Append(document, l)
    BY <1>3, Reads DEF read_text
  <2>2. /\ current_lines' = Append(current_lines, n + 1) /\ at' = at
        /\ at = "markdown_blocks"
    BY <1>3, <2>1 DEF read_text, NextLine, Read
  <2>3. Len(document') = n + 1 /\ \A i \in DOMAIN document : document'[i] = document[i]
    BY <1>0, <2>1, Grown
  <2>4. /\ Len(current_lines') = Len(current_lines) + 1 /\ Len(current_lines) \in Nat
        /\ \A j \in DOMAIN current_lines : current_lines'[j] = current_lines[j]
        /\ current_lines'[Len(current_lines) + 1] = n + 1
        /\ current_lines' # << >>
        /\ DOMAIN current_lines' = DOMAIN current_lines \cup {Len(current_lines) + 1}
    BY <1>0, <2>2
  <2>5. Len(document') - Len(current_lines') = b /\ b \in Nat /\ b <= n
        /\ b + (Len(current_lines) + 1) = n + 1 /\ Len(current_lines') <= Len(document')
    BY <1>0, <2>3, <2>4 DEF LastLines
  <2>6. \A j \in DOMAIN current_lines' : current_lines'[j] = b + j
    BY <2>4, <2>5 DEF LastLines
  <2>7. ASSUME b > 0
        PROVE  document'[b].kind = "blank" \/ document'[b + 1].kind = "heading"
    <3>1. b \in DOMAIN document /\ document'[b] = document[b]
      BY <1>0, <2>3, <2>5, <2>7
    <3>2. CASE document[b].kind = "blank"
      BY <3>1, <3>2
    <3>3. CASE current_lines # << >> /\ document[b + 1].kind = "heading"
      <4>1. b + 1 \in DOMAIN document
        BY <1>0, <2>5, <3>3
      <4> QED
        BY <2>3, <3>3, <4>1
    <3> QED
      BY <2>2, <2>7, <3>2, <3>3 DEF LastLines
  <2> HIDE DEF b, n
  <2> QED
    BY <2>4, <2>5, <2>6, <2>7 DEF LastLines
<1>4. CASE end_of_content
  <2>1. current_lines' = << >> /\ document' = document /\ at' # "markdown_blocks"
    BY <1>4 DEF end_of_content
  <2>2. Len(current_lines') = 0 /\ Len(current_lines') <= Len(document')
    BY <1>0, <2>1
  <2> QED
    BY <2>1, <2>2 DEF LastLines
<1>5. ASSUME TakeBlock(Head(blocks)) \/ cut_window \/ end_of_blocks PROVE LastLines'
  <2>1. UNCHANGED blockVars /\ at' # "markdown_blocks"
    BY <1>5 DEF TakeBlock, cut_window, end_of_blocks, Packing
  <2> QED
    BY <2>1 DEF blockVars, LastLines
<1>6. CASE UNCHANGED chunkerVars
  BY <1>6 DEF chunkerVars, blockVars, LastLines
<1> QED
  BY <1>1, <1>2, <1>3, <1>4, <1>5, <1>6 DEF ChunkerNext, add_block, open_block

\* What was dropped before the last line stays so.
LEMMA DroppedStays ==
    ASSUME NEW D \in Seq(DocLine), NEW l \in DocLine, NEW i \in DOMAIN D, Dropped(D, i),
           i < Len(D) \/ l.kind \in {"heading", "blank"}
    PROVE  Dropped(Append(D, l), i)
<1> DEFINE E == Append(D, l)
<1>1. Len(E) = Len(D) + 1 /\ E[Len(D) + 1] = l /\ \A j \in DOMAIN D : E[j] = D[j]
  BY Grown
<1> HIDE DEF E
<1>2. E[i] = D[i] /\ (i > 1 => E[i - 1] = D[i - 1]) /\ (i > 2 => E[i - 2] = D[i - 2])
  BY <1>1
<1>3. E[i + 1].kind \in {"heading", "blank"}
  <2>1. CASE i < Len(D)
    <3>1. i + 1 \in DOMAIN D /\ E[i + 1] = D[i + 1]
      BY <1>1, <2>1
    <3> QED
      BY <2>1, <3>1 DEF Dropped
  <2>2. CASE i = Len(D)
    BY <1>1, <2>2
  <2> QED
    BY <2>1, <2>2
<1>4. Dropped(E, i)
  BY <1>2, <1>3 DEF Dropped
<1> QED
  BY <1>4 DEF E

\* A flush puts the text of a line into a block, or drops it: then it is the
\* last line, and has only a mark before it.
LEMMA FlushCovers ==
    ASSUME ChunkerTypes, LastLines, at = "markdown_blocks",
           NEW i \in DOMAIN document, document[i].kind = "text",
           NEW j \in DOMAIN current_lines, current_lines[j] = i,
           Solid(document[i].text) \subseteq Solid(text)
    PROVE  \/ \E k \in DOMAIN Flushed : Solid(document[i].text) \subseteq Solid(Flushed[k].text)
           \/ Dropped(document, i) /\ i = Len(document)
<1>0. current_lines \in Seq(Nat) /\ document \in Seq(DocLine) /\ current_lines # << >>
  BY DEF ChunkerTypes
<1>1. CASE ~is_heading_only
  <2>1. /\ Flushed \in Seq(Block) /\ Len(Flushed) = Len(blocks) + 1
        /\ Flushed[Len(blocks) + 1].text = text
    BY <1>0, <1>1, FlushedIs
  <2>2. Len(blocks) + 1 \in DOMAIN Flushed
    BY <2>1 DEF ChunkerTypes
  <2> QED
    BY <2>1, <2>2
<1>2. CASE is_heading_only
  <2> DEFINE n == Len(document)
             m == Len(current_lines)
  <2>1. /\ m <= n /\ n \in Nat /\ m \in Nat /\ DOMAIN current_lines = 1..m
             /\ DOMAIN document = 1..n
        /\ \A h \in 1..m : current_lines[h] = (n - m) + h
    <3>1. n \in Nat /\ m \in Nat /\ DOMAIN current_lines = 1..m /\ DOMAIN document = 1..n
      BY <1>0
    <3>2. m <= n /\ \A h \in DOMAIN current_lines : current_lines[h] = (n - m) + h
      BY DEF LastLines
    <3> QED
      BY <3>1, <3>2, Zenon
  <2>2. n - m > 0 => document[n - m].kind = "blank" \/ document[(n - m) + 1].kind = "heading"
    BY DEF LastLines
  <2>3. CASE m = 1 /\ document[current_lines[1]].kind = "heading"
    <3>1. j = 1
      BY <2>1, <2>3
    <3> QED
      BY <2>3, <3>1
  <2>4. CASE m = 2 /\ document[current_lines[1]].kind = "mark"
    <3>1. current_lines[1] = (n - 2) + 1 /\ current_lines[2] = (n - 2) + 2
      BY <2>1, <2>4
    <3>2. j = 2
      <4>1. j # 1
        BY <2>4
      <4> QED
        BY <2>1, <2>4, <4>1
    <3>3. i = n /\ i - 1 = (n - 2) + 1 /\ i > 1
      BY <2>1, <2>4, <3>1, <3>2
    <3>4. document[i - 1].kind = "mark"
      BY <2>4, <3>1, <3>3
    <3>5. i > 2 => document[i - 2].kind = "blank"
      BY <2>1, <2>2, <2>4, <3>3, <3>4
    <3> QED
      BY <2>1, <3>3, <3>4, <3>5 DEF Dropped
  <2> QED
    BY <1>2, <2>3, <2>4 DEF is_heading_only
<1> QED
  BY <1>1, <1>2

\* What has been taken is in the blocks after a flush, as the rest has not begun.
LEMMA FlushTakes ==
    ASSUME ChunkerTypes, Reading, at = "markdown_blocks"
    PROVE  Taken \subseteq UNION {Solid(Flushed[k].text) : k \in DOMAIN Flushed}
<1>1. current = << >> /\ chunks = << >>
  BY DEF Reading
<1>2. Taken = Queued
  BY <1>1 DEF Taken, Contents, Solid
<1>3. \A k \in DOMAIN blocks : k \in DOMAIN Flushed /\ Flushed[k] = blocks[k]
  BY FlushedIs DEF ChunkerTypes
<1> QED
  BY <1>2, <1>3 DEF Queued

\* No line has been read.
LEMMA CoveredInit == ChunkerInit => Covered
BY DEF ChunkerInit, Covered

\* Reading a line or the end of the content.
LEMMA ReadingCovers ==
    ASSUME ChunkerTypes, Reading, LastLines, Covered,
           (\E line \in LineKinds : read_heading(line) \/ read_blank(line) \/ read_text(line))
              \/ end_of_content
    PROVE  Covered'
<1>0. document \in Seq(DocLine) /\ blocks \in Seq(Block)
  BY DEF ChunkerTypes
<1>1. ASSUME at = "markdown_blocks", blocks' = Flushed, NEW i \in DOMAIN document,
             document[i].kind = "text"
      PROVE  \/ Solid(document[i].text) \subseteq Taken'
             \/ Dropped(document, i)
  <2>1. Queued' = UNION {Solid(Flushed[k].text) : k \in DOMAIN Flushed}
    BY <1>1 DEF Queued
  <2>2. Taken \subseteq Taken'
    BY <1>1, <2>1, FlushTakes DEF Taken
  <2>3. ASSUME NEW k \in DOMAIN Flushed, Solid(document[i].text) \subseteq Solid(Flushed[k].text)
        PROVE  Solid(document[i].text) \subseteq Taken'
    BY <2>1, <2>3 DEF Taken
  <2>4. CASE /\ \E j \in DOMAIN current_lines : current_lines[j] = i
             /\ Solid(document[i].text) \subseteq Solid(text)
    BY <1>1, <2>3, <2>4, FlushCovers
  <2> QED
    BY <1>1, <2>2, <2>4 DEF Covered
<1>2. ASSUME NEW line \in LineKinds, read_heading(line) \/ read_blank(line) PROVE Covered'
  <2>1. PICK l \in DocLine : l.kind = line.kind /\ document' = Append(document, l)
    BY <1>2, Reads DEF read_heading, read_blank
  <2>2. l.kind \in {"heading", "blank"} /\ blocks' = Flushed /\ at = "markdown_blocks"
    BY <1>2, <2>1 DEF read_heading, read_blank, Read
  <2> SUFFICES ASSUME NEW i \in DOMAIN document', document'[i].kind = "text"
               PROVE  \/ Solid(document'[i].text) \subseteq Taken'
                      \/ Dropped(document', i) /\ i < Len(document')
    BY DEF Covered
  <2>3. /\ Len(document') = Len(document) + 1 /\ i \in DOMAIN document
        /\ document'[i] = document[i] /\ i < Len(document')
    BY <1>0, <2>1, <2>2, Grown
  <2>4. Solid(document[i].text) \subseteq Taken' \/ Dropped(document, i)
    BY <1>1, <2>2, <2>3
  <2> QED
    BY <1>0, <2>1, <2>2, <2>3, <2>4, DroppedStays
<1>3. ASSUME NEW line \in LineKinds, read_text(line) PROVE Covered'
  <2>1. PICK l \in DocLine :
          /\ l.kind = line.kind /\ l.text = LineText(line)
          /\ document' = Append(document, l)
    BY <1>3, Reads DEF read_text
  <2>2. /\ current_lines' = Append(current_lines, Len(document) + 1)
        /\ text' = Joined(text, << Space >>, l.text)
        /\ blocks' = blocks /\ current' = current /\ chunks' = chunks
        /\ at = "markdown_blocks" /\ at' = "markdown_blocks"
    BY <1>3, <2>1 DEF read_text, Read, NextLine, chunkVars
  <2>3. Taken' = Taken
    BY <2>2 DEF Taken, Queued, Contents
  <2>4. Solid(text') = Solid(text) \cup Solid(l.text)
    <3>1. l.text \in Seq(Nat) /\ text \in Seq(Nat)
      BY <2>1, LineTextIs DEF ChunkerTypes
    <3> QED
      BY <2>2, <3>1, JoinKeeps
  <2>5. /\ \A j \in DOMAIN current_lines :
             j \in DOMAIN current_lines' /\ current_lines'[j] = current_lines[j]
        /\ \E j \in DOMAIN current_lines' : current_lines'[j] = Len(document) + 1
    <3>1. current_lines \in Seq(Nat) /\ Len(document) + 1 \in Nat
      BY <1>0 DEF ChunkerTypes
    <3> QED
      BY <2>2, <3>1
  <2>6. /\ Len(document') = Len(document) + 1 /\ document'[Len(document) + 1] = l
        /\ \A i \in DOMAIN document : document'[i] = document[i] /\ i < Len(document')
        /\ \A i \in DOMAIN document' : i \in DOMAIN document \/ i = Len(document) + 1
    BY <1>0, <2>1, Grown
  <2> SUFFICES ASSUME NEW i \in DOMAIN document', document'[i].kind = "text"
               PROVE  \/ /\ \E j \in DOMAIN current_lines' : current_lines'[j] = i
                         /\ Solid(document'[i].text) \subseteq Solid(text')
                      \/ Solid(document'[i].text) \subseteq Taken'
                      \/ Dropped(document', i) /\ i < Len(document')
    BY <2>2 DEF Covered
  <2>7. CASE i = Len(document) + 1
    BY <2>4, <2>5, <2>6, <2>7
  <2>8. CASE i \in DOMAIN document
    <3>1. document'[i] = document[i] /\ i < Len(document')
      BY <2>6, <2>8
    <3>2. CASE /\ \E j \in DOMAIN current_lines : current_lines[j] = i
               /\ Solid(document[i].text) \subseteq Solid(text)
      <4>1. \E j \in DOMAIN current_lines' : current_lines'[j] = i
        BY <2>5, <3>2
      <4> QED
        BY <2>4, <3>1, <3>2, <4>1
    <3>3. CASE Solid(document[i].text) \subseteq Taken
      BY <2>3, <3>1, <3>3
    <3>4. CASE Dropped(document, i) /\ i < Len(document)
      BY <1>0, <2>1, <2>8, <3>1, <3>4, DroppedStays
    <3> QED
      BY <2>2, <2>8, <3>1, <3>2, <3>3, <3>4 DEF Covered
  <2> QED
    BY <2>6, <2>7, <2>8
<1>4. CASE end_of_content
  <2>1. at = "markdown_blocks" /\ at' # "markdown_blocks" /\ blocks' = Flushed
        /\ document' = document
    BY <1>4 DEF end_of_content
  <2> QED
    BY <1>1, <2>1 DEF Covered
<1> QED
  BY <1>2, <1>3, <1>4

\* Packing and cutting lose nothing that has been taken.
LEMMA PackingTakes ==
    ASSUME ChunkerTypes, InOrder,
           (blocks # << >> /\ (add_block(Head(blocks)) \/ open_block(Head(blocks))))
              \/ cut_window \/ end_of_blocks
    PROVE  Taken \subseteq Taken'
<1>1. \A k \in DOMAIN chunks : k \in DOMAIN Closed /\ Closed[k] = chunks[k]
  BY ClosedIs DEF ChunkerTypes
<1>2. current # << >> => \E k \in DOMAIN Closed : Closed[k].content = current
  BY ClosedIs DEF ChunkerTypes
<1>3. ASSUME chunks' = Closed PROVE Contents \cup Solid(current) \subseteq Contents'
  <2>1. Contents \subseteq Contents'
    BY <1>1, <1>3 DEF Contents
  <2>2. Solid(current) \subseteq Contents'
    <3>1. CASE current = << >>
      BY <3>1 DEF Solid
    <3>2. CASE current # << >>
      BY <1>2, <1>3, <3>2 DEF Contents
    <3> QED
      BY <3>1, <3>2
  <2> QED
    BY <2>1, <2>2
<1>4. ASSUME NEW block, TakeBlock(block), Solid(block.text) \subseteq Solid(current')
      PROVE  block \in Block /\ Queued \subseteq Queued' \cup Solid(current')
  <2>1. blocks \in Seq(Block) /\ blocks # << >> /\ block = Head(blocks) /\ blocks' = Tail(blocks)
    BY <1>4 DEF TakeBlock, ChunkerTypes
  <2>2. block \in Block /\ block = blocks[1]
    BY <2>1, HeadTailOf
  <2>3. \A k \in DOMAIN blocks :
          k = 1 \/ (k - 1 \in DOMAIN blocks' /\ blocks'[k - 1] = blocks[k])
    <3> SUFFICES ASSUME NEW k \in DOMAIN blocks, k # 1
                 PROVE  k - 1 \in DOMAIN blocks' /\ blocks'[k - 1] = blocks[k]
      OBVIOUS
    <3>1. /\ Tail(blocks) \in Seq(Block) /\ Len(blocks) = Len(Tail(blocks)) + 1
          /\ \A m \in DOMAIN Tail(blocks) : Tail(blocks)[m] = blocks[m + 1]
      BY <2>1, HeadTailOf
    <3>2. k - 1 \in DOMAIN Tail(blocks) /\ (k - 1) + 1 = k
      BY <2>1, <3>1
    <3> QED
      BY <2>1, <3>1, <3>2
  <2> QED
    BY <1>4, <2>2, <2>3 DEF Queued
<1>5. ASSUME NEW block, add_block(block) PROVE Taken \subseteq Taken'
  <2>1. /\ TakeBlock(block) /\ current' = Proposed(block)
        /\ chunks' = IF NewSection(block) THEN Closed ELSE chunks
    BY <1>5 DEF add_block
  <2>2. block \in Block
    BY <2>1, HeadTailOf DEF TakeBlock, ChunkerTypes
  <2>3. Solid(current') = Solid(Before(block)) \cup Solid(block.text)
    BY <2>1, <2>2, ProposedIs
  <2>4. Queued \subseteq Queued' \cup Solid(current')
    BY <1>4, <2>1, <2>3
  <2>5. CASE NewSection(block)
    BY <1>3, <2>1, <2>4, <2>5 DEF Taken
  <2>6. CASE ~NewSection(block)
    <3>1. Contents' = Contents /\ Before(block) = current
      BY <2>1, <2>6 DEF Contents, Before
    <3> QED
      BY <2>3, <2>4, <3>1 DEF Taken
  <2> QED
    BY <2>5, <2>6
<1>6. ASSUME NEW block, open_block(block) PROVE Taken \subseteq Taken'
  <2>1. TakeBlock(block) /\ current' = block.text /\ chunks' = Closed
    BY <1>6 DEF open_block
  <2> QED
    BY <1>3, <1>4, <2>1 DEF Taken
<1>7. CASE cut_window
  <2> DEFINE w == Strip(SubSeq(current, 1, MaxChars))
             r == Strip(SubSeq(current, Step + 1, Len(current)))
  <2>1. current \in Seq(Nat) /\ Len(current) > MaxChars
        /\ Trimmed(current) /\ Tight(current) /\ Forward(current)
    BY <1>7 DEF cut_window, ChunkerTypes, InOrder
  <2>2. w \in Seq(Nat) /\ Solid(current) \subseteq Solid(w) \cup Solid(r)
    BY <2>1, RestContinues
  <2>3. Chunk(w) \in ChunkRecord /\ Chunk(w).content = w
    BY <2>2 DEF Chunk, ChunkRecord, ChunkerTypes
  <2>4. /\ chunks' = Append(chunks, Chunk(w)) /\ current' = r /\ blocks' = blocks
        /\ chunks \in Seq(ChunkRecord)
    BY <1>7 DEF cut_window, ChunkerTypes
  <2> HIDE DEF w, r
  <2>5. /\ \A k \in DOMAIN chunks : k \in DOMAIN chunks' /\ chunks'[k] = chunks[k]
        /\ \E k \in DOMAIN chunks' : chunks'[k].content = w
    BY <2>3, <2>4
  <2>6. Contents \cup Solid(w) \subseteq Contents'
    BY <2>5 DEF Contents
  <2>7. Queued' = Queued
    BY <2>4 DEF Queued
  <2> QED
    BY <2>2, <2>4, <2>6, <2>7 DEF Taken
<1>8. CASE end_of_blocks
  <2>1. chunks' = Closed /\ blocks' = blocks
    BY <1>8 DEF end_of_blocks
  <2>2. Queued' = Queued
    BY <2>1 DEF Queued
  <2> QED
    BY <1>3, <2>1, <2>2 DEF Taken
<1> QED
  BY <1>5, <1>6, <1>7, <1>8

\* Every step keeps account of every text line.
LEMMA CoveredKept ==
    ChunkerTypes /\ Reading /\ LastLines /\ InOrder /\ Cut /\ Covered
      /\ [ChunkerNext]_chunkerVars => Covered'
<1> SUFFICES ASSUME ChunkerTypes, Reading, LastLines, InOrder, Cut, Covered,
                    [ChunkerNext]_chunkerVars
             PROVE  Covered'
  OBVIOUS
<1>1. CASE \/ blocks # << >> /\ (add_block(Head(blocks)) \/ open_block(Head(blocks)))
           \/ cut_window \/ end_of_blocks
  <2>1. UNCHANGED blockVars /\ at # "markdown_blocks" /\ at' # "markdown_blocks"
    BY <1>1 DEF add_block, open_block, TakeBlock, cut_window, end_of_blocks, Packing
  <2>2. Taken \subseteq Taken'
    BY <1>1, PackingTakes
  <2> QED
    BY <2>1, <2>2 DEF Covered, blockVars, Cut
<1>2. CASE UNCHANGED chunkerVars
  BY <1>2 DEF chunkerVars, blockVars, chunkVars, Covered, Taken, Queued, Contents
<1> QED
  BY <1>1, <1>2, ReadingCovers DEF ChunkerNext

\* The blocks after a flush are clean and in order.
LEMMA FlushedInOrder ==
    ASSUME ChunkerTypes, Reading, InOrder
    PROVE  \A k \in DOMAIN Flushed :
             /\ Flushed[k].text \in Seq(Nat) /\ Flushed[k].text # << >> /\ Clean(Flushed[k].text)
             /\ Within(Flushed[k].text, position)
             /\ \A m \in DOMAIN Flushed : k < m => Precedes(Flushed[k].text, Flushed[m].text)
<1>1. text \in Seq(Nat) /\ \A k \in DOMAIN blocks : blocks[k].text \in Seq(Nat)
  BY PiecesTyped DEF ChunkerTypes
<1> SUFFICES ASSUME NEW k \in DOMAIN Flushed
             PROVE  /\ Flushed[k].text \in Seq(Nat) /\ Flushed[k].text # << >>
                    /\ Clean(Flushed[k].text) /\ Within(Flushed[k].text, position)
                    /\ \A m \in DOMAIN Flushed : k < m =>
                         Precedes(Flushed[k].text, Flushed[m].text)
  OBVIOUS
<1>2. \A h \in DOMAIN Flushed :
        \/ h \in DOMAIN blocks /\ Flushed[h] = blocks[h]
        \/ h = Len(blocks) + 1 /\ current_lines # << >> /\ Flushed[h].text = text
  BY FlushedIs
<1>3. CASE k \in DOMAIN blocks /\ Flushed[k] = blocks[k]
  <2>1. ASSUME NEW m \in DOMAIN Flushed, k < m PROVE Precedes(blocks[k].text, Flushed[m].text)
    BY <1>2, <1>3, <2>1 DEF InOrder
  <2> QED
    BY <1>1, <1>3, <2>1 DEF InOrder, Reading
<1>4. CASE k = Len(blocks) + 1 /\ current_lines # << >> /\ Flushed[k].text = text
  <2>1. ASSUME NEW m \in DOMAIN Flushed, k < m PROVE FALSE
    <3>1. Len(blocks) \in Nat /\ DOMAIN blocks = 1..Len(blocks)
      BY DEF ChunkerTypes
    <3> QED
      BY <1>2, <1>4, <2>1, <3>1
  <2> QED
    BY <1>1, <1>4, <2>1 DEF InOrder, Reading
<1> QED
  BY <1>2, <1>3, <1>4

\* Empty texts are clean and follow each other.
LEMMA InOrderInit == ChunkerInit => InOrder
<1> SUFFICES ASSUME ChunkerInit PROVE InOrder
  OBVIOUS
<1>1. text = << >> /\ blocks = << >> /\ current = << >> /\ Len(<< >>) = 0
  BY DEF ChunkerInit
<1>2. ~(0 > MaxChars)
  BY ChunkerAssumption
<1> QED
  BY <1>1, <1>2 DEF InOrder, Clean, Trimmed, Forward, Tight

\* Reading keeps the order of what is read.
LEMMA ReadingInOrder ==
    ASSUME ChunkerTypes, Reading, InOrder,
           (\E line \in LineKinds : read_heading(line) \/ read_blank(line) \/ read_text(line))
              \/ end_of_content
    PROVE  InOrder'
<1>0. position \in Nat /\ text \in Seq(Nat)
  BY DEF ChunkerTypes
<1>1. ASSUME current' = << >> /\ chunks' = << >>, blocks' = Flushed, Clean(text'),
             \A k \in DOMAIN Flushed : Precedes(Flushed[k].text, text')
      PROVE  InOrder'
  <2>1. ~(Len(<< >>) > MaxChars)
    BY ChunkerAssumption
  <2>2. Trimmed(<< >>) /\ Forward(<< >>)
    BY DEF Trimmed, Forward
  <2> QED
    BY <1>1, <2>1, <2>2, FlushedInOrder, PrecedesNone DEF InOrder
<1>2. Clean(<< >>)
  BY DEF Clean, Trimmed, Forward, Tight
<1>3. ASSUME NEW line \in LineKinds, Read(line)
      PROVE  /\ LineText(line) \in Seq(Nat) /\ \A c \in Solid(LineText(line)) : c > position
             /\ current' = << >> /\ chunks' = << >>
  BY <1>3, LineTextIs, ReadingLines
<1>4. ASSUME NEW line \in LineKinds, read_heading(line) PROVE InOrder'
  <2>1. blocks' = Flushed /\ text' = LineText(line) /\ Read(line) /\ line.kind # "blank"
    BY <1>4 DEF read_heading
  <2>2. Clean(text')
    BY <2>1, LineIsClean
  <2>3. \A k \in DOMAIN Flushed : Precedes(Flushed[k].text, text')
    BY <1>0, <1>3, <2>1, FlushedInOrder, PrecedesAfter
  <2> QED
    BY <1>1, <1>3, <2>1, <2>2, <2>3
<1>5. ASSUME NEW line \in LineKinds, read_blank(line) PROVE InOrder'
  <2>1. blocks' = Flushed /\ text' = << >> /\ Read(line)
    BY <1>5 DEF read_blank
  <2> QED
    BY <1>1, <1>2, <1>3, <2>1, PrecedesNone
<1>6. CASE end_of_content
  <2>1. blocks' = Flushed /\ text' = << >> /\ current' = << >> /\ chunks' = << >>
    BY <1>6 DEF end_of_content, Reading, chunkVars
  <2> QED
    BY <1>1, <1>2, <2>1, PrecedesNone
<1>7. ASSUME NEW line \in LineKinds, read_text(line) PROVE InOrder'
  <2> DEFINE l == LineText(line)
  <2>1. blocks' = blocks /\ text' = Joined(text, << Space >>, l) /\ Read(line)
        /\ line.kind # "blank"
    BY <1>7 DEF read_text
  <2>2. l # << >> /\ Clean(l)
    BY <2>1, LineIsClean
  <2>3. l \in Seq(Nat) /\ (\A c \in Solid(l) : c > position)
        /\ current' = << >> /\ chunks' = << >>
    BY <1>3, <2>1
  <2> HIDE DEF l
  <2>4. Precedes(text, l)
    BY <1>0, <2>3, PrecedesAfter DEF Reading
  <2>5. Clean(text')
    <3>1. Trimmed(text) /\ Forward(text) /\ Tight(text) /\ Trimmed(l) /\ Forward(l) /\ Tight(l)
      BY <2>2 DEF InOrder, Clean
    <3>2. /\ Trimmed(Joined(text, << Space >>, l)) /\ Forward(Joined(text, << Space >>, l))
          /\ Tight(Joined(text, << Space >>, l))
      BY <1>0, <2>2, <2>3, <2>4, <3>1, JoinReadsOn
    <3> QED
      BY <2>1, <3>2 DEF Clean
  <2>6. Solid(text') = Solid(text) \cup Solid(l)
    BY <1>0, <2>1, <2>3, JoinKeeps
  <2>7. \A k \in DOMAIN blocks : Precedes(blocks[k].text, l)
    BY <1>0, <2>3, PiecesTyped, PrecedesAfter DEF Reading
  <2>8. \A k \in DOMAIN blocks : Precedes(blocks[k].text, text')
    BY <2>6, <2>7 DEF InOrder, Precedes
  <2>9. Trimmed(<< >>) /\ Forward(<< >>) /\ ~(Len(<< >>) > MaxChars)
    BY ChunkerAssumption DEF Trimmed, Forward
  <2> QED
    BY <2>1, <2>3, <2>5, <2>8, <2>9, PrecedesNone DEF InOrder
<1> QED
  BY <1>4, <1>5, <1>6, <1>7

\* The block that is taken is clean, and stands between what has been taken
\* before it and the others.
LEMMA TakenBlock ==
    ASSUME ChunkerTypes, InOrder, NEW block, TakeBlock(block)
    PROVE  /\ block \in Block /\ block.text \in Seq(Nat) /\ block.text # << >>
           /\ Clean(block.text) /\ Precedes(current, block.text)
           /\ \A m \in DOMAIN chunks : Precedes(chunks[m].content, block.text)
           /\ blocks' \in Seq(Block) /\ text' = text
           /\ \A k \in DOMAIN blocks' :
                /\ blocks'[k].text # << >> /\ Clean(blocks'[k].text)
                /\ Precedes(blocks'[k].text, text) /\ Precedes(current, blocks'[k].text)
                /\ Precedes(block.text, blocks'[k].text)
                /\ \A m \in DOMAIN blocks' : k < m => Precedes(blocks'[k].text, blocks'[m].text)
                /\ \A m \in DOMAIN chunks : Precedes(chunks[m].content, blocks'[k].text)
<1>1. blocks \in Seq(Block) /\ blocks # << >> /\ block = Head(blocks) /\ blocks' = Tail(blocks)
      /\ text' = text
  BY DEF TakeBlock, ChunkerTypes, blockVars
<1>2. /\ block \in Block /\ block = blocks[1] /\ 1 \in DOMAIN blocks
      /\ blocks' \in Seq(Block)
      /\ \A k \in DOMAIN blocks' : k + 1 \in DOMAIN blocks /\ blocks'[k] = blocks[k + 1]
  BY <1>1, HeadTailOf
<1>3. \A k \in DOMAIN blocks' : k \in Nat /\ 1 < k + 1
  BY <1>2
<1>4. \A k, m \in DOMAIN blocks' : k < m => k + 1 < m + 1
  BY <1>3
<1>5. block.text \in Seq(Nat) /\ block.text # << >>
      /\ Clean(block.text) /\ Precedes(current, block.text)
      /\ \A m \in DOMAIN chunks : Precedes(chunks[m].content, block.text)
  BY <1>2 DEF InOrder, Block
<1>6. ASSUME NEW k \in DOMAIN blocks'
      PROVE  /\ blocks'[k].text # << >> /\ Clean(blocks'[k].text)
             /\ Precedes(blocks'[k].text, text) /\ Precedes(current, blocks'[k].text)
             /\ Precedes(block.text, blocks'[k].text)
             /\ \A m \in DOMAIN blocks' : k < m => Precedes(blocks'[k].text, blocks'[m].text)
             /\ \A m \in DOMAIN chunks : Precedes(chunks[m].content, blocks'[k].text)
  BY <1>2, <1>3, <1>4 DEF InOrder
<1> QED
  BY <1>1, <1>2, <1>5, <1>6

\* What precedes two texts precedes their join.
LEMMA PrecedesPart ==
    ASSUME NEW a, NEW b, NEW s, NEW t, Precedes(a, s), Precedes(b, s),
           Solid(t) \subseteq Solid(a) \cup Solid(b)
    PROVE  Precedes(t, s)
BY DEF Precedes

\* A block is added to a text that precedes it.
LEMMA ProposedReadsOn ==
    ASSUME ChunkerTypes, InOrder, NEW block, TakeBlock(block)
    PROVE  /\ Proposed(block) \in Seq(Nat) /\ Proposed(block) # << >>
           /\ Trimmed(Proposed(block)) /\ Forward(Proposed(block))
           /\ Solid(Proposed(block)) \subseteq Solid(current) \cup Solid(block.text)
<1> DEFINE a == Before(block)
           gap == << Space, Space >>
<1>1. block \in Block /\ block.text \in Seq(Nat) /\ block.text # << >>
      /\ Clean(block.text) /\ Precedes(current, block.text)
  BY TakenBlock
<1>2. /\ a \in Seq(Nat) /\ Proposed(block) \in Seq(Nat)
      /\ Solid(Proposed(block)) = Solid(a) \cup Solid(block.text)
  BY <1>1, ProposedIs
<1>3. a = << >> \/ a = current
  BY DEF Before
<1>4. Trimmed(a) /\ Forward(a) /\ Precedes(a, block.text) /\ Solid(a) \subseteq Solid(current)
  <2>1. CASE a = << >>
    <3>1. Trimmed(<< >>) /\ Forward(<< >>) /\ Solid(<< >>) = {}
      BY DEF Trimmed, Forward, Solid
    <3> HIDE DEF a
    <3> QED
      BY <2>1, <3>1, PrecedesNone
  <2>2. CASE a = current
    BY <1>1, <2>2 DEF InOrder
  <2> QED
    BY <1>3, <2>1, <2>2
<1>5. Proposed(block) = Joined(a, gap, block.text)
  BY DEF Proposed
<1>6. gap \in {<< Space >>, << Space, Space >>} /\ Trimmed(block.text) /\ Forward(block.text)
  BY <1>1 DEF Clean
<1> HIDE DEF a, gap
<1>7. /\ Joined(a, gap, block.text) # << >>
      /\ Trimmed(Joined(a, gap, block.text)) /\ Forward(Joined(a, gap, block.text))
  BY <1>1, <1>2, <1>4, <1>6, JoinReadsOn
<1> QED
  BY <1>2, <1>4, <1>5, <1>7

\* What the current text precedes is preceded by it as a chunk.
LEMMA ClosedPrecedes ==
    ASSUME ChunkerTypes, NEW s, Precedes(current, s),
           \A m \in DOMAIN chunks : Precedes(chunks[m].content, s)
    PROVE  \A m \in DOMAIN Closed : Precedes(Closed[m].content, s)
<1>1. chunks \in Seq(ChunkRecord) /\ Closed \in Seq(ChunkRecord)
  BY ClosedIs DEF ChunkerTypes
<1>2. \A m \in DOMAIN Closed : m \in DOMAIN chunks \/ (current # << >> /\ m = Len(chunks) + 1)
  BY <1>1, ClosedIs
<1> QED
  BY <1>2, ClosedIs

\* ... and so do packing and cutting.
LEMMA PackingInOrder ==
    ASSUME ChunkerTypes, InOrder,
           (blocks # << >> /\ (add_block(Head(blocks)) \/ open_block(Head(blocks))))
              \/ cut_window \/ end_of_blocks
    PROVE  InOrder'
<1>0. Clean(text) /\ Trimmed(current) /\ Forward(current)
  BY DEF InOrder
<1>1. ASSUME NEW block, add_block(block) \/ open_block(block) PROVE InOrder'
  <2>1. /\ TakeBlock(block)
        /\ chunks' = chunks \/ chunks' = Closed
        /\ \/ current' = Proposed(block) /\ Len(current') <= MaxChars
           \/ current' = block.text
    BY <1>1 DEF add_block, open_block
  <2> DEFINE b == block.text
  <2>2. /\ b \in Seq(Nat) /\ Clean(b) /\ Precedes(current, b) /\ blocks' \in Seq(Block)
        /\ text' = text
        /\ \A k \in DOMAIN blocks' :
             /\ blocks'[k].text # << >> /\ Clean(blocks'[k].text)
             /\ Precedes(blocks'[k].text, text) /\ Precedes(current, blocks'[k].text)
             /\ Precedes(b, blocks'[k].text)
             /\ \A m \in DOMAIN blocks' : k < m => Precedes(blocks'[k].text, blocks'[m].text)
             /\ \A m \in DOMAIN chunks : Precedes(chunks[m].content, blocks'[k].text)
    BY <2>1, TakenBlock
  <2>3. /\ current' \in Seq(Nat) /\ Trimmed(current') /\ Forward(current')
        /\ Solid(current') \subseteq Solid(current) \cup Solid(b)
        /\ Len(current') > MaxChars => Tight(current')
    <3>1. CASE current' = Proposed(block) /\ Len(current') <= MaxChars
      <4>1. current' \in Seq(Nat) /\ Trimmed(current') /\ Forward(current')
            /\ Solid(current') \subseteq Solid(current) \cup Solid(b)
        BY <2>1, <3>1, ProposedReadsOn
      <4>2. ~(Len(current') > MaxChars)
        BY <3>1, <4>1, ChunkerAssumption
      <4> QED
        BY <4>1, <4>2
    <3>2. CASE current' = b
      BY <2>2, <3>2 DEF Clean
    <3> QED
      BY <2>1, <3>1, <3>2
  <2> HIDE DEF b
  <2>4. \A k \in DOMAIN blocks' : Precedes(current', blocks'[k].text)
    BY <2>2, <2>3, PrecedesPart
  <2>5. \A k \in DOMAIN blocks' : \A m \in DOMAIN chunks' :
          Precedes(chunks'[m].content, blocks'[k].text)
    <3> SUFFICES ASSUME NEW k \in DOMAIN blocks'
                 PROVE  \A m \in DOMAIN chunks' : Precedes(chunks'[m].content, blocks'[k].text)
      OBVIOUS
    <3>1. \A m \in DOMAIN Closed : Precedes(Closed[m].content, blocks'[k].text)
      BY <2>2, ClosedPrecedes
    <3> QED
      BY <2>1, <2>2, <3>1
  <2> QED
    BY <1>0, <2>2, <2>3, <2>4, <2>5 DEF InOrder
<1>2. CASE cut_window
  <2> DEFINE w == Strip(SubSeq(current, 1, MaxChars))
             r == Strip(SubSeq(current, Step + 1, Len(current)))
  <2>1. current \in Seq(Nat) /\ Len(current) > MaxChars
        /\ Trimmed(current) /\ Tight(current) /\ Forward(current)
    BY <1>2 DEF cut_window, ChunkerTypes, InOrder
  <2>2. /\ w \in Seq(Nat) /\ Trimmed(r) /\ Forward(r) /\ Tight(r)
        /\ Solid(w) \subseteq Solid(current) /\ Solid(r) \subseteq Solid(current)
    BY <2>1, RestContinues
  <2>3. Chunk(w) \in ChunkRecord /\ Chunk(w).content = w
    BY <2>2 DEF Chunk, ChunkRecord, ChunkerTypes
  <2>4. /\ chunks' = Append(chunks, Chunk(w)) /\ current' = r /\ blocks' = blocks
        /\ chunks \in Seq(ChunkRecord) /\ text' = text
    BY <1>2 DEF cut_window, ChunkerTypes, blockVars
  <2> HIDE DEF w, r
  <2>5. \A m \in DOMAIN chunks' :
          (m \in DOMAIN chunks /\ chunks'[m] = chunks[m]) \/ chunks'[m].content = w
    BY <2>3, <2>4
  <2>6. \A k \in DOMAIN blocks : Precedes(r, blocks[k].text) /\ Precedes(w, blocks[k].text)
    BY <2>2 DEF InOrder, Precedes
  <2>7. \A k \in DOMAIN blocks : \A m \in DOMAIN chunks' :
          Precedes(chunks'[m].content, blocks[k].text)
    BY <2>5, <2>6 DEF InOrder
  <2> QED
    BY <1>0, <2>2, <2>4, <2>6, <2>7 DEF InOrder
<1>3. CASE end_of_blocks
  <2>1. current' = << >> /\ blocks' = << >> /\ text' = text
    BY <1>3 DEF end_of_blocks, blockVars
  <2>2. Trimmed(<< >>) /\ Forward(<< >>) /\ ~(Len(<< >>) > MaxChars)
    BY ChunkerAssumption DEF Trimmed, Forward
  <2> QED
    BY <1>0, <2>1, <2>2 DEF InOrder
<1> QED
  BY <1>1, <1>2, <1>3

\* Every step keeps the texts clean and in order.
LEMMA InOrderKept ==
    ChunkerTypes /\ Reading /\ InOrder /\ [ChunkerNext]_chunkerVars => InOrder'
<1>1. InOrder /\ UNCHANGED chunkerVars => InOrder'
  BY DEF chunkerVars, blockVars, chunkVars, InOrder
<1> QED
  BY <1>1, ReadingInOrder, PackingInOrder DEF ChunkerNext

-----------------------------------------------------------------------------
(* The chunks.                                                             *)

\* The chunks are well cut when the current one is closed, and a text that all
\* that was before precedes continues the last of them.
LEMMA ClosedCut ==
    ASSUME ChunkerTypes, InOrder, Cut, Len(current) <= MaxChars
    PROVE  /\ \A k \in DOMAIN Closed : WellCut(Closed[k].content)
           /\ \A k \in 1..(Len(Closed) - 1) : Follows(Closed[k + 1].content, Closed[k].content)
           /\ \A s \in Seq(Nat) :
                /\ s # << >> /\ Trimmed(s) /\ Precedes(current, s) /\ Closed # << >>
                /\ \A m \in DOMAIN chunks : Precedes(chunks[m].content, s)
                => Continues(s, Closed[Len(Closed)].content)
<1>1. /\ chunks \in Seq(ChunkRecord) /\ Closed \in Seq(ChunkRecord) /\ current \in Seq(Nat)
      /\ \A k \in DOMAIN chunks : chunks[k].content \in Seq(Nat)
  BY ClosedIs, PiecesTyped DEF ChunkerTypes
<1>2. /\ Len(Closed) = IF current = << >> THEN Len(chunks) ELSE Len(chunks) + 1
      /\ \A k \in DOMAIN chunks : Closed[k] = chunks[k]
      /\ current # << >> => Closed[Len(chunks) + 1].content = current
  BY ClosedIs
<1>3. \A s \in Seq(Nat) :
        /\ s # << >> /\ Trimmed(s) /\ Precedes(current, s) /\ Closed # << >>
        /\ \A m \in DOMAIN chunks : Precedes(chunks[m].content, s)
        => Continues(s, Closed[Len(Closed)].content)
  <2> SUFFICES ASSUME NEW s \in Seq(Nat), s # << >>, Trimmed(s), Precedes(current, s),
                      Closed # << >>,
                      \A m \in DOMAIN chunks : Precedes(chunks[m].content, s)
               PROVE  Continues(s, Closed[Len(Closed)].content)
    OBVIOUS
  <2>1. Len(Closed) \in DOMAIN Closed
    BY <1>1
  <2>2. Precedes(Closed[Len(Closed)].content, s)
    BY <2>1, ClosedPrecedes
  <2>3. Closed[Len(Closed)].content \in Seq(Nat)
    <3>1. Closed[Len(Closed)] \in ChunkRecord
      BY <1>1, <2>1
    <3> QED
      BY <3>1 DEF ChunkRecord
  <2> QED
    BY <2>2, <2>3, FreshContinues
<1>4. CASE current = << >>
  <2>1. Closed = chunks
    BY <1>4 DEF Closed
  <2> QED
    BY <1>3, <2>1 DEF Cut
<1>5. CASE current # << >>
  <2> DEFINE n == Len(chunks)
  <2>1. n \in Nat /\ DOMAIN chunks = 1..n /\ Len(Closed) = n + 1 /\ DOMAIN Closed = 1..(n + 1)
    BY <1>1, <1>2, <1>5
  <2>2. WellCut(current)
    <3>1. Strip(current) = current /\ Forward(current)
      BY <1>1, StripTrims DEF InOrder
    <3> QED
      BY <1>5, <3>1 DEF WellCut, Forward
  <2>3. \A k \in DOMAIN Closed : k \in DOMAIN chunks \/ k = n + 1
    BY <2>1
  <2>4. \A k \in DOMAIN Closed : WellCut(Closed[k].content)
    BY <1>2, <1>5, <2>2, <2>3 DEF Cut
  <2>5. ASSUME n > 0 PROVE Follows(current, chunks[n].content)
    <3>1. chunks # << >> /\ n \in DOMAIN chunks
      BY <2>1, <2>5
    <3>2. Continues(current, chunks[n].content)
      BY <1>5, <3>1 DEF Cut
    <3>3. \A i \in DOMAIN current : current[i] # Space => current[i] \in Solid(current)
      BY DEF Solid
    <3> HIDE DEF n
    <3> QED
      BY <1>1, <3>1, <3>2, <3>3, MayFollow
  <2>6. ASSUME NEW k \in 1..n PROVE Follows(Closed[k + 1].content, Closed[k].content)
    <3>1. k \in DOMAIN chunks /\ Closed[k] = chunks[k]
      BY <1>2, <2>1
    <3>2. CASE k = n
      BY <1>2, <1>5, <2>1, <2>5, <3>1, <3>2
    <3>3. CASE k # n
      <4> HIDE DEF n
      <4>1. k \in 1..(n - 1) /\ k + 1 \in 1..n
        BY <2>1, <3>3
      <4>2. Closed[k + 1] = chunks[k + 1]
        BY <1>2, <2>1, <4>1
      <4> QED
        BY <3>1, <4>1, <4>2 DEF Cut, n
    <3> QED
      BY <3>2, <3>3
  <2>7. (n + 1) - 1 = n
    BY <2>1
  <2> QED
    BY <1>3, <2>1, <2>4, <2>6, <2>7
<1> QED
  BY <1>4, <1>5

\* There is no chunk yet.
LEMMA CutInit == ChunkerInit => Cut
<1> SUFFICES ASSUME ChunkerInit PROVE Cut
  OBVIOUS
<1>1. chunks = << >> /\ at = "markdown_blocks" /\ 1..(Len(<< >>) - 1) = {}
  BY DEF ChunkerInit
<1> QED
  BY <1>1 DEF Cut

\* Every step cuts its chunks well, and each follows the one before.
LEMMA CutKept ==
    ChunkerTypes /\ Reading /\ InOrder /\ Cut /\ [ChunkerNext]_chunkerVars => Cut'
<1> SUFFICES ASSUME ChunkerTypes, Reading, InOrder, Cut, [ChunkerNext]_chunkerVars PROVE Cut'
  OBVIOUS
<1>0. /\ chunks \in Seq(ChunkRecord) /\ current \in Seq(Nat)
      /\ \A k \in DOMAIN chunks : chunks[k].content \in Seq(Nat)
      /\ 1..(Len(<< >>) - 1) = {}
  BY PiecesTyped DEF ChunkerTypes
<1>1. ASSUME NEW line \in LineKinds, read_heading(line) \/ read_blank(line) \/ read_text(line)
      PROVE  Cut'
  <2>1. at' = "markdown_blocks" /\ current' = << >> /\ chunks' = << >>
    BY <1>1, ReadingLines DEF read_heading, read_blank, read_text
  <2> QED
    BY <1>0, <2>1 DEF Cut
<1>2. CASE end_of_content
  <2>1. /\ at' = "chunk_document" /\ current' = << >> /\ chunks' = << >>
        /\ current_lines' = << >> /\ text' = << >>
    BY <1>2 DEF end_of_content, Reading, chunkVars
  <2> QED
    BY <1>0, <2>1 DEF Cut
<1>3. ASSUME NEW block, TakeBlock(block)
      PROVE  /\ at = "chunk_document" /\ Len(current) <= MaxChars
             /\ at' = at /\ current_lines' = << >> /\ text' = << >>
             /\ block.text \in Seq(Nat) /\ block.text # << >> /\ Trimmed(block.text)
             /\ Precedes(current, block.text)
             /\ \A m \in DOMAIN chunks : Precedes(chunks[m].content, block.text)
  BY <1>3, TakenBlock DEF TakeBlock, Packing, blockVars, Cut, Clean
\* The block begins a chunk of its own, after all others.
<1>4. ASSUME NEW block, TakeBlock(block), chunks' = Closed, current' = block.text PROVE Cut'
  BY <1>3, <1>4, ClosedCut DEF Cut
<1>5. ASSUME NEW block, add_block(block) PROVE Cut'
  <2>1. /\ TakeBlock(block)
        /\ chunks' = IF NewSection(block) THEN Closed ELSE chunks
        /\ current' = Joined(Before(block), << Space, Space >>, block.text)
    BY <1>5 DEF add_block, Proposed
  <2>2. CASE NewSection(block) \/ current = << >>
    <3>1. Before(block) = << >> /\ chunks' = Closed
      BY <2>1, <2>2 DEF Before, Closed, NewSection
    <3>2. current' = block.text
      BY <2>1, <3>1 DEF Joined
    <3> QED
      BY <1>4, <2>1, <3>1, <3>2
  <2>3. CASE ~NewSection(block) /\ current # << >>
    <3>1. Before(block) = current /\ chunks' = chunks
      BY <2>1, <2>3 DEF Before
    <3>2. ASSUME chunks # << >> PROVE Continues(current', chunks[Len(chunks)].content)
      <4>1. Len(chunks) \in DOMAIN chunks
        BY <1>0, <3>2
      <4>2. Continues(current, chunks[Len(chunks)].content)
        BY <2>3, <3>2 DEF Cut
      <4>3. Precedes(chunks[Len(chunks)].content, block.text) /\ block.text \in Seq(Nat)
        BY <1>3, <2>1, <4>1
      <4> QED
        BY <1>0, <2>1, <2>3, <3>1, <4>1, <4>2, <4>3, JoinContinues
    <3> QED
      BY <1>3, <2>1, <3>1, <3>2 DEF Cut
  <2> QED
    BY <2>2, <2>3
<1>6. ASSUME NEW block, open_block(block) PROVE Cut'
  BY <1>4, <1>6 DEF open_block
<1>7. CASE cut_window
  <2> DEFINE w == Strip(SubSeq(current, 1, MaxChars))
             r == Strip(SubSeq(current, Step + 1, Len(current)))
             n == Len(chunks)
  <2>1. /\ Len(current) > MaxChars
        /\ Trimmed(current) /\ Tight(current) /\ Forward(current)
    BY <1>7 DEF cut_window, InOrder
  <2>2. /\ w \in Seq(Nat) /\ WellCut(w) /\ Solid(w) \subseteq Solid(current)
        /\ \A i \in DOMAIN current :
             i <= MaxChars /\ current[i] # Space => current[i] \in Solid(w)
        /\ Continues(r, w)
    BY <1>0, <2>1, RestContinues
  <2>3. Chunk(w) \in ChunkRecord /\ Chunk(w).content = w
    BY <2>2 DEF Chunk, ChunkRecord, ChunkerTypes
  <2>4. /\ chunks' = Append(chunks, Chunk(w)) /\ current' = r /\ at' = at
        /\ at = "chunk_document" /\ current_lines' = << >> /\ text' = << >>
    BY <1>7 DEF cut_window, blockVars, Cut
  <2> HIDE DEF w, r
  <2>5. /\ Len(chunks') = n + 1 /\ n \in Nat /\ chunks'[n + 1].content = w
        /\ \A k \in DOMAIN chunks : chunks'[k] = chunks[k]
        /\ DOMAIN chunks' = 1..(n + 1) /\ DOMAIN chunks = 1..n
    BY <1>0, <2>3, <2>4
  <2>6. \A k \in DOMAIN chunks' : WellCut(chunks'[k].content)
    <3>1. \A k \in DOMAIN chunks' : k \in DOMAIN chunks \/ k = n + 1
      BY <2>5
    <3> HIDE DEF n
    <3> QED
      BY <2>2, <2>5, <3>1 DEF Cut
  <2>7. ASSUME n > 0 PROVE Follows(w, chunks[n].content)
    <3>1. n \in DOMAIN chunks /\ chunks # << >> /\ current # << >>
      <4>1. Len(current) # 0
        BY <1>0, <2>1, ChunkerAssumption
      <4> QED
        BY <1>0, <2>5, <2>7, <4>1
    <3>2. Continues(current, chunks[n].content)
      BY <3>1 DEF Cut
    <3> HIDE DEF n
    <3> QED
      BY <1>0, <2>2, <3>1, <3>2, MayFollow
  <2> HIDE DEF n
  <2>8. ASSUME NEW k \in 1..n PROVE Follows(chunks'[k + 1].content, chunks'[k].content)
    <3>1. k \in DOMAIN chunks /\ chunks'[k] = chunks[k]
      BY <2>5
    <3>2. CASE k = n
      BY <2>5, <2>7, <3>1, <3>2
    <3>3. CASE k # n
      <4>1. k \in 1..(n - 1) /\ k + 1 \in DOMAIN chunks
        BY <2>5, <3>3
      <4>2. chunks'[k + 1] = chunks[k + 1]
        BY <2>5, <4>1
      <4> QED
        BY <3>1, <4>1, <4>2 DEF Cut, n
    <3> QED
      BY <3>2, <3>3
  <2>9. (n + 1) - 1 = n
    BY <2>5
  <2> QED
    BY <2>2, <2>4, <2>5, <2>6, <2>8, <2>9 DEF Cut
<1>8. CASE end_of_blocks
  <2>1. /\ Len(current) <= MaxChars /\ chunks' = Closed /\ current' = << >> /\ at' = "done"
        /\ blocks' = << >> /\ current_lines' = << >> /\ text' = << >>
    BY <1>8 DEF end_of_blocks, Packing, blockVars, Cut
  <2> QED
    BY <2>1, ClosedCut DEF Cut
<1>9. CASE UNCHANGED chunkerVars
  BY <1>9 DEF chunkerVars, blockVars, chunkVars, Cut
<1> QED
  BY <1>1, <1>2, <1>5, <1>6, <1>7, <1>8, <1>9 DEF ChunkerNext

\* The invariant holds of the empty locals.
LEMMA CoverInit == ChunkerInit => CoverInv
<1>1. ChunkerInit => LastLines
  <2>1. Len(<< >>) = 0 /\ 0 - 0 = 0 /\ 0 <= 0 /\ DOMAIN << >> = {}
    OBVIOUS
  <2> QED
    BY <2>1 DEF ChunkerInit, LastLines
<1> QED
  BY <1>1, ChunkerTypesInit, ReadingInit, CoveredInit, InOrderInit, CutInit DEF CoverInv

\* Every step keeps the invariant, part by part.
LEMMA CoverKept == CoverInv /\ [ChunkerNext]_chunkerVars => CoverInv'
BY ChunkerTypesKept, ReadingKept, LastLinesKept, CoveredKept, InOrderKept, CutKept DEF CoverInv

\* At the end all that has been taken is in the chunks.
LEMMA CoverImplies == CoverInv => ChunksCoverText
<1> SUFFICES ASSUME CoverInv PROVE ChunksCoverText
  OBVIOUS
<1> USE DEF CoverInv
<1>1. ASSUME at = "done", NEW i \in DOMAIN document,
             document[i].kind = "text", ~Dropped(document, i)
      PROVE  Solid(document[i].text) \subseteq Contents
  <2>1. blocks = << >> /\ current = << >> /\ current_lines = << >>
    BY <1>1 DEF Cut
  <2>2. Taken = Contents
    BY <2>1 DEF Taken, Queued, Solid
  <2>3. ~ \E j \in DOMAIN current_lines : current_lines[j] = i
    BY <2>1
  <2> QED
    BY <1>1, <2>2, <2>3 DEF Covered
<1> QED
  BY <1>1 DEF ChunksCoverText, Cut

\* In every document, whatever its lines and the bounds of the chunker, every
\* character of a text line that is not dropped is in a chunk, and the chunks
\* are no longer than max_chars, follow each other and share no more than
\* overlap_chars.
THEOREM EveryTextIsInChunks == ChunkerSpec => []ChunksCoverText
BY CoverInit, CoverKept, CoverImplies, PTL DEF ChunkerSpec
=============================================================================
