----------------------- MODULE DocumentVersionsProofs -----------------------
(* What holds of DocumentVersions for any number of uploads, attempts and   *)
(* acks, wherever attempts fail and workers die: the history is a chain.    *)
EXTENDS DocumentVersions, TLAPS

\* The worker's places in this module.
VersionPlaces == Places \cup {"embed", "rollback"}

\* The job table and the workers, without what JobQueue says of documents.
QueueType ==
    /\ status \in [Jobs -> Statuses]
    /\ attempt \in [Jobs -> Nat]
    /\ queued_at \in [Jobs -> Nat]
    /\ clock \in Nat
    /\ document_id \subseteq Jobs
    /\ pc \in [Workers -> VersionPlaces]
    /\ cur \in [Workers -> Jobs \cup {NoJob}]
    /\ \A w \in Workers : cur[w] = NoJob <=> pc[w] \in {"idle", "down"}
    /\ held \subseteq Workers
    /\ verdict \in [Workers -> Verdicts]
    /\ retrying \in [Requests -> Jobs \cup {NoJob}]

\* What a transaction has read goes with the place of its worker.
LoadedType ==
    /\ loaded = [x \in Actors |-> loaded[x]]
    /\ \A a \in Acks : loaded[a] \in Row \cup {None}
    /\ \A w \in Workers :
        /\ pc[w] = "load" => loaded[w] \in Row \cup {None}
        /\ pc[w] = "rollback" => loaded[w] \in Pending
        /\ pc[w] \notin {"load", "rollback"} => loaded[w] = None

TypeInv == QueueType /\ LoadedType /\ VersionTypeOK

-----------------------------------------------------------------------------
\* Every version below the current one has a snapshot, and no two versions are
\* of one upload.
Chain ==
    /\ \A s \in snapshots : s.version < row.version /\ s.path # row.path
    /\ \A n \in 1 .. (row.version - 1) : \E s \in snapshots : s.version = n
    /\ \A s, t \in snapshots : s.version = t.version \/ s.path = t.path => s = t
    /\ row.version = 1 => row.path = Original
    /\ \A s \in snapshots : s.version = 1 => s.path = Original

\* The history names an upload.
Recorded(j) == row.path = j \/ \E s \in snapshots : s.path = j

\* An upload that waits or has failed is not in the history; one that a worker
\* is at is the current version, or is not in it, as far as it has got.
PlaceInv ==
    /\ \A j \in Jobs : status[j] \in {"absent", "queued", "failed"} => ~Recorded(j)
    /\ \A r \in Requests : retrying[r] # NoJob => status[retrying[r]] = "failed"
    /\ \A w \in Workers :
        /\ pc[w] = "claim" => status[cur[w]] = "queued"
        /\ pc[w] \notin {"idle", "down", "claim"} => status[cur[w]] = "extracting"
        /\ pc[w] \in {"load", "fail", "settle"} => ~Recorded(cur[w])
        /\ pc[w] \in {"index", "embed", "lookup", "complete"} => row.path = cur[w]
        /\ pc[w] \in {"discard", "rollback"} => row.path = cur[w] \/ ~Recorded(cur[w])

\* What the worker has read of the row still goes for its number and its path,
\* which no ack changes.
ReadInv ==
    \A w \in Workers :
        /\ pc[w] = "load" /\ loaded[w] # None
           => loaded[w].version = row.version /\ loaded[w].path = row.path
        /\ pc[w] = "rollback"
           => /\ loaded[w].row.version = row.version
              /\ loaded[w].row.path = row.path
              /\ loaded[w].snapshot \in snapshots
              /\ loaded[w].snapshot.version = row.version - 1

\* Nobody works on a job that is extracting, and nobody ever will.
OrphanedJob(j) == status[j] = "extracting" /\ \A w \in Workers : cur[w] # j

\* Chunk rows of a superseded version are those of the version before, while
\* its successor is on the way in or out, or a death has left them.
ChunkInv ==
    \A s \in snapshots : chunks.path = s.path =>
        \/ \E j \in Jobs : OrphanedJob(j)
        \/ \E w \in Workers : /\ pc[w] \in {"index", "discard", "rollback"}
                              /\ row.path = cur[w]
                              /\ s.version = row.version - 1

-----------------------------------------------------------------------------
\* What SQLAlchemy flushes, column by column.
LEMMA FlushColumns ==
    ASSUME row \in Row, NEW old \in Row, NEW new \in Row
    PROVE  LET flushed == Flush(old, new) IN
           /\ flushed \in Row
           /\ flushed.version = IF new.version = old.version THEN row.version ELSE new.version
           /\ flushed.path = IF new.path = old.path THEN row.path ELSE new.path
<1>1. DOMAIN row = {"version", "path", "acked"}
  BY DEF Row
<1>2. Flush(old, new) =
        [version |-> IF new.version = old.version THEN row.version ELSE new.version,
         path    |-> IF new.path = old.path THEN row.path ELSE new.path,
         acked   |-> IF new.acked = old.acked THEN row.acked ELSE new.acked]
  BY <1>1 DEF Flush
<1> QED
  BY <1>2 DEF Row

\* The steps that JobQueue shares with this module keep the job table typed.
LEMMA QueueTypeStep == QueueType /\ [VersionNext]_allVars => QueueType'
<1> SUFFICES ASSUME QueueType, [VersionNext]_allVars PROVE QueueType'
  OBVIOUS
<1> USE NoJobAssumption
    DEF QueueType, Statuses, VersionPlaces, Places, Verdicts, tableVars, docVars, workerVars, Goto
<1>1. CASE Api
  BY <1>1 DEF Api, create_ingestion_job, retry_job_read, retry_job_commit, RetriedAt
<1>2. ASSUME NEW w \in Workers, VersionWorker(w) PROVE QueueType'
  <2>1. CASE load_fails(w) \/ index_fails(w)
    BY <2>1 DEF load_fails, index_fails
  <2>2. CASE upsert_document_version_read(w)
    BY <2>2 DEF upsert_document_version_read, vars
  <2>3. CASE upsert_document_version_commit(w)
    BY <2>3 DEF upsert_document_version_commit
  <2>4. CASE replace_chunks(w)
    BY <2>4 DEF replace_chunks
  <2>5. CASE upsert_chunks(w)
    <3>1. PICK place \in {"lookup", "discard"} : Goto(w, place)
      BY <2>5 DEF upsert_chunks
    <3> QED
      BY <2>5, <3>1 DEF upsert_chunks
  <2>6. CASE rollback_failed_version_read(w)
    BY <2>6 DEF rollback_failed_version_read
  <2>7. CASE rollback_failed_version_commit(w)
    BY <2>7 DEF rollback_failed_version_commit
  <2>8. CASE claim_next_job_select(w)
    BY <2>8 DEF claim_next_job_select, Claimable
  <2>9. CASE claim_next_job_commit(w)
    BY <2>9 DEF claim_next_job_commit
  <2>10. CASE get_document_by_source_path(w)
    BY <2>10 DEF get_document_by_source_path
  <2>11. CASE complete_job(w)
    BY <2>11 DEF complete_job, Leave
  <2>12. CASE fail_job_read(w) \/ fail_job_commit(w)
    BY <2>12 DEF fail_job_read, fail_job_commit, Verdict, Leave
  <2>13. CASE worker_restarts(w)
    BY <2>13 DEF worker_restarts
  <2>14. CASE worker_dies(w)
    BY <2>14 DEF worker_dies, Verdict, Leave
  <2> QED
    BY <1>2, <2>1, <2>2, <2>3, <2>4, <2>5, <2>6, <2>7, <2>8, <2>9, <2>10, <2>11, <2>12,
       <2>13, <2>14 DEF VersionWorker
<1>3. ASSUME NEW a \in Acks, ack(a) PROVE QueueType'
  BY <1>3 DEF ack, ack_document_read, ack_document_commit, set_payload, vars
<1>4. CASE UNCHANGED allVars
  BY <1>4 DEF allVars, vars
<1> QED
  BY <1>1, <1>2, <1>3, <1>4 DEF VersionNext

\* The next version of a row is a row, and so is what acking one makes of it.
LEMMA RowsTyped ==
    /\ \A old \in Row, j \in Jobs : NextVersion(old, j) \in Row
    /\ \A old \in Row : [old EXCEPT !.acked = TRUE] \in Row
<1>1. ASSUME NEW old \in Row, NEW j \in Jobs PROVE NextVersion(old, j) \in Row
  <2>1. old.version + 1 \in Nat \ {0}
    BY DEF Row
  <2> QED
    BY <2>1 DEF NextVersion, Row, Contents
<1>2. ASSUME NEW old \in Row PROVE [old EXCEPT !.acked = TRUE] \in Row
  BY DEF Row
<1> QED
  BY <1>1, <1>2

\* The steps of a worker keep what it has read typed.
LEMMA WorkerTypeStep ==
    ASSUME TypeInv, NEW w \in Workers, VersionWorker(w)
    PROVE  LoadedType' /\ VersionTypeOK'
<1> USE ActorsAssumption, NoneAssumption, NoJobAssumption
    DEF TypeInv, LoadedType, VersionTypeOK, versionVars, docVars
<1>0. /\ \A v \in Workers : pc[v] # "idle" /\ pc[v] # "down" => cur[v] \in Jobs
      /\ \A v \in Workers : \A place : Goto(v, place) =>
           \A u \in Workers : pc'[u] = IF u = v THEN place ELSE pc[u]
      /\ \A x \in Actors : \A value : Load(x, value) =>
           /\ loaded' = [y \in Actors |-> loaded'[y]]
           /\ \A y \in Actors : loaded'[y] = IF y = x THEN value ELSE loaded[y]
      /\ w \in Actors /\ Acks \subseteq Actors /\ Workers \subseteq Actors /\ w \notin Acks
  BY DEF QueueType, Goto, Load, Actors
<1>1. CASE load_fails(w) \/ index_fails(w)
  BY <1>0, <1>1 DEF load_fails, index_fails
<1>2. CASE upsert_document_version_read(w)
  BY <1>0, <1>2 DEF upsert_document_version_read, vars, workerVars
<1>3. CASE upsert_document_version_commit(w)
  <2>1. loaded[w] \in Row /\ NextVersion(loaded[w], cur[w]) \in Row /\ cur[w] \in Jobs
    BY <1>0, <1>3, RowsTyped DEF upsert_document_version_commit
  <2>2. CASE WriteRow(loaded[w], NextVersion(loaded[w], cur[w])) /\ Archive(loaded[w])
    <3>1. /\ row' \in Row /\ documents' = {row'.path} \cap Jobs
          /\ snapshots' \subseteq Row
      BY <2>1, <2>2, FlushColumns DEF WriteRow, Archive
    <3>2. Load(w, None) /\ (Goto(w, "index") \/ Goto(w, "discard"))
      BY <1>3 DEF upsert_document_version_commit
    <3>3. UNCHANGED <<chunks, hidden, published, acking>>
      BY <1>3 DEF upsert_document_version_commit
    <3>4. /\ loaded' = [y \in Actors |-> loaded'[y]]
          /\ \A y \in Actors : loaded'[y] = IF y = w THEN None ELSE loaded[y]
          /\ \A v \in Workers \ {w} : pc'[v] = pc[v]
          /\ pc'[w] \in {"index", "discard"}
      BY <1>0, <3>2
    <3>5. LoadedType'
      BY <1>0, <3>4
    <3>6. VersionTypeOK'
      BY <1>0, <3>1, <3>3, <3>4
    <3> QED
      BY <3>5, <3>6
  <2>3. CASE UNCHANGED <<documents, row, snapshots>> /\ Goto(w, "discard")
    BY <1>0, <1>3, <2>3 DEF upsert_document_version_commit
  <2> QED
    BY <1>3, <2>2, <2>3 DEF upsert_document_version_commit
<1>4. BatchOf(w) \in Batch \/ pc[w] \in {"idle", "down"}
  BY <1>0 DEF BatchOf, Batch, Contents, QueueType
<1>5. CASE replace_chunks(w)
  BY <1>0, <1>4, <1>5 DEF replace_chunks
<1>6. CASE upsert_chunks(w)
  <2>1. PICK place \in {"lookup", "discard"} : Goto(w, place)
    BY <1>6 DEF upsert_chunks
  <2> QED
    BY <1>0, <1>4, <1>6, <2>1 DEF upsert_chunks
<1>7. CASE rollback_failed_version_read(w)
  <2>1. CASE UNCHANGED loaded /\ Goto(w, "fail")
    BY <1>0, <1>7, <2>1 DEF rollback_failed_version_read
  <2>2. ASSUME NEW s \in snapshots, Load(w, [row |-> row, snapshot |-> s]), Goto(w, "rollback")
        PROVE  LoadedType' /\ VersionTypeOK'
    <3>1. [row |-> row, snapshot |-> s] \in Pending
      BY DEF Pending
    <3> QED
      BY <1>0, <1>7, <2>2, <3>1 DEF rollback_failed_version_read
  <2> QED
    BY <1>7, <2>1, <2>2 DEF rollback_failed_version_read
<1>8. CASE rollback_failed_version_commit(w)
  <2>1. loaded[w].row \in Row /\ loaded[w].snapshot \in Row
    BY <1>8 DEF rollback_failed_version_commit, Pending
  <2>2. row' \in Row /\ documents' = {row'.path} \cap Jobs
    BY <1>8, <2>1, FlushColumns DEF rollback_failed_version_commit, WriteRow
  <2> QED
    BY <1>0, <1>8, <2>2 DEF rollback_failed_version_commit
<1>9. ASSUME UNCHANGED versionVars, UNCHANGED documents,
             pc[w] \notin {"load", "rollback"}, pc'[w] # "rollback",
             \A v \in Workers \ {w} : pc'[v] = pc[v]
      PROVE  LoadedType' /\ VersionTypeOK'
  BY <1>9
<1>10. CASE /\ \/ claim_next_job_select(w) \/ claim_next_job_commit(w)
               \/ get_document_by_source_path(w) \/ complete_job(w)
               \/ fail_job_read(w) \/ fail_job_commit(w)
               \/ worker_restarts(w)
            /\ UNCHANGED versionVars
  <2>1. /\ UNCHANGED documents
        /\ pc[w] \notin {"load", "rollback"}
        /\ \E place : Goto(w, place) /\ place # "rollback"
    BY <1>10
    DEF claim_next_job_select, claim_next_job_commit, get_document_by_source_path,
        complete_job, fail_job_read, fail_job_commit, worker_restarts, Leave
  <2> QED
    BY <1>0, <1>9, <1>10, <2>1
<1>11. CASE worker_dies(w) /\ Load(w, None)
           /\ UNCHANGED <<row, snapshots, chunks, hidden, published, acking>>
  BY <1>0, <1>11 DEF worker_dies, Leave
<1> QED
  BY <1>1, <1>2, <1>3, <1>5, <1>6, <1>7, <1>8, <1>10, <1>11 DEF VersionWorker

\* The steps of an ack keep what it has read typed.
LEMMA AckTypeStep ==
    ASSUME TypeInv, NEW a \in Acks, ack(a)
    PROVE  LoadedType' /\ VersionTypeOK'
<1> USE ActorsAssumption, NoneAssumption
    DEF TypeInv, LoadedType, VersionTypeOK, docVars, workerVars
<1>0. /\ \A x \in Actors : \A value : Load(x, value) =>
           /\ loaded' = [y \in Actors |-> loaded'[y]]
           /\ \A y \in Actors : loaded'[y] = IF y = x THEN value ELSE loaded[y]
      /\ a \in Actors /\ Acks \subseteq Actors /\ Workers \subseteq Actors /\ a \notin Workers
  BY DEF Load, Actors
<1>1. CASE ack_document_read(a)
  BY <1>0, <1>1 DEF ack_document_read, vars
<1>2. CASE ack_document_commit(a)
  <2>1. loaded[a] \in Row /\ [loaded[a] EXCEPT !.acked = TRUE] \in Row
    BY <1>2, RowsTyped DEF ack_document_commit
  <2>2. row' \in Row /\ documents' = {row'.path} \cap Jobs
    BY <1>2, <2>1, FlushColumns DEF ack_document_commit, WriteRow
  <2>3. /\ Load(a, None) /\ acking' = [acking EXCEPT ![a] = chunks]
        /\ UNCHANGED <<pc, snapshots, chunks, hidden, published>>
    BY <1>2 DEF ack_document_commit
  <2> QED
    BY <1>0, <2>2, <2>3
<1>3. CASE set_payload(a)
  BY <1>3 DEF set_payload, vars
<1> QED
  BY <1>1, <1>2, <1>3 DEF ack

\* Every step keeps the types.
LEMMA TypeStep == TypeInv /\ [VersionNext]_allVars => TypeInv'
<1> SUFFICES ASSUME TypeInv, [VersionNext]_allVars PROVE LoadedType' /\ VersionTypeOK'
  BY QueueTypeStep DEF TypeInv
<1>1. CASE Api /\ UNCHANGED versionVars
  <2>1. UNCHANGED <<pc, documents>>
    BY <1>1 DEF Api, create_ingestion_job, retry_job_read, retry_job_commit, docVars, workerVars
  <2> QED
    BY <1>1, <2>1 DEF TypeInv, LoadedType, VersionTypeOK, versionVars
<1>2. CASE UNCHANGED allVars
  BY <1>2 DEF TypeInv, LoadedType, VersionTypeOK, allVars, vars, versionVars, docVars,
              workerVars
<1> QED
  BY <1>1, <1>2, WorkerTypeStep, AckTypeStep DEF VersionNext

\* The first state is typed.
LEMMA TypeInit == VersionInit => TypeInv
<1> SUFFICES ASSUME VersionInit PROVE TypeInv
  OBVIOUS
<1> USE DEF VersionInit, Init, First
<1>1. QueueType
  BY NoJobAssumption DEF QueueType, Statuses, VersionPlaces, Places, Verdicts
<1>2. LoadedType
  BY DEF LoadedType, Actors
<1>3. row \in Row /\ snapshots \subseteq Row /\ documents = {row.path} \cap Jobs
  BY OriginalAssumption DEF Row, Contents
<1>4. chunks \in Batch
  BY DEF Batch, Contents
<1>5. VersionTypeOK
  BY <1>3, <1>4 DEF VersionTypeOK
<1> QED
  BY <1>1, <1>2, <1>5 DEF TypeInv

\* The variables keep their types, with any number of workers, acks, retries
\* and jobs: what a transaction has read is a row, or a row and a snapshot.
THEOREM VersionTypeCorrect == VersionSpec => []VersionTypeOK
<1>1. VersionInit => TypeInv
  BY TypeInit
<1>2. TypeInv /\ [VersionNext]_allVars => TypeInv'
  BY TypeStep
<1>3. TypeInv => VersionTypeOK
  BY DEF TypeInv
<1> QED
  BY <1>1, <1>2, <1>3, PTL DEF VersionSpec

-----------------------------------------------------------------------------
(* One worker takes the versions of a document, as the deployment runs it.  *)

OneWorker == \A v, w \in Workers : v = w

LinearInv == TypeInv /\ Chain /\ PlaceInv /\ ReadInv

SameHistory ==
    row'.version = row.version /\ row'.path = row.path /\ snapshots' = snapshots

\* A step that keeps the numbers and paths keeps the chain and who is in it.
LEMMA HistoryKept ==
    ASSUME LinearInv, SameHistory
    PROVE  Chain' /\ \A j \in Jobs : Recorded(j)' <=> Recorded(j)
BY DEF SameHistory, LinearInv, Chain, Recorded

\* The steps of the API enqueue or retry only jobs that are not in the history.
LEMMA ApiLinear ==
    ASSUME SerialRetries, LinearInv, Api, UNCHANGED versionVars
    PROVE  Chain' /\ PlaceInv' /\ ReadInv'
<1>1. SameHistory
  BY DEF SameHistory, versionVars
<1>2. UNCHANGED workerVars
  BY DEF Api, create_ingestion_job, retry_job_read, retry_job_commit
<1>3. ReadInv'
  BY <1>2 DEF LinearInv, ReadInv, versionVars, workerVars
<1>4. PlaceInv'
  <2> USE <1>2, HistoryKept, <1>1, NoJobAssumption
      DEF LinearInv, PlaceInv, TypeInv, QueueType, workerVars, versionVars, Recorded
  <2>1. ASSUME NEW j \in Jobs, create_ingestion_job(j) PROVE PlaceInv'
    BY <2>1 DEF create_ingestion_job
  <2>2. ASSUME NEW r \in Requests, NEW j \in Jobs, retry_job_read(r, j) PROVE PlaceInv'
    BY <2>2 DEF retry_job_read, tableVars
  <2>3. ASSUME NEW r \in Requests, retry_job_commit(r) PROVE PlaceInv'
    BY <2>3 DEF retry_job_commit, SerialRetries
  <2> QED
    BY <2>1, <2>2, <2>3 DEF Api
<1> QED
  BY <1>1, <1>3, <1>4, HistoryKept

\* The steps of an ack write nothing but the flag.
LEMMA AckLinear ==
    ASSUME LinearInv, NEW a \in Acks, ack(a)
    PROVE  /\ SameHistory /\ Chain' /\ PlaceInv' /\ ReadInv'
           /\ UNCHANGED <<tableVars, workerVars, chunks>>
<1>1. UNCHANGED <<tableVars, workerVars, retrying, snapshots, chunks>>
  BY DEF ack, ack_document_read, ack_document_commit, set_payload, vars
<1>2. \A w \in Workers : loaded'[w] = loaded[w]
  BY ActorsAssumption
  DEF ack, ack_document_read, ack_document_commit, set_payload, Load, LinearInv, TypeInv,
      LoadedType, Actors
<1>3. SameHistory
  <2>1. CASE ack_document_commit(a)
    <3>1. loaded[a] \in Row /\ [loaded[a] EXCEPT !.acked = TRUE] \in Row
      BY <2>1, RowsTyped DEF ack_document_commit, LinearInv, TypeInv, LoadedType
    <3>2. /\ [loaded[a] EXCEPT !.acked = TRUE].version = loaded[a].version
          /\ [loaded[a] EXCEPT !.acked = TRUE].path = loaded[a].path
      BY <3>1 DEF Row
    <3> QED
      BY <1>1, <2>1, <3>1, <3>2, FlushColumns
      DEF SameHistory, ack_document_commit, WriteRow, LinearInv, TypeInv, VersionTypeOK
  <2>2. CASE ~ack_document_commit(a)
    BY <2>2 DEF SameHistory, ack, ack_document_read, set_payload
  <2> QED
    BY <2>1, <2>2
<1>4. PlaceInv'
  BY <1>1, <1>3, HistoryKept
  DEF LinearInv, PlaceInv, Recorded, tableVars, workerVars, TypeInv, QueueType, SameHistory
<1>5. ReadInv'
  BY <1>1, <1>2, <1>3 DEF LinearInv, ReadInv, SameHistory, workerVars
<1> QED
  BY <1>1, <1>3, <1>4, <1>5, HistoryKept

\* The worker writes the row: what it read becomes the snapshot.
LEMMA CommitLinear ==
    ASSUME OneWorker, LinearInv, NEW w \in Workers, upsert_document_version_commit(w)
    PROVE  /\ Chain' /\ PlaceInv' /\ ReadInv'
           /\ row'.version = row.version + 1 /\ row'.path = cur[w]
<1> DEFINE old == loaded[w]
           new == NextVersion(old, cur[w])
<1>a. /\ pc[w] = "load" /\ loaded[w] # None /\ w \in Actors
      /\ cur[w] \in Jobs /\ row \in Row /\ snapshots \subseteq Row
  BY DEF upsert_document_version_commit, LinearInv, TypeInv, VersionTypeOK, QueueType, Actors
<1>b. /\ old \in Row /\ old.version = row.version /\ old.path = row.path
      /\ ~Recorded(cur[w]) /\ status[cur[w]] = "extracting"
  BY <1>a DEF LinearInv, TypeInv, LoadedType, ReadInv, PlaceInv
<1>1. /\ new \in Row
      /\ new.version = old.version + 1 /\ new.path = cur[w]
  BY <1>a, <1>b, RowsTyped DEF NextVersion
<1>2. /\ WriteRow(old, new) /\ Archive(old) /\ Goto(w, "index") /\ Load(w, None)
      /\ UNCHANGED <<tableVars, cur, retrying>>
  <2>1. \A s \in snapshots : s.version # old.version
    BY <1>a, <1>b DEF LinearInv, Chain, Row
  <2> QED
    BY <2>1 DEF upsert_document_version_commit
<1>3. row.version \in Nat \ {0} /\ snapshots \subseteq Row
  BY DEF LinearInv, TypeInv, VersionTypeOK, Row
<1>4. row'.version = row.version + 1 /\ row'.path = cur[w]
  BY <1>a, <1>b, <1>1, <1>2, <1>3, FlushColumns DEF WriteRow, Recorded
<1>5. snapshots' = snapshots \cup {old}
  BY <1>2 DEF Archive
<1> HIDE DEF old, new
<1>6. Chain'
  <2> USE <1>b, <1>1, <1>3, <1>4, <1>5 DEF LinearInv, Chain, Recorded
  <2>1. \A s \in snapshots' : s.version < row'.version /\ s.path # row'.path
    BY DEF Row
  <2>2. \A n \in 1 .. (row'.version - 1) : \E s \in snapshots' : s.version = n
    OBVIOUS
  <2>3. \A s, t \in snapshots' : s.version = t.version \/ s.path = t.path => s = t
    BY DEF Row
  <2>4. row'.version # 1
    OBVIOUS
  <2>5. \A s \in snapshots' : s.version = 1 => s.path = Original
    OBVIOUS
  <2> QED
    BY <2>1, <2>2, <2>3, <2>4, <2>5
<1>7. \A j \in Jobs : Recorded(j)' => Recorded(j) \/ j = cur[w]
  BY <1>1, <1>b, <1>4, <1>5 DEF Recorded
<1>8. pc' = [pc EXCEPT ![w] = "index"] /\ Workers = {w} /\ pc'[w] = "index"
  BY <1>2 DEF OneWorker, Goto, LinearInv, TypeInv, QueueType
<1>9. PlaceInv'
  BY <1>b, <1>1, <1>2, <1>4, <1>7, <1>8 DEF LinearInv, PlaceInv, tableVars, TypeInv, QueueType
<1> QED
  BY <1>4, <1>6, <1>8, <1>9 DEF ReadInv

\* The rollback pops the snapshot of the version before, the only one.
LEMMA RollbackLinear ==
    ASSUME OneWorker, LinearInv, NEW w \in Workers, rollback_failed_version_commit(w)
    PROVE  /\ Chain' /\ PlaceInv' /\ ReadInv'
           /\ row'.path = loaded[w].snapshot.path
           /\ snapshots' = snapshots \ {loaded[w].snapshot}
           /\ loaded[w].snapshot \in snapshots
           /\ loaded[w].snapshot.version = row.version - 1
<1> DEFINE old == loaded[w].row
           new == loaded[w].snapshot
<1>a. pc[w] = "rollback" /\ loaded[w] \in Pending /\ cur[w] \in Jobs /\ row \in Row
  BY DEF rollback_failed_version_commit, LinearInv, TypeInv, LoadedType, VersionTypeOK, QueueType
<1>1. /\ old \in Row /\ new \in snapshots
      /\ old.version = row.version /\ old.path = row.path
      /\ new.version = row.version - 1
      /\ status[cur[w]] = "extracting" /\ (row.path = cur[w] \/ ~Recorded(cur[w]))
  BY <1>a DEF LinearInv, ReadInv, PlaceInv, Pending
<1>2. /\ WriteRow(old, new) /\ Goto(w, "fail") /\ Load(w, None)
      /\ snapshots' = snapshots \ {new}
      /\ UNCHANGED <<tableVars, cur, retrying>>
  BY DEF rollback_failed_version_commit
<1>3. row.version \in Nat \ {0} /\ snapshots \subseteq Row
  BY DEF LinearInv, TypeInv, VersionTypeOK, Row
<1>4. row'.version = row.version - 1 /\ row'.path = new.path /\ new.path # row.path
  BY <1>a, <1>1, <1>2, <1>3, FlushColumns DEF WriteRow, LinearInv, Chain, Row
<1> HIDE DEF old, new
<1>5. Chain'
  <2> USE <1>1, <1>2, <1>3, <1>4 DEF LinearInv, Chain
  <2>1. \A s \in snapshots' : s.version < row'.version /\ s.path # row'.path
    BY DEF Row
  <2>2. \A n \in 1 .. (row'.version - 1) : \E s \in snapshots' : s.version = n
    OBVIOUS
  <2> QED
    BY <2>1, <2>2
<1>6. \A j \in Jobs : Recorded(j)' => Recorded(j)
  BY <1>1, <1>2, <1>4 DEF Recorded
<1>7. ~Recorded(cur[w])'
  BY <1>1, <1>2, <1>4 DEF Recorded, LinearInv, Chain
<1>8. pc' = [pc EXCEPT ![w] = "fail"] /\ Workers = {w} /\ pc'[w] = "fail"
  BY <1>2 DEF OneWorker, Goto, LinearInv, TypeInv, QueueType
<1>9. PlaceInv'
  <2>1. status'[cur'[w]] = "extracting"
    BY <1>1, <1>2 DEF tableVars
  <2>2. UNCHANGED <<status, retrying>>
    BY <1>2 DEF tableVars
  <2> QED
    BY <1>6, <1>7, <1>8, <2>1, <2>2 DEF LinearInv, PlaceInv
<1>10. ReadInv'
  BY <1>8 DEF ReadInv
<1> QED
  BY <1>1, <1>2, <1>4, <1>5, <1>9, <1>10 DEF new

\* The steps of the worker that keep the history.
OtherStep(w) ==
    \/ load_fails(w) \/ index_fails(w) \/ upsert_document_version_read(w)
    \/ replace_chunks(w) \/ upsert_chunks(w) \/ rollback_failed_version_read(w)
    \/ /\ \/ claim_next_job_select(w) \/ claim_next_job_commit(w)
          \/ get_document_by_source_path(w)
          \/ complete_job(w) \/ fail_job_read(w) \/ fail_job_commit(w) \/ worker_restarts(w)
       /\ UNCHANGED versionVars
    \/ /\ worker_dies(w)
       /\ Load(w, None)
       /\ UNCHANGED <<row, snapshots, chunks, hidden, published, acking>>

\* A worker that finds nothing to roll back to has not written the row: the
\* first version is no job's, and every later one has its predecessor.
LEMMA NothingToRollBack ==
    ASSUME LinearInv, NEW w \in Workers, pc[w] = "discard",
           \A s \in snapshots : s.version # row.version - 1
    PROVE  ~Recorded(cur[w])
<1>1. cur[w] \in Jobs /\ row.version \in Nat \ {0}
  BY DEF LinearInv, TypeInv, VersionTypeOK, QueueType, Row
<1>2. row.version = 1
  BY <1>1 DEF LinearInv, Chain
<1>3. row.path # cur[w]
  BY <1>1, <1>2, OriginalAssumption DEF LinearInv, Chain
<1> QED
  BY <1>3 DEF LinearInv, PlaceInv

\* They keep the chain, and the place of every job in it.
LEMMA OtherLinear ==
    ASSUME OneWorker, LinearInv, NEW w \in Workers, OtherStep(w)
    PROVE  SameHistory /\ Chain' /\ PlaceInv' /\ ReadInv'
<1>1. SameHistory /\ UNCHANGED <<row, snapshots>>
  BY DEF OtherStep, SameHistory, versionVars, load_fails, index_fails,
    upsert_document_version_read, replace_chunks, upsert_chunks, rollback_failed_version_read
<1>2. Chain' /\ \A j \in Jobs : Recorded(j)' <=> Recorded(j)
  BY <1>1, HistoryKept
<1>3. Workers = {w} /\ w \in Actors
  BY DEF OneWorker, Actors
<1>4. PlaceInv'
  <2> USE <1>1, <1>2, <1>3, NoJobAssumption
      DEF LinearInv, PlaceInv, TypeInv, QueueType, Goto, Leave, tableVars, docVars, workerVars
  <2>1. CASE load_fails(w) \/ index_fails(w)
    BY <2>1 DEF load_fails, index_fails, Recorded
  <2>2. CASE upsert_document_version_read(w)
    BY <2>2 DEF upsert_document_version_read, vars, Recorded
  <2>3. CASE replace_chunks(w)
    BY <2>3 DEF replace_chunks, Recorded
  <2>4. CASE upsert_chunks(w)
    <3>1. PICK place \in {"lookup", "discard"} : Goto(w, place)
      BY <2>4 DEF upsert_chunks
    <3> QED
      BY <2>4, <3>1 DEF upsert_chunks, Recorded
  <2>5. CASE rollback_failed_version_read(w)
    <3>1. /\ pc[w] = "discard" /\ UNCHANGED <<tableVars, cur, retrying>>
          /\ Goto(w, "rollback") \/ (Goto(w, "fail") /\ ~Recorded(cur[w]))
      BY <2>5, NothingToRollBack DEF rollback_failed_version_read
    <3>2. cur[w] \in Jobs
      BY <3>1
    <3> QED
      BY <3>1, <3>2 DEF Recorded
  <2>6. CASE claim_next_job_select(w)
    BY <2>6 DEF claim_next_job_select, Claimable, Recorded
  <2>7. CASE claim_next_job_commit(w)
    BY <2>7 DEF claim_next_job_commit, Recorded
  <2>8. CASE get_document_by_source_path(w)
    BY <2>8 DEF get_document_by_source_path, Recorded
  <2>9. CASE complete_job(w)
    BY <2>9 DEF complete_job, Recorded
  <2>10. CASE fail_job_read(w) \/ fail_job_commit(w)
    BY <2>10 DEF fail_job_read, fail_job_commit, Recorded
  <2>11. CASE worker_restarts(w)
    BY <2>11 DEF worker_restarts, Recorded
  <2>12. CASE worker_dies(w)
    BY <2>12 DEF worker_dies, Recorded
  <2> QED
    BY <2>1, <2>2, <2>3, <2>4, <2>5, <2>6, <2>7, <2>8, <2>9, <2>10, <2>11, <2>12 DEF OtherStep
<1>5. ReadInv'
  <2> USE <1>1, <1>3 DEF LinearInv, TypeInv, QueueType, LoadedType, Goto, Leave, Load
  <2>1. CASE upsert_document_version_read(w)
    BY <2>1 DEF upsert_document_version_read, ReadInv, vars, workerVars
  <2>2. CASE rollback_failed_version_read(w)
    <3>1. CASE Goto(w, "fail")
      BY <3>1 DEF ReadInv
    <3>2. ASSUME NEW s \in snapshots, s.version = row.version - 1,
                 Load(w, [row |-> row, snapshot |-> s]), Goto(w, "rollback")
          PROVE  ReadInv'
      BY <3>2 DEF ReadInv
    <3> QED
      BY <2>2, <3>1, <3>2 DEF rollback_failed_version_read
  <2>3. CASE claim_next_job_commit(w) /\ UNCHANGED versionVars
    BY <2>3, NoneAssumption DEF claim_next_job_commit, versionVars, ReadInv
  <2>4. CASE pc'[w] \notin {"load", "rollback"}
    BY <2>4 DEF ReadInv
  <2>5. CASE \/ load_fails(w) \/ index_fails(w) \/ replace_chunks(w) \/ upsert_chunks(w)
            \/ claim_next_job_select(w) \/ get_document_by_source_path(w)
    BY <2>4, <2>5
    DEF load_fails, index_fails, replace_chunks, upsert_chunks, claim_next_job_select,
        get_document_by_source_path
  <2>6. CASE \/ complete_job(w) \/ fail_job_read(w) \/ fail_job_commit(w)
            \/ worker_restarts(w) \/ worker_dies(w)
    BY <2>4, <2>6 DEF complete_job, fail_job_read, fail_job_commit, worker_restarts, worker_dies
  <2> QED
    BY <2>1, <2>2, <2>3, <2>5, <2>6 DEF OtherStep
<1> QED
  BY <1>1, <1>2, <1>4, <1>5

\* Every step keeps the chain, and what is known of each worker and its job.
LEMMA LinearStep ==
    OneWorker /\ SerialRetries /\ LinearInv /\ [VersionNext]_allVars => LinearInv'
<1> SUFFICES ASSUME OneWorker, SerialRetries, LinearInv, [VersionNext]_allVars
             PROVE  Chain' /\ PlaceInv' /\ ReadInv'
  BY TypeStep DEF LinearInv
<1>1. ASSUME NEW w \in Workers, VersionWorker(w) PROVE Chain' /\ PlaceInv' /\ ReadInv'
  BY <1>1, CommitLinear, RollbackLinear, OtherLinear DEF VersionWorker, OtherStep
<1>2. CASE UNCHANGED allVars
  BY <1>2 DEF LinearInv, Chain, PlaceInv, ReadInv, Recorded, allVars, vars, versionVars,
              tableVars, workerVars
<1> QED
  BY <1>1, <1>2, ApiLinear, AckLinear DEF VersionNext

\* The history starts as the first version alone.
LEMMA LinearInit == VersionInit => LinearInv
<1> SUFFICES ASSUME VersionInit PROVE LinearInv
  OBVIOUS
<1>1. row = First /\ snapshots = {}
  BY DEF VersionInit
<1>2. Chain
  BY <1>1 DEF Chain, First
<1>3. PlaceInv
  BY <1>1, OriginalAssumption DEF PlaceInv, Recorded, First, VersionInit, Init
<1>4. ReadInv
  BY DEF ReadInv, VersionInit, Init
<1> QED
  BY <1>2, <1>3, <1>4, TypeInit DEF LinearInv

\* The chain is an invariant of one worker and serial retries.
LEMMA LinearInvariant == OneWorker /\ SerialRetries => (VersionSpec => []LinearInv)
<1> SUFFICES ASSUME OneWorker, SerialRetries PROVE VersionSpec => []LinearInv
  OBVIOUS
<1>1. VersionInit => LinearInv
  BY LinearInit
<1>2. LinearInv /\ [VersionNext]_allVars => LinearInv'
  BY LinearStep
<1> QED
  BY <1>1, <1>2, PTL DEF VersionSpec

\* What the versions page shows is linear: numbers 1 to current_version, each
\* once and of another upload, after any failures, rollbacks and deaths.
THEOREM LinearHistory == OneWorker /\ SerialRetries => (VersionSpec => []HistoryIsLinear)
<1> SUFFICES ASSUME OneWorker, SerialRetries PROVE VersionSpec => []HistoryIsLinear
  OBVIOUS
<1>1. LinearInv => HistoryIsLinear
  <2> SUFFICES ASSUME LinearInv PROVE HistoryIsLinear
    OBVIOUS
  <2>1. row \in Row /\ snapshots \subseteq Row /\ Chain
    BY DEF LinearInv, TypeInv, VersionTypeOK
  <2>2. \A s \in History : s.version \in 1 .. row.version
    BY <2>1 DEF Chain, History, Row
  <2>3. \A n \in 1 .. row.version : \E s \in History : s.version = n
    BY <2>1 DEF Chain, History, Row
  <2>4. \A s, t \in History : s.version = t.version \/ s.path = t.path => s = t
    BY <2>1 DEF Chain, History, Row
  <2> QED
    BY <2>2, <2>3, <2>4 DEF HistoryIsLinear
<1> QED
  BY <1>1, LinearInvariant, PTL

\* The rollback forgets a version that was indexed only when the attempt that
\* failed had not written the row: what it pops is then another job's.
THEOREM RollbackForgetsOthers ==
    OneWorker /\ SerialRetries => (VersionSpec => OnlyUnwrittenRollbackForgets)
<1> SUFFICES ASSUME OneWorker, SerialRetries PROVE VersionSpec => OnlyUnwrittenRollbackForgets
  OBVIOUS
<1>1. ASSUME LinearInv, VersionNext, NEW j \in Jobs,
             status[j] = "indexed", \E s \in History : s.path = j,
             \A s \in History' : s.path # j
      PROVE  \E w \in Workers : pc[w] = "rollback" /\ cur[w] # row.path
  <2>1. ~SameHistory
    BY <1>1 DEF SameHistory, History
  <2>2. PICK w \in Workers : VersionWorker(w) /\ ~OtherStep(w)
    BY <1>1, <2>1, AckLinear, OtherLinear DEF VersionNext, SameHistory, versionVars
  <2>3. CASE upsert_document_version_commit(w)
    <3>1. loaded[w].path = row.path /\ pc[w] = "load" /\ loaded[w] # None
      BY <1>1, <2>3 DEF upsert_document_version_commit, LinearInv, ReadInv
    <3>2. \/ snapshots' = snapshots \cup {loaded[w]}
          \/ SameHistory
      BY <2>3 DEF upsert_document_version_commit, Archive, SameHistory
    <3> QED
      BY <1>1, <2>1, <3>1, <3>2 DEF History
  <2>4. CASE rollback_failed_version_commit(w)
    <3>1. /\ row'.path = loaded[w].snapshot.path
          /\ snapshots' = snapshots \ {loaded[w].snapshot}
      BY <1>1, <2>4, RollbackLinear
    <3>2. row.path = j
      BY <1>1, <3>1 DEF History
    <3>3. pc[w] = "rollback" /\ status[cur[w]] = "extracting"
      BY <1>1, <2>4 DEF rollback_failed_version_commit, LinearInv, PlaceInv
    <3> QED
      BY <1>1, <3>2, <3>3
  <2> QED
    BY <2>2, <2>3, <2>4 DEF VersionWorker, OtherStep
<1>2. LinearInv /\ [VersionNext]_allVars =>
        [\A j \in Jobs :
           /\ status[j] = "indexed"
           /\ \E s \in History : s.path = j
           /\ \A s \in History' : s.path # j
           => \E w \in Workers : pc[w] = "rollback" /\ cur[w] # row.path]_allVars
  BY <1>1
<1> QED
  BY <1>2, LinearInvariant, PTL DEF VersionSpec, OnlyUnwrittenRollbackForgets

-----------------------------------------------------------------------------
(* The chunk rows.                                                          *)

\* Nothing takes up a job that its worker died over.
LEMMA OrphansStay ==
    ASSUME LinearInv, [VersionNext]_allVars, NEW j \in Jobs, OrphanedJob(j)
    PROVE  OrphanedJob(j)'
<1> USE NoJobAssumption DEF OrphanedJob, LinearInv, TypeInv, QueueType, tableVars, workerVars
<1>1. CASE Api
  BY <1>1 DEF Api, create_ingestion_job, retry_job_read, retry_job_commit, PlaceInv
<1>2. ASSUME NEW a \in Acks, ack(a) PROVE OrphanedJob(j)'
  BY <1>2, AckLinear
<1>3. ASSUME NEW w \in Workers, VersionWorker(w) PROVE OrphanedJob(j)'
  <2>1. \/ cur' = cur \/ cur' = [cur EXCEPT ![w] = NoJob]
        \/ \E k \in Jobs : status[k] = "queued" /\ cur' = [cur EXCEPT ![w] = k]
    BY <1>3 DEF VersionWorker, load_fails, index_fails, upsert_document_version_read,
      upsert_document_version_commit, replace_chunks, upsert_chunks,
      rollback_failed_version_read, rollback_failed_version_commit, claim_next_job_select,
      claim_next_job_commit, get_document_by_source_path, complete_job, fail_job_read,
      fail_job_commit,
      worker_restarts, worker_dies, Leave, Claimable, vars
  <2>2. status' = status \/ \E st : status' = [status EXCEPT ![cur[w]] = st]
    BY <1>3 DEF VersionWorker, load_fails, index_fails, upsert_document_version_read,
      upsert_document_version_commit, replace_chunks, upsert_chunks,
      rollback_failed_version_read, rollback_failed_version_commit, claim_next_job_select,
      claim_next_job_commit, get_document_by_source_path, complete_job, fail_job_read,
      fail_job_commit,
      worker_restarts, worker_dies, vars
  <2> QED
    BY <2>1, <2>2
<1>4. CASE UNCHANGED allVars
  BY <1>4 DEF allVars, vars
<1> QED
  BY <1>1, <1>2, <1>3, <1>4 DEF VersionNext

\* The worker's steps that keep the history keep what is known of the chunks: an
\* attempt that wrote the row replaces them, or goes on to the rollback.
LEMMA OtherChunks ==
    ASSUME OneWorker, LinearInv, ChunkInv, NEW w \in Workers, OtherStep(w),
           [VersionNext]_allVars
    PROVE  ChunkInv'
<1>1. /\ Workers = {w} /\ row' = row /\ snapshots' = snapshots
      /\ cur[w] \in Jobs \/ pc[w] \in {"idle", "down"}
  BY DEF OneWorker, OtherStep, versionVars, load_fails, index_fails,
    upsert_document_version_read, replace_chunks, upsert_chunks,
    rollback_failed_version_read, LinearInv, TypeInv, QueueType
<1>2. (\E j \in Jobs : OrphanedJob(j)) => \E j \in Jobs : OrphanedJob(j)'
  BY OrphansStay
<1>3. CASE replace_chunks(w)
  <2>1. chunks'.path = row.path
    BY <1>3 DEF replace_chunks, BatchOf, LinearInv, PlaceInv
  <2> QED
    BY <1>1, <2>1 DEF ChunkInv, LinearInv, Chain
<1>4. CASE ~replace_chunks(w)
  <2>1. chunks' = chunks
    BY <1>4 DEF OtherStep, versionVars, load_fails, index_fails,
      upsert_document_version_read, upsert_chunks, rollback_failed_version_read
  <2>2. SUFFICES ASSUME pc[w] \in {"index", "discard", "rollback"}, row.path = cur[w],
                        ~\E j \in Jobs : OrphanedJob(j)'
                 PROVE  pc'[w] \in {"index", "discard", "rollback"} /\ cur'[w] = cur[w]
    BY <1>1, <1>2, <2>1 DEF ChunkInv
  <2> USE <1>1, <2>2 DEF LinearInv, TypeInv, QueueType, Goto, Leave, tableVars, workerVars, vars
  <2>3. CASE worker_dies(w)
    <3>1. PICK k \in Jobs : k = cur[w]
      OBVIOUS
    <3>2. status[k] = "extracting"
      BY <3>1 DEF PlaceInv
    <3>3. status'[k] = "extracting" /\ \A v \in Workers : cur'[v] # k
      BY <2>3, <3>1, <3>2, NoJobAssumption DEF worker_dies
    <3>4. OrphanedJob(k)'
      BY <3>3 DEF OrphanedJob
    <3> QED
      BY <2>2, <3>4
  <2>4. CASE rollback_failed_version_read(w)
    <3>1. \E s \in snapshots : s.version = row.version - 1
      BY <2>4, NothingToRollBack DEF rollback_failed_version_read, Recorded
    <3> QED
      BY <2>4, <3>1 DEF rollback_failed_version_read
  <2>5. CASE load_fails(w) \/ index_fails(w)
    BY <2>5 DEF load_fails, index_fails
  <2> QED
    BY <1>4, <2>3, <2>4, <2>5
    DEF OtherStep, upsert_document_version_read, upsert_chunks, claim_next_job_select,
        claim_next_job_commit, get_document_by_source_path, complete_job, fail_job_read,
      fail_job_commit,
        worker_restarts
<1> QED
  BY <1>3, <1>4

\* Every step keeps what is known of the chunks.
LEMMA ChunkStep ==
    OneWorker /\ SerialRetries /\ LinearInv /\ ChunkInv /\ [VersionNext]_allVars => ChunkInv'
<1> SUFFICES ASSUME OneWorker, SerialRetries, LinearInv, ChunkInv, [VersionNext]_allVars
             PROVE  ChunkInv'
  OBVIOUS
<1>0. (\E j \in Jobs : OrphanedJob(j)) => \E j \in Jobs : OrphanedJob(j)'
  BY OrphansStay
<1>1. ASSUME SameHistory, UNCHANGED <<pc, cur, chunks>> PROVE ChunkInv'
  BY <1>0, <1>1 DEF ChunkInv, SameHistory
<1>2. CASE Api /\ UNCHANGED versionVars
  BY <1>1, <1>2
  DEF Api, create_ingestion_job, retry_job_read, retry_job_commit, workerVars, versionVars,
      SameHistory
<1>3. ASSUME NEW a \in Acks, ack(a) PROVE ChunkInv'
  BY <1>1, <1>3, AckLinear DEF workerVars
<1>4. CASE UNCHANGED allVars
  BY <1>1, <1>4 DEF allVars, vars, workerVars, versionVars, SameHistory
<1>5. ASSUME NEW w \in Workers, VersionWorker(w) PROVE ChunkInv'
  <2>0. Workers = {w} /\ row.version \in Nat \ {0} /\ snapshots \subseteq Row
    BY DEF OneWorker, LinearInv, TypeInv, VersionTypeOK, Row
  <2>1. CASE upsert_document_version_commit(w)
    <3>1. /\ pc[w] = "load" /\ chunks' = chunks /\ loaded[w] \in Row
          /\ loaded[w].version = row.version /\ ~Recorded(cur[w])
      BY <2>1
      DEF upsert_document_version_commit, LinearInv, ReadInv, TypeInv, LoadedType, PlaceInv
    <3>2. \A s \in snapshots : s.version # loaded[w].version
      BY <2>0, <3>1 DEF LinearInv, Chain, Row
    <3>3. /\ WriteRow(loaded[w], NextVersion(loaded[w], cur[w]))
          /\ snapshots' = snapshots \cup {loaded[w]}
          /\ pc'[w] = "index" /\ cur' = cur
      BY <2>1, <3>2
      DEF upsert_document_version_commit, Archive, Goto, LinearInv, TypeInv, QueueType
    <3>4. row'.path = cur'[w] /\ row'.version = row.version + 1
      BY <2>1, <3>3, CommitLinear
    <3>5. \A s \in snapshots : chunks.path = s.path => \E j \in Jobs : OrphanedJob(j)
      BY <2>0, <3>1 DEF ChunkInv
    <3> QED
      BY <1>0, <2>0, <3>1, <3>3, <3>4, <3>5 DEF ChunkInv
  <2>2. CASE rollback_failed_version_commit(w)
    <3>1. /\ snapshots' = snapshots \ {loaded[w].snapshot}
          /\ loaded[w].snapshot \in snapshots
          /\ loaded[w].snapshot.version = row.version - 1
          /\ chunks' = chunks
      BY <2>2, RollbackLinear DEF rollback_failed_version_commit
    <3>2. \A s \in snapshots' : s \in snapshots /\ s.version # row.version - 1
      BY <3>1 DEF LinearInv, Chain
    <3> QED
      BY <1>0, <3>1, <3>2 DEF ChunkInv
  <2> QED
    BY <1>5, <2>1, <2>2, OtherChunks DEF VersionWorker, OtherStep
<1> QED
  BY <1>2, <1>3, <1>4, <1>5 DEF VersionNext

\* At rest, with no worker dead over a job, the chunk rows are not those of a
\* version that the history shows as superseded.
THEOREM ChunksAreCurrent ==
    OneWorker /\ SerialRetries => (VersionSpec => []ChunksNotSuperseded)
<1> SUFFICES ASSUME OneWorker, SerialRetries PROVE VersionSpec => []ChunksNotSuperseded
  OBVIOUS
<1>1. VersionInit => ChunkInv
  BY DEF VersionInit, ChunkInv
<1>2. LinearInv /\ ChunkInv /\ [VersionNext]_allVars => ChunkInv'
  BY ChunkStep
<1>3. LinearInv /\ ChunkInv => ChunksNotSuperseded
  BY DEF ChunkInv, ChunksNotSuperseded, Quiet, OrphanedJob
<1> QED
  BY <1>1, <1>2, <1>3, LinearInvariant, PTL DEF VersionSpec
=============================================================================
