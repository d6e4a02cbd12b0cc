--------------------------- MODULE RetrievalProofs ---------------------------
(* What holds of Retrieval for any documents, workspaces, tokens, scores   *)
(* and bounds: every search serves what was read and what its token names. *)
EXTENDS Retrieval, FiniteSetTheorems, WellFoundedInduction, TLAPS

\* A document in the worker's hands has its row, and its chunk row once that
\* has been written; the ingestion is counted.
JobInv ==
    job # None => /\ batches # 0 /\ doc[job.doc] # None
                  /\ job.step = "upsert" => doc[job.doc].chunk # None

\* Only what was a document's chunk when it was acked is published.
ReadInv == published \subseteq read /\ acking \subseteq read

\* The token names the workspace of the chunk, or the caller an admin.
Visible(token, c) ==
    \/ token.is_admin = TRUE
    \/ token.workspace_ids # None /\ Home[c.doc] \in token.workspace_ids

Readable(token, c) == c \in read /\ Visible(token, c)

\* Whatever the steps of a request keep of its hits is readable for it.
RequestInv ==
    request # None =>
        /\ \A c \in request.hits : Readable(request.token, c)
        /\ \A r \in request.found \cup request.served : Readable(request.token, r.chunk)

\* The types and where the worker and the request stand: inductive, and with
\* it what is served.
IInv == RetrievalTypeOK /\ JobInv /\ ReadInv /\ RequestInv

-----------------------------------------------------------------------------
(* Scopes.                                                                 *)

\* Only a claim that says so makes an admin: a missing one does not.
LEMMA AdminClaim ==
    ASSUME NEW token \in Tokens
    PROVE  decode_token(token).is_admin => token.is_admin = TRUE
<1>1. decode_token(token).is_admin = (token.is_admin \in BOOLEAN /\ token.is_admin)
  BY DEF decode_token
<1>2. token.is_admin \in BOOLEAN /\ token.is_admin => token.is_admin = TRUE
  BY Zenon
<1> QED
  BY <1>1, <1>2

\* decode_token, workspace_scope and the filter let through what the token
\* names, and nothing when its claims are missing.
LEMMA ScopeIsVisible ==
    ASSUME NEW token \in Tokens, NEW c,
           InScope(c, workspace_scope(decode_token(token)))
    PROVE  Visible(token, c)
<1>1. CASE decode_token(token).is_admin
  BY <1>1, AdminClaim DEF Visible
<1>2. CASE ~decode_token(token).is_admin
  <2> DEFINE ids == decode_token(token).workspace_ids
  <2>1. ids = IF token.workspace_ids = None THEN {} ELSE token.workspace_ids
    BY DEF decode_token
  <2>2. workspace_scope(decode_token(token)) = ids
    BY <1>2 DEF workspace_scope
  <2>3. ids # Everything
    BY <2>1, TokensAssumption
  <2>4. Home[c.doc] \in ids
    BY <2>2, <2>3 DEF InScope
  <2> QED
    BY <2>1, <2>4 DEF Visible
<1> QED
  BY <1>1, <1>2

-----------------------------------------------------------------------------
(* The worker and the ack.                                                 *)

\* Nothing is read, and no request served, before the first step.
LEMMA InitInv == Init => IInv
<1> SUFFICES ASSUME Init PROVE IInv
  OBVIOUS
<1>1. RetrievalTypeOK
  BY BoundsAssumption DEF Init, RetrievalTypeOK, Gateways
<1> QED
  BY <1>1 DEF Init, IInv, JobInv, ReadInv, RequestInv

\* What a rollback makes of a row: its chunk stays.
LEMMA RollbackTyped ==
    ASSUME NEW row \in Document
    PROVE  /\ Rollback(row) \in Document
           /\ Rollback(row).chunk = row.chunk
           /\ row.version > 1 => Rollback(row).version = row.version - 1
BY DEF Rollback, Document

\* A step of the worker or an ack keeps the types: a chunk row is only written,
\* indexed or rolled back for a document that is there.
LEMMA WriterKeepsTypes == RetrievalTypeOK /\ JobInv /\ Writer => RetrievalTypeOK' /\ JobInv'
<1> SUFFICES ASSUME RetrievalTypeOK, JobInv, Writer PROVE RetrievalTypeOK' /\ JobInv'
  OBVIOUS
<1>1. ASSUME NEW d \in Docs, upsert_document(d) PROVE RetrievalTypeOK' /\ JobInv'
  <2>1. batches' \in 0..MaxBatches /\ batches' # 0
    BY <1>1, BoundsAssumption DEF upsert_document, RetrievalTypeOK
  <2>2. doc'[d] \in Document /\ doc' \in [Docs -> Document \cup {None}]
    <3>1. CASE doc[d] = None
      BY <1>1, <3>1 DEF upsert_document, RetrievalTypeOK, Document
    <3>2. CASE doc[d] # None
      <4>1. doc[d] \in Document
        BY <3>2 DEF RetrievalTypeOK
      <4>2. [version |-> doc[d].version + 1, acked |-> FALSE, chunk |-> doc[d].chunk,
             acked_before |-> doc[d].acked_before
                              \cup (IF doc[d].acked THEN {doc[d].version} ELSE {})]
              \in Document
        BY <4>1 DEF Document
      <4> QED
        BY <1>1, <3>2, <4>2 DEF upsert_document, RetrievalTypeOK
    <3> QED
      BY <3>1, <3>2
  <2>3. job' \in Job /\ job'.doc = d /\ job'.step = "replace"
    BY <1>1 DEF upsert_document, RetrievalTypeOK, Job
  <2>4. doc'[d] # None
    BY <2>2, NoneAssumption
  <2> QED
    BY <1>1, <2>1, <2>2, <2>3, <2>4 DEF upsert_document, RetrievalTypeOK, JobInv
<1>2. ASSUME NEW d \in Docs, ack_document(d) PROVE RetrievalTypeOK' /\ JobInv'
  <2>1. doc[d] \in Document
    BY <1>2 DEF ack_document, RetrievalTypeOK
  <2>2. [doc[d] EXCEPT !.acked = TRUE] \in Document
        /\ [doc[d] EXCEPT !.acked = TRUE].chunk = doc[d].chunk
    BY <2>1 DEF Document
  <2>3. doc' = [doc EXCEPT ![d] = [doc[d] EXCEPT !.acked = TRUE]]
    BY <1>2 DEF ack_document
  <2>4. acking' \subseteq Chunk
    BY <1>2, <2>1 DEF ack_document, Document
  <2>5. RetrievalTypeOK'
    BY <1>2, <2>2, <2>3, <2>4 DEF ack_document, RetrievalTypeOK
  <2>6. JobInv'
    BY <1>2, <2>2, <2>3, NoneAssumption DEF ack_document, RetrievalTypeOK, JobInv, Job
  <2> QED
    BY <2>5, <2>6
<1>3. CASE replace_chunks
  <2> DEFINE d == job.doc
             c == [doc |-> d, batch |-> batches, version |-> doc[d].version]
  <2>1. job \in Job /\ d \in Docs /\ doc[d] \in Document
    BY <1>3 DEF replace_chunks, RetrievalTypeOK, JobInv, Job
  <2>2. c \in Chunk
    <3>1. batches \in 1..MaxBatches
      BY <1>3, BoundsAssumption DEF replace_chunks, RetrievalTypeOK, JobInv
    <3> QED
      BY <2>1, <3>1 DEF Chunk, Document
  <2>3. [doc[d] EXCEPT !.chunk = c] \in Document /\ [doc[d] EXCEPT !.chunk = c].chunk = c
    BY <2>1, <2>2 DEF Document
  <2>4. doc' = [doc EXCEPT ![d] = [doc[d] EXCEPT !.chunk = c]]
    BY <1>3 DEF replace_chunks
  <2>5. job' \in Job /\ job'.doc = d /\ batches' # 0
    BY <1>3, <2>1 DEF replace_chunks, Job, JobInv
  <2> HIDE DEF c
  <2>6. RetrievalTypeOK'
    BY <1>3, <2>3, <2>4, <2>5 DEF replace_chunks, RetrievalTypeOK
  <2>7. JobInv'
    <3>1. doc'[d] # None /\ doc'[d].chunk # None
      BY <2>1, <2>2, <2>3, <2>4, NoneAssumption DEF RetrievalTypeOK
    <3> QED
      BY <2>5, <3>1 DEF JobInv
  <2> QED
    BY <2>6, <2>7
<1>4. CASE upsert_chunks
  <2>1. doc[job.doc] \in Document /\ doc[job.doc].chunk # None
    BY <1>4 DEF upsert_chunks, RetrievalTypeOK, JobInv, Job
  <2>2. doc[job.doc].chunk \in Chunk
    BY <2>1 DEF Document
  <2> QED
    BY <1>4, <2>2 DEF upsert_chunks, RetrievalTypeOK, JobInv
<1>5. CASE ingest_fails
  <2> DEFINE d == job.doc
  <2>1. job \in Job /\ d \in Docs /\ doc[d] \in Document
    BY <1>5 DEF ingest_fails, RetrievalTypeOK, JobInv, Job
  <2>2. job.step = "upsert" => doc[d].chunk \in Chunk
    BY <1>5, <2>1 DEF ingest_fails, JobInv, Document
  <2>3. Rollback(doc[d]) \in Document
    BY <2>1, RollbackTyped
  <2>4. doc' \in [Docs -> Document \cup {None}]
    BY <1>5, <2>1, <2>3 DEF ingest_fails, RetrievalTypeOK
  <2>5. displaced' \subseteq Chunk
    BY <1>5, <2>2 DEF ingest_fails, RetrievalTypeOK
  <2> QED
    BY <1>5, <2>4, <2>5 DEF ingest_fails, RetrievalTypeOK, JobInv
<1>6. CASE set_payload
  BY <1>6 DEF set_payload, RetrievalTypeOK, JobInv
<1>7. ASSUME NEW d \in Docs, load_fails(d) PROVE RetrievalTypeOK' /\ JobInv'
  <2>1. doc[d] \in Document /\ Rollback(doc[d]) \in Document
    BY <1>7, RollbackTyped DEF load_fails, RetrievalTypeOK
  <2>2. doc' \in [Docs -> Document \cup {None}]
    BY <1>7, <2>1 DEF load_fails, RetrievalTypeOK
  <2>3. displaced' \subseteq Chunk
    BY <1>7, <2>1 DEF load_fails, RetrievalTypeOK, Document
  <2> QED
    BY <1>7, <2>2, <2>3 DEF load_fails, RetrievalTypeOK, JobInv
<1> QED
  BY <1>1, <1>2, <1>3, <1>4, <1>5, <1>6, <1>7 DEF Writer

\* Only an ack publishes, what it has read, and nothing is unread.
LEMMA WriterKeepsRead == ReadInv /\ Writer => ReadInv' /\ read \subseteq read'
<1> SUFFICES ASSUME ReadInv, Writer PROVE ReadInv' /\ read \subseteq read'
  OBVIOUS
<1>1. ASSUME NEW d \in Docs, ack_document(d) PROVE ReadInv' /\ read \subseteq read'
  BY <1>1 DEF ack_document, ReadInv
<1>2. CASE set_payload
  BY <1>2 DEF set_payload, ReadInv
<1>3. ASSUME UNCHANGED <<published, acking, read>> PROVE ReadInv' /\ read \subseteq read'
  BY <1>3 DEF ReadInv
<1> QED
  BY <1>1, <1>2, <1>3
  DEF Writer, upsert_document, replace_chunks, upsert_chunks, ingest_fails, load_fails

\* A step of the worker or an ack leaves the request alone.
LEMMA WriterStep == IInv /\ Writer => IInv'
<1> SUFFICES ASSUME IInv, Writer PROVE IInv'
  OBVIOUS
<1>1. request' = request
  BY DEF Writer, upsert_document, ack_document, replace_chunks, upsert_chunks, ingest_fails,
         load_fails, set_payload
<1>2. RequestInv'
  BY <1>1, WriterKeepsRead DEF IInv, RequestInv, Readable
<1> QED
  BY <1>2, WriterKeepsTypes, WriterKeepsRead DEF IInv

-----------------------------------------------------------------------------
(* The request.                                                            *)

\* The parts of a request that its next step may change; the rest stays.
Kept(r, s) ==
    /\ s \in Request
    /\ s.token = r.token
    /\ s.hits \subseteq r.hits /\ s.served \subseteq r.served \cup r.found

\* A request that keeps to hits it had, or drops them, stays typed and readable.
LEMMA KeptIsReadable ==
    ASSUME IInv, request # None, UNCHANGED storeVars, Kept(request, request'),
           request'.found \subseteq request.found, cache' = None \/ cache' \subseteq Answer
    PROVE  IInv'
<1>1. RetrievalTypeOK' /\ JobInv' /\ ReadInv'
  BY DEF IInv, RetrievalTypeOK, JobInv, ReadInv, storeVars, Kept
<1>2. RequestInv'
  BY DEF IInv, RequestInv, Readable, Kept, storeVars
<1> QED
  BY <1>1, <1>2 DEF IInv

\* A request that has just come in has no hits yet.
LEMMA AskStep ==
    ASSUME IInv, NEW kind \in Kinds, NEW token \in Tokens, NEW limit \in Limits,
           NEW length \in Lengths, ask(kind, token, limit, length)
    PROVE  IInv'
<1>1. request' \in Request /\ request'.hits = {} /\ request'.found = {} /\ request'.served = {}
  BY BoundsAssumption DEF ask, Request
<1>2. RequestInv'
  BY <1>1 DEF RequestInv
<1> QED
  BY <1>1, <1>2 DEF ask, IInv, RetrievalTypeOK, JobInv, ReadInv, storeVars

\* The hits are published chunks in the scope of the token (the filter).
LEMMA QueryStep == IInv /\ vector_search => IInv'
<1> SUFFICES ASSUME IInv, vector_search PROVE IInv'
  OBVIOUS
<1> DEFINE hits == Nearest(Matching(Scope(request)), VectorLimit(request.limit))
<1>1. request \in Request
  BY DEF vector_search, IInv, RetrievalTypeOK
<1>2. \A c \in hits : c \in published /\ InScope(c, Scope(request))
  BY DEF Nearest, Matching
<1>3. \A c \in hits : c \in Chunk /\ Readable(request.token, c)
  <2> SUFFICES ASSUME NEW c \in hits PROVE c \in Chunk /\ Readable(request.token, c)
    OBVIOUS
  <2>1. c \in Chunk /\ c \in read
    BY <1>2 DEF IInv, RetrievalTypeOK, ReadInv
  <2>2. Visible(request.token, c)
    BY <1>1, <1>2, ScopeIsVisible DEF Scope, Request
  <2> QED
    BY <2>1, <2>2 DEF Readable
<1>4. request' = [request EXCEPT !.step = "rows", !.hits = hits]
  BY DEF vector_search
<1> HIDE DEF hits
<1>5. /\ request' \in Request /\ request'.token = request.token /\ request'.hits = hits
      /\ request'.found = request.found /\ request'.served = request.served
  BY <1>1, <1>3, <1>4 DEF Request
<1>6. UNCHANGED <<storeVars, cache>>
  BY DEF vector_search
<1>7. RequestInv'
  BY <1>3, <1>5, <1>6 DEF vector_search, IInv, RequestInv, Readable, storeVars
<1> QED
  BY <1>5, <1>6, <1>7 DEF IInv, RetrievalTypeOK, JobInv, ReadInv, storeVars

\* A hit whose row is there becomes a result, of the same chunk.
LEMMA ResultTyped ==
    ASSUME RetrievalTypeOK, NEW c \in Chunk, RowOf(c) # None
    PROVE  ResultOf(c) \in Result /\ ResultOf(c).chunk = c
<1>1. RowOf(c) \in Document
  BY DEF RowOf, RetrievalTypeOK, Chunk
<1>2. RankScore(c) \in Int
  <2>1. c.doc \in Docs /\ c.batch \in 1..MaxBatches
    BY DEF Chunk
  <2>2. Score(c) \in Int
    BY <2>1, ScoresAssumption, Zenon DEF Score
  <2>3. Boost[c.doc] \in Int
    BY <2>1, ScoresAssumption
  <2> QED
    BY <2>2, <2>3 DEF RankScore
<1> QED
  BY <1>1, <1>2 DEF ResultOf, Result, Document

\* Looking up a hit takes it over as a result or skips it.
LEMMA RowStep == IInv /\ get_chunk_with_document => IInv'
<1> SUFFICES ASSUME IInv, get_chunk_with_document PROVE IInv'
  OBVIOUS
<1>1. request # None /\ request \in Request
  BY DEF get_chunk_with_document, IInv, RetrievalTypeOK
<1>2. PICK c \in request.hits :
        request' = [request EXCEPT !.hits = request.hits \ {c},
          !.found = request.found \cup (IF RowOf(c) = None THEN {} ELSE {ResultOf(c)})]
  BY DEF get_chunk_with_document
<1> DEFINE found == request.found \cup (IF RowOf(c) = None THEN {} ELSE {ResultOf(c)})
<1>3. c \in Chunk /\ Readable(request.token, c)
  BY <1>1 DEF IInv, RequestInv, Request
<1>4. RowOf(c) # None => ResultOf(c) \in Result /\ ResultOf(c).chunk = c
  BY <1>3, ResultTyped DEF IInv
<1>5. /\ found \subseteq Result
      /\ \A r \in found : Readable(request.token, r.chunk)
  BY <1>1, <1>3, <1>4 DEF IInv, RequestInv, Request
<1> HIDE DEF found
<1>6. /\ request' \in Request /\ request'.token = request.token
      /\ request'.hits = request.hits \ {c}
      /\ request'.found = found /\ request'.served = request.served
  <2>1. request' = [request EXCEPT !.hits = request.hits \ {c}, !.found = found]
    BY <1>2 DEF found
  <2> QED
    BY <1>1, <1>5, <2>1 DEF Request
<1>7. UNCHANGED <<storeVars, cache>>
  BY DEF get_chunk_with_document
<1>8. RequestInv'
  BY <1>1, <1>5, <1>6, <1>7 DEF IInv, RequestInv, Readable, storeVars
<1> QED
  BY <1>6, <1>7, <1>8 DEF IInv, RetrievalTypeOK, JobInv, ReadInv, storeVars

\* Ranking, the gateway and the end of a request only drop results or name them.
LEMMA OtherSteps ==
    ASSUME IInv, Handler \/ close, ~vector_search, ~get_chunk_with_document
    PROVE  IInv'
<1>1. CASE close
  BY <1>1 DEF close, IInv, RetrievalTypeOK, JobInv, ReadInv, RequestInv, storeVars
<1>2. CASE Handler
  <2>1. request # None /\ request \in Request /\ UNCHANGED storeVars
    BY <1>2 DEF Handler, results_ranked, llm_cached, llm_answers, llm_attempt_fails,
                llm_not_configured, llm_unavailable, request_raises, IInv, RetrievalTypeOK
  <2>2. Context(request) \subseteq Chunk
    BY <2>1 DEF Context, Request, Result
  <2>3. ASSUME NEW served \in SUBSET (request.found \cup request.served),
               NEW outcome \in {"results", "no_context", "unavailable", "error"},
               Finish(served, outcome)
        PROVE  Kept(request, request') /\ request'.found \subseteq request.found
    BY <2>1, <2>3 DEF Finish, Kept, Request
  <2>4. ASSUME NEW text \in SUBSET Chunk, Answered(text)
        PROVE  Kept(request, request') /\ request'.found \subseteq request.found
    BY <2>1, <2>4 DEF Answered, Kept, Request
  <2>5. CASE results_ranked
    <3> DEFINE served == TopRanked(request.found, request.limit)
    <3>1. served \in SUBSET (request.found \cup request.served)
      BY DEF TopRanked
    <3> HIDE DEF served
    <3>2. \/ Finish(served, "results") \/ Finish({}, "no_context")
          \/ request' = [request EXCEPT !.step = "llm", !.served = served]
      BY <2>5 DEF results_ranked, served
    <3>3. ASSUME request' = [request EXCEPT !.step = "llm", !.served = served]
          PROVE  Kept(request, request') /\ request'.found \subseteq request.found
      BY <2>1, <3>1, <3>3 DEF Kept, Request
    <3>4. Kept(request, request') /\ request'.found \subseteq request.found
      BY <2>3, <3>1, <3>2, <3>3
    <3> QED
      BY <2>1, <2>5, <3>4, KeptIsReadable DEF results_ranked, IInv, RetrievalTypeOK
  <2>6. CASE llm_cached
    <3>1. PICK a \in Cached(request) : Answered(a.text)
      BY <2>6 DEF llm_cached
    <3>2. a.text \in SUBSET Chunk
      BY <2>6, <3>1 DEF llm_cached, Cached, IInv, RetrievalTypeOK, Answer
    <3> QED
      BY <2>1, <2>4, <2>6, <3>1, <3>2, KeptIsReadable DEF llm_cached, IInv, RetrievalTypeOK
  <2>7. CASE llm_answers
    <3>1. Kept(request, request') /\ request'.found \subseteq request.found
      BY <2>2, <2>4, <2>7 DEF llm_answers
    <3>2. cache' \subseteq Answer
      BY <2>2, <2>7 DEF llm_answers, build_cache_key, IInv, RetrievalTypeOK, Answer
    <3> QED
      BY <2>1, <3>1, <3>2, KeptIsReadable
  <2>8. CASE llm_attempt_fails
    <3>1. request.attempt + 1 \in 1..MaxAttempts
      BY <2>1, <2>8, BoundsAssumption DEF llm_attempt_fails, Request
    <3>2. Kept(request, request') /\ request'.found \subseteq request.found
      BY <2>1, <2>8, <3>1 DEF llm_attempt_fails, Kept, Request
    <3> QED
      BY <2>1, <2>8, <3>2, KeptIsReadable DEF llm_attempt_fails, IInv, RetrievalTypeOK
  <2>9. CASE llm_not_configured \/ llm_unavailable \/ request_raises
    <3>1. Finish({}, "unavailable") \/ Finish({}, "error")
      BY <2>9 DEF llm_not_configured, llm_unavailable, request_raises
    <3>2. Kept(request, request') /\ request'.found \subseteq request.found
      BY <2>3, <3>1
    <3> QED
      BY <2>1, <2>9, <3>2, KeptIsReadable
      DEF llm_not_configured, llm_unavailable, request_raises, IInv, RetrievalTypeOK
  <2> QED
    BY <1>2, <2>5, <2>6, <2>7, <2>8, <2>9 DEF Handler
<1> QED
  BY <1>1, <1>2

\* Every step keeps what is served readable.
LEMMA NextInv == IInv /\ [Next]_vars => IInv'
<1> SUFFICES ASSUME IInv, [Next]_vars PROVE IInv'
  OBVIOUS
<1>1. CASE Next
  BY <1>1, WriterStep, AskStep, QueryStep, RowStep, OtherSteps DEF Next
<1>2. CASE UNCHANGED vars
  BY <1>2 DEF vars, storeVars, IInv, RetrievalTypeOK, JobInv, ReadInv, RequestInv, Readable
<1> QED
  BY <1>1, <1>2

-----------------------------------------------------------------------------
(* Versions.                                                               *)

\* A chunk that goes with a row of version n: it was cut from that version, or
\* from a later one that has been rolled back.
Versioned(c, n) ==
    \/ c = None
    \/ c.version = n
    \/ c \in displaced /\ n < c.version

\* A row is a version ahead of its chunk only until replace_chunks.
VersionInv ==
    /\ \A d \in Docs : \/ doc[d] = None
                       \/ job # None /\ job.doc = d /\ job.step = "replace"
                       \/ Versioned(doc[d].chunk, doc[d].version)
    /\ job # None /\ job.step = "replace" /\ ~job.new
         => /\ doc[job.doc].version > 1
            /\ Versioned(doc[job.doc].chunk, doc[job.doc].version - 1)

\* A row set back by one goes with its chunk, if that is displaced.
LEMMA SetBack ==
    ASSUME NEW n \in Nat, NEW c \in Chunk \cup {None}, Versioned(c, n)
    PROVE  c # None => n - 1 < c.version
BY NoneAssumption DEF Versioned, Chunk

\* The version of every row is accounted for before and after each step.
LEMMA VersionStep == RetrievalTypeOK /\ JobInv /\ VersionInv /\ [Next]_vars => VersionInv'
<1> SUFFICES ASSUME RetrievalTypeOK, JobInv, VersionInv, [Next]_vars PROVE VersionInv'
  OBVIOUS
<1>1. ASSUME NEW d \in Docs, upsert_document(d) PROVE VersionInv'
  <2>1. doc'[d].chunk = IF doc[d] = None THEN None ELSE doc[d].chunk
    BY <1>1 DEF upsert_document, RetrievalTypeOK
  <2>2. job' = [doc |-> d, step |-> "replace", new |-> doc[d] = None]
        /\ displaced' = displaced /\ \A e \in Docs \ {d} : doc'[e] = doc[e]
    BY <1>1 DEF upsert_document, RetrievalTypeOK
  <2>3. doc[d] # None => Versioned(doc[d].chunk, doc[d].version)
    BY <1>1 DEF upsert_document, VersionInv
  <2>4. \A e \in Docs \ {d} : doc[e] = None \/ Versioned(doc[e].chunk, doc[e].version)
    BY <1>1 DEF upsert_document, VersionInv
  <2>5. job' # None
    <3>1. job' \in Job
      BY <2>2 DEF Job, RetrievalTypeOK
    <3> QED
      BY <3>1, NoneAssumption
  <2>6. \A e \in Docs : \/ doc'[e] = None
                        \/ job' # None /\ job'.doc = e /\ job'.step = "replace"
                        \/ Versioned(doc[e].chunk, doc[e].version)'
    BY <2>2, <2>4, <2>5 DEF Versioned
  <2>7. ASSUME ~job'.new
        PROVE  doc'[d].version > 1 /\ Versioned(doc[d].chunk, doc[d].version - 1)'
    <3>1. doc[d] # None
      BY <2>2, <2>7
    <3>2. doc[d] \in Document
      BY <3>1 DEF RetrievalTypeOK
    <3>3. doc[d].version \in Nat \ {0}
      BY <3>2 DEF Document
    <3>4. doc'[d].version = doc[d].version + 1
      BY <1>1, <3>1 DEF upsert_document, RetrievalTypeOK
    <3>5. doc'[d].version > 1 /\ doc'[d].version - 1 = doc[d].version
      BY <3>3, <3>4
    <3> QED
      BY <2>1, <2>2, <2>3, <3>1, <3>5 DEF Versioned
  <2>8. job'.doc = d
    BY <2>2
  <2> QED
    BY <2>6, <2>7, <2>8 DEF VersionInv
<1>2. ASSUME NEW d \in Docs, ack_document(d) PROVE VersionInv'
  <2>1. doc[d] \in Document /\ doc[d] # None
    BY <1>2 DEF ack_document, RetrievalTypeOK
  <2>2. doc' = [doc EXCEPT ![d] = [doc[d] EXCEPT !.acked = TRUE]]
        /\ UNCHANGED <<job, displaced>>
    BY <1>2 DEF ack_document
  <2>3. \A e \in Docs : doc[e] # None => /\ doc'[e].chunk = doc[e].chunk
                                         /\ doc'[e].version = doc[e].version
    BY <2>1, <2>2 DEF RetrievalTypeOK, Document
  <2>4. \A e \in Docs : doc[e] = None => doc'[e] = None
    BY <2>1, <2>2 DEF RetrievalTypeOK
  <2>5. job # None => job.doc \in Docs /\ doc[job.doc] # None
    BY DEF RetrievalTypeOK, JobInv, Job
  <2> QED
    BY <2>2, <2>3, <2>4, <2>5 DEF VersionInv, Versioned
<1>3. CASE replace_chunks
  <2> DEFINE c == [doc |-> job.doc, batch |-> batches, version |-> doc[job.doc].version]
  <2>1. job \in Job /\ job.doc \in Docs /\ doc[job.doc] \in Document
    BY <1>3 DEF replace_chunks, RetrievalTypeOK, JobInv, Job
  <2>2. doc' = [doc EXCEPT ![job.doc] = [doc[job.doc] EXCEPT !.chunk = c]]
        /\ job' = [job EXCEPT !.step = "upsert"] /\ displaced' = displaced
    BY <1>3 DEF replace_chunks
  <2>3. doc'[job.doc].chunk = c /\ doc'[job.doc].version = doc[job.doc].version
    BY <2>1, <2>2 DEF RetrievalTypeOK, Document
  <2>4. c.version = doc[job.doc].version
    OBVIOUS
  <2> HIDE DEF c
  <2>5. \A e \in Docs \ {job.doc} : doc'[e] = doc[e]
    BY <2>2 DEF RetrievalTypeOK
  <2>6. job'.step = "upsert"
    BY <2>1, <2>2 DEF Job
  <2> QED
    BY <2>2, <2>3, <2>4, <2>5, <2>6 DEF VersionInv, Versioned
<1>4. CASE upsert_chunks
  BY <1>4 DEF upsert_chunks, VersionInv, Versioned
<1>5. CASE ingest_fails
  <2>0. PICK d \in Docs : d = job.doc
    BY <1>5 DEF ingest_fails, RetrievalTypeOK, Job
  <2>1. job # None /\ job \in Job /\ job' = None /\ doc[d] \in Document /\ doc[d] # None
    BY <1>5, <2>0 DEF ingest_fails, RetrievalTypeOK, JobInv
  <2>2. /\ \A e \in Docs \ {d} : doc'[e] = doc[e]
        /\ doc'[d] = IF job.new THEN None ELSE Rollback(doc[d])
    BY <1>5, <2>0 DEF ingest_fails, RetrievalTypeOK
  <2>3. displaced \subseteq displaced'
        /\ (job.step = "upsert" => doc[d].chunk \in displaced')
    BY <1>5, <2>0 DEF ingest_fails
  <2>4. CASE job.new
    BY <2>0, <2>1, <2>2, <2>3, <2>4 DEF VersionInv, Versioned
  <2>5. CASE ~job.new
    <3>1. /\ doc'[d] = Rollback(doc[d]) /\ doc'[d].chunk = doc[d].chunk
          /\ doc[d].version > 1 => doc'[d].version = doc[d].version - 1
          /\ ~(doc[d].version > 1) => doc'[d] = doc[d]
      BY <2>1, <2>2, <2>5, RollbackTyped DEF Rollback
    <3>2. doc[d].version \in Nat /\ doc[d].chunk \in Chunk \cup {None}
      BY <2>1 DEF Document
    <3>3. Versioned(doc[d].chunk, doc[d].version)'
      <4>1. CASE job.step = "upsert"
        <5>1. Versioned(doc[d].chunk, doc[d].version)
          BY <2>0, <2>1, <4>1 DEF VersionInv
        <5>2. CASE doc[d].version > 1
          <6>1. doc[d].chunk # None => doc[d].version - 1 < doc[d].chunk.version
            BY <3>2, <5>1, SetBack
          <6> QED
            BY <2>3, <3>1, <4>1, <5>2, <6>1 DEF Versioned
        <5>3. CASE ~(doc[d].version > 1)
          BY <2>3, <3>1, <5>1, <5>3 DEF Versioned
        <5> QED
          BY <5>2, <5>3
      <4>2. CASE job.step = "replace"
        <5>1. doc[d].version > 1 /\ Versioned(doc[d].chunk, doc[d].version - 1)
          BY <2>0, <2>1, <2>5, <4>2 DEF VersionInv
        <5> QED
          BY <2>3, <3>1, <5>1 DEF Versioned
      <4> QED
        BY <2>1, <4>1, <4>2 DEF Job
    <3> QED
      BY <2>0, <2>1, <2>2, <2>3, <3>3 DEF VersionInv, Versioned
  <2> QED
    BY <2>4, <2>5
<1>7. ASSUME NEW d \in Docs, load_fails(d) PROVE VersionInv'
  <2>1. /\ job = None /\ job' = None /\ doc[d] \in Document /\ doc[d].version > 1
        /\ doc[d] # None
    BY <1>7 DEF load_fails, RetrievalTypeOK
  <2>2. doc[d].version \in Nat /\ doc[d].chunk \in Chunk \cup {None}
    BY <2>1 DEF Document
  <2>3. /\ \A e \in Docs \ {d} : doc'[e] = doc[e]
        /\ doc'[d].chunk = doc[d].chunk /\ doc'[d].version = doc[d].version - 1
    BY <1>7, <2>1, RollbackTyped DEF load_fails, RetrievalTypeOK
  <2>4. displaced \subseteq displaced' /\ (doc[d].chunk # None => doc[d].chunk \in displaced')
    BY <1>7 DEF load_fails
  <2>5. Versioned(doc[d].chunk, doc[d].version)
    BY <2>1 DEF VersionInv
  <2>6. doc[d].chunk # None => doc[d].version - 1 < doc[d].chunk.version
    BY <2>2, <2>5, SetBack
  <2> QED
    BY <2>1, <2>3, <2>4, <2>6 DEF VersionInv, Versioned
<1>6. ASSUME UNCHANGED <<doc, job, displaced>> PROVE VersionInv'
  BY <1>6 DEF VersionInv, Versioned
<1> QED
  BY <1>1, <1>2, <1>3, <1>4, <1>5, <1>6, <1>7
  DEF Next, Writer, set_payload, Handler, vector_search, get_chunk_with_document,
      results_ranked, llm_cached, llm_answers, llm_attempt_fails, llm_not_configured,
      llm_unavailable, request_raises, close, ask, vars, storeVars

-----------------------------------------------------------------------------
(* Answers.                                                                *)

\* The gateway finds an answer under the context that it was written from, and
\* only a request that is done has an outcome.
AnswerInv ==
    /\ cache # None => \A a \in cache : a.key = a.text
    /\ request # None /\ request.step # "done" => request.outcome = "none"
    /\ AnswerMatchesCitations

\* An answer, cached or new, is given to the request with that context.
LEMMA AnswerStep == RetrievalTypeOK /\ AnswerInv /\ [Next]_vars => AnswerInv'
<1> SUFFICES ASSUME RetrievalTypeOK, AnswerInv, [Next]_vars PROVE AnswerInv'
  OBVIOUS
<1>1. ASSUME UNCHANGED <<request, cache>> PROVE AnswerInv'
  BY <1>1 DEF AnswerInv, AnswerMatchesCitations, Context
<1>2. ASSUME NEW kind \in Kinds, NEW token \in Tokens, NEW limit \in Limits,
             NEW length \in Lengths, ask(kind, token, limit, length)
      PROVE  AnswerInv'
  BY <1>2 DEF ask, AnswerInv, AnswerMatchesCitations
<1>3. CASE close
  BY <1>3 DEF close, AnswerInv, AnswerMatchesCitations
<1>4. CASE Handler
  <2>1. request # None /\ request \in Request /\ request.step # "done"
    BY <1>4 DEF Handler, vector_search, get_chunk_with_document, results_ranked, llm_cached,
                llm_answers, llm_attempt_fails, llm_not_configured, llm_unavailable,
                request_raises, RetrievalTypeOK
  <2>2. request.outcome = "none"
    BY <2>1 DEF AnswerInv
  <2>3. ASSUME NEW served,
               NEW outcome \in {"results", "no_context", "unavailable", "error"},
               Finish(served, outcome), UNCHANGED cache
        PROVE  AnswerInv'
    <3>1. request'.step = "done" /\ request'.outcome = outcome
      BY <2>1, <2>3 DEF Finish, Request
    <3> QED
      BY <2>3, <3>1 DEF AnswerInv, AnswerMatchesCitations
  <2>4. ASSUME Answered(Context(request))
        PROVE  AnswerMatchesCitations' /\ request'.step = "done"
    <3>1. /\ request'.step = "done" /\ request'.answer = Context(request)
          /\ request'.served = request.served
      BY <2>1, <2>4 DEF Answered, Request
    <3> QED
      BY <3>1 DEF AnswerMatchesCitations, Context
  <2>5. CASE vector_search \/ get_chunk_with_document \/ llm_attempt_fails
    <3>1. request'.outcome = "none" /\ cache' = cache
      BY <2>1, <2>2, <2>5 DEF vector_search, get_chunk_with_document, llm_attempt_fails, Request
    <3> QED
      BY <3>1 DEF AnswerInv, AnswerMatchesCitations
  <2>6. CASE results_ranked
    <3>1. ASSUME NEW served, request' = [request EXCEPT !.step = "llm", !.served = served]
          PROVE  request'.outcome = "none"
      BY <2>1, <2>2, <3>1 DEF Request
    <3> QED
      BY <2>3, <2>6, <3>1 DEF results_ranked, AnswerInv, AnswerMatchesCitations
  <2>7. CASE llm_cached
    <3>1. PICK a \in Cached(request) : Answered(a.text)
      BY <2>7 DEF llm_cached
    <3>2. a.text = Context(request)
      BY <2>7, <3>1 DEF llm_cached, Cached, build_cache_key, AnswerInv
    <3> QED
      BY <2>4, <2>7, <3>1, <3>2 DEF llm_cached, AnswerInv
  <2>8. CASE llm_answers
    <3>1. /\ cache # None
          /\ cache' = cache \cup {[key |-> Context(request), text |-> Context(request)]}
      BY <2>8 DEF llm_answers, build_cache_key
    <3> QED
      BY <2>4, <2>8, <3>1 DEF llm_answers, AnswerInv
  <2>9. CASE llm_not_configured \/ llm_unavailable \/ request_raises
    BY <2>3, <2>9 DEF llm_not_configured, llm_unavailable, request_raises
  <2> QED
    BY <1>4, <2>5, <2>6, <2>7, <2>8, <2>9 DEF Handler
<1> QED
  BY <1>1, <1>2, <1>3, <1>4
  DEF Next, Writer, upsert_document, ack_document, replace_chunks, upsert_chunks, ingest_fails,
      load_fails, set_payload, vars, storeVars

-----------------------------------------------------------------------------
(* Nearest points.                                                         *)

Above(M, c) == {b \in M : Score(b) > Score(c)}

\* Every chunk has a score (the similarity that query_points returns).
LEMMA ScoreType == \A c \in Chunk : Score(c) \in Int
<1>1. \A c \in Chunk : c.doc \in Docs /\ c.batch \in 1..MaxBatches
  BY DEF Chunk
<1> QED
  BY <1>1, ScoresAssumption, Zenon DEF Score

\* Of some chunks one has the fewest above it, so that those above it are
\* none of them: the library's well-founded order of finite sets.
LEMMA HighestOf ==
  ASSUME NEW M \in SUBSET Chunk, IsFiniteSet(M), NEW T \in SUBSET M, T # {}
  PROVE  \E c \in T : Above(M, c) \cap T = {}
<1> DEFINE R == StrictSubsetOrdering(M)
           U == {Above(M, c) : c \in T}
<1>1. IsWellFoundedOn(R, FiniteSubsetsOf(M))
  BY FS_StrictSubsetOrderingWellFounded, Zenon
<1>2. U \subseteq FiniteSubsetsOf(M) /\ U # {}
  <2>1. ASSUME NEW c \in T PROVE Above(M, c) \in FiniteSubsetsOf(M)
    <3>1. Above(M, c) \in SUBSET M
      BY DEF Above
    <3>2. IsFiniteSet(Above(M, c))
      BY <3>1, FS_Subset, Zenon
    <3> QED
      BY <3>1, <3>2 DEF FiniteSubsetsOf
  <2> QED
    BY <2>1
<1>3. \E X \in U : \A Y \in U : ~ (<<Y, X>> \in R)
  <2> HIDE DEF R, U
  <2> QED BY <1>1, <1>2, WFMin, Zenon
<1>4. PICK c \in T : \A b \in T : ~ (<<Above(M, b), Above(M, c)>> \in R)
  BY <1>3
<1>5. ASSUME NEW b \in Above(M, c) \cap T PROVE FALSE
  <2>1. b \in Above(M, c) /\ b \notin Above(M, b)
    BY ScoreType DEF Above
  <2>2. Above(M, b) \subseteq Above(M, c)
    BY ScoreType DEF Above
  <2>3. Above(M, b) \in SUBSET M /\ Above(M, c) \in SUBSET M
    BY DEF Above
  <2>4. Above(M, b) # Above(M, c)
    BY <2>1
  <2>5. <<Above(M, b), Above(M, c)>> \in R
    BY <2>2, <2>3, <2>4, Zenon DEF StrictSubsetOrdering
  <2> QED
    BY <2>5, <1>4
<1> QED
  BY <1>5

\* What query_points leaves out has K points above it: if all of those that
\* are in L are hits, they are as many as K leaves next to those that are not.
LEMMA NearestMargin ==
  ASSUME NEW M \in SUBSET Chunk, IsFiniteSet(M), NEW L \in SUBSET M,
         NEW K \in Nat, NEW n \in Nat, Cardinality(M \ L) + n <= K,
         ~ (L \subseteq Nearest(M, K))
  PROVE  Cardinality(L \cap Nearest(M, K)) >= n
<1> DEFINE H == Nearest(M, K)
<1>1. L \ H \in SUBSET M /\ L \ H # {}
  OBVIOUS
<1>2. PICK c \in L \ H : Above(M, c) \cap (L \ H) = {}
  BY <1>1, HighestOf, Zenon
<1>3. Above(M, c) \subseteq (L \cap H) \cup (M \ L)
  BY <1>2 DEF Above
<1>4. /\ IsFiniteSet(L \cap H) /\ Cardinality(L \cap H) \in Nat
      /\ IsFiniteSet(M \ L) /\ Cardinality(M \ L) \in Nat
  <2>1. L \cap H \in SUBSET M /\ M \ L \in SUBSET M
    OBVIOUS
  <2>2. IsFiniteSet(L \cap H) /\ IsFiniteSet(M \ L)
    BY <2>1, FS_Subset, Zenon
  <2> QED
    BY <2>2, FS_CardinalityType, Zenon
<1>5. /\ IsFiniteSet((L \cap H) \cup (M \ L))
      /\ Cardinality((L \cap H) \cup (M \ L)) <= Cardinality(L \cap H) + Cardinality(M \ L)
  <2>1. (L \cap H) \cap (M \ L) = {}
    OBVIOUS
  <2>2. IsFiniteSet((L \cap H) \cup (M \ L))
        /\ Cardinality((L \cap H) \cup (M \ L))
             = Cardinality(L \cap H) + Cardinality(M \ L) - Cardinality({})
    BY <1>4, <2>1, FS_Union
  <2> HIDE DEF H
  <2> QED
    BY <1>4, <2>2, FS_EmptySet
<1>6. /\ Cardinality(Above(M, c)) <= Cardinality((L \cap H) \cup (M \ L))
      /\ Cardinality(Above(M, c)) \in Nat
      /\ Cardinality((L \cap H) \cup (M \ L)) \in Nat
  <2>1. Above(M, c) \in SUBSET ((L \cap H) \cup (M \ L))
    BY <1>3
  <2> HIDE DEF H
  <2> QED
    BY <1>5, <2>1, FS_Subset, FS_CardinalityType, Zenon
<1>7. ~ (Cardinality(Above(M, c)) < K)
  BY <1>2 DEF Nearest, Above
<1> HIDE DEF H
<1> QED
  <2>1. Cardinality(L \cap H) >= n
    BY <1>4, <1>5, <1>6, <1>7
  <2> QED
    BY <2>1 DEF H

\* Within its cap the vector query asks for a limit of points and the stale
\* ones that the overfetch allows for.
LEMMA OverfetchCovers ==
  ASSUME NEW limit \in Limits, NEW stale \in Nat,
         stale + limit <= VectorCap, stale <= (Overfetch - 1) * limit
  PROVE  VectorLimit(limit) \in Nat /\ stale + limit <= VectorLimit(limit)
<1>1. limit \in Nat /\ Overfetch \in Nat /\ VectorCap \in Nat
  BY LimitsAssumption
<1>2. (Overfetch - 1) * limit = Overfetch * limit - limit
  BY <1>1
<1>3. Overfetch * limit \in Nat
  BY <1>1
<1> DEFINE all == Overfetch * limit
<1>4. stale <= all - limit
  BY <1>2
<1>5. VectorLimit(limit) = IF all < VectorCap THEN all ELSE VectorCap
  BY DEF VectorLimit
<1> HIDE DEF all
<1> QED
  BY <1>1, <1>3, <1>4, <1>5 DEF all

\* Points are written one by one: there are finitely many at any time.
PointsFinite == IsFiniteSet(hidden) /\ IsFiniteSet(published)

\* upsert_chunks adds a point, set_payload moves some.
LEMMA PointsStep == PointsFinite /\ [Next]_vars => PointsFinite'
<1> SUFFICES ASSUME PointsFinite, [Next]_vars PROVE PointsFinite'
  OBVIOUS
<1>1. CASE upsert_chunks
  <2>1. PICK x : hidden' = hidden \cup {x} /\ published' = published
    BY <1>1 DEF upsert_chunks
  <2>2. IsFiniteSet(hidden \cup {x})
    BY FS_AddElement, Zenon DEF PointsFinite
  <2> QED
    BY <2>1, <2>2 DEF PointsFinite
<1>2. CASE set_payload
  <2>1. hidden \ acking \in SUBSET hidden /\ acking \cap hidden \in SUBSET hidden
    OBVIOUS
  <2>2. IsFiniteSet(hidden \ acking) /\ IsFiniteSet(acking \cap hidden)
    BY <2>1, FS_Subset, Zenon DEF PointsFinite
  <2>3. IsFiniteSet(published \cup (acking \cap hidden))
    BY <2>2, FS_Union, Zenon DEF PointsFinite
  <2> QED
    BY <1>2, <2>2, <2>3 DEF set_payload, PointsFinite
<1>3. CASE ~upsert_chunks /\ ~set_payload
  <2>1. hidden' = hidden /\ published' = published
    <3>1. ASSUME NEW d \in Docs, upsert_document(d) \/ ack_document(d) \/ load_fails(d)
          PROVE hidden' = hidden /\ published' = published
      BY <3>1 DEF upsert_document, ack_document, load_fails
    <3>2. CASE replace_chunks \/ ingest_fails
      BY <3>2 DEF replace_chunks, ingest_fails
    <3>3. CASE UNCHANGED storeVars
      BY <3>3 DEF storeVars
    <3>4. Handler \/ close => UNCHANGED storeVars
      BY DEF Handler, close, vector_search, get_chunk_with_document, results_ranked, llm_cached,
             llm_answers, llm_attempt_fails, llm_not_configured, llm_unavailable, request_raises
    <3>5. ASSUME NEW kind \in Kinds, NEW token \in Tokens, NEW limit \in Limits,
                 NEW length \in Lengths, ask(kind, token, limit, length)
          PROVE UNCHANGED storeVars
      BY <3>5 DEF ask
    <3>6. UNCHANGED vars => UNCHANGED storeVars
      BY DEF vars
    <3> QED
      BY <1>3, <3>1, <3>2, <3>3, <3>4, <3>5, <3>6 DEF Next, Writer
  <2> QED
    BY <2>1 DEF PointsFinite
<1> QED
  BY <1>1, <1>2, <1>3

-----------------------------------------------------------------------------
(* Theorems.                                                               *)

\* The documents, the points, the request and the cache keep their types, for
\* any documents, tokens, scores and bounds.
THEOREM RetrievalTypeCorrect == Spec => []RetrievalTypeOK
<1>1. IInv => RetrievalTypeOK
  BY DEF IInv
<1> QED
  BY <1>1, InitInv, NextInv, PTL DEF Spec

\* Whatever ingestions, failures and acks do between the steps of a request, it
\* serves only what was read, in a workspace that its token names.
THEOREM ServedAreReadable == Spec => []ServedIsReadable
<1>1. IInv => ServedIsReadable
  BY DEF IInv, RequestInv, Readable, Visible, ServedIsReadable
<1> QED
  BY <1>1, InitInv, NextInv, PTL DEF Spec

\* The version on a result is that of its text, but while a version is being
\* written and after one that failed (upsert_document_version, rollback).
THEOREM VersionsAreNamed == Spec => CitationsNameTheirVersion
<1> DEFINE Named == get_chunk_with_document =>
                 \A r \in request'.found \ request.found :
                     \/ r.document_version = r.chunk.version
                     \/ job # None /\ job.doc = r.chunk.doc /\ job.step = "replace"
                     \/ r.chunk \in displaced /\ r.document_version < r.chunk.version
<1>1. Init => VersionInv
  BY DEF Init, VersionInv
<1>2. IInv /\ VersionInv => Named
  <2> SUFFICES ASSUME IInv, VersionInv, get_chunk_with_document,
                      NEW r \in request'.found \ request.found
               PROVE  \/ r.document_version = r.chunk.version
                      \/ job # None /\ job.doc = r.chunk.doc /\ job.step = "replace"
                      \/ r.chunk \in displaced /\ r.document_version < r.chunk.version
    OBVIOUS
  <2>1. request \in Request
    BY DEF get_chunk_with_document, IInv, RetrievalTypeOK
  <2>2. PICK c \in request.hits :
          request' = [request EXCEPT !.hits = request.hits \ {c},
            !.found = request.found \cup (IF RowOf(c) = None THEN {} ELSE {ResultOf(c)})]
    BY DEF get_chunk_with_document
  <2>3. request'.found = request.found \cup (IF RowOf(c) = None THEN {} ELSE {ResultOf(c)})
    BY <2>1, <2>2 DEF Request
  <2>4. RowOf(c) # None /\ r = ResultOf(c)
    BY <2>3
  <2>5. /\ c.doc \in Docs /\ doc[c.doc] # None /\ doc[c.doc].chunk = c
        /\ RowOf(c) = doc[c.doc] /\ c # None
    BY <2>1, <2>4, NoneAssumption DEF RowOf, Request, Chunk
  <2>6. r.chunk = c /\ r.document_version = doc[c.doc].version
    BY <2>4, <2>5 DEF ResultOf
  <2> QED
    BY <2>5, <2>6 DEF VersionInv, Versioned
<1>3. IInv /\ VersionInv /\ [Next]_vars => VersionInv'
  BY VersionStep DEF IInv
<1>4. CitationsNameTheirVersion <=> [][Named]_vars
  BY DEF CitationsNameTheirVersion
<1> HIDE DEF Named
<1> QED
  BY <1>1, <1>2, <1>3, <1>4, InitInv, NextInv, PTL DEF Spec

\* However the points of replaced chunks crowd the nearest ones, as many as the
\* overfetch allows for cost a search none of its results (_vector_limit).
THEOREM StalePointsDoNotCost == Spec => StaleMargin
<1> DEFINE M     == Matching(Scope(request))
           live  == M \cap Live
           stale == Cardinality(M \ live)
           Margin ==
             vector_search =>
               LET matching == Matching(Scope(request))
                   current  == matching \cap Live
                   replaced == Cardinality(matching \ current)
               IN  /\ replaced + request.limit <= VectorCap
                   /\ replaced <= (Overfetch - 1) * request.limit
                   => \/ current \subseteq request'.hits
                      \/ Cardinality(current \cap request'.hits) >= request.limit
<1>1. Init => PointsFinite
  BY FS_EmptySet DEF Init, PointsFinite
<1>2. IInv /\ PointsFinite => Margin
  <2> SUFFICES ASSUME IInv, PointsFinite, vector_search,
                      stale + request.limit <= VectorCap,
                      stale <= (Overfetch - 1) * request.limit,
                      ~ (live \subseteq request'.hits)
               PROVE  Cardinality(live \cap request'.hits) >= request.limit
    OBVIOUS
  <2>1. request \in Request /\ request.limit \in Limits
    BY DEF vector_search, IInv, RetrievalTypeOK, Request
  <2>2. PICK hits : /\ hits = Nearest(M, VectorLimit(request.limit))
                    /\ request' = [request EXCEPT !.step = "rows", !.hits = hits]
    BY DEF vector_search
  <2>3. request'.hits = hits
    BY <2>1, <2>2 DEF Request
  <2>4. M \in SUBSET Chunk /\ IsFiniteSet(M)
    <3>1. M \in SUBSET published
      BY DEF Matching
    <3> QED
      BY <3>1, FS_Subset, Zenon DEF PointsFinite, IInv, RetrievalTypeOK
  <2>5. stale \in Nat
    <3>1. M \ live \in SUBSET M
      OBVIOUS
    <3>2. IsFiniteSet(M \ live)
      BY <2>4, <3>1, FS_Subset, Zenon
    <3> QED
      BY <3>2, FS_CardinalityType, Zenon
  <2>6. request.limit \in Nat
    BY <2>1, LimitsAssumption
  <2>7. VectorLimit(request.limit) \in Nat /\ stale + request.limit <= VectorLimit(request.limit)
    BY <2>1, <2>5, OverfetchCovers
  <2>8. live \in SUBSET M
    OBVIOUS
  <2>9. ~ (live \subseteq Nearest(M, VectorLimit(request.limit)))
    BY <2>2, <2>3
  <2> HIDE DEF M, live
  <2>10. Cardinality(live \cap Nearest(M, VectorLimit(request.limit))) >= request.limit
    BY <2>4, <2>6, <2>7, <2>8, <2>9, NearestMargin
  <2> QED
    BY <2>2, <2>3, <2>10
<1>3. StaleMargin <=> [][Margin]_vars
  BY DEF StaleMargin
<1> HIDE DEF Margin
<1> QED
  BY <1>1, <1>2, <1>3, InitInv, NextInv, PointsStep, PTL DEF Spec

\* An answer is given only with the citations it was written from, also out of
\* the cache (build_cache_key covers the prompt and so the context).
THEOREM AnswersMatchCitations == Spec => []AnswerMatchesCitations
<1>1. Init => AnswerInv
  BY DEF Init, Gateways, AnswerInv, AnswerMatchesCitations
<1>2. AnswerInv => AnswerMatchesCitations
  BY DEF AnswerInv
<1> QED
  BY <1>1, <1>2, AnswerStep, RetrievalTypeCorrect, PTL DEF Spec
=============================================================================
