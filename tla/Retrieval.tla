------------------------------ MODULE Retrieval ------------------------------
(***************************************************************************)
(* Search and question answering while documents change: SearchService,    *)
(* RagService with its LLMGateway, and the knowledge MCP bridge that       *)
(* delegates to both, over the chunk rows and the points that the worker   *)
(* and the acks write.                                                     *)
(*                                                                         *)
(* A search is not one transaction: the vector query comes back with       *)
(* points, and each point's row is looked up by a transaction of its own.  *)
(* Points of replaced chunks stay in Qdrant; only the missing row tells    *)
(* them.  A request writes nothing but the gateway's cache, so that one    *)
(* request at a time, and the cache it finds, stand for all.               *)
(*                                                                         *)
(* Each ingestion of a document gives it one chunk.  A chunk's field       *)
(* version, the version of the document that it was cut from, is not       *)
(* stored by the code: the properties use it.  How versions and acks race  *)
(* each other is in DocumentVersions; here one worker ingests, and no      *)
(* review puts a point into Qdrant: that one with a modified payload may   *)
(* publish without an ack is in ReviewGate.                                *)
(***************************************************************************)
EXTENDS Integers, FiniteSets

CONSTANTS
    Docs,         \* document ids
    Home,         \* documents.workspace_id, NoWorkspace for a direct ingest
    NoWorkspace,
    Tokens,       \* the claims, or headers, that requests come with
    Everything,   \* workspace_ids = None, what an admin searches
    Similarity,   \* score of the chunk of a document and batch for the query
    Boost,        \* what title, tags and headings of a document add to it
    Limits,       \* the values of limit that requests come with
    Overfetch,    \* 3: how many points are asked for per result wanted
    VectorCap,    \* 50: the most points that are asked for
    Lengths,      \* the lengths of queries
    MaxSearch,    \* 500: SearchRequest.query, max_length
    MaxChat,      \* 2000: ChatRequest.query, max_length
    MaxAttempts,  \* RetryPolicy.max_attempts of the gateway
    MaxBatches,   \* bound: ingestions, failed ones included
    Failing,      \* whether PostgreSQL, Qdrant or the embedding may fail
    None          \* no chunk, no job, no request, no such claim

ASSUME LimitsAssumption == Limits \subseteq Nat /\ Overfetch \in Nat /\ VectorCap \in Nat

ASSUME ScoresAssumption ==
    /\ \A d \in Docs, b \in 1..MaxBatches : Similarity[d, b] \in Int
    /\ \A d \in Docs : Boost[d] \in Int

ASSUME BoundsAssumption == MaxAttempts \in Nat \ {0} /\ MaxBatches \in Nat

VARIABLES
    doc,        \* documents with their chunk row, None before the first upload
    job,        \* what the worker is doing: [doc, step], or None
    batches,    \* ingestions so far: numbers the chunks
    hidden,     \* chunks with a point in Qdrant, published = false
    published,  \* chunks with a point in Qdrant, published = true
    acking,     \* the chunks that an ack is going to publish
    request,    \* the request being served
    cache,      \* LLMGateway.cache: the answers so far, each with its key;
                \* None in a process that has no gateway configured
    read,       \* history: chunks that were the document's when it was acked
    displaced   \* history: chunks under which a rollback has set the row back

storeVars == <<doc, job, batches, hidden, published, acking, read, displaced>>
vars      == <<storeVars, request, cache>>

Chunk    == [doc : Docs, batch : 1..MaxBatches, version : Nat]

\* acked_before: the versions whose snapshot in document_versions has acked_at.
Document == [version : Nat \ {0}, acked : BOOLEAN, acked_before : SUBSET Nat,
             chunk : Chunk \cup {None}]

Result   == [chunk : Chunk, document_version : Nat, rank : Int]
Kinds    == {"search", "search_knowledge", "chat"}

\* Any of the claims may be missing.
Claims == [is_admin : BOOLEAN \cup {None},
           workspace_ids : SUBSET (({Home[d] : d \in Docs}) \ {NoWorkspace}) \cup {None}]

ASSUME TokensAssumption ==
    /\ Tokens \subseteq Claims
    /\ \A token \in Tokens : token.workspace_ids # Everything
    /\ Everything # {}

\* An answer is written as the chunks that were the context of its prompt.
Answer   == [key : SUBSET Chunk, text : SUBSET Chunk]
Request  == [kind : Kinds, token : Tokens, limit : Limits,
             step : {"query", "rows", "llm", "done"}, hits : SUBSET Chunk,
             found : SUBSET Result, served : SUBSET Result,
             attempt : 1..MaxAttempts, answer : SUBSET Chunk,
             outcome : {"none", "results", "answered", "no_context",
                        "unavailable", "error"}]

\* new: an upload of its own, without target_document_id.
Job      == [doc : Docs, step : {"replace", "upsert"}, new : BOOLEAN]

ASSUME NoneAssumption == None \notin Chunk \cup Document \cup Job \cup Request

RetrievalTypeOK ==
    /\ doc \in [Docs -> Document \cup {None}]
    /\ job \in Job \cup {None}
    /\ batches \in 0..MaxBatches
    /\ hidden \subseteq Chunk /\ published \subseteq Chunk
    /\ acking \subseteq Chunk
    /\ read \subseteq Chunk /\ displaced \subseteq Chunk
    /\ request \in Request \cup {None}
    /\ cache = None \/ cache \subseteq Answer

\* A process starts with an empty cache, or without a gateway.
Gateways == {{}, None}

Init ==
    /\ doc = [d \in Docs |-> None]
    /\ job = None
    /\ batches = 0
    /\ hidden = {} /\ published = {}
    /\ acking = {}
    /\ request = None
    /\ cache \in Gateways
    /\ read = {} /\ displaced = {}

Live == {doc[d].chunk : d \in {e \in Docs : doc[e] # None}} \ {None}

-----------------------------------------------------------------------------
(* The worker and the ack.                                                 *)

\* A new document, or the next version of one with the chunk of the last.  The
\* row as it was goes to document_versions.
upsert_document(d) ==
    /\ job = None
    /\ batches < MaxBatches
    /\ batches' = batches + 1
    /\ job' = [doc |-> d, step |-> "replace", new |-> doc[d] = None]
    /\ doc' = [doc EXCEPT ![d] =
                 IF @ = None
                 THEN [version |-> 1, acked |-> FALSE, acked_before |-> {}, chunk |-> None]
                 ELSE [version |-> @.version + 1, acked |-> FALSE,
                       acked_before |-> @.acked_before \cup (IF @.acked THEN {@.version} ELSE {}),
                       chunk |-> @.chunk]]
    /\ UNCHANGED <<hidden, published, acking, read, displaced, request, cache>>

replace_chunks ==
    /\ job # None /\ job.step = "replace"
    /\ doc' = [doc EXCEPT ![job.doc].chunk =
                 [doc |-> job.doc, batch |-> batches, version |-> doc[job.doc].version]]
    /\ job' = [job EXCEPT !.step = "upsert"]
    /\ UNCHANGED <<batches, hidden, published, acking, read, displaced, request, cache>>

upsert_chunks ==
    /\ job # None /\ job.step = "upsert"
    /\ hidden' = hidden \cup {doc[job.doc].chunk}
    /\ job' = None
    /\ UNCHANGED <<doc, batches, published, acking, read, displaced, request, cache>>

\* rollback_failed_version: the row is that of the version before, if there is
\* one, and its snapshot is gone; the chunk row stays.
Rollback(row) ==
    IF row.version > 1
    THEN [version |-> row.version - 1, acked |-> row.version - 1 \in row.acked_before,
          acked_before |-> row.acked_before \ {row.version - 1}, chunk |-> row.chunk]
    ELSE row

\* Mutant: run_once does not roll the row back.
ingest_fails_Unrestored ==
    /\ Failing
    /\ job # None
    /\ displaced' = displaced \cup
         (IF job.step = "upsert" THEN {doc[job.doc].chunk} ELSE {})
    /\ job' = None
    /\ UNCHANGED <<doc, batches, hidden, published, acking, read, request, cache>>

\* A failed version is rolled back; a document that is new is deleted with its
\* rows.
ingest_fails ==
    /\ Failing
    /\ job # None
    /\ doc' = [doc EXCEPT ![job.doc] = IF job.new THEN None ELSE Rollback(@)]
    /\ displaced' = displaced \cup
         (IF job.step = "upsert" THEN {doc[job.doc].chunk} ELSE {})
    /\ job' = None
    /\ UNCHANGED <<batches, hidden, published, acking, read, request, cache>>

\* The upload of a version fails before anything is written, at loading: the
\* version that is rolled back is then the one before.  (A new document has
\* nothing to delete yet.)
load_fails(d) ==
    /\ Failing
    /\ job = None
    /\ doc[d] # None /\ doc[d].version > 1
    /\ doc' = [doc EXCEPT ![d] = Rollback(@)]
    /\ displaced' = displaced \cup ({doc[d].chunk} \ {None})
    /\ UNCHANGED <<job, batches, hidden, published, acking, read, request, cache>>

ack_document(d) ==
    /\ doc[d] # None /\ ~doc[d].acked
    /\ acking = {}
    /\ doc' = [doc EXCEPT ![d].acked = TRUE]
    /\ acking' = {doc[d].chunk} \ {None}
    /\ read' = read \cup acking'
    /\ UNCHANGED <<job, batches, hidden, published, displaced, request, cache>>

set_payload ==
    /\ acking # {}
    /\ published' = published \cup (acking \cap hidden)
    /\ hidden' = hidden \ acking
    /\ acking' = {}
    /\ UNCHANGED <<doc, job, batches, read, displaced, request, cache>>

Writer ==
    \/ \E d \in Docs : upsert_document(d) \/ load_fails(d) \/ ack_document(d)
    \/ replace_chunks \/ upsert_chunks \/ ingest_fails \/ set_payload

-----------------------------------------------------------------------------
(* A request.                                                              *)

\* Mutant: no list of workspaces is taken for all of them.
decode_token_Open(token) ==
    [is_admin |-> token.is_admin \in BOOLEAN /\ token.is_admin,
     workspace_ids |-> IF token.workspace_ids = None THEN Everything ELSE token.workspace_ids]

\* Missing claims fail closed, as do missing headers in dev mode.
decode_token(token) ==
    [is_admin |-> token.is_admin \in BOOLEAN /\ token.is_admin,
     workspace_ids |-> IF token.workspace_ids = None THEN {} ELSE token.workspace_ids]

\* The workspace_ids that a router, or the bridge, passes to the service.
workspace_scope(user) == IF user.is_admin THEN Everything ELSE user.workspace_ids

\* A point without a workspace matches no list of workspaces.
InScope(c, scope) == scope = Everything \/ Home[c.doc] \in scope

\* Mutant: the filter on published is left out.
Matching_Unfiltered(scope) == {c \in hidden \cup published : InScope(c, scope)}

\* build_search_filter, with require_published.
Matching(scope) == {c \in published : InScope(c, scope)}

\* Mutant: as many points as results.
VectorLimit_Exact(limit) == limit

\* min(max(limit * 3, limit), 50)
VectorLimit(limit) ==
    IF Overfetch * limit < VectorCap THEN Overfetch * limit ELSE VectorCap

Score(c) == Similarity[c.doc, c.batch]

\* query_points: the most similar of a set.
Nearest(S, n) == {c \in S : Cardinality({b \in S : Score(b) > Score(c)}) < n}

RankScore(c) == Score(c) + Boost[c.doc]

\* Sorted by rank score and cut off; equal ranks stay in the order of hits.
Ahead(q, r) == q.rank > r.rank \/ (q.rank = r.rank /\ Score(q.chunk) > Score(r.chunk))

TopRanked(found, limit) ==
    {r \in found : Cardinality({q \in found : Ahead(q, r)}) < limit}

Finish(served, outcome) ==
    request' = [request EXCEPT !.step = "done", !.found = {}, !.hits = {},
                                !.served = served, !.outcome = outcome]

MaxLength(kind) == IF kind = "search" THEN MaxSearch ELSE MaxChat

\* The contracts bound the query.  A chat, and the MCP tool, make a
\* SearchRequest of theirs, which raises if it is too long for that.
ask(kind, token, limit, length) ==
    /\ request = None
    /\ length <= MaxLength(kind)
    /\ request' = [kind |-> kind, token |-> token, limit |-> limit, hits |-> {},
                   found |-> {}, served |-> {}, attempt |-> 1, answer |-> {},
                   step |-> IF length <= MaxSearch THEN "query" ELSE "done",
                   outcome |-> IF length <= MaxSearch THEN "none" ELSE "error"]
    /\ UNCHANGED <<storeVars, cache>>

\* The scope that the request is served in.
Scope(r) == workspace_scope(decode_token(r.token))

vector_search ==
    /\ request # None /\ request.step = "query"
    /\ request' = [request EXCEPT !.step = "rows",
                     !.hits = Nearest(Matching(Scope(request)), VectorLimit(request.limit))]
    /\ UNCHANGED <<storeVars, cache>>

\* The document of a chunk row; None when the chunk has been replaced.
RowOf(c) == IF doc[c.doc] # None /\ doc[c.doc].chunk = c THEN doc[c.doc] ELSE None

ResultOf(c) ==
    [chunk |-> c, document_version |-> RowOf(c).version, rank |-> RankScore(c)]

\* The hits in their order; a stale point is skipped.
get_chunk_with_document ==
    /\ request # None /\ request.step = "rows"
    /\ \E c \in request.hits :
         /\ \A b \in request.hits : Score(b) <= Score(c)
         /\ request' = [request EXCEPT !.hits = @ \ {c},
              !.found = @ \cup (IF RowOf(c) = None THEN {} ELSE {ResultOf(c)})]
    /\ UNCHANGED <<storeVars, cache>>

\* A search is answered; a chat without results too, and else goes on.
results_ranked ==
    LET served == TopRanked(request.found, request.limit) IN
    /\ request # None /\ request.step = "rows" /\ request.hits = {}
    /\ \/ request.kind # "chat" /\ Finish(served, "results")
       \/ request.kind = "chat" /\ served = {} /\ Finish({}, "no_context")
       \/ /\ request.kind = "chat" /\ served # {}
          /\ request' = [request EXCEPT !.step = "llm", !.served = served]
    /\ UNCHANGED <<storeVars, cache>>

Context(r) == {q.chunk : q \in r.served}

\* Mutant: the key is the question without its context.
build_cache_key_Question(context) == {}

\* The prompt holds the snippets of the context; the question, the model and
\* the task are the same for all.
build_cache_key(context) == context

Cached(r) == {a \in cache : a.key = build_cache_key(Context(r))}

Answered(text) ==
    request' = [request EXCEPT !.step = "done", !.outcome = "answered", !.answer = text]

\* LLMGateway.complete: from the cache, else by an attempt at the provider.
llm_cached ==
    /\ request # None /\ request.step = "llm"
    /\ cache # None
    /\ \E a \in Cached(request) : Answered(a.text)
    /\ UNCHANGED <<storeVars, cache>>

llm_answers ==
    LET context == Context(request) IN
    /\ request # None /\ request.step = "llm"
    /\ cache # None /\ Cached(request) = {}
    /\ Answered(context)
    /\ cache' = cache \cup {[key |-> build_cache_key(context), text |-> context]}
    /\ UNCHANGED storeVars

llm_attempt_fails ==
    /\ request # None /\ request.step = "llm"
    /\ cache # None /\ Cached(request) = {}
    /\ request.attempt < MaxAttempts
    /\ request' = [request EXCEPT !.attempt = @ + 1]
    /\ UNCHANGED <<storeVars, cache>>

\* build_llm_gateway has returned None: RagUnavailable, 503.
llm_not_configured ==
    /\ request # None /\ request.step = "llm"
    /\ cache = None
    /\ Finish({}, "unavailable")
    /\ UNCHANGED <<storeVars, cache>>

\* The last attempt failed: RagUnavailable too.
llm_unavailable ==
    /\ request # None /\ request.step = "llm"
    /\ cache # None /\ Cached(request) = {}
    /\ request.attempt = MaxAttempts
    /\ Finish({}, "unavailable")
    /\ UNCHANGED <<storeVars, cache>>

request_raises ==
    /\ Failing
    /\ request # None /\ request.step # "done"
    /\ Finish({}, "error")
    /\ UNCHANGED <<storeVars, cache>>

close ==
    /\ request # None /\ request.step = "done"
    /\ request' = None
    /\ UNCHANGED <<storeVars, cache>>

Handler ==
    vector_search \/ get_chunk_with_document \/ results_ranked
    \/ llm_cached \/ llm_answers \/ llm_attempt_fails
    \/ llm_not_configured \/ llm_unavailable
    \/ request_raises

Next ==
    \/ Writer
    \/ \E kind \in Kinds, token \in Tokens, limit \in Limits,
          length \in Lengths : ask(kind, token, limit, length)
    \/ Handler \/ close

Spec == Init /\ [][Next]_vars

-----------------------------------------------------------------------------
(* Properties.                                                             *)

\* Whatever an ingestion or an ack does between the vector query and the row
\* lookups, each chunk that is served was the document's chunk when somebody
\* confirmed having read the document, and is in a workspace that the token
\* names, unless it names the caller an admin.  (decode_token, the workspace
\* filter, require_published, set_payload of the acked rows.)
ServedIsReadable ==
    request # None =>
        \A r \in request.served :
            /\ r.chunk \in read
            /\ \/ request.token.is_admin = TRUE
               \/ /\ request.token.workspace_ids # None
                  /\ Home[r.chunk.doc] \in request.token.workspace_ids

\* Points of replaced chunks do not cost a search its results as long as no
\* more of them match than the overfetch allows for.
StaleMargin ==
    [][vector_search =>
         LET matching == Matching(Scope(request))
             live     == matching \cap Live
             stale    == Cardinality(matching \ live)
         IN  /\ stale + request.limit <= VectorCap
             /\ stale <= (Overfetch - 1) * request.limit
             => \/ live \subseteq request'.hits
                \/ Cardinality(live \cap request'.hits) >= request.limit]_vars

\* A result carries the document version that its text comes from, except
\* between upsert_document_version and replace_chunks, when the row is one
\* version ahead of its chunks, and on text under which a failed upload has set
\* the row back.  That one is then older than the text, and so it stays until
\* the next upload.  (A rollback restores the row only; when the upload failed
\* before it had written a version, it takes away an indexed one's number.)
CitationsNameTheirVersion ==
    [][get_chunk_with_document =>
         \A r \in request'.found \ request.found :
             \/ r.document_version = r.chunk.version
             \/ job # None /\ job.doc = r.chunk.doc /\ job.step = "replace"
             \/ r.chunk \in displaced /\ r.document_version < r.chunk.version]_vars

\* The text of an answer was written from the chunks that are cited for it,
\* also when it comes from the cache and the documents have changed since.
\* (The key covers the prompt, and the citations are those of this search.)
AnswerMatchesCitations ==
    request # None /\ request.outcome = "answered" => request.answer = Context(request)
=============================================================================
