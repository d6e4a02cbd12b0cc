----------------------------- MODULE ReviewGate -----------------------------
(***************************************************************************)
(* The two review tiers of one document: low-confidence chunks wait in     *)
(* review_items for a reviewer (ReviewService.apply_action) before they    *)
(* get a point in Qdrant, and the uploader's ack (AckService.ack) makes    *)
(* the points searchable.  Beside them run the ingestion that creates the  *)
(* chunks and the items, for one version of the document after another,    *)
(* and the graph build, which reads the approved chunks.                   *)
(*                                                                         *)
(* Each repository call is a step; mark_review_item, which reads the row   *)
(* without a lock and writes it by primary key, is two.  How the ack's own *)
(* transaction races an ingestion is in DocumentVersions: here it is one   *)
(* step, and ingestions do not fail.                                       *)
(*                                                                         *)
(* A review may send a modified_payload with any action.  It is merged     *)
(* into the stored payload of the point, and the result, not the item,     *)
(* says which chunk is indexed and whether it is published.  (An item of   *)
(* another document that names a chunk of this one acts as one of an       *)
(* earlier version does here.)                                             *)
(***************************************************************************)
EXTENDS Naturals, Sequences, FiniteSets

CONSTANTS
    VersionChunks,  \* the chunks of each version, a sequence of disjoint sets
    Low,            \* the chunks with confidence below the threshold
    Reviewers,      \* review actions that the API may be serving at one time
    Fragile,        \* the chunks on which embedding or Qdrant may fail
    None            \* no request being served; a chunk_id that is no chunk's

Versions == DOMAIN VersionChunks
Chunks   == UNION {VersionChunks[v] : v \in Versions}

ASSUME VersionsAssumption ==
    /\ VersionChunks \in Seq(SUBSET Chunks) /\ VersionChunks # << >>
    /\ \A u, v \in Versions : u # v => VersionChunks[u] \cap VersionChunks[v] = {}

ASSUME LowAssumption == Low \subseteq Chunks

VARIABLES
    version,   \* documents.current_version
    stage,     \* where the ingestion of that version is
    rows,      \* the chunks that have a row in the metadata store
    item,      \* review_items.status by chunk, "none" before the row exists
    payload,   \* review_items.payload: the qdrant_payload stored with the item
    point,     \* the chunk's point in Qdrant: "none", "hidden" or "published"
    acked,     \* documents.acked_at is set
    acking,    \* the chunk ids that an ack is going to publish
    review,    \* what each review action is doing
    building,  \* the chunks a graph build has listed
    graph      \* the chunks named in the graph's provenance

ingestVars == <<version, stage, rows>>
ackVars    == <<acked, acking>>
graphVars  == <<building, graph>>
itemVars   == <<item, payload>>
vars       == <<ingestVars, itemVars, point, ackVars, review, graphVars>>

Decisions == {"APPROVED", "MODIFIED", "REJECTED"}
Payload   == [chunk_id : Chunks \cup {None}, published : BOOLEAN]
Review    == [chunk : Chunks, decision : Decisions, payload : Payload,
              step : {"check", "mark", "content", "upsert"}]

ASSUME NoneAssumption == None \notin Chunks \cup Review

\* What ingestion stores with the item of c: its own id, unpublished.
Stored(c) == [chunk_id |-> c, published |-> FALSE]

ReviewTypeOK ==
    /\ version \in Versions
    /\ stage \in {"chunk", "review", "done"}
    /\ rows \in {VersionChunks[v] : v \in Versions} \cup {{}}
    /\ item \in [Chunks -> Decisions \cup {"none", "PENDING"}]
    /\ \A c \in Chunks \ Low : item[c] = "none"
    /\ payload \in [Chunks -> Payload]
    /\ point \in [Chunks -> {"none", "hidden", "published"}]
    /\ acked \in BOOLEAN
    /\ acking \in (SUBSET Chunks) \cup {None}
    /\ \A r \in Reviewers : review[r] \in Review \cup {None}
    /\ building \in (SUBSET Chunks) \cup {None}
    /\ graph \subseteq Chunks

Init ==
    /\ version = 1
    /\ stage = "chunk"
    /\ rows = {}
    /\ item = [c \in Chunks |-> "none"]
    /\ payload = [c \in Chunks |-> Stored(c)]
    /\ point = [c \in Chunks |-> "none"]
    /\ acked = FALSE
    /\ acking = None
    /\ review = [r \in Reviewers |-> None]
    /\ building = None
    /\ graph = {}

-----------------------------------------------------------------------------
(* The worker: IngestionPipeline.ingest.                                   *)

\* Another version: the document row is overwritten and loses its ack.
upsert_document_version ==
    /\ stage = "done"
    /\ version + 1 \in Versions
    /\ version' = version + 1
    /\ stage' = "chunk"
    /\ acked' = FALSE
    /\ UNCHANGED <<rows, itemVars, point, acking, review, graphVars>>

\* The chunk rows of the version replace those of the one before; the review
\* items of the latter stay.
replace_chunks ==
    /\ stage = "chunk"
    /\ rows' = VersionChunks[version]
    /\ stage' = "review"
    /\ UNCHANGED <<version, itemVars, point, ackVars, review, graphVars>>

\* Mutant: the confidence is not looked at.
ToReview_All == {c \in rows : item[c] = "none"}

\* The chunks below the threshold that have no review item yet.
ToReview == {c \in rows \cap Low : item[c] = "none"}

create_review_item(c) ==
    /\ stage = "review"
    /\ c \in ToReview
    /\ item' = [item EXCEPT ![c] = "PENDING"]
    /\ UNCHANGED <<ingestVars, payload, point, ackVars, review, graphVars>>

\* The chunks without an item are upserted together, unpublished.
upsert_chunks ==
    /\ stage = "review"
    /\ ToReview = {}
    /\ point' = [c \in Chunks |->
                   IF c \in rows /\ item[c] = "none" THEN "hidden" ELSE point[c]]
    /\ stage' = "done"
    /\ UNCHANGED <<version, rows, itemVars, ackVars, review, graphVars>>

-----------------------------------------------------------------------------
(* ReviewService.apply_action.                                             *)

ReviewGoes(r, step) == review' = [review EXCEPT ![r].step = step]
ReviewEnds(r) == review' = [review EXCEPT ![r] = None]

\* Mutant: that the item exists is enough.
IsPending_Exists(c) == item[c] # "none"

IsPending(c) == item[c] = "PENDING"

\* The payloads that modified_payload can make of c's: it overrides any of the
\* keys.  (The id of a chunk without a row, c apart, acts as None.)
Merged(c) == [chunk_id : rows \cup {c, None}, published : BOOLEAN]

get_review_item(r, c, decision) ==
    /\ review[r] = None
    /\ IsPending(c)
    /\ \E merged \in Merged(c) :
         review' = [review EXCEPT ![r] =
                      [chunk |-> c, decision |-> decision, payload |-> merged,
                       step |-> "check"]]
    /\ UNCHANGED <<ingestVars, itemVars, point, ackVars, graphVars>>

mark_review_item_read(r) ==
    /\ review[r] # None /\ review[r].step = "check"
    /\ \/ IsPending(review[r].chunk) /\ ReviewGoes(r, "mark")
       \/ ~IsPending(review[r].chunk) /\ ReviewEnds(r)
    /\ UNCHANGED <<ingestVars, itemVars, point, ackVars, graphVars>>

\* Mutant: a modified chunk is forgotten.
Committed_Approved == {"APPROVED"}

\* The decisions after which the chunk goes on to Qdrant.
Committed == {"APPROVED", "MODIFIED"}

\* The payload is written with every decision, unless it is as it was read.
mark_review_item_commit(r) ==
    LET c == review[r].chunk IN
    /\ review[r] # None /\ review[r].step = "mark"
    /\ item' = [item EXCEPT ![c] = review[r].decision]
    /\ payload' = [payload EXCEPT ![c] =
                      IF review[r].payload = Stored(c) THEN @ ELSE review[r].payload]
    /\ \/ review[r].decision \in Committed /\ ReviewGoes(r, "content")
       \/ review[r].decision \notin Committed /\ ReviewEnds(r)
    /\ UNCHANGED <<ingestVars, point, ackVars, graphVars>>

\* QdrantChunkPayload.model_validate or UUID refuses the merged payload, after
\* the item has been finalized.
model_validate_raises(r) ==
    /\ review[r] # None /\ review[r].step = "content"
    /\ review[r].payload.chunk_id = None
    /\ ReviewEnds(r)
    /\ UNCHANGED <<ingestVars, itemVars, point, ackVars, graphVars>>

\* "chunk not found" when the version has been replaced meanwhile.
update_chunk_content(r) ==
    LET c == review[r].payload.chunk_id IN
    /\ review[r] # None /\ review[r].step = "content"
    /\ c # None
    /\ \/ c \in rows /\ ReviewGoes(r, "upsert")
       \/ c \notin rows /\ ReviewEnds(r)
    /\ UNCHANGED <<ingestVars, itemVars, point, ackVars, graphVars>>

Visibility(p) == IF p.published THEN "published" ELSE "hidden"

\* The chunk and its visibility are those of the merged payload.
upsert_reviewed_chunk(r) ==
    LET merged == review[r].payload IN
    /\ review[r] # None /\ review[r].step = "upsert"
    /\ point' = [point EXCEPT ![merged.chunk_id] = Visibility(merged)]
    /\ ReviewEnds(r)
    /\ UNCHANGED <<ingestVars, itemVars, ackVars, graphVars>>

\* embed or upsert_chunks raises on the item's content, after the item has been
\* finalized.
upsert_reviewed_chunk_raises(r) ==
    /\ review[r] # None /\ review[r].step = "upsert"
    /\ review[r].chunk \in Fragile
    /\ ReviewEnds(r)
    /\ UNCHANGED <<ingestVars, itemVars, point, ackVars, graphVars>>

apply_action(r) ==
    \/ \E c \in Chunks, decision \in Decisions : get_review_item(r, c, decision)
    \/ mark_review_item_read(r) \/ mark_review_item_commit(r)
    \/ model_validate_raises(r) \/ update_chunk_content(r)
    \/ upsert_reviewed_chunk(r) \/ upsert_reviewed_chunk_raises(r)

-----------------------------------------------------------------------------
(* AckService.ack.                                                         *)

ack_document ==
    /\ ~acked
    /\ acking = None
    /\ acked' = TRUE
    /\ acking' = rows
    /\ UNCHANGED <<ingestVars, itemVars, point, review, graphVars>>

\* Mutant: publishing upserts the points that the chunks lack.
HasPoint_Any(c) == TRUE

HasPoint(c) == point[c] # "none"

\* set_payload changes the points that exist.
set_payload ==
    /\ acking # None
    /\ point' = [c \in Chunks |->
                   IF c \in acking /\ HasPoint(c) THEN "published" ELSE point[c]]
    /\ acking' = None
    /\ UNCHANGED <<ingestVars, itemVars, acked, review, graphVars>>

-----------------------------------------------------------------------------
(* GraphBuildService.build_from_approved_chunks.                           *)

\* Mutant: an item that is pending does not count.
list_approved_graph_chunks_NotRejected ==
    /\ building = None
    /\ building' \in SUBSET {c \in rows : item[c] # "REJECTED"}
    /\ UNCHANGED <<ingestVars, itemVars, point, ackVars, review, graph>>

\* NOT EXISTS an item that is pending or rejected; the ack is not looked at.
\* LIMIT lets any of them be left out.
list_approved_graph_chunks ==
    /\ building = None
    /\ building' \in SUBSET {c \in rows : item[c] \notin {"PENDING", "REJECTED"}}
    /\ UNCHANGED <<ingestVars, itemVars, point, ackVars, review, graph>>

build_from_chunks ==
    /\ building # None
    /\ graph' = graph \cup building
    /\ building' = None
    /\ UNCHANGED <<ingestVars, itemVars, point, ackVars, review>>

-----------------------------------------------------------------------------
ingest ==
    \/ upsert_document_version \/ replace_chunks
    \/ \E c \in Chunks : create_review_item(c)
    \/ upsert_chunks

Next ==
    \/ ingest
    \/ \E r \in Reviewers : apply_action(r)
    \/ ack_document \/ set_payload
    \/ list_approved_graph_chunks \/ build_from_chunks

Spec == Init /\ [][Next]_vars

-----------------------------------------------------------------------------
(* Properties.                                                             *)

Accepted(c) == item[c] \in {"APPROVED", "MODIFIED"}

Quiet ==
    /\ stage = "done"
    /\ acking = None
    /\ \A r \in Reviewers : review[r] = None

\* The first tier: a low-confidence chunk is in Qdrant only once a reviewer has
\* accepted an item whose payload names it.  (That is the chunk's own item,
\* unless a modified_payload has overridden the chunk_id of another.)
OnlyAcceptedIsIndexed ==
    \A c \in Low : point[c] # "none" =>
        \E d \in Chunks : Accepted(d) /\ payload[d].chunk_id = c

\* An accepted item of another chunk names this one.
Misnamed(c) ==
    \E d \in Chunks \ {c} : Accepted(d) /\ payload[d].chunk_id = c

\* "review item is already finalized": a decision is never replaced by another.
DecisionIsFinal ==
    [][\A c \in Chunks : item[c] \in Decisions => item'[c] = item[c]]_vars

\* "that gate gets a chunk into Qdrant at all" (AckService): an accepted chunk on
\* which neither embedding nor Qdrant fails has a point as soon as nothing is in
\* flight, if the payload stored with the decision is still its own; the version
\* being replaced under the review never loses one that still counts.
SturdyIsIndexed ==
    Quiet => \A c \in rows \ Fragile :
        Accepted(c) /\ payload[c].chunk_id = c => point[c] # "none"

\* What an ack has made searchable stays so: neither the chunk's own review nor
\* another ingestion writes over a published point, whatever the payload of the
\* review says.  Only a review that names another chunk than its own may.
\* (_commit_reviewed_item upserts; create_review_item is called once per chunk.)
PublishedStays ==
    [][\A c \in Chunks : point[c] = "published" /\ ~Misnamed(c)
         => point'[c] = "published"]_vars

\* Both gates passed, in whichever order: a chunk that a reviewer has accepted
\* and whose document is acked is searchable.  This does not hold: a chunk that
\* is accepted after the ack is upserted unpublished.
SearchableAfterAck ==
    Quiet /\ acked => \A c \in rows : Accepted(c) => point[c] = "published"

\* The graph is built "from approved chunks": what a build lists while no
\* version is being ingested has been accepted by a reviewer, if it needs to be.
\* (Between the chunk rows and their review items it may list any of them.)
BuildsTakeReviewed ==
    [][building = None /\ stage = "done"
       => \A c \in Low : building' # None /\ c \in building' => Accepted(c)]_vars
=============================================================================
