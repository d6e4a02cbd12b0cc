-------------------------- MODULE ReviewGateProofs --------------------------
(* What holds of ReviewGate for every document, in any number of versions: *)
(* first however many review actions run at one time, then what is left    *)
(* only to those that are served one at a time.                            *)
EXTENDS ReviewGate, TLAPS

(***************************************************************************)
(* Types.  A review is of a chunk below the threshold, an item that nobody *)
(* has decided on has the payload that ingestion stored, and a review that *)
(* has got to Qdrant writes the point of a chunk.                          *)
(***************************************************************************)
TypeInv ==
    /\ ReviewTypeOK
    /\ review \in [Reviewers -> Review \cup {None}]
    /\ \A c \in Chunks : item[c] \in {"none", "PENDING"} => payload[c] = Stored(c)
    /\ \A r \in Reviewers : review[r] # None =>
        /\ review[r].chunk \in Low /\ item[review[r].chunk] # "none"
        /\ review[r].step = "upsert" => review[r].payload.chunk_id \in Chunks

\* The first state is typed.
LEMMA TypeInit == Init => TypeInv
<1> SUFFICES ASSUME Init PROVE TypeInv
  OBVIOUS
<1>1. 1 \in Versions
  BY VersionsAssumption DEF Versions
<1>2. \A c \in Chunks : Stored(c) \in Payload
  BY DEF Stored, Payload
<1> QED
  BY <1>1, <1>2, NoneAssumption DEF Init, TypeInv, ReviewTypeOK

\* A review keeps the types: its item was pending, so its chunk is below the
\* threshold, and items are never deleted.
LEMMA ReviewTypeStep ==
    ASSUME TypeInv, NEW r \in Reviewers, apply_action(r)
    PROVE  TypeInv'
<1> USE NoneAssumption, LowAssumption
    DEF TypeInv, ReviewTypeOK, Review, Decisions, IsPending, ReviewGoes, ReviewEnds,
        ackVars, graphVars, ingestVars, itemVars
<1>0. rows \subseteq Chunks
  BY DEF Chunks
<1>1. ASSUME NEW c \in Chunks, NEW decision \in Decisions, get_review_item(r, c, decision)
      PROVE  TypeInv'
  <2>1. Merged(c) \subseteq Payload
    BY <1>0 DEF Merged, Payload
  <2> QED
    BY <1>1, <2>1 DEF get_review_item
<1>2. CASE mark_review_item_read(r)
  BY <1>2 DEF mark_review_item_read
<1>3. CASE mark_review_item_commit(r)
  BY <1>3 DEF mark_review_item_commit, Committed
<1>4. CASE model_validate_raises(r) \/ upsert_reviewed_chunk_raises(r)
  BY <1>4 DEF model_validate_raises, upsert_reviewed_chunk_raises
<1>5. CASE update_chunk_content(r)
  BY <1>0, <1>5 DEF update_chunk_content
<1>6. CASE upsert_reviewed_chunk(r)
  BY <1>6 DEF upsert_reviewed_chunk, Visibility
<1> QED
  BY <1>1, <1>2, <1>3, <1>4, <1>5, <1>6 DEF apply_action

\* Every step keeps the types.
LEMMA TypeStep == TypeInv /\ [Next]_vars => TypeInv'
<1> SUFFICES ASSUME TypeInv, [Next]_vars PROVE TypeInv'
  OBVIOUS
<1> USE NoneAssumption, LowAssumption
    DEF TypeInv, ReviewTypeOK, ackVars, graphVars, ingestVars, itemVars
<1>0. rows \subseteq Chunks
  BY DEF Chunks
<1>1. CASE upsert_document_version
  BY <1>1 DEF upsert_document_version
<1>2. CASE replace_chunks
  BY <1>2 DEF replace_chunks
<1>3. ASSUME NEW c \in Chunks, create_review_item(c) PROVE TypeInv'
  BY <1>3 DEF create_review_item, ToReview
<1>4. CASE upsert_chunks
  BY <1>4 DEF upsert_chunks
<1>5. ASSUME NEW r \in Reviewers, apply_action(r) PROVE TypeInv'
  BY <1>5, ReviewTypeStep
<1>6. CASE ack_document
  BY <1>0, <1>6 DEF ack_document
<1>7. CASE set_payload
  BY <1>7 DEF set_payload
<1>8. CASE list_approved_graph_chunks \/ build_from_chunks
  BY <1>0, <1>8 DEF list_approved_graph_chunks, build_from_chunks
<1>9. CASE UNCHANGED vars
  BY <1>9 DEF vars
<1> QED
  BY <1>1, <1>2, <1>3, <1>4, <1>5, <1>6, <1>7, <1>8, <1>9 DEF Next, ingest

\* The variables keep their types, and no chunk above the threshold ever gets a
\* review item, however many review actions run at one time.
THEOREM ReviewTypeCorrect == Spec => []ReviewTypeOK
<1>1. TypeInv => ReviewTypeOK
  BY DEF TypeInv
<1> QED
  BY <1>1, TypeInit, TypeStep, PTL DEF Spec

\* Rows are chunks, and versions are numbers.
LEMMA TypeFacts ==
    TypeInv => /\ rows \subseteq Chunks
               /\ version \in Versions /\ version \in Nat
               /\ \A v \in Versions : v \in Nat
  BY VersionsAssumption DEF TypeInv, ReviewTypeOK, Versions, Chunks

\* The three writers of a point: ingestion gives a hidden one to a chunk that
\* needs no review, a review to the chunk its payload names, and an ack
\* publishes one that is there.
LEMMA PointWriters ==
    ASSUME TypeInv, [Next]_vars, NEW c \in Chunks, point'[c] # point[c]
    PROVE  \/ upsert_chunks /\ c \in rows /\ item[c] = "none" /\ point'[c] = "hidden"
           \/ \E r \in Reviewers : /\ upsert_reviewed_chunk(r)
                                   /\ review[r].payload.chunk_id = c
           \/ set_payload /\ point[c] # "none" /\ point'[c] = "published"
<1>1. CASE upsert_chunks
  BY <1>1 DEF upsert_chunks
<1>2. CASE set_payload
  BY <1>2 DEF set_payload, HasPoint
<1>3. ASSUME NEW r \in Reviewers, upsert_reviewed_chunk(r)
      PROVE  review[r].payload.chunk_id = c
  BY <1>3 DEF upsert_reviewed_chunk, TypeInv, ReviewTypeOK
<1>4. CASE ~upsert_chunks /\ ~set_payload
           /\ \A r \in Reviewers : ~upsert_reviewed_chunk(r)
  BY <1>4
  DEF Next, ingest, upsert_document_version, replace_chunks, create_review_item,
      apply_action, get_review_item, mark_review_item_read, mark_review_item_commit,
      model_validate_raises, update_chunk_content, upsert_reviewed_chunk_raises,
      ack_document, list_approved_graph_chunks, build_from_chunks, vars
<1> QED
  BY <1>1, <1>2, <1>3, <1>4

\* The two writers of an item.
LEMMA ItemWriters ==
    ASSUME TypeInv, [Next]_vars, NEW c \in Chunks,
           item'[c] # item[c] \/ payload'[c] # payload[c]
    PROVE  \/ create_review_item(c)
           \/ \E r \in Reviewers : mark_review_item_commit(r) /\ review[r].chunk = c
<1>1. ASSUME NEW d \in Chunks, create_review_item(d) PROVE d = c
  BY <1>1 DEF create_review_item, TypeInv, ReviewTypeOK
<1>2. ASSUME NEW r \in Reviewers, mark_review_item_commit(r) PROVE review[r].chunk = c
  BY <1>2 DEF mark_review_item_commit, TypeInv, ReviewTypeOK
<1>3. CASE /\ \A d \in Chunks : ~create_review_item(d)
           /\ \A r \in Reviewers : ~mark_review_item_commit(r)
  BY <1>3
  DEF Next, ingest, upsert_document_version, replace_chunks, upsert_chunks, apply_action,
      get_review_item, mark_review_item_read, model_validate_raises,
      update_chunk_content, upsert_reviewed_chunk, upsert_reviewed_chunk_raises,
      ack_document, set_payload, list_approved_graph_chunks, build_from_chunks, itemVars, vars
<1> QED
  BY <1>1, <1>2, <1>3

-----------------------------------------------------------------------------
(***************************************************************************)
(* The gates, when review actions are served one at a time.                *)
(***************************************************************************)

\* One review action is served at a time.
SerialReviews == \A q, r \in Reviewers : q = r

\* A review that has found its item pending still finds it so when it writes,
\* and the item of one that has written is accepted, with the review's payload.
ReviewInv ==
    \A r \in Reviewers : review[r] # None =>
        /\ review[r].step = "mark" => item[review[r].chunk] = "PENDING"
        /\ review[r].step \in {"content", "upsert"} =>
             Accepted(review[r].chunk) /\ payload[review[r].chunk] = review[r].payload

\* A low-confidence chunk is in Qdrant only once an accepted item names it, and
\* this survives every step because no review in flight holds a stale view of
\* its item.
GateInv == TypeInv /\ ReviewInv /\ OnlyAcceptedIsIndexed

\* The gate holds before anything is ingested.
LEMMA GateInit == Init => GateInv
<1> SUFFICES ASSUME Init PROVE GateInv
  OBVIOUS
<1>1. ReviewInv
  BY DEF Init, ReviewInv
<1>2. OnlyAcceptedIsIndexed
  BY LowAssumption DEF Init, OnlyAcceptedIsIndexed
<1> QED
  BY <1>1, <1>2, TypeInit DEF GateInv

\* An item is decided on only by a review that has found it pending, so a
\* decision stands, and the payload stored with it.
LEMMA DecidedKept ==
    ASSUME GateInv, [Next]_vars, NEW c \in Chunks, item[c] \in Decisions
    PROVE  item'[c] = item[c] /\ payload'[c] = payload[c]
<1>1. ~create_review_item(c)
  BY DEF create_review_item, ToReview, Decisions
<1>2. ASSUME NEW r \in Reviewers, mark_review_item_commit(r) PROVE review[r].chunk # c
  BY <1>2 DEF mark_review_item_commit, GateInv, ReviewInv, Decisions
<1> QED
  BY <1>1, <1>2, ItemWriters DEF GateInv

\* A chunk named by an accepted item stays so named.
LEMMA NamedStays ==
    ASSUME GateInv, [Next]_vars
    PROVE  /\ \A c, d \in Chunks : Accepted(d) /\ payload[d].chunk_id = c
                => Accepted(d)' /\ payload'[d].chunk_id = c
           /\ \A c \in Chunks : Misnamed(c) => Misnamed(c)'
<1>1. \A d \in Chunks : Accepted(d) => Accepted(d)' /\ payload'[d] = payload[d]
  BY DecidedKept DEF Accepted, Decisions
<1> QED
  BY <1>1 DEF Misnamed

\* A review moves only its own request; nobody else moves any.
LEMMA OwnReview ==
    ASSUME TypeInv, [Next]_vars, NEW r \in Reviewers, review'[r] # review[r]
    PROVE  apply_action(r)
<1>1. ASSUME NEW q \in Reviewers, apply_action(q) PROVE q = r
  BY <1>1
  DEF apply_action, get_review_item, mark_review_item_read, mark_review_item_commit,
      model_validate_raises, update_chunk_content, upsert_reviewed_chunk,
      upsert_reviewed_chunk_raises, ReviewGoes, ReviewEnds, TypeInv
<1> QED
  BY <1>1
  DEF Next, ingest, upsert_document_version, replace_chunks, create_review_item,
      upsert_chunks, ack_document, set_payload, list_approved_graph_chunks,
      build_from_chunks, vars

\* What the next step of a review in flight makes of it.
LEMMA ReviewSteps ==
    ASSUME TypeInv, [Next]_vars, NEW r \in Reviewers, review'[r] # None
    PROVE  /\ review'[r].step = "mark" =>
               \/ review'[r] = review[r]
               \/ /\ review[r] # None /\ mark_review_item_read(r)
                  /\ review'[r].chunk = review[r].chunk
                  /\ item[review[r].chunk] = "PENDING" /\ UNCHANGED item
           /\ review'[r].step \in {"content", "upsert"} =>
               \/ review'[r] = review[r]
               \/ /\ review[r] # None /\ review[r].step \in {"mark", "content"}
                  /\ review'[r].chunk = review[r].chunk
                  /\ review'[r].payload = review[r].payload
                  /\ review[r].step = "mark" => /\ mark_review_item_commit(r)
                                                /\ review[r].decision \in Committed
                                                /\ review'[r].step = "content"
                  /\ review[r].step = "content" => /\ update_chunk_content(r)
                                                   /\ review[r].payload.chunk_id \in rows
<1> SUFFICES ASSUME review'[r] # review[r], apply_action(r)
             PROVE  /\ review'[r].step = "mark" =>
                         /\ review[r] # None /\ mark_review_item_read(r)
                         /\ review'[r].chunk = review[r].chunk
                         /\ item[review[r].chunk] = "PENDING" /\ UNCHANGED item
                    /\ review'[r].step \in {"content", "upsert"} =>
                         /\ review[r] # None /\ review[r].step \in {"mark", "content"}
                         /\ review'[r].chunk = review[r].chunk
                         /\ review'[r].payload = review[r].payload
                         /\ review[r].step = "mark" => /\ mark_review_item_commit(r)
                                                       /\ review[r].decision \in Committed
                                                       /\ review'[r].step = "content"
                         /\ review[r].step = "content" => /\ update_chunk_content(r)
                                                     /\ review[r].payload.chunk_id \in rows
  BY OwnReview, Zenon
<1> USE NoneAssumption DEF TypeInv, Review, ReviewGoes, ReviewEnds
<1>1. ASSUME NEW c \in Chunks, NEW decision \in Decisions, get_review_item(r, c, decision)
      PROVE  review'[r].step = "check"
  BY <1>1 DEF get_review_item
<1>2. CASE mark_review_item_read(r)
  BY <1>2 DEF mark_review_item_read, IsPending, itemVars
<1>3. CASE mark_review_item_commit(r)
  BY <1>3 DEF mark_review_item_commit
<1>4. CASE update_chunk_content(r)
  BY <1>4 DEF update_chunk_content
<1>5. CASE \/ model_validate_raises(r) \/ upsert_reviewed_chunk(r)
           \/ upsert_reviewed_chunk_raises(r)
  BY <1>5 DEF model_validate_raises, upsert_reviewed_chunk, upsert_reviewed_chunk_raises
<1> QED
  BY <1>1, <1>2, <1>3, <1>4, <1>5 DEF apply_action

\* What a review has written is what it was asked to.
LEMMA CommitWrites ==
    ASSUME TypeInv, NEW r \in Reviewers, mark_review_item_commit(r)
    PROVE  LET c == review[r].chunk IN
           /\ c \in Chunks
           /\ item'[c] = review[r].decision
           /\ \/ payload'[c] = review[r].payload
              \/ review[r].payload = Stored(c) /\ payload'[c] = payload[c]
           /\ \A d \in Chunks \ {c} : item'[d] = item[d] /\ payload'[d] = payload[d]
           /\ UNCHANGED <<point, rows>>
           /\ review[r] # None /\ review'[r] # review[r]
  BY LowAssumption, NoneAssumption
  DEF mark_review_item_commit, TypeInv, ReviewTypeOK, Review, ingestVars, ReviewGoes, ReviewEnds

\* Every step keeps the gate.
LEMMA GateStep == SerialReviews /\ GateInv /\ [Next]_vars => GateInv'
<1> SUFFICES ASSUME SerialReviews, GateInv, [Next]_vars PROVE GateInv'
  OBVIOUS
<1>1. TypeInv /\ TypeInv'
  BY TypeStep DEF GateInv
<1>2. ReviewInv'
  <2> SUFFICES ASSUME NEW r \in Reviewers, review'[r] # None,
                      NEW c \in Chunks, NEW p, c = review'[r].chunk, p = review'[r].payload
               PROVE  /\ review'[r].step = "mark" => item'[c] = "PENDING"
                      /\ review'[r].step \in {"content", "upsert"} =>
                           Accepted(c)' /\ payload'[c] = p
    <3>1. \A r \in Reviewers : review'[r] # None => review'[r].chunk \in Chunks
      BY <1>1, LowAssumption DEF TypeInv
    <3> QED
      BY <3>1 DEF ReviewInv, Accepted
  <2>1. ASSUME review'[r].step = "mark" PROVE item'[c] = "PENDING"
    <3>1. CASE review'[r] = review[r]
      <4>1. item[c] = "PENDING" /\ review[r] # None /\ review[r].step = "mark"
        BY <2>1, <3>1 DEF GateInv, ReviewInv
      <4>2. ~create_review_item(c)
        BY <4>1 DEF create_review_item, ToReview
      <4>3. ~mark_review_item_commit(r)
        BY <1>1, <3>1, CommitWrites
      <4>4. \A q \in Reviewers : q = r
        BY DEF SerialReviews
      <4> QED
        BY <1>1, <4>1, <4>2, <4>3, <4>4, ItemWriters
    <3>2. CASE review'[r] # review[r]
      BY <1>1, <2>1, <3>2, ReviewSteps
    <3> QED
      BY <3>1, <3>2
  <2>2. ASSUME review'[r].step \in {"content", "upsert"}
        PROVE  Accepted(c)' /\ payload'[c] = p
    <3>1. CASE /\ review[r] # None /\ review[r].step \in {"content", "upsert"}
               /\ review[r].chunk = c /\ review[r].payload = p
      <4>1. item[c] \in {"APPROVED", "MODIFIED"} /\ payload[c] = p
        BY <3>1 DEF GateInv, ReviewInv, Accepted
      <4>2. item'[c] = item[c] /\ payload'[c] = payload[c]
        BY <4>1, DecidedKept DEF Decisions
      <4> QED
        BY <4>1, <4>2 DEF Accepted
    <3>2. CASE /\ mark_review_item_commit(r) /\ review[r].decision \in Committed
               /\ review[r] # None /\ review[r].step = "mark"
               /\ review[r].chunk = c /\ review[r].payload = p
      <4>1. payload[c] = Stored(c)
        BY <1>1, <3>2 DEF GateInv, ReviewInv, TypeInv
      <4>2. item'[c] \in Committed /\ payload'[c] = p
        BY <1>1, <3>2, <4>1, CommitWrites
      <4> QED
        BY <4>2 DEF Accepted, Committed
    <3> QED
      BY <1>1, <2>2, <3>1, <3>2, ReviewSteps
  <2> QED
    BY <2>1, <2>2
<1>3. OnlyAcceptedIsIndexed'
  <2> SUFFICES ASSUME NEW c \in Low, point'[c] # "none"
               PROVE  \E d \in Chunks : Accepted(d)' /\ payload'[d].chunk_id = c
    BY DEF OnlyAcceptedIsIndexed, Accepted
  <2>0. c \in Chunks
    BY LowAssumption
  <2>1. CASE point[c] # "none"
    <3>1. PICK d \in Chunks : Accepted(d) /\ payload[d].chunk_id = c
      BY <2>1 DEF GateInv, OnlyAcceptedIsIndexed
    <3> QED
      BY <2>0, <3>1, NamedStays
  <2>2. CASE point[c] = "none"
    <3>1. ~(upsert_chunks /\ c \in rows /\ item[c] = "none")
      BY DEF upsert_chunks, ToReview
    <3>2. PICK r \in Reviewers : upsert_reviewed_chunk(r) /\ review[r].payload.chunk_id = c
      BY <1>1, <2>0, <2>2, <3>1, PointWriters
    <3>3. review[r].chunk \in Chunks /\ Accepted(review[r].chunk)
          /\ payload[review[r].chunk].chunk_id = c
      BY <1>1, <3>2, LowAssumption
      DEF upsert_reviewed_chunk, GateInv, ReviewInv, TypeInv
    <3> QED
      BY <2>0, <3>3, NamedStays
  <2> QED
    BY <2>1, <2>2
<1> QED
  BY <1>1, <1>2, <1>3 DEF GateInv

\* The gate is never passed by, as long as reviews are serial.
LEMMA GateInvariant == SerialReviews => (Spec => []GateInv)
<1> SUFFICES ASSUME SerialReviews PROVE Spec => []GateInv
  OBVIOUS
<1>1. GateInv /\ [Next]_vars => GateInv'
  BY GateStep
<1> QED
  BY <1>1, GateInit, PTL DEF Spec

\* With reviews served one at a time, a low-confidence chunk has a point in
\* Qdrant only once a reviewer has accepted an item whose stored payload names
\* it, whatever modified payloads they send (ReviewService.apply_action).
THEOREM GateHolds == SerialReviews => (Spec => []OnlyAcceptedIsIndexed)
<1>1. GateInv => OnlyAcceptedIsIndexed
  BY DEF GateInv
<1> QED
  BY <1>1, GateInvariant, PTL

\* With reviews served one at a time, a decision once taken stands
\* (mark_review_item's "review item is already finalized").
THEOREM DecisionsAreFinal == SerialReviews => (Spec => DecisionIsFinal)
<1>1. GateInv /\ [Next]_vars
      => [\A c \in Chunks : item[c] \in Decisions => item'[c] = item[c]]_vars
  BY DecidedKept
<1> QED
  BY <1>1, GateInvariant, PTL DEF Spec, DecisionIsFinal

-----------------------------------------------------------------------------
(***************************************************************************)
(* What is published stays so.  But for reviews that name another chunk    *)
(* than their own, a point is written only where there was none: an        *)
(* ingestion upserts the chunks of a version that has no points yet, apart *)
(* from those under review, and a review accepts its chunk once.           *)
(***************************************************************************)

\* The chunk is of a version that has been ingested, or is being.
Ingested(c) == \E v \in Versions : c \in VersionChunks[v] /\ v <= version

\* Points and items are of versions ingested so far; a chunk of the version
\* being ingested has a point only through a review.
PointsFollowVersions ==
    \A c \in Chunks : point[c] # "none" \/ item[c] # "none" =>
        /\ Ingested(c)
        /\ c \in VersionChunks[version] =>
             stage = "done" \/ item[c] # "none" \/ Misnamed(c)

RowsFollowVersions ==
    /\ stage \in {"chunk", "review", "done"}
    /\ stage # "chunk" => rows = VersionChunks[version]

\* A review finds rows of chunks that have been ingested only.
NamedAreIngested ==
    /\ \A c \in rows : Ingested(c)
    /\ \A r \in Reviewers : review[r] # None /\ review[r].step = "upsert"
                            => Ingested(review[r].payload.chunk_id)

\* A chunk whose review has accepted it has no point before that review writes
\* it, but for one of a misnaming review.
ReviewsAreFirst ==
    \A r \in Reviewers : review[r] # None /\ review[r].step \in {"content", "upsert"}
        => point[review[r].chunk] = "none" \/ Misnamed(review[r].chunk)

PointInv ==
    /\ GateInv
    /\ PointsFollowVersions
    /\ RowsFollowVersions
    /\ NamedAreIngested
    /\ ReviewsAreFirst

\* No chunk has a point before the first ingestion.
LEMMA PointInit == Init => PointInv
  BY GateInit
  DEF Init, PointInv, PointsFollowVersions, RowsFollowVersions, NamedAreIngested,
      ReviewsAreFirst

\* The version only grows, and a new one starts with its chunks.
LEMMA VersionsGrow ==
    ASSUME TypeInv, [Next]_vars
    PROVE  /\ \A c \in Chunks : Ingested(c) => Ingested(c)'
           /\ \/ UNCHANGED version /\ (stage = "done" => stage' = "done")
              \/ version' = version + 1 /\ version' \in Versions
<1>1. /\ version \in Nat /\ \A v \in Versions : v \in Nat
  BY TypeFacts
<1>2. \/ UNCHANGED version /\ (stage = "done" => stage' = "done")
      \/ version' = version + 1 /\ version' \in Versions
  BY DEF Next, ingest, upsert_document_version, replace_chunks, create_review_item,
    upsert_chunks, apply_action, get_review_item, mark_review_item_read,
    mark_review_item_commit, model_validate_raises, update_chunk_content,
    upsert_reviewed_chunk, upsert_reviewed_chunk_raises, ack_document, set_payload,
    list_approved_graph_chunks, build_from_chunks, ingestVars, vars
<1>3. ASSUME NEW c \in Chunks, Ingested(c) PROVE Ingested(c)'
  <2>1. PICK v \in Versions : c \in VersionChunks[v] /\ v <= version
    BY <1>3 DEF Ingested
  <2>2. v <= version'
    BY <1>1, <1>2, <2>1
  <2> QED
    BY <2>1, <2>2 DEF Ingested
<1> QED
  BY <1>2, <1>3

\* The rows are those of the version being ingested, once they are written.
LEMMA RowsStep == TypeInv /\ RowsFollowVersions /\ [Next]_vars => RowsFollowVersions'
<1> SUFFICES ASSUME TypeInv, RowsFollowVersions, [Next]_vars PROVE RowsFollowVersions'
  OBVIOUS
<1> USE DEF RowsFollowVersions, ingestVars
<1>1. CASE upsert_document_version \/ replace_chunks \/ upsert_chunks
  BY <1>1 DEF upsert_document_version, replace_chunks, upsert_chunks
<1>2. CASE UNCHANGED ingestVars
  BY <1>2
<1> QED
  BY <1>1, <1>2
  DEF Next, ingest, create_review_item, apply_action, get_review_item,
    mark_review_item_read, mark_review_item_commit, model_validate_raises,
    update_chunk_content, upsert_reviewed_chunk, upsert_reviewed_chunk_raises,
    ack_document, set_payload, list_approved_graph_chunks, build_from_chunks, vars

\* The review that writes a point names its chunk; if that is not its own, the
\* chunk is misnamed.
LEMMA WriterNames ==
    ASSUME GateInv, NEW r \in Reviewers, upsert_reviewed_chunk(r), NEW c \in Chunks,
           review[r].payload.chunk_id = c, review[r].chunk # c
    PROVE  Misnamed(c)
<1>1. /\ review[r].chunk \in Chunks /\ Accepted(review[r].chunk)
      /\ payload[review[r].chunk].chunk_id = c
  BY LowAssumption DEF upsert_reviewed_chunk, GateInv, ReviewInv, TypeInv
<1> QED
  BY <1>1 DEF Misnamed

\* Every step keeps the points where the versions have put them.
LEMMA PointStep == SerialReviews /\ PointInv /\ [Next]_vars => PointInv'
<1> SUFFICES ASSUME SerialReviews, PointInv, [Next]_vars PROVE PointInv'
  OBVIOUS
<1>1. GateInv /\ GateInv' /\ TypeInv /\ TypeInv'
  BY GateStep DEF PointInv, GateInv
<1>2. RowsFollowVersions'
  BY <1>1, RowsStep DEF PointInv
<1>3. NamedAreIngested'
  <2>1. ASSUME NEW c \in rows' PROVE Ingested(c)'
    <3>0. c \in Chunks
      BY <1>1, <2>1 DEF TypeInv, ReviewTypeOK, Chunks
    <3>1. CASE replace_chunks
      <4>1. c \in VersionChunks[version] /\ version \in Versions /\ version <= version
        BY <1>1, <2>1, <3>1, TypeFacts DEF replace_chunks
      <4>2. Ingested(c)
        BY <4>1 DEF Ingested
      <4> QED
        BY <1>1, <3>0, <4>2, VersionsGrow
    <3>2. CASE rows' = rows
      BY <1>1, <2>1, <3>0, <3>2, VersionsGrow DEF PointInv, NamedAreIngested
    <3> QED
      BY <3>1, <3>2
      DEF Next, ingest, upsert_document_version, create_review_item, upsert_chunks,
        apply_action, get_review_item, mark_review_item_read, mark_review_item_commit,
        model_validate_raises, update_chunk_content, upsert_reviewed_chunk,
        upsert_reviewed_chunk_raises, ack_document, set_payload,
        list_approved_graph_chunks, build_from_chunks, ingestVars, vars
  <2>2. ASSUME NEW r \in Reviewers, review'[r] # None, review'[r].step = "upsert",
               NEW c \in Chunks, c = review'[r].payload.chunk_id
        PROVE  Ingested(c)'
    <3>1. ASSUME review'[r] = review[r] PROVE Ingested(c)
      BY <2>2, <3>1 DEF PointInv, NamedAreIngested
    <3>2. ASSUME review'[r] # review[r] PROVE Ingested(c)
      <4>1. c \in rows
        BY <1>1, <2>2, <3>2, ReviewSteps
      <4> QED
        BY <4>1 DEF PointInv, NamedAreIngested
    <3>3. Ingested(c)
      BY <3>1, <3>2
    <3> QED
      BY <1>1, <3>3, VersionsGrow
  <2>3. \A r \in Reviewers : review'[r] # None /\ review'[r].step = "upsert"
                             => review'[r].payload.chunk_id \in Chunks
    BY <1>1 DEF TypeInv
  <2> QED
    BY <2>1, <2>2, <2>3 DEF NamedAreIngested, Ingested
<1>4. PointsFollowVersions'
  <2> SUFFICES ASSUME NEW c \in Chunks, point'[c] # "none" \/ item'[c] # "none"
               PROVE  /\ Ingested(c)'
                      /\ c \in VersionChunks[version'] =>
                           stage' = "done" \/ item'[c] # "none" \/ Misnamed(c)'
    BY DEF PointsFollowVersions
  <2>1. CASE point[c] # "none" \/ item[c] # "none"
    <3>1. Ingested(c) /\ (c \in VersionChunks[version] =>
                            stage = "done" \/ item[c] # "none" \/ Misnamed(c))
      BY <2>1 DEF PointInv, PointsFollowVersions
    <3>2. Ingested(c)'
      BY <1>1, <3>1, VersionsGrow
    <3>5. Misnamed(c) => Misnamed(c)'
      BY <1>1, NamedStays
    <3>3. item[c] # "none" => item'[c] # "none"
      BY <1>1, ItemWriters, CommitWrites
      DEF create_review_item, ToReview, Decisions, TypeInv, ReviewTypeOK, Review
    <3>4. c \in VersionChunks[version'] => UNCHANGED version
      <4>1. PICK v \in Versions : c \in VersionChunks[v] /\ v <= version
        BY <3>1 DEF Ingested
      <4>2. version' = version + 1 /\ version' \in Versions => c \notin VersionChunks[version']
        BY <1>1, <4>1, TypeFacts, VersionsAssumption
      <4> QED
        BY <1>1, <4>2, VersionsGrow
    <3> QED
      BY <1>1, <3>1, <3>2, <3>3, <3>4, <3>5, VersionsGrow, TypeFacts
  <2>2. CASE point[c] = "none" /\ item[c] = "none" /\ point'[c] # point[c]
    <3>1. CASE upsert_chunks /\ c \in rows
      <4>1. Ingested(c)
        BY <3>1 DEF PointInv, NamedAreIngested
      <4> QED
        BY <1>1, <3>1, <4>1, VersionsGrow DEF upsert_chunks
    <3>2. ASSUME NEW r \in Reviewers, upsert_reviewed_chunk(r),
                 review[r].payload.chunk_id = c
          PROVE  Ingested(c)' /\ Misnamed(c)'
      <4>1. Ingested(c)
        BY <3>2 DEF PointInv, NamedAreIngested, upsert_reviewed_chunk
      <4>2. review[r].chunk # c
        BY <1>1, <2>2, <3>2 DEF TypeInv, upsert_reviewed_chunk
      <4> QED
        BY <1>1, <3>2, <4>1, <4>2, WriterNames, VersionsGrow, NamedStays
    <3> QED
      BY <1>1, <2>2, <3>1, <3>2, PointWriters
  <2>3. CASE item[c] = "none" /\ item'[c] # "none"
    <3>1. create_review_item(c)
      <4>1. ASSUME NEW r \in Reviewers, mark_review_item_commit(r), review[r].chunk = c
            PROVE  FALSE
        BY <1>1, <2>3, <4>1 DEF TypeInv, mark_review_item_commit
      <4> QED
        BY <1>1, <2>3, <4>1, ItemWriters
    <3>2. Ingested(c)
      BY <3>1 DEF create_review_item, ToReview, PointInv, NamedAreIngested
    <3> QED
      BY <1>1, <2>3, <3>2, VersionsGrow
  <2> QED
    BY <2>1, <2>2, <2>3
<1>5. ReviewsAreFirst'
  <2> SUFFICES ASSUME NEW r \in Reviewers, review'[r] # None,
                      review'[r].step \in {"content", "upsert"},
                      NEW c \in Chunks, c = review'[r].chunk
               PROVE  point'[c] = "none" \/ Misnamed(c)'
    <3>1. \A r \in Reviewers : review'[r] # None => review'[r].chunk \in Chunks
      BY <1>1, LowAssumption DEF TypeInv
    <3> QED
      BY <3>1 DEF ReviewsAreFirst, Misnamed, Accepted
  <2>1. CASE /\ review[r] # None /\ review[r].step \in {"content", "upsert"}
             /\ review[r].chunk = c
    <3>1. CASE Misnamed(c)
      BY <1>1, <3>1, NamedStays
    <3>2. CASE point[c] = "none"
      <4>1. item[c] # "none"
        BY <1>1, <2>1 DEF TypeInv
      <4>2. ASSUME NEW q \in Reviewers PROVE ~upsert_reviewed_chunk(q)
        <5>1. q = r
          BY DEF SerialReviews
        <5> QED
          BY <1>1, <5>1 DEF upsert_reviewed_chunk, ReviewEnds, TypeInv
      <4> QED
        BY <1>1, <3>2, <4>1, <4>2, PointWriters
    <3> QED
      BY <2>1, <3>1, <3>2 DEF PointInv, ReviewsAreFirst
  <2>2. CASE /\ review[r] # None /\ review[r].step = "mark" /\ review[r].chunk = c
             /\ mark_review_item_commit(r)
    <3>1. item[c] = "PENDING" /\ UNCHANGED point /\ c \in Low
      BY <1>1, <2>2, CommitWrites DEF GateInv, ReviewInv, TypeInv
    <3>2. CASE point[c] # "none"
      <4>1. PICK d \in Chunks : Accepted(d) /\ payload[d].chunk_id = c
        BY <1>1, <3>1, <3>2 DEF GateInv, OnlyAcceptedIsIndexed
      <4>2. Misnamed(c)
        BY <3>1, <4>1 DEF Accepted, Misnamed
      <4> QED
        BY <1>1, <4>2, NamedStays
    <3> QED
      BY <3>1, <3>2
  <2> QED
    BY <1>1, <2>1, <2>2, ReviewSteps
<1> QED
  BY <1>1, <1>2, <1>3, <1>4, <1>5 DEF PointInv

\* A published chunk is neither upserted again nor in review.
LEMMA PublishedStep ==
    ASSUME PointInv, [Next]_vars, NEW c \in Chunks, point[c] = "published", ~Misnamed(c)
    PROVE  point'[c] = "published"
<1>1. GateInv /\ TypeInv
  BY DEF PointInv, GateInv
<1>2. ~(upsert_chunks /\ c \in rows /\ item[c] = "none")
  BY DEF PointInv, PointsFollowVersions, RowsFollowVersions, upsert_chunks
<1>3. ASSUME NEW r \in Reviewers, upsert_reviewed_chunk(r), review[r].payload.chunk_id = c
      PROVE  FALSE
  <2>1. review[r].chunk = c
    BY <1>1, <1>3, WriterNames
  <2> QED
    BY <1>3, <2>1 DEF PointInv, ReviewsAreFirst, upsert_reviewed_chunk
<1> QED
  BY <1>1, <1>2, <1>3, PointWriters

\* With reviews served one at a time, what an ack has published is never
\* written over with an unpublished point, by an ingestion or by the chunk's own
\* review, whatever its payload says (_commit_reviewed_item, upsert_chunks).
THEOREM PublishedForGood == SerialReviews => (Spec => PublishedStays)
<1> SUFFICES ASSUME SerialReviews PROVE Spec => PublishedStays
  OBVIOUS
<1>1. PointInv /\ [Next]_vars => PointInv'
  BY PointStep
<1>2. PointInv /\ [Next]_vars
      => [\A c \in Chunks : point[c] = "published" /\ ~Misnamed(c)
            => point'[c] = "published"]_vars
  BY PublishedStep
<1> QED
  BY <1>1, <1>2, PointInit, PTL DEF Spec, PublishedStays

-----------------------------------------------------------------------------
(***************************************************************************)
(* What holds however many review actions run at one time: a decision may  *)
(* then be replaced, but no item appears on a chunk that needs none, and   *)
(* no accepted chunk is lost on the way to Qdrant unless its version was   *)
(* replaced or a call failed.                                              *)
(***************************************************************************)

\* An item is of a version whose chunk rows have been written.
ItemsFollowVersions ==
    \A c \in Chunks : item[c] # "none" =>
        \E v \in Versions :
            /\ c \in VersionChunks[v]
            /\ v <= version
            /\ v = version => stage # "chunk"

\* The chunk's version has been replaced, so it never has a row again.
Replaced(c) == c \notin rows /\ \E v \in Versions : c \in VersionChunks[v] /\ v < version

\* A review that has accepted the chunk is taking it to Qdrant.
Underway(c) == \E r \in Reviewers :
    /\ review[r] # None
    /\ review[r].chunk = c /\ review[r].payload.chunk_id = c
    /\ review[r].step \in {"content", "upsert"}

\* A chunk that its own item has accepted.
OwnAccepted(c) == Accepted(c) /\ payload[c].chunk_id = c

\* An accepted chunk without a point is still on its way, or was replaced.
AcceptedArrives ==
    \A c \in Chunks \ Fragile :
        OwnAccepted(c) /\ point[c] = "none" => Underway(c) \/ Replaced(c)

\* Once a version is ingested, each of its low-confidence chunks has an item.
DoneHasItems == stage = "done" => \A c \in rows \cap Low : item[c] # "none"

ArrivalInv ==
    /\ TypeInv
    /\ RowsFollowVersions
    /\ ItemsFollowVersions
    /\ AcceptedArrives
    /\ DoneHasItems

\* The first state is typed, and nothing has been accepted.
LEMMA ArrivalInit == Init => ArrivalInv
<1> SUFFICES ASSUME Init PROVE ArrivalInv
  OBVIOUS
<1>2. TypeInv
  BY TypeInit
<1>3. RowsFollowVersions /\ ItemsFollowVersions /\ AcceptedArrives /\ DoneHasItems
  BY DEF Init, RowsFollowVersions, ItemsFollowVersions, AcceptedArrives, OwnAccepted, Accepted,
    DoneHasItems
<1> QED
  BY <1>2, <1>3 DEF ArrivalInv

\* The ingestion of a version replaces only chunks of earlier ones.
LEMMA IngestArrives == ArrivalInv /\ ingest => ArrivalInv'
<1> SUFFICES ASSUME ArrivalInv, ingest PROVE ArrivalInv'
  OBVIOUS
<1> USE DEF ArrivalInv, ackVars, graphVars, ingestVars, itemVars, OwnAccepted, Accepted
<1>1. TypeInv'
  BY TypeStep DEF Next
<1>2. /\ version \in Versions /\ version \in Nat
      /\ \A v \in Versions : v \in Nat
      /\ item \in [Chunks -> Decisions \cup {"none", "PENDING"}]
      /\ rows \subseteq Chunks
  BY VersionsAssumption DEF TypeInv, ReviewTypeOK, Versions, Chunks
<1>3. CASE upsert_document_version
  <2>1. /\ version' = version + 1 /\ stage' = "chunk"
        /\ UNCHANGED <<rows, itemVars, point, review>>
    BY <1>3 DEF upsert_document_version
  <2>2. ItemsFollowVersions'
    BY <1>2, <2>1 DEF ItemsFollowVersions
  <2>3. \A c \in Chunks : Replaced(c) => Replaced(c)'
    <3>1. \A v \in Versions : v < version => v < version'
      BY <1>2, <2>1
    <3> QED
      BY <2>1, <3>1 DEF Replaced
  <2>4. AcceptedArrives'
    BY <2>1, <2>3 DEF AcceptedArrives, Underway
  <2> QED
    BY <1>1, <2>1, <2>2, <2>4 DEF RowsFollowVersions, DoneHasItems
<1>4. CASE replace_chunks
  <2>1. /\ rows' = VersionChunks[version] /\ stage' = "review"
        /\ UNCHANGED <<version, itemVars, point, review>>
    BY <1>4 DEF replace_chunks
  <2>2. \A c \in Chunks : Replaced(c) => Replaced(c)'
    BY <1>2, <2>1, VersionsAssumption DEF Replaced
  <2>3. AcceptedArrives'
    BY <2>1, <2>2 DEF AcceptedArrives, Underway
  <2>4. ItemsFollowVersions'
    BY <2>1 DEF ItemsFollowVersions
  <2> QED
    BY <1>1, <2>1, <2>3, <2>4 DEF RowsFollowVersions, DoneHasItems
<1>5. ASSUME NEW c \in Chunks, create_review_item(c) PROVE ArrivalInv'
  <2>1. /\ c \in rows /\ stage = "review" /\ item[c] = "none"
        /\ UNCHANGED <<version, stage, rows, payload, point, review>>
        /\ \A d \in Chunks : item'[d] = IF d = c THEN "PENDING" ELSE item[d]
    BY <1>2, <1>5 DEF create_review_item, ToReview
  <2>2. ItemsFollowVersions'
    BY <1>2, <2>1 DEF ItemsFollowVersions, RowsFollowVersions
  <2>3. AcceptedArrives'
    BY <2>1 DEF AcceptedArrives, Underway, Replaced
  <2> QED
    BY <1>1, <2>1, <2>2, <2>3 DEF RowsFollowVersions, DoneHasItems
<1>6. CASE upsert_chunks
  <2>1. /\ stage = "review" /\ stage' = "done" /\ ToReview = {}
        /\ UNCHANGED <<version, rows, itemVars, review>>
        /\ \A c \in Chunks : point'[c] = "none" => point[c] = "none"
    BY <1>6 DEF upsert_chunks
  <2>2. AcceptedArrives'
    BY <2>1 DEF AcceptedArrives, Underway, Replaced
  <2>3. DoneHasItems'
    BY <2>1 DEF DoneHasItems, ToReview
  <2> QED
    BY <1>1, <2>1, <2>2, <2>3 DEF RowsFollowVersions, ItemsFollowVersions
<1> QED
  BY <1>3, <1>4, <1>5, <1>6 DEF ingest

\* A step that takes no item, no point and no reviewer away from an accepted
\* chunk, and accepts none, keeps it on its way.
LEMMA ArrivalKept ==
    ASSUME ArrivalInv, UNCHANGED ingestVars,
           \A c \in Chunks : OwnAccepted(c)' => OwnAccepted(c),
           \A c \in Chunks : point'[c] = "none" => point[c] = "none",
           \A r \in Reviewers : review[r] # None /\ review[r].step \in {"content", "upsert"}
                                => review'[r] = review[r]
    PROVE  AcceptedArrives'
BY DEF ArrivalInv, AcceptedArrives, Underway, Replaced, ingestVars

\* A step that leaves ingestion alone and takes no item away keeps the rest.
LEMMA ItemsKept ==
    ASSUME ArrivalInv, UNCHANGED ingestVars,
           \A c \in Chunks : item'[c] = "none" <=> item[c] = "none"
    PROVE  RowsFollowVersions' /\ ItemsFollowVersions' /\ DoneHasItems'
BY LowAssumption
DEF ArrivalInv, RowsFollowVersions, ItemsFollowVersions, DoneHasItems, ingestVars

\* A review brings its accepted chunk to Qdrant, unless the version has been
\* replaced or a call fails; and it takes nobody else's chunk from the way.
LEMMA ReviewArrives ==
    ASSUME ArrivalInv, NEW r \in Reviewers, apply_action(r)
    PROVE  ArrivalInv'
<1> DEFINE Others == \A q \in Reviewers \ {r} : review'[q] = review[q]
           Here == review[r] # None /\ review[r].step \in {"content", "upsert"}
<1>1. /\ item \in [Chunks -> Decisions \cup {"none", "PENDING"}]
      /\ point \in [Chunks -> {"none", "hidden", "published"}]
      /\ review \in [Reviewers -> Review \cup {None}] /\ TypeInv
      /\ review[r] # None => /\ review[r].chunk \in Chunks
                             /\ item[review[r].chunk] # "none"
  BY LowAssumption DEF ArrivalInv, TypeInv, ReviewTypeOK
<1>2. TypeInv' /\ UNCHANGED ingestVars
  BY <1>1, TypeStep
  DEF Next, apply_action, get_review_item, mark_review_item_read, mark_review_item_commit,
      model_validate_raises, update_chunk_content, upsert_reviewed_chunk,
      upsert_reviewed_chunk_raises
<1>3. \A d \in Chunks : item'[d] = "none" <=> item[d] = "none"
  BY <1>1
  DEF apply_action, get_review_item, mark_review_item_read, mark_review_item_commit,
      model_validate_raises, update_chunk_content, upsert_reviewed_chunk,
      upsert_reviewed_chunk_raises, Review, Decisions, itemVars
<1>4. RowsFollowVersions' /\ ItemsFollowVersions' /\ DoneHasItems'
  BY <1>2, <1>3, ItemsKept
<1> SUFFICES AcceptedArrives'
  BY <1>2, <1>4 DEF ArrivalInv
<1>5. Others
  BY <1>1
  DEF apply_action, get_review_item, mark_review_item_read, mark_review_item_commit,
      model_validate_raises, update_chunk_content, upsert_reviewed_chunk,
      upsert_reviewed_chunk_raises, ReviewGoes, ReviewEnds
<1>6. CASE \/ \E d \in Chunks, decision \in Decisions : get_review_item(r, d, decision)
           \/ mark_review_item_read(r)
  <2>1. ~Here /\ UNCHANGED <<item, payload, point>>
    BY <1>6 DEF get_review_item, mark_review_item_read, itemVars
  <2> QED
    BY <1>2, <1>5, <2>1, ArrivalKept DEF OwnAccepted, Accepted
<1>7. CASE mark_review_item_commit(r)
  <2>0. PICK c \in Chunks : c = review[r].chunk
    BY <1>1, <1>7, CommitWrites
  <2>1. /\ item'[c] = review[r].decision
        /\ \A d \in Chunks \ {c} : item'[d] = item[d] /\ payload'[d] = payload[d]
        /\ UNCHANGED point
        /\ \/ payload'[c] = review[r].payload
           \/ review[r].payload = Stored(c) /\ payload'[c] = payload[c]
    BY <1>1, <1>7, <2>0, CommitWrites
  <2>4. ~Here
    BY <1>7 DEF mark_review_item_commit
  <2>2. CASE OwnAccepted(c)'
    <3>1. review[r].payload.chunk_id = c
      BY <2>1, <2>2 DEF OwnAccepted, Stored
    <3>2. review[r].decision \in Committed
      BY <2>1, <2>2 DEF OwnAccepted, Accepted, Committed
    <3>3. /\ review'[r] # None /\ review'[r].chunk = c
          /\ review'[r].payload = review[r].payload /\ review'[r].step = "content"
      BY <1>1, <1>7, <2>0, <3>2, NoneAssumption
      DEF mark_review_item_commit, ReviewGoes, ReviewEnds, Review
    <3>4. Underway(c)'
      BY <3>1, <3>3 DEF Underway
    <3> QED
      BY <1>2, <1>5, <2>1, <2>4, <3>4
      DEF ArrivalInv, AcceptedArrives, OwnAccepted, Accepted, Underway, Replaced, ingestVars
  <2>3. CASE ~OwnAccepted(c)'
    BY <1>2, <1>5, <2>1, <2>3, <2>4, ArrivalKept DEF OwnAccepted, Accepted
  <2> QED
    BY <2>2, <2>3
<1>8. CASE model_validate_raises(r) \/ upsert_reviewed_chunk_raises(r)
  <2>1. /\ UNCHANGED <<item, payload, point>>
        /\ review[r].payload.chunk_id = None \/ review[r].chunk \in Fragile
    BY <1>8 DEF model_validate_raises, upsert_reviewed_chunk_raises, itemVars
  <2> QED
    BY <1>2, <1>5, <2>1, NoneAssumption
    DEF ArrivalInv, AcceptedArrives, OwnAccepted, Accepted, Underway, Replaced, ingestVars
<1>9. CASE update_chunk_content(r)
  <2>1. /\ UNCHANGED <<item, payload, point>> /\ review[r] # None
        /\ review[r].step = "content"
    BY <1>9 DEF update_chunk_content, itemVars
  <2>2. PICK c \in Chunks : c = review[r].chunk
    BY <1>1, <2>1
  <2>3. CASE review[r].payload.chunk_id = c /\ c \in rows
    <3>1. /\ review'[r] # None /\ review'[r].chunk = c
          /\ review'[r].payload = review[r].payload /\ review'[r].step = "upsert"
      BY <1>1, <1>9, <2>1, <2>2, <2>3, NoneAssumption
      DEF update_chunk_content, ReviewGoes, ReviewEnds, Review
    <3> QED
      BY <1>2, <1>5, <2>1, <2>2, <2>3, <3>1
      DEF ArrivalInv, AcceptedArrives, OwnAccepted, Accepted, Underway, Replaced, ingestVars
  <2>4. CASE c \notin rows
    <3>1. PICK v \in Versions : c \in VersionChunks[v] /\ v <= version
                                /\ (v = version => stage # "chunk")
      BY <1>1, <2>1, <2>2 DEF ArrivalInv, ItemsFollowVersions
    <3>2. v # version
      BY <2>4, <3>1 DEF ArrivalInv, RowsFollowVersions
    <3>3. v \in Nat /\ version \in Nat
      BY <1>1, TypeFacts
    <3>4. Replaced(c)
      BY <2>4, <3>1, <3>2, <3>3 DEF Replaced
    <3> QED
      BY <1>2, <1>5, <2>1, <2>2, <3>4
      DEF ArrivalInv, AcceptedArrives, OwnAccepted, Accepted, Underway, Replaced, ingestVars
  <2>5. CASE review[r].payload.chunk_id # c
    BY <1>2, <1>5, <2>1, <2>2, <2>5
    DEF ArrivalInv, AcceptedArrives, OwnAccepted, Accepted, Underway, Replaced, ingestVars
  <2> QED
    BY <2>3, <2>4, <2>5
<1>10. CASE upsert_reviewed_chunk(r)
  <2>1. PICK c \in Chunks : c = review[r].payload.chunk_id
    BY <1>1, <1>10 DEF TypeInv, upsert_reviewed_chunk
  <2>2. /\ UNCHANGED <<item, payload>>
        /\ point'[c] # "none"
        /\ \A d \in Chunks \ {c} : point'[d] = point[d]
    BY <1>1, <1>10, <2>1 DEF upsert_reviewed_chunk, Visibility, itemVars
  <2> QED
    BY <1>2, <1>5, <2>1, <2>2
    DEF ArrivalInv, AcceptedArrives, OwnAccepted, Accepted, Underway, Replaced, ingestVars
<1> QED
  BY <1>6, <1>7, <1>8, <1>9, <1>10 DEF apply_action

\* Every step keeps accepted chunks on their way.
LEMMA ArrivalStep == ArrivalInv /\ [Next]_vars => ArrivalInv'
<1> SUFFICES ASSUME ArrivalInv, [Next]_vars PROVE ArrivalInv'
  OBVIOUS
<1>1. TypeInv'
  BY TypeStep DEF ArrivalInv
<1>2. ASSUME UNCHANGED <<ingestVars, itemVars, review>>,
             \A c \in Chunks : point'[c] = "none" => point[c] = "none"
      PROVE  ArrivalInv'
  BY <1>1, <1>2, ArrivalKept, ItemsKept DEF ArrivalInv, itemVars, OwnAccepted, Accepted
<1>3. CASE set_payload
  BY <1>2, <1>3 DEF set_payload
<1>4. CASE ack_document \/ list_approved_graph_chunks \/ build_from_chunks
  BY <1>2, <1>4 DEF ack_document, list_approved_graph_chunks, build_from_chunks
<1>5. CASE UNCHANGED vars
  BY <1>2, <1>5 DEF vars
<1> QED
  BY <1>3, <1>4, <1>5, IngestArrives, ReviewArrives DEF Next

\* The reasons why an accepted chunk may lack a point are all accounted for.
LEMMA ArrivalInvariant == Spec => []ArrivalInv
  BY ArrivalInit, ArrivalStep, PTL DEF Spec

\* At rest a chunk of the current version whose accepted item names it has a
\* point, unless embedding or Qdrant failed on it: however many review actions
\* run and whatever they modify, replacing the version under a review loses none
\* that still counts (update_chunk_content's "chunk not found").
THEOREM AcceptedIsIndexed == Spec => []SturdyIsIndexed
<1>1. ArrivalInv => SturdyIsIndexed
  <2> SUFFICES ASSUME ArrivalInv, Quiet, NEW c \in rows \ Fragile, OwnAccepted(c)
               PROVE  point[c] # "none"
    BY DEF SturdyIsIndexed, OwnAccepted
  <2>1. c \in Chunks
    BY TypeFacts DEF ArrivalInv
  <2> QED
    BY <2>1 DEF ArrivalInv, AcceptedArrives, Underway, Quiet, Replaced
<1> QED
  BY <1>1, ArrivalInvariant, PTL

\* A build that lists chunks while no version is being ingested lists, of those
\* that need a review, only accepted ones (list_approved_graph_chunks).
THEOREM BuildsAreReviewed == Spec => BuildsTakeReviewed
<1>1. ASSUME ArrivalInv, [Next]_vars, building = None, stage = "done", NEW c \in Low,
             building' # None, c \in building'
      PROVE  Accepted(c)
  <2>1. list_approved_graph_chunks
    BY <1>1
    DEF Next, ingest, upsert_document_version, replace_chunks, create_review_item,
        upsert_chunks, apply_action, get_review_item, mark_review_item_read,
        mark_review_item_commit, model_validate_raises, update_chunk_content,
        upsert_reviewed_chunk, upsert_reviewed_chunk_raises, ack_document, set_payload, build_from_chunks,
        graphVars, vars
  <2>2. c \in rows /\ item[c] \notin {"PENDING", "REJECTED"}
    BY <1>1, <2>1 DEF list_approved_graph_chunks
  <2>3. item[c] # "none"
    BY <1>1, <2>2 DEF ArrivalInv, DoneHasItems
  <2> QED
    BY <1>1, <2>2, <2>3, LowAssumption
    DEF ArrivalInv, TypeInv, ReviewTypeOK, Accepted, Decisions
<1>2. ArrivalInv /\ [Next]_vars =>
        [building = None /\ stage = "done"
         => \A c \in Low : building' # None /\ c \in building' => Accepted(c)]_vars
  BY <1>1
<1> QED
  BY <1>2, ArrivalInvariant, PTL DEF Spec, BuildsTakeReviewed
=============================================================================
