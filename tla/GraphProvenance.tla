--------------------------- MODULE GraphProvenance ---------------------------
(***************************************************************************)
(* The graph repository (SQLAlchemyGraphRepository) under graph builds that*)
(* POST /api/v1/graph/build may serve at one time.  Every upsert is a      *)
(* transaction of its own, which selects the row without a lock and then   *)
(* inserts it or updates the columns that have changed; entities and       *)
(* relationships have a unique constraint, hyperedges have none.           *)
(*                                                                         *)
(* What SQLAlchemy takes for a change matters: merge_provenance appends to *)
(* the list it has loaded, so that the old value and the new are equal.    *)
(***************************************************************************)
EXTENDS GraphPlan

CONSTANTS
    Builds,     \* build requests that the API may be serving at one time
    MaxBuilds,  \* bound: number of builds started
    Limit,      \* the number of chunks a build takes
    None        \* no build being served; no row found

\* Every upsert that a build can come to make.
AllUpserts == UNION {Range(build_from_chunks(Oldest(S, Limit))) : S \in SUBSET Chunks}

ASSUME BoundsAssumption == MaxBuilds \in Nat /\ Limit \in Nat \ {0}

VARIABLES
    approved,   \* the chunks with neither a pending nor a rejected review item
    graph,      \* the rows of each key
    build,      \* what each build is doing
    started,    \* the number of builds started
    upserted,   \* auxiliary: by key, the chunks it was upserted for, in order
    raced,      \* auxiliary: keys written over a row that changed since read
    built       \* auxiliary: the chunks of the builds that have returned

auxVars == <<upserted, raced, built>>
vars    == <<approved, graph, build, started, auxVars>>

Row == [confidence : 0..Full,
        provenance : [chunk_id : Seq(Chunks), document_id : Seq(DOMAIN Wikilinks)]]

\* What a build has left to do, and how far the next upsert is: the row that it
\* has selected for update, and its position among those of the key.
Build == [list : Seq(Chunks), todo : Seq(AllUpserts), step : {"select", "insert", "update"},
          at : Nat, row : Row \cup {None}]

ASSUME NoneAssumption == None \notin Build \cup Row

Rows(k) == IF k \in DOMAIN graph THEN graph[k] ELSE << >>

Init ==
    /\ approved = {}
    /\ graph = << >>
    /\ build = [b \in Builds |-> None]
    /\ started = 0
    /\ upserted = << >>
    /\ raced = {}
    /\ built = {}

-----------------------------------------------------------------------------
(* Provenance.                                                             *)

\* Mutant: the value is appended whether it is there or not.
Merge_Unchecked(values, v) == Append(values, v)

\* A value is a scalar, or a list from the second value on.
Merge(values, v) == IF v \in Range(values) THEN values ELSE Append(values, v)

\* Mutant: the document is recorded once and for all.
merge_provenance_OneDocument(old, c) ==
    [old EXCEPT !.chunk_id = Merge(old.chunk_id, c)]

merge_provenance(old, c) ==
    [chunk_id |-> Merge(old.chunk_id, c), document_id |-> Merge(old.document_id, Doc(c))]

\* Mutant: only a new document is a change.
Changed_Document(old, new) ==
    Len(old.document_id) = 1 /\ new.document_id # old.document_id

\* A scalar that became a list differs from what was loaded; a list that grew
\* in place does not.
Changed(old, new) ==
    \E field \in DOMAIN old : Len(old[field]) = 1 /\ new[field] # old[field]

NewRow(u) ==
    [confidence |-> u.confidence,
     provenance |-> [chunk_id |-> << u.chunk >>, document_id |-> << Doc(u.chunk) >>]]

\* Mutant: the candidate's confidence replaces the row's.
Updated_Confidence(now, read, u) ==
    LET merged == merge_provenance(read.provenance, u.chunk)
    IN  [confidence |-> u.confidence,
         provenance |-> IF Changed(read.provenance, merged) THEN merged ELSE now.provenance]

\* The row as it is now, with the columns that differ from those read.
Updated(now, read, u) ==
    LET merged == merge_provenance(read.provenance, u.chunk)
    IN  [confidence |-> IF u.confidence > read.confidence THEN u.confidence
                        ELSE now.confidence,
         provenance |-> IF Changed(read.provenance, merged) THEN merged
                        ELSE now.provenance]

-----------------------------------------------------------------------------
(* A build.                                                                *)

\* A reviewer accepts a chunk, or it was stored with no need for review.
approve(c) ==
    /\ c \notin approved
    /\ approved' = approved \cup {c}
    /\ UNCHANGED <<graph, build, started, auxVars>>

build_graph(b) ==
    /\ build[b] = None
    /\ started < MaxBuilds
    /\ started' = started + 1
    /\ LET list == Oldest(approved, Limit)
       IN  build' = [build EXCEPT ![b] = [list |-> list, todo |-> build_from_chunks(list),
                                          step |-> "select", at |-> 0, row |-> None]]
    /\ UNCHANGED <<approved, graph, auxVars>>

Upserting(b, step) == build[b] # None /\ build[b].todo # << >> /\ build[b].step = step

\* The upsert that a build is at.
Current(b) == Head(build[b].todo)

\* scalar_one_or_none, or LIMIT 1 for a hyperedge.
upsert_select(b) ==
    /\ Upserting(b, "select")
    /\ LET rows == Rows(Current(b).key)
       IN  \/ /\ rows = << >>
              /\ build' = [build EXCEPT ![b].step = "insert"]
           \/ \E i \in DOMAIN rows :
                 build' = [build EXCEPT ![b].step = "update", ![b].at = i, ![b].row = rows[i]]
    /\ UNCHANGED <<approved, graph, started, auxVars>>

\* The unique constraints, and the primary key of the hyperedge's members.
Refused(u) ==
    \/ u.key[1] # "hyperedge" /\ Rows(u.key) # << >>
    \/ u.repeats

Store(k, rows) == graph' = [x \in DOMAIN graph \cup {k} |-> IF x = k THEN rows ELSE graph[x]]

\* The transaction commits and the build goes on.
Upserted(b, fresh) ==
    LET u    == Current(b)
        past == IF u.key \in DOMAIN upserted THEN upserted[u.key] ELSE << >>
    IN  /\ build' = [build EXCEPT ![b].todo = Tail(@), ![b].step = "select",
                                  ![b].at = 0, ![b].row = None]
        /\ upserted' = [x \in DOMAIN upserted \cup {u.key} |->
                          IF x = u.key THEN Merge(past, u.chunk) ELSE upserted[x]]
        /\ raced' = IF fresh THEN raced ELSE raced \cup {u.key}
        /\ UNCHANGED <<approved, started, built>>

upsert_insert(b) ==
    /\ Upserting(b, "insert")
    /\ LET u == Current(b)
       IN  /\ ~Refused(u)
           /\ Store(u.key, Append(Rows(u.key), NewRow(u)))
           /\ Upserted(b, Rows(u.key) = << >>)

upsert_update(b) ==
    /\ Upserting(b, "update")
    /\ LET u    == Current(b)
           now  == Rows(u.key)[build[b].at]
           read == build[b].row
       IN  /\ Store(u.key, [Rows(u.key) EXCEPT ![build[b].at] = Updated(now, read, u)])
           /\ Upserted(b, now = read)

\* An insert that is refused, or any other failure; the upserts made remain.
build_graph_raises(b) ==
    /\ build[b] # None /\ build[b].todo # << >>
    /\ build' = [build EXCEPT ![b] = None]
    /\ UNCHANGED <<approved, graph, started, auxVars>>

build_graph_returns(b) ==
    /\ build[b] # None /\ build[b].todo = << >>
    /\ build' = [build EXCEPT ![b] = None]
    /\ built' = built \cup Range(build[b].list)
    /\ UNCHANGED <<approved, graph, started, upserted, raced>>

Next ==
    \/ \E c \in Chunks : approve(c)
    \/ \E b \in Builds :
          \/ build_graph(b) \/ build_graph_returns(b) \/ build_graph_raises(b)
          \/ upsert_select(b) \/ upsert_insert(b) \/ upsert_update(b)

Spec == Init /\ [][Next]_vars

-----------------------------------------------------------------------------
(* Properties.                                                             *)

\* Type invariant.  A provenance list names nothing twice and is never empty,
\* and only hyperedges may have several rows.
GraphTypeOK ==
    /\ approved \subseteq Chunks
    /\ \A k \in DOMAIN graph :
         /\ graph[k] \in Seq(Row) /\ graph[k] # << >>
         /\ k[1] # "hyperedge" => Len(graph[k]) = 1
         /\ \A row \in Range(graph[k]) : \A field \in DOMAIN row.provenance :
              row.provenance[field] # << >> /\ IsInjective(row.provenance[field])
    /\ build \in [Builds -> Build \cup {None}]
    /\ started \in 0..MaxBuilds
    /\ DOMAIN upserted = DOMAIN graph
    /\ raced \subseteq DOMAIN graph
    /\ built \subseteq Chunks

\* graph_for_chunk: the keys of the rows whose provenance has the chunk.
graph_for_chunk(c) ==
    {k \in DOMAIN graph : \E row \in Range(graph[k]) : c \in Range(row.provenance.chunk_id)}

\* The documents that a row records are those of the chunks it records, also
\* when builds overwrite each other: the column is written as a whole.
ProvenanceConsistent ==
    \A k \in DOMAIN graph : \A row \in Range(graph[k]) :
        Range(row.provenance.document_id) = {Doc(c) : c \in Range(row.provenance.chunk_id)}

Names(c) == {e.name : e \in Range(Corpus[c].entities)}

\* Once a build has returned, whatever others did or failed to do meanwhile,
\* the graph has an entity for each name in its chunks, an edge for each
\* relationship between two of them, and the documents' links.
BuiltIsThere ==
    \A c \in built :
        /\ \A name \in Names(c) : \E k \in DOMAIN graph : k[1] = "entity" /\ k[2] = name
        /\ \A r \in Range(Corpus[c].relationships) :
             {r.source, r.target} \subseteq Names(c) =>
               \E k \in DOMAIN graph :
                  k[1] = "edge" /\ << r.source, r.target, r.type >> = << k[2][2], k[3][2], k[4] >>
        /\ \A t \in Range(Wikilinks[Doc(c)]) :
             Edge(Title(Doc(c)), Title(t), "LINKS_TO") \in DOMAIN graph

\* Unless builds raced, an entity or edge is found by the first two chunks it
\* was upserted for.
EarlyChunksFound ==
    \A k \in DOMAIN graph \ raced : \A i \in DOMAIN upserted[k] :
        i <= 2 => k \in graph_for_chunk(upserted[k][i])

\* README.md: the builder "merges duplicates, stores confidence/provenance, and
\* supports chunk-level graph lookup": by every chunk that was merged.  This does
\* not hold: from the third chunk of a document on none is recorded.
EveryChunkFound ==
    \A k \in DOMAIN graph \ raced : \A i \in DOMAIN upserted[k] :
        k \in graph_for_chunk(upserted[k][i])

Grows(old, new) ==
    /\ new.confidence >= old.confidence
    /\ \A field \in DOMAIN old.provenance :
          Range(old.provenance[field]) \subseteq Range(new.provenance[field])

\* Only a write over a row that another build has changed since it was read may
\* lower a confidence or take a chunk or document from a row's provenance.
OnlyRacesForget ==
    [][\A k \in DOMAIN graph \ raced' :
         /\ k \in DOMAIN graph'
         /\ \A i \in DOMAIN graph[k] : Grows(graph[k][i], graph'[k][i])]_vars
=============================================================================
