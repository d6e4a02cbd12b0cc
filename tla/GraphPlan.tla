------------------------------ MODULE GraphPlan ------------------------------
(***************************************************************************)
(* What GraphBuilder.build_from_chunks writes for a list of chunks: the    *)
(* sequence of its upserts, which does not depend on what the graph holds. *)
(* Entity candidates are merged per chunk (EntityMerger), relationships    *)
(* and hyperedges are resolved against the entities of the build so far,   *)
(* and wikilinks become entities and edges between documents.              *)
(*                                                                         *)
(* A chunk is its position in the order of chunks.created_at.  Names stand *)
(* for normalized names, confidences are ranked by natural numbers, and    *)
(* what the extractors find in a chunk is given with it.                   *)
(***************************************************************************)
EXTENDS Naturals, Sequences, FiniteSets, SequencesExt

CONSTANTS
    Corpus,     \* the chunks: document, confidence and extracted candidates
    Wikilinks,  \* documents.wikilinks, the titles a document links to
    Full        \* confidence 1.0

Chunks == DOMAIN Corpus
Doc(c) == Corpus[c].document

IsSequence(s) == s \in Seq(Range(s))

\* The contracts bound every confidence; a chunk's document is there.
ASSUME CorpusAssumption ==
    /\ IsSequence(Corpus) /\ Full \in Nat
    /\ \A c \in Chunks :
         /\ Doc(c) \in DOMAIN Wikilinks /\ IsSequence(Wikilinks[Doc(c)])
         /\ Corpus[c].confidence \in 0..Full
         /\ \A found \in {Corpus[c].entities, Corpus[c].relationships, Corpus[c].hyperedges} :
              IsSequence(found) /\ \A x \in Range(found) : x.confidence \in 0..Full
         /\ \A h \in Range(Corpus[c].hyperedges) : IsSequence(h.names)

\* The identities of rows: name and type; both ends and type; members and type.
Entity(name, type)         == <<"entity", name, type>>
Edge(source, target, type) == <<"edge", source, target, type>>
Hyperedge(members, type)   == <<"hyperedge", members, type>>

Title(name) == Entity(name, "DOCUMENT")

\* One call of an upsert method, for a chunk; repeats: two entity_records of a
\* hyperedge are the same.
Upsert(key, confidence, c) ==
    [key |-> key, confidence |-> confidence, chunk |-> c, repeats |-> FALSE]

Keys(upserts) == [i \in DOMAIN upserts |-> upserts[i].key]

\* The sequences f of every element of s, one after another.
FlatMap(s, f(_)) == FlattenSeq([i \in DOMAIN s |-> f(s[i])])

\* The elements of s at a set of positions, in their order.
Selected(s, positions) ==
    LET nth(n) == CHOOSE i \in positions : Cardinality({j \in positions : j <= i}) = n
    IN  [n \in 1..Cardinality(positions) |-> s[nth(n)]]

-----------------------------------------------------------------------------
(* EntityMerger.                                                           *)

\* max(group, key=confidence): the first of the most confident ones.
Dominant(candidates, group) ==
    candidates[Min({i \in group :
      \A j \in group : candidates[j].confidence <= candidates[i].confidence})]

\* One candidate for each name, in the order of their first occurrence.
merge(candidates) ==
    LET group(i) == {j \in DOMAIN candidates : candidates[j].name = candidates[i].name}
        firsts   == {i \in DOMAIN candidates : i = Min(group(i))}
    IN  Selected([i \in DOMAIN candidates |-> Dominant(candidates, group(i))], firsts)

EntityUpserts(c) ==
    LET merged == merge(Corpus[c].entities)
    IN  [i \in DOMAIN merged |->
           Upsert(Entity(merged[i].name, merged[i].type), merged[i].confidence, c)]

-----------------------------------------------------------------------------
(* Resolving names.  seen is the sequence of entity keys upserted so far.  *)

Occurrences(seen, name) == {i \in DOMAIN seen : seen[i][2] = name}

\* entities_by_norm_name: the last entity of that name, whatever its type.
ByName(seen, name) == seen[Max(Occurrences(seen, name))]

\* Type TERM goes before any other.
Resolve(seen, name) ==
    IF Contains(seen, Entity(name, "TERM")) THEN Entity(name, "TERM") ELSE ByName(seen, name)

\* Mutant: only entities of type TERM are looked up.
Resolves_TermOnly(seen, r) ==
    \A name \in {r.source, r.target} : Contains(seen, Entity(name, "TERM"))

\* Both ends of a relationship are known.
Resolves(seen, r) == \A name \in {r.source, r.target} : Occurrences(seen, name) # {}

RelationshipUpserts(c, seen) ==
    LET rels      == Corpus[c].relationships
        resolved  == Selected(rels, {i \in DOMAIN rels : Resolves(seen, rels[i])})
        upsert(r) == Upsert(Edge(Resolve(seen, r.source), Resolve(seen, r.target), r.type),
                            r.confidence, c)
    IN  [i \in DOMAIN resolved |-> upsert(resolved[i])]

\* The entities of the chunks in a list up to the i-th.
Seen(list, i) == Keys(FlatMap(SubSeq(list, 1, i), EntityUpserts))

\* A hyperedge needs two different members that this build has seen.
HyperedgeUpserts(c, seen) ==
    LET hypers     == Corpus[c].hyperedges
        records(h) == {i \in DOMAIN h.names : Occurrences(seen, h.names[i]) # {}}
        members(h) == {ByName(seen, h.names[i]) : i \in records(h)}
        kept       == Selected(hypers,
                               {i \in DOMAIN hypers : Cardinality(members(hypers[i])) >= 2})
        upsert(h)  == [Upsert(Hyperedge(members(h), h.type), h.confidence, c)
                         EXCEPT !.repeats = Cardinality(records(h)) > Cardinality(members(h))]
    IN  [i \in DOMAIN kept |-> upsert(kept[i])]

-----------------------------------------------------------------------------
(* Wikilinks.                                                              *)

\* Both documents and the link, for each wikilink of c's document.
LinksOf(c, confidence) ==
    FlatMap(Wikilinks[Doc(c)],
            LAMBDA title :
              << Upsert(Title(Doc(c)), confidence, c),
                 Upsert(Title(title), confidence, c),
                 Upsert(Edge(Title(Doc(c)), Title(title), "LINKS_TO"), confidence, c) >>)

\* The first chunk of each document in the list.
Representatives(list) ==
    Selected(list, {i \in DOMAIN list : \A j \in 1..(i - 1) : Doc(list[j]) # Doc(list[i])})

\* Links of every chunk, then of every document with full confidence; a
\* document entity is upserted only where the build first meets it.
LinkUpserts(list) ==
    LET all      == FlatMap(list, LAMBDA c : LinksOf(c, Corpus[c].confidence))
                      \o FlatMap(Representatives(list), LAMBDA c : LinksOf(c, Full))
        again(i) == /\ all[i].key[1] = "entity"
                    /\ \E j \in 1..(i - 1) : all[j].key = all[i].key
    IN  Selected(all, {i \in DOMAIN all : ~again(i)})

-----------------------------------------------------------------------------

\* Chunk by chunk entities and then relationships, then links, then hyperedges.
build_from_chunks(list) ==
    FlattenSeq([i \in DOMAIN list |-> EntityUpserts(list[i])
                                        \o RelationshipUpserts(list[i], Seen(list, i))])
      \o LinkUpserts(list)
      \o FlatMap(list, LAMBDA c : HyperedgeUpserts(c, Seen(list, Len(list))))

\* list_approved_graph_chunks: the oldest approved chunks.
Oldest(chunks, limit) ==
    LET list == Selected([c \in Chunks |-> c], chunks)
    IN  SubSeq(list, 1, IF Len(list) < limit THEN Len(list) ELSE limit)
=============================================================================
