----------------------------- MODULE Extraction -----------------------------
(***************************************************************************)
(* What the extractors give to a graph build: the candidates of the LLM's  *)
(* reply that LLMEntityExtractor and HyperedgeExtractor keep, or those of  *)
(* the chunk's metadata when there is no usable reply.  Extracted is what  *)
(* Corpus of GraphPlan stands for.                                         *)
(*                                                                         *)
(* A name is a spelling; Lower and Normal give what str.lower and          *)
(* normalize_entity_name make of it.  The reply about a chunk stays the    *)
(* same from build to build, as the gateway caches it; a call that fails   *)
(* once and succeeds later is left out.                                    *)
(***************************************************************************)
EXTENDS GraphProvenance

CONSTANTS
    Inputs,         \* GraphChunkInput of each chunk: document and confidence
    Metadata,       \* what the metadata or the pattern of capitals yields
    Replies,        \* entities and relationships that the LLM replies, or None
    HyperReplies,   \* hyperedges that the LLM replies, or None
    MinConfidence,  \* 0.3
    MinMembers,     \* 3
    Lower, Normal,  \* of spellings
    Blank,          \* a name of nothing but white space
    Missing         \* the reply has no confidence

-----------------------------------------------------------------------------
Confidence(c, x) == IF x.confidence = Missing THEN Inputs[c].confidence ELSE x.confidence

Sure(c, x) == Confidence(c, x) >= MinConfidence

\* The elements of s that a loop does not skip.
Kept(s, keep(_)) == Selected(s, {i \in DOMAIN s : keep(s[i])})

ReplyEntities(c) == Kept(Replies[c].entities, LAMBDA e : e.name # Blank /\ Sure(c, e))

\* Mutant: the ends need not be entities of the reply.
ReplyRelationships_AnyEnds(c) ==
    Kept(Replies[c].relationships,
         LAMBDA r : Blank \notin {r.source, r.target} /\ Sure(c, r))

ReplyRelationships(c) ==
    LET entity_names == {Lower[e.name] : e \in Range(ReplyEntities(c))}
    IN  Kept(Replies[c].relationships,
             LAMBDA r : /\ Blank \notin {r.source, r.target} /\ Sure(c, r)
                        /\ {Lower[r.source], Lower[r.target]} \subseteq entity_names)

\* The contracts of candidates refuse a confidence above 1.0.
Valid(c, candidates) == \A x \in Range(candidates) : Confidence(c, x) <= Full

\* The chunks with a reply in which no candidate is refused.
Usable ==
    {c \in DOMAIN Inputs :
        /\ Replies[c] # None
        /\ Valid(c, ReplyEntities(c)) /\ Valid(c, ReplyRelationships(c))}

\* _llm_extract: falls back to the metadata for entities and relationships both.
extract(c) ==
    IF c \in Usable
    THEN [entities |-> ReplyEntities(c), relationships |-> ReplyRelationships(c)]
    ELSE Metadata[c]

NamesOf(h) == Kept(h.names, LAMBDA n : n # Blank)

\* HyperedgeExtractor: enough spellings that differ; one refusal empties all.
extract_hyperedges(c) ==
    LET kept == Kept(HyperReplies[c],
                     LAMBDA h : Cardinality(Range(NamesOf(h))) >= MinMembers /\ Sure(c, h))
    IN  IF HyperReplies[c] # None /\ Valid(c, kept) THEN kept ELSE << >>

\* A candidate, under the name that upserts and lookups go by.
EntityOf(c, e) == [name |-> Normal[e.name], type |-> e.type, confidence |-> Confidence(c, e)]

RelationshipOf(c, r) ==
    [source |-> Normal[r.source], target |-> Normal[r.target],
     type |-> r.type, confidence |-> Confidence(c, r)]

HyperedgeOf(c, h) ==
    LET names == NamesOf(h)
    IN  [names |-> [i \in DOMAIN names |-> Normal[names[i]]],
         type |-> h.type, confidence |-> Confidence(c, h)]

ChunkOf(c) ==
    LET found  == extract(c)
        hypers == extract_hyperedges(c)
    IN  [document      |-> Inputs[c].document,
         confidence    |-> Inputs[c].confidence,
         entities      |-> [i \in DOMAIN found.entities |-> EntityOf(c, found.entities[i])],
         relationships |-> [i \in DOMAIN found.relationships |->
                              RelationshipOf(c, found.relationships[i])],
         hyperedges    |-> [i \in DOMAIN hypers |-> HyperedgeOf(c, hypers[i])]]

Extracted == [c \in DOMAIN Inputs |-> ChunkOf(c)]

\* What is built from is what the extractors give.  Replies are lists, of names
\* that are spellings; normalize_entity_name begins with str.lower.
ASSUME ExtractionAssumption ==
    /\ Corpus = Extracted
    /\ \A c \in DOMAIN Inputs :
         /\ Replies[c] # None =>
              /\ IsSequence(Replies[c].entities) /\ IsSequence(Replies[c].relationships)
              /\ \A e \in Range(Replies[c].entities) : e.name \in (DOMAIN Lower) \cup {Blank}
              /\ \A r \in Range(Replies[c].relationships) :
                   {r.source, r.target} \subseteq (DOMAIN Lower) \cup {Blank}
         /\ HyperReplies[c] # None =>
              /\ IsSequence(HyperReplies[c])
              /\ \A h \in Range(HyperReplies[c]) : IsSequence(h.names)
    /\ \A m, n \in DOMAIN Lower : Lower[m] = Lower[n] => Normal[m] = Normal[n]

-----------------------------------------------------------------------------
(* Properties.                                                             *)

\* What the LLM or the metadata says of chunk c, whichever is used.
Source(c) == IF c \in Usable THEN Replies[c] ELSE Metadata[c]

\* The entities of a name in it, a blank or doubtful one of a reply not counted.
Calls(c, name) ==
    {e \in Range(Source(c).entities) :
        (c \in Usable => e.name # Blank /\ Sure(c, e)) /\ Normal[e.name] = name}

\* Chunk c says that row k holds: of each name the most confident type; a
\* relationship between entities that the same reply lists; a hyperedge; links.
Says(c, k) ==
    \/ /\ k[1] = "entity"
       /\ \/ k \in {Title(t) : t \in {Doc(c)} \cup Range(Wikilinks[Doc(c)])}
          \/ LET called == Calls(c, k[2]) IN
             \E e \in called :
                /\ e.type = k[3]
                /\ \A f \in called : Confidence(c, f) <= Confidence(c, e)
    \/ /\ k[1] = "edge"
       /\ \/ \E r \in Range(Source(c).relationships) :
                /\ << Normal[r.source], Normal[r.target], r.type >>
                     = << k[2][2], k[3][2], k[4] >>
                /\ c \in Usable => Calls(c, k[2][2]) # {} /\ Calls(c, k[3][2]) # {}
          \/ \E t \in Range(Wikilinks[Doc(c)]) : k = Edge(Title(Doc(c)), Title(t), "LINKS_TO")
    \/ /\ k[1] = "hyperedge"
       /\ \E h \in Range(HyperReplies[c]) :
            h.type = k[3] /\ {m[2] : m \in k[2]} \subseteq {Normal[n] : n \in Range(NamesOf(h))}

\* What the lookup by chunk returns, the chunk's own source says, although
\* names are resolved over all chunks of a build: in particular no edge comes
\* from a relationship whose ends only other chunks have named.
GroundedInSource == \A c \in Chunks : \A k \in graph_for_chunk(c) : Says(c, k)

\* hyperedge_extractor.py: a hyperedge "connects 3 or more entities at once".
\* This does not hold: spellings are counted, and unknown names dropped after.
HyperedgesAreNary ==
    \A k \in DOMAIN graph : k[1] = "hyperedge" => Cardinality(k[2]) >= MinMembers
=============================================================================
