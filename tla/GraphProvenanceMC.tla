-------------------------- MODULE GraphProvenanceMC --------------------------
(* Chunks for GraphProvenance, and what the LLM replies about them.        *)
EXTENDS Extraction

CONSTANTS x, X, y, z, w  \* spellings

Named(name, type, confidence) == [name |-> name, type |-> type, confidence |-> confidence]

Uses(source, target, confidence) ==
    [source |-> source, target |-> target, type |-> "USES", confidence |-> confidence]

Involves(names) == [names |-> names, type |-> "INVOLVES", confidence |-> 1]

Reply(entities, relationships) == [entities |-> entities, relationships |-> relationships]

MCNormal == [s \in {x, X, y, z, w} |-> IF s = X THEN x ELSE s]

\* Two chunks of a, one of b, which links to a.
MixedInputs ==
    << [document |-> "a", confidence |-> 1], [document |-> "a", confidence |-> 2],
       [document |-> "b", confidence |-> 1] >>

MixedLinks == [a |-> << >>, b |-> << "a" >>]

\* Types differ within a reply and between chunks; the first reply has a blank
\* and a doubtful entity and an end that it does not list, the second an end
\* that only the first lists, and the third a confidence out of range.
MixedReplies ==
    << Reply(<< Named(X, "TECH", 2), Named(y, "TERM", Missing), Named(x, "TERM", 1),
                Named(Blank, "TERM", 2), Named(w, "TERM", 0) >>,
             << Uses(x, y, 1), Uses(x, w, 1) >>),
       Reply(<< Named(x, "TECH", 1) >>, << Uses(X, y, 2) >>),
       Reply(<< Named(y, "TERM", 3) >>, << >>) >>

\* Used for the third chunk; an end that nobody lists.
MixedMetadata ==
    [c \in 1..3 |-> Reply(<< Named(x, "TECH", 2) >>, << Uses(x, z, 1) >>)]

\* An unknown name, no reply, and an entity in two spellings.
MixedHyperReplies ==
    << << Involves(<< x, y, z >>), Involves(<< x, y, Blank >>) >>, None,
       << Involves(<< x, X, y >>) >> >>

\* Evaluated once.
MCCorpus == Extracted

\* Three chunks of one document that name the same entity, without an LLM.
PlainInputs == [c \in 1..3 |-> [document |-> "a", confidence |-> 1]]

PlainMetadata == [c \in 1..3 |-> Reply(<< Named(x, "TERM", 1) >>, << >>)]

NoReplies == [c \in 1..3 |-> None]

PlainLinks == [a |-> << >>]

\* Builds are interchangeable.
Symmetry == Permutations(Builds)
=============================================================================
