------------------------------ MODULE ChunkerMC ------------------------------
(* Documents of headings of two levels, a short and a long line of text,    *)
(* bare marks and blank lines.                                              *)
EXTENDS Chunker

OfKind(kind, level, length) == [kind |-> kind, level |-> level, length |-> length]

MCLineKinds ==
    {OfKind("heading", 1, 1), OfKind("heading", 2, 1), OfKind("text", 0, 2),
     OfKind("text", 0, 9), OfKind("mark", 0, 1), OfKind("blank", 0, 0)}
=============================================================================
