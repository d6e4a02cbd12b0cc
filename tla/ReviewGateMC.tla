---------------------------- MODULE ReviewGateMC ----------------------------
(* Instances of ReviewGate for TLC.                                        *)
EXTENDS ReviewGate, TLC

CONSTANTS c1, c2, c3

\* A chunk to review and one to index at once, then a version with one more.
TwoVersions == << {c1, c2}, {c3} >>
LowOfTwo    == {c1, c3}

\* Two chunks to review.
OneVersion  == << {c1, c2} >>
LowOfOne    == {c1, c2}
=============================================================================
