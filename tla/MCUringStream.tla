--------------------------- MODULE MCUringStream ---------------------------
(* Instances of UringStream for TLC.                                       *)
EXTENDS UringStream, TLC

CONSTANTS s1, s2

TwoStreams == {s1, s2}

\* The streams are interchangeable.
Symmetry == Permutations(TwoStreams)
=============================================================================
