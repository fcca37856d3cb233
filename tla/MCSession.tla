----------------------------- MODULE MCSession -----------------------------
(* Instances of Session for TLC.                                           *)
EXTENDS Session

CONSTANTS g1, g2

OneGuc  == {g1}
TwoGucs == {g1, g2}

\* The smallest buffer the assumption allows.
TightBuf == Burst

\* An ErrorResponse that fits, one that just fills the buffer, one longer.
AnyErrSize == {SmallSize, BufCap, BufCap + 1}
LongErr    == {BufCap + 1}
=============================================================================
