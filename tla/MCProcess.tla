----------------------------- MODULE MCProcess ------------------------------
(* Process with more clients than descriptors, more descriptors than a ring  *)
(* has slots, and a counter that wraps where the number of rings does not    *)
(* divide it: the rings are handed out 0 (the accept), 1, 0 and, after the   *)
(* wrap, 0 again.                                                            *)
EXTENDS Process
=============================================================================
