------------------------------ MODULE MCServer ------------------------------
(* Instances of Server: more clients than descriptors, so that descriptors   *)
(* are reused, and a counter that wraps.                                     *)
EXTENDS Server, TLC

Clients == Permutations(Conns) \cup Permutations(Fds)
=============================================================================
