------------------------- MODULE MCSessionDialogue -------------------------
(* Instances of Session with what the client has heard, for TLC.           *)
EXTENDS MCSession, SessionDialogue
=============================================================================
