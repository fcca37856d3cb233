-------------------------- MODULE SessionDialogue --------------------------
(***************************************************************************)
(* A session implements the Dialogue: the refinement forgets the task, its *)
(* buffers and the socket, and keeps the whole messages that reached the   *)
(* client, which a history variable collects.                              *)
(***************************************************************************)
EXTENDS Session

VARIABLE told \* history: the messages of which the client has the last chunk

\* The last chunk of a message arrives, or another chunk, or none.
Hear ==
  told' = IF rcvd' # rcvd /\ Last(rcvd').part = Last(rcvd').of
            THEN Append(told, Last(rcvd').msg) ELSE told

HearingSpec == Init /\ told = <<>> /\ [][Next /\ Hear]_<<vars, told>>

D == INSTANCE Dialogue WITH asked <- nq

\* Seen through partial writes, a full socket, a client that reads slowly or
\* leaves, and I/O errors, do_postgres_main and on_error tell the client what
\* the Dialogue allows and nothing else: the startup sequence once and in
\* order, each reported guc once, one CommandComplete and one ReadyForQuery
\* for each query in the order of the queries, nothing after an error.
Contract == D!Spec
=============================================================================
