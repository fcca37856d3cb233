------------------------------- MODULE MCGuc --------------------------------
(* Instances of Guc: 2-bit INT values, one file integer fits and one does not. *)
EXTENDS Guc, TLC

SomeGucs == {"log_min_messages", "server_version", "is_superuser", "batch_size",
             "seq_page_cost"}
LogGucs == {"log_min_messages", "search_path"}
SomeInts == {-1, 2}
SomeWords == {"OFF", "DEBUG2", "verbose"}
Copies == Permutations(Sessions)
=============================================================================
