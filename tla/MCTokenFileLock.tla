--------------------------- MODULE MCTokenFileLock ---------------------------
(* Two processes that share a token file. *)
EXTENDS TokenFileLock
=============================================================================
