--------------------------- MODULE MCUrllibStream ---------------------------
(* One stream over a queue of two chunks.                                   *)
EXTENDS UrllibStream

=============================================================================
