-------------------------- MODULE MCStreamSession --------------------------
(* One stream, with every kind of message.                                 *)
EXTENDS StreamSession

=============================================================================
