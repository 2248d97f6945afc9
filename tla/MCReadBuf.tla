------------------------------ MODULE MCReadBuf ------------------------------
(* Instance of ReadBuf for TLC. *)
EXTENDS ReadBuf
=============================================================================
