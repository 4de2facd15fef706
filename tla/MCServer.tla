------------------------------ MODULE MCServer ------------------------------
(* The server and its sessions for TLC: the cfg names workers and clients. *)
EXTENDS Server

=============================================================================
