--------------------------- MODULE MCAsyncWriter ---------------------------
(* The writer of a client and of a session for TLC: the cfg names the frames
   and the closing threads. *)
EXTENDS AsyncWriter

=============================================================================
