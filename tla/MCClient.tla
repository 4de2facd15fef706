------------------------------ MODULE MCClient ------------------------------
(* rpc::Client for TLC: each cfg names the requests and the bounds. *)
EXTENDS Client, TLC

(* Calls are interchangeable, and so are notifications. *)
Symmetry == Permutations(Calls) \cup Permutations(Notifies)

=============================================================================
