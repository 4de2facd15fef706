------------------------------ MODULE MCSystem ------------------------------
(* A client and a session for TLC: the cfg names requests and workers. *)
EXTENDS System

(* The user does not close the session, and the session sees its client go only
   if it has unpacked nothing; later it stays as it is.  The behaviours left out
   keep CallsReturn, for they close the session or their client has gone.
   Nothing that Fairness speaks of is left out. *)
RunNext ==
  /\ Next
  /\ closer' = "server" => closer = "server"
  /\ closer' = "client" => closer = "client" \/ unpacked = 0

RunSpec == Init /\ [][RunNext]_vars /\ Fairness

=============================================================================
