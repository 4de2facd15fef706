--------------------------- MODULE MCSessionTask ---------------------------
(* The requests of a server session for TLC: the cfg names the workers and
   the messages. *)
EXTENDS SessionTask

CONSTANTS First, Second  \* the messages, in the order in which they come

Came(m) == request[m] # NoRequest

(* Workers are alike, so that one of them may accept the session, and messages
   are alike, so that one of them may come first. *)
RunInit == Init /\ starter = CHOOSE w \in Workers : TRUE

InTurn == Came(Second)' => Came(First)'

(* Bounds: functions are bound and unbound before the messages come; the client
   and the server close the session while at most one message has come; and a
   function asks for its session's end or for the server's, not for both.
   Nothing that Fairness speaks of is left out. *)
BindsFirst == (\E m \in Messages : Came(m)) => UNCHANGED funcs_

OthersCloseEarly == closer' \in {"client", "server"} => ~Came(Second)'

AsksForOne == \A m \in Messages : ~(log'[m].exit /\ log'[m].stop)

RunNext == Next /\ InTurn /\ BindsFirst /\ OthersCloseEarly /\ AsksForOne

RunSpec == RunInit /\ [][RunNext]_vars /\ Fairness

=============================================================================
