----------------------------- MODULE RemoteCall -----------------------------
(***************************************************************************)
(* What the library promises the caller of a remote function, without      *)
(* connections, queues, ids or threads: a call is made once; its function  *)
(* ends at most once, and never for a call that was not made; and the      *)
(* call's future, if it is ever set, is set once, to the outcome of its    *)
(* own function, or broken because the client went away.                   *)
(***************************************************************************)
CONSTANTS Calls

VARIABLES
  made,     \* calls that have been made
  outcome,  \* how each call's function ended, "none" before
  result    \* what each call's future holds, "none" before

callVars == <<made, outcome, result>>

Ends == {"value", "error"}

CallInit ==
  /\ made = {}
  /\ outcome = [c \in Calls |-> "none"]
  /\ result = [c \in Calls |-> "none"]

Make(c) ==
  /\ c \notin made
  /\ made' = made \cup {c}
  /\ UNCHANGED <<outcome, result>>

Execute(c, res) ==
  /\ c \in made
  /\ outcome[c] = "none"
  /\ outcome' = [outcome EXCEPT ![c] = res]
  /\ UNCHANGED <<made, result>>

(* The responses of one chunk resolve several calls together. *)
Resolve ==
  /\ \A c \in Calls :
       result'[c] # result[c]
         => result[c] = "none" /\ outcome[c] \in Ends /\ result'[c] = outcome[c]
  /\ UNCHANGED <<made, outcome>>

Abandon ==
  /\ result' = [c \in Calls |-> IF c \in made /\ result[c] = "none"
                                THEN "broken_promise" ELSE result[c]]
  /\ UNCHANGED <<made, outcome>>

CallNext ==
  \/ \E c \in Calls : Make(c) \/ \E res \in Ends : Execute(c, res)
  \/ Resolve
  \/ Abandon

CallSpec == CallInit /\ [][CallNext]_callVars

=============================================================================
