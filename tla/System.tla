------------------------------- MODULE System -------------------------------
(***************************************************************************)
(* A client and the server session at the other end of its connection:     *)
(* Client and SessionTask composed.  The session's read loop               *)
(* (server_session.cpp:54-68) unpacks the frames that the client's kernel  *)
(* took, in their order; the client's inbox (client.cpp:151-166) is fed    *)
(* with the responses that the session wrote, in their order; a session    *)
(* that is closed or a server that went down ends the connection, and the  *)
(* session finds out when the client has ended it.                         *)
(***************************************************************************)
EXTENDS Naturals, Sequences

CONSTANTS Calls, SyncCalls, Notifies, Empty, NoCall, MaxIdx, MaxAttempts,
          Timeouts, Outages,     \* the client's
          Workers, Names, Idle,  \* the server's
          FunctionEndings        \* how the bound functions may end

VARIABLES call_idx, idx, stage, strand, ongoing_calls, pending_calls,
          is_connected, state, failures, connect_op, reading, write_queue,
          write_op, link, wire, answered, inbox, future, timeout_val, io, posted,
          funcs_, suppress_exceptions_, request, tasks, running, this_handler,
          zones, exit_, stopping_, write_strand, written, closed, starter, listed,
          closer, terminated, log,
          unpacked,  \* how many frames of wire the session has unpacked
          received   \* how many responses of written have reached the client

Requests == Calls \cup Notifies

C == INSTANCE Client
S == INSTANCE SessionTask WITH Messages <- Requests

(* The parts' assumptions, and that functions end as the dispatcher knows. *)
ASSUME PartsAssumption ==
  /\ C!RequestAssumption
  /\ C!BoundAssumption
  /\ S!IdleAssumption
  /\ FunctionEndings \subseteq S!Endings

clientVars == <<call_idx, idx, stage, strand, ongoing_calls, pending_calls,
                is_connected, state, failures, connect_op, reading, write_queue,
                write_op, link, wire, answered, inbox, future, timeout_val, io,
                posted>>
sessionVars == <<funcs_, suppress_exceptions_, request, tasks, running,
                 this_handler, zones, exit_, stopping_, write_strand, written,
                 closed, starter, listed, closer, terminated, log>>
vars == <<clientVars, sessionVars, unpacked, received>>

Init == C!Init /\ S!Init /\ unpacked = 0 /\ received = 0

(* The client and its connection by themselves. *)
ClientStep ==
  /\ \/ \E c \in Calls : C!User(c)
     \/ \E n \in Notifies : C!Notify(n)
     \/ C!Destroy
     \/ C!IoThread
     \/ C!Kernel
     \/ C!Accepted
     \/ C!Refused
     \/ C!Break
  /\ UNCHANGED <<sessionVars, unpacked, received>>

(* The server has accepted the connection. *)
HasSession == link \in {"connected", "broken"}

(* The session by itself. *)
SessionStep ==
  /\ \/ \E f \in Names : S!Bind(f)
     \/ \E w \in Workers : S!Take(w) \/ S!PostExit(w) \/ S!EnableResponse(w, FALSE)
     \/ \E w \in Workers, ending \in FunctionEndings : S!Finish(w, ending)
     \/ S!RunWrite
     \/ S!RunClose
     \/ S!CloseSessions
     \/ HasSession /\ S!Push
     \/ HasSession /\ C!Lost /\ S!OnEof
  /\ UNCHANGED <<clientVars, unpacked, received>>

KindOf(r) == IF r \in Calls THEN "call" ELSE "notification"

(* A request crosses the connection. *)
Deliver ==
  /\ unpacked < Len(wire)
  /\ LET r == wire[unpacked + 1] IN \E f \in Names : S!Unpack(r, KindOf(r), f)
  /\ unpacked' = unpacked + 1
  /\ UNCHANGED <<clientVars, received>>

(* Response(unpacked): what the client makes of the error and the result that
   data() packed. *)
Reads(resp) == IF resp.err # "none" THEN "error" ELSE "value"

(* A response crosses the connection. *)
Reply ==
  /\ received < Len(written)
  /\ LET next == written[received + 1] IN C!Answer(next.id, Reads(next.resp))
  /\ received' = received + 1
  /\ UNCHANGED <<sessionVars, unpacked>>

(* The session's socket is closed, or the server's process has ended. *)
Hangup ==
  /\ closed \/ terminated
  /\ C!Drop
  /\ UNCHANGED <<sessionVars, unpacked, received>>

Next == ClientStep \/ SessionStep \/ Deliver \/ Reply \/ Hangup

(* Each side runs what is ready, bound functions end, and the connection
   carries what it took.  No behaviour goes on for ever, so one condition for
   all of these leaves none of them behind. *)
Fairness ==
  /\ WF_vars(/\ C!IoThread \/ C!Kernel \/ C!Accepted \/ C!Refused
                \/ \E c \in Calls : C!PostCall(c)
             /\ ClientStep)
  /\ WF_vars(\/ /\ \/ \E w \in Workers : S!Take(w)
                   \/ \E w \in Workers, e \in FunctionEndings : S!Finish(w, e)
                   \/ S!RunWrite \/ S!RunClose
                   \/ HasSession /\ S!Push
                /\ UNCHANGED <<clientVars, unpacked, received>>
             \/ Deliver /\ link = "connected"
             \/ Reply)

Spec == Init /\ [][Next]_vars

-----------------------------------------------------------------------------
(* How the function of a call ended, as its caller should see it. *)
Outcome(c) == IF log[c].done THEN Reads(S!Wanted(c)) ELSE "none"

(* From the caller to the bound function and back: over pending_calls, the
   write queues, the workers and the thread-local this_handler(), a call's
   function ends at most once and its future gets that function's outcome and
   no other. *)
Remote == INSTANCE RemoteCall WITH
  made <- {c \in Calls : stage[c] # "idle"},
  outcome <- [c \in Calls |-> Outcome(c)],
  result <- [c \in Calls |-> C!Result(c)]

ImplementsRemoteCall == Remote!CallSpec

(* What makes it so.  Nothing is read from the connection that was not sent; a
   request that the session has unpacked was made, and is taken for what it is;
   and the client's answers are the outcomes of the functions, which are there
   before them. *)
Crossed == unpacked \in 0 .. Len(wire) /\ received \in 0 .. Len(written)

RequestsMade ==
  \A r \in Requests :
    request[r] # S!NoRequest => stage[r] # "idle" /\ request[r].kind = KindOf(r)

AnswersOwn == \A c \in Calls : answered[c] # "none" => answered[c] = Outcome(c)

(* What makes NotifyThenCall inductive: the queue of tasks is the end of what
   the session has unpacked, in the order of the wire; nothing is there that did
   not come over it; and one worker ends a function before it takes the next
   task. *)
OneWorker == \A v, w \in Workers : v = w

Started == unpacked - Len(tasks)

QueueFollowsWire ==
  /\ Len(tasks) <= unpacked
  /\ \A i \in DOMAIN tasks : tasks[i] = wire[Started + i]

RequestsCrossed ==
  \A r \in Requests :
    request[r] # S!NoRequest => \E i \in 1 .. unpacked : wire[i] = r

DoneInTurn ==
  OneWorker =>
    \A i \in 1 .. Started :
      \/ log[wire[i]].done
      \/ i = Started /\ \E w \in Workers : running[w] = wire[i]

TurnIInv == QueueFollowsWire /\ RequestsCrossed /\ DoneInTurn

LinkIInv == Crossed /\ RequestsMade /\ AnswersOwn /\ TurnIInv

(* The example relies on it (subscribe_client.cpp:22-23: notify("subscribe"),
   then async_call("list")): with one worker, a call finds done what an earlier
   notification of its client asked for, connected or not when it was made.
   Only a connection that failed may have swallowed the notification. *)
NotifyThenCall ==
  OneWorker =>
    \A n \in Notifies, c \in Calls :
      C!Precedes(posted, n, c) /\ log[c].done
        => log[n].done \/ failures > 0 \/ link = "broken"

(* Every call comes back, also over refused connection attempts, unless its
   function disabled the response, the connection broke, the session was
   closed, or the client or the server is gone. *)
CallsReturn ==
  \A c \in Calls :
    stage[c] = "posted"
      ~> \/ future[c].res \in {"value", "error"}
         \/ log[c].done /\ ~log[c].enabled
         \/ closed \/ terminated
         \/ C!Lost

=============================================================================
