---------------------------- MODULE SessionTask ----------------------------
(***************************************************************************)
(* The requests of one rpc::detail::ServerSession, from the read handler   *)
(* to the write strand (src/src/detail/server_session.cpp:62-119), with    *)
(* the thread-local this_handler(), this_session() and this_server() that  *)
(* a bound function uses to steer the response.                            *)
(*                                                                         *)
(* Worker threads run the io_context: each takes a message's task or a     *)
(* task of the write strand.  A bound function is user code: it may call   *)
(* the this_* objects any number of times and ends in any way.             *)
(*                                                                         *)
(* The session is read from as soon as its accept handler has started it   *)
(* (server.cpp:65), and is in the server's list only when that handler has *)
(* pushed it (67).  It is closed for its own functions, on eof, by the     *)
(* user's close_sessions() and by the stop of another session.             *)
(***************************************************************************)
EXTENDS Dispatcher, Sequences, FiniteSets

CONSTANTS
  Workers,   \* threads inside io.run()
  Messages,  \* messages a client sends, each once
  Names,     \* function names
  Idle       \* a worker without a task

ASSUME IdleAssumption == Idle \notin Messages \cup Workers

VARIABLES
  funcs_,                \* the bound names
  suppress_exceptions_,  \* the session's copy of the server's setting
  request,               \* kind and name of each message
  tasks,                 \* messages posted to the io_context, not yet taken
  running,               \* the message each worker dispatches
  this_handler,          \* thread-local, by worker
  zones,                 \* thread-local: which object each of its two handles owns
  exit_,                 \* thread-local this_session().exit_
  stopping_,             \* thread-local this_server().stopping()
  write_strand,          \* tasks posted to the write strand, not yet run
  written,               \* history: responses the strand ran write() for
  closed,                \* is_closed()
  starter,               \* the worker still in the session's accept handler
  listed,                \* the session is in the server's sessions
  closer,                \* history: who closed the session first
  terminated,            \* an exception left io.run()
  log                    \* history: what each message's function asked for

locals == <<this_handler, zones, exit_, stopping_>>
place  == <<starter, listed, closer>>
vars == <<funcs_, suppress_exceptions_, request, tasks, running, locals,
          write_strand, written, closed, place, terminated, log>>

Cleared == [error_ |-> FALSE, resp_ |-> FALSE, resp_enabled_ |-> TRUE]
NoLog   == [done |-> FALSE, ran |-> FALSE, ending |-> "value",
            enabled |-> TRUE, exit |-> FALSE, stop |-> FALSE]
NoRequest == [kind |-> "none", name |-> Idle]

(* Which object a response's error or result points to: its own copy, or
   the n-th object of a worker's error_ or resp_ handle. *)
Own == [worker |-> Idle, handle |-> "own", n |-> 0]
Ref(w, handle, n) == [worker |-> w, handle |-> handle, n |-> n]

WriteTask(r, ref) == [op |-> "write", id |-> r.id, resp |-> r, ref |-> ref]
CloseTask(op, m)  == [op |-> op, id |-> m, resp |-> empty_response(m),
                      ref |-> Own]

Refs == [worker : Workers \cup {Idle}, handle : {"own", "error_", "resp_"},
         n : Nat]
CloseOps == {"close", "close_sessions"}
StrandTasks == [op : {"write"} \cup CloseOps, id : Messages,
                ref : Refs, resp : [empty : BOOLEAN, id : Messages,
                                    err : Errors, res : Results]]

TypeOK ==
  /\ funcs_ \subseteq Names
  /\ suppress_exceptions_ \in BOOLEAN
  /\ request \in [Messages -> [kind : Kinds, name : Names] \cup {NoRequest}]
  /\ tasks \in Seq(Messages)
  /\ running \in [Workers -> Messages \cup {Idle}]
  /\ this_handler \in [Workers -> [error_ : BOOLEAN, resp_ : BOOLEAN,
                                   resp_enabled_ : BOOLEAN]]
  /\ zones \in [Workers -> [error_ : Nat, resp_ : Nat]]
  /\ exit_ \in [Workers -> BOOLEAN]
  /\ stopping_ \in [Workers -> BOOLEAN]
  /\ write_strand \in Seq(StrandTasks)
  /\ written \in Seq(StrandTasks)
  /\ closed \in BOOLEAN
  /\ starter \in Workers \cup {Idle}
  /\ listed \in BOOLEAN
  /\ closer \in {"nobody", "function", "client", "server"}
  /\ terminated \in BOOLEAN
  /\ log \in [Messages -> [done : BOOLEAN, ran : BOOLEAN, ending : Endings,
                           enabled : BOOLEAN, exit : BOOLEAN, stop : BOOLEAN]]

Init ==
  /\ funcs_ = {}
  /\ suppress_exceptions_ \in BOOLEAN
  /\ request = [m \in Messages |-> NoRequest]
  /\ tasks = <<>>
  /\ running = [w \in Workers |-> Idle]
  /\ this_handler = [w \in Workers |-> Cleared]
  /\ zones = [w \in Workers |-> [error_ |-> 0, resp_ |-> 0]]
  /\ exit_ = [w \in Workers |-> FALSE]
  /\ stopping_ = [w \in Workers |-> FALSE]
  /\ write_strand = <<>>
  /\ written = <<>>
  /\ closed = FALSE
  /\ starter \in Workers
  /\ listed = FALSE
  /\ closer = "nobody"
  /\ terminated = FALSE
  /\ log = [m \in Messages |-> NoLog]

-----------------------------------------------------------------------------
(* bind() and unbind(): not synchronised with dispatch(), so users call them
   while no function runs.  bind() refuses a name that is bound. *)
Rebind(f) ==
  /\ ~terminated
  /\ \A w \in Workers : running[w] = Idle
  /\ funcs_' = f
  /\ UNCHANGED <<suppress_exceptions_, request, tasks, running, locals,
                 write_strand, written, closed, place, terminated, log>>

Bind(f)   == f \notin funcs_ /\ Rebind(funcs_ \cup {f})
Unbind(f) == f \in funcs_ /\ Rebind(funcs_ \ {f})

(* A worker that can take a handler. *)
Free(w) == running[w] = Idle /\ w # starter

SomeFree == ~terminated /\ \E w \in Workers : Free(w)

(* The accept handler lists the session it has started, closed or not. *)
Push ==
  /\ ~terminated
  /\ starter # Idle
  /\ starter' = Idle
  /\ listed' = TRUE
  /\ UNCHANGED <<funcs_, suppress_exceptions_, request, tasks, running, locals,
                 write_strand, written, closed, closer, terminated, log>>

(* Fault for a mutation run: a message overtakes the ones before it. *)
UnpackInFront(m, kind, f) ==
  /\ SomeFree
  /\ ~closed
  /\ request[m] = NoRequest
  /\ request' = [request EXCEPT ![m] = [kind |-> kind, name |-> f]]
  /\ tasks' = <<m>> \o tasks
  /\ UNCHANGED <<funcs_, suppress_exceptions_, running, locals, write_strand,
                 written, closed, place, terminated, log>>

(* The read handler posts a task for each message it unpacks, until the
   session is closed.  A client sends each message once. *)
Unpack(m, kind, f) ==
  /\ SomeFree
  /\ ~closed
  /\ request[m] = NoRequest
  /\ request' = [request EXCEPT ![m] = [kind |-> kind, name |-> f]]
  /\ tasks' = Append(tasks, m)
  /\ UNCHANGED <<funcs_, suppress_exceptions_, running, locals, write_strand,
                 written, closed, place, terminated, log>>

(* Fault for a mutation run: this_handler() is not cleared. *)
TakeUncleared(w) ==
  /\ ~terminated
  /\ Free(w)
  /\ tasks # <<>>
  /\ tasks' = Tail(tasks)
  /\ running' = [running EXCEPT ![w] = Head(tasks)]
  /\ exit_' = [exit_ EXCEPT ![w] = FALSE]
  /\ stopping_' = [stopping_ EXCEPT ![w] = FALSE]
  /\ UNCHANGED <<funcs_, suppress_exceptions_, request, this_handler, zones,
                 write_strand, written, closed, place, terminated, log>>

(* Fault for a mutation run: this_session() is not cleared. *)
TakeKeepsExit(w) ==
  /\ ~terminated
  /\ Free(w)
  /\ tasks # <<>>
  /\ tasks' = Tail(tasks)
  /\ running' = [running EXCEPT ![w] = Head(tasks)]
  /\ this_handler' = [this_handler EXCEPT ![w] = Cleared]
  /\ stopping_' = [stopping_ EXCEPT ![w] = FALSE]
  /\ UNCHANGED <<funcs_, suppress_exceptions_, request, exit_, zones,
                 write_strand, written, closed, place, terminated, log>>

(* A worker takes a task: the thread-locals are reset. *)
Take(w) ==
  /\ ~terminated
  /\ Free(w)
  /\ tasks # <<>>
  /\ tasks' = Tail(tasks)
  /\ running' = [running EXCEPT ![w] = Head(tasks)]
  /\ this_handler' = [this_handler EXCEPT ![w] = Cleared]
  /\ exit_' = [exit_ EXCEPT ![w] = FALSE]
  /\ stopping_' = [stopping_ EXCEPT ![w] = FALSE]
  /\ UNCHANGED <<funcs_, suppress_exceptions_, request, zones, write_strand,
                 written, closed, place, terminated, log>>

Bound(m) == request[m].kind # "other" /\ request[m].name \in funcs_

InFunction(w) == ~terminated /\ running[w] # Idle /\ Bound(running[w])

(* this_handler().disable_response() and enable_response(). *)
EnableResponse(w, b) ==
  /\ InFunction(w)
  /\ this_handler[w].resp_enabled_ # b
  /\ this_handler' = [this_handler EXCEPT ![w].resp_enabled_ = b]
  /\ log' = [log EXCEPT ![running[w]].enabled = b]
  /\ UNCHANGED <<funcs_, suppress_exceptions_, request, tasks, running, zones,
                 exit_, stopping_, write_strand, written, closed, place,
                 terminated>>

(* this_session().post_exit(). *)
PostExit(w) ==
  /\ InFunction(w)
  /\ ~exit_[w]
  /\ exit_' = [exit_ EXCEPT ![w] = TRUE]
  /\ log' = [log EXCEPT ![running[w]].exit = TRUE]
  /\ UNCHANGED <<funcs_, suppress_exceptions_, request, tasks, running,
                 this_handler, zones, stopping_, write_strand, written,
                 closed, place, terminated>>

(* this_server().stop(). *)
StopServer(w) ==
  /\ InFunction(w)
  /\ ~stopping_[w]
  /\ stopping_' = [stopping_ EXCEPT ![w] = TRUE]
  /\ log' = [log EXCEPT ![running[w]].stop = TRUE]
  /\ UNCHANGED <<funcs_, suppress_exceptions_, request, tasks, running,
                 this_handler, zones, exit_, write_strand, written,
                 closed, place, terminated>>

(* What the task posts to the write strand, in this order. *)
WriteOf(w, r, h, z) ==
  IF r.empty THEN <<>>
  ELSE <<WriteTask(Precedence(r, h.error_, h.resp_),
                   IF h.error_ THEN Ref(w, "error_", z.error_)
                   ELSE IF h.resp_ THEN Ref(w, "resp_", z.resp_)
                   ELSE Own)>>

ExitOf(w, m) == IF exit_[w] THEN <<CloseTask("close", m)>> ELSE <<>>
StopOf(w, m) == IF stopping_[w] THEN <<CloseTask("close_sessions", m)>> ELSE <<>>

(* Fault for a mutation run: the close is posted ahead of the write. *)
PostsCloseFirst(w, m, r, h, z) ==
  IF ~h.resp_enabled_ THEN <<>>
  ELSE ExitOf(w, m) \o WriteOf(w, r, h, z) \o StopOf(w, m)

(* Fault for a mutation run: a function without a response posts nothing. *)
PostsWithResponseOnly(w, m, r, h, z) ==
  IF ~h.resp_enabled_ \/ r.empty THEN <<>>
  ELSE WriteOf(w, r, h, z) \o ExitOf(w, m) \o StopOf(w, m)

Posts(w, m, r, h, z) ==
  IF ~h.resp_enabled_ THEN <<>>
  ELSE WriteOf(w, r, h, z) \o ExitOf(w, m) \o StopOf(w, m)

(* The function ends, dispatch() returns or throws, and the task posts the
   response.  respond() and respond_error() give their handle a new object,
   which frees the one it had. *)
Finish(w, ending) ==
  /\ ~terminated
  /\ running[w] # Idle
  /\ ~Bound(running[w]) => ending = "value"
  /\ LET m == running[w]
         err == Bound(m) /\ ending = "respond_error"
         spec == Bound(m) /\ ending = "respond"
         h == [this_handler[w] EXCEPT !.error_ = @ \/ err, !.resp_ = @ \/ spec]
         z == [zones[w] EXCEPT !.error_ = IF err THEN @ + 1 ELSE @,
                               !.resp_ = IF spec THEN @ + 1 ELSE @]
         r == dispatch(request[m].kind, m, Bound(m), ending,
                       suppress_exceptions_)
     IN /\ this_handler' = [this_handler EXCEPT ![w] = h]
        /\ zones' = [zones EXCEPT ![w] = z]
        /\ log' = [log EXCEPT ![m].done = TRUE, ![m].ran = Bound(m),
                              ![m].ending = ending]
        /\ \/ /\ r = Thrown(m)
              /\ terminated' = TRUE
              /\ UNCHANGED write_strand
           \/ /\ r # Thrown(m)
              /\ write_strand' = write_strand \o Posts(w, m, r, h, z)
              /\ UNCHANGED terminated
  /\ running' = [running EXCEPT ![w] = Idle]
  /\ UNCHANGED <<funcs_, suppress_exceptions_, request, tasks, exit_, stopping_,
                 written, closed, place>>

(* A worker runs the next task of the write strand. *)
RunStrand(op) ==
  /\ SomeFree
  /\ write_strand # <<>>
  /\ Head(write_strand).op = op
  /\ write_strand' = Tail(write_strand)
  /\ UNCHANGED <<funcs_, suppress_exceptions_, request, tasks, running, locals,
                 terminated, log>>

(* write(resp.data()): refused by a closed writer. *)
RunWrite ==
  /\ RunStrand("write")
  /\ written' = IF closed THEN written ELSE Append(written, Head(write_strand))
  /\ UNCHANGED <<closed, place>>

(* ServerSession::close().  What it posts, the close of the socket and the
   removal from the list, is AsyncWriter's and Server's. *)
Close(by) ==
  /\ closed' = TRUE
  /\ closer' = IF closed THEN closer ELSE by

RunClose ==
  /\ RunStrand("close")
  /\ Close("function")
  /\ UNCHANGED <<written, starter, listed>>

(* Fault for a mutation run: the list is cleared before it is copied. *)
ClearListed(by) ==
  /\ listed' = FALSE
  /\ UNCHANGED <<closed, closer, starter>>

(* Server::close_sessions() takes the sessions from the list and closes them.
   (Server has the two apart; for this session it makes no difference.) *)
CloseListed(by) ==
  /\ listed' = FALSE
  /\ IF listed THEN Close(by) ELSE UNCHANGED <<closed, closer>>
  /\ UNCHANGED starter

(* this_server().stop(): close_sessions() on the strand of this session. *)
RunCloseSessions ==
  /\ RunStrand("close_sessions")
  /\ CloseListed("function")
  /\ UNCHANGED written

(* The same by the user, or for a function of another session. *)
CloseSessions ==
  /\ ~terminated
  /\ listed
  /\ CloseListed("server")
  /\ UNCHANGED <<funcs_, suppress_exceptions_, request, tasks, running, locals,
                 write_strand, written, terminated, log>>

(* The read handler of an open session finds that the client has left. *)
OnEof ==
  /\ SomeFree
  /\ ~closed
  /\ Close("client")
  /\ UNCHANGED <<funcs_, suppress_exceptions_, request, tasks, running, locals,
                 write_strand, written, starter, listed, terminated, log>>

-----------------------------------------------------------------------------
Work(w) == Take(w) \/ \E ending \in Endings : Finish(w, ending)

Next ==
  \/ \E f \in Names : Bind(f) \/ Unbind(f)
  \/ \E m \in Messages, kind \in Kinds, f \in Names : Unpack(m, kind, f)
  \/ \E w \in Workers : Work(w)
  \/ \E w \in Workers, b \in BOOLEAN : EnableResponse(w, b)
  \/ \E w \in Workers : PostExit(w) \/ StopServer(w)
  \/ RunWrite
  \/ RunClose
  \/ RunCloseSessions
  \/ Push
  \/ CloseSessions
  \/ OnEof

(* The workers run what is posted, and handlers and bound functions end. *)
Fairness ==
  /\ \A w \in Workers : WF_vars(Take(w))
  /\ \A w \in Workers : WF_vars(\E ending \in Endings : Finish(w, ending))
  /\ WF_vars(RunWrite \/ RunClose \/ RunCloseSessions)
  /\ WF_vars(Push)

Spec == Init /\ [][Next]_vars

-----------------------------------------------------------------------------
All == written \o write_strand

(* The entries of a sequence of strand tasks that are m's response. *)
ResponsesTo(s, m) == {i \in DOMAIN s : s[i].op = "write" /\ s[i].id = m}

(* What m's function asked for, had it been alone on its thread. *)
Wanted(m) ==
  LET alone == dispatch(request[m].kind, m, log[m].ran, log[m].ending,
                        suppress_exceptions_)
  IN  Precedence(alone, log[m].ran /\ log[m].ending = "respond_error",
                        log[m].ran /\ log[m].ending = "respond")

(* The thread-local this_handler() carries nothing over from one message to
   the next: each call is answered once with what its own function asked
   for, a call whose function disabled the response and a notification are
   not answered. *)
OwnResponse ==
  ~closed /\ ~terminated =>
    \A m \in Messages :
      /\ Cardinality(ResponsesTo(All, m))
           = IF log[m].done /\ request[m].kind = "call" /\ log[m].enabled
             THEN 1 ELSE 0
      /\ \A i \in ResponsesTo(All, m) : All[i].resp = Wanted(m)

(* server_session.cpp:106-107: the close comes after the previous write.  The
   response of the function that asked for the close is handed to the writer
   before it; with another write in flight the writer may still drop it. *)
WriteBeforeClose ==
  \A i, j \in DOMAIN write_strand :
    write_strand[i].op # "write" /\ j \in ResponsesTo(write_strand, write_strand[i].id)
      => j < i

(* A message's function asked for a close, and kept its response enabled. *)
Asked(m, op) ==
  /\ log[m].done /\ log[m].enabled
  /\ IF op = "close" THEN log[m].exit ELSE log[m].stop

(* The thread-local this_session() and this_server() carry nothing over from
   one message to the next: the tasks on the strand that close the session, or
   all sessions, are there for a function that asked for just that; and a
   session that neither its client nor the server closed was closed for one. *)
ClosesAreAsked ==
  /\ \A i \in DOMAIN write_strand :
       write_strand[i].op # "write"
         => Asked(write_strand[i].id, write_strand[i].op)
  /\ closer = "function" => \E m \in Messages, op \in CloseOps : Asked(m, op)

(* this_session.h:23: post_exit() exits the session, also for a function that
   ends with an error or has no response; the exception is one that disabled its
   response (server_session.cpp:79 returns before the close). *)
ExitHappens ==
  \A m \in Messages : Asked(m, "close") ~> closed \/ terminated

(* this_server().stop() closes the session of the function that calls it, if the
   accept handler has listed the session by the time the function runs, and
   unless the function disables its response. *)
StopHappens ==
  \A m \in Messages :
    log[m].stop /\ ~log[m].done /\ (listed \/ closed)
      ~> \/ closed \/ terminated
         \/ log[m].done /\ ~log[m].enabled

(* Every call gets its response written, unless its function disabled it,
   the session is closed or the server goes down. *)
CallsAnswered ==
  \A m \in Messages :
    request[m].kind = "call"
      ~> \/ ResponsesTo(written, m) # {}
         \/ log[m].done /\ ~log[m].enabled
         \/ closed
         \/ terminated

(* server_session.cpp:85-87: an error set in the handler is sent, and third,
   if there is a special response, it is used.  The response to a function
   that ended with respond() carries that and no error. *)
SpecialResponseUsed ==
  \A i \in DOMAIN written :
    log[written[i].id].ran /\ log[written[i].id].ending = "respond"
      => written[i].resp.err = "none" /\ written[i].resp.res = "special"

Alive(ref) == ref.handle = "own" \/ zones[ref.worker][ref.handle] = ref.n

(* server_session.cpp:98: the response is captured by value because a
   reference would dangle.  When the strand comes to pack a response, the
   object it points to still exists. *)
NoDanglingResponse ==
  write_strand # <<>> /\ Head(write_strand).op = "write"
    => Alive(Head(write_strand).ref)

-----------------------------------------------------------------------------
(* What makes ClosesAreAsked inductive: a message is in one place, still
   to come, queued, with one worker or done; what it asked for is nothing until
   a worker has it; and the thread-locals of a worker agree with what its
   message asked for. *)
FreshOrQueued ==
  /\ \A m \in Messages :
       request[m] = NoRequest
         => /\ log[m] = NoLog
            /\ \A i \in DOMAIN tasks : tasks[i] # m
            /\ \A w \in Workers : running[w] # m
  /\ \A i \in DOMAIN tasks :
       /\ log[tasks[i]] = NoLog
       /\ \A j \in DOMAIN tasks : tasks[i] = tasks[j] => i = j
       /\ \A w \in Workers : running[w] # tasks[i]

RunByOne ==
  \A w \in Workers :
    running[w] # Idle
      => /\ ~log[running[w]].done
         /\ \A v \in Workers : running[v] = running[w] => v = w

LocalsTell ==
  \A w \in Workers :
    running[w] # Idle
      => /\ log[running[w]].enabled = this_handler[w].resp_enabled_
         /\ exit_[w] => log[running[w]].exit
         /\ stopping_[w] => log[running[w]].stop

(* What makes WriteBeforeClose inductive: the strand holds tasks of messages
   that are done, so that nothing is added to them. *)
StrandOfDone ==
  \A i \in DOMAIN write_strand : log[write_strand[i].id].done

IInv ==
  /\ TypeOK
  /\ FreshOrQueued
  /\ RunByOne
  /\ LocalsTell
  /\ ClosesAreAsked
  /\ StrandOfDone
  /\ WriteBeforeClose

-----------------------------------------------------------------------------
(* What makes OwnResponse inductive: a worker's this_handler() is empty until
   its function ends; what the strand has or had is of messages that are done;
   each of them has the one response it wants; and no response is of another
   content, also once the session is closed. *)
HandlerFresh ==
  \A w \in Workers :
    running[w] # Idle => ~this_handler[w].error_ /\ ~this_handler[w].resp_

AllOfDone == \A i \in DOMAIN All : log[All[i].id].done

Answerable(m) == log[m].done /\ request[m].kind = "call" /\ log[m].enabled

AnsweredExactly ==
  ~closed /\ ~terminated =>
    \A m \in Messages :
      \/ ~Answerable(m) /\ ResponsesTo(All, m) = {}
      \/ /\ Answerable(m)
         /\ \E i \in DOMAIN All : ResponsesTo(All, m) = {i} /\ All[i].resp = Wanted(m)

Due ==
  {t \in StrandTasks : t.op = "write" => /\ log[t.id].done
                                        /\ request[t.id].kind = "call"
                                        /\ t.resp = Wanted(t.id)}

WritesAsWanted ==
  /\ written \in Seq({t \in Due : t.op = "write"})
  /\ write_strand \in Seq(Due)

ResponseIInv ==
  HandlerFresh /\ AllOfDone /\ AnsweredExactly /\ WritesAsWanted

=============================================================================
