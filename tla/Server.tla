------------------------------- MODULE Server -------------------------------
(***************************************************************************)
(* rpc::Server with its sessions and its threads (src/src/server.cpp,      *)
(* src/include/detail/thread_group.h, the read loop and close() of         *)
(* src/src/detail/server_session.cpp): starting threads, accepting,        *)
(* reading, closing and stopping.                                          *)
(*                                                                         *)
(* The io_context is run by the workers that async_run() creates and by    *)
(* the user's thread while it is inside run().  A thread runs one handler  *)
(* at a time.  A handler is split where another thread can see it half     *)
(* done: a session that is started and not yet in the list, a read loop    *)
(* between its two loads of exit_, close_sessions() between two sessions.  *)
(* The sections under sessions_mutex are one step.                         *)
(*                                                                         *)
(* What a message's task does is in SessionTask; here it asks for the end  *)
(* of its session or of the server, or throws.  What a writer sends is in  *)
(* AsyncWriter.                                                            *)
(***************************************************************************)
EXTENDS Naturals, Sequences, FiniteSets

CONSTANTS
  Workers,     \* threads that async_run() may create
  User,        \* the thread that owns the server
  Clients,     \* connections; each becomes at most one session
  NoSession,   \* no session
  MaxMessages  \* messages the clients send, together

ASSUME ThreadAssumption ==
  /\ User \notin Workers
  /\ NoSession \notin Clients
  /\ MaxMessages \in Nat

VARIABLES
  accept_op,   \* the async_accept: outstanding, completed, or none
  incoming,    \* the connection an accept completed with
  peer,        \* what each client does with its connection
  unread,      \* messages the clients have still to send
  started,     \* sessions on which start() was called
  sessions,    \* std::vector<std::shared_ptr<ServerSession>>
  exit_,       \* exit_ of each session's writer
  open,        \* is the session's socket open
  reading,     \* is an async_read_some outstanding
  tasks,       \* messages posted to the io_context and not yet run
  write_strand, \* tasks posted to each session's write strand
  pc,          \* where each thread is
  stopping_,   \* thread-local this_server().stopping()
  io,          \* the io_context
  ran          \* history: the threads that have been in io.run()

acceptVars  == <<accept_op, incoming>>
netVars     == <<peer, unread>>
listVars    == <<started, sessions>>
sessionVars == <<exit_, open, reading, tasks, write_strand>>
threadVars  == <<pc, stopping_, io, ran>>
vars == <<acceptVars, netVars, listVars, sessionVars, threadVars>>

Threads == Workers \cup {User}

At(place, s, todo) == [at |-> place, s |-> s, todo |-> todo]
Place(place) == At(place, NoSession, {})
Idle == Place("idle")

(* A worker that does not exist yet, a thread in io.run() with no handler, in
   the handler of an accept or a read, in close_sessions(); a worker that left
   io.run(); the user's thread outside run(), in stop(), and after it. *)
Places == {"none", "idle", "push", "reread", "closing", "exited", "outside",
           "joining", "joined"}

StrandTasks == {"shutdown", "remove", "exit", "stop"}

TypeOK ==
  /\ accept_op \in {"pending", "ok", "aborted", "none"}
  /\ incoming \in Clients \cup {NoSession}
  /\ peer \in [Clients -> {"none", "connected", "gone"}]
  /\ unread \in 0 .. MaxMessages
  /\ started \subseteq Clients
  /\ sessions \subseteq started
  /\ exit_ \in [Clients -> BOOLEAN]
  /\ open \in [Clients -> BOOLEAN]
  /\ reading \in [Clients -> BOOLEAN]
  /\ tasks \in [Clients -> Nat]
  /\ write_strand \in [Clients -> Seq(StrandTasks)]
  /\ pc \in [Threads -> [at : Places, s : Clients \cup {NoSession},
                         todo : SUBSET started]]
  /\ stopping_ \in [Threads -> BOOLEAN]
  /\ io \in {"running", "stopped", "terminated"}
  /\ ran \subseteq Threads

(* Server() listens and starts to accept; nothing runs the io_context yet. *)
Init ==
  /\ accept_op = "pending"
  /\ incoming = NoSession
  /\ peer = [s \in Clients |-> "none"]
  /\ unread = MaxMessages
  /\ started = {}
  /\ sessions = {}
  /\ exit_ = [s \in Clients |-> FALSE]
  /\ open = [s \in Clients |-> FALSE]
  /\ reading = [s \in Clients |-> FALSE]
  /\ tasks = [s \in Clients |-> 0]
  /\ write_strand = [s \in Clients |-> <<>>]
  /\ pc = [t \in Threads |-> Place(IF t = User THEN "outside" ELSE "none")]
  /\ stopping_ = [t \in Threads |-> FALSE]
  /\ io = "running"
  /\ ran = {}

Free(t) == io = "running" /\ pc[t] = Idle

Goes(t, to) == pc' = [pc EXCEPT ![t] = to]

(* An exception leaves io.run(): in a worker it ends the process, in run() it
   reaches the caller, who may catch it. *)
Escapes(t) ==
  \/ io' = "terminated" /\ UNCHANGED pc
  \/ t = User /\ Goes(t, Place("outside")) /\ UNCHANGED io

-----------------------------------------------------------------------------
(* The user's thread and the workers it creates. *)
UserAt(place) == io # "terminated" /\ pc[User] = Place(place)

EnterRun(t) ==
  /\ UserAt("outside")
  /\ Goes(t, Idle)
  /\ ran' = ran \cup {t}
  /\ UNCHANGED <<acceptVars, netVars, listVars, sessionVars, stopping_, io>>

(* async_run(): create_threads() makes one more thread. *)
AsyncRun(w) == pc[w] = Place("none") /\ EnterRun(w)

Run == EnterRun(User)

UserStep(from, to) ==
  /\ UserAt(from)
  /\ Goes(User, Place(to))
  /\ UNCHANGED <<acceptVars, netVars, listVars, sessionVars, stopping_, ran>>

(* Fault for a mutation run: stop() only joins. *)
StopOnlyJoins == UserStep("outside", "joining") /\ UNCHANGED io

(* Server::stop(), the first half of ~Server(). *)
Stop == UserStep("outside", "joining") /\ io' = "stopped"

JoinAll ==
  /\ \A w \in Workers : pc[w].at \in {"none", "exited"}
  /\ UserStep("joining", "joined")
  /\ UNCHANGED io

(* io.run() returns once the io_context is stopped. *)
Exit(t) ==
  /\ io = "stopped"
  /\ pc[t] = Idle
  /\ Goes(t, Place(IF t = User THEN "outside" ELSE "exited"))
  /\ UNCHANGED <<acceptVars, netVars, listVars, sessionVars, stopping_, io, ran>>

InHandler(t) ==
  pc[t].at \in {"push", "reread"} \/ (pc[t].at = "closing" /\ pc[t].s # NoSession)

(* A thread in io.run() also stops it when nothing is outstanding. *)
OutOfWork ==
  /\ \E t \in Threads : Free(t)
  /\ \A t \in Threads : ~InHandler(t)
  /\ accept_op = "none"
  /\ \A s \in Clients : ~reading[s] /\ tasks[s] = 0 /\ write_strand[s] = <<>>
  /\ io' = "stopped"
  /\ UNCHANGED <<acceptVars, netVars, listVars, sessionVars, pc, stopping_, ran>>

-----------------------------------------------------------------------------
(* Accepting. *)

(* The handler of async_accept: the session is made and starts to read. *)
OnAccept(t) ==
  /\ Free(t)
  /\ accept_op = "ok"
  /\ accept_op' = "none"
  /\ incoming' = NoSession
  /\ started' = started \cup {incoming}
  /\ open' = [open EXCEPT ![incoming] = TRUE]
  /\ reading' = [reading EXCEPT ![incoming] = TRUE]
  /\ Goes(t, At("push", incoming, {}))
  /\ UNCHANGED <<netVars, sessions, exit_, tasks, write_strand, stopping_, io, ran>>

(* remote_endpoint() throws for a peer that has reset the connection. *)
OnAcceptReset(t) ==
  /\ Free(t)
  /\ accept_op = "ok"
  /\ peer[incoming] = "gone"
  /\ accept_op' = "none"
  /\ incoming' = NoSession
  /\ Escapes(t)
  /\ UNCHANGED <<netVars, listVars, sessionVars, stopping_, ran>>

(* Fault for a mutation run: accept again in any case. *)
AcceptAlways(t) == accept_op' = "pending"

(* Accept again, unless this thread ran a function that stopped the server. *)
AcceptAgain(t) == accept_op' = IF stopping_[t] THEN "none" ELSE "pending"

(* The rest of the handler: the session is listed. *)
Push(t) ==
  /\ pc[t].at = "push"
  /\ sessions' = sessions \cup {pc[t].s}
  /\ Goes(t, Idle)
  /\ AcceptAgain(t)
  /\ UNCHANGED <<incoming, netVars, started, sessionVars, stopping_, io, ran>>

(* The handler of async_accept, an error: only logged. *)
OnAcceptError(t) ==
  /\ Free(t)
  /\ accept_op = "aborted"
  /\ AcceptAgain(t)
  /\ UNCHANGED <<incoming, netVars, listVars, sessionVars, threadVars>>

-----------------------------------------------------------------------------
(* Reading. *)

(* Fault for a mutation run: the session is not removed from the list. *)
ClosePostsNoRemove == <<"shutdown">>

(* ServerSession::close(): behind what the write strand holds, the closing of
   the socket and the removal from the list. *)
ClosePosts == <<"shutdown", "remove">>

(* Fault for a mutation run: close() does not mark the writer. *)
CloseUnmarked(s, before) ==
  /\ UNCHANGED exit_
  /\ write_strand' = [write_strand EXCEPT ![s] = before \o ClosePosts]

Close(s, before) ==
  /\ exit_' = [exit_ EXCEPT ![s] = TRUE]
  /\ write_strand' = [write_strand EXCEPT ![s] = before \o ClosePosts]

ReadDone(t, s, closed) ==
  /\ Free(t)
  /\ reading[s]
  /\ exit_[s] = closed
  /\ reading' = [reading EXCEPT ![s] = FALSE]
  /\ UNCHANGED <<acceptVars, peer, listVars, open, stopping_, io, ran>>

(* The handler of async_read_some on a closed session. *)
OnReadClosed(t, s) ==
  /\ ~open[s] \/ peer[s] = "gone" \/ unread > 0
  /\ ReadDone(t, s, TRUE)
  /\ UNCHANGED <<unread, exit_, tasks, write_strand, pc>>

(* No error: the task of the message is posted. *)
OnRead(t, s) ==
  /\ unread > 0
  /\ ReadDone(t, s, FALSE)
  /\ unread' = unread - 1
  /\ tasks' = [tasks EXCEPT ![s] = @ + 1]
  /\ Goes(t, At("reread", s, {}))
  /\ UNCHANGED <<exit_, write_strand>>

(* Fault for a mutation run: the loop stops once its buffer is used up. *)
ReadsAgainWithTasksOnly(s) == tasks[s] > 0

(* The second load of exit_. *)
ReadsAgain(s) == ~exit_[s]

(* The rest of the handler. *)
Reread(t) ==
  /\ pc[t].at = "reread"
  /\ reading' = [reading EXCEPT ![pc[t].s] = ReadsAgain(pc[t].s)]
  /\ Goes(t, Idle)
  /\ UNCHANGED <<acceptVars, netVars, listVars, exit_, open, tasks,
                 write_strand, stopping_, io, ran>>

(* eof or connection_reset: the session is closed. *)
OnEof(t, s) ==
  /\ peer[s] = "gone"
  /\ ReadDone(t, s, FALSE)
  /\ Close(s, write_strand[s])
  /\ UNCHANGED <<unread, tasks, pc>>

(* Any other error: only logged. *)
OnReadError(t, s) ==
  /\ peer[s] = "gone"
  /\ ReadDone(t, s, FALSE)
  /\ UNCHANGED <<unread, exit_, tasks, write_strand, pc>>

(* A message's task: the thread's stopping_ is reset. *)
TakeTask(t, s, stop) ==
  /\ Free(t)
  /\ tasks[s] > 0
  /\ tasks' = [tasks EXCEPT ![s] = @ - 1]
  /\ stopping_' = [stopping_ EXCEPT ![t] = stop]
  /\ UNCHANGED <<acceptVars, netVars, listVars, exit_, open, reading, ran>>

(* The bound function may set it and may ask for the end of the session;
   nothing is posted for it if the response is disabled. *)
RunTask(t, s, enabled, exit, stop) ==
  /\ TakeTask(t, s, stop)
  /\ write_strand' = [write_strand EXCEPT ![s] =
       @ \o (IF enabled /\ exit THEN <<"exit">> ELSE <<>>)
         \o (IF enabled /\ stop THEN <<"stop">> ELSE <<>>)]
  /\ UNCHANGED <<pc, io>>

(* The bound function throws in a session that does not suppress it. *)
RunThrows(t, s, stop) ==
  /\ TakeTask(t, s, stop)
  /\ Escapes(t)
  /\ UNCHANGED write_strand

-----------------------------------------------------------------------------
(* The write strand of a session: one task at a time. *)
Busy(s) == \E t \in Threads : pc[t].at = "closing" /\ pc[t].s = s

Runs(t, s, task) ==
  /\ Free(t)
  /\ ~Busy(s)
  /\ write_strand[s] # <<>>
  /\ Head(write_strand[s]) = task
  /\ UNCHANGED <<acceptVars, netVars, started, reading, tasks, stopping_, ran>>

Pop(s) == write_strand' = [write_strand EXCEPT ![s] = Tail(@)]

(* Who holds a shared_ptr to the session.  The tasks "exit" and "stop" hold
   none: they capture this alone. *)
Held(s) ==
  \/ s \in sessions
  \/ reading[s]
  \/ tasks[s] > 0
  \/ \E t \in Threads : \/ pc[t].at \in {"push", "reread"} /\ pc[t].s = s
                        \/ s \in pc[t].todo
  \/ \E i \in DOMAIN write_strand[s] :
       write_strand[s][i] \in {"shutdown", "remove"}

RunShutdown(t, s) ==
  /\ Runs(t, s, "shutdown")
  /\ Pop(s)
  /\ open' = [open EXCEPT ![s] = FALSE]
  /\ UNCHANGED <<sessions, exit_, pc, io>>

(* Server::close_session(). *)
RunRemove(t, s) ==
  /\ Runs(t, s, "remove")
  /\ Pop(s)
  /\ sessions' = sessions \ {s}
  /\ UNCHANGED <<exit_, open, pc, io>>

(* close(), asked for with this_session().post_exit(). *)
RunExit(t, s) ==
  /\ Runs(t, s, "exit")
  /\ Held(s)
  /\ Close(s, Tail(write_strand[s]))
  /\ UNCHANGED <<sessions, open, pc, io>>

(* A task that captured this alone finds its session gone: close() throws
   bad_weak_ptr, and any access may fail.  Reading parent_ may also succeed,
   which is RunStop. *)
RunFreed(t, s) ==
  /\ Runs(t, s, "exit") \/ Runs(t, s, "stop")
  /\ ~Held(s)
  /\ Pop(s)
  /\ Escapes(t)
  /\ UNCHANGED <<sessions, exit_, open>>

(* close_sessions(): under the mutex the list is copied and cleared. *)
CopySessions(t, s) == Goes(t, At("closing", s, sessions)) /\ sessions' = {}

(* close_sessions(), asked for with this_server().stop(). *)
RunStop(t, s) ==
  /\ Runs(t, s, "stop")
  /\ Pop(s)
  /\ CopySessions(t, s)
  /\ UNCHANGED <<exit_, open, io>>

(* Server::close_sessions(), called by the user. *)
UserCloseSessions ==
  /\ UserAt("outside")
  /\ CopySessions(User, NoSession)
  /\ UNCHANGED <<acceptVars, netVars, started, sessionVars, stopping_, io, ran>>

(* Each session of the copy is closed. *)
CloseNext(t, s) ==
  /\ pc[t].at = "closing"
  /\ s \in pc[t].todo
  /\ pc' = [pc EXCEPT ![t].todo = @ \ {s}]
  /\ Close(s, write_strand[s])
  /\ UNCHANGED <<acceptVars, netVars, listVars, open, reading, tasks,
                 stopping_, io, ran>>

(* Fault for a mutation run: the list is cleared when all are closed. *)
ClearedAtEnd == {}

(* close_sessions() does not touch the list again. *)
ListAtEnd == sessions

(* The acceptor is cancelled if this thread is stopping. *)
CloseDone(t) ==
  /\ pc[t].at = "closing"
  /\ pc[t].todo = {}
  /\ Goes(t, IF pc[t].s = NoSession THEN Place("outside") ELSE Idle)
  /\ accept_op' = IF stopping_[t] /\ accept_op = "pending" THEN "aborted"
                  ELSE accept_op
  /\ sessions' = ListAtEnd
  /\ UNCHANGED <<incoming, netVars, started, sessionVars, stopping_, io, ran>>

-----------------------------------------------------------------------------
(* External: a client connects, and leaves.  What clients do once no handler
   runs is of no account. *)
Connect(s) ==
  /\ io = "running"
  /\ accept_op = "pending"
  /\ peer[s] = "none"
  /\ peer' = [peer EXCEPT ![s] = "connected"]
  /\ accept_op' = "ok"
  /\ incoming' = s
  /\ UNCHANGED <<unread, listVars, sessionVars, threadVars>>

Leave(s) ==
  /\ io = "running"
  /\ peer[s] = "connected"
  /\ peer' = [peer EXCEPT ![s] = "gone"]
  /\ UNCHANGED <<acceptVars, unread, listVars, sessionVars, threadVars>>

-----------------------------------------------------------------------------
Accepting(t) == OnAccept(t) \/ OnAcceptReset(t) \/ OnAcceptError(t)

Reading(t, s) ==
  OnReadClosed(t, s) \/ OnRead(t, s) \/ OnEof(t, s) \/ OnReadError(t, s)

Message(t, s) ==
  \/ \E enabled, exit, stop \in BOOLEAN : RunTask(t, s, enabled, exit, stop)
  \/ \E stop \in BOOLEAN : RunThrows(t, s, stop)

Strand(t, s) ==
  RunShutdown(t, s) \/ RunRemove(t, s) \/ RunExit(t, s) \/ RunStop(t, s)
    \/ RunFreed(t, s)

SessionWork == \E t \in Threads, s \in Clients :
                 Reading(t, s) \/ Message(t, s) \/ Strand(t, s)

Closing(t) == (\E s \in Clients : CloseNext(t, s)) \/ CloseDone(t)

GoesOn(t) == Push(t) \/ Reread(t) \/ Closing(t) \/ Exit(t)

Next ==
  \/ \E w \in Workers : AsyncRun(w)
  \/ Run
  \/ Stop
  \/ JoinAll
  \/ UserCloseSessions
  \/ OutOfWork
  \/ \E t \in Threads : Accepting(t)
  \/ SessionWork
  \/ \E t \in Threads : GoesOn(t)
  \/ \E s \in Clients : Connect(s) \/ Leave(s)

(* The threads in io.run() run what is ready for a session: there is only so
   much of it, so this leaves none of it behind.  A thread inside a handler,
   close_sessions() or stop() goes on. *)
Fairness ==
  /\ WF_vars(SessionWork)
  /\ WF_vars(\E w \in Workers : GoesOn(w))
  /\ WF_vars(GoesOn(User) \/ JoinAll)

Spec == Init /\ [][Next]_vars
FairSpec == Spec /\ Fairness

-----------------------------------------------------------------------------
(* close_sessions() and close_session() find every session: one that is open
   is in the list, about to be put there by the thread that accepted it, or
   in the copy that a thread is closing. *)
OpenIsListed ==
  \A s \in started :
    ~exit_[s] =>
      \/ s \in sessions
      \/ \E t \in Threads : \/ pc[t].at = "push" /\ pc[t].s = s
                            \/ s \in pc[t].todo

(* The read loop of an open session goes on: a read is outstanding or its
   handler is about to start the next one.  The one exception is a client that
   left with an error the handler does not know: that session stays open,
   unread. *)
OpenReads ==
  \A s \in started :
    ~exit_[s] =>
      \/ reading[s]
      \/ \E t \in Threads : pc[t].at = "reread" /\ pc[t].s = s
      \/ peer[s] = "gone"

OneThread == Cardinality(ran) <= 1

(* The list keeps no closed session: one that is closed and listed is about to
   be removed.  This needs that a single thread runs the io_context; with two,
   a session that the one closes before the other has listed it stays
   (server.cpp:65-67). *)
ClosedIsLeaving ==
  OneThread =>
    \A s \in sessions :
      exit_[s] => \E i \in DOMAIN write_strand[s] : write_strand[s][i] = "remove"

Pushing(s) == \E t \in Threads : pc[t].at = "push" /\ pc[t].s = s

(* A session that is being closed comes to an end while a worker runs the
   server, whoever closed it: its socket is closed, its read is over, and it
   has left the list for good, unless it is closed before it was put there. *)
ClosedSessionsEnd ==
  \A s \in Clients :
    exit_[s] /\ write_strand[s] # <<>> /\ ~Pushing(s)
      ~> [](\/ ~open[s] /\ ~reading[s] /\ s \notin sessions
            \/ io # "running"
            \/ \A w \in Workers : pc[w].at = "none")

(* Server::stop() returns, whatever the workers are doing when it is called,
   unless an exception ended the process. *)
StopReturns ==
  pc[User].at = "joining" ~> (pc[User].at = "joined" \/ io = "terminated")

StopAsked ==
  \E s \in Clients :
    ~exit_[s] /\ \E i \in DOMAIN write_strand[s] : write_strand[s][i] = "stop"

(* this_server.h:16: stop() gracefully stops the server.  After a function of
   an open session called it, the server stops accepting. *)
StopStopsAccepting ==
  StopAsked ~> [](accept_op # "pending" \/ io # "running")

LastAsked(t) ==
  /\ StopAsked /\ stopping_[t] /\ ran = {t} /\ pc[t].at # "outside"
  /\ unread = 0 /\ \A s \in Clients : tasks[s] = 0

(* What is left of that promise: it holds if a single thread runs the server,
   async_run(1) or run(), and no message follows the one that asked. *)
LastStopStops ==
  \A t \in Threads :
    LastAsked(t)
      ~> [](\/ accept_op # "pending"
            \/ io # "running"
            \/ ran # {t}
            \/ pc[t].at = "outside")

-----------------------------------------------------------------------------
(* What makes OpenIsListed and OpenReads inductive: a completed accept has a
   connection; a thread pushes a session that was started; only a thread in
   close_sessions() holds a copy of the list; and what close() posts to a
   session's strand is posted to a session that is closed. *)
IncomingKnown == accept_op = "ok" => incoming \in Clients

PushesStarted == \A t \in Threads : pc[t].at = "push" => pc[t].s \in started

CopyInClosing == \A t \in Threads : pc[t].todo # {} => pc[t].at = "closing"

RemovedIsClosed ==
  \A s \in Clients : \A i \in DOMAIN write_strand[s] :
    write_strand[s][i] \in {"shutdown", "remove"} => exit_[s]

IInv ==
  /\ TypeOK
  /\ IncomingKnown
  /\ PushesStarted
  /\ CopyInClosing
  /\ RemovedIsClosed
  /\ OpenIsListed
  /\ OpenReads

-----------------------------------------------------------------------------
(* What makes ClosedIsLeaving inductive: a connection is accepted once; nothing
   happens to a session before it is started; handlers run in threads that are
   in io.run(); and with one such thread no other has a hand on the session that
   it is about to list. *)
AcceptedOnce ==
  /\ accept_op = "ok" => incoming \notin started /\ peer[incoming] # "none"
  /\ \A s \in started : peer[s] # "none"

NothingBeforeStart ==
  /\ \A s \in Clients \ started :
       ~exit_[s] /\ ~reading[s] /\ tasks[s] = 0 /\ write_strand[s] = <<>>
  /\ \A t \in Threads : pc[t].at = "reread" => pc[t].s \in started

HandlersInRun ==
  /\ IsFiniteSet(ran)
  /\ \A t \in Threads : pc[t].at = "idle" \/ InHandler(t) => t \in ran

PushesUnseen ==
  OneThread =>
    \A s \in Clients :
      Pushing(s) =>
        ~exit_[s] /\ s \notin sessions /\ \A t \in Threads : s \notin pc[t].todo

LeavingIInv ==
  /\ AcceptedOnce
  /\ NothingBeforeStart
  /\ HandlersInRun
  /\ PushesUnseen
  /\ ClosedIsLeaving

=============================================================================
