------------------------------- MODULE Client -------------------------------
(***************************************************************************)
(* rpc::Client (src/src/client.cpp, src/include/client.inl): user threads  *)
(* make calls and notifications, one io thread connects, writes, reads and *)
(* resolves the futures.                                                   *)
(*                                                                         *)
(* Every handler (strand task or completion) runs on that one thread, so   *)
(* each is one action.  The user's side of a call takes two steps, the     *)
(* atomic ++call_idx and the post, and other threads run in between.  The  *)
(* writer is the one of AsyncWriter with exit_ never set: it has at most   *)
(* one write in flight, for the front of its queue, so that operation is   *)
(* just a result here.                                                     *)
(*                                                                         *)
(* A request stands for its packed buffer.  Moving a buffer out of         *)
(* pending_calls leaves an empty one behind, which later flushes write     *)
(* again as a frame of zero bytes: Empty.                                  *)
(***************************************************************************)
EXTENDS Naturals, Sequences, FiniteSets

CONSTANTS
  Calls,        \* requests made with call() or async_call()
  SyncCalls,    \* those made with call()
  Notifies,     \* requests made with notify()
  Empty,        \* a buffer that was moved from
  NoCall,       \* no entry in ongoing_calls
  MaxIdx,       \* bound on call_idx, an int in the code
  MaxAttempts,  \* max_attempt_times of the default reconnectable
  Timeouts,     \* the settings users choose: TRUE for a timeout, FALSE for none
  Outages       \* BOOLEAN: may the peer refuse or break the connection

ASSUME RequestAssumption ==
  /\ Calls \cap Notifies = {}
  /\ SyncCalls \subseteq Calls
  /\ Empty \notin Calls \cup Notifies
  /\ NoCall \notin Calls

ASSUME BoundAssumption ==
  /\ MaxIdx \in Nat
  /\ MaxAttempts \in Nat \ {0}
  /\ Timeouts \subseteq BOOLEAN
  /\ Outages \in BOOLEAN

Requests == Calls \cup Notifies
Frames   == Requests \cup {Empty}
Ids      == 1 .. MaxIdx

VARIABLES
  call_idx,       \* std::atomic<int>
  idx,            \* the id each call was given, 0 before
  stage,          \* how far the user's thread is with each request
  strand,         \* tasks posted and not yet run
  ongoing_calls,  \* id -> the call whose promise is stored there
  pending_calls,  \* calls made before the connection was up
  is_connected,
  state,          \* ConnectionState
  failures,       \* failure_count of the default reconnectable
  connect_op,     \* the async_connect: in progress, completed, handled
  reading,        \* is an async_read_some outstanding
  write_queue,    \* writer->write_queue_
  write_op,       \* the async_write of the front of write_queue
  link,           \* the connection, as the kernel sees it
  wire,           \* history: the frames the kernel took, in order
  answered,       \* what the server answered to each call
  inbox,          \* responses not yet read from the socket
  future,         \* what each call's future holds
  timeout_val,    \* does the std::optional hold a value
  io,             \* is the io thread running
  posted          \* history: the requests in the order they were posted

ioVars   == <<is_connected, state, failures, connect_op, reading>>
userVars == <<call_idx, idx, stage, timeout_val, posted>>
sendVars == <<write_queue, write_op, wire>>
netVars  == <<link, answered, inbox>>
vars == <<ioVars, userVars, sendVars, netVars, strand, ongoing_calls,
          pending_calls, future, io>>

CallTask(c)   == [op |-> "call", arg |-> c]
NotifyTask(n) == [op |-> "notify", arg |-> n]
FlushTask     == [op |-> "flush", arg |-> 0]
EraseTask(i)  == [op |-> "erase", arg |-> i]

Tasks == {CallTask(c) : c \in Calls} \cup {NotifyTask(n) : n \in Notifies}
           \cup {FlushTask} \cup {EraseTask(i) : i \in 0 .. MaxIdx}

Outcomes  == {"none", "value", "error"}
Responses == [id : 0 .. MaxIdx, of : Calls, res : {"value", "error"}]
Stages    == {"idle", "numbered", "posted", "waiting", "timed", "returned",
              "timeout", "bad_access"}
NoFuture  == [of |-> NoCall, res |-> "none"]
Broken    == [of |-> NoCall, res |-> "broken_promise"]
Futures   == {NoFuture, Broken} \cup [of : Calls, res : {"value", "error"}]

TypeOK ==
  /\ call_idx \in 0 .. MaxIdx
  /\ idx \in [Calls -> 0 .. MaxIdx]
  /\ stage \in [Requests -> Stages]
  /\ strand \in Seq(Tasks)
  /\ ongoing_calls \in [0 .. MaxIdx -> Calls \cup {NoCall}]
  /\ pending_calls \in Seq(Frames)
  /\ is_connected \in BOOLEAN
  /\ state \in {"initial", "connected", "disconnected"}
  /\ failures \in 0 .. MaxAttempts
  /\ connect_op \in {"pending", "ok", "failed", "none"}
  /\ reading \in BOOLEAN
  /\ write_queue \in Seq(Frames)
  /\ write_op \in {"none", "pending", "ok", "broken_pipe", "error"}
  /\ link \in {"connecting", "refused", "connected", "broken"}
  /\ wire \in Seq(Requests)
  /\ answered \in [Calls -> Outcomes]
  /\ inbox \in Seq(Responses)
  /\ future \in [Calls -> Futures]
  /\ timeout_val \in BOOLEAN
  /\ io \in {"running", "returned", "terminated", "destroyed"}
  /\ posted \in Seq(Requests)

(* Client(): the connection attempt is started, then the io thread. *)
Init ==
  /\ call_idx = 0
  /\ idx = [c \in Calls |-> 0]
  /\ stage = [r \in Requests |-> "idle"]
  /\ strand = <<>>
  /\ ongoing_calls = [i \in 0 .. MaxIdx |-> NoCall]
  /\ pending_calls = <<>>
  /\ is_connected = FALSE
  /\ state = "initial"
  /\ failures = 0
  /\ connect_op = "pending"
  /\ reading = FALSE
  /\ write_queue = <<>>
  /\ write_op = "none"
  /\ link = "connecting"
  /\ wire = <<>>
  /\ answered = [c \in Calls |-> "none"]
  /\ inbox = <<>>
  /\ future = [c \in Calls |-> NoFuture]
  /\ timeout_val = FALSE
  /\ io = "running"
  /\ posted = <<>>

-----------------------------------------------------------------------------
(* The user's threads. *)
Usable == io \in {"running", "returned"}

(* Fault for a mutation run: two racing threads see one increment. *)
NextCallIdxNotAtomic(c) ==
  /\ Usable
  /\ stage[c] = "idle"
  /\ call_idx < MaxIdx
  /\ call_idx' \in {call_idx, call_idx + 1}
  /\ idx' = [idx EXCEPT ![c] = call_idx + 1]
  /\ stage' = [stage EXCEPT ![c] = "numbered"]
  /\ UNCHANGED <<timeout_val, posted, ioVars, sendVars, netVars, strand,
                 ongoing_calls, pending_calls, future, io>>

(* async_call(): the id is taken and the buffer packed. *)
NextCallIdx(c) ==
  /\ Usable
  /\ stage[c] = "idle"
  /\ call_idx < MaxIdx
  /\ call_idx' = call_idx + 1
  /\ idx' = [idx EXCEPT ![c] = call_idx']
  /\ stage' = [stage EXCEPT ![c] = "numbered"]
  /\ UNCHANGED <<timeout_val, posted, ioVars, sendVars, netVars, strand,
                 ongoing_calls, pending_calls, future, io>>

PostTask(r, task) ==
  /\ Usable
  /\ stage' = [stage EXCEPT ![r] = "posted"]
  /\ strand' = Append(strand, task)
  /\ posted' = Append(posted, r)
  /\ UNCHANGED <<call_idx, idx, timeout_val, ioVars, sendVars, netVars,
                 ongoing_calls, pending_calls, future, io>>

(* async_call(): the buffer and the promise go to the strand. *)
PostCall(c) == stage[c] = "numbered" /\ PostTask(c, CallTask(c))

Notify(n) == stage[n] = "idle" /\ PostTask(n, NotifyTask(n))

UserStep(c, to) ==
  /\ Usable
  /\ stage' = [stage EXCEPT ![c] = to]
  /\ UNCHANGED <<call_idx, idx, timeout_val, posted, ioVars, sendVars, netVars,
                 strand, ongoing_calls, pending_calls, future, io>>

(* call() reads the timeout after async_call() and waits. *)
Wait(c) ==
  /\ c \in SyncCalls
  /\ stage[c] = "posted"
  /\ UserStep(c, IF timeout_val THEN "timed" ELSE "waiting")

Return(c) ==
  /\ stage[c] \in {"timed", "waiting"}
  /\ future[c] # NoFuture
  /\ UserStep(c, "returned")

(* The wait ends first.  throw_timeout() reads the timeout again to build
   its message: another thread may have cleared it. *)
ThrowTimeout(c) ==
  /\ stage[c] = "timed"
  /\ UserStep(c, IF timeout_val THEN "timeout" ELSE "bad_access")

SetTimeout(b) ==
  /\ Usable
  /\ timeout_val # b
  /\ timeout_val' = b
  /\ UNCHANGED <<call_idx, idx, stage, posted, ioVars, sendVars, netVars,
                 strand, ongoing_calls, pending_calls, future, io>>

(* ~Client(), by the user once no thread is inside a call: io.stop() and
   join.  What is queued is dropped and the promises are broken. *)
Destroy ==
  /\ Usable
  /\ \A r \in Requests : stage[r] \notin {"numbered", "timed", "waiting"}
  /\ \A c \in SyncCalls : stage[c] # "posted"
  /\ io' = "destroyed"
  /\ strand' = <<>>
  /\ future' = [c \in Calls |->
                  IF stage[c] # "idle" /\ future[c] = NoFuture
                  THEN Broken ELSE future[c]]
  /\ UNCHANGED <<ioVars, userVars, sendVars, netVars, ongoing_calls,
                 pending_calls>>

-----------------------------------------------------------------------------
(* The io thread: strand tasks. *)

(* write() of each frame of s: the first one starts a write if the queue
   was empty. *)
WriteAll(s) ==
  /\ write_queue' = write_queue \o s
  /\ write_op' = IF write_queue = <<>> /\ s # <<>> THEN "pending" ELSE write_op
  /\ UNCHANGED wire

RunTask(op) ==
  /\ io = "running"
  /\ strand # <<>>
  /\ Head(strand).op = op
  /\ strand' = Tail(strand)

(* pending_calls is walked, not cleared: its buffers are moved from. *)
MovedFrom(s) == [i \in DOMAIN s |-> Empty]

Register(c) == ongoing_calls' = [ongoing_calls EXCEPT ![idx[c]] = c]

(* Fault for a mutation run: a call does not let the pending ones go first. *)
RunCallWithoutPending ==
  /\ RunTask("call")
  /\ Register(Head(strand).arg)
  /\ \/ /\ is_connected
        /\ WriteAll(<<Head(strand).arg>>)
        /\ UNCHANGED pending_calls
     \/ /\ ~is_connected
        /\ pending_calls' = Append(pending_calls, Head(strand).arg)
        /\ UNCHANGED sendVars
  /\ UNCHANGED <<ioVars, userVars, netVars, future, io>>

(* Fault for a mutation run: the promise is stored only on a connection. *)
RunCallRegistersLate ==
  /\ RunTask("call")
  /\ LET c == Head(strand).arg IN
       \/ /\ is_connected
          /\ Register(c)
          /\ WriteAll(Append(pending_calls, c))
          /\ pending_calls' = MovedFrom(pending_calls)
       \/ /\ ~is_connected
          /\ pending_calls' = Append(pending_calls, c)
          /\ UNCHANGED <<sendVars, ongoing_calls>>
  /\ UNCHANGED <<ioVars, userVars, netVars, future, io>>

(* post(buffer, idx, func_name, p): the promise is stored; the buffer is
   written behind the pending ones, or kept until the connection is up. *)
RunCall ==
  /\ RunTask("call")
  /\ LET c == Head(strand).arg IN
       /\ Register(c)
       /\ \/ /\ is_connected
             /\ WriteAll(Append(pending_calls, c))
             /\ pending_calls' = MovedFrom(pending_calls)
          \/ /\ ~is_connected
             /\ pending_calls' = Append(pending_calls, c)
             /\ UNCHANGED sendVars
  /\ UNCHANGED <<ioVars, userVars, netVars, future, io>>

(* post(buffer): a notification is written, connected or not. *)
RunNotify ==
  /\ RunTask("notify")
  /\ WriteAll(<<Head(strand).arg>>)
  /\ UNCHANGED <<ioVars, userVars, netVars, ongoing_calls, pending_calls,
                 future, io>>

(* Fault for a mutation run: the flush copies the buffers. *)
RunFlushCopies ==
  /\ RunTask("flush")
  /\ WriteAll(pending_calls)
  /\ UNCHANGED <<ioVars, userVars, netVars, ongoing_calls, pending_calls,
                 future, io>>

RunFlush ==
  /\ RunTask("flush")
  /\ WriteAll(pending_calls)
  /\ pending_calls' = MovedFrom(pending_calls)
  /\ UNCHANGED <<ioVars, userVars, netVars, ongoing_calls, future, io>>

RunErase ==
  /\ RunTask("erase")
  /\ ongoing_calls' = [ongoing_calls EXCEPT ![Head(strand).arg] = NoCall]
  /\ UNCHANGED <<ioVars, userVars, sendVars, netVars, pending_calls, future,
                 io>>

-----------------------------------------------------------------------------
(* The io thread: completion handlers. *)

(* Fault for a mutation run: connecting leaves the pending calls to the
   next call. *)
OnConnectedNoFlush ==
  /\ io = "running"
  /\ connect_op = "ok"
  /\ connect_op' = "none"
  /\ is_connected' = TRUE
  /\ state' = "connected"
  /\ reading' = TRUE
  /\ UNCHANGED <<failures, strand, userVars, sendVars, netVars, ongoing_calls,
                 pending_calls, future, io>>

(* Fault for a mutation run: connecting does not start to read. *)
OnConnectedNoRead ==
  /\ io = "running"
  /\ connect_op = "ok"
  /\ connect_op' = "none"
  /\ is_connected' = TRUE
  /\ state' = "connected"
  /\ strand' = Append(strand, FlushTask)
  /\ UNCHANGED <<reading, failures, userVars, sendVars, netVars,
                 ongoing_calls, pending_calls, future, io>>

(* The handler of async_connect, no error. *)
OnConnected ==
  /\ io = "running"
  /\ connect_op = "ok"
  /\ connect_op' = "none"
  /\ is_connected' = TRUE
  /\ state' = "connected"
  /\ strand' = Append(strand, FlushTask)
  /\ reading' = TRUE
  /\ UNCHANGED <<failures, userVars, sendVars, netVars, ongoing_calls,
                 pending_calls, future, io>>

(* The handler of async_connect, an error: reconnectable() counts it.  The
   refusal also settled a write that waited for the connection: the reactor
   completes both in one pass. *)
OnConnectFailed ==
  /\ io = "running"
  /\ connect_op = "failed"
  /\ write_op # "pending"
  /\ failures' = failures + 1
  /\ UNCHANGED <<is_connected, reading, strand, userVars, sendVars, answered,
                 inbox, ongoing_calls, pending_calls, future>>

(* Fault for a mutation run: retries without limit. *)
OnRetryForever ==
  /\ OnConnectFailed
  /\ connect_op' = "pending"
  /\ link' = "connecting"
  /\ UNCHANGED <<state, io>>

OnRetry ==
  /\ OnConnectFailed
  /\ failures' # MaxAttempts
  /\ connect_op' = "pending"
  /\ link' = "connecting"
  /\ UNCHANGED <<state, io>>

(* reconnectable() gives up: the handler throws out of io.run(), the
   thread's function, and the process is terminated. *)
OnConnectError ==
  /\ OnConnectFailed
  /\ failures' = MaxAttempts
  /\ connect_op' = "none"
  /\ state' = "disconnected"
  /\ io' = "terminated"
  /\ UNCHANGED link

(* The entries the first k responses of the inbox refer to. *)
Hits(k, c) == {i \in 1 .. k : ongoing_calls[inbox[i].id] = c}

(* A promise cannot be set twice: the exception escapes the handler. *)
SetTwice(k) ==
  \E c \in Calls : \/ \E i, j \in Hits(k, c) : i # j
                   \/ Hits(k, c) # {} /\ future[c] # NoFuture

(* Fault for a mutation run: the entry stays in ongoing_calls. *)
OnReadKeepsEntry ==
  /\ io = "running"
  /\ reading
  /\ \E k \in 1 .. Len(inbox) :
       /\ inbox' = SubSeq(inbox, k + 1, Len(inbox))
       /\ future' = [c \in Calls |->
                       IF Hits(k, c) = {} THEN future[c]
                       ELSE LET i == CHOOSE j \in Hits(k, c) : TRUE
                            IN  [of |-> inbox[i].of, res |-> inbox[i].res]]
       /\ UNCHANGED <<io, strand>>
  /\ UNCHANGED <<ioVars, userVars, sendVars, link, answered, ongoing_calls,
                 pending_calls>>

(* The handler of async_read_some, no error: one chunk holds k complete
   responses; each resolves the promise found under its id, and the erase is
   posted. *)
OnRead ==
  /\ io = "running"
  /\ reading
  /\ \E k \in 1 .. Len(inbox) :
       /\ inbox' = SubSeq(inbox, k + 1, Len(inbox))
       /\ future' = [c \in Calls |->
                       IF Hits(k, c) = {} \/ future[c] # NoFuture THEN future[c]
                       ELSE LET i == CHOOSE j \in Hits(k, c) : TRUE
                            IN  [of |-> inbox[i].of, res |-> inbox[i].res]]
       /\ io' = IF SetTwice(k) THEN "terminated" ELSE io
       /\ strand' = strand \o [i \in 1 .. k |-> EraseTask(inbox[i].id)]
  /\ UNCHANGED <<ioVars, userVars, sendVars, link, answered, ongoing_calls,
                 pending_calls>>

ReadEnds ==
  /\ io = "running"
  /\ reading
  /\ link = "broken"
  /\ reading' = FALSE
  /\ UNCHANGED <<is_connected, failures, connect_op, userVars, sendVars,
                 netVars, strand, ongoing_calls, pending_calls, future, io>>

(* The handler of async_read_some: eof, once all was read, or reset. *)
OnReadDisconnected == ReadEnds /\ state' = "disconnected"

(* The handler of async_read_some, any other error: only logged. *)
OnReadError == ReadEnds /\ UNCHANGED state

(* The handler of async_write (AsyncWriter). *)
WriteDone(res) ==
  /\ io = "running"
  /\ write_op = res
  /\ UNCHANGED <<ioVars, userVars, wire, netVars, strand, ongoing_calls,
                 pending_calls, future, io>>

PopFront ==
  /\ write_queue' = Tail(write_queue)
  /\ write_op' = IF Len(write_queue) > 1 THEN "pending" ELSE "none"

OnWritten == WriteDone("ok") /\ PopFront

(* Fault for a mutation run: the notification stays at the front. *)
OnBrokenPipeKeeps ==
  WriteDone("broken_pipe") /\ write_op' = "none" /\ UNCHANGED write_queue

OnBrokenPipe ==
  /\ WriteDone("broken_pipe")
  /\ \/ Head(write_queue) \in Notifies /\ PopFront
     \/ /\ Head(write_queue) \notin Notifies
        /\ write_op' = "none"
        /\ UNCHANGED write_queue

OnWriteError == WriteDone("error") /\ write_op' = "none" /\ UNCHANGED write_queue

(* io.run() returns when nothing is outstanding; later posts never run. *)
RunReturns ==
  /\ io = "running"
  /\ strand = <<>> /\ connect_op = "none" /\ ~reading /\ write_op = "none"
  /\ io' = "returned"
  /\ UNCHANGED <<ioVars, userVars, sendVars, netVars, strand, ongoing_calls,
                 pending_calls, future>>

-----------------------------------------------------------------------------
(* External: the kernel and the server.  A frame of zero bytes completes
   without touching the connection. *)
Settle(res) ==
  /\ io = "running"
  /\ write_op = "pending"
  /\ write_op' = res
  /\ UNCHANGED <<ioVars, userVars, write_queue, netVars, strand, ongoing_calls,
                 pending_calls, future, io>>

Transmit ==
  /\ Settle("ok")
  /\ \/ /\ Head(write_queue) = Empty
        /\ UNCHANGED wire
     \/ /\ Head(write_queue) # Empty
        /\ link \in {"connected", "broken"}
        /\ wire' = Append(wire, Head(write_queue))

FailPipe ==
  /\ link \in {"refused", "broken"}
  /\ Settle("broken_pipe")
  /\ Head(write_queue) # Empty
  /\ UNCHANGED wire

FailOther ==
  /\ link = "broken"
  /\ Settle("error")
  /\ Head(write_queue) # Empty
  /\ UNCHANGED wire

ConnectEnds(res, to) ==
  /\ io = "running"
  /\ connect_op = "pending"
  /\ connect_op' = res
  /\ link' = to
  /\ UNCHANGED <<is_connected, state, failures, reading, userVars, sendVars,
                 answered, inbox, strand, ongoing_calls, pending_calls, future,
                 io>>

Accepted == ConnectEnds("ok", "connected")
Refused  == Outages /\ ConnectEnds("failed", "refused")

Drop ==
  /\ link = "connected"
  /\ link' = "broken"
  /\ UNCHANGED <<ioVars, userVars, sendVars, answered, inbox, strand,
                 ongoing_calls, pending_calls, future, io>>

Break == Outages /\ Drop

(* The server answers each call it received once, in any order. *)
Answer(c, res) ==
  /\ link = "connected"
  /\ \E i \in DOMAIN wire : wire[i] = c
  /\ answered[c] = "none"
  /\ answered' = [answered EXCEPT ![c] = res]
  /\ inbox' = Append(inbox, [id |-> idx[c], of |-> c, res |-> res])
  /\ UNCHANGED <<ioVars, userVars, sendVars, link, strand, ongoing_calls,
                 pending_calls, future, io>>

-----------------------------------------------------------------------------
User(c) == NextCallIdx(c) \/ PostCall(c) \/ Wait(c) \/ Return(c)
             \/ ThrowTimeout(c)

IoThread ==
  \/ RunCall
  \/ RunNotify
  \/ RunFlush
  \/ RunErase
  \/ OnConnected
  \/ OnRetry
  \/ OnConnectError
  \/ OnRead
  \/ OnReadDisconnected
  \/ OnReadError
  \/ OnWritten
  \/ OnBrokenPipe
  \/ OnWriteError
  \/ RunReturns

Kernel == Transmit \/ FailPipe \/ FailOther

Next ==
  \/ \E c \in Calls : User(c)
  \/ \E n \in Notifies : Notify(n)
  \/ \E b \in Timeouts : SetTimeout(b)
  \/ Destroy
  \/ IoThread
  \/ Kernel
  \/ Accepted
  \/ Refused
  \/ Break
  \/ \E c \in Calls, res \in {"value", "error"} : Answer(c, res)

(* The io thread runs what is ready, a write and a connection attempt
   complete, and a thread inside async_call() goes on to post. *)
Fairness ==
  /\ WF_vars(IoThread)
  /\ WF_vars(Kernel)
  /\ WF_vars(Accepted \/ Refused)
  /\ \A c \in Calls : WF_vars(PostCall(c))

Spec == Init /\ [][Next]_vars
FairSpec == Spec /\ Fairness

-----------------------------------------------------------------------------
Count(s, r) == Cardinality({i \in DOMAIN s : s[i] = r})

(* The frames of write_queue that the kernel has not taken. *)
Unsent == IF write_op = "ok" THEN Tail(write_queue) ELSE write_queue

Copies(r) ==
  Count(strand, CallTask(r)) + Count(strand, NotifyTask(r))
    + Count(pending_calls, r) + Count(Unsent, r) + Count(wire, r)

(* A call is never lost and never sent twice, whatever the order in which
   callers, connection, flush and completions come: as long as the client
   lives a posted call is at exactly one of the strand, pending_calls, the
   write queue and the wire.  A notification is at most at one of them, and
   at none only if a connection failed. *)
OnePlace ==
  io \in {"running", "returned"} =>
    /\ \A c \in Calls :
         Copies(c) = IF stage[c] \in {"idle", "numbered"} THEN 0 ELSE 1
    /\ \A n \in Notifies :
         /\ Copies(n) <= 1
         /\ stage[n] # "idle" /\ Copies(n) = 0
              => failures > 0 \/ link \in {"refused", "broken"}

(* error.md:22: calls kept in pending_calls were never sent if no call
   followed the connection.  Once connected, a call in pending_calls has a
   flush coming. *)
PendingHasFlush ==
  (\E c \in Calls : Count(pending_calls, c) > 0) /\ is_connected /\ io = "running"
    => Count(strand, FlushTask) > 0

(* do_read() hands a response to the call that asked for it: ids do not
   collide, and an entry is not reused or erased before its answer is in. *)
RightAnswer ==
  \A c \in Calls :
    future[c].res \in {"value", "error"}
      => future[c] = [of |-> c, res |-> answered[c]]

(* Over ids, promises, pending calls and the strand, each call gets the outcome
   that the server gave for it, once, and no other; a future that is broken
   belongs to a client that is gone. *)
Result(c) == IF future[c].of \in {c, NoCall} THEN future[c].res ELSE "other's"

Remote == INSTANCE RemoteCall WITH
  made <- {c \in Calls : stage[c] # "idle"},
  outcome <- answered,
  result <- [c \in Calls |-> Result(c)]

ImplementsRemoteCall == Remote!CallSpec

(* The process dies only of a connection that was never established: no
   response, late or not, makes do_read() throw. *)
CrashOnlyUnreachable ==
  io = "terminated" => failures = MaxAttempts /\ ~is_connected

(* A response that is in finds the promise of its call, not set yet, also
   if the caller has timed out and gone. *)
AnswerFindsCall ==
  io = "running" =>
    \A i \in DOMAIN inbox :
      /\ ongoing_calls[inbox[i].id] = inbox[i].of
      /\ future[inbox[i].of] = NoFuture

(* ongoing_calls does not grow: the entry of a resolved call, timed out or
   not, is about to be erased. *)
NoLeak ==
  io = "running" =>
    \A i \in DOMAIN ongoing_calls :
      LET c == ongoing_calls[i] IN
        c # NoCall /\ future[c] # NoFuture => Count(strand, EraseTask(i)) > 0

Precedes(s, a, b) ==
  \E i, j \in DOMAIN s : i < j /\ s[i] = a /\ s[j] = b

(* Requests of one kind leave in the order they were posted: calls kept for
   the connection are not overtaken by later ones.  (A notification
   overtakes a call that is kept.) *)
SameKindInOrder ==
  \A a, b \in Requests :
    Precedes(wire, a, b) /\ (a \in Calls <=> b \in Calls)
      => Precedes(posted, a, b)

(* client.h:53-54 says of ~Client() that it is a graceful close that waits for
   the unfinished reads and writes.  Meant for a connection without outages. *)
GracefulDestroy ==
  io = "destroyed" => \A i \in DOMAIN posted : Count(wire, posted[i]) = 1

Lost == link = "broken" \/ io \in {"terminated", "destroyed"}

(* error.md:14 and error.md:22: a call that got its id reaches the wire, also
   over refused connection attempts and behind notifications they failed,
   unless the connection is lost or the client is gone. *)
CallsGetOut ==
  \A c \in Calls : stage[c] = "numbered" ~> (Count(wire, c) = 1 \/ Lost)

(* A call that was answered has its future resolved. *)
AnswersArrive ==
  \A c \in Calls : answered[c] # "none" ~> (future[c] # NoFuture \/ Lost)

-----------------------------------------------------------------------------
(* What makes RightAnswer inductive: ids are handed out once; whatever waits
   on the strand, in pending_calls, in the queue or on the wire has its id;
   an entry of ongoing_calls is under its call's id; and a response carries
   the id of the call it answers. *)
Known == {r \in Requests : stage[r] # "idle"}

KnownTasks ==
  {CallTask(c) : c \in Calls \cap Known}
    \cup {NotifyTask(n) : n \in Notifies \cap Known}
    \cup {FlushTask} \cup {EraseTask(i) : i \in 0 .. MaxIdx}

KnownOnly ==
  /\ strand \in Seq(KnownTasks)
  /\ pending_calls \in Seq(Known \cup {Empty})
  /\ write_queue \in Seq(Known \cup {Empty})
  /\ wire \in Seq(Known)

IdsDistinct ==
  /\ \A c \in Calls \cap Known : idx[c] \in 1 .. call_idx
  /\ \A c, d \in Calls \cap Known : idx[c] = idx[d] => c = d

EntriesMatch ==
  \A i \in 0 .. MaxIdx :
    ongoing_calls[i] # NoCall
      => ongoing_calls[i] \in Known /\ idx[ongoing_calls[i]] = i

InboxMatches ==
  \A i \in DOMAIN inbox :
    /\ inbox[i].of \in Known
    /\ inbox[i].id = idx[inbox[i].of]
    /\ inbox[i].res = answered[inbox[i].of]

(* What TypeOK needs: the attempts are not used up while the io thread runs,
   and a write in flight has a frame. *)
AttemptsLeft  == io = "running" => failures < MaxAttempts
WriteHasFrame == write_op # "none" => write_queue # <<>>

IInv ==
  /\ TypeOK
  /\ AttemptsLeft
  /\ WriteHasFrame
  /\ KnownOnly
  /\ IdsDistinct
  /\ EntriesMatch
  /\ InboxMatches
  /\ RightAnswer

-----------------------------------------------------------------------------
(* What makes OnePlace inductive: a connection attempt is one on a new
   connection, and a broken pipe was met on one that had failed. *)
Failed == failures > 0 \/ link \in {"refused", "broken"}

ConnectsAnew == connect_op = "pending" => link = "connecting"
PipeFailed   == write_op = "broken_pipe" => Failed

PlaceIInv ==
  /\ ConnectsAnew
  /\ PipeFailed
  /\ OnePlace

(* What makes AnswerFindsCall and NoLeak inductive: only a call that was sent
   is answered, and once; a call that was run and not resolved has its entry;
   an erase is for a call that is resolved; and the destructor alone breaks
   promises. *)
Within(s, x) == \E i \in DOMAIN s : s[i] = x

AnsweredSent == \A c \in Calls : answered[c] # "none" => Within(wire, c)

AnsweredOnce == \A i, j \in DOMAIN inbox : inbox[i].of = inbox[j].of => i = j

Registered ==
  io = "running" =>
    \A c \in Calls :
      stage[c] \notin {"idle", "numbered"} /\ future[c] = NoFuture =>
        ongoing_calls[idx[c]] = c \/ Within(strand, CallTask(c))

EraseResolved ==
  \A i \in DOMAIN strand :
    strand[i].op = "erase" =>
      \E c \in Calls \cap Known :
        idx[c] = strand[i].arg /\ future[c] # NoFuture

BrokenAtEnd == io # "destroyed" => \A c \in Calls : future[c] # Broken

ConnectedDone == is_connected => connect_op = "none"

AnswerIInv ==
  /\ AnsweredSent
  /\ AnsweredOnce
  /\ Registered
  /\ EraseResolved
  /\ BrokenAtEnd
  /\ ConnectedDone
  /\ AnswerFindsCall
  /\ NoLeak
  /\ PendingHasFlush
  /\ CrashOnlyUnreachable

(* What makes SameKindInOrder inductive: the order is right all along the line
   from the wire over the write queue and the kept calls to the strand, where
   only a notification may have overtaken, and what is in the line was posted. *)
Carried(s) ==
  [i \in DOMAIN s |-> IF s[i].op \in {"call", "notify"} THEN s[i].arg ELSE Empty]

Line == wire \o Unsent \o pending_calls \o Carried(strand)

LineInOrder ==
  \A a, b \in Requests :
    Precedes(Line, a, b) /\ (b \in Calls => a \in Calls)
      => Precedes(posted, a, b)

LinePosted == \A r \in Requests : Within(Line, r) => Within(posted, r)

KeptAreCalls == \A n \in Notifies : ~Within(pending_calls, n)

OrderIInv == LineInOrder /\ LinePosted /\ KeptAreCalls

(* What a call finds ahead of it: each request is posted once, a notification
   posted before a call is in the line with it unless a connection failed, and
   there is no wire without a connection. *)
PostedOnce ==
  /\ \A r \in Requests : Within(posted, r) => stage[r] \notin {"idle", "numbered"}
  /\ \A i, j \in DOMAIN posted : posted[i] = posted[j] => i = j

NoneLeftBehind ==
  \A n \in Notifies, c \in Calls :
    Precedes(posted, n, c) /\ Within(Line, c) => Within(Line, n) \/ Failed

WireConnected == wire # <<>> => failures > 0 \/ link \in {"connected", "broken"}

AheadIInv == PostedOnce /\ NoneLeftBehind /\ WireConnected

CallIInv == PlaceIInv /\ AnswerIInv /\ OrderIInv /\ AheadIInv

=============================================================================
