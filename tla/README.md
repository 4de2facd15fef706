# A TLA+ model of the RPC library

The repository is a msgpack-RPC library on Boost.Asio: a `Client` that calls
functions by name, a `Server` that binds functions and answers, and the
connection code both share. This directory models its concurrent core, checks
it with TLC on small instances, and proves the main results with TLAPS for all
instances. Source paths below are relative to `src/`.

## The system

| Component | State | Operations | Interacts with |
|---|---|---|---|
| `AsyncWriter` (`src/detail/async_writer.cpp`) | `socket_`, `write_strand_`, `exit_` (atomic), `write_queue_` | `write`, `do_write` and its completion handler, `close`, `is_closed` | owned by a client; base class of a session |
| `Client` (`src/client.cpp`, `include/client.inl`) | `call_idx` (atomic), `ongoing_calls`, `pending_calls`, `is_connected`, `state`, `timeout_val`, the unpacker, one io thread | `call`, `async_call`, `notify`, timeout settings, `do_connect`, `do_read`, `~Client` | the writer; user threads post to its strand, the io thread resolves their futures |
| `Dispatcher` (`src/dispatcher.cpp`, `include/dispatcher.inl`) | `funcs_` | `bind`, `unbind`, `dispatch` of calls and notifications | called by a session's tasks on any worker |
| `Response` (`src/detail/response.cpp`) | id, error, result, `empty_` | `make_result`, `make_error`, `capture_*`, `data` | returned by `dispatch`, packed on the write strand |
| `this_handler`, `this_session`, `this_server` | thread-local flags and object handles | `respond`, `respond_error`, `disable_response`, `post_exit`, `stop` | called by bound functions, read by the session's task and by the server |
| `ServerSession` (`src/detail/server_session.cpp`) | `read_strand_`, unpacker, `suppress_exceptions_`, what it inherits | `start`, `do_read`, `close` | posts a task per message to the io_context, the task posts to the write strand; removes itself from the server |
| `Server` (`src/server.cpp`) | acceptor, `sessions` under `sessions_mutex`, workers, `suppress_exception` | accept loop, `run`, `async_run`, `close_session(s)`, `stop`, move | owns the sessions |
| `ThreadGroup` | the worker threads | `create_threads`, `join_all` | used by `Server` |
| logging, function traits, errors | – | formatting, compile-time code, exception types | read by nothing in the protocol |

What is hard about it:

- Three kinds of thread meet: user threads, the client's io thread, the
  server's workers. What they share is serialised by strands, by being the
  only thread, by a mutex, or by nothing (`timeout_val`, `funcs_`).
- Order is promised across asynchronous hand-overs: `write()` and the completion
  handler pass on the duty to start the next write; calls made before the
  connection is up wait in `pending_calls`; a close must follow a response.
- Connections are refused, retried with a limit, and lost; a call can time out
  and be answered later.
- Thread-local objects outlive the message they were meant for.
- `close()`, `~Client()` and `this_server().stop()` may come at any point.

What makes the components correct:

- *AsyncWriter*: one write at a time, of the front frame; frames in order, none
  twice, none skipped except a failed notification; no silent stall; a close
  takes effect.
- *Client*: each answer goes to its own call; a call is neither lost nor sent
  twice; calls do not overtake each other; nothing leaks in `ongoing_calls`;
  the process ends only when the server cannot be reached; calls get out and
  answers come in.
- *Dispatcher and session task*: each call is answered once with what its own
  function asked for; the response comes before the close its function asked for;
  a function closes its session only if it asked to, and one that asked does (a stop
  of the server does not always: it may miss a session that is not listed yet).
- *ServerSession, Server*: an open session is in the list or on its way, and keeps
  reading; a session being closed ends and leaves the list; the list keeps no
  closed session; `stop()` returns; after `this_server().stop()` nothing more is
  accepted (this one fails with several threads, and holds with one).
- *Client and session together*: a call's function ends at most once and its
  caller gets that function's outcome; a call on a connection that lives comes
  back; what a notification did is there for the call made after it.

## Modules

| Module | What it is |
|---|---|
| `AsyncWriter` | The writer of one connection. Strand handlers are split at their loads of `exit_`, since another thread may store it in between. |
| `FrameChannel` | What a writer promises: the abstract specification `AsyncWriter` implements. |
| `Client` | The client: user threads, io thread, kernel and server. Contains the writer as the client uses it (one io thread, never closed). |
| `Dispatcher` | `dispatch()`, `Response` and the precedence of responses as operators. |
| `SessionTask` | A session's messages, from the read handler over worker threads to the write strand, with the thread-local objects. |
| `Server` | The server with its threads and sessions: running, accepting, the read loop, `close()` from every side, the session list, stopping and joining. |
| `RemoteCall` | What the library promises the caller of a function: the abstract specification that `Client` implements for the answers it gets, and `System` for the functions themselves. |
| `System` | `Client` and `SessionTask` composed over a connection. |
| `MCAsyncWriter`, `MCClient`, `MCSessionTask`, `MCServer`, `MCSystem` | The instances for TLC. |
| `AsyncWriterProofs` | Theorems about the writer and their proofs. |
| `ClientProofs`, `ClientLineProofs`, `ClientAnswerProofs` | About the client: ids and the refinement of `RemoteCall`; where the buffer of a call is, and in which order; what becomes of its entry and its answer. |
| `SessionTaskProofs`, `SessionResponseProofs` | About the session: thread-locals and closes; responses. |
| `ServerProofs` | About the server and the session list. |
| `SystemProofs` | That the parts run in `System` as by themselves, and that `System` implements `RemoteCall`. |

### AsyncWriter

Variables named as in the code are the members of the class. `strand` is what
was posted and not yet run, `pc` the position of the strand between the two
loads of `exit_`, `ops` the outstanding `async_write` operations with their
results (a sequence, so that a second one in flight would be seen). `accepted`
and `wire` are histories.

| Action | Code |
|---|---|
| `PostWrite` | a session posting a response, a client's task reaching `write()` |
| `Write` | `write()` up to the call of `do_write()` |
| `DoWrite` | `do_write()` up to the start of `async_write` |
| `OnWritten`, `OnBrokenPipe`, `OnError` | the three outcomes in the completion handler; the first and a dropped notification continue with `PopFront` |
| `CloseStore`, `ClosePost`, `CloseSocket` | `close()` on any thread (the store, then the post) and the task it posts |
| `Retry` | the owner's next connection attempt |
| `Transmit`, `FailPipe`, `FailOther`, `Connect`, `Refuse`, `Break` | kernel and peer: external |

`Init` chooses between a client's writer (a socket that is connecting, frames of
both kinds, never closed) and a session's (an accepted socket, responses only,
closed by any of `Closers`).

A notification is told from other frames by its three msgpack fields, as the
code does on `broken_pipe`. A send on a connecting socket waits for the outcome;
on a refused one it fails with `EPIPE`.

### Client

`stage` follows the user's thread: `NextCallIdx` and `PostCall` are the two
halves of `async_call()`, so other threads' steps come between them. `Wait`,
`Return` and `ThrowTimeout` are `call()`; `throw_timeout()` reads the setting a
second time. Strand tasks (`RunCall`, `RunNotify`, `RunFlush`, `RunErase`) and
completion handlers (`OnConnected`, `OnRetry`, `OnConnectError`, `OnRead`,
`OnReadDisconnected`, `OnReadError`, `OnWritten`, `OnBrokenPipe`,
`OnWriteError`) run on the only io thread and are atomic. `RunReturns` is
`io.run()` running out of work, after which posted tasks stay where they are.
`Destroy` is `~Client()`.

Details kept because they decide the properties: `pending_calls` is never
cleared but its buffers are moved from, so later flushes write frames of zero
bytes (`Empty`); `is_connected` is never reset; the last failed attempt throws
out of the io thread's function and ends the process; setting a promise twice
does too; one chunk read from the socket may hold several responses.

`Answer` is the server and stays free to answer what it likes, once per request
on the wire; `Drop` is a server that ends the connection. `System` takes the place
of both.

### Dispatcher and SessionTask

`dispatch_call` and `dispatch_notification` say what is returned for each way a
bound function can end. The exceptions behind `respond()` and
`respond_error()` are caught and fall through to the error for an unknown
function, which `Precedence` then combines with what the handler set.

`Unpack` is one turn of the read handler's loop; `Take` a worker starting the
posted task, with the resets of the thread-local objects; `EnableResponse`,
`PostExit` and `StopServer` are what a bound function may call; `Finish` is the
end of the function, the rest of the task and what it posts to the write
strand; `RunWrite`, `RunClose` and `RunCloseSessions` the strand. A client sends each
message once (`Unpack` takes no message twice): that is an assumption on the wire,
which for requests of this library's client is `OnePlace`.

A session is read from before it is listed (`server.cpp:65-67`): `starter` is the
worker that is still in its accept handler, which is busy until `Push` lists the
session. Everything that closes a session is an action: its functions' `post_exit()`
(`RunClose`) and `stop()` (`RunCloseSessions`, which like `Server::close_sessions()`
closes only a session that is listed), its client (`OnEof`), the user and the
functions of other sessions (`CloseSessions`). `closer` is a history of which it was.
`close_sessions()` is one step here; `Server` has its copy and its closes apart, and
the accept handler too, with every session of the server. `zones` counts the objects each
thread-local handle has owned: a response that points to an earlier one points
to freed memory.

### Server

`pc` says where each thread is: a worker is `"none"` until `async_run()` creates it
(`AsyncRun`), `"idle"` inside `io.run()`, `"exited"` after it; the user's thread is
`"outside"` until it calls `run()` (`Run`), `stop()` or `close_sessions()`. A handler
is one step unless another thread can see it half done: `OnAccept` / `Push` (the
session is started before it is listed), `OnRead` / `Reread` (two loads of `exit_`),
`CopySessions` / `CloseNext` / `CloseDone` (`close_sessions()` closes outside the
mutex). The sections under `sessions_mutex` are one step each. `stopping_` is kept
per thread, as it is in the code; so the thread that closes the sessions or
re-arms the acceptor need not be the one whose function asked to stop. `RunTask`
is a message's task reduced to what it asks for and `RunThrows` one whose function
throws; `write_strand` is a session's strand with the two tasks of `close()` and
the two that capture `this` alone. `Held` lists who owns the session; `RunFreed` is
what happens to those two tasks when nobody does. `OnAcceptReset` is the exception
of `remote_endpoint()`. An exception that leaves `io.run()` (`Escapes`) ends the
process on a worker; in `run()` it reaches the caller, who is then outside again.
`Exit` and `OutOfWork` are the two ways for `io.run()` to return. `ran` is a history
of the threads that were in it.

A write in flight also holds its session; it is left out, which only makes
`RunFreed` come earlier.

### System

`System` instantiates `Client` and `SessionTask` and lets each step by itself.
What it adds is the connection: `Deliver` hands the next frame the client's kernel
took to `Unpack`, as a call or a notification by its number of fields; `Reply`
hands the next response the session wrote to the client's inbox, as the error or
the value that `data()` packed (`Reads`); `Hangup` ends the connection when the
session is closed or the server's process has ended; a session finds the end of its
connection (`OnEof`) once the client has lost it. The accept handler lists a session
only after the connection was made (`HasSession`). Between client and session the
bytes may stay on the way for ever, as when the connection breaks. The server's writer is
left out of `System`: `AsyncWriter` shows that it keeps order.

In this module functions may call `post_exit()` and `disable_response()`, return,
throw or call `respond_error()` (`FunctionEndings`), and `bind()` may come at any
time between functions. `respond()`, `unbind()` and `this_server().stop()` by the
session's own functions are not repeated here; they are in `SessionTask`. A stop by
another session or by the user is here (`CloseSessions`).

## Runs

| Run | Instance | Result |
|---|---|---|
| `writer` | 3 calls and 2 notifications over refused, retried and broken connections, or 3 responses and 2 closing threads over a connection that may break; fairness | `IInv`, `OneWriteAtATime`, `NoSilentStall`, `ImplementsChannel`, `FramesSettle`, `CloseDrains` hold |
| `writer_graceful_close` | 2 frames, 1 closing thread, no outage | `GracefulClose` violated |
| `client_safety` | 2 asynchronous calls, 1 notification, outages, 2 attempts | `IInv`, `CallIInv`, `RightAnswer`, `OnePlace`, `AnswerFindsCall`, `PendingHasFlush`, `CrashOnlyUnreachable`, `SameKindInOrder`, `ImplementsRemoteCall` hold |
| `client_liveness` | 1 waiting call, 2 notifications, outages, timeout set and cleared, 2 attempts, fairness | `AnswerFindsCall`, `NoLeak`, `CallsGetOut`, `AnswersArrive` hold |
| `client_graceful_destroy` | 1 call, 1 notification | `GracefulDestroy` violated |
| `session_task` | 2 workers, 2 messages of any kind, fairness | `IInv`, `ResponseIInv`, `OwnResponse`, `WriteBeforeClose`, `ClosesAreAsked`, `CallsAnswered`, `ExitHappens`, `StopHappens` hold |
| `session_respond` | 1 worker, 2 messages | `SpecialResponseUsed` violated |
| `session_dangling` | 1 worker, 2 messages | `NoDanglingResponse` violated |
| `server_safety` | 2 workers and the user, 2 clients, 1 message | `IInv`, `LeavingIInv`, `OpenIsListed`, `OpenReads`, `ClosedIsLeaving` hold |
| `server_liveness` | 1 worker and the user, 1 client, 3 messages, fairness | `ClosedSessionsEnd`, `StopReturns`, `LastStopStops` hold |
| `server_stop` | 2 workers and the user, 1 client, 1 message, fairness | `StopStopsAccepting` violated |
| `system` | 1 call, 1 notification, 1 worker, outages, 2 attempts, 3 endings of functions, fairness | `LinkIInv`, `NotifyThenCall`, `ImplementsRemoteCall`, `CallsReturn` hold |

What the properties say, in the order of the modules:

- `NoSilentStall`: a writer that is not closed stops serving a non-empty queue
  only on a failed write that is not a notification's broken pipe.
- `FramesSettle`, `CloseDrains`: every frame leaves the queue unless the connection
  breaks; a close ends with the socket closed and nothing in flight.
- `SameKindInOrder`: calls keep their order, and so do notifications. A notification
  may leave before a call made earlier that waits for the connection: that is what
  the code does, and no property excludes it.
- `OnePlace`: a posted call is at exactly one of strand, `pending_calls`, queue, wire.
- `PendingHasFlush`: once connected, a pending call has a flush coming.
- `RightAnswer`, `AnswerFindsCall`, `NoLeak`: responses resolve their own call, also
  a call that timed out, and the entry is erased.
- `CrashOnlyUnreachable`: the process ends only after the last attempt failed.
- `ImplementsRemoteCall`: each call is made once and its future is set at most once;
  in `Client` to what the server answered to that call, in `System` to how the
  call's own function ended, which happens at most once.
- `OwnResponse`, `ClosesAreAsked`: nothing of the thread-local objects leaks from one
  message to the next, neither into a response nor into a close: each close on the
  strand was asked for by the function it is posted for, and a session closed by one
  had a function that asked. Other closers are free to close the session at any time.
- `ExitHappens`: an exit that a function posted happens, however the function ended;
  only a disabled response swallows it.
- `StopHappens`: a stop closes the session of the function that asked, if the session
  is listed while the function runs. Without that condition the code does not keep
  it: with two workers, `close_sessions()` misses a session that another thread has
  started and not yet pushed (`server.cpp:65-67`), which then stays open.
- `OpenIsListed`: an open session is in the list, in a copy that is being closed, or
  about to be listed by its accept handler. The last is the gap in which
  `close_sessions()` misses a session.
- `OpenReads`: an open session reads, or its client has left.
- `ClosedIsLeaving`: with one thread, a listed session that is closed is about to be
  removed. With two, a session closed between its start and its listing stays in
  the list until the next `close_sessions()`, and no property says otherwise: the
  condition `OneThread` leaves that case out.
- `ClosedSessionsEnd`: a session that is being closed ends up closed, unread and
  unlisted for good, unless it was closed before it was listed.
- `LastStopStops`: what is left of `StopStopsAccepting`: one thread runs the server
  and no message follows the one that asked.
- `IInv`, `CallIInv`, `ResponseIInv`, `LeavingIInv`, `LinkIInv`: the inductive invariants of
  the proofs below, checked on the instances too. `LinkIInv` by itself says that
  every answer the client has is the outcome of that call's own function
  (`AnswersOwn`), that the session unpacks only what was made, and that its queue
  follows the wire (`TurnIInv`).
- `NotifyThenCall`: with one worker, a call's function finds ended the function of a
  notification its client posted before, as `example/subscribe_client.cpp:22-23`
  expects; only a failed connection attempt or a broken connection excuses it.
- `CallsReturn`: a call on a connection that lives comes back, through
  `pending_calls`, both queues, both strands and a worker.

Deadlock is not checked: a client, a session or a server that has served every
request of the instance rests, and so does one whose io thread ended.

### Bounds

- Two calls are enough for two ids, two promises and two buffers to be mixed up,
  for one call to be pending and another to come after the connection, and for
  one chunk to hold two responses. The notification in front of or between them
  gives the third position of the queue; in `client_liveness` two notifications
  fail one after the other.
- `MaxAttempts` is 2 in the runs and 5 in the code. With 2 there is a failure
  that is retried and a failure that is the last; the proofs have it arbitrary.
- `MaxIdx` equals the number of calls: each call takes one id. That
  `call_idx` wraps at the width of an `int` is out of reach.
- Two workers and two messages in `session_task`: two functions overlap, and a
  worker takes a second message after its first, on one thread and on two. With
  one worker two of the violations are already there.
- The `RunSpec` of `session_task` (in `MCSessionTask`) bounds what surrounds the
  messages: functions are bound and unbound before they come, the client and the
  server close the session while at most one has come, and a function asks for the
  end of its session or of the server, not for both. The two messages come in a
  fixed order and a fixed worker accepts the session, which loses nothing, as
  messages and workers are alike. The safety properties are proved without any of
  this; for `CallsAnswered`, `ExitHappens` and `StopHappens` the two messages, two
  workers and one accept handler are what there is to interleave.
- `server_safety` has two connections, so that one is accepted or closed while a
  thread walks the copy of the list; one message gives one function that stops,
  and three threads can be in three handlers at once.
- `server_liveness` has one worker beside the user's thread, which is a second one
  when it calls `run()`, and one connection closed in several ways at once. Three
  messages let a task reset `stopping_` before and after the one that sets it, and
  a task follow a close. Its properties speak of one session at a time.
- `system` has one call and one notification: the call is made before or after the
  notification, before or after the connection, and both meet in one worker's
  thread-locals. Two calls on one client are in `client_safety`, two workers on one
  session in `session_task`. An attempt is refused once or twice. In its `RunSpec` (in
  `MCSystem`) the user does not close the session, and the session sees its client
  go only before it has unpacked anything: the closed session is in `session_task`,
  and the proofs have both at any time. No call of it times
  out: late answers are in `client_liveness`, and proved in `ClientAnswerProofs`.
- Neither `RunSpec` restricts an action that `Fairness` speaks of.
- Symmetry is used only in `client_safety`, which checks no liveness.
  The `CHOOSE` of `OnRead` ranges over numbers, not over permuted values.

### Fairness

Weak fairness only, on what the program and the system keep doing by
themselves: a thread inside `io.run()` runs ready handlers; an `async_write` and
a connection attempt end; a thread inside `close()`, `close_sessions()`, `stop()` or
`async_call()` goes on; a bound function ends (one that never returns blocks its
worker). Nothing is assumed of users, of the peer, of timeouts or of the
connection: it may stay refused, break or answer nothing, and the properties
say what is left then.

`Server` has three conditions: the sessions' handlers and tasks together, the
workers inside a handler or leaving `io.run()` together, and the user's thread
inside `run()`, `close_sessions()` or `stop()`. Each group has only finitely much to do in
an instance (connections and messages are bounded and every step uses one up or
moves a thread out of a handler), so weak fairness of the group leaves none of it
undone; one condition per action would say the same. Nothing makes a thread
accept a connection. `SessionTask` has one condition for the strand, whose tasks end
in any case, and one for the accept handler's `Push`. `System` has one condition for the client's side (a
condition on its steps with the rest unchanged) and one for the session and the
connection, by the same argument; a frame that the kernel took is delivered as
long as the connection lives, a response that was written arrives.

### Disagreements found

- `close()` of the writer and `~Client()` are called graceful in the comments of
  `async_writer.h` and `client.h`. Both drop what is queued.
- `this_server().stop()` is documented to stop the server gracefully. Whether the
  acceptor is cancelled depends on which worker closes the sessions and which one
  re-arms it, since `stopping_` is thread-local.
  It may also miss the very session whose function asked for it: a session is started
  before it is listed, and `close_sessions()` closes only what is listed. That session
  stays open and is served on; no run shows it by itself, `StopHappens` excepts it.
- A special response set with `respond()` is sent together with the error
  "could not find function", and packing keeps both, although `response.h` says
  the result is discarded.
- `capture_result()` and `capture_error()` copy an object but not the memory it
  refers to. The next message on the thread may free it before the response is
  packed.

Seen while modelling, without a statement in the repository that speaks of it: a
session can be listed after it was closed; the tasks at `server_session.cpp:108`
and `:115` may outlive their session; a peer that resets its connection early
makes the accept handler throw; a read error other than eof and reset leaves a
session open and unread; a notification overtakes a call that waits for the
connection; a client whose `io.run()` has returned takes calls it never serves;
a function that disables its response and asks for an exit gets none.

## Proofs

`AsyncWriterProofs`, for any frames, any number of closing threads, with or
without outages, on either owner:

- `WriterInvariant`: `Spec => []IInv`. `OneWriteAtATime` is not inductive: it
  needs `DoWriteReady` (between the halves of a handler nothing is in flight and
  there is a frame to write), and the refinement needs `QueueIsSuffix` (the queue
  is the last part of what `write()` took in).
- `WriterTypes`, `SingleWriter`: the invariant's parts.
- `StallsOnlyOnFailure`: the action property `NoSilentStall`, one case per action.
- `WriterImplementsChannel`: initial states map to initial states, and every step
  is a `Take`, a `Send`, a `GiveUp` or leaves the channel alone. A frame is
  settled from the moment the kernel took it, before its handler pops it.

`ClientProofs`, for any calls, notifications, id bound, attempts and timeouts:

- `ClientInvariant`: `Spec => []IInv`. `RightAnswer` needs that ids are distinct
  (`IdsDistinct`), that an entry is under its call's id (`EntriesMatch`), that a
  response carries the id of the call it answers (`InboxMatches`) and that only
  requests that were made are anywhere (`KnownOnly`); `TypeOK` needs
  `AttemptsLeft` and `WriteHasFrame`.
- `ClientTypes`, `AnswersAreRight`: its parts.
- `ClientRefinesRemoteCall`: the client implements `RemoteCall`. A step numbers a call
  (`Make`), is the server's answer (`Execute`), reads a chunk of responses (`Resolve`:
  `FuturesStay` and `ReadResolves` show from `InboxMatches` and `RightAnswer` that each
  future set was unset and gets its own call's answer), destroys the client
  (`Abandon`) or leaves the three abstract variables alone.

`ClientLineProofs`, for the same constants, follows the line on which a buffer
moves: the wire, what is unsent of the queue, `pending_calls` and the strand
(`Line`). One lemma (`LineMoves`) says that every step of the client alone leaves the
line as it is, cuts it, takes one frame from one part to the next or gives a failed
notification up, and that what a user's thread posts joins it at the end. What
follows is then said once per kind of move and not once per action:

- `EveryCallInOnePlace`: `OnePlace`. No move loses a request or makes a second copy of
  it (`MovesKeepCopies`), a flush included, since buffers that were moved from hold no
  request. That only a notification is given up, and only on a connection that
  failed, needs `ConnectsAnew` and `PipeFailed` (together with `OnePlace`: `PlaceIInv`).
- `KindsKeepOrder`: `SameKindInOrder`. Order on the wire needs order on the whole line
  (`LineInOrder`), that what is on it was posted (`LinePosted`) and that a notification is
  never among the kept calls (`KeptAreCalls`): those are what may be overtaken. So
  `LineInOrder` also covers a notification before a call, but not a call before a
  notification.
- `NotifiesAhead`, a lemma that `SystemProofs` uses: on a connection that did not fail,
  a call on the wire has ahead of it every notification posted before it. It needs
  `AheadIInv`: a request is posted once (`PostedOnce`), no notification is left behind
  by a call that is on the line (`NoneLeftBehind`), and nothing is on the wire of a
  client that never connected (`WireConnected`).

`ClientAnswerProofs` has `CallInvariant`: `Spec => []CallIInv`, where `CallIInv` is
`PlaceIInv`, `AnswerIInv`, `OrderIInv` and `AheadIInv`. The parts of `AnswerIInv` are proved together,
since a step keeps one of them by the others:

- `AnswersFindCalls`: a response in the inbox answers a call on the wire
  (`AnsweredSent`), which its own task has put there after storing its promise
  (`Registered`), and an entry is erased only for a future that is set
  (`EraseResolved`), which that of an unread response is not (`AnsweredOnce`).
- `NothingLeaks`, `PendingIsFlushed`: the erasure or the flush is posted in the same
  step that makes it necessary and leaves the strand only by running.
- `OnlyUnreachableCrashes`: `SetTwice` is impossible, so only `OnConnectError` ends the
  process.

`SessionTaskProofs`, for any workers, messages and names:

- `SessionInvariant`: `Spec => []IInv`. `ClosesAreAsked` relates what the strand
  holds to what functions asked for, and is not inductive: it needs that a message
  is still to come, queued or with one worker (`FreshOrQueued`, `RunByOne`) and that a
  worker's thread-locals agree with what its message asked for (`LocalsTell`),
  which is what the reset at the start of a task establishes. `WriteBeforeClose` needs
  that the strand only holds tasks of messages that are done (`StrandOfDone`): what a
  new message posts then orders only its own tasks (`PostsOrdered`, `OrderedConcat`).
- `ClosesAskedFor`, `ResponseBeforeClose`: its parts. `Asked` is stable (a message that
  asked is done and its log does not change), so a close by anyone else disturbs
  neither.

`SessionResponseProofs`, for the same constants:

- `ResponseInvariant`, `OwnResponses`: `OwnResponse` says which responses were posted
  and is not inductive: it needs that the handles of `this_handler()` are empty while
  a function runs (`HandlerFresh`) and, for each message, that what the strand has and
  had, taken together, holds one response of a call that is done and not disabled,
  the wanted one, and none of any other message (`AnsweredExactly`). `AllOfDone` says
  that nothing is there for a message that is not done. A stop that finds the session
  unlisted leaves it open, so `AnsweredExactly` must survive a close that goes from the
  strand and closes nothing (`CloseGoes`).
- `WritesAsWanted`: every response on the strand or written is the one wanted for a
  call that is done, closed session or not; `System` rests on it.

`ServerProofs`, for any workers, connections and messages:

- `ServerInvariant`: `Spec => []IInv`. `OpenIsListed` needs that what waits to be removed
  is closed (`RemovedIsClosed`), that only a thread in `close_sessions()` has a copy
  (`CopyInClosing`) and that what is pushed was started (`PushesStarted`); an accept
  that completed has a connection (`IncomingKnown`).
- `OpenSessionsListed`, `OpenSessionsRead`: its parts. `MoveListed`, `StayListed`, `ReadsKept`
  and `ReadsUntouched` say once what a step that moves one thread keeps.

- `LeavingInvariant`, `ClosedSessionsLeave`: `ClosedIsLeaving` speaks of servers that one
  thread runs, and a session may be closed by a message, by `close_sessions()` and by
  its reader in any order. `LeavingIInv` adds that a connection is accepted once
  (`AcceptedOnce`), that before its session is started nothing is posted for it
  (`NothingBeforeStart`), that handlers run in threads that were in `io.run()`
  (`HandlersInRun`) and that nobody else reaches a session between its start and its
  push (`PushesUnseen`). That the thread in a handler is the only one comes from the
  cardinality of `ran` (`SameThread`, `StaysOne`).

`SystemProofs`, for any requests, workers, names and endings of functions, instantiates the
proofs of the parts:

- `PartsRunInSystem`: `Spec => CP!Spec /\ SP!Spec`. Every step of `System` is a step of the
  client or leaves it alone, and likewise the session; one lemma per group of
  actions says so. A session that hangs up is an outage to the client, so its
  proofs are taken with outages. The steps at the connection need more: a
  response crosses only to a call that was made and not answered (`ReplyMoves`), a
  frame that is unpacked is a request (`DeliverMoves`). So all that is proved of
  `Client` and of `SessionTask` holds in `System`.
- `SystemInvariant`, `AnswersAreOutcomes`: the parts' invariants and `LinkIInv`. The
  outcome of a call that is done does not change (`OutcomeKept`), and what the session
  wrote is as wanted, so the client's `answered` agrees with the session's `log`.
- `NotificationsFirst`: `NotifyThenCall`, for any number of requests. It needs the order
  of the wire in the session too (`TurnIInv`): the tasks that wait are the last of
  what was unpacked, in the order of the wire (`QueueFollowsWire`); a request that the
  session has was on the wire (`RequestsCrossed`); and with one worker all that was
  taken from the queue is done, but for the last, which may be running
  (`DoneInTurn`). A call that is done was taken (`DoneWasStarted`), the notification is
  ahead of it on the wire (`NotifiesAhead`), so it was taken before and is done.
- `SystemImplementsRemoteCall`: a step of the client maps as in `ClientRefinesRemoteCall`,
  with the outcome in place of the answer, which agree by `AnswersOwn`; a step of the
  session is the one `Execute` of a call that was made (`DoneOnce`, `RequestsMade`) or
  is not seen; what crosses the connection is not seen.

Assumptions are on constants only: `FrameAssumption`, `OutageAssumption`,
`RequestAssumption` (requests, the empty buffer and "no call" are distinct),
`BoundAssumption`, `IdleAssumption`, `ThreadAssumption` (the user's thread is no
worker, "no session" no connection) and, for `System`, `PartsAssumption` (those of the
parts, and that functions end in one of the ways the dispatcher tells apart).

Model-checked only: every liveness property (fairness is out of the prover's
reach) and the violations, which are about single behaviours. Every invariant that
a passing run checks is stated by a theorem.

## Not modelled

- Moving a `Server`: the implementation and the sessions keep a pointer to the old
  object, whose dispatcher and implementation are gone, so that the next accept
  or close is undefined; there is no behaviour to state a property of.
  `suppress_exceptions()` after a session was accepted has no effect on it; the
  session's copy is a choice of its initial state.
- Messages whose fields do not convert, and buffer sizes: the unpacker is
  external, and the client packs well-formed messages.
- Name resolution in the client's constructor and the pause between attempts:
  they only delay.
- `bind()` during a dispatch is a data race on `funcs_`; `Rebind` happens while
  no function runs, as users must ensure. `timeout_val` is read and written
  whole.
- Ids above `MaxIdx`: that `call_idx` turns negative after 2^31 calls and repeats
  after 2^32 is out of reach.
- Logging, function traits and exception types have no state the protocol reads:
  a log record goes to its stream in one piece (`std::osyncstream`) and nothing
  depends on it; function traits are evaluated by the compiler. Declarations in
  headers and the example programs have no behaviour of their own. These are most
  of the lines that no definition is mapped to.

## Plan

The modules were written in the order writer, client, session task, server,
system: from what everything rests on to what composes it. What is left:

1. An abstract specification of the session list (open, closing, gone) that
   `Server` implements, and the lifetime of a session as a property of it.
2. Several sessions in `System`; now `close_sessions()` of another session is a step
   that may come at any time.
3. Several messages in one chunk in `Server`; now each is a read of its own.
