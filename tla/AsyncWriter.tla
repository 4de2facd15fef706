---------------------------- MODULE AsyncWriter ----------------------------
(***************************************************************************)
(* rpc::detail::AsyncWriter (src/src/detail/async_writer.cpp): the write   *)
(* queue of one connection.  A client owns one, and every server session   *)
(* is one.                                                                 *)
(*                                                                         *)
(* write() and the completion handler of async_write are serialised: on a  *)
(* session by write_strand_, on a client by its only io thread.  close()   *)
(* is called by any thread: it sets the atomic exit_ at once and posts the *)
(* closing of the socket behind what the strand already holds.  Since      *)
(* exit_ may change while a strand handler runs, a handler is split at its *)
(* loads of exit_: the first half decides and pushes or pops, the second   *)
(* half is do_write().                                                     *)
(*                                                                         *)
(* A frame is a packed msgpack array, abstracted to its identity and its   *)
(* number of fields: four for a call or a response, three for a            *)
(* notification.  The empty buffers a client also writes are in Client.    *)
(***************************************************************************)
EXTENDS Naturals, Sequences

CONSTANTS
  Calls,       \* frames with four fields (calls and responses)
  Notifies,    \* frames with three fields (notifications)
  Closers,     \* threads that call close()
  CloseTask,   \* the strand task posted by close()
  Outages      \* BOOLEAN: may the peer refuse or break the connection

ASSUME FrameAssumption ==
  /\ Calls \cap Notifies = {}
  /\ CloseTask \notin Calls \cup Notifies

ASSUME OutageAssumption == Outages \in BOOLEAN

Frames == Calls \cup Notifies

VARIABLES
  exit_,         \* std::atomic<bool> exit_
  write_queue_,  \* std::deque<sbuffer>
  strand,        \* tasks posted to write_strand_ and not yet run
  pc,            \* "idle", or "do_write" between the two loads of exit_
  ops,           \* outstanding async_write operations
  closer,        \* progress of each thread through close()
  socket_,       \* the connection, as the kernel sees it
  unposted,      \* frames nobody has asked to write yet
  accepted,      \* history: the frames pushed on write_queue_, in order
  wire           \* history: the frames the kernel took, in order

vars == <<exit_, write_queue_, strand, pc, ops, closer, socket_, unposted,
          accepted, wire>>

Results == {"pending", "ok", "broken_pipe", "error"}
Ops     == [frame : Frames, res : Results]

TypeOK ==
  /\ exit_ \in BOOLEAN
  /\ write_queue_ \in Seq(Frames)
  /\ strand \in Seq(Frames \cup {CloseTask})
  /\ pc \in {"idle", "do_write"}
  /\ ops \in Seq(Ops)
  /\ closer \in [Closers -> {"never", "idle", "stored", "done"}]
  /\ socket_ \in {"connecting", "refused", "connected", "broken", "closed"}
  /\ unposted \subseteq Frames
  /\ accepted \in Seq(Frames)
  /\ wire \in Seq(Frames)

(* A client's writer starts on a connecting socket and is never closed; a
   session's starts on an accepted one and writes responses only. *)
Init ==
  /\ exit_ = FALSE
  /\ write_queue_ = <<>>
  /\ strand = <<>>
  /\ pc = "idle"
  /\ ops = <<>>
  /\ \/ /\ socket_ = "connecting"
        /\ unposted = Frames
        /\ closer = [t \in Closers |-> "never"]
     \/ /\ socket_ = "connected"
        /\ unposted = Calls
        /\ closer = [t \in Closers |-> "idle"]
  /\ accepted = <<>>
  /\ wire = <<>>

-----------------------------------------------------------------------------
(* The owner has write(f) run by the strand: a session with each response, a
   client with a notification at any time and with a call only once it is
   connected. *)
PostWrite(f) ==
  /\ f \in unposted
  /\ f \in Calls => socket_ \notin {"connecting", "refused"}
  /\ unposted' = unposted \ {f}
  /\ strand' = Append(strand, f)
  /\ UNCHANGED <<exit_, write_queue_, pc, ops, closer, socket_, accepted, wire>>

(* Fault for a mutation run: write() starts a write of its own even
   when one is in flight. *)
WriteAlwaysStarts ==
  /\ pc = "idle"
  /\ strand # <<>>
  /\ Head(strand) # CloseTask
  /\ strand' = Tail(strand)
  /\ IF exit_ THEN UNCHANGED <<write_queue_, accepted, pc>>
     ELSE /\ write_queue_' = Append(write_queue_, Head(strand))
          /\ accepted' = Append(accepted, Head(strand))
          /\ pc' = "do_write"
  /\ UNCHANGED <<exit_, ops, closer, socket_, unposted, wire>>

(* write(): refused once exit_ is set; a frame that finds the queue
   non-empty waits for the completion handler of the one before it. *)
Write ==
  /\ pc = "idle"
  /\ strand # <<>>
  /\ Head(strand) # CloseTask
  /\ strand' = Tail(strand)
  /\ \/ /\ exit_
        /\ UNCHANGED <<write_queue_, accepted, pc>>
     \/ /\ ~exit_
        /\ write_queue_' = Append(write_queue_, Head(strand))
        /\ accepted' = Append(accepted, Head(strand))
        /\ pc' = IF Len(write_queue_') > 1 THEN "idle" ELSE "do_write"
  /\ UNCHANGED <<exit_, ops, closer, socket_, unposted, wire>>

(* do_write(): loads exit_ again, then starts async_write on the front. *)
DoWrite ==
  /\ pc = "do_write"
  /\ pc' = "idle"
  /\ ops' = IF exit_ THEN ops
            ELSE Append(ops, [frame |-> Head(write_queue_), res |-> "pending"])
  /\ UNCHANGED <<exit_, write_queue_, strand, closer, socket_, unposted,
                 accepted, wire>>

(* Faults for mutation runs: the handler leaves the next frame to the next
   write(); the handler pops the back of the queue. *)
PopFrontAndRest ==
  /\ write_queue_' = Tail(write_queue_)
  /\ pc' = "idle"

PopBack ==
  /\ write_queue_' = SubSeq(write_queue_, 1, Len(write_queue_) - 1)
  /\ pc' = IF Len(write_queue_') > 0 /\ ~exit_ THEN "do_write" ELSE "idle"

(* The handler pops the front and, unless exit_ is set, calls do_write()
   for the next frame. *)
PopFront ==
  /\ write_queue_' = Tail(write_queue_)
  /\ pc' = IF Len(write_queue_') > 0 /\ ~exit_ THEN "do_write" ELSE "idle"

Completed(res) ==
  /\ pc = "idle"
  /\ ops # <<>>
  /\ Head(ops).res = res
  /\ ops' = Tail(ops)
  /\ UNCHANGED <<exit_, strand, closer, socket_, unposted, accepted, wire>>

(* The completion handler, no error. *)
OnWritten == Completed("ok") /\ PopFront

(* Fault for a mutation run: a broken pipe drops any frame. *)
DropOnBrokenPipe == Completed("broken_pipe") /\ PopFront

(* Fault for a mutation run: a broken pipe is only logged. *)
KeepOnBrokenPipe ==
  Completed("broken_pipe") /\ UNCHANGED <<write_queue_, pc>>

(* The completion handler, broken_pipe: a notification is dropped, any
   other frame stays at the front and no further write is started. *)
OnBrokenPipe ==
  /\ Completed("broken_pipe")
  /\ \/ Head(write_queue_) \in Notifies /\ PopFront
     \/ Head(write_queue_) \notin Notifies /\ UNCHANGED <<write_queue_, pc>>

(* The completion handler, any other error: only logged. *)
OnError == Completed("error") /\ UNCHANGED <<write_queue_, pc>>

(* close(), called on any thread: the store, then the post. *)
CloseStore(t) ==
  /\ closer[t] = "idle"
  /\ closer' = [closer EXCEPT ![t] = "stored"]
  /\ exit_' = TRUE
  /\ UNCHANGED <<write_queue_, strand, pc, ops, socket_, unposted, accepted,
                 wire>>

(* Fault for a mutation run: close() posts nothing. *)
CloseWithoutPost(t) ==
  /\ closer[t] = "stored"
  /\ closer' = [closer EXCEPT ![t] = "done"]
  /\ UNCHANGED <<exit_, write_queue_, strand, pc, ops, socket_, unposted,
                 accepted, wire>>

ClosePost(t) ==
  /\ closer[t] = "stored"
  /\ closer' = [closer EXCEPT ![t] = "done"]
  /\ strand' = Append(strand, CloseTask)
  /\ UNCHANGED <<exit_, write_queue_, pc, ops, socket_, unposted, accepted,
                 wire>>

(* The task posted by close(): shutdown() and close() the socket. *)
CloseSocket ==
  /\ pc = "idle"
  /\ strand # <<>>
  /\ Head(strand) = CloseTask
  /\ strand' = Tail(strand)
  /\ socket_' = "closed"
  /\ UNCHANGED <<exit_, write_queue_, pc, ops, closer, unposted, accepted,
                 wire>>

-----------------------------------------------------------------------------
(* External: the kernel and Boost.Asio, as this code uses them.  A send on
   a socket that is still connecting waits for the outcome; on one that was
   refused it fails with EPIPE; one the peer has left may still take a frame,
   and then fails with EPIPE or another error; a local close aborts it. *)
Settle(res) ==
  /\ ops # <<>>
  /\ Head(ops).res = "pending"
  /\ ops' = [ops EXCEPT ![1].res = res]
  /\ UNCHANGED <<exit_, write_queue_, strand, pc, closer, socket_, unposted,
                 accepted>>

Transmit ==
  /\ socket_ \in {"connected", "broken"}
  /\ Settle("ok")
  /\ wire' = Append(wire, Head(ops).frame)

FailPipe ==
  /\ socket_ \in {"refused", "broken"}
  /\ Settle("broken_pipe")
  /\ UNCHANGED wire

FailOther ==
  /\ socket_ \in {"broken", "closed"}
  /\ Settle("error")
  /\ UNCHANGED wire

Connection(from, to) ==
  /\ socket_ = from
  /\ socket_' = to
  /\ UNCHANGED <<exit_, write_queue_, strand, pc, ops, closer, unposted,
                 accepted, wire>>

Connect == Connection("connecting", "connected")
Refuse  == Outages /\ Connection("connecting", "refused")
Break   == Outages /\ Connection("connected", "broken")

(* The owner connects again.  The refusal has settled the write that was
   waiting for it: the reactor completes both in one pass. *)
Retry ==
  /\ \A i \in DOMAIN ops : ops[i].res # "pending"
  /\ Connection("refused", "connecting")

-----------------------------------------------------------------------------
StrandStep == Write \/ DoWrite \/ OnWritten \/ OnBrokenPipe \/ OnError
                \/ CloseSocket
Kernel == Transmit \/ FailPipe \/ FailOther

Next ==
  \/ \E f \in Frames : PostWrite(f)
  \/ Write
  \/ DoWrite
  \/ OnWritten
  \/ OnBrokenPipe
  \/ OnError
  \/ CloseSocket
  \/ \E t \in Closers : CloseStore(t) \/ ClosePost(t)
  \/ Transmit
  \/ FailPipe
  \/ FailOther
  \/ Connect
  \/ Refuse
  \/ Retry
  \/ Break

(* Some thread runs the io_context, so what the strand holds is run, an
   async_write completes, a connection attempt ends, and a thread inside
   close() goes on. *)
Fairness ==
  /\ WF_vars(StrandStep)
  /\ WF_vars(Kernel)
  /\ WF_vars(Connect \/ Refuse)
  /\ \A t \in Closers : WF_vars(ClosePost(t))

Spec == Init /\ [][Next]_vars
FairSpec == Spec /\ Fairness

-----------------------------------------------------------------------------
(* do_write() promises one async_write at a time, and its handler pops the
   frame that operation wrote: there is never a second operation in flight,
   and the one in flight is for the front of write_queue_. *)
OneWriteAtATime ==
  /\ Len(ops) <= 1
  /\ ops # <<>> => /\ write_queue_ # <<>>
                   /\ Head(ops).frame = Head(write_queue_)

Working == pc = "do_write" \/ ops # <<>>

Stalled == write_queue_ # <<>> /\ ~Working /\ ~exit_

(* A writer that is not closed stops serving its queue only on a failed
   write, and not on a broken pipe that hit a notification: write() and the
   completion handler hand the duty to call do_write() over to each other
   without dropping it. *)
NoSilentStall ==
  [][~Stalled /\ Stalled' =>
       \/ Head(ops).res = "error"
       \/ Head(ops).res = "broken_pipe" /\ Head(write_queue_) \in Calls]_vars

(* What makes the three properties inductive: between the halves of a
   handler nothing is in flight and there is a frame to write, and the queue
   is always the last part of what write() took in. *)
DoWriteReady == pc = "do_write" => ops = <<>> /\ write_queue_ # <<>>

QueueIsSuffix ==
  /\ Len(write_queue_) <= Len(accepted)
  /\ \A i \in 1 .. Len(write_queue_) :
       write_queue_[i] = accepted[(Len(accepted) - Len(write_queue_)) + i]

IInv == TypeOK /\ OneWriteAtATime /\ DoWriteReady /\ QueueIsSuffix

(* The frames leave in the order write() took them in, each at most once,
   and only notifications are skipped: the writer implements FrameChannel.
   A frame counts as settled from the moment the kernel took it, before its
   handler pops it. *)
InKernel == ops # <<>> /\ Head(ops).res = "ok"

Settled == (Len(accepted) - Len(write_queue_)) + (IF InKernel THEN 1 ELSE 0)

Channel == INSTANCE FrameChannel WITH
  taken <- accepted, settled <- Settled, sent <- wire

ImplementsChannel == Channel!ChanSpec

(* error.md:14: every frame that write() took in leaves the queue, also over
   refused connection attempts, unless an established connection breaks or
   the writer is closed. *)
FramesSettle ==
  \A f \in Frames :
    (\E i \in DOMAIN write_queue_ : write_queue_[i] = f)
      ~> (\/ \A i \in DOMAIN write_queue_ : write_queue_[i] # f
          \/ socket_ = "broken"
          \/ exit_)

(* close() takes effect whatever the strand was doing: the socket ends
   closed, with no operation left in flight, for good. *)
CloseDrains == exit_ ~> [](socket_ = "closed" /\ ops = <<>>)

(* async_writer.h:25 says of close() that it is graceful and that earlier
   writes are completed first: a closed socket has sent every frame that
   write() took in.  Meant for a connection without outages. *)
GracefulClose == socket_ = "closed" => wire = accepted

=============================================================================
