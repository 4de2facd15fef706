------------------------- MODULE AsyncWriterProofs -------------------------
(* Proofs about AsyncWriter, for any frames and any number of closing
   threads. *)
EXTENDS AsyncWriter, SequenceTheorems, TLAPS

(* The kernel settling the operation in flight changes its result only. *)
LEMMA SettledOp ==
  ASSUME ops \in Seq(Ops), NEW r \in Results, Settle(r)
  PROVE  /\ ops' \in Seq(Ops) /\ ops' # <<>> /\ Len(ops') = Len(ops)
         /\ Head(ops).res = "pending" /\ Head(ops).frame \in Frames
         /\ Head(ops').res = r /\ Head(ops').frame = Head(ops).frame
<1>1. 1 \in 1 .. Len(ops) /\ ops[1] \in Ops
  BY DEF Settle
<1>2. [ops[1] EXCEPT !.res = r] \in Ops
  BY <1>1 DEF Ops
<1>3. ops' = [ops EXCEPT ![1] = [ops[1] EXCEPT !.res = r]]
  BY <1>1 DEF Settle
<1>4. ops' \in Seq(Ops) /\ Len(ops') = Len(ops) /\ ops' # <<>>
  BY <1>1, <1>2, <1>3
<1>5. ops'[1] = [ops[1] EXCEPT !.res = r]
  BY <1>1, <1>3
<1>6. Head(ops) = ops[1] /\ Head(ops') = ops'[1]
  BY <1>1, <1>4
<1>7. ops'[1].res = r /\ ops'[1].frame = ops[1].frame /\ ops[1].frame \in Frames
  BY <1>1, <1>5 DEF Ops
<1>8. QED
  BY <1>4, <1>6, <1>7 DEF Settle

(* Every operation of the writer keeps its variables within their types. *)
LEMMA TypeStep == TypeOK /\ OneWriteAtATime /\ DoWriteReady /\ [Next]_vars
                    => TypeOK'
<1> SUFFICES ASSUME TypeOK, OneWriteAtATime, DoWriteReady, [Next]_vars
             PROVE  TypeOK'
  OBVIOUS
<1> USE DEF TypeOK
<1>1. ASSUME NEW f \in Frames, PostWrite(f) PROVE TypeOK'
  BY <1>1 DEF PostWrite
<1>2. CASE Write
  <2>1. Head(strand) \in Frames /\ Tail(strand) \in Seq(Frames \cup {CloseTask})
    BY <1>2 DEF Write
  <2>2. /\ Append(write_queue_, Head(strand)) \in Seq(Frames)
        /\ Append(accepted, Head(strand)) \in Seq(Frames)
    BY <2>1
  <2>3. QED
    BY <1>2, <2>1, <2>2 DEF Write
<1>3. CASE DoWrite
  <2>1. [frame |-> Head(write_queue_), res |-> "pending"] \in Ops
    BY <1>3 DEF DoWrite, DoWriteReady, Ops, Results
  <2>2. ops' \in Seq(Ops)
    BY <1>3, <2>1 DEF DoWrite
  <2>3. QED
    BY <1>3, <2>2 DEF DoWrite
<1>4. CASE OnWritten \/ OnBrokenPipe \/ OnError
  <2>1. write_queue_ # <<>> /\ ops # <<>>
    BY <1>4 DEF OnWritten, OnBrokenPipe, OnError, Completed, OneWriteAtATime
  <2>2. Tail(ops) \in Seq(Ops) /\ Tail(write_queue_) \in Seq(Frames)
    BY <2>1
  <2>3. QED
    BY <1>4, <2>2
       DEF OnWritten, OnBrokenPipe, OnError, Completed, PopFront
<1>5. CASE CloseSocket
  <2>1. Tail(strand) \in Seq(Frames \cup {CloseTask})
    BY <1>5 DEF CloseSocket
  <2>2. QED
    BY <1>5, <2>1 DEF CloseSocket
<1>6. ASSUME NEW t \in Closers, CloseStore(t) \/ ClosePost(t) PROVE TypeOK'
  <2>1. Append(strand, CloseTask) \in Seq(Frames \cup {CloseTask})
    OBVIOUS
  <2>2. QED
    BY <1>6, <2>1 DEF CloseStore, ClosePost
<1>7. CASE Transmit \/ FailPipe \/ FailOther
  <2>1. PICK r \in Results : Settle(r)
    BY <1>7 DEF Transmit, FailPipe, FailOther, Results
  <2>2. ops' \in Seq(Ops) /\ Head(ops).frame \in Frames
    BY <2>1, SettledOp
  <2>5. Append(wire, Head(ops).frame) \in Seq(Frames)
    BY <2>2
  <2>6. QED
    BY <1>7, <2>1, <2>2, <2>5 DEF Settle, Transmit, FailPipe, FailOther
<1>8. CASE Connect \/ Refuse \/ Retry \/ Break
  BY <1>8 DEF Connect, Refuse, Retry, Break, Connection
<1>9. CASE UNCHANGED vars
  BY <1>9 DEF vars
<1>10. QED
  BY <1>1, <1>2, <1>3, <1>4, <1>5, <1>6, <1>7, <1>8, <1>9 DEF Next

(* The duty to start the next async_write is with one handler at a time:
   write() has it only on an empty queue, the completion handler only when
   its operation is over. *)
LEMMA DutyStep ==
  TypeOK /\ OneWriteAtATime /\ DoWriteReady /\ [Next]_vars
    => OneWriteAtATime' /\ DoWriteReady'
<1> SUFFICES ASSUME TypeOK, OneWriteAtATime, DoWriteReady, [Next]_vars
             PROVE  OneWriteAtATime' /\ DoWriteReady'
  OBVIOUS
<1>0. /\ write_queue_ \in Seq(Frames) /\ ops \in Seq(Ops)
      /\ strand \in Seq(Frames \cup {CloseTask})
  BY DEF TypeOK
<1> USE DEF OneWriteAtATime, DoWriteReady
<1>1. ASSUME NEW f \in Frames, PostWrite(f)
      PROVE  OneWriteAtATime' /\ DoWriteReady'
  BY <1>1 DEF PostWrite
<1>2. CASE Write
  <2>1. CASE exit_
    BY <1>2, <2>1 DEF Write
  <2>2. CASE ~exit_
    <3>1. Len(Append(write_queue_, Head(strand))) = Len(write_queue_) + 1
      BY <1>0
    <3>2. write_queue_' # <<>> /\ ops' = ops
      BY <1>0, <1>2, <2>2, <3>1 DEF Write
    <3>3. write_queue_ # <<>> => Head(write_queue_') = Head(write_queue_)
      <4>1. Head(strand) \in Frames
        BY <1>0, <1>2 DEF Write
      <4>2. write_queue_' = Append(write_queue_, Head(strand))
        BY <1>2, <2>2 DEF Write
      <4>3. ASSUME write_queue_ # <<>>
            PROVE  Append(write_queue_, Head(strand))[1] = write_queue_[1]
        BY <1>0, <4>1, <4>3
      <4>4. QED
        BY <1>0, <4>1, <4>2, <4>3
    <3>4. pc' = "do_write" => write_queue_ = <<>>
      BY <1>0, <1>2, <2>2, <3>1 DEF Write
    <3>5. QED
      BY <3>2, <3>3, <3>4
  <2>3. QED
    BY <2>1, <2>2
<1>3. CASE DoWrite
  <2>1. ops = <<>> /\ write_queue_ # <<>> /\ write_queue_' = write_queue_
        /\ pc' = "idle"
    BY <1>3 DEF DoWrite
  <2> DEFINE o == [frame |-> Head(write_queue_), res |-> "pending"]
  <2>2. ops' = <<>> \/ ops' = Append(<<>>, o)
    BY <1>3, <2>1 DEF DoWrite
  <2>3. o.frame = Head(write_queue_)
    OBVIOUS
  <2> HIDE DEF o
  <2>4. Len(Append(<<>>, o)) = 1 /\ Head(Append(<<>>, o)) = o
    OBVIOUS
  <2>5. CASE ops' = <<>>
    BY <2>1, <2>5
  <2>6. CASE ops' = Append(<<>>, o)
    <3>1. Len(ops') = 1 /\ Head(ops').frame = Head(write_queue_')
      BY <2>1, <2>3, <2>4, <2>6
    <3>2. QED
      BY <2>1, <3>1
  <2>7. QED
    BY <2>2, <2>5, <2>6
<1>4. CASE OnWritten \/ OnBrokenPipe \/ OnError
  <2>1. Completed("ok") \/ Completed("broken_pipe") \/ Completed("error")
    BY <1>4 DEF OnWritten, OnBrokenPipe, OnError
  <2>2. ops' = <<>> /\ write_queue_ # <<>> /\ pc = "idle"
    BY <1>0, <2>1 DEF Completed
  <2>3. PopFront \/ UNCHANGED <<write_queue_, pc>>
    BY <1>4 DEF OnWritten, OnBrokenPipe, OnError
  <2>4. pc' = "do_write" => write_queue_' # <<>>
    BY <1>0, <2>2, <2>3 DEF PopFront
  <2>5. QED
    BY <2>2, <2>4
<1>5. CASE CloseSocket
  BY <1>5 DEF CloseSocket
<1>6. ASSUME NEW t \in Closers, CloseStore(t) \/ ClosePost(t)
      PROVE  OneWriteAtATime' /\ DoWriteReady'
  BY <1>6 DEF CloseStore, ClosePost
<1>7. CASE Transmit \/ FailPipe \/ FailOther
  <2>1. PICK r \in Results : Settle(r)
    BY <1>7 DEF Transmit, FailPipe, FailOther, Results
  <2>2. Len(ops') = Len(ops) /\ ops' # <<>>
    BY <1>0, <2>1, SettledOp
  <2>3. Head(ops').frame = Head(ops).frame
    BY <1>0, <2>1, SettledOp
  <2>4. QED
    BY <2>1, <2>2, <2>3 DEF Settle
<1>8. CASE Connect \/ Refuse \/ Retry \/ Break
  BY <1>8 DEF Connect, Refuse, Retry, Break, Connection
<1>9. CASE UNCHANGED vars
  BY <1>9 DEF vars
<1>10. QED
  BY <1>1, <1>2, <1>3, <1>4, <1>5, <1>6, <1>7, <1>8, <1>9 DEF Next

(* write() appends the same frame to the queue and to the history, the
   completion handler only takes from the front of the queue. *)
LEMMA SuffixStep == IInv /\ [Next]_vars => QueueIsSuffix'
<1> SUFFICES ASSUME IInv, [Next]_vars PROVE QueueIsSuffix'
  OBVIOUS
<1>0. /\ write_queue_ \in Seq(Frames) /\ accepted \in Seq(Frames)
      /\ strand \in Seq(Frames \cup {CloseTask})
      /\ QueueIsSuffix
  BY DEF TypeOK, IInv
<1>1. CASE Write /\ ~exit_
  <2> DEFINE f == Head(strand)
  <2>1. write_queue_' = Append(write_queue_, f) /\ accepted' = Append(accepted, f)
    BY <1>1 DEF Write
  <2>2. /\ Len(write_queue_') = Len(write_queue_) + 1
        /\ Len(accepted') = Len(accepted) + 1
    BY <1>0, <2>1
  <2>3. ASSUME NEW i \in 1 .. Len(write_queue_')
        PROVE  write_queue_'[i]
                 = accepted'[(Len(accepted') - Len(write_queue_')) + i]
    <3>1. CASE i = Len(write_queue_) + 1
      BY <1>0, <2>1, <2>2, <3>1
    <3>2. CASE i \in 1 .. Len(write_queue_)
      BY <1>0, <2>1, <2>2, <3>2 DEF QueueIsSuffix
    <3>3. QED
      BY <1>0, <2>2, <3>1, <3>2
  <2>4. QED
    BY <1>0, <2>2, <2>3 DEF QueueIsSuffix
<1>2. CASE (OnWritten \/ OnBrokenPipe) /\ PopFront
  <2>1. write_queue_ # <<>> /\ accepted' = accepted
    BY <1>2 DEF OnWritten, OnBrokenPipe, Completed, IInv, OneWriteAtATime
  <2>2. /\ write_queue_' = Tail(write_queue_)
        /\ Len(write_queue_') = Len(write_queue_) - 1
    BY <1>0, <1>2, <2>1 DEF PopFront
  <2>3. \A i \in 1 .. Len(write_queue_') :
          write_queue_'[i] = write_queue_[i + 1]
    BY <1>0, <2>1, <2>2
  <2>4. QED
    BY <1>0, <2>1, <2>2, <2>3 DEF QueueIsSuffix
<1>3. CASE UNCHANGED <<write_queue_, accepted>>
  BY <1>0, <1>3 DEF QueueIsSuffix
<1>4. QED
  BY <1>1, <1>2, <1>3
     DEF Next, vars, PostWrite, Write, DoWrite, OnWritten, OnBrokenPipe,
         OnError, Completed, CloseSocket, CloseStore, ClosePost, Transmit,
         FailPipe, FailOther, Settle, Connect, Refuse, Retry, Break, Connection

(* Together: one step of the program keeps the inductive invariant. *)
LEMMA StepKeepsIInv == IInv /\ [Next]_vars => IInv'
BY TypeStep, DutyStep, SuffixStep DEF IInv

(* A writer that was just constructed satisfies it. *)
LEMMA InitIInv == Init => IInv
<1> SUFFICES ASSUME Init PROVE IInv
  OBVIOUS
<1>1. TypeOK
  <2>1. /\ write_queue_ \in Seq(Frames) /\ accepted \in Seq(Frames)
        /\ strand \in Seq(Frames \cup {CloseTask})
        /\ ops \in Seq(Ops) /\ wire \in Seq(Frames)
    BY DEF Init
  <2>2. socket_ \in {"connecting", "connected"}
    BY DEF Init
  <2>3. closer \in [Closers -> {"never", "idle", "stored", "done"}]
    BY DEF Init
  <2>4. exit_ \in BOOLEAN /\ pc = "idle" /\ unposted \subseteq Frames
    BY DEF Init, Frames
  <2>5. QED
    BY <2>1, <2>2, <2>3, <2>4 DEF TypeOK
<1>2. OneWriteAtATime /\ DoWriteReady /\ QueueIsSuffix
  BY DEF Init, OneWriteAtATime, DoWriteReady, QueueIsSuffix
<1>3. QED
  BY <1>1, <1>2 DEF IInv

(* Type correctness and the inductive invariant hold in every reachable
   state. *)
THEOREM WriterInvariant == Spec => []IInv
BY InitIInv, StepKeepsIInv, PTL DEF Spec

(* Every variable of the writer keeps its type. *)
THEOREM WriterTypes == Spec => []TypeOK
<1>1. IInv => TypeOK
  BY DEF IInv
<1>2. QED
  BY <1>1, WriterInvariant, PTL

(* AsyncWriter never has two async_write operations in flight, and the one
   in flight is for the front of write_queue_. *)
THEOREM SingleWriter == Spec => []OneWriteAtATime
<1>1. IInv => OneWriteAtATime
  BY DEF IInv
<1>2. QED
  BY <1>1, WriterInvariant, PTL

(* The writer stops serving a non-empty queue only on a failed write, and a
   broken pipe stops it only if it hit a call or a response. *)
THEOREM StallsOnlyOnFailure == Spec => NoSilentStall
<1> DEFINE Excused ==
      \/ Head(ops).res = "error"
      \/ Head(ops).res = "broken_pipe" /\ Head(write_queue_) \in Calls
<1>1. IInv /\ [Next]_vars => [~Stalled /\ Stalled' => Excused]_vars
  <2> SUFFICES ASSUME IInv, Next, ~Stalled, Stalled' PROVE Excused
    OBVIOUS
  <2>0. write_queue_ \in Seq(Frames) /\ ops \in Seq(Ops) /\ exit_ \in BOOLEAN
        /\ pc \in {"idle", "do_write"}
    BY DEF IInv, TypeOK
  <2>1. write_queue_' # <<>> /\ pc' # "do_write" /\ ops' = <<>> /\ ~exit_'
    BY DEF Stalled, Working
  <2>2. CASE Write
    <3>1. ~exit_ /\ ops = <<>>
      BY <2>1, <2>2 DEF Write
    <3>2. write_queue_' = Append(write_queue_, Head(strand)) /\ pc = "idle"
      BY <2>2, <3>1 DEF Write
    <3>3. write_queue_ = <<>>
      BY <3>1, <3>2 DEF Stalled, Working
    <3>4. Len(write_queue_') = 1
      BY <3>2, <3>3
    <3>5. QED
      BY <2>1, <2>2, <3>1, <3>4 DEF Write
  <2>3. CASE DoWrite
    BY <2>0, <2>1, <2>3 DEF DoWrite
  <2>4. CASE OnWritten
    BY <2>0, <2>1, <2>4 DEF OnWritten, Completed, PopFront
  <2>5. CASE OnBrokenPipe
    <3>1. Head(write_queue_) \in Frames /\ Head(ops).res = "broken_pipe"
      BY <2>0, <2>5 DEF OnBrokenPipe, Completed, IInv, OneWriteAtATime
    <3>2. CASE PopFront
      BY <2>0, <2>1, <2>5, <3>2 DEF OnBrokenPipe, Completed, PopFront
    <3>3. CASE Head(write_queue_) \notin Notifies
      BY <3>1, <3>3 DEF Frames
    <3>4. QED
      BY <2>5, <3>2, <3>3 DEF OnBrokenPipe
  <2>6. CASE OnError
    BY <2>6 DEF OnError, Completed
  <2>7. CASE Transmit \/ FailPipe \/ FailOther
    <3>1. PICK r \in Results : Settle(r)
      BY <2>7 DEF Transmit, FailPipe, FailOther, Results
    <3>2. ops # <<>> /\ Len(ops') = Len(ops)
      BY <2>0, <3>1 DEF Settle
    <3>3. QED
      BY <2>0, <2>1, <3>2
  <2>8. CASE UNCHANGED <<write_queue_, pc, ops>> /\ (exit_ => exit_')
    BY <2>1, <2>8 DEF Stalled, Working
  <2>9. QED
    BY <2>2, <2>3, <2>4, <2>5, <2>6, <2>7, <2>8
       DEF Next, PostWrite, CloseSocket, CloseStore, ClosePost, Connect,
           Refuse, Retry, Break, Connection
<1>2. QED
  BY <1>1, WriterInvariant, PTL DEF Spec, NoSilentStall

(* The writer implements FrameChannel: whatever the interleaving of write(),
   completions and close(), the frames leave in the order write() took them
   in, each at most once, and only notifications are given up. *)
THEOREM WriterImplementsChannel == Spec => ImplementsChannel
<1>1. Init => Channel!ChanInit
  BY DEF Init, Channel!ChanInit, Settled, InKernel
<1>2. IInv /\ [Next]_vars => [Channel!ChanNext]_(Channel!chanVars)
  <2> SUFFICES ASSUME IInv, [Next]_vars
               PROVE  \/ Channel!ChanNext
                      \/ UNCHANGED <<accepted, Settled, wire>>
    BY DEF Channel!chanVars
  <2>0. /\ write_queue_ \in Seq(Frames) /\ ops \in Seq(Ops)
        /\ accepted \in Seq(Frames) /\ strand \in Seq(Frames \cup {CloseTask})
        /\ QueueIsSuffix /\ OneWriteAtATime /\ DoWriteReady
    BY DEF IInv, TypeOK
  <2>1. CASE Write
    <3>1. CASE exit_
      BY <2>1, <3>1 DEF Write, Settled, InKernel
    <3>2. CASE ~exit_
      <4>1. /\ Head(strand) \in Frames
            /\ accepted' = Append(accepted, Head(strand))
            /\ write_queue_' = Append(write_queue_, Head(strand))
            /\ UNCHANGED <<ops, wire>>
        BY <2>0, <2>1, <3>2 DEF Write
      <4>2. /\ Len(accepted') = Len(accepted) + 1
            /\ Len(write_queue_') = Len(write_queue_) + 1
        BY <2>0, <4>1
      <4>3. Settled' = Settled
        <5>1. InKernel' = InKernel
          BY <4>1 DEF InKernel
        <5>2. Len(accepted') - Len(write_queue_')
                = Len(accepted) - Len(write_queue_)
          BY <2>0, <4>2
        <5>3. QED
          BY <5>1, <5>2 DEF Settled
      <4>4. Channel!Take(Head(strand))
        BY <4>1, <4>3 DEF Channel!Take
      <4>5. QED
        BY <4>1, <4>4 DEF Channel!ChanNext, Frames
    <3>3. QED
      BY <3>1, <3>2
  <2>2. CASE DoWrite
    <3>1. UNCHANGED <<accepted, write_queue_, wire>> /\ ~InKernel
      BY <2>0, <2>2 DEF DoWrite, DoWriteReady, InKernel
    <3>2. ~InKernel'
      <4> DEFINE o == [frame |-> Head(write_queue_), res |-> "pending"]
      <4>1. ops' = <<>> \/ ops' = Append(<<>>, o)
        BY <2>0, <2>2 DEF DoWrite, DoWriteReady
      <4>2. o.res # "ok"
        OBVIOUS
      <4> HIDE DEF o
      <4>3. Head(Append(<<>>, o)) = o
        OBVIOUS
      <4>4. QED
        BY <4>1, <4>2, <4>3 DEF InKernel
    <3>3. QED
      BY <3>1, <3>2 DEF Settled
  <2>3. CASE OnWritten
    <3>1. ops' = <<>> /\ InKernel /\ UNCHANGED <<accepted, wire>>
      BY <2>0, <2>3 DEF OnWritten, Completed, InKernel, OneWriteAtATime
    <3>2. Len(write_queue_') = Len(write_queue_) - 1
      BY <2>0, <2>3 DEF OnWritten, Completed, PopFront, OneWriteAtATime
    <3>3. QED
      BY <2>0, <3>1, <3>2 DEF Settled, InKernel
  <2>4. CASE OnBrokenPipe \/ OnError
    <3>1. ops' = <<>> /\ ~InKernel /\ UNCHANGED <<accepted, wire>>
      BY <2>0, <2>4 DEF OnBrokenPipe, OnError, Completed, InKernel, OneWriteAtATime
    <3>2. CASE UNCHANGED write_queue_
      BY <3>1, <3>2 DEF Settled, InKernel
    <3>3. CASE OnBrokenPipe /\ Head(write_queue_) \in Notifies /\ PopFront
      <4>1. write_queue_ # <<>> /\ write_queue_' = Tail(write_queue_)
        BY <2>0, <3>3 DEF OnBrokenPipe, Completed, PopFront, OneWriteAtATime
      <4>2. /\ Len(write_queue_') = Len(write_queue_) - 1
            /\ Len(write_queue_) \in Nat \ {0}
            /\ Head(write_queue_) = write_queue_[1]
        BY <2>0, <4>1
      <4>3. /\ Settled = Len(accepted) - Len(write_queue_)
            /\ Settled' = Settled + 1
        BY <2>0, <3>1, <4>2 DEF Settled, InKernel
      <4>4. Settled < Len(accepted) /\ accepted[Settled + 1] \in Notifies
        BY <2>0, <3>3, <4>2, <4>3 DEF QueueIsSuffix
      <4>5. Channel!GiveUp
        BY <3>1, <4>3, <4>4 DEF Channel!GiveUp
      <4>6. QED
        BY <4>5 DEF Channel!ChanNext
    <3>4. QED
      BY <2>4, <3>2, <3>3 DEF OnBrokenPipe, OnError
  <2>5. CASE Transmit
    <3>1. /\ ops # <<>> /\ write_queue_ # <<>>
          /\ Head(ops).frame = Head(write_queue_)
          /\ Head(ops).res = "pending"
          /\ wire' = Append(wire, Head(ops).frame)
          /\ UNCHANGED <<accepted, write_queue_>>
      BY <2>0, <2>5 DEF Transmit, Settle, OneWriteAtATime
    <3>2. ops' # <<>> /\ Head(ops').res = "ok"
      <4>1. "ok" \in Results /\ Settle("ok")
        BY <2>5 DEF Transmit, Results
      <4>2. QED
        BY <2>0, <4>1, SettledOp
    <3>3. /\ Len(write_queue_) \in Nat \ {0}
          /\ Head(write_queue_) = write_queue_[1]
      BY <2>0, <3>1
    <3>4. /\ Settled = Len(accepted) - Len(write_queue_)
          /\ Settled' = Settled + 1
      BY <2>0, <3>1, <3>2 DEF Settled, InKernel
    <3>5. /\ Settled < Len(accepted)
          /\ accepted[Settled + 1] = Head(write_queue_)
      <4>1. 1 \in 1 .. Len(write_queue_) /\ Len(accepted) \in Nat
        BY <2>0, <3>3
      <4>2. write_queue_[1]
              = accepted[(Len(accepted) - Len(write_queue_)) + 1]
        BY <2>0, <4>1 DEF QueueIsSuffix
      <4>3. Settled < Len(accepted)
        BY <3>3, <3>4, <4>1
      <4>4. QED
        BY <3>3, <3>4, <4>2, <4>3
    <3>6. Channel!Send
      BY <3>1, <3>4, <3>5 DEF Channel!Send
    <3>7. QED
      BY <3>6 DEF Channel!ChanNext
  <2>6. CASE FailPipe \/ FailOther
    <3>1. PICK r \in {"broken_pipe", "error"} : Settle(r)
      BY <2>6 DEF FailPipe, FailOther
    <3>2. ~InKernel /\ ~InKernel'
      <4>1. Head(ops').res = r /\ Head(ops).res = "pending"
        <5>1. r \in Results
          BY DEF Results
        <5>2. QED
          BY <2>0, <3>1, <5>1, SettledOp
      <4>2. QED
        BY <4>1 DEF InKernel
    <3>3. QED
      BY <2>6, <3>1, <3>2 DEF Settle, FailPipe, FailOther, Settled
  <2>7. CASE UNCHANGED <<accepted, write_queue_, ops, wire>>
    BY <2>7 DEF Settled, InKernel
  <2>8. QED
    BY <2>1, <2>2, <2>3, <2>4, <2>5, <2>6, <2>7
       DEF Next, vars, PostWrite, CloseSocket, CloseStore, ClosePost, Connect,
           Refuse, Retry, Break, Connection
<1>3. QED
  BY <1>1, <1>2, WriterInvariant, PTL
     DEF Spec, ImplementsChannel, Channel!ChanSpec

=============================================================================
