---------------------------- MODULE ServerProofs ----------------------------
(* Proofs about Server, for any workers, connections and messages. *)
EXTENDS Server, SequenceTheorems, FiniteSetTheorems, TLAPS

USE DEF acceptVars, netVars, listVars, sessionVars, threadVars

(* What pc holds for a thread, with copies of a list over S. *)
Spots(S) == [at : Places, s : Clients \cup {NoSession}, todo : SUBSET S]

(* A thread with no session and no copy is at a legal spot. *)
LEMMA PlaceType ==
  ASSUME NEW place \in Places, NEW S
  PROVE  /\ Place(place) \in Spots(S)
         /\ Place(place).at = place
         /\ Place(place).todo = {}
BY DEF Place, At, Spots

(* A thread that moves leaves the others where they are. *)
LEMMA GoesThere ==
  ASSUME TypeOK, NEW t \in Threads, NEW to, Goes(t, to)
  PROVE  /\ pc'[t] = to
         /\ \A u \in Threads : u # t => pc'[u] = pc[u]
         /\ to \in Spots(started) => pc' \in [Threads -> Spots(started)]
BY DEF TypeOK, Goes, Spots

(* What close() posts are tasks, and appending them keeps a strand a strand. *)
LEMMA ClosePostsType ==
  ASSUME TypeOK, NEW s \in Clients
  PROVE  /\ write_strand[s] \o ClosePosts \in Seq(StrandTasks)
         /\ write_strand[s] # <<>>
              => Tail(write_strand[s]) \o ClosePosts \in Seq(StrandTasks)
<1>1. ClosePosts \in Seq(StrandTasks)
  BY DEF ClosePosts, StrandTasks
<1>2. write_strand[s] \in Seq(StrandTasks)
  BY DEF TypeOK
<1>3. write_strand[s] # <<>> => Tail(write_strand[s]) \in Seq(StrandTasks)
  BY <1>2
<1>4. QED
  BY <1>1, <1>2, <1>3

(* Every variable keeps its type. *)
LEMMA TypeStep ==
  ASSUME TypeOK, IncomingKnown, PushesStarted, [Next]_vars
  PROVE  TypeOK'
<1> DEFINE PcOK == pc' \in [Threads -> Spots(started')]
<1>0. User \in Threads /\ Workers \subseteq Threads /\ pc \in [Threads -> Spots(started)]
  BY DEF Threads, TypeOK, Spots
<1>p. \A place \in Places : Place(place) \in Spots(started)
  BY PlaceType
<1>1. CASE \E t \in Threads : EnterRun(t)
  <2>1. PICK t \in Threads : EnterRun(t)
    BY <1>1
  <2>2. pc' \in [Threads -> Spots(started)]
    BY <1>p, <2>1, GoesThere DEF EnterRun, Idle, Places
  <2>3. QED
    BY <2>1, <2>2 DEF EnterRun, TypeOK, Spots
<1>2. CASE Stop \/ JoinAll
  <2>1. pc' \in [Threads -> Spots(started)]
    BY <1>0, <1>p, <1>2, GoesThere DEF Stop, JoinAll, UserStep, Places
  <2>2. QED
    BY <1>2, <2>1 DEF Stop, JoinAll, UserStep, TypeOK, Spots
<1>3. CASE UserCloseSessions
  <2>1. At("closing", NoSession, sessions) \in Spots(started)
    BY DEF At, Spots, Places, TypeOK
  <2>2. pc' \in [Threads -> Spots(started)]
    BY <1>0, <1>3, <2>1, GoesThere DEF UserCloseSessions, CopySessions
  <2>3. QED
    BY <1>3, <2>2 DEF UserCloseSessions, CopySessions, TypeOK, Spots
<1>4. CASE OutOfWork
  BY <1>4 DEF OutOfWork, TypeOK
<1>5. ASSUME NEW t \in Threads, Accepting(t) PROVE TypeOK'
  <2>1. CASE OnAccept(t)
    <3>1. incoming \in Clients /\ started' = started \cup {incoming}
      BY <2>1 DEF OnAccept, IncomingKnown
    <3>2. At("push", incoming, {}) \in Spots(started)
      BY <3>1 DEF At, Spots, Places
    <3>3. pc' \in [Threads -> Spots(started)]
      BY <2>1, <3>2, GoesThere DEF OnAccept
    <3>4. pc' \in [Threads -> Spots(started')]
      BY <3>1, <3>3 DEF Spots
    <3>5. QED
      BY <2>1, <3>1, <3>4 DEF OnAccept, TypeOK, Spots
  <2>2. CASE OnAcceptReset(t)
    <3>1. pc' \in [Threads -> Spots(started)]
      BY <1>0, <1>p, <2>2, GoesThere DEF OnAcceptReset, Escapes, Places
    <3>2. QED
      BY <2>2, <3>1 DEF OnAcceptReset, Escapes, TypeOK, Spots
  <2>3. CASE OnAcceptError(t)
    BY <2>3 DEF OnAcceptError, AcceptAgain, TypeOK
  <2>4. QED
    BY <1>5, <2>1, <2>2, <2>3 DEF Accepting
<1>6. ASSUME NEW t \in Threads, NEW s \in Clients, Reading(t, s) PROVE TypeOK'
  <2>1. CASE OnRead(t, s)
    <3>1. At("reread", s, {}) \in Spots(started)
      BY DEF At, Spots, Places
    <3>2. pc' \in [Threads -> Spots(started)]
      BY <2>1, <3>1, GoesThere DEF OnRead
    <3>3. unread' \in 0 .. MaxMessages /\ tasks' \in [Clients -> Nat]
      BY <2>1, ThreadAssumption DEF OnRead, TypeOK
    <3>4. QED
      BY <2>1, <3>2, <3>3 DEF OnRead, ReadDone, TypeOK, Spots
  <2>2. CASE OnEof(t, s)
    BY <2>2, ClosePostsType DEF OnEof, ReadDone, Close, TypeOK
  <2>3. CASE OnReadClosed(t, s) \/ OnReadError(t, s)
    BY <2>3 DEF OnReadClosed, OnReadError, ReadDone, TypeOK
  <2>4. QED
    BY <1>6, <2>1, <2>2, <2>3 DEF Reading
<1>7. ASSUME NEW t \in Threads, NEW s \in Clients, Message(t, s) PROVE TypeOK'
  <2>1. CASE \E enabled, exit, stop \in BOOLEAN : RunTask(t, s, enabled, exit, stop)
    <3>1. PICK enabled \in BOOLEAN, exit \in BOOLEAN, stop \in BOOLEAN :
            RunTask(t, s, enabled, exit, stop)
      BY <2>1
    <3> DEFINE a == IF enabled /\ exit THEN <<"exit">> ELSE <<>>
    <3> DEFINE b == IF enabled /\ stop THEN <<"stop">> ELSE <<>>
    <3>2. write_strand[s] \in Seq(StrandTasks)
      BY DEF TypeOK
    <3>3. a \in Seq(StrandTasks) /\ b \in Seq(StrandTasks)
      <4>1. "exit" \in StrandTasks /\ "stop" \in StrandTasks
        BY DEF StrandTasks
      <4>2. <<"exit">> \in Seq(StrandTasks) /\ <<"stop">> \in Seq(StrandTasks)
        BY <4>1
      <4>3. QED
        BY <4>2
    <3>4. write_strand' = [write_strand EXCEPT ![s] = @ \o a \o b]
      BY <3>1 DEF RunTask
    <3> HIDE DEF a, b
    <3>5. write_strand[s] \o a \o b \in Seq(StrandTasks)
      BY <3>2, <3>3
    <3>6. write_strand' \in [Clients -> Seq(StrandTasks)]
      BY <3>4, <3>5 DEF TypeOK
    <3>7. tasks' \in [Clients -> Nat]
      BY <3>1 DEF RunTask, TakeTask, TypeOK
    <3>8. QED
      BY <3>1, <3>6, <3>7 DEF RunTask, TakeTask, TypeOK
  <2>2. CASE \E stop \in BOOLEAN : RunThrows(t, s, stop)
    <3>1. PICK stop \in BOOLEAN : RunThrows(t, s, stop)
      BY <2>2
    <3>2. pc' \in [Threads -> Spots(started)]
      BY <1>0, <1>p, <3>1, GoesThere DEF RunThrows, Escapes, Places
    <3>3. tasks' \in [Clients -> Nat]
      BY <3>1 DEF RunThrows, TakeTask, TypeOK
    <3>4. QED
      BY <3>1, <3>2, <3>3 DEF RunThrows, TakeTask, Escapes, TypeOK, Spots
  <2>3. QED
    BY <1>7, <2>1, <2>2 DEF Message
<1>8. ASSUME NEW t \in Threads, NEW s \in Clients, Strand(t, s) PROVE TypeOK'
  <2>1. /\ write_strand[s] \in Seq(StrandTasks)
        /\ write_strand[s] # <<>> => Tail(write_strand[s]) \in Seq(StrandTasks)
    <3>1. write_strand[s] \in Seq(StrandTasks)
      BY DEF TypeOK
    <3>2. QED
      BY <3>1
  <2>2. CASE RunShutdown(t, s) \/ RunRemove(t, s)
    BY ZenonT(30), <2>1, <2>2 DEF RunShutdown, RunRemove, Runs, Pop, TypeOK
  <2>3. CASE RunExit(t, s)
    BY <2>3, ClosePostsType DEF RunExit, Runs, Close, TypeOK
  <2>4. CASE RunStop(t, s)
    <3>1. At("closing", s, sessions) \in Spots(started)
      BY DEF At, Spots, Places, TypeOK
    <3>2. pc' \in [Threads -> Spots(started)]
      BY <2>4, <3>1, GoesThere DEF RunStop, CopySessions
    <3>3. QED
      BY <2>1, <2>4, <3>2 DEF RunStop, CopySessions, Runs, Pop, TypeOK, Spots
  <2>5. CASE RunFreed(t, s)
    <3>1. pc' \in [Threads -> Spots(started)]
      BY <1>0, <1>p, <2>5, GoesThere DEF RunFreed, Escapes, Places
    <3>2. QED
      BY <2>1, <2>5, <3>1 DEF RunFreed, Runs, Pop, Escapes, TypeOK, Spots
  <2>6. QED
    BY <1>8, <2>2, <2>3, <2>4, <2>5 DEF Strand
<1>9. ASSUME NEW t \in Threads, Push(t) \/ Reread(t) \/ Exit(t) PROVE TypeOK'
  <2>1. pc' \in [Threads -> Spots(started)]
    BY <1>p, <1>9, GoesThere DEF Push, Reread, Exit, Idle, Places
  <2>2. sessions' \subseteq started
    BY <1>9 DEF Push, Reread, Exit, PushesStarted, TypeOK
  <2>3. QED
    BY <1>9, <2>1, <2>2
       DEF Push, Reread, Exit, ReadsAgain, AcceptAgain, TypeOK, Spots
<1>10. ASSUME NEW t \in Threads, Closing(t) PROVE TypeOK'
  <2>1. CASE CloseDone(t)
    <3>1. pc' \in [Threads -> Spots(started)]
      BY <1>p, <2>1, GoesThere DEF CloseDone, Idle, Places
    <3>2. QED
      BY <2>1, <3>1 DEF CloseDone, ListAtEnd, TypeOK, Spots
  <2>2. CASE \E s \in Clients : CloseNext(t, s)
    <3>1. PICK s \in Clients : CloseNext(t, s)
      BY <2>2
    <3>2. pc' \in [Threads -> Spots(started)]
      BY <1>0, <3>1 DEF CloseNext, Spots
    <3>3. QED
      BY <3>1, <3>2, ClosePostsType DEF CloseNext, Close, TypeOK, Spots
  <2>3. QED
    BY <1>10, <2>1, <2>2 DEF Closing
<1>11. CASE \E s \in Clients : Connect(s) \/ Leave(s)
  BY <1>11 DEF Connect, Leave, TypeOK
<1>12. CASE UNCHANGED vars
  BY <1>12 DEF vars, TypeOK
<1>13. QED
  BY <1>0, <1>1, <1>2, <1>3, <1>4, <1>5, <1>6, <1>7, <1>8, <1>9, <1>10, <1>11, <1>12
     DEF Next, AsyncRun, Run, SessionWork, GoesOn

Listed ==
  /\ PushesStarted
  /\ CopyInClosing
  /\ OpenIsListed

(* A thread that moves without a session to push keeps what it knows, if it
   held none before, or if what it held is listed or closed. *)
LEMMA MoveListed ==
  ASSUME TypeOK, Listed, NEW t \in Threads, NEW to, Goes(t, to),
         started' = started, to.at # "push", to.todo # {} => to.at = "closing",
         sessions \subseteq sessions' \cup to.todo,
         \A s \in Clients : exit_[s] => exit_'[s],
         pc[t].todo = {},
         pc[t].at = "push" => pc[t].s \in sessions'
  PROVE  Listed'
<1>1. pc'[t] = to /\ \A u \in Threads : u # t => pc'[u] = pc[u]
  BY GoesThere
<1>2. PushesStarted'
  BY <1>1 DEF Listed, PushesStarted
<1>3. CopyInClosing'
  BY <1>1 DEF Listed, CopyInClosing
<1>4. OpenIsListed'
  <2> SUFFICES ASSUME NEW s \in started', ~exit_'[s]
               PROVE  \/ s \in sessions'
                      \/ \E u \in Threads : \/ pc'[u].at = "push" /\ pc'[u].s = s
                                            \/ s \in pc'[u].todo
    BY DEF OpenIsListed
  <2>1. s \in started /\ s \in Clients /\ ~exit_[s]
    BY DEF TypeOK
  <2>2. \/ s \in sessions
        \/ \E u \in Threads : \/ pc[u].at = "push" /\ pc[u].s = s
                              \/ s \in pc[u].todo
    BY <2>1 DEF Listed, OpenIsListed
  <2>3. QED
    BY <1>1, <2>2
<1>5. QED
  BY <1>2, <1>3, <1>4 DEF Listed

(* A step that leaves threads and list alone closes sessions at most. *)
LEMMA StayListed ==
  ASSUME TypeOK, Listed, UNCHANGED <<pc, started, sessions>>,
         \A s \in Clients : exit_[s] => exit_'[s]
  PROVE  Listed'
BY DEF Listed, PushesStarted, CopyInClosing, OpenIsListed, TypeOK

(* Close() closes, and reopens nothing. *)
LEMMA CloseMarks ==
  ASSUME TypeOK, NEW s \in Clients, NEW before, Close(s, before)
  PROVE  /\ exit_'[s]
         /\ \A r \in Clients : exit_[r] => exit_'[r]
BY DEF TypeOK, Close

(* No open session gets out of sight of close_sessions(). *)
LEMMA ListedStep ==
  ASSUME TypeOK, IncomingKnown, RemovedIsClosed, Listed, [Next]_vars
  PROVE  Listed'
<1>0. User \in Threads /\ Workers \subseteq Threads
  BY DEF Threads
<1>p. \A place \in Places :
        Place(place).at = place /\ Place(place).todo = {}
  BY DEF Place, At
<1>1. CASE \E t \in Threads : EnterRun(t) /\ pc[t].todo = {} /\ pc[t].at # "push"
  BY <1>p, <1>1, MoveListed DEF EnterRun, Idle, Places
<1>2. CASE Stop \/ JoinAll
  BY <1>0, <1>p, <1>2, MoveListed DEF Stop, JoinAll, UserStep, UserAt, Places
<1>3. CASE UserCloseSessions
  <2>1. pc[User].todo = {} /\ pc[User].at = "outside"
    BY <1>p, <1>3 DEF UserCloseSessions, UserAt, Places
  <2>2. Goes(User, At("closing", NoSession, sessions)) /\ sessions' = {}
    BY <1>3 DEF UserCloseSessions, CopySessions
  <2>3. QED
    BY <1>0, <1>3, <2>1, <2>2, MoveListed DEF UserCloseSessions, At
<1>4. CASE OutOfWork
  BY <1>4, StayListed DEF OutOfWork
<1>5. ASSUME NEW t \in Threads, Accepting(t) PROVE Listed'
  <2>1. CASE OnAccept(t)
    <3>1. /\ started' = started \cup {incoming} /\ sessions' = sessions
          /\ exit_' = exit_ /\ pc[t] = Idle
          /\ Goes(t, At("push", incoming, {}))
      BY <2>1 DEF OnAccept, Free
    <3>2. /\ pc'[t] = At("push", incoming, {})
          /\ \A u \in Threads : u # t => pc'[u] = pc[u]
      BY <3>1, GoesThere
    <3>3. pc'[t].at = "push" /\ pc'[t].s = incoming /\ pc'[t].todo = {}
      BY <3>2 DEF At
    <3>4. pc[t].todo = {} /\ pc[t].at = "idle"
      BY <1>p, <3>1 DEF Idle, Places
    <3>5. PushesStarted'
      BY <3>1, <3>2, <3>3 DEF Listed, PushesStarted
    <3>6. CopyInClosing'
      BY <3>2, <3>3 DEF Listed, CopyInClosing
    <3>7. OpenIsListed'
      BY <3>1, <3>2, <3>3, <3>4 DEF Listed, OpenIsListed
    <3>8. QED
      BY <3>5, <3>6, <3>7 DEF Listed
  <2>2. CASE OnAcceptReset(t)
    <3>1. CASE UNCHANGED pc
      BY <2>2, <3>1, StayListed DEF OnAcceptReset
    <3>2. CASE t = User /\ Goes(t, Place("outside"))
      BY <1>p, <2>2, <3>2, MoveListed DEF OnAcceptReset, Free, Idle, Places
    <3>3. QED
      BY <2>2, <3>1, <3>2 DEF OnAcceptReset, Escapes
  <2>3. CASE OnAcceptError(t)
    BY <2>3, StayListed DEF OnAcceptError
  <2>4. QED
    BY <1>5, <2>1, <2>2, <2>3 DEF Accepting
<1>6. ASSUME NEW t \in Threads, NEW s \in Clients, Reading(t, s) PROVE Listed'
  <2>1. CASE OnRead(t, s)
    <3>1. pc[t].todo = {} /\ pc[t].at = "idle"
      BY <1>p, <2>1 DEF OnRead, ReadDone, Free, Idle, Places
    <3>2. QED
      BY <2>1, <3>1, MoveListed DEF OnRead, ReadDone, At
  <2>2. CASE OnEof(t, s)
    BY <2>2, CloseMarks, StayListed DEF OnEof, ReadDone
  <2>3. CASE OnReadClosed(t, s) \/ OnReadError(t, s)
    BY <2>3, StayListed DEF OnReadClosed, OnReadError, ReadDone
  <2>4. QED
    BY <1>6, <2>1, <2>2, <2>3 DEF Reading
<1>7. ASSUME NEW t \in Threads, NEW s \in Clients, Message(t, s) PROVE Listed'
  <2>1. /\ UNCHANGED <<started, sessions, exit_>>
        /\ UNCHANGED pc \/ (pc[t] = Idle /\ Goes(t, Place("outside")))
    BY <1>7 DEF Message, RunTask, RunThrows, TakeTask, Free, Escapes
  <2>2. CASE UNCHANGED pc
    BY <2>1, <2>2, StayListed
  <2>3. CASE pc[t] = Idle /\ Goes(t, Place("outside"))
    BY <1>p, <2>1, <2>3, MoveListed DEF Idle, Places
  <2>4. QED
    BY <2>1, <2>2, <2>3
<1>8. ASSUME NEW t \in Threads, NEW s \in Clients, Strand(t, s) PROVE Listed'
  <2>1. pc[t].todo = {} /\ pc[t].at = "idle" /\ started' = started
    BY <1>p, <1>8
       DEF Strand, RunShutdown, RunRemove, RunExit, RunStop, RunFreed, Runs,
           Free, Idle, Places
  <2>2. CASE RunShutdown(t, s)
    BY <2>1, <2>2, StayListed DEF RunShutdown
  <2>3. CASE RunRemove(t, s)
    <3>1. /\ pc' = pc /\ exit_' = exit_ /\ sessions' = sessions \ {s}
          /\ write_strand[s] # <<>> /\ Head(write_strand[s]) = "remove"
      BY <2>3 DEF RunRemove, Runs
    <3>2. write_strand[s] \in Seq(StrandTasks)
      BY DEF TypeOK
    <3>3. 1 \in DOMAIN write_strand[s] /\ write_strand[s][1] = "remove"
      BY <3>1, <3>2
    <3>4. exit_[s]
      BY <3>3 DEF RemovedIsClosed
    <3>5. QED
      BY <2>1, <3>1, <3>4 DEF Listed, PushesStarted, CopyInClosing, OpenIsListed
  <2>4. CASE RunExit(t, s)
    BY <2>1, <2>4, CloseMarks, StayListed DEF RunExit
  <2>5. CASE RunStop(t, s)
    <3>1. /\ Goes(t, At("closing", s, sessions)) /\ sessions' = {}
          /\ exit_' = exit_
      BY <2>5 DEF RunStop, CopySessions
    <3>2. QED
      BY <2>1, <3>1, MoveListed DEF At
  <2>6. CASE RunFreed(t, s)
    <3>1. UNCHANGED <<sessions, exit_>>
      BY <2>6 DEF RunFreed
    <3>2. CASE UNCHANGED pc
      BY <2>1, <3>1, <3>2, StayListed
    <3>3. CASE Goes(t, Place("outside"))
      BY <1>p, <2>1, <3>1, <3>3, MoveListed DEF Places
    <3>4. QED
      BY <2>6, <3>2, <3>3 DEF RunFreed, Escapes
  <2>7. QED
    BY <1>8, <2>2, <2>3, <2>4, <2>5, <2>6 DEF Strand
<1>9. ASSUME NEW t \in Threads, Push(t) \/ Reread(t) \/ Exit(t) PROVE Listed'
  <2>1. pc[t].todo = {}
    BY <1>p, <1>9 DEF Push, Reread, Exit, Idle, Places, Listed, CopyInClosing
  <2>2. \E place \in Places \ {"push", "closing"} : Goes(t, Place(place))
    BY <1>9 DEF Push, Reread, Exit, Idle, Places
  <2>3. UNCHANGED <<started, exit_>> /\ sessions \subseteq sessions'
    BY <1>9 DEF Push, Reread, Exit
  <2>4. pc[t].at = "push" => pc[t].s \in sessions'
    BY <1>p, <1>9 DEF Push, Reread, Exit, Idle, Places
  <2>5. QED
    BY <1>p, <2>1, <2>2, <2>3, <2>4, MoveListed
<1>10. ASSUME NEW t \in Threads, Closing(t) PROVE Listed'
  <2>1. CASE CloseDone(t)
    <3>1. pc[t].at = "closing" /\ pc[t].todo = {}
      BY <2>1 DEF CloseDone
    <3>2. \E place \in {"outside", "idle"} : Goes(t, Place(place))
      BY <2>1 DEF CloseDone, Idle
    <3>3. UNCHANGED <<started, exit_, sessions>>
      BY <2>1 DEF CloseDone, ListAtEnd
    <3>4. QED
      BY <1>p, <3>1, <3>2, <3>3, MoveListed DEF Places
  <2>2. CASE \E s \in Clients : CloseNext(t, s)
    <3>1. PICK s \in Clients : CloseNext(t, s)
      BY <2>2
    <3>2. exit_'[s] /\ \A r \in Clients : exit_[r] => exit_'[r]
      BY <3>1, CloseMarks DEF CloseNext
    <3>3. /\ UNCHANGED <<started, sessions>> /\ pc[t].at = "closing"
          /\ pc' = [pc EXCEPT ![t].todo = @ \ {s}]
      BY <3>1 DEF CloseNext
    <3>4. /\ \A u \in Threads : u # t => pc'[u] = pc[u]
          /\ pc'[t].at = pc[t].at /\ pc'[t].s = pc[t].s
          /\ pc'[t].todo = pc[t].todo \ {s}
      BY <3>3 DEF TypeOK
    <3>5. PushesStarted' /\ CopyInClosing'
      BY <3>3, <3>4 DEF Listed, PushesStarted, CopyInClosing
    <3>6. OpenIsListed'
      BY <3>2, <3>3, <3>4 DEF Listed, OpenIsListed, TypeOK
    <3>7. QED
      BY <3>5, <3>6 DEF Listed
  <2>3. QED
    BY <1>10, <2>1, <2>2 DEF Closing
<1>11. CASE \E s \in Clients : Connect(s) \/ Leave(s)
  BY <1>11, StayListed DEF Connect, Leave
<1>12. CASE UNCHANGED vars
  BY <1>12, StayListed DEF vars
<1>13. CASE Run \/ \E w \in Workers : AsyncRun(w)
  BY <1>0, <1>p, <1>1, <1>13 DEF Run, AsyncRun, EnterRun, UserAt, Places
<1>14. QED
  BY <1>2, <1>3, <1>4, <1>5, <1>6, <1>7, <1>8, <1>9, <1>10, <1>11, <1>12, <1>13
     DEF Next, SessionWork, GoesOn

(* An accept completes with a connection. *)
LEMMA IncomingStep ==
  ASSUME TypeOK, IncomingKnown, [Next]_vars
  PROVE  IncomingKnown'
<1>1. CASE UNCHANGED acceptVars
  BY <1>1 DEF IncomingKnown
<1>2. CASE accept_op' # "ok"
  BY <1>2 DEF IncomingKnown
<1>3. CASE \E s \in Clients : Connect(s)
  BY <1>3 DEF IncomingKnown, Connect
<1>4. ASSUME NEW t \in Threads, Accepting(t) PROVE accept_op' # "ok"
  BY <1>4 DEF Accepting, OnAccept, OnAcceptReset, OnAcceptError, AcceptAgain
<1>5. ASSUME NEW t \in Threads, GoesOn(t)
      PROVE  UNCHANGED acceptVars \/ accept_op' # "ok"
  BY <1>5 DEF GoesOn, Push, AcceptAgain, Reread, Closing, CloseNext, CloseDone, Exit
<1>6. ASSUME NEW t \in Threads, NEW s \in Clients, Reading(t, s)
      PROVE  UNCHANGED acceptVars
  BY <1>6 DEF Reading, OnReadClosed, OnRead, OnEof, OnReadError, ReadDone
<1>7. ASSUME NEW t \in Threads, NEW s \in Clients, Message(t, s)
      PROVE  UNCHANGED acceptVars
  BY <1>7 DEF Message, RunTask, RunThrows, TakeTask
<1>8. ASSUME NEW t \in Threads, NEW s \in Clients, Strand(t, s)
      PROVE  UNCHANGED acceptVars
  BY <1>8 DEF Strand, Runs, RunShutdown, RunRemove, RunExit, RunStop, RunFreed
<1>9. CASE \/ Run \/ Stop \/ JoinAll \/ UserCloseSessions \/ OutOfWork
           \/ \E w \in Workers : AsyncRun(w)
           \/ \E s \in Clients : Leave(s)
           \/ UNCHANGED vars
  BY <1>1, <1>9
     DEF Run, AsyncRun, EnterRun, Stop, JoinAll, UserStep, UserCloseSessions,
         OutOfWork, Leave, vars
<1>10. QED
  BY <1>1, <1>2, <1>3, <1>4, <1>5, <1>6, <1>7, <1>8, <1>9
     DEF Next, SessionWork

(* The tasks that a session's strand holds without close() are not its
   own. *)
LEMMA AppendClose ==
  ASSUME TypeOK, RemovedIsClosed, NEW s \in Clients, NEW before,
         Close(s, before)
  PROVE  RemovedIsClosed'
<1>1. /\ exit_' = [exit_ EXCEPT ![s] = TRUE]
      /\ \A r \in Clients : r # s => write_strand'[r] = write_strand[r]
  BY DEF Close, TypeOK
<1>2. exit_'[s] /\ \A r \in Clients : r # s => exit_'[r] = exit_[r]
  BY <1>1 DEF TypeOK
<1>3. QED
  BY <1>1, <1>2 DEF RemovedIsClosed

(* What a strand may still hold after a step was there, or is a request. *)
LEMMA StrandKeeps ==
  ASSUME TypeOK, RemovedIsClosed, exit_' = exit_,
         \A s \in Clients : \A i \in DOMAIN write_strand'[s] :
           \/ write_strand'[s][i] \in {"exit", "stop"}
           \/ \E j \in DOMAIN write_strand[s] :
                write_strand'[s][i] = write_strand[s][j]
  PROVE  RemovedIsClosed'
BY DEF RemovedIsClosed

(* Taking the first task leaves tasks that were there. *)
LEMMA PopKeeps ==
  ASSUME TypeOK, RemovedIsClosed, NEW s \in Clients, exit_' = exit_,
         write_strand[s] # <<>>, Pop(s)
  PROVE  RemovedIsClosed'
<1>1. write_strand[s] \in Seq(StrandTasks)
  BY DEF TypeOK
<1>2. /\ write_strand'[s] = Tail(write_strand[s])
      /\ \A r \in Clients : r # s => write_strand'[r] = write_strand[r]
  BY DEF Pop, TypeOK
<1>3. \A i \in DOMAIN Tail(write_strand[s]) :
        /\ i + 1 \in DOMAIN write_strand[s]
        /\ Tail(write_strand[s])[i] = write_strand[s][i + 1]
  BY <1>1
<1>4. QED
  BY <1>2, <1>3, StrandKeeps

(* close() marks the session before the removal can run. *)
LEMMA RemovedStep ==
  ASSUME TypeOK, RemovedIsClosed, [Next]_vars
  PROVE  RemovedIsClosed'
<1>1. CASE UNCHANGED <<exit_, write_strand>>
  BY <1>1 DEF RemovedIsClosed
<1>2. ASSUME NEW t \in Threads, NEW s \in Clients, Reading(t, s)
      PROVE  RemovedIsClosed'
  <2>1. CASE OnEof(t, s)
    BY <2>1, AppendClose DEF OnEof
  <2>2. CASE OnReadClosed(t, s) \/ OnRead(t, s) \/ OnReadError(t, s)
    BY <1>1, <2>2 DEF OnReadClosed, OnRead, OnReadError
  <2>3. QED
    BY <1>2, <2>1, <2>2 DEF Reading
<1>3. ASSUME NEW t \in Threads, NEW s \in Clients, Message(t, s)
      PROVE  RemovedIsClosed'
  <2>1. exit_' = exit_
    BY <1>3 DEF Message, RunTask, RunThrows, TakeTask
  <2>2. CASE \E enabled, exit, stop \in BOOLEAN : RunTask(t, s, enabled, exit, stop)
    <3>1. PICK a \in {<<>>, <<"exit">>}, b \in {<<>>, <<"stop">>} :
            write_strand' = [write_strand EXCEPT ![s] = @ \o a \o b]
      BY <2>2 DEF RunTask
    <3>2. /\ write_strand'[s] = (write_strand[s] \o a) \o b
          /\ \A r \in Clients : r # s => write_strand'[r] = write_strand[r]
      BY <3>1 DEF TypeOK
    <3>3. write_strand[s] \in Seq(StrandTasks)
      BY DEF TypeOK
    <3>4. ASSUME NEW i \in DOMAIN write_strand'[s]
          PROVE  \/ write_strand'[s][i] \in {"exit", "stop"}
                 \/ \E j \in DOMAIN write_strand[s] :
                      write_strand'[s][i] = write_strand[s][j]
      <4> DEFINE old == write_strand[s]
      <4>1. old \in Seq(StrandTasks) /\ a \in Seq({"exit"}) /\ b \in Seq({"stop"})
        <5>1. <<"exit">> \in Seq({"exit"}) /\ <<"stop">> \in Seq({"stop"})
          OBVIOUS
        <5>2. a \in Seq({"exit"})
          <6>1. CASE a = <<>>
            BY <6>1
          <6>2. CASE a = <<"exit">>
            BY <5>1, <6>2
          <6>3. QED
            BY <3>1, <6>1, <6>2
        <5>3. b \in Seq({"stop"})
          <6>1. CASE b = <<>>
            BY <6>1
          <6>2. CASE b = <<"stop">>
            BY <5>1, <6>2
          <6>3. QED
            BY <3>1, <6>1, <6>2
        <5>4. QED
          BY <3>3, <5>2, <5>3
      <4> HIDE DEF old
      <4>2. i \in 1 .. (Len(old) + Len(a) + Len(b))
        BY <3>2, <4>1 DEF old
      <4>3. CASE i \in 1 .. Len(old)
        <5>1. ((old \o a) \o b)[i] = old[i]
          BY <4>1, <4>3
        <5>2. QED
          BY <3>2, <4>1, <4>3, <5>1 DEF old
      <4>4. CASE i \in Len(old) + 1 .. Len(old) + Len(a)
        <5>1. ((old \o a) \o b)[i] = a[i - Len(old)]
          BY <4>1, <4>4
        <5>2. a[i - Len(old)] \in {"exit"}
          BY <4>1, <4>4
        <5>3. QED
          BY <3>2, <5>1, <5>2 DEF old
      <4>5. CASE i \in Len(old) + Len(a) + 1 .. Len(old) + Len(a) + Len(b)
        <5>1. ((old \o a) \o b)[i] = b[i - Len(old) - Len(a)]
          BY <4>1, <4>5
        <5>2. b[i - Len(old) - Len(a)] \in {"stop"}
          BY <4>1, <4>5
        <5>3. QED
          BY <3>2, <5>1, <5>2 DEF old
      <4>6. QED
        BY <4>1, <4>2, <4>3, <4>4, <4>5
    <3>5. QED
      BY <2>1, <3>2, <3>4, StrandKeeps
  <2>3. CASE \E stop \in BOOLEAN : RunThrows(t, s, stop)
    BY <1>1, <2>1, <2>3 DEF RunThrows
  <2>4. QED
    BY <1>3, <2>2, <2>3 DEF Message
<1>4. ASSUME NEW t \in Threads, NEW s \in Clients, Strand(t, s)
      PROVE  RemovedIsClosed'
  <2>1. write_strand[s] # <<>>
    BY <1>4 DEF Strand, Runs, RunShutdown, RunRemove, RunExit, RunStop, RunFreed
  <2>2. CASE RunExit(t, s)
    BY <2>2, AppendClose DEF RunExit
  <2>3. CASE RunShutdown(t, s) \/ RunRemove(t, s) \/ RunStop(t, s) \/ RunFreed(t, s)
    BY <2>1, <2>3, PopKeeps DEF RunShutdown, RunRemove, RunStop, RunFreed
  <2>4. QED
    BY <1>4, <2>2, <2>3 DEF Strand
<1>5. ASSUME NEW t \in Threads, GoesOn(t)
      PROVE  RemovedIsClosed'
  <2>1. CASE \E s \in Clients : CloseNext(t, s)
    BY <2>1, AppendClose DEF CloseNext
  <2>2. CASE Push(t) \/ Reread(t) \/ Exit(t) \/ CloseDone(t)
    BY <1>1, <2>2 DEF Push, Reread, Exit, CloseDone
  <2>3. QED
    BY <1>5, <2>1, <2>2 DEF GoesOn, Closing
<1>6. CASE \/ Run \/ Stop \/ JoinAll \/ UserCloseSessions \/ OutOfWork
           \/ \E w \in Workers : AsyncRun(w)
           \/ \E t \in Threads : Accepting(t)
           \/ \E s \in Clients : Connect(s) \/ Leave(s)
           \/ UNCHANGED vars
  BY <1>1, <1>6
     DEF Run, AsyncRun, EnterRun, Stop, JoinAll, UserStep, UserCloseSessions,
         OutOfWork, Accepting, OnAccept, OnAcceptReset, OnAcceptError, Connect,
         Leave, vars
<1>7. QED
  BY <1>2, <1>3, <1>4, <1>5, <1>6 DEF Next, SessionWork

(* A step of a thread that is not about to read again, and after which the
   sessions that were read are read, closed or read next. *)
LEMMA ReadsKept ==
  ASSUME TypeOK, OpenReads, started' = started,
         \A s \in Clients : exit_[s] => exit_'[s],
         \A s \in Clients : peer[s] = "gone" => peer'[s] = "gone",
         \A s \in Clients :
           reading[s] /\ ~exit_'[s] =>
             \/ reading'[s]
             \/ \E t \in Threads : pc'[t].at = "reread" /\ pc'[t].s = s
             \/ peer'[s] = "gone",
         \A t \in Threads : pc[t].at = "reread" /\ pc[t].s \in Clients =>
           \/ pc'[t].at = "reread" /\ pc'[t].s = pc[t].s
           \/ reading'[pc[t].s]
           \/ exit_'[pc[t].s]
  PROVE  OpenReads'
<1> SUFFICES ASSUME NEW s \in started', ~exit_'[s]
             PROVE  \/ reading'[s]
                    \/ \E t \in Threads : pc'[t].at = "reread" /\ pc'[t].s = s
                    \/ peer'[s] = "gone"
  BY DEF OpenReads
<1>1. s \in started /\ s \in Clients /\ ~exit_[s]
  BY DEF TypeOK
<1>2. \/ reading[s]
      \/ \E t \in Threads : pc[t].at = "reread" /\ pc[t].s = s
      \/ peer[s] = "gone"
  BY <1>1 DEF OpenReads
<1>3. QED
  BY <1>1, <1>2

(* A step that touches no read and moves a thread from elsewhere. *)
LEMMA ReadsUntouched ==
  ASSUME TypeOK, OpenReads, UNCHANGED <<started, reading, peer>>,
         \A s \in Clients : exit_[s] => exit_'[s],
         \/ UNCHANGED pc
         \/ \E t \in Threads : \E to : Goes(t, to) /\ pc[t].at # "reread"
  PROVE  OpenReads'
<1>1. \A t \in Threads : pc[t].at = "reread" => pc'[t] = pc[t]
  BY GoesThere
<1>2. QED
  BY <1>1, ReadsKept

(* The read loop of an open session never stops by itself. *)
LEMMA ReadsStep ==
  ASSUME TypeOK, OpenReads, IncomingKnown, [Next]_vars
  PROVE  OpenReads'
<1>0. User \in Threads /\ Workers \subseteq Threads
  BY DEF Threads
<1>p. \A place \in Places : Place(place).at = place
  BY DEF Place, At
<1>1. CASE Run \/ \E w \in Workers : AsyncRun(w)
  <2>1. PICK t \in Threads : EnterRun(t) /\ pc[t].at \in {"none", "outside"}
    BY <1>0, <1>1, <1>p DEF Run, AsyncRun, EnterRun, UserAt, Places
  <2>2. QED
    BY <2>1, ReadsUntouched DEF EnterRun
<1>2. CASE Stop \/ JoinAll \/ UserCloseSessions
  <2>1. pc[User].at \in {"outside", "joining"}
    BY <1>2, <1>p DEF Stop, JoinAll, UserStep, UserCloseSessions, UserAt, Places
  <2>2. QED
    BY <1>0, <1>2, <2>1, ReadsUntouched
       DEF Stop, JoinAll, UserStep, UserCloseSessions, CopySessions
<1>3. CASE OutOfWork
  BY <1>3, ReadsUntouched DEF OutOfWork
<1>4. ASSUME NEW t \in Threads, Accepting(t) PROVE OpenReads'
  <2>1. CASE OnAccept(t)
    <3>1. /\ started' = started \cup {incoming} /\ exit_' = exit_
          /\ peer' = peer /\ reading' = [reading EXCEPT ![incoming] = TRUE]
          /\ Goes(t, At("push", incoming, {})) /\ pc[t] = Idle
          /\ incoming \in Clients
      BY <2>1 DEF OnAccept, Free, IncomingKnown
    <3>2. reading'[incoming] /\ \A s \in Clients : reading[s] => reading'[s]
      BY <3>1 DEF TypeOK
    <3>3. pc[t].at = "idle" /\ \A u \in Threads : u # t => pc'[u] = pc[u]
      BY <1>p, <3>1, GoesThere DEF Idle, Places
    <3>4. SUFFICES ASSUME NEW s \in started, ~exit_[s], ~reading'[s]
                   PROVE  \/ \E u \in Threads : pc'[u].at = "reread" /\ pc'[u].s = s
                          \/ peer[s] = "gone"
      BY <3>1, <3>2 DEF OpenReads
    <3>5. s \in Clients /\ ~reading[s]
      BY <3>2, <3>4 DEF TypeOK
    <3>6. \/ \E u \in Threads : pc[u].at = "reread" /\ pc[u].s = s
          \/ peer[s] = "gone"
      BY <3>4, <3>5 DEF OpenReads
    <3>7. QED
      BY <3>3, <3>6
  <2>2. CASE OnAcceptReset(t)
    <3>1. pc[t].at = "idle"
      BY <1>p, <2>2 DEF OnAcceptReset, Free, Idle, Places
    <3>2. QED
      BY <2>2, <3>1, ReadsUntouched DEF OnAcceptReset, Escapes
  <2>3. CASE OnAcceptError(t)
    BY <2>3, ReadsUntouched DEF OnAcceptError
  <2>4. QED
    BY <1>4, <2>1, <2>2, <2>3 DEF Accepting
<1>5. ASSUME NEW t \in Threads, NEW s \in Clients, Reading(t, s) PROVE OpenReads'
  <2>1. /\ reading' = [reading EXCEPT ![s] = FALSE] /\ pc[t] = Idle
        /\ peer' = peer /\ started' = started
    BY <1>5 DEF Reading, OnReadClosed, OnRead, OnEof, OnReadError, ReadDone, Free
  <2>2. \A r \in Clients : r # s => reading'[r] = reading[r]
    BY <2>1 DEF TypeOK
  <2>3. pc[t].at = "idle"
    BY <1>p, <2>1 DEF Idle, Places
  <2>4. CASE OnRead(t, s)
    <3>1. pc'[t] = At("reread", s, {}) /\ \A u \in Threads : u # t => pc'[u] = pc[u]
      BY <2>4, GoesThere DEF OnRead
    <3>2. pc'[t].at = "reread" /\ pc'[t].s = s
      BY <3>1 DEF At
    <3>3. exit_' = exit_
      BY <2>4 DEF OnRead
    <3>4. QED
      BY <2>1, <2>2, <2>3, <3>1, <3>2, <3>3, ReadsKept
  <2>5. CASE OnEof(t, s)
    BY <2>1, <2>2, <2>5, CloseMarks, ReadsKept DEF OnEof
  <2>6. CASE OnReadClosed(t, s)
    <3>1. exit_[s] /\ exit_' = exit_ /\ pc' = pc
      BY <2>6 DEF OnReadClosed, ReadDone
    <3>2. QED
      BY <2>1, <2>2, <3>1, ReadsKept
  <2>7. CASE OnReadError(t, s)
    <3>1. peer[s] = "gone" /\ exit_' = exit_ /\ pc' = pc
      BY <2>7 DEF OnReadError
    <3>2. QED
      BY <2>1, <2>2, <3>1, ReadsKept
  <2>8. QED
    BY <1>5, <2>4, <2>5, <2>6, <2>7 DEF Reading
<1>6. ASSUME NEW t \in Threads, NEW s \in Clients, Message(t, s) PROVE OpenReads'
  <2>1. /\ UNCHANGED <<started, reading, peer, exit_>> /\ pc[t] = Idle
        /\ UNCHANGED pc \/ Goes(t, Place("outside"))
    BY <1>6 DEF Message, RunTask, RunThrows, TakeTask, Free, Escapes
  <2>2. pc[t].at = "idle"
    BY <1>p, <2>1 DEF Idle, Places
  <2>3. QED
    BY <2>1, <2>2, ReadsUntouched
<1>7. ASSUME NEW t \in Threads, NEW s \in Clients, Strand(t, s) PROVE OpenReads'
  <2>1. UNCHANGED <<started, reading, peer>> /\ pc[t] = Idle
    BY <1>7
       DEF Strand, RunShutdown, RunRemove, RunExit, RunStop, RunFreed, Runs, Free
  <2>2. pc[t].at = "idle"
    BY <1>p, <2>1 DEF Idle, Places
  <2>3. \A r \in Clients : exit_[r] => exit_'[r]
    BY <1>7, CloseMarks
       DEF Strand, RunShutdown, RunRemove, RunExit, RunStop, RunFreed
  <2>4. UNCHANGED pc \/ \E to : Goes(t, to)
    BY <1>7
       DEF Strand, RunShutdown, RunRemove, RunExit, RunStop, RunFreed, Escapes,
           CopySessions
  <2>5. QED
    BY <2>1, <2>2, <2>3, <2>4, ReadsUntouched
<1>8. ASSUME NEW t \in Threads, GoesOn(t) PROVE OpenReads'
  <2>1. CASE Reread(t)
    <3>1. /\ reading' = [reading EXCEPT ![pc[t].s] = ~exit_[pc[t].s]]
          /\ Goes(t, Idle) /\ UNCHANGED <<started, peer, exit_>>
      BY <2>1 DEF Reread, ReadsAgain
    <3>2. \A u \in Threads : u # t => pc'[u] = pc[u]
      BY <3>1, GoesThere
    <3>3. \A s \in Clients :
            /\ s # pc[t].s => reading'[s] = reading[s]
            /\ s = pc[t].s => reading'[s] = ~exit_[s]
      BY <3>1 DEF TypeOK
    <3>4. QED
      BY <3>1, <3>2, <3>3, ReadsKept
  <2>2. CASE Push(t) \/ CloseDone(t) \/ Exit(t)
    <3>1. pc[t].at \in {"push", "closing", "idle"}
      BY <1>p, <2>2 DEF Push, CloseDone, Exit, Idle, Places
    <3>2. QED
      BY <2>2, <3>1, ReadsUntouched DEF Push, CloseDone, Exit
  <2>3. CASE \E s \in Clients : CloseNext(t, s)
    <3>1. PICK s \in Clients : CloseNext(t, s)
      BY <2>3
    <3>2. /\ UNCHANGED <<started, reading, peer>> /\ pc[t].at = "closing"
          /\ pc' = [pc EXCEPT ![t].todo = @ \ {s}]
      BY <3>1 DEF CloseNext
    <3>3. Goes(t, pc'[t])
      BY <3>2 DEF Goes, TypeOK
    <3>4. \A r \in Clients : exit_[r] => exit_'[r]
      BY <3>1, CloseMarks DEF CloseNext
    <3>5. QED
      BY <3>2, <3>3, <3>4, ReadsUntouched
  <2>4. QED
    BY <1>8, <2>1, <2>2, <2>3 DEF GoesOn, Closing
<1>9. CASE \E s \in Clients : Connect(s) \/ Leave(s)
  <2>1. \A s \in Clients : peer[s] = "gone" => peer'[s] = "gone"
    BY <1>9 DEF Connect, Leave, TypeOK
  <2>2. UNCHANGED <<started, reading, exit_, pc>>
    BY <1>9 DEF Connect, Leave
  <2>3. QED
    BY <2>1, <2>2, ReadsKept
<1>10. CASE UNCHANGED vars
  BY <1>10, ReadsUntouched DEF vars
<1>11. QED
  BY <1>1, <1>2, <1>3, <1>4, <1>5, <1>6, <1>7, <1>8, <1>9, <1>10
     DEF Next, SessionWork

(* A server that was just constructed satisfies the invariant. *)
LEMMA InitIInv == Init => IInv
<1> SUFFICES ASSUME Init PROVE IInv
  OBVIOUS
<1>1. TypeOK
  <2>1. \A place \in Places : Place(place) \in Spots(started)
    BY PlaceType
  <2>2. pc \in [Threads -> Spots(started)]
    BY <2>1 DEF Init, Places
  <2>3. write_strand \in [Clients -> Seq(StrandTasks)]
    BY DEF Init
  <2>4. unread \in 0 .. MaxMessages /\ tasks \in [Clients -> Nat]
    BY ThreadAssumption DEF Init
  <2>5. QED
    BY <2>2, <2>3, <2>4 DEF Init, TypeOK, Spots
<1>2. IncomingKnown /\ OpenIsListed /\ OpenReads
  BY DEF Init, IncomingKnown, OpenIsListed, OpenReads
<1>3. PushesStarted /\ CopyInClosing
  BY DEF Init, PushesStarted, CopyInClosing, Place, At
<1>4. RemovedIsClosed
  BY DEF Init, RemovedIsClosed
<1>5. QED
  BY <1>1, <1>2, <1>3, <1>4 DEF IInv

(* Every reachable state of the server satisfies the inductive invariant. *)
THEOREM ServerInvariant == Spec => []IInv
<1>1. IInv /\ [Next]_vars => IInv'
  BY TypeStep, IncomingStep, ListedStep, RemovedStep, ReadsStep DEF IInv, Listed
<1>2. QED
  BY InitIInv, <1>1, PTL DEF Spec

(* No open session is ever out of sight of close_sessions(), however many
   threads accept, close and remove: it is in the list, about to be put there,
   or in the copy that a thread is closing (server.cpp:57-93). *)
THEOREM OpenSessionsListed == Spec => []OpenIsListed
<1>1. IInv => OpenIsListed
  BY DEF IInv
<1>2. QED
  BY <1>1, ServerInvariant, PTL

(* The read loop of an open session never stops while its client is there,
   between whatever threads its steps are spread
   (server_session.cpp:44-62 and 120-140). *)
THEOREM OpenSessionsRead == Spec => []OpenReads
<1>1. IInv => OpenReads
  BY DEF IInv
<1>2. QED
  BY <1>1, ServerInvariant, PTL

-----------------------------------------------------------------------------
(* The list keeps no closed session when one thread runs the server. *)

(* A connection is accepted once. *)
LEMMA AcceptedStep ==
  ASSUME TypeOK, AcceptedOnce, [Next]_vars
  PROVE  AcceptedOnce'
<1>1. ASSUME UNCHANGED <<incoming, peer, started>>, accept_op' = "ok" => accept_op = "ok"
      PROVE  AcceptedOnce'
  BY <1>1 DEF AcceptedOnce
<1>2. ASSUME NEW t \in Threads, Accepting(t) PROVE AcceptedOnce'
  <2>1. CASE OnAccept(t)
    <3>1. /\ accept_op = "ok" /\ accept_op' = "none"
          /\ started' = started \cup {incoming} /\ peer' = peer
      BY <2>1 DEF OnAccept
    <3>2. QED
      BY <3>1 DEF AcceptedOnce
  <2>2. CASE OnAcceptReset(t)
    BY <2>2 DEF OnAcceptReset, AcceptedOnce
  <2>3. CASE OnAcceptError(t)
    BY <1>1, <2>3 DEF OnAcceptError, AcceptAgain
  <2>4. QED
    BY <1>2, <2>1, <2>2, <2>3 DEF Accepting
<1>3. ASSUME NEW t \in Threads, NEW s \in Clients,
             Reading(t, s) \/ Message(t, s) \/ Strand(t, s)
      PROVE  AcceptedOnce'
  <2>1. UNCHANGED <<accept_op, incoming, peer, started>>
    BY <1>3
       DEF Reading, OnReadClosed, OnRead, OnEof, OnReadError, ReadDone,
           Message, RunTask, RunThrows, TakeTask,
           Strand, RunShutdown, RunRemove, RunExit, RunStop, RunFreed, Runs
  <2>2. QED
    BY <1>1, <2>1
<1>4. ASSUME NEW t \in Threads, GoesOn(t) PROVE AcceptedOnce'
  <2>1. UNCHANGED <<incoming, peer, started>>
    BY <1>4 DEF GoesOn, Closing, Push, Reread, CloseNext, CloseDone, Exit
  <2>2. accept_op' = "ok" => accept_op = "ok"
    BY <1>4
       DEF GoesOn, Closing, Push, AcceptAgain, Reread, CloseNext, CloseDone, Exit
  <2>3. QED
    BY <1>1, <2>1, <2>2
<1>5. ASSUME NEW s \in Clients, Connect(s) \/ Leave(s) PROVE AcceptedOnce'
  <2>1. CASE Connect(s)
    <3>1. /\ peer[s] = "none" /\ peer' = [peer EXCEPT ![s] = "connected"]
          /\ incoming' = s /\ started' = started
      BY <2>1 DEF Connect
    <3>2. peer'[s] = "connected" /\ \A r \in Clients : r # s => peer'[r] = peer[r]
      BY <3>1 DEF TypeOK
    <3>3. s \notin started /\ \A r \in started : r \in Clients
      BY <3>1 DEF AcceptedOnce, TypeOK
    <3>4. QED
      BY <3>1, <3>2, <3>3 DEF AcceptedOnce
  <2>2. CASE Leave(s)
    <3>1. \A r \in Clients : peer[r] # "none" => peer'[r] # "none"
      BY <2>2 DEF Leave, TypeOK
    <3>2. /\ accept_op' = accept_op /\ incoming' = incoming /\ started' = started
          /\ peer' = [peer EXCEPT ![s] = "gone"]
      BY <2>2 DEF Leave
    <3>3. \A r : peer[r] # "none" => peer'[r] # "none" \/ r \notin Clients
      BY <3>1
    <3>4. accept_op = "ok" => peer'[incoming] # "none"
      <4>1. CASE incoming \in Clients
        BY <3>1, <4>1 DEF AcceptedOnce
      <4>2. CASE incoming \notin Clients
        BY <3>2, <4>2 DEF AcceptedOnce, TypeOK
      <4>3. QED
        BY <4>1, <4>2
    <3>5. QED
      BY <3>1, <3>2, <3>4 DEF AcceptedOnce, TypeOK
  <2>3. QED
    BY <1>5, <2>1, <2>2
<1>6. CASE \/ Run \/ Stop \/ JoinAll \/ UserCloseSessions \/ OutOfWork
           \/ \E w \in Workers : AsyncRun(w)
           \/ UNCHANGED vars
  BY <1>1, <1>6
     DEF Run, AsyncRun, EnterRun, Stop, JoinAll, UserStep, UserCloseSessions,
         OutOfWork, vars
<1>7. QED
  BY <1>2, <1>3, <1>4, <1>5, <1>6 DEF Next, SessionWork

(* A step on one session that is started, by threads that read again only in a
   session that is. *)
LEMMA OnOneStarted ==
  ASSUME TypeOK, NothingBeforeStart, started \subseteq started',
         NEW s, s \in started',
         \A r \in Clients :
           r # s => /\ exit_'[r] = exit_[r] /\ reading'[r] = reading[r]
                    /\ tasks'[r] = tasks[r] /\ write_strand'[r] = write_strand[r],
         \A t \in Threads :
           \/ pc'[t].at # "reread"
           \/ pc'[t].at = pc[t].at /\ pc'[t].s = pc[t].s
           \/ pc'[t].s = s
  PROVE  NothingBeforeStart'
BY DEF NothingBeforeStart

(* A step that leaves the sessions alone, and moves no thread to read again. *)
LEMMA OnNoSession ==
  ASSUME TypeOK, NothingBeforeStart, started' = started,
         UNCHANGED <<exit_, reading, tasks, write_strand>>,
         \/ UNCHANGED pc
         \/ \E t \in Threads : \E to : Goes(t, to) /\ to.at # "reread"
  PROVE  NothingBeforeStart'
<1>1. \A t \in Threads : pc'[t].at = "reread" => pc'[t] = pc[t]
  BY GoesThere
<1>2. QED
  BY <1>1 DEF NothingBeforeStart

(* Nothing happens to a session before it is started. *)
LEMMA BeforeStartStep ==
  ASSUME TypeOK, IncomingKnown, NothingBeforeStart, [Next]_vars
  PROVE  NothingBeforeStart'
<1>0. User \in Threads /\ Workers \subseteq Threads
  BY DEF Threads
<1>p. \A place \in Places : Place(place).at = place
  BY DEF Place, At
<1>1. CASE Run \/ \E w \in Workers : AsyncRun(w)
  <2>1. PICK t \in Threads : EnterRun(t)
    BY <1>0, <1>1 DEF Run, AsyncRun
  <2>2. QED
    BY <1>p, <2>1, OnNoSession DEF EnterRun, Idle, Places
<1>2. CASE Stop \/ JoinAll
  BY <1>0, <1>p, <1>2, OnNoSession DEF Stop, JoinAll, UserStep, Places
<1>3. CASE UserCloseSessions
  BY <1>0, <1>3, OnNoSession DEF UserCloseSessions, CopySessions, At
<1>4. ASSUME NEW t \in Threads, Accepting(t) PROVE NothingBeforeStart'
  <2>1. CASE OnAccept(t)
    <3>1. /\ incoming \in started' /\ started \subseteq started' /\ exit_' = exit_
          /\ reading' = [reading EXCEPT ![incoming] = TRUE]
          /\ UNCHANGED <<tasks, write_strand>> /\ Goes(t, At("push", incoming, {}))
      BY <2>1 DEF OnAccept
    <3>2. \A u \in Threads : pc'[u].at = "reread" => pc'[u] = pc[u]
      BY <3>1, GoesThere DEF At
    <3>3. \A r \in Clients : r # incoming => reading'[r] = reading[r]
      BY <3>1 DEF TypeOK
    <3>4. QED
      BY <3>1, <3>2, <3>3, OnOneStarted
  <2>2. CASE OnAcceptReset(t)
    BY <1>p, <2>2, OnNoSession DEF OnAcceptReset, Escapes, Places
  <2>3. CASE OnAcceptError(t)
    BY <2>3, OnNoSession DEF OnAcceptError
  <2>4. QED
    BY <1>4, <2>1, <2>2, <2>3 DEF Accepting
<1>5. ASSUME NEW t \in Threads, NEW s \in Clients, Reading(t, s)
      PROVE  NothingBeforeStart'
  <2>1. /\ reading[s] /\ started' = started
        /\ reading' = [reading EXCEPT ![s] = FALSE]
    BY <1>5 DEF Reading, OnReadClosed, OnRead, OnEof, OnReadError, ReadDone
  <2>2. s \in started'
    BY <2>1 DEF NothingBeforeStart
  <2>3. \A r \in Clients :
          r # s => /\ exit_'[r] = exit_[r] /\ reading'[r] = reading[r]
                   /\ tasks'[r] = tasks[r] /\ write_strand'[r] = write_strand[r]
    BY <1>5, <2>1
       DEF Reading, OnReadClosed, OnRead, OnEof, OnReadError, Close, TypeOK
  <2>4. \A u \in Threads :
          pc'[u] = pc[u] \/ pc'[u].s = s
    <3>1. CASE OnRead(t, s)
      <4>1. Goes(t, At("reread", s, {})) /\ At("reread", s, {}).s = s
        BY <3>1 DEF OnRead, At
      <4>2. QED
        BY <4>1, GoesThere
    <3>2. CASE OnReadClosed(t, s) \/ OnEof(t, s) \/ OnReadError(t, s)
      BY <3>2 DEF OnReadClosed, OnEof, OnReadError
    <3>3. QED
      BY <1>5, <3>1, <3>2 DEF Reading
  <2>5. QED
    BY <2>1, <2>2, <2>3, <2>4, OnOneStarted
<1>6. ASSUME NEW t \in Threads, NEW s \in Clients, Message(t, s)
      PROVE  NothingBeforeStart'
  <2>1. /\ tasks[s] > 0 /\ started' = started
        /\ UNCHANGED <<exit_, reading>>
        /\ tasks' = [tasks EXCEPT ![s] = @ - 1]
        /\ UNCHANGED pc \/ Goes(t, Place("outside"))
    BY <1>6 DEF Message, RunTask, RunThrows, TakeTask, Escapes
  <2>2. s \in started'
    BY <2>1 DEF NothingBeforeStart
  <2>3. \A r \in Clients :
          r # s => tasks'[r] = tasks[r] /\ write_strand'[r] = write_strand[r]
    BY <1>6, <2>1 DEF Message, RunTask, RunThrows, TypeOK
  <2>4. \A u \in Threads : pc'[u].at = "reread" => pc'[u] = pc[u]
    BY <1>p, <2>1, GoesThere DEF Places
  <2>5. QED
    BY <2>1, <2>2, <2>3, <2>4, OnOneStarted
<1>7. ASSUME NEW t \in Threads, NEW s \in Clients, Strand(t, s)
      PROVE  NothingBeforeStart'
  <2>1. /\ write_strand[s] # <<>> /\ started' = started
        /\ UNCHANGED <<reading, tasks>>
    BY <1>7
       DEF Strand, RunShutdown, RunRemove, RunExit, RunStop, RunFreed, Runs
  <2>2. s \in started'
    BY <2>1 DEF NothingBeforeStart
  <2>3. \A r \in Clients :
          r # s => exit_'[r] = exit_[r] /\ write_strand'[r] = write_strand[r]
    BY <1>7
       DEF Strand, RunShutdown, RunRemove, RunExit, RunStop, RunFreed, Pop,
           Close, TypeOK
  <2>4. UNCHANGED pc \/ \E to : Goes(t, to) /\ to.at # "reread"
    BY <1>p, <1>7
       DEF Strand, RunShutdown, RunRemove, RunExit, RunStop, RunFreed, Escapes,
           CopySessions, At, Places
  <2>5. \A u \in Threads : pc'[u].at = "reread" => pc'[u] = pc[u]
    BY <2>4, GoesThere
  <2>6. QED
    BY <2>1, <2>2, <2>3, <2>5, OnOneStarted
<1>8. ASSUME NEW t \in Threads, GoesOn(t) PROVE NothingBeforeStart'
  <2>1. CASE Reread(t)
    <3>1. /\ pc[t].at = "reread" /\ started' = started
          /\ reading' = [reading EXCEPT ![pc[t].s] = ReadsAgain(pc[t].s)]
          /\ Goes(t, Idle) /\ UNCHANGED <<exit_, tasks, write_strand>>
      BY <2>1 DEF Reread
    <3>2. pc[t].s \in started' /\ \A r \in Clients : r # pc[t].s => reading'[r] = reading[r]
      BY <3>1 DEF NothingBeforeStart, TypeOK
    <3>3. \A u \in Threads : pc'[u].at = "reread" => pc'[u] = pc[u]
      BY <1>p, <3>1, GoesThere DEF Idle, Places
    <3>4. QED
      BY <3>1, <3>2, <3>3, OnOneStarted
  <2>2. CASE \E s \in Clients : CloseNext(t, s)
    <3>1. PICK s \in Clients : CloseNext(t, s)
      BY <2>2
    <3>2. /\ s \in pc[t].todo /\ pc' = [pc EXCEPT ![t].todo = @ \ {s}]
          /\ started' = started /\ UNCHANGED <<reading, tasks>>
      BY <3>1 DEF CloseNext
    <3>3. s \in started'
      BY <3>2 DEF TypeOK
    <3>4. \A r \in Clients :
            r # s => exit_'[r] = exit_[r] /\ write_strand'[r] = write_strand[r]
      BY <3>1 DEF CloseNext, Close, TypeOK
    <3>5. \A u \in Threads : pc'[u].at = pc[u].at /\ pc'[u].s = pc[u].s
      BY <3>2 DEF TypeOK
    <3>6. QED
      BY <3>2, <3>3, <3>4, <3>5, OnOneStarted
  <2>3. CASE Push(t) \/ CloseDone(t) \/ Exit(t)
    <3>1. /\ started' = started /\ UNCHANGED <<exit_, reading, tasks, write_strand>>
          /\ \E to : Goes(t, to) /\ to.at # "reread"
      BY <1>p, <2>3 DEF Push, CloseDone, Exit, Idle, Places
    <3>2. QED
      BY <3>1, OnNoSession
  <2>4. QED
    BY <1>8, <2>1, <2>2, <2>3 DEF GoesOn, Closing
<1>9. CASE OutOfWork \/ (\E s \in Clients : Connect(s) \/ Leave(s)) \/ UNCHANGED vars
  BY <1>9, OnNoSession DEF OutOfWork, Connect, Leave, vars
<1>10. QED
  BY <1>1, <1>2, <1>3, <1>4, <1>5, <1>6, <1>7, <1>8, <1>9 DEF Next, SessionWork

(* A thread that moves into a handler, or back to none, was in io.run(). *)
LEMMA MoveInRun ==
  ASSUME TypeOK, HandlersInRun, NEW t \in Threads, NEW to, Goes(t, to), ran' = ran,
         \/ t \in ran
         \/ to.at \notin {"idle", "push", "reread", "closing"}
         \/ to.at = "closing" /\ to.s = NoSession
  PROVE  HandlersInRun'
<1>1. pc'[t] = to /\ \A u \in Threads : u # t => pc'[u] = pc[u]
  BY GoesThere
<1>2. QED
  BY <1>1 DEF HandlersInRun, InHandler

(* Handlers run in threads that have been in io.run(). *)
LEMMA InRunStep ==
  ASSUME TypeOK, HandlersInRun, [Next]_vars
  PROVE  HandlersInRun' /\ ran \subseteq ran'
<1>0. User \in Threads /\ Workers \subseteq Threads
  BY DEF Threads
<1>p. \A place \in Places : Place(place).at = place
  BY DEF Place, At
<1>f. \A t \in Threads : Free(t) => t \in ran
  BY <1>p DEF Free, Idle, Places, HandlersInRun
<1>1. CASE Run \/ \E w \in Workers : AsyncRun(w)
  <2>1. PICK t \in Threads : EnterRun(t)
    BY <1>0, <1>1 DEF Run, AsyncRun
  <2>2. ran' = ran \cup {t} /\ Goes(t, Idle)
    BY <2>1 DEF EnterRun
  <2>3. \A u \in Threads : u # t => pc'[u] = pc[u]
    BY <2>2, GoesThere
  <2>4. IsFiniteSet(ran')
    BY <2>2, FS_AddElement DEF HandlersInRun
  <2>5. QED
    BY <2>2, <2>3, <2>4 DEF HandlersInRun, InHandler
<1>2. CASE Stop \/ JoinAll
  BY <1>0, <1>p, <1>2, MoveInRun DEF Stop, JoinAll, UserStep, Places
<1>3. CASE UserCloseSessions
  BY <1>0, <1>3, MoveInRun DEF UserCloseSessions, CopySessions, At
<1>4. CASE OutOfWork \/ (\E s \in Clients : Connect(s) \/ Leave(s)) \/ UNCHANGED vars
  <2>1. UNCHANGED <<pc, ran>>
    BY <1>4 DEF OutOfWork, Connect, Leave, vars
  <2>2. QED
    BY <2>1 DEF HandlersInRun, InHandler
<1>5. ASSUME NEW t \in Threads,
             \/ Accepting(t)
             \/ \E s \in Clients : Reading(t, s) \/ Message(t, s) \/ Strand(t, s)
      PROVE  HandlersInRun' /\ ran \subseteq ran'
  <2>1. t \in ran /\ ran' = ran
    BY <1>5, <1>f
       DEF Accepting, OnAccept, OnAcceptReset, OnAcceptError, Reading,
           OnReadClosed, OnRead, OnEof, OnReadError, ReadDone, Message, RunTask,
           RunThrows, TakeTask, Strand, RunShutdown, RunRemove, RunExit, RunStop,
           RunFreed, Runs
  <2>2. UNCHANGED pc \/ \E to : Goes(t, to)
    BY <1>5
       DEF Accepting, OnAccept, OnAcceptReset, OnAcceptError, Escapes, Reading,
           OnReadClosed, OnRead, OnEof, OnReadError, Message, RunTask,
           RunThrows, Strand, RunShutdown, RunRemove, RunExit, RunStop,
           RunFreed, CopySessions
  <2>3. CASE UNCHANGED pc
    BY <2>1, <2>3 DEF HandlersInRun, InHandler
  <2>4. CASE \E to : Goes(t, to)
    BY <2>1, <2>4, MoveInRun
  <2>5. QED
    BY <2>2, <2>3, <2>4
<1>6. ASSUME NEW t \in Threads, GoesOn(t)
      PROVE  HandlersInRun' /\ ran \subseteq ran'
  <2>1. ran' = ran
    BY <1>6 DEF GoesOn, Closing, Push, Reread, CloseNext, CloseDone, Exit
  <2>2. CASE Push(t) \/ Reread(t) \/ Exit(t)
    <3>1. t \in ran /\ \E to : Goes(t, to)
      BY <1>p, <2>2
         DEF Push, Reread, Exit, Idle, Places, HandlersInRun, InHandler
    <3>2. QED
      BY <2>1, <3>1, MoveInRun
  <2>3. CASE CloseDone(t)
    <3>1. CASE pc[t].s = NoSession
      BY <1>p, <2>1, <2>3, <3>1, MoveInRun DEF CloseDone, Places
    <3>2. CASE pc[t].s # NoSession
      BY <2>1, <2>3, <3>2, MoveInRun DEF CloseDone, HandlersInRun, InHandler
    <3>3. QED
      BY <3>1, <3>2
  <2>4. CASE \E s \in Clients : CloseNext(t, s)
    <3>1. \A u \in Threads : pc'[u].at = pc[u].at /\ pc'[u].s = pc[u].s
      BY <2>4 DEF CloseNext, TypeOK
    <3>2. QED
      BY <2>1, <3>1 DEF HandlersInRun, InHandler
  <2>5. QED
    BY <1>6, <2>2, <2>3, <2>4 DEF GoesOn, Closing
<1>7. QED
  BY <1>1, <1>2, <1>3, <1>4, <1>5, <1>6 DEF Next, SessionWork

(* One thread is one thread. *)
LEMMA SameThread ==
  ASSUME OneThread, IsFiniteSet(ran), NEW t \in ran, NEW u \in ran
  PROVE  t = u
<1>1. Cardinality(ran) \in Nat /\ Cardinality(ran) <= 1
  BY FS_CardinalityType DEF OneThread
<1>2. Cardinality(ran) # 0
  BY FS_EmptySet
<1>3. Cardinality(ran) = 1
  BY <1>1, <1>2
<1>4. PICK x : ran = {x}
  BY <1>3, FS_Singleton
<1>5. QED
  BY <1>4

(* More threads do not become one. *)
LEMMA StaysOne ==
  ASSUME HandlersInRun, HandlersInRun', ran \subseteq ran', OneThread'
  PROVE  OneThread
<1>1. IsFiniteSet(ran) /\ IsFiniteSet(ran') /\ ran \in SUBSET ran'
  BY DEF HandlersInRun
<1>2. Cardinality(ran) <= Cardinality(ran')
  BY <1>1, FS_Subset
<1>3. Cardinality(ran) \in Nat /\ Cardinality(ran') \in Nat
  BY <1>1, FS_CardinalityType
<1>4. OneThread' <=> Cardinality(ran') <= 1
  BY DEF OneThread
<1>5. QED
  BY <1>2, <1>3, <1>4 DEF OneThread

(* With one thread no handler starts while a session is about to be listed. *)
LEMMA NoneFreeWhilePushing ==
  ASSUME HandlersInRun, OneThread, NEW t \in Threads, Free(t), NEW s, Pushing(s)
  PROVE  FALSE
<1>1. PICK u \in Threads : pc[u].at = "push"
  BY DEF Pushing
<1>2. pc[t].at = "idle"
  BY DEF Free, Idle, Place, At
<1>3. t \in ran /\ u \in ran /\ IsFiniteSet(ran)
  BY <1>1, <1>2 DEF HandlersInRun, InHandler
<1>4. t = u
  BY <1>3, SameThread
<1>5. QED
  BY <1>1, <1>2, <1>4

(* A step after which fewer sessions are about to be listed, and which closes
   and copies none of them. *)
LEMMA UnseenKept ==
  ASSUME PushesUnseen, OneThread' => OneThread,
         \A s \in Clients : Pushing(s)' => Pushing(s),
         \A s \in Clients :
           exit_'[s] => exit_[s] \/ \E t \in Threads : s \in pc[t].todo,
         sessions' \subseteq sessions,
         \A t \in Threads : pc'[t].todo \subseteq pc[t].todo \cup sessions
  PROVE  PushesUnseen'
BY DEF PushesUnseen

(* A thread that moves to no push leaves fewer sessions about to be listed. *)
LEMMA MovePushing ==
  ASSUME TypeOK, NEW t \in Threads, NEW to, Goes(t, to), to.at # "push", NEW s,
         Pushing(s)'
  PROVE  \E u \in Threads : u # t /\ pc[u].at = "push" /\ pc[u].s = s
<1>1. pc'[t] = to /\ \A u \in Threads : u # t => pc'[u] = pc[u]
  BY GoesThere
<1>2. PICK u \in Threads : pc'[u].at = "push" /\ pc'[u].s = s
  BY DEF Pushing
<1>3. QED
  BY <1>1, <1>2

(* With one thread nothing reaches a session between its start and its place in
   the list. *)
LEMMA UnseenStep ==
  ASSUME TypeOK, IncomingKnown, AcceptedOnce, NothingBeforeStart, HandlersInRun,
         HandlersInRun', PushesUnseen, [Next]_vars
  PROVE  PushesUnseen'
<1>0. User \in Threads /\ Workers \subseteq Threads
  BY DEF Threads
<1>p. \A place \in Places : Place(place).at = place /\ Place(place).todo = {}
  BY DEF Place, At
<1>o. OneThread' => OneThread
  BY InRunStep, StaysOne
<1>n. ASSUME NEW t \in Threads, Free(t), OneThread, NEW s PROVE ~Pushing(s)
  BY <1>n, NoneFreeWhilePushing
(* A thread without a handler takes one: none is pushing, and only the handler
   of an accept will be. *)
<1>1. ASSUME NEW t \in Threads, Free(t),
             UNCHANGED pc \/ \E to : Goes(t, to) /\ to.at # "push"
      PROVE  PushesUnseen'
  <2>1. \A s : Pushing(s)' => Pushing(s)
    BY <1>1, MovePushing DEF Pushing
  <2>2. OneThread' => \A s : ~Pushing(s)'
    BY <1>1, <1>n, <1>o, <2>1
  <2>3. QED
    BY <2>2 DEF PushesUnseen
<1>2. ASSUME NEW t \in Threads, OnAccept(t) PROVE PushesUnseen'
  <2>1. /\ Free(t) /\ Goes(t, At("push", incoming, {})) /\ accept_op = "ok"
        /\ exit_' = exit_ /\ sessions' = sessions
    BY <1>2 DEF OnAccept
  <2>2. /\ pc'[t] = At("push", incoming, {})
        /\ \A u \in Threads : u # t => pc'[u] = pc[u]
    BY <2>1, GoesThere
  <2>3. /\ incoming \in Clients /\ incoming \notin started /\ ~exit_[incoming]
        /\ incoming \notin sessions
        /\ \A u \in Threads : incoming \notin pc[u].todo
    <3>1. incoming \in Clients /\ incoming \notin started
      BY <2>1 DEF IncomingKnown, AcceptedOnce
    <3>2. QED
      BY <3>1 DEF NothingBeforeStart, TypeOK
  <2>4. ASSUME OneThread', NEW s \in Clients, Pushing(s)' PROVE s = incoming
    <3>1. PICK u \in Threads : pc'[u].at = "push" /\ pc'[u].s = s
      BY <2>4 DEF Pushing
    <3>2. CASE u # t
      <4>1. Pushing(s)
        BY <2>2, <3>1, <3>2 DEF Pushing
      <4>2. QED
        BY <1>n, <1>o, <2>1, <2>4, <4>1
    <3>3. CASE u = t
      BY <2>2, <3>1, <3>3 DEF At
    <3>4. QED
      BY <3>2, <3>3
  <2>5. \A u \in Threads : incoming \notin pc'[u].todo
    BY <2>2, <2>3 DEF At
  <2>6. QED
    BY <2>1, <2>3, <2>4, <2>5 DEF PushesUnseen
<1>3. ASSUME NEW t \in Threads, OnAcceptReset(t) \/ OnAcceptError(t)
      PROVE  PushesUnseen'
  <2>1. Free(t) /\ (UNCHANGED pc \/ \E to : Goes(t, to) /\ to.at # "push")
    BY <1>3, <1>p DEF OnAcceptReset, OnAcceptError, Escapes, Places
  <2>2. QED
    BY <1>1, <2>1
<1>4. ASSUME NEW t \in Threads, NEW s \in Clients,
             Reading(t, s) \/ Message(t, s) \/ Strand(t, s)
      PROVE  PushesUnseen'
  <2>1. Free(t)
    BY <1>4
       DEF Reading, OnReadClosed, OnRead, OnEof, OnReadError, ReadDone,
           Message, RunTask, RunThrows, TakeTask,
           Strand, RunShutdown, RunRemove, RunExit, RunStop, RunFreed, Runs
  <2>2. UNCHANGED pc \/ \E to : Goes(t, to) /\ to.at # "push"
    <3>1. CASE Reading(t, s)
      <4>1. UNCHANGED pc \/ Goes(t, At("reread", s, {}))
        BY <3>1 DEF Reading, OnReadClosed, OnRead, OnEof, OnReadError
      <4>2. At("reread", s, {}).at = "reread"
        BY DEF At
      <4>3. QED
        BY <4>1, <4>2
    <3>2. CASE Message(t, s)
      BY <1>p, <3>2 DEF Message, RunTask, RunThrows, Escapes, Places
    <3>3. CASE Strand(t, s)
      BY <1>p, <3>3
         DEF Strand, RunShutdown, RunRemove, RunExit, RunStop, RunFreed, Escapes,
             CopySessions, At, Places
    <3>4. QED
      BY <1>4, <3>1, <3>2, <3>3
  <2>3. QED
    BY <1>1, <2>1, <2>2
(* The thread that was about to list its session has done so. *)
<1>5. ASSUME NEW t \in Threads, Push(t) PROVE PushesUnseen'
  <2>1. pc[t].at = "push" /\ Goes(t, Idle) /\ Idle.at = "idle"
    BY <1>p, <1>5 DEF Push, Idle, Places
  <2>2. ASSUME OneThread', NEW s \in Clients, Pushing(s)' PROVE FALSE
    <3>1. PICK u \in Threads : u # t /\ pc[u].at = "push"
      BY <2>1, <2>2, MovePushing
    <3>2. t \in ran /\ u \in ran /\ IsFiniteSet(ran)
      BY <2>1, <3>1 DEF HandlersInRun, InHandler
    <3>3. QED
      BY <1>o, <2>2, <3>1, <3>2, SameThread
  <2>3. QED
    BY <2>2 DEF PushesUnseen
<1>6. ASSUME UNCHANGED <<exit_, sessions>>,
             \/ UNCHANGED pc
             \/ \E t \in Threads : \E to :
                  Goes(t, to) /\ to.at # "push" /\ to.todo \subseteq sessions
      PROVE  PushesUnseen'
  <2>1. \A s : Pushing(s)' => Pushing(s)
    BY <1>6, MovePushing DEF Pushing
  <2>2. \A u \in Threads : pc'[u].todo \subseteq pc[u].todo \cup sessions
    BY <1>6, GoesThere
  <2>3. QED
    BY <1>6, <1>o, <2>1, <2>2, UnseenKept
<1>7. ASSUME NEW t \in Threads, Reread(t) \/ Exit(t) \/ CloseDone(t)
      PROVE  PushesUnseen'
  <2>1. UNCHANGED <<exit_, sessions>>
    BY <1>7 DEF Reread, Exit, CloseDone, ListAtEnd
  <2>2. \E to : Goes(t, to) /\ to.at # "push" /\ to.todo \subseteq sessions
    <3>1. \E place \in Places : place # "push" /\ Goes(t, Place(place))
      BY <1>7 DEF Reread, Exit, CloseDone, Idle, Places
    <3>2. QED
      BY <1>p, <3>1
  <2>3. QED
    BY <1>6, <2>1, <2>2
<1>8. ASSUME NEW t \in Threads, NEW s \in Clients, CloseNext(t, s)
      PROVE  PushesUnseen'
  <2>1. /\ s \in pc[t].todo /\ pc' = [pc EXCEPT ![t].todo = @ \ {s}]
        /\ sessions' = sessions /\ exit_' = [exit_ EXCEPT ![s] = TRUE]
    BY <1>8 DEF CloseNext, Close
  <2>2. \A u \in Threads : /\ pc'[u].at = pc[u].at /\ pc'[u].s = pc[u].s
                           /\ pc'[u].todo \subseteq pc[u].todo
    BY <2>1 DEF TypeOK
  <2>3. \A r \in Clients : r # s => exit_'[r] = exit_[r]
    BY <2>1 DEF TypeOK
  <2>4. \A r : Pushing(r)' => Pushing(r)
    BY <2>2 DEF Pushing
  <2>5. QED
    BY <1>o, <2>1, <2>2, <2>3, <2>4, UnseenKept
<1>9. CASE Run \/ \E w \in Workers : AsyncRun(w)
  <2>1. PICK t \in Threads : EnterRun(t)
    BY <1>0, <1>9 DEF Run, AsyncRun
  <2>2. QED
    BY <1>6, <1>p, <2>1 DEF EnterRun, Idle, Places
<1>10. CASE Stop \/ JoinAll
  <2>1. \E place \in Places : place # "push" /\ Goes(User, Place(place))
    BY <1>10 DEF Stop, JoinAll, UserStep, Places
  <2>2. UNCHANGED <<exit_, sessions>>
    BY <1>10 DEF Stop, JoinAll, UserStep
  <2>3. QED
    BY <1>0, <1>6, <1>p, <2>1, <2>2
<1>11. CASE UserCloseSessions
  <2>1. /\ Goes(User, At("closing", NoSession, sessions)) /\ exit_' = exit_
        /\ sessions' = {}
    BY <1>11 DEF UserCloseSessions, CopySessions
  <2>2. \A s : Pushing(s)' => Pushing(s)
    BY <1>0, <2>1, MovePushing DEF Pushing, At
  <2>3. \A u \in Threads : pc'[u].todo \subseteq pc[u].todo \cup sessions
    BY <1>0, <2>1, GoesThere DEF At
  <2>4. QED
    BY <1>o, <2>1, <2>2, <2>3, UnseenKept
<1>12. CASE OutOfWork \/ (\E s \in Clients : Connect(s) \/ Leave(s)) \/ UNCHANGED vars
  BY <1>6, <1>12 DEF OutOfWork, Connect, Leave, vars
<1>13. QED
  BY <1>2, <1>3, <1>4, <1>5, <1>7, <1>8, <1>9, <1>10, <1>11, <1>12
     DEF Next, SessionWork, Accepting, GoesOn, Closing

(* A strand that holds a removal. *)
Leaving(q) == \E i \in DOMAIN q : q[i] = "remove"

LEMMA LeavingStrand ==
  ASSUME NEW q \in Seq(StrandTasks)
  PROVE  /\ Leaving(q \o ClosePosts)
         /\ \A a \in Seq(StrandTasks) : Leaving(q) => Leaving(q \o a)
         /\ q # <<>> /\ Head(q) # "remove" /\ Leaving(q) => Leaving(Tail(q))
<1>1. Leaving(q \o ClosePosts)
  <2>1. ClosePosts \in Seq(StrandTasks) /\ Len(ClosePosts) = 2
          /\ ClosePosts[2] = "remove"
    BY DEF ClosePosts, StrandTasks
  <2> DEFINE c == ClosePosts
  <2>2. c \in Seq(StrandTasks) /\ Len(c) = 2 /\ c[2] = "remove"
    BY <2>1
  <2> HIDE DEF c
  <2>3. Len(q) + 2 \in DOMAIN (q \o c) /\ (q \o c)[Len(q) + 2] = c[2]
    BY SMTT(30), <2>2
  <2>4. QED
    BY <2>2, <2>3 DEF Leaving, c
<1>2. ASSUME NEW a \in Seq(StrandTasks), Leaving(q) PROVE Leaving(q \o a)
  <2>1. \A i \in DOMAIN q : i \in DOMAIN (q \o a) /\ (q \o a)[i] = q[i]
    OBVIOUS
  <2>2. QED
    BY <1>2, <2>1 DEF Leaving
<1>3. ASSUME q # <<>>, Head(q) # "remove", Leaving(q) PROVE Leaving(Tail(q))
  <2>1. PICK i \in DOMAIN q : q[i] = "remove"
    BY <1>3 DEF Leaving
  <2>2. i # 1 /\ i \in 1 .. Len(q) /\ Len(q) \in Nat
    BY <1>3, <2>1
  <2>3. i - 1 \in DOMAIN Tail(q) /\ Tail(q)[i - 1] = q[i]
    BY <1>3, <2>2
  <2>4. QED
    BY <2>1, <2>3 DEF Leaving
<1>4. QED
  BY <1>1, <1>2, <1>3

(* A step that closes only with a removal, takes no removal away from a session
   in the list and lists no session that is closed. *)
LEMMA LeavingKept ==
  ASSUME ClosedIsLeaving, OneThread' => OneThread,
         OneThread =>
           \A s \in sessions' :
             \/ ~exit_'[s]
             \/ Leaving(write_strand'[s])
             \/ /\ s \in sessions /\ exit_[s]
                /\ Leaving(write_strand[s]) => Leaving(write_strand'[s])
  PROVE  ClosedIsLeaving'
<1>1. ClosedIsLeaving <=>
        (OneThread => \A s \in sessions : exit_[s] => Leaving(write_strand[s]))
  BY DEF ClosedIsLeaving, Leaving
<1>2. ClosedIsLeaving' <=>
        (OneThread' => \A s \in sessions' : exit_'[s] => Leaving(write_strand'[s]))
  BY DEF ClosedIsLeaving, Leaving
<1>3. QED
  BY <1>1, <1>2

LEMMA LeavingStep ==
  ASSUME TypeOK, HandlersInRun, HandlersInRun', PushesUnseen, PushesStarted,
         ClosedIsLeaving, [Next]_vars
  PROVE  ClosedIsLeaving'
<1>o. OneThread' => OneThread
  BY InRunStep, StaysOne
<1>s. /\ sessions \subseteq Clients
      /\ \A s \in Clients : write_strand[s] \in Seq(StrandTasks)
  BY DEF TypeOK
<1>1. ASSUME UNCHANGED <<exit_, write_strand>>, sessions' \subseteq sessions
      PROVE  ClosedIsLeaving'
  BY <1>o, <1>1, LeavingKept
<1>2. ASSUME NEW s \in Clients, NEW before \in Seq(StrandTasks),
             Close(s, before), sessions' = sessions
      PROVE  ClosedIsLeaving'
  <2>1. /\ write_strand'[s] = before \o ClosePosts
        /\ \A r \in Clients : r # s => /\ exit_'[r] = exit_[r]
                                       /\ write_strand'[r] = write_strand[r]
    BY <1>2 DEF Close, TypeOK
  <2>2. Leaving(write_strand'[s])
    BY <2>1, LeavingStrand
  <2>3. QED
    BY <1>2, <1>o, <1>s, <2>1, <2>2, LeavingKept
<1>3. ASSUME NEW s \in Clients, NEW a \in Seq(StrandTasks),
             write_strand' = [write_strand EXCEPT ![s] = @ \o a],
             UNCHANGED <<exit_, sessions>>
      PROVE  ClosedIsLeaving'
  <2>1. /\ write_strand'[s] = write_strand[s] \o a
        /\ \A r \in Clients : r # s => write_strand'[r] = write_strand[r]
    BY <1>3 DEF TypeOK
  <2>2. Leaving(write_strand[s]) => Leaving(write_strand'[s])
    BY <1>s, <2>1, LeavingStrand
  <2>3. QED
    BY <1>3, <1>o, <1>s, <2>1, <2>2, LeavingKept
<1>4. ASSUME NEW s \in Clients, Pop(s), write_strand[s] # <<>>,
             Head(write_strand[s]) # "remove", exit_' = exit_,
             sessions' \subseteq sessions
      PROVE  ClosedIsLeaving'
  <2>1. /\ write_strand'[s] = Tail(write_strand[s])
        /\ \A r \in Clients : r # s => write_strand'[r] = write_strand[r]
    BY <1>4 DEF Pop, TypeOK
  <2>2. Leaving(write_strand[s]) => Leaving(write_strand'[s])
    BY <1>s, <1>4, <2>1, LeavingStrand
  <2>3. QED
    BY <1>4, <1>o, <1>s, <2>1, <2>2, LeavingKept
<1>5. ASSUME NEW t \in Threads, NEW s \in Clients, Reading(t, s)
      PROVE  ClosedIsLeaving'
  <2>1. sessions' = sessions
    BY <1>5 DEF Reading, OnReadClosed, OnRead, OnEof, OnReadError, ReadDone
  <2>2. CASE OnEof(t, s)
    BY <1>2, <1>s, <2>1, <2>2 DEF OnEof
  <2>3. CASE OnReadClosed(t, s) \/ OnRead(t, s) \/ OnReadError(t, s)
    BY <1>1, <2>1, <2>3 DEF OnReadClosed, OnRead, OnReadError
  <2>4. QED
    BY <1>5, <2>2, <2>3 DEF Reading
<1>6. ASSUME NEW t \in Threads, NEW s \in Clients, Message(t, s)
      PROVE  ClosedIsLeaving'
  <2>1. UNCHANGED <<exit_, sessions>>
    BY <1>6 DEF Message, RunTask, RunThrows, TakeTask
  <2>2. CASE \E enabled, exit, stop \in BOOLEAN : RunTask(t, s, enabled, exit, stop)
    <3>1. PICK a \in {<<>>, <<"exit">>}, b \in {<<>>, <<"stop">>} :
            write_strand' = [write_strand EXCEPT ![s] = @ \o a \o b]
      BY <2>2 DEF RunTask
    <3>2. /\ <<>> \in Seq(StrandTasks) /\ <<"exit">> \in Seq(StrandTasks)
          /\ <<"stop">> \in Seq(StrandTasks)
      BY DEF StrandTasks
    <3>3. a \in Seq(StrandTasks) /\ b \in Seq(StrandTasks)
      BY <3>1, <3>2
    <3>4. (write_strand[s] \o a) \o b = write_strand[s] \o (a \o b)
            /\ a \o b \in Seq(StrandTasks)
      <4> DEFINE q == write_strand[s]
      <4>1. /\ q \in Seq(StrandTasks) /\ a \in Seq(StrandTasks)
            /\ b \in Seq(StrandTasks)
        BY <1>s, <3>3
      <4> HIDE DEF q
      <4>2. (q \o a) \o b = q \o (a \o b)
        BY <4>1
      <4>3. a \o b \in Seq(StrandTasks)
        BY <4>1, ConcatProperties
      <4>4. QED
        BY <4>2, <4>3 DEF q
    <3>5. write_strand' = [write_strand EXCEPT ![s] = @ \o (a \o b)]
      BY <3>1, <3>4
    <3>6. QED
      BY <1>3, <2>1, <3>4, <3>5
  <2>3. CASE \E stop \in BOOLEAN : RunThrows(t, s, stop)
    BY <1>1, <2>1, <2>3 DEF RunThrows
  <2>4. QED
    BY <1>6, <2>2, <2>3 DEF Message
<1>7. ASSUME NEW t \in Threads, NEW s \in Clients, Strand(t, s)
      PROVE  ClosedIsLeaving'
  <2>1. write_strand[s] # <<>>
    BY <1>7 DEF Strand, Runs, RunShutdown, RunRemove, RunExit, RunStop, RunFreed
  <2>2. CASE RunExit(t, s)
    <3>1. Tail(write_strand[s]) \in Seq(StrandTasks)
      BY <1>s, <2>1
    <3>2. QED
      BY <1>2, <2>2, <3>1 DEF RunExit
  <2>3. CASE RunRemove(t, s)
    <3>1. /\ sessions' = sessions \ {s} /\ exit_' = exit_ /\ Pop(s)
      BY <2>3 DEF RunRemove
    <3>2. \A r \in Clients : r # s => write_strand'[r] = write_strand[r]
      BY <3>1 DEF Pop, TypeOK
    <3>3. QED
      BY <1>o, <1>s, <3>1, <3>2, LeavingKept
  <2>4. CASE RunShutdown(t, s) \/ RunStop(t, s) \/ RunFreed(t, s)
    <3>1. /\ Pop(s) /\ exit_' = exit_ /\ sessions' \subseteq sessions
          /\ Head(write_strand[s]) # "remove"
      BY <2>4 DEF RunShutdown, RunStop, RunFreed, Runs, CopySessions
    <3>2. QED
      BY <1>4, <2>1, <3>1
  <2>5. QED
    BY <1>7, <2>2, <2>3, <2>4 DEF Strand
<1>8. ASSUME NEW t \in Threads, Push(t) PROVE ClosedIsLeaving'
  <2>1. /\ pc[t].at = "push" /\ sessions' = sessions \cup {pc[t].s}
        /\ UNCHANGED <<exit_, write_strand>>
    BY <1>8 DEF Push
  <2>2. pc[t].s \in Clients /\ Pushing(pc[t].s)
    BY <2>1 DEF PushesStarted, Pushing, TypeOK
  <2>3. OneThread => ~exit_[pc[t].s]
    BY <2>2 DEF PushesUnseen
  <2>4. QED
    BY <1>o, <2>1, <2>3, LeavingKept
<1>9. ASSUME NEW t \in Threads, NEW s \in Clients, CloseNext(t, s)
      PROVE  ClosedIsLeaving'
  BY <1>2, <1>9, <1>s DEF CloseNext
<1>10. CASE \/ Run \/ Stop \/ JoinAll \/ UserCloseSessions \/ OutOfWork
            \/ \E w \in Workers : AsyncRun(w)
            \/ \E t \in Threads :
                 Accepting(t) \/ Reread(t) \/ Exit(t) \/ CloseDone(t)
            \/ \E s \in Clients : Connect(s) \/ Leave(s)
            \/ UNCHANGED vars
  <2>1. UNCHANGED <<exit_, write_strand>> /\ sessions' \subseteq sessions
    BY <1>10
       DEF Run, AsyncRun, EnterRun, Stop, JoinAll, UserStep, UserCloseSessions,
           CopySessions, OutOfWork, Accepting, OnAccept, OnAcceptReset,
           OnAcceptError, Reread, Exit, CloseDone, ListAtEnd, Connect, Leave, vars
  <2>2. QED
    BY <1>1, <2>1
<1>11. QED
  BY <1>5, <1>6, <1>7, <1>8, <1>9, <1>10 DEF Next, SessionWork, GoesOn, Closing

LEMMA InitLeaving == Init => LeavingIInv
<1> SUFFICES ASSUME Init PROVE LeavingIInv
  OBVIOUS
<1>1. \A t \in Threads : pc[t].at \in {"outside", "none"}
  BY DEF Init, Place, At
<1>2. AcceptedOnce /\ ClosedIsLeaving
  BY DEF Init, AcceptedOnce, ClosedIsLeaving
<1>3. NothingBeforeStart
  BY <1>1 DEF Init, NothingBeforeStart
<1>4. HandlersInRun
  BY <1>1, FS_EmptySet DEF Init, HandlersInRun, InHandler
<1>5. PushesUnseen
  BY <1>1 DEF PushesUnseen, Pushing
<1>6. QED
  BY <1>2, <1>3, <1>4, <1>5 DEF LeavingIInv

(* Every reachable state of the server satisfies the second invariant. *)
THEOREM LeavingInvariant == Spec => []LeavingIInv
<1>1. IInv /\ LeavingIInv /\ [Next]_vars => LeavingIInv'
  <2> SUFFICES ASSUME IInv, LeavingIInv, [Next]_vars PROVE LeavingIInv'
    OBVIOUS
  <2>1. /\ TypeOK /\ IncomingKnown /\ PushesStarted /\ AcceptedOnce
        /\ NothingBeforeStart /\ HandlersInRun /\ PushesUnseen /\ ClosedIsLeaving
    BY DEF IInv, LeavingIInv
  <2>2. AcceptedOnce' /\ NothingBeforeStart' /\ HandlersInRun'
    BY <2>1, AcceptedStep, BeforeStartStep, InRunStep
  <2>3. PushesUnseen' /\ ClosedIsLeaving'
    BY <2>1, <2>2, UnseenStep, LeavingStep
  <2>4. QED
    BY <2>2, <2>3 DEF LeavingIInv
<1>2. QED
  BY InitLeaving, <1>1, ServerInvariant, PTL DEF Spec

(* While one thread runs the server its list keeps no closed session: whoever
   closed it, and however often, its removal is on the way
   (server.cpp:65-67 and 84-101, server_session.cpp:34-42). *)
THEOREM ClosedSessionsLeave == Spec => []ClosedIsLeaving
<1>1. LeavingIInv => ClosedIsLeaving
  BY DEF LeavingIInv
<1>2. QED
  BY <1>1, LeavingInvariant, PTL

=============================================================================
