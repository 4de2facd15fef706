---------------------------- MODULE ClientProofs ----------------------------
(* Proofs about Client, for any requests and any bounds. *)
EXTENDS Client, SequenceTheorems, TLAPS

USE DEF ioVars, userVars, sendVars, netVars

(* A sequence over a set is one over any larger set. *)
LEMMA SeqMono ==
  ASSUME NEW S, NEW T, S \subseteq T, NEW s \in Seq(S)
  PROVE  s \in Seq(T)
<1>1. \A i \in 1 .. Len(s) : s[i] \in T
  OBVIOUS
<1>2. s \in [1 .. Len(s) -> T] /\ Len(s) \in Nat
  BY <1>1
<1>3. QED
  BY <1>2

(* The task at the front of the strand carries what its kind says. *)
LEMMA HeadTask ==
  ASSUME TypeOK, KnownOnly, NEW op, RunTask(op)
  PROVE  /\ strand' \in Seq(KnownTasks) /\ strand' \in Seq(Tasks)
         /\ op = "call" => Head(strand).arg \in Calls \cap Known
         /\ op = "notify" => Head(strand).arg \in Notifies \cap Known
         /\ op = "erase" => Head(strand).arg \in 0 .. MaxIdx
<1>1. /\ strand # <<>> /\ strand \in Seq(KnownTasks) /\ strand \in Seq(Tasks)
      /\ strand' = Tail(strand) /\ Head(strand).op = op
  BY DEF RunTask, TypeOK, KnownOnly
<1>2. Head(strand) \in KnownTasks
  BY <1>1
<1>3. Tail(strand) \in Seq(KnownTasks) /\ Tail(strand) \in Seq(Tasks)
  BY <1>1
<1>4. QED
  BY <1>1, <1>2, <1>3
     DEF KnownTasks, CallTask, NotifyTask, FlushTask, EraseTask

(* Moved-from buffers are frames. *)
LEMMA MovedFromType ==
  ASSUME NEW S, NEW s \in Seq(S)
  PROVE  MovedFrom(s) \in Seq({Empty})
BY DEF MovedFrom

(* Writing frames of a set keeps the queue over that set. *)
LEMMA WriteAllType ==
  ASSUME NEW S, write_queue \in Seq(S), NEW s \in Seq(S), WriteAll(s),
         write_op \in {"none", "pending", "ok", "broken_pipe", "error"},
         WriteHasFrame
  PROVE  /\ write_queue' \in Seq(S)
         /\ write_op' \in {"none", "pending", "ok", "broken_pipe", "error"}
         /\ wire' = wire
         /\ WriteHasFrame'
<1>1. /\ write_queue' = write_queue \o s /\ wire' = wire
      /\ write_op' = IF write_queue = <<>> /\ s # <<>> THEN "pending"
                     ELSE write_op
  BY DEF WriteAll
<1>2. write_queue \o s \in Seq(S)
  OBVIOUS
<1>3. Len(write_queue \o s) = Len(write_queue) + Len(s)
  OBVIOUS
<1>4. write_queue' = <<>> => write_queue = <<>> /\ s = <<>>
  BY <1>1, <1>3
<1>5. QED
  BY <1>1, <1>2, <1>4 DEF WriteHasFrame

(* Every operation of the client keeps its variables within their types, uses
   up the attempts only by ending the io thread, and has a frame for the write
   in flight. *)
LEMMA TypeStep ==
  IInv /\ [Next]_vars => TypeOK' /\ AttemptsLeft' /\ WriteHasFrame'
<1> SUFFICES ASSUME IInv, [Next]_vars
             PROVE  TypeOK' /\ AttemptsLeft' /\ WriteHasFrame'
  OBVIOUS
<1>0. TypeOK /\ AttemptsLeft /\ WriteHasFrame /\ KnownOnly
  BY DEF IInv
<1> USE BoundAssumption
<1> DEFINE Good == TypeOK' /\ AttemptsLeft' /\ WriteHasFrame'
<1>1. ASSUME NEW c \in Calls, NextCallIdx(c) PROVE Good
  <2>1. call_idx + 1 \in 0 .. MaxIdx
    BY <1>0, <1>1 DEF TypeOK, NextCallIdx
  <2>2. idx' \in [Calls -> 0 .. MaxIdx] /\ stage' \in [Requests -> Stages]
    BY <1>0, <1>1, <2>1 DEF TypeOK, NextCallIdx, Stages
  <2>3. QED
    BY <1>0, <1>1, <2>1, <2>2
       DEF TypeOK, NextCallIdx, AttemptsLeft, WriteHasFrame
<1>2. ASSUME NEW r \in Requests, NEW t \in Tasks, PostTask(r, t) PROVE Good
  <2>1. stage' \in [Requests -> Stages]
    BY <1>0, <1>2 DEF TypeOK, PostTask, Stages
  <2>2. strand' \in Seq(Tasks) /\ posted' \in Seq(Requests)
    BY <1>0, <1>2 DEF TypeOK, PostTask
  <2>3. QED
    BY <1>0, <1>2, <2>1, <2>2
       DEF TypeOK, PostTask, AttemptsLeft, WriteHasFrame
<1>3. ASSUME NEW c \in Calls, NEW to \in Stages, UserStep(c, to) PROVE Good
  <2>1. stage' \in [Requests -> Stages]
    BY <1>0, <1>3 DEF TypeOK, UserStep
  <2>2. QED
    BY <1>0, <1>3, <2>1 DEF TypeOK, UserStep, AttemptsLeft, WriteHasFrame
<1>4. ASSUME NEW b \in BOOLEAN, SetTimeout(b) PROVE Good
  BY <1>0, <1>4 DEF TypeOK, SetTimeout, AttemptsLeft, WriteHasFrame
<1>5. CASE Destroy
  <2>1. future' \in [Calls -> Futures]
    BY <1>0, <1>5 DEF TypeOK, Destroy, Futures
  <2>2. strand' \in Seq(Tasks)
    BY <1>5 DEF Destroy
  <2>3. QED
    BY <1>0, <1>5, <2>1, <2>2 DEF TypeOK, Destroy, AttemptsLeft, WriteHasFrame
<1>6. CASE RunCall
  <2> DEFINE c == Head(strand).arg
  <2>1. strand' \in Seq(Tasks) /\ c \in Calls
    BY <1>0, <1>6, HeadTask DEF RunCall
  <2>2. ongoing_calls' \in [0 .. MaxIdx -> Calls \cup {NoCall}]
    BY <1>0, <1>6, <2>1 DEF TypeOK, RunCall, Register
  <2>3. Append(pending_calls, c) \in Seq(Frames) /\ write_queue \in Seq(Frames)
    BY <1>0, <2>1 DEF TypeOK, Frames, Requests
  <2>4. MovedFrom(pending_calls) \in Seq(Frames)
    BY <1>0, MovedFromType, SeqMono DEF TypeOK, Frames
  <2>5. pending_calls' \in Seq(Frames)
    BY <1>6, <2>3, <2>4 DEF RunCall
  <2>6. /\ write_queue' \in Seq(Frames) /\ wire' = wire
        /\ write_op' \in {"none", "pending", "ok", "broken_pipe", "error"}
        /\ WriteHasFrame'
    <3>1. CASE WriteAll(Append(pending_calls, c))
      BY <1>0, <2>3, <3>1, WriteAllType DEF TypeOK
    <3>2. CASE UNCHANGED sendVars
      BY <1>0, <2>3, <3>2 DEF TypeOK, WriteHasFrame
    <3>3. QED
      BY <1>6, <3>1, <3>2 DEF RunCall
  <2>7. QED
    BY <1>0, <1>6, <2>1, <2>2, <2>5, <2>6 DEF TypeOK, RunCall, AttemptsLeft
<1>7. CASE RunNotify
  <2> DEFINE n == Head(strand).arg
  <2>1. strand' \in Seq(Tasks) /\ n \in Notifies
    BY <1>0, <1>7, HeadTask DEF RunNotify
  <2>2. <<n>> \in Seq(Frames) /\ write_queue \in Seq(Frames)
    BY <1>0, <2>1 DEF TypeOK, Frames, Requests
  <2>3. /\ write_queue' \in Seq(Frames) /\ wire' = wire
        /\ write_op' \in {"none", "pending", "ok", "broken_pipe", "error"}
        /\ WriteHasFrame'
    BY <1>0, <1>7, <2>2, WriteAllType DEF TypeOK, RunNotify
  <2>4. QED
    BY <1>0, <1>7, <2>1, <2>3 DEF TypeOK, RunNotify, AttemptsLeft
<1>8. CASE RunFlush
  <2>1. strand' \in Seq(Tasks)
    BY <1>0, <1>8, HeadTask DEF RunFlush
  <2>2. pending_calls \in Seq(Frames) /\ write_queue \in Seq(Frames)
    BY <1>0 DEF TypeOK
  <2>3. MovedFrom(pending_calls) \in Seq(Frames)
    BY <1>0, MovedFromType, SeqMono DEF TypeOK, Frames
  <2>4. /\ write_queue' \in Seq(Frames) /\ wire' = wire
        /\ write_op' \in {"none", "pending", "ok", "broken_pipe", "error"}
        /\ WriteHasFrame'
    BY <1>0, <1>8, <2>2, WriteAllType DEF TypeOK, RunFlush
  <2>5. QED
    BY <1>0, <1>8, <2>1, <2>3, <2>4 DEF TypeOK, RunFlush, AttemptsLeft
<1>9. CASE RunErase
  <2>1. strand' \in Seq(Tasks) /\ Head(strand).arg \in 0 .. MaxIdx
    BY <1>0, <1>9, HeadTask DEF RunErase
  <2>2. ongoing_calls' \in [0 .. MaxIdx -> Calls \cup {NoCall}]
    BY <1>0, <1>9, <2>1 DEF TypeOK, RunErase
  <2>3. QED
    BY <1>0, <1>9, <2>1, <2>2
       DEF TypeOK, RunErase, AttemptsLeft, WriteHasFrame
<1>10. CASE OnConnected
  <2>1. FlushTask \in Tasks
    BY DEF Tasks
  <2>2. strand' \in Seq(Tasks)
    BY <1>0, <1>10, <2>1 DEF TypeOK, OnConnected
  <2>3. QED
    BY <1>0, <1>10, <2>2 DEF TypeOK, OnConnected, AttemptsLeft, WriteHasFrame
<1>11. CASE OnRetry \/ OnConnectError
  <2>1. failures' \in 0 .. MaxAttempts
    BY <1>0, <1>11
       DEF TypeOK, AttemptsLeft, OnRetry, OnConnectError, OnConnectFailed
  <2>2. AttemptsLeft'
    BY <1>11, <2>1
       DEF AttemptsLeft, OnRetry, OnConnectError, OnConnectFailed
  <2>3. QED
    BY <1>0, <1>11, <2>1, <2>2
       DEF TypeOK, OnRetry, OnConnectError, OnConnectFailed, WriteHasFrame
<1>12. CASE OnRead
  <2>1. PICK k \in 1 .. Len(inbox) :
          /\ inbox' = SubSeq(inbox, k + 1, Len(inbox))
          /\ future' = [c \in Calls |->
                IF Hits(k, c) = {} \/ future[c] # NoFuture THEN future[c]
                ELSE LET i == CHOOSE j \in Hits(k, c) : TRUE
                     IN  [of |-> inbox[i].of, res |-> inbox[i].res]]
          /\ io' = IF SetTwice(k) THEN "terminated" ELSE io
          /\ strand' = strand \o [i \in 1 .. k |-> EraseTask(inbox[i].id)]
    BY <1>12 DEF OnRead
  <2>2. inbox \in Seq(Responses) /\ k \in Nat /\ k <= Len(inbox)
    BY <1>0 DEF TypeOK
  <2>3. \A i \in 1 .. k : inbox[i] \in Responses
    BY <2>2
  <2>4. inbox' \in Seq(Responses)
    BY <2>1, <2>2
  <2>5. future' \in [Calls -> Futures]
    <3>1. ASSUME NEW c \in Calls, Hits(k, c) # {}
          PROVE  LET i == CHOOSE j \in Hits(k, c) : TRUE
                 IN  [of |-> inbox[i].of, res |-> inbox[i].res] \in Futures
      <4> DEFINE i == CHOOSE j \in Hits(k, c) : TRUE
      <4>1. i \in 1 .. k
        BY <3>1 DEF Hits
      <4>2. inbox[i].of \in Calls /\ inbox[i].res \in {"value", "error"}
        BY <2>3, <4>1 DEF Responses
      <4>3. QED
        BY <4>2 DEF Futures
    <3>2. QED
      BY <1>0, <2>1, <3>1 DEF TypeOK
  <2>6. strand' \in Seq(Tasks)
    <3>1. \A i \in 1 .. k : EraseTask(inbox[i].id) \in Tasks
      BY <2>3 DEF Responses, Tasks
    <3>2. [i \in 1 .. k |-> EraseTask(inbox[i].id)] \in Seq(Tasks)
      BY <2>2, <3>1
    <3>3. QED
      BY <1>0, <2>1, <3>2 DEF TypeOK
  <2>7. QED
    BY SMTT(30), <1>0, <1>12, <2>1, <2>4, <2>5, <2>6
       DEF TypeOK, OnRead, AttemptsLeft, WriteHasFrame
<1>13. CASE OnReadDisconnected \/ OnReadError
  BY ZenonT(30), <1>0, <1>13
     DEF TypeOK, OnReadDisconnected, OnReadError, ReadEnds, AttemptsLeft,
         WriteHasFrame
<1>14. CASE OnWritten \/ OnBrokenPipe \/ OnWriteError
  <2>1. PICK res \in {"ok", "broken_pipe", "error"} : WriteDone(res)
    BY <1>14 DEF OnWritten, OnBrokenPipe, OnWriteError
  <2>2. write_queue # <<>> /\ write_queue \in Seq(Frames)
    BY <1>0, <2>1 DEF TypeOK, WriteDone, WriteHasFrame
  <2>3. Tail(write_queue) \in Seq(Frames)
        /\ Len(Tail(write_queue)) = Len(write_queue) - 1
    BY <2>2
  <2>4. PopFront \/ (write_op' = "none" /\ UNCHANGED write_queue)
    BY <1>14 DEF OnWritten, OnBrokenPipe, OnWriteError, PopFront
  <2>5. write_queue' \in Seq(Frames) /\ write_op' \in {"pending", "none"}
        /\ WriteHasFrame'
    BY <2>2, <2>3, <2>4 DEF PopFront, WriteHasFrame
  <2>6. QED
    BY <1>0, <2>1, <2>5 DEF TypeOK, WriteDone, AttemptsLeft
<1>15. CASE RunReturns
  BY <1>0, <1>15 DEF TypeOK, RunReturns, AttemptsLeft, WriteHasFrame
<1>16. CASE Transmit \/ FailPipe \/ FailOther
  <2>1. PICK res \in {"ok", "broken_pipe", "error"} : Settle(res)
    BY <1>16 DEF Transmit, FailPipe, FailOther
  <2>2. write_queue # <<>> /\ write_queue \in Seq(Frames)
    BY <1>0, <2>1 DEF TypeOK, Settle, WriteHasFrame
  <2>3. Head(write_queue) \in Frames /\ wire \in Seq(Requests)
    BY <1>0, <2>2 DEF TypeOK
  <2>4. wire' \in Seq(Requests)
    BY <1>16, <2>3 DEF Transmit, FailPipe, FailOther, Frames
  <2>5. QED
    BY <1>0, <2>1, <2>2, <2>4 DEF TypeOK, Settle, AttemptsLeft, WriteHasFrame
<1>17. CASE Accepted \/ Refused \/ Break
  BY <1>0, <1>17
     DEF TypeOK, Accepted, Refused, ConnectEnds, Break, Drop, AttemptsLeft,
         WriteHasFrame
<1>18. ASSUME NEW c \in Calls, NEW res \in {"value", "error"}, Answer(c, res)
       PROVE  Good
  <2>1. answered' \in [Calls -> Outcomes]
    BY <1>0, <1>18 DEF TypeOK, Answer, Outcomes
  <2>2. [id |-> idx[c], of |-> c, res |-> res] \in Responses
    BY <1>0 DEF TypeOK, Responses
  <2>3. inbox' \in Seq(Responses)
    BY <1>0, <1>18, <2>2 DEF TypeOK, Answer
  <2>4. QED
    BY <1>0, <1>18, <2>1, <2>3 DEF TypeOK, Answer, AttemptsLeft, WriteHasFrame
<1>19. CASE UNCHANGED vars
  BY <1>0, <1>19 DEF TypeOK, vars, AttemptsLeft, WriteHasFrame
<1>20. ASSUME NEW c \in Calls, User(c) PROVE Good
  <2>1. CallTask(c) \in Tasks /\ c \in Requests
    BY DEF Tasks, Requests
  <2>2. {"timed", "waiting", "returned", "timeout", "bad_access"} \subseteq Stages
    BY DEF Stages
  <2>3. QED
    BY <1>1, <1>2, <1>3, <1>20, <2>1, <2>2
       DEF User, PostCall, Wait, Return, ThrowTimeout
<1>21. ASSUME NEW n \in Notifies, Notify(n) PROVE Good
  <2>1. NotifyTask(n) \in Tasks /\ n \in Requests
    BY DEF Tasks, Requests
  <2>2. QED
    BY <1>2, <1>21, <2>1 DEF Notify
<1>22. QED
  BY <1>4, <1>5, <1>6, <1>7, <1>8, <1>9, <1>10, <1>11, <1>12, <1>13, <1>14,
     <1>15, <1>16, <1>17, <1>18, <1>19, <1>20, <1>21
     DEF Next, IoThread, Kernel

(* A request that has left "idle" never returns to it, and only a user's
   thread moves it. *)
LEMMA KnownGrows == TypeOK /\ [Next]_vars => Known \subseteq Known'
<1> SUFFICES ASSUME TypeOK, [Next]_vars PROVE Known \subseteq Known'
  OBVIOUS
<1>1. stage \in [Requests -> Stages]
  BY DEF TypeOK
<1>2. ASSUME NEW r \in Requests, NEW to, to # "idle",
             stage' = [stage EXCEPT ![r] = to]
      PROVE  Known \subseteq Known'
  BY <1>1, <1>2 DEF Known
<1>3. CASE UNCHANGED stage
  BY <1>3 DEF Known
<1>4. ASSUME NEW c \in Calls, User(c) PROVE Known \subseteq Known'
  <2>1. c \in Requests
    BY DEF Requests
  <2>2. PICK to : to # "idle" /\ stage' = [stage EXCEPT ![c] = to]
    BY <1>4
       DEF User, NextCallIdx, PostCall, PostTask, Wait, Return, ThrowTimeout,
           UserStep
  <2>3. QED
    BY <1>2, <2>1, <2>2
<1>5. ASSUME NEW n \in Notifies, Notify(n) PROVE Known \subseteq Known'
  <2>1. n \in Requests
    BY DEF Requests
  <2>2. QED
    BY <1>2, <1>5, <2>1 DEF Notify, PostTask
<1>6. QED
  BY <1>3, <1>4, <1>5
     DEF Next, vars, SetTimeout, Destroy, IoThread, RunCall, RunNotify,
         RunFlush, RunErase, OnConnected, OnRetry, OnConnectError,
         OnConnectFailed, OnRead, OnReadDisconnected, OnReadError, ReadEnds,
         OnWritten, OnBrokenPipe, OnWriteError, WriteDone, RunReturns, Kernel,
         Transmit, FailPipe, FailOther, Settle, Accepted, Refused, ConnectEnds,
         Break, Drop, Answer

(* Every place a request can be in holds only requests that were made. *)
LEMMA KnownStep == IInv /\ [Next]_vars => KnownOnly'
<1> SUFFICES ASSUME IInv, [Next]_vars PROVE KnownOnly'
  OBVIOUS
<1>0. TypeOK /\ WriteHasFrame /\ KnownOnly
  BY DEF IInv
<1>k. Known \subseteq Known' /\ KnownTasks \subseteq KnownTasks'
  <2>1. Known \subseteq Known'
    BY <1>0, KnownGrows
  <2>2. QED
    BY <2>1 DEF KnownTasks
<1>m. /\ strand \in Seq(KnownTasks')
      /\ pending_calls \in Seq(Known' \cup {Empty})
      /\ write_queue \in Seq(Known' \cup {Empty})
      /\ wire \in Seq(Known')
  BY <1>0, <1>k, SeqMono DEF KnownOnly
<1>1. ASSUME NEW r \in Requests, NEW t, PostTask(r, t),
             \/ r \in Calls /\ t = CallTask(r)
             \/ r \in Notifies /\ t = NotifyTask(r)
      PROVE  KnownOnly'
  <2>1. r \in Known'
    BY <1>0, <1>1 DEF TypeOK, PostTask, Known
  <2>2. t \in KnownTasks'
    BY <1>1, <2>1 DEF KnownTasks
  <2>3. strand' \in Seq(KnownTasks')
    BY <1>1, <1>m, <2>2 DEF PostTask
  <2>4. QED
    BY <1>1, <1>m, <2>3 DEF PostTask, KnownOnly
<1>2. CASE Destroy
  BY <1>2, <1>m DEF Destroy, KnownOnly
<1>3. ASSUME NEW op, RunTask(op) PROVE strand' \in Seq(KnownTasks')
  BY <1>0, <1>3, <1>k, HeadTask, SeqMono
<1>4. ASSUME NEW s \in Seq(Known' \cup {Empty}), WriteAll(s)
      PROVE  write_queue' \in Seq(Known' \cup {Empty}) /\ wire' \in Seq(Known')
  BY <1>4, <1>m DEF WriteAll
<1>5. MovedFrom(pending_calls) \in Seq(Known' \cup {Empty})
  BY <1>m, MovedFromType, SeqMono
<1>6. CASE RunCall
  <2> DEFINE c == Head(strand).arg
  <2>1. c \in Known'
    BY <1>0, <1>6, <1>k, HeadTask DEF RunCall
  <2>2. Append(pending_calls, c) \in Seq(Known' \cup {Empty})
    BY <1>m, <2>1
  <2>3. strand' \in Seq(KnownTasks')
    BY <1>3, <1>6 DEF RunCall
  <2>4. pending_calls' \in Seq(Known' \cup {Empty})
    BY <1>5, <1>6, <2>2 DEF RunCall
  <2>5. write_queue' \in Seq(Known' \cup {Empty}) /\ wire' \in Seq(Known')
    <3>1. CASE WriteAll(Append(pending_calls, c))
      BY <1>4, <2>2, <3>1
    <3>2. CASE UNCHANGED sendVars
      BY <1>m, <3>2
    <3>3. QED
      BY <1>6, <3>1, <3>2 DEF RunCall
  <2>6. QED
    BY <2>3, <2>4, <2>5 DEF KnownOnly
<1>7. CASE RunNotify
  <2> DEFINE n == Head(strand).arg
  <2>1. strand' \in Seq(KnownTasks')
    BY <1>3, <1>7 DEF RunNotify
  <2>3. n \in Known'
    BY <1>0, <1>7, <1>k, HeadTask DEF RunNotify
  <2>4. <<n>> \in Seq(Known' \cup {Empty})
    BY <2>3
  <2>5. QED
    BY <1>4, <1>7, <1>m, <2>1, <2>4 DEF RunNotify, KnownOnly
<1>8. CASE RunFlush
  <2>1. strand' \in Seq(KnownTasks')
    BY <1>3, <1>8 DEF RunFlush
  <2>2. QED
    BY <1>4, <1>5, <1>8, <1>m, <2>1 DEF RunFlush, KnownOnly
<1>9. CASE RunErase
  <2>1. strand' \in Seq(KnownTasks')
    BY <1>3, <1>9 DEF RunErase
  <2>2. QED
    BY <1>9, <1>m, <2>1 DEF RunErase, KnownOnly
<1>10. CASE OnConnected
  <2>1. FlushTask \in KnownTasks'
    BY DEF KnownTasks
  <2>2. strand' \in Seq(KnownTasks')
    BY <1>10, <1>m, <2>1 DEF OnConnected
  <2>3. QED
    BY <1>10, <1>m, <2>2 DEF OnConnected, KnownOnly
<1>11. CASE OnRead
  <2>1. PICK k \in 1 .. Len(inbox) :
          strand' = strand \o [i \in 1 .. k |-> EraseTask(inbox[i].id)]
    BY <1>11 DEF OnRead
  <2>2. inbox \in Seq(Responses) /\ k \in Nat /\ k <= Len(inbox)
    BY <1>0 DEF TypeOK
  <2>3. \A i \in 1 .. k : EraseTask(inbox[i].id) \in KnownTasks'
    <3>0. \A i \in 1 .. k : inbox[i] \in Responses
      BY <2>2
    <3>1. \A i \in 1 .. k : inbox[i].id \in 0 .. MaxIdx
      BY <3>0 DEF Responses
    <3>2. \A j \in 0 .. MaxIdx : EraseTask(j) \in KnownTasks'
      BY DEF KnownTasks
    <3>3. QED
      BY <3>1, <3>2
  <2>4. [i \in 1 .. k |-> EraseTask(inbox[i].id)] \in Seq(KnownTasks')
    BY <2>2, <2>3
  <2>5. strand' \in Seq(KnownTasks')
    BY <1>m, <2>1, <2>4
  <2>6. QED
    BY <1>11, <1>m, <2>5 DEF OnRead, KnownOnly
<1>12. CASE OnWritten \/ OnBrokenPipe \/ OnWriteError
  <2>1. PICK res \in {"ok", "broken_pipe", "error"} : WriteDone(res)
    BY <1>12 DEF OnWritten, OnBrokenPipe, OnWriteError
  <2>2. write_queue # <<>>
    BY <1>0, <2>1 DEF WriteDone, WriteHasFrame
  <2>3. Tail(write_queue) \in Seq(Known' \cup {Empty})
    BY <1>m, <2>2
  <2>4. write_queue' \in Seq(Known' \cup {Empty})
    BY <1>12, <1>m, <2>3 DEF OnWritten, OnBrokenPipe, OnWriteError, PopFront
  <2>5. QED
    BY <1>m, <2>1, <2>4 DEF WriteDone, KnownOnly
<1>13. CASE Transmit
  <2>1. write_queue # <<>> /\ UNCHANGED <<strand, pending_calls, write_queue>>
    BY <1>0, <1>13 DEF Transmit, Settle, WriteHasFrame
  <2>2. Head(write_queue) \in Known' \cup {Empty}
    BY <1>m, <2>1
  <2>3. wire' \in Seq(Known')
    <3>1. CASE UNCHANGED wire
      BY <1>m, <3>1
    <3>2. CASE /\ Head(write_queue) # Empty
               /\ wire' = Append(wire, Head(write_queue))
      <4>1. Head(write_queue) \in Known'
        BY <2>2, <3>2
      <4>2. QED
        BY <1>m, <3>2, <4>1
    <3>3. QED
      BY <1>13, <3>1, <3>2 DEF Transmit
  <2>4. QED
    BY <1>m, <2>1, <2>3 DEF KnownOnly
<1>14. CASE UNCHANGED <<strand, pending_calls, write_queue, wire>>
  BY <1>14, <1>m DEF KnownOnly
<1>15. ASSUME NEW c \in Calls, PostCall(c) PROVE KnownOnly'
  BY <1>1, <1>15 DEF PostCall, Requests
<1>16. ASSUME NEW n \in Notifies, Notify(n) PROVE KnownOnly'
  BY <1>1, <1>16 DEF Notify, Requests
<1>17. QED
  BY <1>2, <1>6, <1>7, <1>8, <1>9, <1>10, <1>11, <1>12, <1>13, <1>14, <1>15,
     <1>16
     DEF Next, vars, User, NextCallIdx, Wait, Return, ThrowTimeout, UserStep,
         SetTimeout, IoThread, OnRetry, OnConnectError, OnConnectFailed,
         OnReadDisconnected, OnReadError, ReadEnds, RunReturns, Kernel,
         FailPipe, FailOther, Settle, Accepted, Refused, ConnectEnds, Break, Drop,
         Answer

(* Only next_call_idx() gives out ids, each to one call that had none. *)
LEMMA IdStep ==
  IInv /\ [Next]_vars
    => IdsDistinct' /\ (\A c \in Calls \cap Known : idx'[c] = idx[c])
<1> SUFFICES ASSUME IInv, [Next]_vars
             PROVE  IdsDistinct' /\ (\A c \in Calls \cap Known : idx'[c] = idx[c])
  OBVIOUS
<1>0. TypeOK /\ IdsDistinct
  BY DEF IInv
<1>1. ASSUME NEW c \in Calls, NextCallIdx(c)
      PROVE  IdsDistinct' /\ (\A d \in Calls \cap Known : idx'[d] = idx[d])
  <2>1. /\ c \in Requests /\ c \notin Known /\ call_idx \in Nat
        /\ call_idx' = call_idx + 1
    BY <1>0, <1>1 DEF NextCallIdx, Known, Requests, TypeOK
  <2>2. Known' = Known \cup {c}
    BY <1>0, <1>1, <2>1 DEF NextCallIdx, Known, TypeOK
  <2>3. idx'[c] = call_idx + 1 /\ \A d \in Calls : d # c => idx'[d] = idx[d]
    BY <1>0, <1>1 DEF NextCallIdx, TypeOK
  <2>4. \A d \in Calls \cap Known : idx'[d] = idx[d] /\ idx[d] \in 1 .. call_idx
    BY <1>0, <2>1, <2>3 DEF IdsDistinct
  <2>5. \A d \in Calls \cap Known' : idx'[d] \in 1 .. call_idx'
    BY <2>1, <2>2, <2>3, <2>4
  <2>6. \A d, e \in Calls \cap Known' : idx'[d] = idx'[e] => d = e
    <3> SUFFICES ASSUME NEW d \in Calls \cap Known', NEW e \in Calls \cap Known',
                        idx'[d] = idx'[e]
                 PROVE  d = e
      OBVIOUS
    <3>1. CASE d \in Known /\ e \in Known
      BY <1>0, <2>4, <3>1 DEF IdsDistinct
    <3>2. CASE d = c /\ e # c
      BY <2>1, <2>2, <2>3, <2>4, <3>2
    <3>3. CASE d # c /\ e = c
      BY <2>1, <2>2, <2>3, <2>4, <3>3
    <3>4. QED
      BY <2>2, <3>1, <3>2, <3>3
  <2>7. QED
    BY <2>4, <2>5, <2>6 DEF IdsDistinct
<1>2. CASE UNCHANGED <<idx, call_idx>> /\ Calls \cap Known' = Calls \cap Known
  BY <1>0, <1>2 DEF IdsDistinct
<1>3. ASSUME NEW c \in Calls, NEW to, to # "idle", stage[c] # "idle",
             stage' = [stage EXCEPT ![c] = to]
      PROVE  Known' = Known
  BY <1>0, <1>3 DEF Known, TypeOK, Requests
<1>4. ASSUME NEW c \in Calls, User(c), ~NextCallIdx(c)
      PROVE  UNCHANGED <<idx, call_idx>> /\ Known' = Known
  <2>1. UNCHANGED <<idx, call_idx>>
    BY <1>4
       DEF User, PostCall, PostTask, Wait, Return, ThrowTimeout, UserStep
  <2>2. stage[c] # "idle"
    BY <1>4 DEF User, PostCall, Wait, Return, ThrowTimeout
  <2>3. PICK to : to # "idle" /\ stage' = [stage EXCEPT ![c] = to]
    BY <1>4
       DEF User, PostCall, PostTask, Wait, Return, ThrowTimeout, UserStep
  <2>4. QED
    BY <1>3, <2>1, <2>2, <2>3
<1>5. ASSUME NEW n \in Notifies, Notify(n)
      PROVE  UNCHANGED <<idx, call_idx>> /\ Calls \cap Known' = Calls \cap Known
  <2>1. n \notin Calls
    BY RequestAssumption
  <2>2. \A c \in Calls : stage'[c] = stage[c]
    BY <1>0, <1>5, <2>1 DEF Notify, PostTask, TypeOK, Requests
  <2>3. QED
    BY <1>5, <2>2 DEF Notify, PostTask, Known, Requests
<1>6. CASE UNCHANGED <<idx, call_idx, stage>>
  BY <1>2, <1>6 DEF Known
<1>7. QED
  BY <1>1, <1>2, <1>4, <1>5, <1>6
     DEF Next, vars, SetTimeout, Destroy, IoThread, RunCall, RunNotify,
         RunFlush, RunErase, OnConnected, OnRetry, OnConnectError,
         OnConnectFailed, OnRead, OnReadDisconnected, OnReadError, ReadEnds,
         OnWritten, OnBrokenPipe, OnWriteError, WriteDone, RunReturns, Kernel,
         Transmit, FailPipe, FailOther, Settle, Accepted, Refused, ConnectEnds,
         Break, Drop, Answer

(* A promise is stored under its call's id and only taken out whole. *)
LEMMA EntryStep == IInv /\ [Next]_vars => EntriesMatch'
<1> SUFFICES ASSUME IInv, [Next]_vars PROVE EntriesMatch'
  OBVIOUS
<1>0. TypeOK /\ KnownOnly /\ EntriesMatch /\ IdsDistinct
  BY DEF IInv
<1>1. /\ Known \subseteq Known'
      /\ \A c \in Calls \cap Known : idx'[c] = idx[c]
  BY <1>0, KnownGrows, IdStep
<1>2. ASSUME NEW i \in 0 .. MaxIdx, ongoing_calls[i] # NoCall
      PROVE  /\ ongoing_calls[i] \in Known'
             /\ idx'[ongoing_calls[i]] = i
  <2>1. ongoing_calls[i] \in Calls \cap Known /\ idx[ongoing_calls[i]] = i
    BY <1>0, <1>2 DEF EntriesMatch, TypeOK
  <2>2. QED
    BY <1>1, <2>1
<1>3. CASE UNCHANGED ongoing_calls
  BY <1>2, <1>3 DEF EntriesMatch
<1>4. CASE RunCall
  <2> DEFINE c == Head(strand).arg
  <2>1. c \in Calls \cap Known
    BY <1>0, <1>4, HeadTask DEF RunCall
  <2>2. ongoing_calls' = [ongoing_calls EXCEPT ![idx[c]] = c]
    BY <1>4 DEF RunCall, Register
  <2>3. \A i \in 0 .. MaxIdx :
          ongoing_calls'[i] = IF i = idx[c] THEN c ELSE ongoing_calls[i]
    BY <1>0, <2>2 DEF TypeOK
  <2>4. c \in Known' /\ idx'[c] = idx[c]
    BY <1>1, <2>1
  <2>5. QED
    BY <1>2, <2>3, <2>4 DEF EntriesMatch
<1>5. CASE RunErase
  <2>1. \A i \in 0 .. MaxIdx :
          ongoing_calls'[i] \in {NoCall, ongoing_calls[i]}
    BY <1>0, <1>5 DEF TypeOK, RunErase
  <2>2. QED
    BY <1>2, <2>1 DEF EntriesMatch
<1>6. QED
  BY <1>3, <1>4, <1>5
     DEF Next, vars, User, NextCallIdx, PostCall, PostTask, Wait, Return,
         ThrowTimeout, UserStep, Notify, SetTimeout, Destroy, IoThread,
         RunNotify, RunFlush, OnConnected, OnRetry, OnConnectError,
         OnConnectFailed, OnRead, OnReadDisconnected, OnReadError, ReadEnds,
         OnWritten, OnBrokenPipe, OnWriteError, WriteDone, RunReturns, Kernel,
         Transmit, FailPipe, FailOther, Settle, Accepted, Refused, ConnectEnds,
         Break, Drop, Answer

(* A response keeps the id and the outcome of the call it answers. *)
LEMMA InboxStep == IInv /\ [Next]_vars => InboxMatches'
<1> SUFFICES ASSUME IInv, [Next]_vars PROVE InboxMatches'
  OBVIOUS
<1>0. TypeOK /\ KnownOnly /\ InboxMatches /\ inbox \in Seq(Responses)
  BY DEF IInv, TypeOK
<1>1. /\ Known \subseteq Known'
      /\ \A c \in Calls \cap Known : idx'[c] = idx[c]
  BY <1>0, KnownGrows, IdStep
<1>2. ASSUME NEW i \in 1 .. Len(inbox)
      PROVE  /\ inbox[i].of \in Calls \cap Known
             /\ inbox[i].of \in Known'
             /\ inbox[i].id = idx'[inbox[i].of]
             /\ inbox[i].res = answered[inbox[i].of]
             /\ answered[inbox[i].of] # "none"
  <2>1. inbox[i] \in Responses /\ i \in DOMAIN inbox
    BY <1>0
  <2>2. /\ inbox[i].of \in Calls \cap Known
        /\ inbox[i].id = idx[inbox[i].of]
        /\ inbox[i].res = answered[inbox[i].of]
        /\ inbox[i].res # "none"
    BY <1>0, <2>1 DEF InboxMatches, Responses
  <2>3. QED
    BY <1>1, <2>2
<1>3. CASE UNCHANGED <<inbox, answered>>
  BY <1>0, <1>2, <1>3 DEF InboxMatches
<1>4. ASSUME NEW c \in Calls, NEW res \in {"value", "error"}, Answer(c, res)
      PROVE  InboxMatches'
  <2>1. c \in Known /\ idx'[c] = idx[c]
    <3>1. PICK i \in DOMAIN wire : wire[i] = c
      BY <1>4 DEF Answer
    <3>2. c \in Known
      BY <1>0, <3>1 DEF KnownOnly
    <3>3. QED
      BY <1>4, <3>2 DEF Answer
  <2> DEFINE resp == [id |-> idx[c], of |-> c, res |-> res]
  <2>2. inbox' = Append(inbox, resp) /\ resp \in Responses
    BY <1>0, <1>4 DEF Answer, Responses, TypeOK
  <2>3. \A d \in Calls : answered'[d] = IF d = c THEN res ELSE answered[d]
    BY <1>0, <1>4 DEF Answer, TypeOK
  <2>4. answered[c] = "none"
    BY <1>4 DEF Answer
  <2>5. resp.of = c /\ resp.id = idx[c] /\ resp.res = res
    OBVIOUS
  <2> HIDE DEF resp
  <2>6. ASSUME NEW i \in 1 .. Len(inbox')
        PROVE  /\ inbox'[i].of \in Known'
               /\ inbox'[i].id = idx'[inbox'[i].of]
               /\ inbox'[i].res = answered'[inbox'[i].of]
    <3>1. CASE i \in 1 .. Len(inbox)
      <4>1. inbox'[i] = inbox[i]
        BY <1>0, <2>2, <3>1
      <4>2. inbox[i].of # c
        BY <1>2, <2>4, <3>1
      <4>3. QED
        BY <1>2, <2>3, <3>1, <4>1, <4>2
    <3>2. CASE i = Len(inbox) + 1
      <4>1. inbox'[i] = resp
        BY <1>0, <2>2, <3>2
      <4>2. QED
        BY <1>1, <2>1, <2>3, <2>5, <4>1
    <3>3. QED
      BY <1>0, <2>2, <3>1, <3>2
  <2>7. inbox' \in Seq(Responses)
    BY <1>0, <2>2
  <2>8. QED
    BY <2>6, <2>7 DEF InboxMatches
<1>5. CASE OnRead
  <2>1. PICK k \in 1 .. Len(inbox) : inbox' = SubSeq(inbox, k + 1, Len(inbox))
    BY <1>5 DEF OnRead
  <2>2. answered' = answered
    BY <1>5 DEF OnRead
  <2>3. inbox' \in Seq(Responses) /\ Len(inbox') = Len(inbox) - k
    BY <1>0, <2>1
  <2>4. \A i \in 1 .. Len(inbox') :
          i + k \in 1 .. Len(inbox) /\ inbox'[i] = inbox[i + k]
    BY <1>0, <2>1, <2>3
  <2>5. QED
    BY <1>2, <2>2, <2>3, <2>4 DEF InboxMatches
<1>6. QED
  BY <1>3, <1>4, <1>5
     DEF Next, vars, User, NextCallIdx, PostCall, PostTask, Wait, Return,
         ThrowTimeout, UserStep, Notify, SetTimeout, Destroy, IoThread,
         RunCall, RunNotify, RunFlush, RunErase, OnConnected, OnRetry,
         OnConnectError, OnConnectFailed, OnReadDisconnected, OnReadError,
         ReadEnds, OnWritten, OnBrokenPipe, OnWriteError, WriteDone,
         RunReturns, Kernel, Transmit, FailPipe, FailOther, Settle, Accepted,
         Refused, ConnectEnds, Break, Drop

(* do_read() resolves the call that a response answers: the entry under the
   response's id is that call, since ids are distinct. *)
LEMMA AnswerStep == IInv /\ [Next]_vars => RightAnswer'
<1> SUFFICES ASSUME IInv, [Next]_vars PROVE RightAnswer'
  OBVIOUS
<1>0. /\ TypeOK /\ KnownOnly /\ IdsDistinct /\ EntriesMatch /\ InboxMatches
      /\ RightAnswer
  BY DEF IInv
<1>1. CASE UNCHANGED <<future, answered>>
  BY <1>0, <1>1 DEF RightAnswer
<1>2. CASE Destroy
  <2>1. \A c \in Calls : future'[c] = future[c] \/ future'[c] = Broken
    BY <1>2 DEF Destroy
  <2>2. Broken.res \notin {"value", "error"}
    BY DEF Broken
  <2>3. QED
    BY <1>0, <1>2, <2>1, <2>2 DEF RightAnswer, Destroy
<1>3. ASSUME NEW c \in Calls, NEW res \in {"value", "error"}, Answer(c, res)
      PROVE  RightAnswer'
  <2>1. \A d \in Calls : answered'[d] = IF d = c THEN res ELSE answered[d]
    BY <1>0, <1>3 DEF Answer, TypeOK
  <2>2. answered[c] = "none" /\ UNCHANGED future
    BY <1>3 DEF Answer
  <2>3. future[c].res \notin {"value", "error"}
    <3> SUFFICES ASSUME future[c].res \in {"value", "error"} PROVE FALSE
      OBVIOUS
    <3>1. future[c] = [of |-> c, res |-> "none"]
      BY <1>0, <2>2 DEF RightAnswer
    <3>2. future[c].res = "none"
      BY <3>1
    <3>3. QED
      BY <3>2
  <2>4. QED
    BY <1>0, <2>1, <2>2, <2>3 DEF RightAnswer
<1>4. CASE OnRead
  <2>1. PICK k \in 1 .. Len(inbox) :
          future' = [c \in Calls |->
                IF Hits(k, c) = {} \/ future[c] # NoFuture THEN future[c]
                ELSE LET i == CHOOSE j \in Hits(k, c) : TRUE
                     IN  [of |-> inbox[i].of, res |-> inbox[i].res]]
    BY <1>4 DEF OnRead
  <2>2. answered' = answered
    BY <1>4 DEF OnRead
  <2>3. ASSUME NEW c \in Calls, Hits(k, c) # {}
        PROVE  LET i == CHOOSE j \in Hits(k, c) : TRUE
               IN  [of |-> inbox[i].of, res |-> inbox[i].res]
                     = [of |-> c, res |-> answered[c]]
    <3> DEFINE i == CHOOSE j \in Hits(k, c) : TRUE
    <3>1. i \in 1 .. k /\ ongoing_calls[inbox[i].id] = c
      BY <2>3 DEF Hits
    <3>2. inbox \in Seq(Responses) /\ i \in DOMAIN inbox
      BY <1>0, <3>1 DEF TypeOK
    <3> HIDE DEF i
    <3>3. inbox[i] \in Responses
      BY <3>2
    <3>4. inbox[i].of \in Calls /\ inbox[i].id \in 0 .. MaxIdx
      BY <3>3 DEF Responses
    <3>5. /\ inbox[i].of \in Known /\ inbox[i].id = idx[inbox[i].of]
          /\ inbox[i].res = answered[inbox[i].of]
      BY <1>0, <3>2 DEF InboxMatches
    <3>6. c \in Known /\ idx[c] = inbox[i].id
      BY <1>0, <3>1, <3>4, RequestAssumption DEF EntriesMatch
    <3>7. inbox[i].of = c
      BY <1>0, <3>4, <3>5, <3>6 DEF IdsDistinct
    <3>8. QED
      BY <3>5, <3>7 DEF i
  <2>4. ASSUME NEW c \in Calls, future'[c].res \in {"value", "error"}
        PROVE  future'[c] = [of |-> c, res |-> answered'[c]]
    <3>1. CASE Hits(k, c) = {} \/ future[c] # NoFuture
      BY <1>0, <2>1, <2>2, <2>4, <3>1 DEF RightAnswer
    <3>2. CASE Hits(k, c) # {} /\ future[c] = NoFuture
      BY <2>1, <2>2, <2>3, <3>2
    <3>3. QED
      BY <3>1, <3>2
  <2>5. QED
    BY <2>4 DEF RightAnswer
<1>5. QED
  BY <1>1, <1>2, <1>3, <1>4
     DEF Next, vars, User, NextCallIdx, PostCall, PostTask, Wait, Return,
         ThrowTimeout, UserStep, Notify, SetTimeout, IoThread, RunCall,
         RunNotify, RunFlush, RunErase, OnConnected, OnRetry, OnConnectError,
         OnConnectFailed, OnReadDisconnected, OnReadError, ReadEnds, OnWritten,
         OnBrokenPipe, OnWriteError, WriteDone, RunReturns, Kernel, Transmit,
         FailPipe, FailOther, Settle, Accepted, Refused, ConnectEnds, Break, Drop

(* A client that was just constructed satisfies the invariant. *)
LEMMA InitIInv == Init => IInv
<1> SUFFICES ASSUME Init PROVE IInv
  OBVIOUS
<1>1. TypeOK
  <2>1. /\ strand \in Seq(Tasks) /\ pending_calls \in Seq(Frames)
        /\ write_queue \in Seq(Frames) /\ wire \in Seq(Requests)
        /\ inbox \in Seq(Responses) /\ posted \in Seq(Requests)
    BY DEF Init
  <2>2. /\ call_idx \in 0 .. MaxIdx /\ idx \in [Calls -> 0 .. MaxIdx]
        /\ failures \in 0 .. MaxAttempts
    BY BoundAssumption DEF Init
  <2>3. /\ stage \in [Requests -> Stages] /\ answered \in [Calls -> Outcomes]
        /\ future \in [Calls -> Futures]
        /\ ongoing_calls \in [0 .. MaxIdx -> Calls \cup {NoCall}]
    BY DEF Init, Stages, Outcomes, Futures
  <2>4. QED
    BY <2>1, <2>2, <2>3 DEF Init, TypeOK
<1>2. AttemptsLeft /\ WriteHasFrame
  BY BoundAssumption DEF Init, AttemptsLeft, WriteHasFrame
<1>3. KnownOnly
  BY DEF Init, KnownOnly
<1>4. Known = {}
  BY DEF Init, Known
<1>5. IdsDistinct
  BY <1>4 DEF IdsDistinct
<1>6. EntriesMatch /\ InboxMatches
  BY DEF Init, EntriesMatch, InboxMatches
<1>7. RightAnswer
  BY DEF Init, RightAnswer, NoFuture
<1>8. QED
  BY <1>1, <1>2, <1>3, <1>5, <1>6, <1>7 DEF IInv

LEMMA IInvStep == IInv /\ [Next]_vars => IInv'
BY TypeStep, KnownStep, IdStep, EntryStep, InboxStep, AnswerStep DEF IInv

(* Every reachable state of the client satisfies the inductive invariant. *)
THEOREM ClientInvariant == Spec => []IInv
BY InitIInv, IInvStep, PTL DEF Spec

(* Every variable of the client keeps its type; in particular the connection
   attempts never exceed their limit. *)
THEOREM ClientTypes == Spec => []TypeOK
<1>1. IInv => TypeOK
  BY DEF IInv
<1>2. QED
  BY <1>1, ClientInvariant, PTL

(* A call's future holds the server's answer to that very call, for any
   number of calls, callers, timeouts and reconnections, in whatever order
   the answers come. *)
THEOREM AnswersAreRight == Spec => []RightAnswer
<1>1. IInv => RightAnswer
  BY DEF IInv
<1>2. QED
  BY <1>1, ClientInvariant, PTL

(* No future is set at the start. *)
LEMMA InitRemote == Init => Remote!CallInit
BY DEF Init, Remote!CallInit, Requests, Result, NoFuture

(* Only do_read() and the destructor touch a future. *)
LEMMA FuturesStay ==
  ASSUME TypeOK, [Next]_vars
  PROVE  \/ future' = future
         \/ OnRead
         \/ Destroy
<1> QED
  BY DEF Next, vars, User, NextCallIdx, PostCall, PostTask, Notify, Wait,
         Return, ThrowTimeout, UserStep, SetTimeout, IoThread, RunCall,
         RunNotify, RunFlush, RunErase, OnConnected, OnConnectFailed, OnRetry,
         OnConnectError, ReadEnds, OnReadDisconnected, OnReadError, WriteDone,
         OnWritten, OnBrokenPipe, OnWriteError, RunReturns, Kernel, Settle,
         Transmit, FailPipe, FailOther, Accepted, Refused, ConnectEnds, Break,
         Drop, Answer

(* The kernel takes one frame at a time, and gives none back. *)
LEMMA WireGrows ==
  ASSUME TypeOK, TypeOK', [Next]_vars
  PROVE  /\ Len(wire) \in Nat /\ Len(wire') \in Nat /\ Len(wire) <= Len(wire')
         /\ \A i \in 1 .. Len(wire) : wire'[i] = wire[i]
<1>1. wire' = wire \/ wire' = Append(wire, Head(write_queue))
  BY DEF Next, vars, User, NextCallIdx, PostCall, PostTask, Notify, Wait,
         Return, ThrowTimeout, UserStep, SetTimeout, Destroy, IoThread, RunCall,
         RunNotify, RunFlush, RunErase, WriteAll, OnConnected, OnConnectFailed,
         OnRetry, OnConnectError, OnRead, ReadEnds, OnReadDisconnected,
         OnReadError, WriteDone, OnWritten, OnBrokenPipe, OnWriteError,
         RunReturns, Kernel, Transmit, FailPipe, FailOther, Accepted, Refused,
         ConnectEnds, Break, Drop, Answer
<1>2. wire \in Seq(Requests) /\ wire' \in Seq(Requests)
  BY DEF TypeOK
<1>3. Len(wire) \in Nat /\ Len(wire') \in Nat
  BY <1>2
<1>4. Len(Append(wire, Head(write_queue))) = Len(wire) + 1
  BY <1>2
<1>5. Len(wire') = Len(wire) \/ Len(wire') = Len(wire) + 1
  BY <1>1, <1>4
<1>6. \A i \in 1 .. Len(wire) : Append(wire, Head(write_queue))[i] = wire[i]
  BY <1>2
<1>7. QED
  BY <1>1, <1>3, <1>5, <1>6

(* What do_read() sets, it sets once and to the server's answer. *)
LEMMA ReadResolves ==
  ASSUME IInv, IInv', OnRead
  PROVE  Remote!Resolve
<1>1. /\ answered' = answered /\ stage' = stage
  BY DEF OnRead
<1>2. \A c \in Calls : future[c] # NoFuture => future'[c] = future[c]
  BY DEF OnRead
<1>3. SUFFICES ASSUME NEW c \in Calls, Result(c)' # Result(c)
               PROVE  /\ Result(c) = "none" /\ answered[c] \in {"value", "error"}
                      /\ Result(c)' = answered[c]
  BY <1>1 DEF Remote!Resolve, Remote!Ends
<1>4. future[c] = NoFuture
  BY <1>2, <1>3 DEF Result
<1>5. future'[c] # NoFuture /\ future'[c] # Broken
  <2>1. PICK k \in 1 .. Len(inbox) :
          future'[c] = IF Hits(k, c) = {} \/ future[c] # NoFuture THEN future[c]
                       ELSE LET i == CHOOSE j \in Hits(k, c) : TRUE
                            IN  [of |-> inbox[i].of, res |-> inbox[i].res]
    BY DEF OnRead
  <2>2. future'[c] # future[c]
    BY <1>3 DEF Result
  <2>3. Hits(k, c) # {}
    BY <2>1, <2>2
  <2>4. PICK i \in Hits(k, c) : future'[c] = [of |-> inbox[i].of, res |-> inbox[i].res]
    BY <1>4, <2>1, <2>3
  <2>5. inbox[i].of \in Calls
    <3>1. i \in 1 .. Len(inbox) /\ inbox \in Seq(Responses)
      BY <2>4 DEF Hits, IInv, TypeOK
    <3>2. inbox[i] \in Responses
      BY <3>1
    <3>3. QED
      BY <3>2 DEF Responses
  <2>6. QED
    BY <2>4, <2>5, RequestAssumption DEF NoFuture, Broken
<1>6. /\ future'[c].res \in {"value", "error"}
      /\ future'[c] = [of |-> c, res |-> answered[c]]
  BY <1>1, <1>5 DEF IInv, TypeOK, RightAnswer, Futures
<1>7. QED
  BY <1>4, <1>6 DEF Result, NoFuture

(* The destructor breaks the promises that are still open, of calls made. *)
LEMMA DestroyAbandons ==
  ASSUME IInv, Destroy
  PROVE  Remote!Abandon
<1>1. /\ answered' = answered /\ stage' = stage
      /\ future' = [c \in Calls |->
                     IF stage[c] # "idle" /\ future[c] = NoFuture
                     THEN Broken ELSE future[c]]
  BY DEF Destroy
<1>2. ASSUME NEW c \in Calls
      PROVE  Result(c) = "none" <=> future[c] = NoFuture
  <2>1. \/ future[c] = NoFuture
        \/ future[c] = Broken
        \/ future[c].res \in {"value", "error"} /\ future[c].of = c
    <3>1. future[c] \in Futures
      BY DEF IInv, TypeOK
    <3>2. \/ future[c] = NoFuture
          \/ future[c] = Broken
          \/ future[c].res \in {"value", "error"}
      BY <3>1 DEF Futures
    <3>3. CASE future[c].res \in {"value", "error"}
      <4>1. future[c] = [of |-> c, res |-> answered[c]]
        BY <3>3 DEF IInv, RightAnswer
      <4>2. QED
        BY <3>3, <4>1
    <3>4. QED
      BY <3>2, <3>3
  <2>2. QED
    BY <2>1 DEF Result, NoFuture, Broken
<1>3. \A c \in Calls :
        Result(c)' = IF stage[c] # "idle" /\ Result(c) = "none"
                     THEN "broken_promise" ELSE Result(c)
  BY <1>1, <1>2 DEF Result, Broken
<1>4. QED
  BY <1>1, <1>3 DEF Remote!Abandon

(* A step that sets no future makes a call, takes an answer of the server, or
   is not seen from outside. *)
LEMMA OtherSteps ==
  ASSUME IInv, [Next]_vars, future' = future
  PROVE  [Remote!CallNext]_(Remote!callVars)
<1>1. \A c \in Calls : Result(c)' = Result(c)
  BY DEF Result
<1>2. CASE \E c \in Calls : NextCallIdx(c)
  <2>1. PICK c \in Calls : NextCallIdx(c)
    BY <1>2
  <2>2. /\ stage[c] = "idle" /\ answered' = answered
        /\ stage' = [stage EXCEPT ![c] = "numbered"]
    BY <2>1 DEF NextCallIdx
  <2>3. {d \in Calls : stage'[d] # "idle"}
          = {d \in Calls : stage[d] # "idle"} \cup {c}
    BY <2>2 DEF IInv, TypeOK, Requests
  <2>4. Remote!Make(c)
    BY <1>1, <2>2, <2>3 DEF Remote!Make
  <2>5. QED
    BY <2>4 DEF Remote!CallNext
<1>3. CASE \E c \in Calls, res \in {"value", "error"} : Answer(c, res)
  <2>1. PICK c \in Calls, res \in {"value", "error"} : Answer(c, res)
    BY <1>3
  <2>2. c \in Known
    BY <2>1 DEF Answer, IInv, KnownOnly
  <2>3. Remote!Execute(c, res)
    BY <1>1, <2>1, <2>2 DEF Answer, Remote!Execute, Known
  <2>4. QED
    BY <2>3 DEF Remote!CallNext, Remote!Ends
<1>4. CASE /\ answered' = answered
           /\ {d \in Calls : stage'[d] # "idle"} = {d \in Calls : stage[d] # "idle"}
  BY <1>1, <1>4 DEF Remote!callVars
<1>5. CASE \E r \in Requests :
             /\ stage[r] # "idle" \/ r \notin Calls
             /\ \E to \in Stages \ {"idle"} : stage' = [stage EXCEPT ![r] = to]
             /\ answered' = answered
  <2>1. {d \in Calls : stage'[d] # "idle"} = {d \in Calls : stage[d] # "idle"}
    BY <1>5 DEF IInv, TypeOK
  <2>2. QED
    BY <1>4, <1>5, <2>1
<1>6. CASE \E c \in Calls : PostCall(c) \/ Wait(c) \/ Return(c) \/ ThrowTimeout(c)
  BY <1>5, <1>6
     DEF PostCall, PostTask, Wait, Return, ThrowTimeout, UserStep, Requests, Stages
<1>7. CASE \E n \in Notifies : Notify(n)
  BY <1>5, <1>7, RequestAssumption DEF Notify, PostTask, Requests, Stages
<1>8. CASE \/ \E b \in Timeouts : SetTimeout(b)
           \/ Destroy \/ IoThread \/ Kernel
           \/ Accepted \/ Refused \/ Break \/ UNCHANGED vars
  BY <1>4, <1>8
     DEF SetTimeout, Destroy, IoThread, RunCall, RunNotify, RunFlush, RunErase,
         OnConnected, OnConnectFailed, OnRetry, OnConnectError, OnRead,
         ReadEnds, OnReadDisconnected, OnReadError, WriteDone, OnWritten,
         OnBrokenPipe, OnWriteError, RunReturns, Kernel, Settle, Transmit,
         FailPipe, FailOther, Accepted, Refused, ConnectEnds, Break, Drop, vars
<1>9. QED
  BY <1>2, <1>3, <1>6, <1>7, <1>8 DEF Next, User

(* Every step of the client is one of RemoteCall's or is not seen from outside. *)
LEMMA RemoteStep ==
  ASSUME IInv, IInv', [Next]_vars
  PROVE  [Remote!CallNext]_(Remote!callVars)
<1>1. CASE future' = future
  BY <1>1, OtherSteps
<1>2. CASE OnRead
  BY <1>2, ReadResolves DEF Remote!CallNext
<1>3. CASE Destroy
  BY <1>3, DestroyAbandons DEF Remote!CallNext
<1>4. QED
  BY <1>1, <1>2, <1>3, FuturesStay DEF IInv

(* What the client does looks to its callers like RemoteCall: for any number
   of calls, each future is set at most once, to the outcome of its own call,
   and a broken one belongs to a call of a client that is gone. *)
THEOREM ClientRefinesRemoteCall == Spec => ImplementsRemoteCall
<1>1. IInv /\ IInv' /\ [Next]_vars => [Remote!CallNext]_(Remote!callVars)
  BY RemoteStep
<1>2. QED
  BY InitRemote, ClientInvariant, <1>1, PTL
     DEF Spec, ImplementsRemoteCall, Remote!CallSpec

=============================================================================
