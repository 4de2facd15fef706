---------------------------- MODULE SystemProofs ----------------------------
(* Proofs about System, for any requests, workers and names: the client and    *)
(* the session run in it as they do by themselves, so that what is proved of    *)
(* them holds there, and together they implement RemoteCall.                    *)
EXTENDS System, TLAPS

(* The connection of the client can be lost for other reasons than outages: the
   session hangs up. *)
CP == INSTANCE ClientAnswerProofs WITH Outages <- TRUE
SP == INSTANCE SessionResponseProofs WITH Messages <- Requests

USE DEF C!ioVars, C!userVars, C!sendVars, C!netVars,
        CP!ioVars, CP!userVars, CP!sendVars, CP!netVars,
        S!locals, SP!locals, S!place, SP!place

LEMMA Assumed ==
  /\ CP!RequestAssumption /\ CP!BoundAssumption /\ SP!IdleAssumption
  /\ FunctionEndings \subseteq SP!Endings
BY PartsAssumption
   DEF C!RequestAssumption, C!BoundAssumption, S!IdleAssumption, S!Endings,
       CP!RequestAssumption, CP!BoundAssumption, SP!IdleAssumption, SP!Endings,
       Requests

-----------------------------------------------------------------------------
(* The client's steps in System are steps of the client. *)
LEMMA UserSteps ==
  ASSUME NEW c \in Calls, C!User(c)
  PROVE  CP!Next
<1>1. CASE C!NextCallIdx(c)
  <2>1. CP!NextCallIdx(c)
    BY <1>1 DEF C!NextCallIdx, CP!NextCallIdx, C!Usable, CP!Usable
  <2>2. QED
    BY <2>1 DEF CP!Next, CP!User
<1>2. CASE C!PostCall(c)
  <2>1. CP!PostCall(c)
    BY <1>2 DEF C!PostCall, CP!PostCall, C!PostTask, CP!PostTask, C!CallTask,
                CP!CallTask, C!Usable, CP!Usable
  <2>2. QED
    BY <2>1 DEF CP!Next, CP!User
<1>3. CASE C!Wait(c) \/ C!Return(c) \/ C!ThrowTimeout(c)
  <2>1. CP!Wait(c) \/ CP!Return(c) \/ CP!ThrowTimeout(c)
    BY <1>3 DEF C!Wait, CP!Wait, C!Return, CP!Return, C!ThrowTimeout,
                CP!ThrowTimeout, C!UserStep, CP!UserStep, C!NoFuture,
                CP!NoFuture, C!Usable, CP!Usable
  <2>2. QED
    BY <2>1 DEF CP!Next, CP!User
<1>4. QED
  BY <1>1, <1>2, <1>3 DEF C!User

LEMMA TaskSteps ==
  ASSUME C!RunCall \/ C!RunNotify \/ C!RunFlush \/ C!RunErase
  PROVE  CP!IoThread
<1>1. CASE C!RunCall
  <2>1. CP!RunCall
    BY <1>1 DEF C!RunCall, CP!RunCall, C!RunTask, CP!RunTask, C!Register,
                CP!Register, C!WriteAll, CP!WriteAll, C!MovedFrom, CP!MovedFrom
  <2>2. QED
    BY <2>1 DEF CP!IoThread
<1>2. CASE C!RunNotify
  <2>1. CP!RunNotify
    BY <1>2 DEF C!RunNotify, CP!RunNotify, C!RunTask, CP!RunTask, C!WriteAll,
                CP!WriteAll
  <2>2. QED
    BY <2>1 DEF CP!IoThread
<1>3. CASE C!RunFlush
  <2>1. CP!RunFlush
    BY <1>3 DEF C!RunFlush, CP!RunFlush, C!RunTask, CP!RunTask, C!WriteAll,
                CP!WriteAll, C!MovedFrom, CP!MovedFrom
  <2>2. QED
    BY <2>1 DEF CP!IoThread
<1>4. CASE C!RunErase
  <2>1. CP!RunErase
    BY <1>4 DEF C!RunErase, CP!RunErase, C!RunTask, CP!RunTask
  <2>2. QED
    BY <2>1 DEF CP!IoThread
<1>5. QED
  BY <1>1, <1>2, <1>3, <1>4

LEMMA HandlerSteps ==
  ASSUME \/ C!OnConnected \/ C!OnRetry \/ C!OnConnectError
         \/ C!OnRead \/ C!OnReadDisconnected \/ C!OnReadError
         \/ C!OnWritten \/ C!OnBrokenPipe \/ C!OnWriteError
         \/ C!RunReturns
  PROVE  CP!IoThread
<1>1. CASE C!OnConnected
  <2>1. CP!OnConnected
    BY <1>1 DEF C!OnConnected, CP!OnConnected, C!FlushTask, CP!FlushTask
  <2>2. QED
    BY <2>1 DEF CP!IoThread
<1>2. CASE C!OnRetry \/ C!OnConnectError
  <2>1. CP!OnRetry \/ CP!OnConnectError
    BY <1>2 DEF C!OnRetry, CP!OnRetry, C!OnConnectError, CP!OnConnectError,
                C!OnConnectFailed, CP!OnConnectFailed
  <2>2. QED
    BY <2>1 DEF CP!IoThread
<1>3. CASE C!OnRead
  <2>1. CP!OnRead
    BY <1>3 DEF C!OnRead, CP!OnRead, C!Hits, CP!Hits, C!SetTwice, CP!SetTwice,
                C!EraseTask, CP!EraseTask, C!NoFuture, CP!NoFuture
  <2>2. QED
    BY <2>1 DEF CP!IoThread
<1>4. CASE C!OnReadDisconnected \/ C!OnReadError
  <2>1. CP!OnReadDisconnected \/ CP!OnReadError
    BY <1>4 DEF C!OnReadDisconnected, CP!OnReadDisconnected, C!OnReadError,
                CP!OnReadError, C!ReadEnds, CP!ReadEnds
  <2>2. QED
    BY <2>1 DEF CP!IoThread
<1>5. CASE C!OnWritten \/ C!OnBrokenPipe \/ C!OnWriteError
  <2>1. CP!OnWritten \/ CP!OnBrokenPipe \/ CP!OnWriteError
    BY <1>5 DEF C!OnWritten, CP!OnWritten, C!OnBrokenPipe, CP!OnBrokenPipe,
                C!OnWriteError, CP!OnWriteError, C!WriteDone, CP!WriteDone,
                C!PopFront, CP!PopFront
  <2>2. QED
    BY <2>1 DEF CP!IoThread
<1>6. CASE C!RunReturns
  <2>1. CP!RunReturns
    BY <1>6 DEF C!RunReturns, CP!RunReturns
  <2>2. QED
    BY <2>1 DEF CP!IoThread
<1>7. QED
  BY <1>1, <1>2, <1>3, <1>4, <1>5, <1>6

LEMMA NetworkSteps ==
  ASSUME C!Kernel \/ C!Accepted \/ C!Refused \/ C!Break \/ C!Drop
  PROVE  CP!Next
<1>1. CASE C!Kernel
  <2>1. CP!Kernel
    BY <1>1 DEF C!Kernel, CP!Kernel, C!Transmit, CP!Transmit, C!FailPipe,
                CP!FailPipe, C!FailOther, CP!FailOther, C!Settle, CP!Settle
  <2>2. QED
    BY <2>1 DEF CP!Next
<1>2. CASE C!Accepted \/ C!Refused
  <2>1. CP!Accepted \/ CP!Refused
    BY <1>2 DEF C!Accepted, CP!Accepted, C!Refused, CP!Refused, C!ConnectEnds,
                CP!ConnectEnds
  <2>2. QED
    BY <2>1 DEF CP!Next
<1>3. CASE C!Break \/ C!Drop
  <2>1. CP!Break
    BY <1>3 DEF C!Break, CP!Break, C!Drop, CP!Drop
  <2>2. QED
    BY <2>1 DEF CP!Next
<1>4. QED
  BY <1>1, <1>2, <1>3

LEMMA ClientMoves == ASSUME ClientStep PROVE CP!Next
<1>1. CASE \E c \in Calls : C!User(c)
  BY <1>1, UserSteps
<1>2. ASSUME NEW n \in Notifies, C!Notify(n) PROVE CP!Next
  <2>1. CP!Notify(n)
    BY <1>2 DEF C!Notify, CP!Notify, C!PostTask, CP!PostTask, C!NotifyTask,
                CP!NotifyTask, C!Usable, CP!Usable
  <2>2. QED
    BY <2>1 DEF CP!Next
<1>3. CASE C!Destroy
  <2>1. CP!Destroy
    BY <1>3 DEF C!Destroy, CP!Destroy, C!Usable, CP!Usable, C!NoFuture,
                CP!NoFuture, C!Broken, CP!Broken, Requests, C!Requests, CP!Requests
  <2>2. QED
    BY <2>1 DEF CP!Next
<1>4. CASE C!IoThread
  BY <1>4, TaskSteps, HandlerSteps DEF C!IoThread, CP!Next
<1>5. CASE C!Kernel \/ C!Accepted \/ C!Refused \/ C!Break
  BY <1>5, NetworkSteps
<1>6. QED
  BY <1>1, <1>2, <1>3, <1>4, <1>5 DEF ClientStep

-----------------------------------------------------------------------------
(* The session's steps in System are steps of the session. *)
LEMMA SameDispatch ==
  ASSUME NEW kind, NEW m, NEW bound, NEW ending, NEW suppress
  PROVE  /\ S!dispatch(kind, m, bound, ending, suppress)
              = SP!dispatch(kind, m, bound, ending, suppress)
         /\ S!Thrown(m) = SP!Thrown(m)
<1>1. /\ S!dispatch_call(m, bound, ending, suppress)
           = SP!dispatch_call(m, bound, ending, suppress)
      /\ S!Thrown(m) = SP!Thrown(m)
  BY DEF S!dispatch_call, SP!dispatch_call, S!make_error, SP!make_error,
         S!make_result, SP!make_result, S!Response, SP!Response, S!Thrown,
         SP!Thrown
<1>2. S!empty_response(m) = SP!empty_response(m)
  BY DEF S!empty_response, SP!empty_response, S!Response, SP!Response
<1>3. S!dispatch_notification(m, bound, ending, suppress)
        = SP!dispatch_notification(m, bound, ending, suppress)
  BY <1>1, <1>2 DEF S!dispatch_notification, SP!dispatch_notification
<1>4. QED
  BY <1>1, <1>2, <1>3 DEF S!dispatch, SP!dispatch

LEMMA SamePrecedence ==
  ASSUME NEW r, NEW e, NEW s
  PROVE  S!Precedence(r, e, s) = SP!Precedence(r, e, s)
BY DEF S!Precedence, SP!Precedence, S!capture_error, SP!capture_error,
       S!capture_result, SP!capture_result

LEMMA SameWanted ==
  ASSUME NEW m
  PROVE  S!Wanted(m) = SP!Wanted(m)
BY SameDispatch, SamePrecedence DEF S!Wanted, SP!Wanted

LEMMA SamePosts ==
  ASSUME NEW w, NEW m, NEW r, NEW h, NEW z
  PROVE  S!Posts(w, m, r, h, z) = SP!Posts(w, m, r, h, z)
<1>1. \A op : S!CloseTask(op, m) = SP!CloseTask(op, m)
  BY DEF S!CloseTask, SP!CloseTask, S!Own, SP!Own, S!empty_response,
         SP!empty_response, S!Response, SP!Response
<1>2. \A handle, n : /\ S!Ref(w, handle, n) = SP!Ref(w, handle, n)
                     /\ S!Own = SP!Own
  BY DEF S!Ref, SP!Ref, S!Own, SP!Own
<1>3. \A x, ref : S!WriteTask(x, ref) = SP!WriteTask(x, ref)
  BY DEF S!WriteTask, SP!WriteTask
<1>4. S!WriteOf(w, r, h, z) = SP!WriteOf(w, r, h, z)
  BY <1>2, <1>3, SamePrecedence DEF S!WriteOf, SP!WriteOf
<1>5. S!ExitOf(w, m) = SP!ExitOf(w, m) /\ S!StopOf(w, m) = SP!StopOf(w, m)
  BY <1>1 DEF S!ExitOf, SP!ExitOf, S!StopOf, SP!StopOf
<1>6. QED
  BY <1>4, <1>5 DEF S!Posts, SP!Posts

LEMMA SameFree ==
  /\ \A w : S!Free(w) <=> SP!Free(w)
  /\ S!SomeFree <=> SP!SomeFree
BY DEF S!Free, SP!Free, S!SomeFree, SP!SomeFree

LEMMA FinishSteps ==
  ASSUME NEW w \in Workers, NEW ending \in FunctionEndings, S!Finish(w, ending)
  PROVE  SP!Finish(w, ending) /\ SP!Next
<1>1. SP!Finish(w, ending)
  BY SameDispatch, SamePosts DEF S!Finish, SP!Finish, S!Bound, SP!Bound
<1>2. QED
  BY <1>1, Assumed DEF SP!Next, SP!Work

LEMMA SessionMoves ==
  ASSUME SessionStep
  PROVE  SP!Next /\ UNCHANGED request
<1>1. CASE \E f \in Names : S!Bind(f)
  <2>1. \E f \in Names : SP!Bind(f)
    BY <1>1 DEF S!Bind, SP!Bind, S!Rebind, SP!Rebind
  <2>2. QED
    BY <2>1 DEF SP!Next, SP!Bind, SP!Rebind
<1>2. ASSUME NEW w \in Workers,
             S!Take(w) \/ S!PostExit(w) \/ S!EnableResponse(w, FALSE)
      PROVE  SP!Next /\ UNCHANGED request
  <2>1. SP!Take(w) \/ SP!PostExit(w) \/ SP!EnableResponse(w, FALSE)
    BY <1>2, SameFree
       DEF S!Take, SP!Take, S!Cleared, SP!Cleared, S!PostExit, SP!PostExit,
           S!EnableResponse, SP!EnableResponse, S!InFunction, SP!InFunction,
           S!Bound, SP!Bound
  <2>2. QED
    BY <2>1 DEF SP!Next, SP!Work, SP!Take, SP!PostExit, SP!EnableResponse
<1>3. ASSUME NEW w \in Workers, NEW ending \in FunctionEndings,
             S!Finish(w, ending)
      PROVE  SP!Next /\ UNCHANGED request
  BY <1>3, FinishSteps DEF SP!Finish
<1>4. CASE S!RunWrite \/ S!RunClose
  <2>1. SP!RunWrite \/ SP!RunClose
    BY <1>4, SameFree
       DEF S!RunWrite, SP!RunWrite, S!RunClose, SP!RunClose, S!Close, SP!Close,
           S!RunStrand, SP!RunStrand
  <2>2. QED
    BY <2>1 DEF SP!Next, SP!RunWrite, SP!RunClose, SP!RunStrand
<1>5. CASE S!Push \/ S!CloseSessions \/ S!OnEof
  <2>1. SP!Push \/ SP!CloseSessions \/ SP!OnEof
    BY <1>5, SameFree
       DEF S!Push, SP!Push, S!CloseSessions, SP!CloseSessions, S!CloseListed,
           SP!CloseListed, S!Close, SP!Close, S!OnEof, SP!OnEof
  <2>2. QED
    BY <2>1 DEF SP!Next, SP!Push, SP!CloseSessions, SP!OnEof
<1>6. QED
  BY <1>1, <1>2, <1>3, <1>4, <1>5 DEF SessionStep

LEMMA UnpackMoves ==
  ASSUME Deliver
  PROVE  LET r == wire[unpacked + 1] IN
         /\ \E f \in Names : SP!Unpack(r, KindOf(r), f)
         /\ r \in Requests => SP!Next
<1> DEFINE r == wire[unpacked + 1]
<1>1. PICK f \in Names : S!Unpack(r, KindOf(r), f)
  BY DEF Deliver
<1>2. SP!Unpack(r, KindOf(r), f)
  BY <1>1, SameFree DEF S!Unpack, SP!Unpack, S!NoRequest, SP!NoRequest
<1>3. KindOf(r) \in SP!Kinds
  BY DEF KindOf, SP!Kinds
<1> HIDE DEF r
<1>4. QED
  BY <1>2, <1>3 DEF SP!Next, r

-----------------------------------------------------------------------------
(* What the parts and the connection between them keep. *)
SystemIInv == CP!IInv /\ CP!CallIInv /\ SP!IInv /\ SP!ResponseIInv /\ LinkIInv

LEMMA InitSystem == Init => SystemIInv /\ CP!Init /\ SP!Init
<1> SUFFICES ASSUME Init PROVE SystemIInv /\ CP!Init /\ SP!Init
  OBVIOUS
<1>1. CP!Init
  BY DEF Init, C!Init, CP!Init, C!NoFuture, CP!NoFuture, C!Requests,
         CP!Requests
<1>2. SP!Init
  BY DEF Init, S!Init, SP!Init, S!NoRequest, SP!NoRequest, S!Cleared,
         SP!Cleared, S!NoLog, SP!NoLog
<1>3. CP!IInv /\ CP!CallIInv /\ SP!IInv /\ SP!ResponseIInv
  BY <1>1, <1>2, Assumed, CP!InitIInv, CP!InitCall, SP!InitIInv, SP!InitResponse
<1>4. Crossed
  <2>1. wire = <<>> /\ written = <<>> /\ unpacked = 0 /\ received = 0
    BY DEF Init, C!Init, S!Init
  <2>2. QED
    BY <2>1 DEF Crossed
<1>5. RequestsMade /\ AnswersOwn
  BY DEF Init, C!Init, S!Init, RequestsMade, AnswersOwn
<1>6. TurnIInv
  <2>1. tasks = <<>> /\ unpacked = 0 /\ request = [r \in Requests |-> S!NoRequest]
    BY DEF Init, S!Init
  <2>2. Len(tasks) = 0
    BY <2>1
  <2>3. Started = 0
    <3>1. unpacked = 0
      BY <2>1
    <3>2. QED
      BY <2>2, <3>1 DEF Started
  <2>4. QED
    BY <2>1, <2>2, <2>3
       DEF TurnIInv, QueueFollowsWire, RequestsCrossed, DoneInTurn
<1>7. QED
  BY <1>1, <1>2, <1>3, <1>4, <1>5, <1>6 DEF SystemIInv, LinkIInv

(* The session answers a call that was made, is done, and has that outcome. *)
LEMMA ReplyMoves ==
  ASSUME SystemIInv, Reply
  PROVE  \E c \in Calls :
           /\ Outcome(c) \in {"value", "error"}
           /\ CP!Answer(c, Outcome(c))
<1> DEFINE t == written[received + 1]
           Written == {e \in SP!Due : e.op = "write"}
<1>1. /\ received < Len(written)
      /\ C!Answer(t.id, Reads(t.resp))
  BY DEF Reply
<1>2. written \in Seq(Written)
  BY DEF SystemIInv, SP!ResponseIInv, SP!WritesAsWanted
<1>3. received \in Nat
  BY <1>2 DEF SystemIInv, LinkIInv, Crossed
<1>4. t \in Written
  <2> HIDE DEF Written
  <2>1. Len(written) \in Nat /\ \A i \in 1 .. Len(written) : written[i] \in Written
    BY <1>2
  <2>2. received + 1 \in 1 .. Len(written)
    BY <1>1, <1>3, <2>1
  <2>3. QED
    BY <2>1, <2>2
<1> HIDE DEF t
<1>5. /\ t.id \in Requests /\ log[t.id].done /\ request[t.id].kind = "call"
      /\ t.resp = SP!Wanted(t.id)
  BY <1>4 DEF SP!Due, SP!StrandTasks
<1>6. t.id \in Calls
  <2>1. request[t.id] # S!NoRequest
    BY <1>5 DEF S!NoRequest
  <2>2. KindOf(t.id) = "call"
    BY <1>5, <2>1 DEF SystemIInv, LinkIInv, RequestsMade
  <2>3. QED
    BY <2>2 DEF KindOf
<1>7. Reads(t.resp) = Outcome(t.id)
  BY <1>5, SameWanted DEF Outcome
<1>8. Outcome(t.id) \in {"value", "error"}
  BY <1>7 DEF Reads
<1>9. CP!Answer(t.id, Outcome(t.id))
  BY <1>1, <1>7 DEF C!Answer, CP!Answer
<1>10. QED
  BY <1>6, <1>8, <1>9

(* A frame on the wire is a request that was made. *)
LEMMA DeliverMoves ==
  ASSUME SystemIInv, Deliver
  PROVE  /\ wire[unpacked + 1] \in Requests
         /\ stage[wire[unpacked + 1]] # "idle"
<1>1. wire \in Seq(CP!Known) /\ unpacked \in Nat /\ unpacked < Len(wire)
  BY DEF SystemIInv, LinkIInv, Crossed, CP!IInv, CP!KnownOnly, Deliver
<1>2. wire[unpacked + 1] \in CP!Known
  BY <1>1
<1>3. QED
  BY <1>2 DEF CP!Known, CP!Requests, Requests

(* Every step of System is one of the client, one of the session or none. *)
LEMMA PartsMove ==
  ASSUME SystemIInv, [Next]_vars
  PROVE  [CP!Next]_(CP!vars) /\ [SP!Next]_(SP!vars)
<1>1. ASSUME UNCHANGED sessionVars PROVE UNCHANGED SP!vars
  BY <1>1 DEF sessionVars, SP!vars
<1>2. ASSUME UNCHANGED clientVars PROVE UNCHANGED CP!vars
  BY <1>2 DEF clientVars, CP!vars
<1>3. CASE ClientStep
  BY <1>1, <1>3, ClientMoves DEF ClientStep
<1>4. CASE SessionStep
  BY <1>2, <1>4, SessionMoves DEF SessionStep
<1>5. CASE Deliver
  BY <1>2, <1>5, DeliverMoves, UnpackMoves DEF Deliver
<1>6. CASE Reply
  BY <1>1, <1>6, ReplyMoves DEF Reply, CP!Next
<1>7. CASE Hangup
  BY <1>1, <1>7, NetworkSteps DEF Hangup
<1>8. CASE UNCHANGED vars
  BY <1>1, <1>2, <1>8 DEF vars
<1>9. QED
  BY <1>3, <1>4, <1>5, <1>6, <1>7, <1>8 DEF Next

-----------------------------------------------------------------------------
(* How a function ended stays, and is there once it is done. *)
LEMMA OutcomeKept ==
  ASSUME SP!IInv, [SP!Next]_(SP!vars), NEW c \in Calls
  PROVE  /\ log'[c].done = log[c].done => Outcome(c)' = Outcome(c)
         /\ log[c].done => Outcome(c)' = Outcome(c)
<1>1. ASSUME log[c].done PROVE Outcome(c)' = Outcome(c)
  <2>1. /\ log'[c] = log[c] /\ request'[c] = request[c]
        /\ suppress_exceptions_' = suppress_exceptions_
    BY <1>1, Assumed, SP!DoneStays DEF Requests
  <2>2. S!Wanted(c)' = S!Wanted(c)
    BY <2>1 DEF S!Wanted
  <2>3. QED
    BY <2>1, <2>2 DEF Outcome, Reads
<1>2. CASE ~log[c].done /\ ~log'[c].done
  BY <1>2 DEF Outcome
<1>3. QED
  BY <1>1, <1>2

LEMMA AnswersFromReply ==
  ASSUME ClientStep \/ SessionStep \/ Deliver \/ Hangup
  PROVE  answered' = answered
<1>1. ASSUME NEW c \in Calls, C!User(c) PROVE answered' = answered
  BY <1>1 DEF C!User, C!NextCallIdx, C!PostCall, C!PostTask, C!Wait, C!Return,
              C!ThrowTimeout, C!UserStep
<1>2. ASSUME NEW n \in Notifies, C!Notify(n) PROVE answered' = answered
  BY <1>2 DEF C!Notify, C!PostTask
<1>3. CASE C!IoThread
  BY <1>3 DEF C!IoThread, C!RunCall, C!RunNotify, C!RunFlush, C!RunErase,
              C!OnConnected, C!OnConnectFailed, C!OnRetry, C!OnConnectError,
              C!OnRead, C!ReadEnds, C!OnReadDisconnected, C!OnReadError,
              C!WriteDone, C!OnWritten, C!OnBrokenPipe, C!OnWriteError,
              C!RunReturns
<1>4. CASE C!Destroy \/ C!Kernel \/ C!Accepted \/ C!Refused \/ C!Break \/ C!Drop
  BY <1>4 DEF C!Destroy, C!Kernel, C!Transmit, C!FailPipe, C!FailOther,
              C!Settle, C!Accepted, C!Refused, C!ConnectEnds, C!Break, C!Drop
<1>5. CASE SessionStep \/ Deliver
  BY <1>5 DEF SessionStep, Deliver, clientVars
<1>6. QED
  BY <1>1, <1>2, <1>3, <1>4, <1>5 DEF ClientStep, Hangup

(* What a step of the session does to its queue: a worker takes a task, or the
   queue stays and a worker that drops what it runs is done with it. *)
LEMMA QueueMoves ==
  ASSUME SP!TypeOK, SessionStep
  PROVE  /\ unpacked' = unpacked /\ wire' = wire /\ request' = request
         /\ \/ \E w \in Workers : SP!Take(w)
            \/ /\ tasks' = tasks
               /\ \A w \in Workers :
                    running'[w] = running[w] \/ log'[running[w]].done
<1>1. /\ unpacked' = unpacked /\ wire' = wire /\ request' = request
  BY SessionMoves DEF SessionStep, clientVars
<1>2. ASSUME NEW w \in Workers, NEW ending \in FunctionEndings, S!Finish(w, ending)
      PROVE  /\ tasks' = tasks
             /\ \A v \in Workers :
                  running'[v] = running[v] \/ log'[running[v]].done
  <2>1. /\ tasks' = tasks /\ running[w] # Idle
        /\ running' = [running EXCEPT ![w] = Idle]
        /\ log' = [log EXCEPT ![running[w]].done = TRUE,
                              ![running[w]].ran = S!Bound(running[w]),
                              ![running[w]].ending = ending]
    BY <1>2 DEF S!Finish
  <2>2. running[w] \in Requests
    BY <2>1 DEF SP!TypeOK
  <2>3. log'[running[w]].done
    BY <2>1, <2>2 DEF SP!TypeOK
  <2>4. \A v \in Workers : v # w => running'[v] = running[v]
    BY <2>1 DEF SP!TypeOK
  <2>5. QED
    BY <2>1, <2>3, <2>4
<1>3. ASSUME NEW w \in Workers, S!Take(w) PROVE SP!Take(w)
  BY <1>3, SameFree DEF S!Take, SP!Take, S!Cleared, SP!Cleared
<1>4. ASSUME NEW w \in Workers, S!PostExit(w) \/ S!EnableResponse(w, FALSE)
      PROVE  tasks' = tasks /\ running' = running
  BY <1>4 DEF S!PostExit, S!EnableResponse
<1>5. CASE (\E f \in Names : S!Bind(f)) \/ S!RunWrite \/ S!RunClose
  BY <1>1, <1>5 DEF S!Bind, S!Rebind, S!RunWrite, S!RunClose, S!RunStrand
<1>6. CASE S!Push \/ S!CloseSessions \/ S!OnEof
  BY <1>1, <1>6 DEF S!Push, S!CloseSessions, S!OnEof
<1>7. QED
  BY <1>1, <1>2, <1>3, <1>4, <1>5, <1>6 DEF SessionStep

(* The order of the wire is that of the tasks, step by step. *)
LEMMA TurnStep ==
  ASSUME SystemIInv, CP!IInv', SP!IInv', [Next]_vars
  PROVE  TurnIInv'
<1>1. [CP!Next]_(CP!vars) /\ [SP!Next]_(SP!vars)
  BY PartsMove
<1>2. /\ CP!TypeOK /\ CP!TypeOK' /\ SP!TypeOK /\ SP!TypeOK'
      /\ Crossed /\ QueueFollowsWire /\ RequestsCrossed /\ DoneInTurn
  BY DEF SystemIInv, LinkIInv, TurnIInv, CP!IInv, SP!IInv
<1>3. /\ tasks \in Seq(Requests) /\ Len(tasks) \in Nat
      /\ unpacked \in Nat /\ Len(wire) \in Nat /\ unpacked <= Len(wire)
      /\ Started \in Nat /\ Started + Len(tasks) = unpacked
  <2>1. tasks \in Seq(Requests) /\ Len(wire) \in Nat
    BY <1>1, <1>2, Assumed, CP!WireGrows DEF SP!TypeOK
  <2>2. QED
    BY <1>2, <2>1 DEF Crossed, QueueFollowsWire, Started
<1>4. \A i \in 1 .. unpacked : wire'[i] = wire[i]
  <2>1. \A i \in 1 .. Len(wire) : wire'[i] = wire[i]
    BY <1>1, <1>2, Assumed, CP!WireGrows
  <2>2. QED
    BY <1>3, <2>1
<1>5. \A r \in Requests : log[r].done => log'[r].done
  BY <1>1, Assumed, SP!DoneStays DEF SystemIInv
<1>6. \A i \in 1 .. unpacked : wire[i] \in Requests
  <2>1. wire \in Seq(Requests)
    BY <1>2 DEF CP!TypeOK, CP!Requests, Requests
  <2>2. QED
    BY <1>3, <2>1
<1>7. \A i \in 1 .. Len(tasks) : tasks[i] = wire[Started + i]
  BY <1>2, <1>3 DEF QueueFollowsWire
<1>8. ASSUME tasks' = tasks, unpacked' = unpacked, request' = request,
             \A w \in Workers : running'[w] = running[w] \/ log'[running[w]].done
      PROVE  TurnIInv'
  <2>1. Started' = Started
    BY <1>8 DEF Started
  <2>2. \A i \in 1 .. Len(tasks) : Started + i \in 1 .. unpacked
    BY <1>3
  <2>3. QueueFollowsWire'
    <3>1. \A i \in 1 .. Len(tasks) : tasks[i] = wire'[Started + i]
      BY <1>4, <1>7, <2>2
    <3>2. DOMAIN tasks' = 1 .. Len(tasks)
      BY <1>3, <1>8
    <3>3. QED
      BY <1>2, <1>8, <2>1, <3>1, <3>2 DEF QueueFollowsWire
  <2>4. RequestsCrossed'
    BY <1>2, <1>4, <1>8 DEF RequestsCrossed, S!NoRequest
  <2>5. \A i \in 1 .. Started : i \in 1 .. unpacked
    BY <1>3
  <2>6. DoneInTurn'
    BY <1>2, <1>4, <1>5, <1>6, <1>8, <2>1, <2>5 DEF DoneInTurn, OneWorker
  <2>7. QED
    BY <2>3, <2>4, <2>6 DEF TurnIInv
<1>9. ASSUME NEW w \in Workers, SP!Take(w), unpacked' = unpacked,
             wire' = wire, request' = request
      PROVE  TurnIInv'
  <2>1. /\ tasks # <<>> /\ tasks' = Tail(tasks) /\ log' = log
        /\ running[w] = Idle /\ running' = [running EXCEPT ![w] = Head(tasks)]
    BY <1>9 DEF SP!Take, SP!Free
  <2>2. /\ Len(tasks) > 0 /\ Len(tasks') = Len(tasks) - 1
        /\ Head(tasks) = tasks[1]
        /\ \A i \in 1 .. Len(tasks') : tasks'[i] = tasks[i + 1]
        /\ DOMAIN tasks' = 1 .. Len(tasks')
    BY <1>3, <2>1
  <2>3. Started' = Started + 1
    BY <1>3, <1>9, <2>2 DEF Started
  <2>4. QueueFollowsWire'
    <3>1. ASSUME NEW i \in 1 .. Len(tasks') PROVE tasks'[i] = wire'[Started' + i]
      <4>1. Len(tasks) \in Nat /\ Started \in Nat
        BY <1>3
      <4>2. i \in Nat /\ i + 1 \in 1 .. Len(tasks)
        <5>1. Len(tasks') = Len(tasks) - 1
          BY <2>2
        <5>2. QED
          BY <4>1, <5>1
      <4>3. Started + (i + 1) = Started' + i
        BY <2>3, <4>1, <4>2
      <4>4. tasks'[i] = tasks[i + 1]
        BY <2>2
      <4>5. tasks[i + 1] = wire[Started + (i + 1)]
        BY <1>7, <4>2
      <4>6. QED
        BY <1>9, <4>3, <4>4, <4>5
    <3>2. Len(tasks') <= unpacked'
      BY <1>3, <1>9, <2>2
    <3>3. QED
      BY <2>2, <3>1, <3>2 DEF QueueFollowsWire
  <2>5. RequestsCrossed'
    BY <1>2, <1>9 DEF RequestsCrossed, S!NoRequest
  <2>6. ASSUME OneWorker, NEW i \in 1 .. Started'
        PROVE  \/ log[wire[i]].done
               \/ i = Started' /\ running'[w] = wire[i]
    <3>1. CASE i = Started + 1
      <4>1. wire[i] = Head(tasks)
        BY <1>3, <1>7, <2>2, <3>1
      <4>2. running'[w] = Head(tasks)
        BY <1>2, <2>1 DEF SP!TypeOK
      <4>3. QED
        BY <2>3, <3>1, <4>1, <4>2
    <3>2. CASE i \in 1 .. Started
      <4>1. \A v \in Workers : running[v] # wire[i]
        <5>1. i \in 1 .. unpacked
          BY <1>3, <3>2
        <5>2. wire[i] # Idle
          BY <1>6, <5>1, Assumed DEF SP!IdleAssumption
        <5>3. QED
          BY <2>1, <2>6, <5>2 DEF OneWorker
      <4>2. log[wire[i]].done
        BY <1>2, <2>6, <3>2, <4>1 DEF DoneInTurn
      <4>3. QED
        BY <4>2
    <3>3. QED
      BY <1>3, <2>3, <3>1, <3>2
  <2>7. DoneInTurn'
    BY <1>9, <2>1, <2>6 DEF DoneInTurn, OneWorker
  <2>8. QED
    BY <2>4, <2>5, <2>7 DEF TurnIInv
<1>10. CASE Deliver
  <2> DEFINE r == wire[unpacked + 1]
  <2>1. r \in Requests /\ wire' = wire /\ unpacked' = unpacked + 1
    BY <1>10, DeliverMoves DEF Deliver, clientVars
  <2>2. PICK f \in Names : SP!Unpack(r, KindOf(r), f)
    BY <1>10, UnpackMoves
  <2> HIDE DEF r
  <2>3. /\ request' = [request EXCEPT ![r] = [kind |-> KindOf(r), name |-> f]]
        /\ tasks' = Append(tasks, r) /\ log' = log /\ running' = running
    BY <2>2 DEF SP!Unpack
  <2>4. /\ Len(tasks') = Len(tasks) + 1 /\ tasks'[Len(tasks) + 1] = r
        /\ \A i \in 1 .. Len(tasks) : tasks'[i] = tasks[i]
        /\ DOMAIN tasks' = 1 .. Len(tasks) + 1
    BY <1>3, <2>1, <2>3
  <2>5. Started' = Started
    BY <1>3, <2>1, <2>4 DEF Started
  <2>6. QueueFollowsWire'
    <3>1. ASSUME NEW i \in 1 .. Len(tasks) + 1 PROVE tasks'[i] = wire'[Started' + i]
      <4>1. CASE i \in 1 .. Len(tasks)
        BY <1>7, <2>1, <2>4, <2>5, <4>1
      <4>2. CASE i = Len(tasks) + 1
        <5>1. Started' + i = unpacked + 1
          BY <1>3, <2>5, <4>2
        <5>2. QED
          BY <2>1, <2>4, <4>2, <5>1 DEF r
      <4>3. QED
        BY <1>3, <4>1, <4>2
    <3>2. Len(tasks') <= unpacked'
      BY <1>3, <2>1, <2>4
    <3>3. QED
      BY <2>4, <3>1, <3>2 DEF QueueFollowsWire
  <2>7. RequestsCrossed'
    <3>1. \A q \in Requests : q # r => request'[q] = request[q]
      BY <2>3
    <3>2. 1 .. unpacked \subseteq 1 .. unpacked' /\ unpacked + 1 \in 1 .. unpacked'
      BY <1>3, <2>1
    <3>3. QED
      BY <1>2, <2>1, <3>1, <3>2 DEF RequestsCrossed, S!NoRequest, r
  <2>8. DoneInTurn'
    BY <1>2, <2>1, <2>3, <2>5 DEF DoneInTurn, OneWorker
  <2>9. QED
    BY <2>6, <2>7, <2>8 DEF TurnIInv
<1>11. CASE SessionStep
  BY <1>2, <1>8, <1>9, <1>11, QueueMoves
<1>12. CASE ClientStep \/ Reply \/ Hangup \/ UNCHANGED vars
  BY <1>8, <1>12 DEF ClientStep, Reply, Hangup, sessionVars, vars
<1>13. QED
  BY <1>10, <1>11, <1>12 DEF Next

(* The connection between the parts, step by step. *)
LEMMA LinkStep ==
  ASSUME SystemIInv, CP!IInv', SP!IInv', [Next]_vars
  PROVE  LinkIInv'
<1>1. [CP!Next]_(CP!vars) /\ [SP!Next]_(SP!vars)
  BY PartsMove
<1>2. /\ CP!TypeOK /\ CP!TypeOK' /\ SP!TypeOK /\ SP!TypeOK'
      /\ Crossed /\ RequestsMade /\ AnswersOwn
  BY DEF SystemIInv, LinkIInv, CP!IInv, SP!IInv
<1>3. Crossed'
  <2>1. /\ Len(wire) \in Nat /\ Len(wire') \in Nat /\ Len(wire) <= Len(wire')
        /\ Len(written) \in Nat /\ Len(written') \in Nat
        /\ Len(written) <= Len(written')
    BY <1>1, <1>2, Assumed, CP!WireGrows, SP!WrittenGrows
  <2>2. /\ \/ unpacked' = unpacked
           \/ unpacked < Len(wire) /\ unpacked' = unpacked + 1
        /\ \/ received' = received
           \/ received < Len(written) /\ received' = received + 1
    <3>1. CASE Deliver
      BY <3>1 DEF Deliver
    <3>2. CASE Reply
      BY <3>2 DEF Reply
    <3>3. CASE UNCHANGED <<unpacked, received>>
      BY <3>3
    <3>4. QED
      BY <3>1, <3>2, <3>3 DEF Next, vars, ClientStep, SessionStep, Hangup
  <2>3. QED
    BY <1>2, <2>1, <2>2 DEF Crossed
<1>4. RequestsMade'
  <2>1. \A r \in Requests : stage[r] # "idle" => stage'[r] # "idle"
    <3>1. CP!Known \subseteq CP!Known'
      BY <1>1, <1>2, Assumed, CP!KnownGrows
    <3>2. QED
      BY <3>1 DEF CP!Known, CP!Requests, Requests
  <2>2. CASE UNCHANGED request
    BY <1>2, <2>1, <2>2 DEF RequestsMade, KindOf, S!NoRequest
  <2>3. CASE Deliver
    <3> DEFINE r == wire[unpacked + 1]
    <3>1. r \in Requests /\ stage[r] # "idle" /\ stage' = stage
      BY <2>3, DeliverMoves DEF Deliver, clientVars
    <3>2. PICK f \in Names : SP!Unpack(r, KindOf(r), f)
      BY <2>3, UnpackMoves
    <3> HIDE DEF r
    <3>3. request' = [request EXCEPT ![r] = [kind |-> KindOf(r), name |-> f]]
      BY <3>2 DEF SP!Unpack
    <3>4. /\ request'[r].kind = KindOf(r)
          /\ \A q \in Requests : q # r => request'[q] = request[q]
      BY <1>2, <3>1, <3>3 DEF SP!TypeOK
    <3>5. QED
      BY <1>2, <3>1, <3>4 DEF RequestsMade, KindOf, S!NoRequest
  <2>4. QED
    BY <2>2, <2>3, SessionMoves
       DEF Next, vars, ClientStep, Reply, Hangup, sessionVars
<1>5. AnswersOwn'
  <2>1. ASSUME NEW c \in Calls, answered[c] # "none"
        PROVE  Outcome(c)' = Outcome(c)
    <3>1. Outcome(c) # "none"
      BY <1>2, <2>1 DEF AnswersOwn
    <3>2. log[c].done
      BY <3>1 DEF Outcome
    <3>3. QED
      BY <1>1, <3>2, OutcomeKept DEF SystemIInv
  <2>2. CASE answered' = answered
    BY <1>2, <2>1, <2>2 DEF AnswersOwn
  <2>3. CASE Reply
    <3>1. PICK c \in Calls : /\ Outcome(c) \in {"value", "error"}
                             /\ CP!Answer(c, Outcome(c))
      BY <2>3, ReplyMoves
    <3>2. answered' = [answered EXCEPT ![c] = Outcome(c)]
      BY <3>1 DEF CP!Answer
    <3>3. UNCHANGED <<log, request, suppress_exceptions_>>
      BY <2>3 DEF Reply, sessionVars
    <3>4. \A d \in Calls : Outcome(d)' = Outcome(d)
      BY <3>3 DEF Outcome, S!Wanted
    <3>5. \A d \in Calls : answered'[d] = IF d = c THEN Outcome(c) ELSE answered[d]
      BY <1>2, <3>2 DEF CP!TypeOK
    <3>6. QED
      BY <1>2, <3>4, <3>5 DEF AnswersOwn
  <2>4. QED
    BY <2>2, <2>3, AnswersFromReply DEF Next, vars, clientVars
<1>6. QED
  BY <1>3, <1>4, <1>5, TurnStep DEF LinkIInv

LEMMA SystemStep ==
  ASSUME SystemIInv, [Next]_vars
  PROVE  SystemIInv'
<1>1. [CP!Next]_(CP!vars) /\ [SP!Next]_(SP!vars)
  BY PartsMove
<1>2. CP!IInv'
  BY <1>1, Assumed, CP!IInvStep DEF SystemIInv
<1>c. CP!CallIInv'
  BY <1>1, <1>2, Assumed, CP!CallIInvStep DEF SystemIInv
<1>3. SP!IInv'
  BY <1>1, Assumed, SP!IInvStep DEF SystemIInv
<1>4. SP!ResponseIInv'
  BY <1>1, <1>3, Assumed, SP!ResponseStep DEF SystemIInv
<1>5. LinkIInv'
  BY <1>2, <1>3, LinkStep
<1>6. QED
  BY <1>2, <1>c, <1>3, <1>4, <1>5 DEF SystemIInv

(* Every reachable state of the client and the session over their connection
   satisfies the inductive invariants of both and of what is between them. *)
THEOREM SystemInvariant == Spec => []SystemIInv
<1>1. SystemIInv /\ [Next]_vars => SystemIInv'
  BY SystemStep
<1>2. QED
  BY InitSystem, <1>1, PTL DEF Spec

(* What crosses the connection: requests that were made, once, and answers that
   are the outcomes of the calls' own functions. *)
THEOREM AnswersAreOutcomes == Spec => []LinkIInv
<1>1. SystemIInv => LinkIInv
  BY DEF SystemIInv
<1>2. QED
  BY <1>1, SystemInvariant, PTL

(* The client runs in the system as it does against any server, and the session
   as it does with any client: what is proved of Client and of SessionTask holds
   of the two together. *)
THEOREM PartsRunInSystem == Spec => CP!Spec /\ SP!Spec
<1>1. SystemIInv /\ [Next]_vars => [CP!Next]_(CP!vars) /\ [SP!Next]_(SP!vars)
  BY PartsMove
<1>2. QED
  BY InitSystem, SystemInvariant, <1>1, PTL DEF Spec, CP!Spec, SP!Spec

(* A call whose function has ended was taken from the queue, at the place where
   it stands on the wire. *)
LEMMA DoneWasStarted ==
  ASSUME SystemIInv, NEW c \in Calls, log[c].done
  PROVE  \E j \in 1 .. Started : j \in DOMAIN wire /\ wire[j] = c
<1>1. /\ CP!TypeOK /\ SP!TypeOK /\ SP!FreshOrQueued
      /\ Crossed /\ QueueFollowsWire /\ RequestsCrossed
  BY DEF SystemIInv, LinkIInv, TurnIInv, CP!IInv, SP!IInv
<1>2. c \in Requests
  BY DEF Requests
<1>3. wire \in Seq(Requests) /\ tasks \in Seq(Requests)
  BY <1>1 DEF CP!TypeOK, SP!TypeOK, CP!Requests, Requests
<1>4. /\ Len(tasks) \in Nat /\ unpacked \in Nat /\ Started \in Nat
      /\ Started + Len(tasks) = unpacked
      /\ 1 .. unpacked \subseteq DOMAIN wire
  BY <1>1, <1>3 DEF Crossed, QueueFollowsWire, Started
<1>5. log[c] # SP!NoLog
  BY DEF SP!NoLog
<1>6. request[c] # S!NoRequest
  BY <1>1, <1>2, <1>5 DEF SP!FreshOrQueued, S!NoRequest, SP!NoRequest
<1>7. PICK j \in 1 .. unpacked : wire[j] = c
  BY <1>1, <1>2, <1>6 DEF RequestsCrossed
<1>8. j \in 1 .. Started
  <2>1. SUFFICES ASSUME j \notin 1 .. Started PROVE FALSE
    OBVIOUS
  <2>2. j - Started \in 1 .. Len(tasks) /\ Started + (j - Started) = j
    BY <1>4, <2>1
  <2>3. j - Started \in DOMAIN tasks
    BY <1>3, <2>2
  <2>4. tasks[j - Started] = c
    BY <1>1, <1>7, <2>2, <2>3 DEF QueueFollowsWire
  <2>5. log[c] = SP!NoLog
    BY <1>1, <2>3, <2>4 DEF SP!FreshOrQueued
  <2>6. QED
    BY <1>5, <2>5
<1>9. QED
  BY <1>4, <1>7, <1>8

(* With one worker, the invariants tell NotifyThenCall: the notification is
   ahead of the call on the wire, the worker has taken both, the call last. *)
LEMMA TurnsTell ==
  ASSUME SystemIInv
  PROVE  NotifyThenCall
<1>1. SUFFICES ASSUME OneWorker, NEW n \in Notifies, NEW c \in Calls,
                      C!Precedes(posted, n, c), log[c].done,
                      ~(failures > 0), link # "broken"
               PROVE  log[n].done
  BY DEF NotifyThenCall
<1>2. /\ CP!IInv /\ CP!OrderIInv /\ CP!AheadIInv /\ CP!TypeOK
      /\ Crossed /\ QueueFollowsWire /\ DoneInTurn
  BY DEF SystemIInv, LinkIInv, TurnIInv, CP!CallIInv, CP!IInv
<1>3. PICK j \in 1 .. Started : j \in DOMAIN wire /\ wire[j] = c
  BY <1>1, DoneWasStarted
<1>4. failures = 0
  <2>1. failures \in Nat
    BY <1>2 DEF CP!TypeOK
  <2>2. QED
    BY <1>1, <2>1
<1>5. CP!Precedes(posted, n, c)
  BY <1>1 DEF C!Precedes, CP!Precedes
<1>6. PICK i \in DOMAIN wire : i < j /\ wire[i] = n
  BY <1>1, <1>2, <1>3, <1>4, <1>5, Assumed, CP!NotifiesAhead
<1>7. i \in 1 .. Started /\ i # Started
  <2>1. wire \in Seq(CP!Requests)
    BY <1>2 DEF CP!TypeOK
  <2>2. i \in Nat /\ 1 <= i
    BY <2>1
  <2>3. unpacked \in Nat /\ Len(tasks) \in Nat
    <3>1. tasks \in Seq(Requests)
      BY DEF SystemIInv, SP!IInv, SP!TypeOK
    <3>2. QED
      BY <1>2, <2>1, <3>1 DEF Crossed
  <2>4. Started \in Nat
    BY <1>2, <2>3 DEF Started, QueueFollowsWire
  <2>5. QED
    BY <1>3, <1>6, <2>2, <2>4
<1>8. QED
  BY <1>1, <1>2, <1>6, <1>7 DEF DoneInTurn

(* With one worker a call finds done what an earlier notification of its client
   asked for: the strand, the offline queue and the flush on connecting, the
   write queue, the session's reads and its io_context keep their order. *)
THEOREM NotificationsFirst == Spec => []NotifyThenCall
BY SystemInvariant, TurnsTell, PTL

-----------------------------------------------------------------------------
(* System implements RemoteCall. *)
(* A step of the client by itself is one of RemoteCall's, or not seen: a future
   it sets gets the server's answer, which is the outcome of the call. *)
LEMMA ClientRemote ==
  ASSUME SystemIInv, SystemIInv', ClientStep \/ Hangup
  PROVE  [Remote!CallNext]_(Remote!callVars)
<1>1. CP!Next /\ answered' = answered /\ UNCHANGED sessionVars
  BY ClientMoves, NetworkSteps, AnswersFromReply DEF ClientStep, Hangup
<1>2. /\ CP!IInv /\ CP!IInv' /\ AnswersOwn
  BY DEF SystemIInv, LinkIInv
<1>3. [CP!Remote!CallNext]_(CP!Remote!callVars)
  BY <1>1, <1>2, Assumed, CP!RemoteStep
<1>4. \A c \in Calls : Outcome(c)' = Outcome(c)
  BY <1>1 DEF Outcome, S!Wanted, sessionVars
<1>5. \A c : C!Result(c) = CP!Result(c) /\ C!Result(c)' = CP!Result(c)'
  BY DEF C!Result, CP!Result
<1>6. CASE \E c \in Calls : CP!Remote!Make(c)
  <2>1. \E c \in Calls : Remote!Make(c)
    BY <1>4, <1>5, <1>6 DEF CP!Remote!Make, Remote!Make
  <2>2. QED
    BY <2>1 DEF Remote!CallNext
<1>7. CASE CP!Remote!Resolve
  <2>1. \A c \in Calls : answered[c] # "none" => answered[c] = Outcome(c)
    BY <1>2 DEF AnswersOwn
  <2>2. Remote!Resolve
    BY <1>4, <1>5, <1>7, <2>1
       DEF CP!Remote!Resolve, Remote!Resolve, CP!Remote!Ends, Remote!Ends
  <2>3. QED
    BY <2>2 DEF Remote!CallNext
<1>8. CASE CP!Remote!Abandon
  <2>1. Remote!Abandon
    BY <1>4, <1>5, <1>8 DEF CP!Remote!Abandon, Remote!Abandon
  <2>2. QED
    BY <2>1 DEF Remote!CallNext
<1>9. CASE \/ \E c \in Calls, res \in CP!Remote!Ends : CP!Remote!Execute(c, res)
           \/ UNCHANGED CP!Remote!callVars
  <2>1. /\ {c \in Calls : stage'[c] # "idle"} = {c \in Calls : stage[c] # "idle"}
        /\ \A c \in Calls : CP!Result(c)' = CP!Result(c)
    BY <1>9 DEF CP!Remote!Execute, CP!Remote!callVars
  <2>2. UNCHANGED Remote!callVars
    BY <1>4, <1>5, <2>1 DEF Remote!callVars
  <2>3. QED
    BY <2>2
<1>10. QED
  BY <1>3, <1>6, <1>7, <1>8, <1>9 DEF CP!Remote!CallNext

(* A step of the session is the end of one call's function, for the first time,
   or not seen by the caller. *)
LEMMA SessionRemote ==
  ASSUME SystemIInv, SystemIInv', SessionStep
  PROVE  [Remote!CallNext]_(Remote!callVars)
<1>1. /\ stage' = stage /\ future' = future
      /\ [SP!Next]_(SP!vars) /\ SP!IInv /\ RequestsMade
  BY SessionMoves DEF SystemIInv, LinkIInv, SessionStep, clientVars
<1>2. /\ {c \in Calls : stage'[c] # "idle"} = {c \in Calls : stage[c] # "idle"}
      /\ \A c \in Calls : C!Result(c)' = C!Result(c)
  BY <1>1 DEF C!Result
<1>3. CASE \A c \in Calls : log'[c].done = log[c].done
  <2>1. \A c \in Calls : Outcome(c)' = Outcome(c)
    BY <1>1, <1>3, OutcomeKept
  <2>2. QED
    BY <1>2, <2>1 DEF Remote!callVars
<1>4. ASSUME NEW c \in Calls, ~log[c].done, log'[c].done,
             request[c] # SP!NoRequest,
             \A d \in Calls : d # c => log'[d].done = log[d].done
      PROVE  \E res \in Remote!Ends : Remote!Execute(c, res)
  <2>1. stage[c] # "idle"
    BY <1>1, <1>4 DEF RequestsMade, S!NoRequest, SP!NoRequest, Requests
  <2>2. Outcome(c) = "none" /\ Outcome(c)' \in Remote!Ends
    BY <1>4 DEF Outcome, Reads, Remote!Ends
  <2>3. \A d \in Calls : d # c => Outcome(d)' = Outcome(d)
    BY <1>1, <1>4, OutcomeKept
  <2>4. Remote!Execute(c, Outcome(c)')
    BY <1>2, <2>1, <2>2, <2>3 DEF Remote!Execute
  <2>5. QED
    BY <2>2, <2>4
<1>5. \/ \A c \in Calls : log'[c].done = log[c].done
      \/ \E c \in Calls :
           /\ ~log[c].done /\ log'[c].done /\ request[c] # SP!NoRequest
           /\ \A d \in Calls : d # c => log'[d].done = log[d].done
  <2>1. \/ \A m \in Requests : log'[m].done = log[m].done
        \/ \E m \in Requests :
             /\ ~log[m].done /\ log'[m].done /\ request[m] # SP!NoRequest
             /\ \A n \in Requests \ {m} : log'[n].done = log[n].done
    BY <1>1, Assumed, SP!DoneOnce
  <2>2. QED
    BY <2>1 DEF Requests
<1>6. QED
  BY <1>3, <1>4, <1>5 DEF Remote!CallNext

(* What crosses the connection is not seen by the caller. *)
LEMMA CrossingRemote ==
  ASSUME SystemIInv, Deliver \/ Reply \/ UNCHANGED vars
  PROVE  UNCHANGED Remote!callVars
<1>1. stage' = stage /\ future' = future
  BY DEF Deliver, Reply, C!Answer, C!userVars, clientVars, vars
<1>2. \A c \in Calls : Outcome(c)' = Outcome(c)
  <2>1. CASE Deliver
    <3>1. log' = log
      BY <2>1, UnpackMoves DEF SP!Unpack
    <3>2. [SP!Next]_(SP!vars) /\ SP!IInv
      BY <2>1, PartsMove DEF SystemIInv, Next
    <3>3. QED
      BY <3>1, <3>2, OutcomeKept
  <2>2. CASE Reply \/ UNCHANGED vars
    BY <2>2 DEF Reply, sessionVars, vars, Outcome, S!Wanted
  <2>3. QED
    BY <2>1, <2>2
<1>3. QED
  BY <1>1, <1>2 DEF Remote!callVars, C!Result

LEMMA InitRemote == Init => Remote!CallInit
<1> SUFFICES ASSUME Init PROVE Remote!CallInit
  OBVIOUS
<1>1. \A c \in Calls : stage[c] = "idle" /\ C!Result(c) = "none"
  BY DEF Init, C!Init, C!Result, C!NoFuture, C!Requests
<1>2. \A c \in Calls : Outcome(c) = "none"
  BY DEF Init, S!Init, S!NoLog, Outcome, Requests
<1>3. QED
  BY <1>1, <1>2 DEF Remote!CallInit

(* Client, connection and session keep the promise of RemoteCall: a function ends
   at most once for its call and only for one that was made, and the call's
   future is set once, to the outcome of that function, or is broken. *)
THEOREM SystemImplementsRemoteCall == Spec => ImplementsRemoteCall
<1>1. SystemIInv /\ SystemIInv' /\ [Next]_vars
        => [Remote!CallNext]_(Remote!callVars)
  BY ClientRemote, SessionRemote, CrossingRemote DEF Next
<1>2. QED
  BY InitRemote, SystemInvariant, <1>1, PTL
     DEF Spec, ImplementsRemoteCall, Remote!CallSpec

=============================================================================
