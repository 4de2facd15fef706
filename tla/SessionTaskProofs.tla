------------------------- MODULE SessionTaskProofs -------------------------
(* Proofs about SessionTask, for any workers, messages and functions. *)
EXTENDS SessionTask, SequenceTheorems, TLAPS

USE DEF locals, place

Resps == [empty : BOOLEAN, id : Messages, err : Errors, res : Results]
Logs  == [done : BOOLEAN, ran : BOOLEAN, ending : Endings, enabled : BOOLEAN,
          exit : BOOLEAN, stop : BOOLEAN]

(* A sequence over a set is one over any larger set. *)
LEMMA SeqGrows ==
  ASSUME NEW S, NEW T, S \subseteq T, NEW s \in Seq(S)
  PROVE  s \in Seq(T)
<1>1. \A i \in 1 .. Len(s) : s[i] \in T
  OBVIOUS
<1>2. s \in [1 .. Len(s) -> T] /\ Len(s) \in Nat
  BY <1>1
<1>3. QED
  BY <1>2

LEMMA ConcatIn ==
  ASSUME NEW S, NEW s \in Seq(S), NEW t \in Seq(S)
  PROVE  s \o t \in Seq(S)
OBVIOUS

(* dispatch() returns a response to its message or throws. *)
LEMMA DispatchType ==
  ASSUME NEW kind \in Kinds, NEW m \in Messages, NEW bound \in BOOLEAN,
         NEW ending \in Endings, NEW suppress \in BOOLEAN
  PROVE  LET r == dispatch(kind, m, bound, ending, suppress)
         IN  r = Thrown(m) \/ (r \in Resps /\ r.id = m)
<1>1. LET r == dispatch_call(m, bound, ending, suppress)
      IN  r = Thrown(m) \/ (r \in Resps /\ r.id = m)
  BY DEF dispatch_call, Endings, make_error, make_result, Response, Resps,
         Errors, Results
<1>2. LET r == dispatch_notification(m, bound, ending, suppress)
      IN  r = Thrown(m) \/ (r \in Resps /\ r.id = m)
  BY DEF dispatch_notification, empty_response, Response, Resps, Errors, Results
<1>3. empty_response(m) \in Resps /\ empty_response(m).id = m
  BY DEF empty_response, Response, Resps, Errors, Results
<1>4. QED
  BY <1>1, <1>2, <1>3 DEF dispatch, Kinds

(* What the precedence of errors and special responses picks is a response
   to the same message. *)
LEMMA PrecedenceType ==
  ASSUME NEW r \in Resps, NEW e \in BOOLEAN, NEW s \in BOOLEAN
  PROVE  Precedence(r, e, s) \in Resps /\ Precedence(r, e, s).id = r.id
BY DEF Precedence, capture_error, capture_result, Resps, Errors, Results

(* The strand tasks that a message may post, the closes among them only if it
   asked. *)
Legal == {e \in StrandTasks : e.op # "write" => Asked(e.id, e.op)}

Handlers == [error_ : BOOLEAN, resp_ : BOOLEAN, resp_enabled_ : BOOLEAN]

(* What a message's task posts: tasks of that message, and each close only if
   the worker's flag asks for it and the response is enabled. *)
LEMMA PostsType ==
  ASSUME NEW w \in Workers, NEW m \in Messages, NEW r \in Resps,
         NEW h \in Handlers, NEW z \in [error_ : Nat, resp_ : Nat],
         NEW S, S \subseteq StrandTasks,
         \A e \in StrandTasks : e.op = "write" => e \in S,
         h.resp_enabled_ /\ exit_[w]
           => \A e \in StrandTasks : e.op = "close" /\ e.id = m => e \in S,
         h.resp_enabled_ /\ stopping_[w]
           => \A e \in StrandTasks : e.op = "close_sessions" /\ e.id = m => e \in S
  PROVE  Posts(w, m, r, h, z) \in Seq(S)
<1> DEFINE ref == IF h.error_ THEN Ref(w, "error_", z.error_)
                  ELSE IF h.resp_ THEN Ref(w, "resp_", z.resp_)
                  ELSE Own
<1>1. ref \in Refs
  BY DEF Ref, Own, Refs
<1>2. Precedence(r, h.error_, h.resp_) \in Resps
  BY PrecedenceType DEF Handlers
<1>3. WriteTask(Precedence(r, h.error_, h.resp_), ref) \in StrandTasks
  BY <1>1, <1>2 DEF WriteTask, StrandTasks, Resps
<1>4. WriteTask(Precedence(r, h.error_, h.resp_), ref) \in S
  BY <1>3 DEF WriteTask
<1>5. WriteOf(w, r, h, z) \in Seq(S)
  BY <1>4 DEF WriteOf
<1>6. empty_response(m) \in Resps /\ Own \in Refs
  BY DEF empty_response, Response, Resps, Errors, Results, Own, Refs
<1>7. \A op \in CloseOps :
        /\ CloseTask(op, m) \in StrandTasks
        /\ CloseTask(op, m).id = m /\ CloseTask(op, m).op = op
  BY <1>6 DEF CloseTask, StrandTasks, Resps
<1>8. ASSUME h.resp_enabled_
      PROVE  ExitOf(w, m) \in Seq(S) /\ StopOf(w, m) \in Seq(S)
  <2>1. ExitOf(w, m) \in Seq(S)
    BY <1>7, <1>8 DEF ExitOf, CloseOps
  <2>2. StopOf(w, m) \in Seq(S)
    BY <1>7, <1>8 DEF StopOf, CloseOps
  <2>3. QED
    BY <2>1, <2>2
<1>9. CASE h.resp_enabled_
  BY <1>5, <1>8, <1>9 DEF Posts
<1>10. CASE ~h.resp_enabled_
  BY <1>10 DEF Posts
<1>11. QED
  BY <1>9, <1>10

(* What Finish makes of the handler, the log and the strand. *)
LEMMA FinishFacts ==
  ASSUME TypeOK, FreshOrQueued, NEW w \in Workers, NEW ending \in Endings,
         Finish(w, ending)
  PROVE  LET m == running[w] IN
         /\ m \in Messages
         /\ this_handler' \in [Workers -> Handlers]
         /\ zones' \in [Workers -> [error_ : Nat, resp_ : Nat]]
         /\ terminated' \in BOOLEAN
         /\ log' = [log EXCEPT ![m].done = TRUE, ![m].ran = Bound(m),
                              ![m].ending = ending]
         /\ this_handler'[w].resp_enabled_ = this_handler[w].resp_enabled_
         /\ \/ UNCHANGED write_strand
            \/ \E r \in Resps :
                 /\ r.id = m
                 /\ write_strand' = write_strand \o
                                    Posts(w, m, r, this_handler'[w], zones'[w])
<1> DEFINE m == running[w]
           err == Bound(m) /\ ending = "respond_error"
           spec == Bound(m) /\ ending = "respond"
           h == [this_handler[w] EXCEPT !.error_ = @ \/ err, !.resp_ = @ \/ spec]
           z == [zones[w] EXCEPT !.error_ = IF err THEN @ + 1 ELSE @,
                                 !.resp_ = IF spec THEN @ + 1 ELSE @]
           r == dispatch(request[m].kind, m, Bound(m), ending,
                         suppress_exceptions_)
<1>1. /\ this_handler' = [this_handler EXCEPT ![w] = h]
      /\ zones' = [zones EXCEPT ![w] = z]
      /\ log' = [log EXCEPT ![m].done = TRUE, ![m].ran = Bound(m),
                              ![m].ending = ending]
      /\ \/ terminated' = TRUE /\ UNCHANGED write_strand
         \/ /\ r # Thrown(m)
            /\ write_strand' = write_strand \o Posts(w, m, r, h, z)
            /\ UNCHANGED terminated
      /\ m # Idle
  BY DEF Finish
<1>2. m \in Messages /\ Bound(m) \in BOOLEAN
  BY <1>1 DEF TypeOK, Bound
<1>3. /\ this_handler[w] \in Handlers
      /\ zones[w] \in [error_ : Nat, resp_ : Nat]
  BY DEF TypeOK, Handlers
<1>4. h \in Handlers /\ h.resp_enabled_ = this_handler[w].resp_enabled_
  BY <1>2, <1>3 DEF Handlers
<1>5. z \in [error_ : Nat, resp_ : Nat]
  <2>1. zones[w].error_ \in Nat /\ zones[w].resp_ \in Nat
    BY <1>3
  <2>2. /\ (IF err THEN zones[w].error_ + 1 ELSE zones[w].error_) \in Nat
        /\ (IF spec THEN zones[w].resp_ + 1 ELSE zones[w].resp_) \in Nat
    BY <2>1
  <2>3. QED
    BY <1>3, <2>2
<1>6. /\ this_handler' \in [Workers -> Handlers] /\ this_handler'[w] = h
      /\ zones' \in [Workers -> [error_ : Nat, resp_ : Nat]] /\ zones'[w] = z
  BY <1>1, <1>4, <1>5 DEF TypeOK, Handlers
<1>7. r # Thrown(m) => r \in Resps /\ r.id = m
  <2>1. request[m].kind \in Kinds
    BY <1>2 DEF TypeOK, FreshOrQueued
  <2>2. suppress_exceptions_ \in BOOLEAN
    BY DEF TypeOK
  <2>3. QED
    BY <1>2, <2>1, <2>2, DispatchType
<1>8. \/ UNCHANGED write_strand
      \/ \E q \in Resps :
           /\ q.id = m
           /\ write_strand' = write_strand \o Posts(w, m, q, this_handler'[w], zones'[w])
  <2> HIDE DEF r, h, z
  <2>1. QED
    BY <1>1, <1>6, <1>7
<1>9. terminated' \in BOOLEAN
  BY <1>1 DEF TypeOK
<1>10. QED
  <2> HIDE DEF r, h, z
  <2>1. QED
    BY <1>1, <1>2, <1>4, <1>6, <1>8, <1>9

(* Every variable keeps its type. *)
LEMMA TypeStep ==
  ASSUME TypeOK, FreshOrQueued, [Next]_vars
  PROVE  TypeOK'
<1>1. CASE \E f \in Names : Bind(f) \/ Unbind(f)
  BY <1>1 DEF Bind, Unbind, Rebind, TypeOK
<1>2. ASSUME NEW m \in Messages, NEW kind \in Kinds, NEW f \in Names,
             Unpack(m, kind, f)
      PROVE  TypeOK'
  <2>1. tasks' \in Seq(Messages)
    BY <1>2 DEF Unpack, TypeOK
  <2>2. request' \in [Messages -> [kind : Kinds, name : Names] \cup {NoRequest}]
    BY <1>2 DEF Unpack, TypeOK
  <2>3. QED
    BY <1>2, <2>1, <2>2 DEF Unpack, TypeOK
<1>3. ASSUME NEW w \in Workers, Take(w) PROVE TypeOK'
  <2>1. tasks' \in Seq(Messages) /\ Head(tasks) \in Messages
    BY <1>3 DEF Take, TypeOK
  <2>2. /\ running' \in [Workers -> Messages \cup {Idle}]
        /\ exit_' \in [Workers -> BOOLEAN] /\ stopping_' \in [Workers -> BOOLEAN]
    BY <1>3, <2>1 DEF Take, TypeOK
  <2>3. this_handler' \in [Workers -> Handlers]
    BY <1>3 DEF Take, TypeOK, Cleared, Handlers
  <2>4. QED
    BY <1>3, <2>1, <2>2, <2>3 DEF Take, TypeOK, Handlers
<1>4. ASSUME NEW w \in Workers, NEW b \in BOOLEAN, EnableResponse(w, b)
      PROVE  TypeOK'
  <2>1. this_handler' \in [Workers -> Handlers]
    BY ZenonT(30), <1>4 DEF EnableResponse, TypeOK, Handlers
  <2>2. log' \in [Messages -> Logs]
    BY <1>4 DEF EnableResponse, TypeOK, Logs
  <2>3. QED
    BY <1>4, <2>1, <2>2 DEF EnableResponse, TypeOK, Handlers, Logs
<1>5. ASSUME NEW w \in Workers, PostExit(w) \/ StopServer(w) PROVE TypeOK'
  <2>1. log' \in [Messages -> Logs]
    <3>1. /\ running[w] \in Messages
          /\ \/ log' = [log EXCEPT ![running[w]].exit = TRUE]
             \/ log' = [log EXCEPT ![running[w]].stop = TRUE]
      BY <1>5 DEF PostExit, StopServer, InFunction, TypeOK
    <3>2. /\ [log EXCEPT ![running[w]].exit = TRUE] \in [Messages -> Logs]
          /\ [log EXCEPT ![running[w]].stop = TRUE] \in [Messages -> Logs]
      <4>1. log \in [Messages -> Logs]
        BY DEF TypeOK, Logs
      <4>2. [log EXCEPT ![running[w]].exit = TRUE] \in [Messages -> Logs]
        BY <3>1, <4>1 DEF Logs
      <4>3. [log EXCEPT ![running[w]].stop = TRUE] \in [Messages -> Logs]
        BY <3>1, <4>1 DEF Logs
      <4>4. QED
        BY <4>2, <4>3
    <3>3. QED
      BY <3>1, <3>2
  <2>2. exit_' \in [Workers -> BOOLEAN] /\ stopping_' \in [Workers -> BOOLEAN]
    BY <1>5 DEF PostExit, StopServer, TypeOK
  <2>3. QED
    BY <1>5, <2>1, <2>2 DEF PostExit, StopServer, TypeOK, Logs
<1>6. ASSUME NEW w \in Workers, NEW ending \in Endings, Finish(w, ending)
      PROVE  TypeOK'
  <2> DEFINE m == running[w]
  <2>1. /\ m \in Messages
        /\ this_handler' \in [Workers -> Handlers]
        /\ zones' \in [Workers -> [error_ : Nat, resp_ : Nat]]
        /\ terminated' \in BOOLEAN
        /\ log' = [log EXCEPT ![m].done = TRUE, ![m].ran = Bound(m),
                              ![m].ending = ending]
    BY <1>6, FinishFacts
  <2>2. log' \in [Messages -> Logs]
    <3>1. log[m] \in Logs /\ Bound(m) \in BOOLEAN
      BY <2>1 DEF TypeOK, Logs, Bound
    <3>2. [log[m] EXCEPT !.done = TRUE, !.ran = Bound(m), !.ending = ending] \in Logs
      BY <3>1 DEF Logs
    <3>3. log' = [log EXCEPT ![m] =
                    [log[m] EXCEPT !.done = TRUE, !.ran = Bound(m), !.ending = ending]]
      BY <2>1, <3>1 DEF TypeOK, Logs
    <3>4. QED
      BY <2>1, <3>2, <3>3 DEF TypeOK, Logs
  <2>3. write_strand' \in Seq(StrandTasks)
    <3>1. \/ UNCHANGED write_strand
          \/ \E r \in Resps :
               write_strand' = write_strand \o
                               Posts(w, m, r, this_handler'[w], zones'[w])
      BY <1>6, FinishFacts
    <3>2. \A r \in Resps :
            Posts(w, m, r, this_handler'[w], zones'[w]) \in Seq(StrandTasks)
      BY <2>1, PostsType
    <3>3. write_strand \in Seq(StrandTasks)
      BY DEF TypeOK
    <3>4. CASE UNCHANGED write_strand
      BY <3>3, <3>4
    <3>5. CASE ~UNCHANGED write_strand
      <4>1. PICK r \in Resps :
              write_strand' = write_strand \o
                              Posts(w, m, r, this_handler'[w], zones'[w])
        BY <3>1, <3>5
      <4>2. QED
        BY <3>2, <3>3, <4>1, ConcatIn
    <3>6. QED
      BY <3>4, <3>5
  <2>4. running' \in [Workers -> Messages \cup {Idle}]
    BY <1>6 DEF Finish, TypeOK
  <2>5. UNCHANGED <<funcs_, suppress_exceptions_, request, tasks, exit_, stopping_,
                 written, closed, place>>
    BY <1>6 DEF Finish
  <2>6. QED
    BY <2>1, <2>2, <2>3, <2>4, <2>5 DEF TypeOK, Handlers, Logs
<1>7. CASE RunWrite \/ RunClose \/ RunCloseSessions
  <2>1. /\ write_strand # <<>> /\ write_strand' = Tail(write_strand)
        /\ UNCHANGED <<funcs_, suppress_exceptions_, request, tasks, running,
                       locals, terminated, log>>
    BY <1>7 DEF RunWrite, RunClose, RunCloseSessions, RunStrand
  <2>2. write_strand' \in Seq(StrandTasks) /\ Head(write_strand) \in StrandTasks
    BY <2>1 DEF TypeOK
  <2>3. written' \in Seq(StrandTasks) /\ closed' \in BOOLEAN
    <3>1. CASE RunWrite
      <4>1. written' = written \/ written' = Append(written, Head(write_strand))
        BY <3>1 DEF RunWrite
      <4>2. written \in Seq(StrandTasks) /\ closed' = closed
        BY <3>1 DEF RunWrite, TypeOK
      <4>3. Append(written, Head(write_strand)) \in Seq(StrandTasks)
        BY <2>2, <4>2
      <4>4. QED
        BY <4>1, <4>2, <4>3 DEF TypeOK
    <3>2. CASE RunClose \/ RunCloseSessions
      BY <3>2 DEF RunClose, RunCloseSessions, Close, CloseListed, TypeOK
    <3>3. QED
      BY <1>7, <3>1, <3>2
  <2>4. /\ starter' \in Workers \cup {Idle} /\ listed' \in BOOLEAN
        /\ closer' \in {"nobody", "function", "client", "server"}
    BY <1>7
       DEF RunWrite, RunClose, RunCloseSessions, Close, CloseListed, TypeOK
  <2>5. QED
    BY <2>1, <2>2, <2>3, <2>4 DEF TypeOK
<1>8. CASE Push
  BY <1>8 DEF Push, TypeOK
<1>9. CASE CloseSessions \/ OnEof
  BY <1>9 DEF CloseSessions, OnEof, Close, CloseListed, TypeOK
<1>10. CASE UNCHANGED vars
  BY <1>10 DEF vars, TypeOK
<1>11. QED
  BY <1>1, <1>2, <1>3, <1>4, <1>5, <1>6, <1>7, <1>8, <1>9, <1>10 DEF Next, Work

(* A message goes from the client through the queue to one worker. *)
LEMMA PlaceStep ==
  ASSUME TypeOK, FreshOrQueued, RunByOne, [Next]_vars
  PROVE  FreshOrQueued' /\ RunByOne'
<1>1. CASE UNCHANGED <<request, tasks, running, log>>
  BY <1>1 DEF FreshOrQueued, RunByOne
<1>2. ASSUME NEW m \in Messages, NEW kind \in Kinds, NEW f \in Names,
             Unpack(m, kind, f)
      PROVE  FreshOrQueued' /\ RunByOne'
  <2>1. /\ request[m] = NoRequest /\ tasks' = Append(tasks, m)
        /\ request' = [request EXCEPT ![m] = [kind |-> kind, name |-> f]]
        /\ UNCHANGED <<running, log>>
    BY <1>2 DEF Unpack
  <2>2. \A r \in Messages :
          request'[r] = NoRequest => r # m /\ request[r] = NoRequest
    BY <2>1 DEF TypeOK, NoRequest, Kinds
  <2>3. tasks \in Seq(Messages)
    BY DEF TypeOK
  <2>4. /\ DOMAIN tasks' = 1 .. Len(tasks) + 1
        /\ tasks'[Len(tasks) + 1] = m
        /\ \A i \in DOMAIN tasks : tasks'[i] = tasks[i]
        /\ DOMAIN tasks = 1 .. Len(tasks)
    BY <2>1, <2>3
  <2>5. log[m] = NoLog /\ (\A i \in DOMAIN tasks : tasks[i] # m)
          /\ \A w \in Workers : running[w] # m
    BY <2>1 DEF FreshOrQueued
  <2>6. \A i \in DOMAIN tasks' : i \in DOMAIN tasks \/ i = Len(tasks) + 1
    BY <2>3, <2>4
  <2>7. FreshOrQueued'
    <3>1. \A r \in Messages :
            request'[r] = NoRequest
              => /\ log'[r] = NoLog
                 /\ \A i \in DOMAIN tasks' : tasks'[i] # r
                 /\ \A w \in Workers : running'[w] # r
      BY <2>1, <2>2, <2>4, <2>6 DEF FreshOrQueued
    <3>2. \A i \in DOMAIN tasks' :
            /\ log'[tasks'[i]] = NoLog
            /\ \A j \in DOMAIN tasks' : tasks'[i] = tasks'[j] => i = j
            /\ \A w \in Workers : running'[w] # tasks'[i]
      BY <2>1, <2>4, <2>5, <2>6 DEF FreshOrQueued
    <3>3. QED
      BY <3>1, <3>2 DEF FreshOrQueued
  <2>8. QED
    BY <2>1, <2>7 DEF RunByOne
<1>3. ASSUME NEW w \in Workers, Take(w) PROVE FreshOrQueued' /\ RunByOne'
  <2> DEFINE m == Head(tasks)
  <2>1. /\ tasks # <<>> /\ tasks' = Tail(tasks) /\ running[w] = Idle
        /\ running' = [running EXCEPT ![w] = m] /\ UNCHANGED <<request, log>>
    BY <1>3 DEF Take, Free
  <2>2. tasks \in Seq(Messages)
    BY DEF TypeOK
  <2>3. /\ 1 \in DOMAIN tasks /\ m = tasks[1]
        /\ \A i \in DOMAIN tasks' :
             i \in Nat \ {0} /\ i + 1 \in DOMAIN tasks /\ tasks'[i] = tasks[i + 1]
    BY <2>1, <2>2
  <2>4. m \in Messages /\ log[m] = NoLog /\ request[m] # NoRequest
          /\ \A v \in Workers : running[v] # m
    BY <2>2, <2>3 DEF FreshOrQueued
  <2>5. running'[w] = m /\ \A v \in Workers : v # w => running'[v] = running[v]
    BY <2>1 DEF TypeOK
  <2>6. \A i \in DOMAIN tasks' : tasks'[i] # m
    BY <2>3 DEF FreshOrQueued
  <2>7. FreshOrQueued'
    <3>1. \A r \in Messages :
            request'[r] = NoRequest
              => /\ log'[r] = NoLog
                 /\ \A i \in DOMAIN tasks' : tasks'[i] # r
                 /\ \A v \in Workers : running'[v] # r
      BY <2>1, <2>3, <2>4, <2>5 DEF FreshOrQueued
    <3>2. \A i \in DOMAIN tasks' :
            /\ log'[tasks'[i]] = NoLog
            /\ \A j \in DOMAIN tasks' : tasks'[i] = tasks'[j] => i = j
            /\ \A v \in Workers : running'[v] # tasks'[i]
      BY <2>1, <2>3, <2>5, <2>6 DEF FreshOrQueued
    <3>3. QED
      BY <3>1, <3>2 DEF FreshOrQueued
  <2>8. RunByOne'
    BY <2>1, <2>4, <2>5 DEF RunByOne, NoLog
  <2>9. QED
    BY <2>7, <2>8
<1>4. ASSUME NEW w \in Workers, running[w] \in Messages,
             UNCHANGED <<request, tasks>>,
             running' = running \/ running' = [running EXCEPT ![w] = Idle],
             \A r \in Messages : r # running[w] => log'[r] = log[r],
             running' = running
               => log'[running[w]].done = log[running[w]].done
      PROVE  FreshOrQueued' /\ RunByOne'
  <2>1. \A v \in Workers : running'[v] \in {running[v], Idle}
    BY <1>4 DEF TypeOK
  <2>2. Idle \notin Messages
    BY IdleAssumption
  <2>3. request[running[w]] # NoRequest /\ \A i \in DOMAIN tasks : tasks[i] # running[w]
    BY <1>4 DEF FreshOrQueued
  <2>4. \A i \in DOMAIN tasks : tasks[i] \in Messages
    BY DEF TypeOK
  <2>5. FreshOrQueued'
    BY <1>4, <2>1, <2>2, <2>3, <2>4 DEF FreshOrQueued
  <2>6. RunByOne'
    <3>1. CASE running' = running
      BY ZenonT(30), <1>4, <3>1 DEF RunByOne, TypeOK
    <3>2. CASE running' = [running EXCEPT ![w] = Idle]
      BY <1>4, <3>2, <2>2 DEF RunByOne, TypeOK
    <3>3. QED
      BY <1>4, <3>1, <3>2
  <2>7. QED
    BY <2>5, <2>6
<1>5. ASSUME NEW w \in Workers, NEW b \in BOOLEAN, EnableResponse(w, b)
      PROVE  FreshOrQueued' /\ RunByOne'
  BY <1>4, <1>5 DEF EnableResponse, InFunction, TypeOK
<1>6. ASSUME NEW w \in Workers, PostExit(w) \/ StopServer(w)
      PROVE  FreshOrQueued' /\ RunByOne'
  <2>1. /\ running[w] \in Messages /\ UNCHANGED <<request, tasks, running>>
        /\ \/ log' = [log EXCEPT ![running[w]].exit = TRUE]
           \/ log' = [log EXCEPT ![running[w]].stop = TRUE]
    BY <1>6 DEF PostExit, StopServer, InFunction, TypeOK
  <2>2. /\ \A r \in Messages : r # running[w] => log'[r] = log[r]
        /\ log'[running[w]].done = log[running[w]].done
    BY <2>1 DEF TypeOK
  <2>3. QED
    BY <1>4, <2>1, <2>2
<1>7. ASSUME NEW w \in Workers, NEW ending \in Endings, Finish(w, ending)
      PROVE  FreshOrQueued' /\ RunByOne'
  <2>1. /\ running[w] \in Messages
        /\ log' = [log EXCEPT ![running[w]].done = TRUE,
                              ![running[w]].ran = Bound(running[w]),
                              ![running[w]].ending = ending]
    BY <1>7, FinishFacts
  <2>2. /\ UNCHANGED <<request, tasks>>
        /\ running' = [running EXCEPT ![w] = Idle] /\ running[w] # Idle
    BY <1>7 DEF Finish
  <2>3. running' # running
    BY <2>2 DEF TypeOK
  <2>4. \A r \in Messages : r # running[w] => log'[r] = log[r]
    BY <2>1 DEF TypeOK
  <2>5. QED
    BY <1>4, <2>1, <2>2, <2>3, <2>4
<1>8. CASE \/ \E f \in Names : Bind(f) \/ Unbind(f)
           \/ RunWrite \/ RunClose \/ RunCloseSessions
           \/ Push \/ CloseSessions \/ OnEof \/ UNCHANGED vars
  BY <1>1, <1>8
     DEF Bind, Unbind, Rebind, RunWrite, RunClose, RunCloseSessions, RunStrand,
         Push, CloseSessions, OnEof, vars
<1>9. QED
  BY <1>2, <1>3, <1>5, <1>6, <1>7, <1>8 DEF Next, Work

(* The thread-locals of a worker and what its message asked for. *)
LEMMA LocalsStep ==
  ASSUME TypeOK, FreshOrQueued, RunByOne, LocalsTell, [Next]_vars
  PROVE  LocalsTell'
<1>1. CASE UNCHANGED <<running, log, locals>>
  BY <1>1 DEF LocalsTell
<1>2. ASSUME NEW w \in Workers, Take(w) PROVE LocalsTell'
  <2>1. /\ tasks # <<>> /\ running' = [running EXCEPT ![w] = Head(tasks)]
        /\ this_handler' = [this_handler EXCEPT ![w] = Cleared]
        /\ exit_' = [exit_ EXCEPT ![w] = FALSE]
        /\ stopping_' = [stopping_ EXCEPT ![w] = FALSE] /\ log' = log
    BY <1>2 DEF Take
  <2>2. /\ running'[w] = Head(tasks) /\ this_handler'[w] = Cleared
        /\ ~exit_'[w] /\ ~stopping_'[w]
        /\ \A v \in Workers : v # w =>
             /\ running'[v] = running[v] /\ this_handler'[v] = this_handler[v]
             /\ exit_'[v] = exit_[v] /\ stopping_'[v] = stopping_[v]
    BY <2>1 DEF TypeOK
  <2>3. log[Head(tasks)] = NoLog
    <3>1. 1 \in DOMAIN tasks /\ Head(tasks) = tasks[1]
      BY <2>1 DEF TypeOK
    <3>2. QED
      BY <3>1 DEF FreshOrQueued
  <2>4. /\ log'[running'[w]].enabled = TRUE
        /\ this_handler'[w].resp_enabled_ = TRUE
    BY <2>1, <2>2, <2>3 DEF NoLog, Cleared
  <2>5. SUFFICES ASSUME NEW v \in Workers, running'[v] # Idle
                 PROVE  /\ log'[running'[v]].enabled = this_handler'[v].resp_enabled_
                        /\ exit_'[v] => log'[running'[v]].exit
                        /\ stopping_'[v] => log'[running'[v]].stop
    BY DEF LocalsTell
  <2>6. CASE v = w
    BY <2>2, <2>4, <2>6
  <2>7. CASE v # w
    BY <2>1, <2>2, <2>5, <2>7 DEF LocalsTell
  <2>8. QED
    BY <2>6, <2>7
<1>3. ASSUME NEW w \in Workers, NEW b \in BOOLEAN, EnableResponse(w, b)
      PROVE  LocalsTell'
  <2>1. /\ running[w] \in Messages
        /\ this_handler' = [this_handler EXCEPT ![w].resp_enabled_ = b]
        /\ log' = [log EXCEPT ![running[w]].enabled = b]
        /\ UNCHANGED <<running, exit_, stopping_>>
    BY <1>3 DEF EnableResponse, InFunction, TypeOK
  <2>2. /\ this_handler'[w].resp_enabled_ = b
        /\ log'[running[w]].enabled = b
        /\ log'[running[w]].exit = log[running[w]].exit
        /\ log'[running[w]].stop = log[running[w]].stop
        /\ \A v \in Workers : v # w => this_handler'[v] = this_handler[v]
        /\ \A r \in Messages : r # running[w] => log'[r] = log[r]
    BY <2>1 DEF TypeOK
  <2>3. QED
    BY <2>1, <2>2 DEF LocalsTell, RunByOne, TypeOK
<1>4. ASSUME NEW w \in Workers, running[w] \in Messages,
             UNCHANGED <<running, this_handler>>,
             \A v \in Workers : v # w => exit_'[v] = exit_[v] /\ stopping_'[v] = stopping_[v],
             \A r \in Messages : r # running[w] => log'[r] = log[r],
             log'[running[w]].enabled = log[running[w]].enabled,
             exit_'[w] => log'[running[w]].exit,
             stopping_'[w] => log'[running[w]].stop
      PROVE  LocalsTell'
  <2>1. SUFFICES ASSUME NEW v \in Workers, running[v] # Idle
                 PROVE  /\ log'[running[v]].enabled = this_handler[v].resp_enabled_
                        /\ exit_'[v] => log'[running[v]].exit
                        /\ stopping_'[v] => log'[running[v]].stop
    BY <1>4 DEF LocalsTell
  <2>2. /\ log[running[v]].enabled = this_handler[v].resp_enabled_
        /\ exit_[v] => log[running[v]].exit
        /\ stopping_[v] => log[running[v]].stop
    BY <2>1 DEF LocalsTell
  <2>3. CASE v = w
    BY <1>4, <2>2, <2>3
  <2>4. CASE v # w
    <3>1. running[v] \in Messages /\ running[v] # running[w]
      BY <1>4, <2>1, <2>4, IdleAssumption DEF RunByOne, TypeOK
    <3>2. log'[running[v]] = log[running[v]]
      BY <1>4, <3>1
    <3>3. QED
      BY <1>4, <2>2, <2>4, <3>2
  <2>5. QED
    BY <2>3, <2>4
<1>5. ASSUME NEW w \in Workers, PostExit(w) PROVE LocalsTell'
  <2>1. /\ running[w] \in Messages /\ running[w] # Idle
        /\ log' = [log EXCEPT ![running[w]].exit = TRUE]
        /\ UNCHANGED <<running, this_handler, stopping_>>
    BY <1>5 DEF PostExit, InFunction, TypeOK
  <2>2. \A v \in Workers : v # w => exit_'[v] = exit_[v]
    BY <1>5 DEF PostExit, TypeOK
  <2>3. /\ log'[running[w]].exit
        /\ log'[running[w]].enabled = log[running[w]].enabled
        /\ log'[running[w]].stop = log[running[w]].stop
        /\ \A r \in Messages : r # running[w] => log'[r] = log[r]
    BY <2>1 DEF TypeOK
  <2>4. stopping_[w] => log[running[w]].stop
    BY <2>1 DEF LocalsTell
  <2>5. QED
    BY <1>4, <2>1, <2>2, <2>3, <2>4
<1>6. ASSUME NEW w \in Workers, StopServer(w) PROVE LocalsTell'
  <2>1. /\ running[w] \in Messages /\ running[w] # Idle
        /\ log' = [log EXCEPT ![running[w]].stop = TRUE]
        /\ UNCHANGED <<running, this_handler, exit_>>
    BY <1>6 DEF StopServer, InFunction, TypeOK
  <2>2. \A v \in Workers : v # w => stopping_'[v] = stopping_[v]
    BY <1>6 DEF StopServer, TypeOK
  <2>3. /\ log'[running[w]].stop
        /\ log'[running[w]].enabled = log[running[w]].enabled
        /\ log'[running[w]].exit = log[running[w]].exit
        /\ \A r \in Messages : r # running[w] => log'[r] = log[r]
    BY <2>1 DEF TypeOK
  <2>4. exit_[w] => log[running[w]].exit
    BY <2>1 DEF LocalsTell
  <2>5. QED
    BY <1>4, <2>1, <2>2, <2>3, <2>4
<1>7. ASSUME NEW w \in Workers, NEW ending \in Endings, Finish(w, ending)
      PROVE  LocalsTell'
  <2>1. /\ running[w] \in Messages
        /\ log' = [log EXCEPT ![running[w]].done = TRUE,
                              ![running[w]].ran = Bound(running[w]),
                              ![running[w]].ending = ending]
    BY <1>7, FinishFacts
  <2>2. /\ running' = [running EXCEPT ![w] = Idle] /\ UNCHANGED <<exit_, stopping_>>
        /\ \A v \in Workers : v # w => this_handler'[v] = this_handler[v]
    BY <1>7 DEF Finish, TypeOK
  <2>3. \A r \in Messages : r # running[w] => log'[r] = log[r]
    BY <2>1 DEF TypeOK
  <2>4. /\ running'[w] = Idle
        /\ \A v \in Workers : v # w => running'[v] = running[v]
    BY <2>2 DEF TypeOK
  <2>5. \A v \in Workers : v # w /\ running[v] # Idle =>
          running[v] \in Messages /\ running[v] # running[w]
    BY <2>1, IdleAssumption DEF RunByOne, TypeOK
  <2>6. QED
    BY <2>2, <2>3, <2>4, <2>5 DEF LocalsTell
<1>8. CASE \/ \E f \in Names : Bind(f) \/ Unbind(f)
           \/ \E m \in Messages, kind \in Kinds, f \in Names : Unpack(m, kind, f)
           \/ RunWrite \/ RunClose \/ RunCloseSessions
           \/ Push \/ CloseSessions \/ OnEof \/ UNCHANGED vars
  BY <1>1, <1>8
     DEF Bind, Unbind, Rebind, Unpack, RunWrite, RunClose, RunCloseSessions,
         RunStrand, Push, CloseSessions, OnEof, vars
<1>9. QED
  BY <1>2, <1>3, <1>5, <1>6, <1>7, <1>8 DEF Next, Work

(* A sequence with its elements in a set is a sequence over that set. *)
LEMMA SeqWithin ==
  ASSUME NEW T, NEW S, NEW s \in Seq(T)
  PROVE  s \in Seq(S) <=> \A i \in DOMAIN s : s[i] \in S
<1>1. s \in [1 .. Len(s) -> T] /\ Len(s) \in Nat /\ DOMAIN s = 1 .. Len(s)
  OBVIOUS
<1>2. ASSUME \A i \in DOMAIN s : s[i] \in S
      PROVE  s \in Seq(S)
  <2>1. s \in [1 .. Len(s) -> S]
    BY <1>1, <1>2
  <2>2. QED
    BY <1>1, <2>1
<1>3. s \in Seq(S) => \A i \in DOMAIN s : s[i] \in S
  OBVIOUS
<1>4. QED
  BY <1>2, <1>3

(* A session that its functions closed, or are about to, was asked to. *)
LEMMA AskedStep ==
  ASSUME TypeOK, TypeOK', FreshOrQueued, RunByOne, LocalsTell,
         ClosesAreAsked, [Next]_vars
  PROVE  ClosesAreAsked'
<1>1. /\ closer = "function" => \E m \in Messages, op \in CloseOps : Asked(m, op)
      /\ write_strand \in Seq(Legal)
  <2>1. write_strand \in Seq(StrandTasks)
    BY DEF TypeOK
  <2>2. \A i \in DOMAIN write_strand : write_strand[i] \in Legal
    BY <2>1 DEF ClosesAreAsked, Legal
  <2>3. QED
    BY <2>1, <2>2, SeqWithin DEF ClosesAreAsked
<1>2. SUFFICES /\ closer' = "function" =>
                    \E m \in Messages, op \in CloseOps : Asked(m, op)'
               /\ write_strand' \in Seq(Legal')
  <2>1. write_strand' \in Seq(StrandTasks)
    BY DEF TypeOK
  <2>2. \A i \in DOMAIN write_strand' : write_strand'[i] \in Legal'
    BY <1>2, <2>1, SeqWithin
  <2>3. QED
    BY <1>2, <2>2 DEF ClosesAreAsked, Legal
<1>3. \A m \in Messages, op \in CloseOps : Asked(m, op) => Asked(m, op)'
  <2>1. CASE log' = log
    BY <2>1 DEF Asked
  <2>2. ASSUME NEW w \in Workers, running[w] \in Messages,
               \A r \in Messages : r # running[w] => log'[r] = log[r]
        PROVE  \A m \in Messages, op \in CloseOps : Asked(m, op) => Asked(m, op)'
    <3>1. \A op \in CloseOps : ~Asked(running[w], op)
      BY <2>2, IdleAssumption DEF RunByOne, Asked
    <3>2. QED
      BY <2>2, <3>1 DEF Asked
  <2>3. ASSUME NEW w \in Workers, NEW b \in BOOLEAN, EnableResponse(w, b)
        PROVE  \A m \in Messages, op \in CloseOps : Asked(m, op) => Asked(m, op)'
    BY <2>2, <2>3 DEF EnableResponse, InFunction, TypeOK
  <2>4. ASSUME NEW w \in Workers, PostExit(w) \/ StopServer(w)
        PROVE  \A m \in Messages, op \in CloseOps : Asked(m, op) => Asked(m, op)'
    BY <2>2, <2>4 DEF PostExit, StopServer, InFunction, TypeOK
  <2>5. ASSUME NEW w \in Workers, NEW ending \in Endings, Finish(w, ending)
        PROVE  \A m \in Messages, op \in CloseOps : Asked(m, op) => Asked(m, op)'
    <3>1. /\ running[w] \in Messages
          /\ log' = [log EXCEPT ![running[w]].done = TRUE,
                                ![running[w]].ran = Bound(running[w]),
                                ![running[w]].ending = ending]
      BY <2>5, FinishFacts
    <3>2. QED
      BY <2>2, <3>1 DEF TypeOK
  <2>6. QED
    BY <2>1, <2>3, <2>4, <2>5
       DEF Next, Work, Bind, Unbind, Rebind, Unpack, Take, RunWrite, RunClose,
           RunCloseSessions, RunStrand, Push, CloseSessions, OnEof, vars
<1>4. Legal \subseteq Legal'
  BY <1>3 DEF Legal, StrandTasks, CloseOps
<1>5. write_strand \in Seq(Legal')
  BY <1>1, <1>4, SeqGrows
<1>6. ASSUME UNCHANGED write_strand, closer' \in {closer, "client", "server"}
      PROVE  /\ closer' = "function" =>
                  \E m \in Messages, op \in CloseOps : Asked(m, op)'
             /\ write_strand' \in Seq(Legal')
  BY <1>1, <1>3, <1>5, <1>6
<1>7. ASSUME NEW w \in Workers, NEW ending \in Endings, Finish(w, ending)
      PROVE  /\ closer' = "function" =>
                  \E m \in Messages, op \in CloseOps : Asked(m, op)'
             /\ write_strand' \in Seq(Legal')
  <2>0. PICK m \in Messages : m = running[w]
    BY <1>7, FinishFacts
  <2>1. /\ this_handler' \in [Workers -> Handlers]
        /\ zones' \in [Workers -> [error_ : Nat, resp_ : Nat]]
        /\ log' = [log EXCEPT ![m].done = TRUE, ![m].ran = Bound(m),
                              ![m].ending = ending]
        /\ this_handler'[w].resp_enabled_ = this_handler[w].resp_enabled_
    BY <1>7, <2>0, FinishFacts
  <2>2. /\ log'[m].done /\ log'[m].enabled = log[m].enabled
        /\ log'[m].exit = log[m].exit /\ log'[m].stop = log[m].stop
    BY <2>1 DEF TypeOK
  <2>3. /\ this_handler'[w].resp_enabled_ /\ exit_[w] => Asked(m, "close")'
        /\ this_handler'[w].resp_enabled_ /\ stopping_[w]
             => Asked(m, "close_sessions")'
    <3>1. m # Idle
      BY IdleAssumption
    <3>2. /\ log[m].enabled = this_handler[w].resp_enabled_
          /\ exit_[w] => log[m].exit
          /\ stopping_[w] => log[m].stop
      BY <2>0, <3>1 DEF LocalsTell
    <3>3. QED
      BY <2>1, <2>2, <3>2 DEF Asked
  <2>4. \A r \in Resps : Posts(w, m, r, this_handler'[w], zones'[w]) \in Seq(Legal')
    <3>1. Legal' \subseteq StrandTasks /\ \A e \in StrandTasks : e.op = "write" => e \in Legal'
      BY DEF Legal
    <3>2. /\ this_handler'[w].resp_enabled_ /\ exit_[w]
               => \A e \in StrandTasks : e.op = "close" /\ e.id = m => e \in Legal'
          /\ this_handler'[w].resp_enabled_ /\ stopping_[w]
               => \A e \in StrandTasks :
                    e.op = "close_sessions" /\ e.id = m => e \in Legal'
      BY <2>3 DEF Legal
    <3>3. QED
      BY <2>1, <3>1, <3>2, PostsType
  <2>5. \/ UNCHANGED write_strand
        \/ \E r \in Resps :
             write_strand' = write_strand \o
                             Posts(w, m, r, this_handler'[w], zones'[w])
    BY <1>7, <2>0, FinishFacts
  <2>6. write_strand' \in Seq(Legal')
    <3>1. CASE UNCHANGED write_strand
      BY <1>5, <3>1
    <3>2. CASE ~UNCHANGED write_strand
      <4>1. PICK r \in Resps :
              write_strand' = write_strand \o
                              Posts(w, m, r, this_handler'[w], zones'[w])
        BY <2>5, <3>2
      <4>2. QED
        BY <1>5, <2>4, <4>1, ConcatIn
    <3>3. QED
      BY <3>1, <3>2
  <2>7. closer' = closer
    BY <1>7 DEF Finish
  <2>8. QED
    BY <1>1, <1>3, <2>6, <2>7
<1>8. CASE RunWrite \/ RunClose \/ RunCloseSessions
  <2>1. write_strand # <<>> /\ write_strand' = Tail(write_strand)
    BY <1>8 DEF RunWrite, RunClose, RunCloseSessions, RunStrand
  <2>2. write_strand' \in Seq(Legal')
    BY <1>5, <2>1
  <2>3. CASE RunClose \/ RunCloseSessions
    <3>1. Head(write_strand).op \in CloseOps /\ Head(write_strand) \in Legal
      BY <1>1, <2>1, <2>3 DEF RunClose, RunCloseSessions, RunStrand, CloseOps
    <3>2. Asked(Head(write_strand).id, Head(write_strand).op)
            /\ Head(write_strand).id \in Messages
      BY <3>1 DEF Legal, StrandTasks, CloseOps
    <3>3. PICK m \in Messages, op \in CloseOps : Asked(m, op)
      BY <3>1, <3>2
    <3>4. Asked(m, op)'
      BY <1>3, <3>3
    <3>5. QED
      BY <2>2, <3>4
  <2>4. CASE RunWrite
    BY <1>1, <1>3, <2>2, <2>4 DEF RunWrite
  <2>5. QED
    BY <1>8, <2>3, <2>4
<1>9. CASE Push \/ CloseSessions \/ OnEof
  BY <1>6, <1>9 DEF Push, CloseSessions, OnEof, Close, CloseListed
<1>10. CASE \/ \E f \in Names : Bind(f) \/ Unbind(f)
            \/ \E m \in Messages, kind \in Kinds, f \in Names : Unpack(m, kind, f)
            \/ \E w \in Workers : Take(w)
            \/ \E w \in Workers, b \in BOOLEAN : EnableResponse(w, b)
            \/ \E w \in Workers : PostExit(w) \/ StopServer(w)
            \/ UNCHANGED vars
  BY <1>6, <1>10
     DEF Bind, Unbind, Rebind, Unpack, Take, EnableResponse, PostExit,
         StopServer, vars
<1>11. QED
  BY <1>7, <1>8, <1>9, <1>10 DEF Next, Work

(* The order that WriteBeforeClose asks for, of any sequence of strand tasks. *)
Ordered(s) ==
  \A i, j \in DOMAIN s :
    s[i].op # "write" /\ s[j].op = "write" /\ s[j].id = s[i].id => j < i

LEMMA WritesFirst ==
  ASSUME NEW T, NEW s \in Seq(T), NEW t \in Seq(T),
         \A i \in DOMAIN s : s[i].op = "write",
         \A i \in DOMAIN t : t[i].op # "write"
  PROVE  Ordered(s \o t)
<1>1. /\ s \o t \in Seq(T) /\ DOMAIN (s \o t) = 1 .. Len(s) + Len(t)
      /\ DOMAIN s = 1 .. Len(s) /\ DOMAIN t = 1 .. Len(t)
      /\ Len(s) \in Nat /\ Len(t) \in Nat
  OBVIOUS
<1>2. \A i \in DOMAIN (s \o t) :
        /\ i <= Len(s) => (s \o t)[i] = s[i]
        /\ i > Len(s) => (s \o t)[i] = t[i - Len(s)]
  OBVIOUS
<1>3. \A i \in DOMAIN (s \o t) : (s \o t)[i].op = "write" <=> i <= Len(s)
  BY <1>1, <1>2
<1>4. QED
  BY <1>1, <1>3 DEF Ordered

LEMMA OrderedConcat ==
  ASSUME NEW T, NEW s \in Seq(T), NEW t \in Seq(T), Ordered(s), Ordered(t),
         \A i \in DOMAIN s, j \in DOMAIN t : s[i].id # t[j].id
  PROVE  Ordered(s \o t)
<1>1. /\ DOMAIN (s \o t) = 1 .. Len(s) + Len(t)
      /\ DOMAIN s = 1 .. Len(s) /\ DOMAIN t = 1 .. Len(t)
      /\ Len(s) \in Nat /\ Len(t) \in Nat
  OBVIOUS
<1>2. \A i \in DOMAIN (s \o t) :
        \/ i \in DOMAIN s /\ (s \o t)[i] = s[i]
        \/ i - Len(s) \in DOMAIN t /\ (s \o t)[i] = t[i - Len(s)]
  OBVIOUS
<1>3. QED
  BY <1>1, <1>2 DEF Ordered

LEMMA OrderedTail ==
  ASSUME NEW T, NEW s \in Seq(T), s # <<>>, Ordered(s)
  PROVE  Ordered(Tail(s))
<1>1. /\ DOMAIN Tail(s) = 1 .. Len(s) - 1 /\ DOMAIN s = 1 .. Len(s)
      /\ Len(s) \in Nat /\ \A i \in DOMAIN Tail(s) : Tail(s)[i] = s[i + 1]
  OBVIOUS
<1>2. QED
  BY <1>1 DEF Ordered

LEMMA AtMostOne ==
  ASSUME NEW S, NEW s, s = <<>> \/ \E e \in S : s = <<e>>
  PROVE  s \in Seq(S) /\ \A i \in DOMAIN s : s[i] \in S
<1>1. CASE s = <<>>
  BY <1>1
<1>2. ASSUME NEW e \in S, s = <<e>> PROVE s \in Seq(S)
  BY <1>2
<1>3. s \in Seq(S)
  BY <1>1, <1>2
<1>4. QED
  BY <1>3

(* A message's task posts its response ahead of the closes it asks for, and
   nothing in the name of another message. *)
LEMMA PostsOrdered ==
  ASSUME NEW w \in Workers, NEW m \in Messages, NEW r \in Resps, r.id = m,
         NEW h \in Handlers, NEW z \in [error_ : Nat, resp_ : Nat]
  PROVE  /\ Posts(w, m, r, h, z) \in Seq(StrandTasks)
         /\ Ordered(Posts(w, m, r, h, z))
         /\ \A i \in DOMAIN Posts(w, m, r, h, z) : Posts(w, m, r, h, z)[i].id = m
<1> DEFINE Mine == {e \in StrandTasks : e.id = m}
           ref == IF h.error_ THEN Ref(w, "error_", z.error_)
                  ELSE IF h.resp_ THEN Ref(w, "resp_", z.resp_)
                  ELSE Own
           write == WriteTask(Precedence(r, h.error_, h.resp_), ref)
           W == WriteOf(w, r, h, z)
           E == ExitOf(w, m) \o StopOf(w, m)
<1>1. write \in Mine /\ write.op = "write"
  <2>1. ref \in Refs
    BY DEF Ref, Own, Refs
  <2>2. Precedence(r, h.error_, h.resp_) \in Resps
          /\ Precedence(r, h.error_, h.resp_).id = m
    BY PrecedenceType DEF Handlers
  <2>3. QED
    BY <2>1, <2>2 DEF WriteTask, StrandTasks, Resps
<1>2. W \in Seq(Mine) /\ \A i \in DOMAIN W : W[i].op = "write"
  <2> DEFINE Writes == {e \in Mine : e.op = "write"}
  <2>1. W = <<>> \/ W = <<write>>
    BY DEF WriteOf
  <2>2. write \in Writes
    BY <1>1
  <2> HIDE DEF W, write
  <2>3. W \in Seq(Writes) /\ \A i \in DOMAIN W : W[i] \in Writes
    BY <2>1, <2>2, AtMostOne
  <2>4. Writes \subseteq Mine
    OBVIOUS
  <2>5. QED
    BY <2>3, <2>4, SeqGrows
<1>3. \A op \in CloseOps :
        CloseTask(op, m) \in Mine /\ CloseTask(op, m).op # "write"
  <2>1. empty_response(m) \in Resps /\ Own \in Refs
    BY DEF empty_response, Response, Resps, Errors, Results, Own, Refs
  <2>2. QED
    BY <2>1 DEF CloseTask, StrandTasks, CloseOps, Resps
<1>4. /\ ExitOf(w, m) \in Seq(Mine) /\ StopOf(w, m) \in Seq(Mine)
      /\ E \in Seq(Mine) /\ \A i \in DOMAIN E : E[i].op # "write"
  <2> DEFINE Closes == {e \in Mine : e.op # "write"}
  <2>1. /\ CloseTask("close", m) \in Closes
        /\ CloseTask("close_sessions", m) \in Closes
    BY <1>3 DEF CloseOps
  <2>2. ExitOf(w, m) \in Seq(Closes)
    <3>1. ExitOf(w, m) = <<>> \/ ExitOf(w, m) = <<CloseTask("close", m)>>
      BY DEF ExitOf
    <3> HIDE DEF Closes
    <3>2. QED
      BY <2>1, <3>1, AtMostOne
  <2>3. StopOf(w, m) \in Seq(Closes)
    <3>1. StopOf(w, m) = <<>> \/ StopOf(w, m) = <<CloseTask("close_sessions", m)>>
      BY DEF StopOf
    <3> HIDE DEF Closes
    <3>2. QED
      BY <2>1, <3>1, AtMostOne
  <2>4. E \in Seq(Closes) /\ \A i \in DOMAIN E : E[i] \in Closes
    <3> HIDE DEF Closes
    <3>1. E \in Seq(Closes)
      BY <2>2, <2>3, ConcatIn
    <3> HIDE DEF E
    <3>2. QED
      BY <3>1
  <2>5. Closes \subseteq Mine
    OBVIOUS
  <2>6. /\ ExitOf(w, m) \in Seq(Mine) /\ StopOf(w, m) \in Seq(Mine)
        /\ E \in Seq(Mine)
    <3> HIDE DEF Closes, E, Mine
    <3>1. QED
      BY <2>2, <2>3, <2>4, <2>5, SeqGrows
  <2>7. QED
    BY <2>4, <2>6
<1>5. Ordered(W \o E) /\ W \o E \in Seq(Mine)
  <2> HIDE DEF W, E, Mine
  <2>1. QED
    BY <1>2, <1>4, WritesFirst, ConcatIn
<1>6. Posts(w, m, r, h, z) = <<>> \/ Posts(w, m, r, h, z) = W \o E
  <2>1. (W \o ExitOf(w, m)) \o StopOf(w, m) = W \o E
    BY <1>2, <1>4, SMTT(30)
  <2>2. QED
    BY <2>1 DEF Posts
<1>7. <<>> \in Seq(Mine) /\ Ordered(<<>>)
  BY DEF Ordered
<1>8. Posts(w, m, r, h, z) \in Seq(Mine) /\ Ordered(Posts(w, m, r, h, z))
  <2> HIDE DEF W, E, Mine
  <2>1. QED
    BY <1>5, <1>6, <1>7
<1>9. Mine \subseteq StrandTasks /\ \A e \in Mine : e.id = m
  OBVIOUS
<1>10. \A i \in DOMAIN Posts(w, m, r, h, z) : Posts(w, m, r, h, z)[i] \in Mine
  <2> HIDE DEF Mine
  <2>1. QED
    BY <1>8
<1>11. QED
  <2> HIDE DEF Mine
  <2>1. QED
    BY <1>8, <1>9, <1>10, SeqGrows

(* The strand keeps each response ahead of the closes of its message. *)
LEMMA OrderStep ==
  ASSUME TypeOK, FreshOrQueued, RunByOne, StrandOfDone, WriteBeforeClose,
         [Next]_vars
  PROVE  StrandOfDone' /\ WriteBeforeClose'
<1>1. WriteBeforeClose <=> Ordered(write_strand)
  BY DEF WriteBeforeClose, ResponsesTo, Ordered
<1>2. WriteBeforeClose' <=> Ordered(write_strand')
  BY DEF WriteBeforeClose, ResponsesTo, Ordered
<1>3. write_strand \in Seq(StrandTasks) /\ \A i \in DOMAIN write_strand :
        write_strand[i].id \in Messages
  <2>1. write_strand \in Seq(StrandTasks)
    BY DEF TypeOK
  <2>2. \A i \in DOMAIN write_strand : write_strand[i] \in StrandTasks
    BY <2>1
  <2>3. \A e \in StrandTasks : e.id \in Messages
    BY DEF StrandTasks
  <2>4. QED
    BY <2>1, <2>2, <2>3
<1>4. ASSUME UNCHANGED write_strand, \A m \in Messages : log[m].done => log'[m].done
      PROVE  StrandOfDone' /\ WriteBeforeClose'
  BY <1>1, <1>2, <1>3, <1>4 DEF StrandOfDone
<1>5. ASSUME NEW w \in Workers, NEW b \in BOOLEAN, EnableResponse(w, b)
      PROVE  StrandOfDone' /\ WriteBeforeClose'
  BY <1>4, <1>5 DEF EnableResponse, TypeOK
<1>6. ASSUME NEW w \in Workers, PostExit(w) \/ StopServer(w)
      PROVE  StrandOfDone' /\ WriteBeforeClose'
  <2>1. /\ \/ log' = [log EXCEPT ![running[w]].exit = TRUE]
           \/ log' = [log EXCEPT ![running[w]].stop = TRUE]
        /\ running[w] \in Messages /\ UNCHANGED write_strand
    BY <1>6 DEF PostExit, StopServer, InFunction, TypeOK
  <2>2. \A m \in Messages : log'[m].done = log[m].done
    <3>1. CASE log' = [log EXCEPT ![running[w]].exit = TRUE]
      BY <2>1, <3>1 DEF TypeOK
    <3>2. CASE log' = [log EXCEPT ![running[w]].stop = TRUE]
      BY <2>1, <3>2 DEF TypeOK
    <3>3. QED
      BY <2>1, <3>1, <3>2
  <2>3. QED
    BY <1>4, <2>1, <2>2
<1>7. ASSUME NEW w \in Workers, NEW ending \in Endings, Finish(w, ending)
      PROVE  StrandOfDone' /\ WriteBeforeClose'
  <2>0. PICK m \in Messages : m = running[w]
    BY <1>7, FinishFacts
  <2>1. /\ this_handler' \in [Workers -> Handlers]
        /\ zones' \in [Workers -> [error_ : Nat, resp_ : Nat]]
        /\ log' = [log EXCEPT ![m].done = TRUE, ![m].ran = Bound(m),
                              ![m].ending = ending]
        /\ \/ UNCHANGED write_strand
           \/ \E r \in Resps :
                /\ r.id = m
                /\ write_strand' = write_strand \o
                                   Posts(w, m, r, this_handler'[w], zones'[w])
    BY <1>7, <2>0, FinishFacts
  <2>2. log'[m].done /\ \A l \in Messages : log[l].done => log'[l].done
    BY <2>1 DEF TypeOK
  <2>3. CASE UNCHANGED write_strand
    BY <1>4, <2>2, <2>3
  <2>4. ASSUME NEW r \in Resps, r.id = m,
               write_strand' = write_strand \o
                               Posts(w, m, r, this_handler'[w], zones'[w])
        PROVE  StrandOfDone' /\ WriteBeforeClose'
    <3> DEFINE p == Posts(w, m, r, this_handler'[w], zones'[w])
    <3>1. p \in Seq(StrandTasks) /\ Ordered(p) /\ \A i \in DOMAIN p : p[i].id = m
      BY <2>1, <2>4, PostsOrdered
    <3>2. ~log[m].done
      BY <2>0, IdleAssumption DEF RunByOne
    <3> HIDE DEF p
    <3>3. \A i \in DOMAIN write_strand, j \in DOMAIN p : write_strand[i].id # p[j].id
      BY <3>1, <3>2 DEF StrandOfDone
    <3>4. Ordered(write_strand')
      BY <1>1, <1>3, <2>4, <3>1, <3>3, OrderedConcat DEF p
    <3>5. \A i \in DOMAIN write_strand' :
            \/ i \in DOMAIN write_strand /\ write_strand'[i] = write_strand[i]
            \/ write_strand'[i].id = m
      <4>1. write_strand' = write_strand \o p
        BY <2>4 DEF p
      <4>2. \A i \in DOMAIN (write_strand \o p) :
              \/ i \in DOMAIN write_strand /\ (write_strand \o p)[i] = write_strand[i]
              \/ i - Len(write_strand) \in DOMAIN p
                 /\ (write_strand \o p)[i] = p[i - Len(write_strand)]
        BY <1>3, <3>1
      <4>3. QED
        BY <3>1, <4>1, <4>2
    <3>6. StrandOfDone'
      BY <1>3, <2>2, <3>5 DEF StrandOfDone
    <3>7. QED
      BY <1>2, <3>4, <3>6
  <2>5. QED
    BY <2>1, <2>3, <2>4
<1>8. CASE RunWrite \/ RunClose \/ RunCloseSessions
  <2>1. /\ write_strand # <<>> /\ write_strand' = Tail(write_strand)
        /\ UNCHANGED log
    BY <1>8 DEF RunWrite, RunClose, RunCloseSessions, RunStrand
  <2>2. \A i \in DOMAIN write_strand' :
          i + 1 \in DOMAIN write_strand /\ write_strand'[i] = write_strand[i + 1]
    BY <1>3, <2>1
  <2>3. QED
    BY <1>1, <1>2, <1>3, <2>1, <2>2, OrderedTail DEF StrandOfDone
<1>9. CASE \/ \E f \in Names : Bind(f) \/ Unbind(f)
           \/ \E m \in Messages, kind \in Kinds, f \in Names : Unpack(m, kind, f)
           \/ \E w \in Workers : Take(w)
           \/ Push \/ CloseSessions \/ OnEof \/ UNCHANGED vars
  BY <1>4, <1>9
     DEF Bind, Unbind, Rebind, Unpack, Take, Push, CloseSessions, OnEof, vars
<1>10. QED
  BY <1>5, <1>6, <1>7, <1>8, <1>9 DEF Next, Work

(* Before the first message nothing was asked. *)
LEMMA InitIInv == Init => IInv
<1> SUFFICES ASSUME Init PROVE IInv
  OBVIOUS
<1>1. TypeOK
  <2>1. /\ tasks \in Seq(Messages) /\ write_strand \in Seq(StrandTasks)
        /\ written \in Seq(StrandTasks)
    BY DEF Init
  <2>2. log \in [Messages -> Logs]
    BY DEF Init, NoLog, Logs, Endings
  <2>3. this_handler \in [Workers -> Handlers]
    BY DEF Init, Cleared, Handlers
  <2>4. zones \in [Workers -> [error_ : Nat, resp_ : Nat]]
    BY DEF Init
  <2>5. QED
    BY <2>1, <2>2, <2>3, <2>4 DEF Init, TypeOK, Logs, Handlers
<1>2. FreshOrQueued
  BY IdleAssumption DEF Init, FreshOrQueued
<1>3. RunByOne /\ LocalsTell /\ ClosesAreAsked
  BY DEF Init, RunByOne, LocalsTell, ClosesAreAsked
<1>4. StrandOfDone /\ WriteBeforeClose
  BY DEF Init, StrandOfDone, WriteBeforeClose
<1>5. QED
  BY <1>1, <1>2, <1>3, <1>4 DEF IInv

LEMMA IInvStep == IInv /\ [Next]_vars => IInv'
BY TypeStep, PlaceStep, LocalsStep, AskedStep, OrderStep DEF IInv

(* Every reachable state of the session satisfies the inductive invariant. *)
THEOREM SessionInvariant == Spec => []IInv
BY InitIInv, IInvStep, PTL DEF Spec

(* Whatever else closes the session, for any number of workers and messages:
   each close that its functions post to the strand was asked for by the very
   function it is posted for, one that kept its response enabled, and a session
   that such a close closed had a function that asked.  The thread-local exit_
   and stopping_ of one message never close the session for another
   (server_session.cpp:69-74 and 104-118). *)
THEOREM ClosesAskedFor == Spec => []ClosesAreAsked
<1>1. IInv => ClosesAreAsked
  BY DEF IInv
<1>2. QED
  BY <1>1, SessionInvariant, PTL

(* A close that a function asked for never overtakes that function's response,
   for any number of workers and messages: other messages' tasks come between
   them in any order and change nothing about it
   (server_session.cpp:97-118). *)
THEOREM ResponseBeforeClose == Spec => []WriteBeforeClose
<1>1. IInv => WriteBeforeClose
  BY DEF IInv
<1>2. QED
  BY <1>1, SessionInvariant, PTL

=============================================================================
