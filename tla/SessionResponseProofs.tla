------------------------ MODULE SessionResponseProofs ------------------------
(* The responses of SessionTask: each message gets the one that its own        *)
(* function asked for.  For any workers, messages and functions.               *)
EXTENDS SessionTaskProofs, FiniteSetTheorems

USE DEF locals, place

-----------------------------------------------------------------------------
(* Lemmas about sequences: the parts of a concatenation and where the responses
   to a message are in it. *)
LEMMA PartsOf ==
  ASSUME NEW T, NEW s \in Seq(T), NEW t \in Seq(T)
  PROVE  /\ s \o t \in Seq(T) /\ DOMAIN (s \o t) = 1 .. Len(s) + Len(t)
         /\ Len(s) \in Nat /\ Len(t) \in Nat
         /\ DOMAIN s = 1 .. Len(s) /\ DOMAIN t = 1 .. Len(t)
         /\ \A i \in DOMAIN s : i \in DOMAIN (s \o t) /\ (s \o t)[i] = s[i]
         /\ \A i \in DOMAIN t : /\ Len(s) + i \in DOMAIN (s \o t)
                                /\ (s \o t)[Len(s) + i] = t[i]
         /\ \A i \in DOMAIN (s \o t) :
              \/ i \in DOMAIN s
              \/ i - Len(s) \in DOMAIN t /\ i = Len(s) + (i - Len(s))
OBVIOUS

LEMMA ResponsesOfParts ==
  ASSUME NEW T, NEW s \in Seq(T), NEW t \in Seq(T), NEW m
  PROVE  ResponsesTo(s \o t, m)
           = ResponsesTo(s, m) \cup {Len(s) + i : i \in ResponsesTo(t, m)}
<1> DEFINE u == s \o t
<1>1. /\ DOMAIN u = 1 .. Len(s) + Len(t)
      /\ \A i \in DOMAIN s : i \in DOMAIN u /\ u[i] = s[i]
      /\ \A i \in DOMAIN t : Len(s) + i \in DOMAIN u /\ u[Len(s) + i] = t[i]
      /\ \A i \in DOMAIN u :
           \/ i \in DOMAIN s
           \/ i - Len(s) \in DOMAIN t /\ i = Len(s) + (i - Len(s))
  BY SMTT(30), PartsOf
<1> HIDE DEF u
<1>2. ASSUME NEW i \in ResponsesTo(u, m)
      PROVE  i \in ResponsesTo(s, m) \cup {Len(s) + j : j \in ResponsesTo(t, m)}
  <2>1. i \in DOMAIN u /\ u[i].op = "write" /\ u[i].id = m
    BY <1>2 DEF ResponsesTo
  <2>2. CASE i \in DOMAIN s
    BY <1>1, <2>1, <2>2 DEF ResponsesTo
  <2>3. CASE i - Len(s) \in DOMAIN t /\ i = Len(s) + (i - Len(s))
    <3>1. i - Len(s) \in ResponsesTo(t, m)
      BY <1>1, <2>1, <2>3 DEF ResponsesTo
    <3>2. QED
      BY <2>3, <3>1
  <2>4. QED
    BY <1>1, <2>1, <2>2, <2>3
<1>3. ASSUME NEW i \in ResponsesTo(s, m) PROVE i \in ResponsesTo(u, m)
  BY <1>1 DEF ResponsesTo
<1>4. ASSUME NEW i \in ResponsesTo(t, m) PROVE Len(s) + i \in ResponsesTo(u, m)
  BY <1>1 DEF ResponsesTo
<1>5. QED
  BY <1>2, <1>3, <1>4 DEF u

(* Running a task of the strand moves it from one part to the other. *)
LEMMA MovesOver ==
  ASSUME NEW T, NEW s \in Seq(T), NEW t \in Seq(T), t # <<>>
  PROVE  Append(s, Head(t)) \o Tail(t) = s \o t
<1> DEFINE h == Head(t)
           r == Tail(t)
           u == Append(s, h)
<1>1. /\ h \in T /\ r \in Seq(T) /\ u \in Seq(T) /\ Len(t) = Len(r) + 1
      /\ Len(u) = Len(s) + 1 /\ t[1] = h /\ u[Len(s) + 1] = h
      /\ \A i \in 1 .. Len(r) : r[i] = t[i + 1]
      /\ \A i \in 1 .. Len(s) : u[i] = s[i]
      /\ Len(s) \in Nat /\ Len(r) \in Nat
  OBVIOUS
<1> HIDE DEF h, r, u
<1>2. /\ u \o r \in Seq(T) /\ s \o t \in Seq(T)
      /\ Len(u \o r) = Len(u) + Len(r) /\ Len(s \o t) = Len(s) + Len(t)
      /\ \A i \in 1 .. Len(u) + Len(r) :
           (u \o r)[i] = IF i <= Len(u) THEN u[i] ELSE r[i - Len(u)]
      /\ \A i \in 1 .. Len(s) + Len(t) :
           (s \o t)[i] = IF i <= Len(s) THEN s[i] ELSE t[i - Len(s)]
  <2>1. \A x, y \in Seq(T) :
          /\ x \o y \in Seq(T) /\ Len(x \o y) = Len(x) + Len(y)
          /\ \A i \in 1 .. Len(x) + Len(y) :
               (x \o y)[i] = IF i <= Len(x) THEN x[i] ELSE y[i - Len(x)]
    OBVIOUS
  <2>2. QED
    BY <1>1, <2>1
<1>3. Len(u \o r) = Len(s \o t)
  BY <1>1, <1>2
<1>4. ASSUME NEW i \in 1 .. Len(s) + Len(t) PROVE (u \o r)[i] = (s \o t)[i]
  <2>1. CASE i <= Len(s)
    BY <1>1, <1>2, <2>1
  <2>2. CASE i = Len(s) + 1
    BY <1>1, <1>2, <2>2
  <2>3. CASE i > Len(s) + 1
    <3>1. /\ i - Len(u) \in 1 .. Len(r) /\ (i - Len(u)) + 1 = i - Len(s)
          /\ ~(i <= Len(u)) /\ ~(i <= Len(s)) /\ i \in 1 .. Len(u) + Len(r)
      BY <1>1, <2>3
    <3>2. QED
      BY <1>1, <1>2, <3>1
  <2>4. QED
    BY <1>1, <2>1, <2>2, <2>3
<1>5. u \o r = s \o t
  <2> DEFINE x == u \o r
             y == s \o t
  <2>1. /\ x \in Seq(T) /\ y \in Seq(T) /\ Len(x) = Len(y)
        /\ \A i \in 1 .. Len(y) : x[i] = y[i]
    BY <1>2, <1>3, <1>4
  <2> HIDE DEF x, y
  <2>2. x = y
    BY <2>1
  <2>3. QED
    BY <2>2 DEF x, y
<1>6. QED
  BY <1>5 DEF h, r, u

(* Where the first sequence has no response to m, or one, so has the second. *)
SameResponse(u, v, m) ==
  /\ ResponsesTo(u, m) = {} => ResponsesTo(v, m) = {}
  /\ \A i \in DOMAIN u :
       ResponsesTo(u, m) = {i}
         => \E j \in DOMAIN v : ResponsesTo(v, m) = {j} /\ v[j] = u[i]

(* A close that the strand has run is gone: the responses stay, those behind it
   one place further to the front. *)
LEMMA CloseGoes ==
  ASSUME NEW T, NEW s \in Seq(T), NEW t \in Seq(T), t # <<>>,
         Head(t).op # "write", NEW m
  PROVE  SameResponse(s \o t, s \o Tail(t), m)
<1> DEFINE h == Head(t)
           r == Tail(t)
           u == s \o t
           v == s \o r
           n == Len(s)
<1>1. /\ h \in T /\ r \in Seq(T) /\ Len(t) = Len(r) + 1 /\ t[1] = h
      /\ \A i \in 1 .. Len(r) : r[i] = t[i + 1]
      /\ n \in Nat /\ Len(r) \in Nat
  OBVIOUS
<1> HIDE DEF h, r
<1>2. /\ DOMAIN u = 1 .. n + Len(t) /\ DOMAIN v = 1 .. n + Len(r)
      /\ \A i \in 1 .. n + Len(t) : u[i] = IF i <= n THEN s[i] ELSE t[i - n]
      /\ \A i \in 1 .. n + Len(r) : v[i] = IF i <= n THEN s[i] ELSE r[i - n]
  <2>1. \A x, y \in Seq(T) :
          /\ DOMAIN (x \o y) = 1 .. Len(x) + Len(y)
          /\ \A i \in 1 .. Len(x) + Len(y) :
               (x \o y)[i] = IF i <= Len(x) THEN x[i] ELSE y[i - Len(x)]
    OBVIOUS
  <2>2. QED
    BY <1>1, <2>1
<1> HIDE DEF u, v, n
<1>3. ASSUME NEW j \in DOMAIN v, j <= n
      PROVE  j \in DOMAIN u /\ u[j] = v[j]
  BY <1>1, <1>2, <1>3
<1>4. ASSUME NEW j \in DOMAIN v, j > n
      PROVE  j + 1 \in DOMAIN u /\ u[j + 1] = v[j]
  <2>1. /\ j \in 1 .. n + Len(r) /\ j - n \in 1 .. Len(r) /\ ~(j <= n)
        /\ j + 1 \in 1 .. n + Len(t) /\ ~(j + 1 <= n) /\ (j + 1) - n = (j - n) + 1
    BY <1>1, <1>2, <1>4
  <2>2. v[j] = r[j - n] /\ u[j + 1] = t[(j - n) + 1]
    BY <1>2, <2>1
  <2>3. QED
    BY <1>1, <1>2, <2>1, <2>2
<1>5. ASSUME NEW i \in DOMAIN u, i <= n
      PROVE  i \in DOMAIN v
  BY <1>1, <1>2, <1>5
<1>6. ASSUME NEW i \in DOMAIN u, i > n, i # n + 1
      PROVE  i - 1 \in DOMAIN v /\ i - 1 > n /\ (i - 1) + 1 = i
  BY <1>1, <1>2, <1>6
<1>7. u[n + 1].op # "write"
  <2>1. n + 1 \in 1 .. n + Len(t) /\ ~(n + 1 <= n) /\ (n + 1) - n = 1
    BY <1>1
  <2>2. u[n + 1] = h
    BY <1>1, <1>2, <2>1
  <2>3. QED
    BY <2>2 DEF h
<1>8. ASSUME NEW j \in ResponsesTo(v, m)
      PROVE  /\ j \in DOMAIN v /\ j \in Nat
             /\ j <= n => j \in ResponsesTo(u, m)
             /\ j > n => j + 1 \in ResponsesTo(u, m)
  <2>1. j \in DOMAIN v /\ v[j].op = "write" /\ v[j].id = m /\ j \in Nat
    BY <1>1, <1>2 DEF ResponsesTo
  <2>2. QED
    BY <1>3, <1>4, <2>1 DEF ResponsesTo
<1>9. ResponsesTo(u, m) = {} => ResponsesTo(v, m) = {}
  BY <1>1, <1>8
<1>10. ASSUME NEW i \in DOMAIN u, ResponsesTo(u, m) = {i}
       PROVE  \E j \in DOMAIN v : ResponsesTo(v, m) = {j} /\ v[j] = u[i]
  <2>1. u[i].op = "write" /\ u[i].id = m /\ i # n + 1
    BY <1>7, <1>10 DEF ResponsesTo
  <2>2. i \in Nat
    BY <1>1, <1>2
  <2>3. CASE i <= n
    <3>1. i \in DOMAIN v /\ v[i] = u[i] /\ i \in ResponsesTo(v, m)
      BY <1>3, <1>5, <2>1, <2>3 DEF ResponsesTo
    <3>2. ASSUME NEW j \in ResponsesTo(v, m) PROVE j = i
      BY <1>1, <1>8, <1>10, <2>2, <2>3
    <3>3. QED
      BY <3>1, <3>2
  <2>4. CASE i > n
    <3>1. /\ i - 1 \in DOMAIN v /\ v[i - 1] = u[i]
          /\ i - 1 \in ResponsesTo(v, m)
      BY <1>4, <1>6, <2>1, <2>4 DEF ResponsesTo
    <3>2. ASSUME NEW j \in ResponsesTo(v, m) PROVE j = i - 1
      <4>1. j \in Nat /\ (j <= n => j = i) /\ (j > n => j + 1 = i)
        BY <1>8, <1>10
      <4>2. QED
        BY <1>1, <2>2, <2>4, <4>1
    <3>3. QED
      BY <3>1, <3>2
  <2>5. QED
    BY <1>1, <2>2, <2>3, <2>4
<1>11. QED
  BY <1>9, <1>10 DEF r, u, v, SameResponse

-----------------------------------------------------------------------------
(* dispatch() returns a response for a call and none for anything else. *)
LEMMA DispatchKind ==
  ASSUME NEW kind \in Kinds, NEW m \in Messages, NEW bound \in BOOLEAN,
         NEW ending \in Endings, NEW suppress \in BOOLEAN,
         dispatch(kind, m, bound, ending, suppress) # Thrown(m)
  PROVE  dispatch(kind, m, bound, ending, suppress).empty <=> kind # "call"
<1>1. kind = "call" => ~dispatch(kind, m, bound, ending, suppress).empty
  BY DEF dispatch, dispatch_call, Endings, make_error, make_result, Response, Thrown
<1>2. kind = "notification" =>
        dispatch(kind, m, bound, ending, suppress) = empty_response(m)
  BY DEF dispatch, dispatch_notification
<1>3. kind = "other" =>
        dispatch(kind, m, bound, ending, suppress) = empty_response(m)
  BY DEF dispatch
<1>4. empty_response(m).empty
  BY DEF empty_response, Response
<1>5. QED
  BY <1>1, <1>2, <1>3, <1>4 DEF Kinds

(* What a task posts: its response first, if there is one and the function kept
   it enabled, and tasks that are no responses. *)
LEMMA PostsResponse ==
  ASSUME NEW w \in Workers, NEW m \in Messages, NEW r \in Resps, r.id = m,
         NEW h \in Handlers, NEW z \in [error_ : Nat, resp_ : Nat]
  PROVE  LET p == Posts(w, m, r, h, z) IN
           \/ /\ h.resp_enabled_ /\ ~r.empty
              /\ ResponsesTo(p, m) = {1} /\ 1 \in DOMAIN p
              /\ p[1].resp = Precedence(r, h.error_, h.resp_)
           \/ /\ ~(h.resp_enabled_ /\ ~r.empty)
              /\ ResponsesTo(p, m) = {}
<1> DEFINE E == ExitOf(w, m)
           F == StopOf(w, m)
           ref == IF h.error_ THEN Ref(w, "error_", z.error_)
                  ELSE IF h.resp_ THEN Ref(w, "resp_", z.resp_)
                  ELSE Own
           write == WriteTask(Precedence(r, h.error_, h.resp_), ref)
           Any == {write, CloseTask("close", m), CloseTask("close_sessions", m)}
<1>1. /\ E \in Seq(Any) /\ F \in Seq(Any)
      /\ ResponsesTo(E, m) = {} /\ ResponsesTo(F, m) = {}
  <2>1. \A op \in {"close", "close_sessions"} :
          /\ ResponsesTo(<<CloseTask(op, m)>>, m) = {}
          /\ <<CloseTask(op, m)>> \in Seq(Any)
    <3>1. \A op \in {"close", "close_sessions"} :
            CloseTask(op, m).op # "write" /\ CloseTask(op, m) \in Any
      BY DEF CloseTask
    <3> HIDE DEF Any
    <3>2. QED
      BY <3>1 DEF ResponsesTo
  <2>2. ResponsesTo(<<>>, m) = {} /\ <<>> \in Seq(Any)
    BY DEF ResponsesTo
  <2>3. /\ E = <<>> \/ E = <<CloseTask("close", m)>>
        /\ F = <<>> \/ F = <<CloseTask("close_sessions", m)>>
    BY DEF ExitOf, StopOf
  <2> HIDE DEF E, F, Any
  <2>4. QED
    BY <2>1, <2>2, <2>3
<1>2. WriteOf(w, r, h, z) = IF r.empty THEN <<>> ELSE <<write>>
  BY DEF WriteOf
<1>3. write.op = "write" /\ write.id = m /\ write.resp = Precedence(r, h.error_, h.resp_)
  BY PrecedenceType DEF WriteTask, Handlers
<1> HIDE DEF write
<1>4. <<write>> \in Seq(Any) /\ <<>> \in Seq(Any)
  OBVIOUS
<1>5. ResponsesTo(<<write>>, m) = {1} /\ ResponsesTo(<<>>, m) = {}
  BY <1>3 DEF ResponsesTo
<1> HIDE DEF E, F, Any
<1>6. ASSUME NEW W \in Seq(Any)
      PROVE  ResponsesTo(W \o E \o F, m) = ResponsesTo(W, m)
  <2> DEFINE WE == W \o E
  <2>1. WE \in Seq(Any)
    BY <1>1
  <2>2. ResponsesTo(WE, m) = ResponsesTo(W, m) \cup {Len(W) + i : i \in ResponsesTo(E, m)}
    BY <1>1, ResponsesOfParts
  <2>3. ResponsesTo(WE, m) = ResponsesTo(W, m)
    BY <1>1, <2>2
  <2> HIDE DEF WE
  <2>4. ResponsesTo(WE \o F, m)
          = ResponsesTo(WE, m) \cup {Len(WE) + i : i \in ResponsesTo(F, m)}
    BY <1>1, <2>1, ResponsesOfParts
  <2>5. QED
    BY <1>1, <2>3, <2>4 DEF WE
<1>7. CASE h.resp_enabled_ /\ ~r.empty
  <2>1. Posts(w, m, r, h, z) = <<write>> \o E \o F
    BY <1>2, <1>7 DEF Posts, E, F
  <2>2. ResponsesTo(<<write>> \o E \o F, m) = {1}
    BY <1>4, <1>5, <1>6
  <2>3. 1 \in DOMAIN (<<write>> \o E \o F) /\ (<<write>> \o E \o F)[1] = write
    BY <1>1, <1>4
  <2>4. QED
    BY <1>3, <1>7, <2>1, <2>2, <2>3
<1>8. CASE h.resp_enabled_ /\ r.empty
  <2>1. Posts(w, m, r, h, z) = <<>> \o E \o F
    BY <1>2, <1>8 DEF Posts, E, F
  <2>2. ResponsesTo(<<>> \o E \o F, m) = {}
    BY <1>4, <1>5, <1>6
  <2>3. QED
    BY <1>8, <2>1, <2>2
<1>9. CASE ~h.resp_enabled_
  BY <1>5, <1>9 DEF Posts
<1>10. QED
  BY <1>7, <1>8, <1>9 DEF Handlers

-----------------------------------------------------------------------------
(* A worker's this_handler() is cleared when it takes a message and holds an
   error or a response only once the function has ended. *)
LEMMA FreshStep ==
  ASSUME TypeOK, FreshOrQueued, HandlerFresh, [Next]_vars
  PROVE  HandlerFresh'
<1>1. ASSUME NEW w \in Workers, Take(w) PROVE HandlerFresh'
  <2>1. /\ this_handler' = [this_handler EXCEPT ![w] = Cleared]
        /\ \A v \in Workers : v # w => running'[v] = running[v]
    BY <1>1 DEF Take, TypeOK
  <2>2. this_handler'[w] = Cleared
          /\ \A v \in Workers : v # w => this_handler'[v] = this_handler[v]
    BY <2>1 DEF TypeOK
  <2>3. QED
    BY <2>1, <2>2 DEF HandlerFresh, Cleared
<1>2. ASSUME NEW w \in Workers, NEW b \in BOOLEAN, EnableResponse(w, b)
      PROVE  HandlerFresh'
  <2>1. /\ UNCHANGED running
        /\ \A v \in Workers : /\ this_handler'[v].error_ = this_handler[v].error_
                              /\ this_handler'[v].resp_ = this_handler[v].resp_
    BY <1>2 DEF EnableResponse, TypeOK
  <2>2. QED
    BY <2>1 DEF HandlerFresh
<1>3. ASSUME NEW w \in Workers, NEW ending \in Endings, Finish(w, ending)
      PROVE  HandlerFresh'
  <2>1. /\ running'[w] = Idle
        /\ \A v \in Workers : v # w => /\ running'[v] = running[v]
                                       /\ this_handler'[v] = this_handler[v]
    BY <1>3 DEF Finish, TypeOK
  <2>2. QED
    BY <2>1 DEF HandlerFresh
<1>4. CASE UNCHANGED <<running, this_handler>>
  BY <1>4 DEF HandlerFresh
<1>5. QED
  BY <1>1, <1>2, <1>3, <1>4
     DEF Next, Work, Bind, Unbind, Rebind, Unpack, PostExit, StopServer,
         RunWrite, RunClose, RunCloseSessions, RunStrand, Push, CloseSessions,
         OnEof, vars

(* A function that ends takes the server down, or its task posts the response
   that the message is then to have, if it is to have one. *)
LEMMA FinishAnswers ==
  ASSUME TypeOK, FreshOrQueued, LocalsTell, HandlerFresh,
         NEW w \in Workers, NEW ending \in Endings, Finish(w, ending),
         NEW m \in Messages, m = running[w]
  PROVE  \/ terminated' /\ UNCHANGED write_strand
         \/ /\ UNCHANGED terminated
            /\ \E r \in Resps :
                 /\ r.id = m
                 /\ write_strand' = write_strand \o
                                    Posts(w, m, r, this_handler'[w], zones'[w])
                 /\ (this_handler'[w].resp_enabled_ /\ ~r.empty) <=> Answerable(m)'
                 /\ Precedence(r, this_handler'[w].error_, this_handler'[w].resp_)
                      = Wanted(m)'
<1> DEFINE err == Bound(m) /\ ending = "respond_error"
           spec == Bound(m) /\ ending = "respond"
           h == [this_handler[w] EXCEPT !.error_ = @ \/ err, !.resp_ = @ \/ spec]
           z == [zones[w] EXCEPT !.error_ = IF err THEN @ + 1 ELSE @,
                                 !.resp_ = IF spec THEN @ + 1 ELSE @]
           r == dispatch(request[m].kind, m, Bound(m), ending,
                         suppress_exceptions_)
<1>1. /\ this_handler' = [this_handler EXCEPT ![w] = h]
      /\ zones' = [zones EXCEPT ![w] = z]
      /\ log' = [log EXCEPT ![m].done = TRUE, ![m].ran = Bound(m),
                              ![m].ending = ending]
      /\ \/ terminated' = TRUE /\ UNCHANGED write_strand
         \/ /\ r # Thrown(m)
            /\ write_strand' = write_strand \o Posts(w, m, r, h, z)
            /\ UNCHANGED terminated
      /\ m # Idle
      /\ UNCHANGED <<request, suppress_exceptions_>>
  BY DEF Finish
<1>2. m \in Messages /\ Bound(m) \in BOOLEAN /\ err \in BOOLEAN /\ spec \in BOOLEAN
  BY <1>1 DEF TypeOK, Bound
<1>3. /\ this_handler[w] \in Handlers
      /\ ~this_handler[w].error_ /\ ~this_handler[w].resp_
      /\ this_handler[w].resp_enabled_ = log[m].enabled
  BY <1>1 DEF TypeOK, Handlers, HandlerFresh, LocalsTell
<1>4. /\ h.error_ = err /\ h.resp_ = spec /\ h.resp_enabled_ = log[m].enabled
      /\ this_handler'[w] = h /\ zones'[w] = z
  BY <1>1, <1>2, <1>3 DEF TypeOK, Handlers
<1>5. /\ log'[m].done /\ log'[m].ran = Bound(m) /\ log'[m].ending = ending
      /\ log'[m].enabled = log[m].enabled
  BY <1>1, <1>2 DEF TypeOK
<1>6. request[m].kind \in Kinds /\ suppress_exceptions_ \in BOOLEAN
  BY <1>2 DEF TypeOK, FreshOrQueued
<1>7. ASSUME r # Thrown(m)
      PROVE  r \in Resps /\ r.id = m /\ (r.empty <=> request[m].kind # "call")
  BY <1>2, <1>6, <1>7, DispatchType, DispatchKind
<1>8. Precedence(r, err, spec) = Wanted(m)'
  <2> DEFINE ran == log'[m].ran
             last == log'[m].ending
  <2>1. Wanted(m)' =
          Precedence(dispatch(request'[m].kind, m, ran, last, suppress_exceptions_'),
                     ran /\ last = "respond_error", ran /\ last = "respond")
    BY DEF Wanted
  <2>2. ran = Bound(m) /\ last = ending
    BY <1>5
  <2> HIDE DEF ran, last
  <2>3. dispatch(request'[m].kind, m, ran, last, suppress_exceptions_') = r
    BY <1>1, <2>2
  <2>4. QED
    BY <2>1, <2>2, <2>3
<1>9. ASSUME r # Thrown(m)
      PROVE  (h.resp_enabled_ /\ ~r.empty) <=> Answerable(m)'
  <2>1. Answerable(m)' <=> request[m].kind = "call" /\ log[m].enabled
    BY <1>1, <1>5 DEF Answerable
  <2>2. QED
    BY <1>4, <1>7, <1>9, <2>1
<1> HIDE DEF r, h, z
<1>10. CASE terminated' = TRUE /\ UNCHANGED write_strand
  BY <1>10
<1>11. CASE /\ r # Thrown(m)
            /\ write_strand' = write_strand \o Posts(w, m, r, h, z)
            /\ UNCHANGED terminated
  <2>1. r \in Resps /\ r.id = m
    BY <1>7, <1>11
  <2>2. write_strand' = write_strand \o Posts(w, m, r, this_handler'[w], zones'[w])
    BY <1>4, <1>11
  <2>3. (this_handler'[w].resp_enabled_ /\ ~r.empty) <=> Answerable(m)'
    BY <1>4, <1>9, <1>11
  <2>4. Precedence(r, this_handler'[w].error_, this_handler'[w].resp_) = Wanted(m)'
    BY <1>4, <1>8
  <2>5. QED
    BY <1>11, <2>1, <2>2, <2>3, <2>4
<1>12. QED
  BY <1>1, <1>10, <1>11

(* All the strand has and had stays, for any step that posts nothing, as long
   as it changes no message that is done. *)
LEMMA NothingPosted ==
  ASSUME TypeOK, AllOfDone, AnsweredExactly,
         All' = All, UNCHANGED <<closed, terminated, suppress_exceptions_>>,
         \A m \in Messages :
           /\ log'[m].done = log[m].done
           /\ log[m].done => log'[m] = log[m] /\ request'[m] = request[m]
  PROVE  AllOfDone' /\ AnsweredExactly'
<1>1. AllOfDone'
  <2>1. All \in Seq(StrandTasks)
    BY ConcatIn DEF TypeOK, All
  <2>2. \A i \in DOMAIN All : All[i] \in StrandTasks
    BY <2>1
  <2>3. \A i \in DOMAIN All : All[i].id \in Messages
    BY <2>2 DEF StrandTasks
  <2>4. AllOfDone' <=> \A i \in DOMAIN All' : log'[All'[i].id].done
    BY DEF AllOfDone
  <2>5. QED
    BY <2>3, <2>4 DEF AllOfDone
<1>2. ASSUME NEW m \in Messages
      PROVE  /\ Answerable(m)' <=> Answerable(m)
             /\ Answerable(m) => Wanted(m)' = Wanted(m)
             /\ ResponsesTo(All, m)' = ResponsesTo(All, m)
  <2>1. Answerable(m)' <=> Answerable(m)
    BY DEF Answerable
  <2>2. ASSUME log[m].done PROVE Wanted(m)' = Wanted(m)
    <3>1. log'[m] = log[m] /\ request'[m] = request[m]
      BY <2>2
    <3>2. QED
      BY <3>1 DEF Wanted
  <2>3. ResponsesTo(All, m)' = ResponsesTo(All, m)
    BY DEF ResponsesTo
  <2>4. QED
    BY <2>1, <2>2, <2>3 DEF Answerable
<1>3. AnsweredExactly'
  BY <1>2 DEF AnsweredExactly
<1>4. QED
  BY <1>1, <1>3

(* A function that ends posts the one response to its message, if there is to be
   one, and none to another message. *)
LEMMA FinishStep ==
  ASSUME IInv, ResponseIInv,
         NEW w \in Workers, NEW ending \in Endings, Finish(w, ending)
  PROVE  AllOfDone' /\ AnsweredExactly'
<1>1. /\ TypeOK /\ FreshOrQueued /\ RunByOne /\ LocalsTell
      /\ HandlerFresh /\ AllOfDone /\ AnsweredExactly
  BY DEF IInv, ResponseIInv
<1>2. PICK m \in Messages : m = running[w]
  BY <1>1, FinishFacts
<1>3. /\ this_handler' \in [Workers -> Handlers]
      /\ zones' \in [Workers -> [error_ : Nat, resp_ : Nat]]
      /\ log' = [log EXCEPT ![m].done = TRUE, ![m].ran = Bound(m),
                            ![m].ending = ending]
  BY <1>1, <1>2, FinishFacts
<1>4. /\ UNCHANGED <<written, closed, request, suppress_exceptions_>>
      /\ ~log[m].done
  BY <1>1, <1>2, IdleAssumption DEF Finish, RunByOne
<1>5. log'[m].done /\ \A n \in Messages : n # m => log'[n] = log[n]
  BY <1>1, <1>3 DEF TypeOK
<1>6. /\ All \in Seq(StrandTasks) /\ write_strand \in Seq(StrandTasks)
      /\ written \in Seq(StrandTasks)
      /\ \A i \in DOMAIN All : All[i].id \in Messages
  <2>1. /\ All \in Seq(StrandTasks) /\ write_strand \in Seq(StrandTasks)
        /\ written \in Seq(StrandTasks)
    BY <1>1, ConcatIn DEF TypeOK, All
  <2>2. \A i \in DOMAIN All : All[i] \in StrandTasks
    BY <2>1
  <2>3. QED
    BY <2>1, <2>2 DEF StrandTasks
<1>7. AllOfDone' <=> \A i \in DOMAIN All' : log'[All'[i].id].done
  BY DEF AllOfDone
<1>8. ResponsesTo(All, m) = {}
  BY <1>1, <1>4 DEF ResponsesTo, AllOfDone
<1>9. CASE terminated' /\ UNCHANGED write_strand
  <2>1. All' = All
    BY <1>4, <1>9 DEF All
  <2>2. AllOfDone'
    BY <1>1, <1>5, <1>6, <1>7, <2>1 DEF AllOfDone
  <2>3. QED
    BY <1>9, <2>2 DEF AnsweredExactly
<1>10. ASSUME UNCHANGED terminated, NEW r \in Resps, r.id = m,
              write_strand' = write_strand \o
                              Posts(w, m, r, this_handler'[w], zones'[w]),
              (this_handler'[w].resp_enabled_ /\ ~r.empty) <=> Answerable(m)',
              Precedence(r, this_handler'[w].error_, this_handler'[w].resp_)
                = Wanted(m)'
       PROVE  AllOfDone' /\ AnsweredExactly'
  <2> DEFINE p == Posts(w, m, r, this_handler'[w], zones'[w])
  <2>1. /\ p \in Seq(StrandTasks)
        /\ \A i \in DOMAIN p : p[i].id = m
    BY <1>3, <1>10, PostsOrdered
  <2>2. \/ /\ Answerable(m)'
           /\ ResponsesTo(p, m) = {1} /\ 1 \in DOMAIN p
           /\ p[1].resp = Wanted(m)'
        \/ ~Answerable(m)' /\ ResponsesTo(p, m) = {}
    <3>1. this_handler'[w] \in Handlers /\ zones'[w] \in [error_ : Nat, resp_ : Nat]
      BY <1>3
    <3>2. \/ /\ this_handler'[w].resp_enabled_ /\ ~r.empty
             /\ ResponsesTo(p, m) = {1} /\ 1 \in DOMAIN p
             /\ p[1].resp = Precedence(r, this_handler'[w].error_,
                                       this_handler'[w].resp_)
          \/ /\ ~(this_handler'[w].resp_enabled_ /\ ~r.empty)
             /\ ResponsesTo(p, m) = {}
      BY <1>10, <3>1, PostsResponse
    <3> HIDE DEF p
    <3>3. QED
      BY <1>10, <3>2
  <2>3. All' = All \o p
    <3>1. All' = written \o (write_strand \o p)
      BY <1>4, <1>10 DEF All
    <3> HIDE DEF p
    <3>2. written \o (write_strand \o p) = (written \o write_strand) \o p
      BY SMTT(30), <1>6, <2>1
    <3>3. QED
      BY <3>1, <3>2 DEF All
  <2> HIDE DEF p
  <2>4. /\ \A i \in DOMAIN All : i \in DOMAIN All' /\ All'[i] = All[i]
        /\ \A i \in DOMAIN p : Len(All) + i \in DOMAIN All' /\ All'[Len(All) + i] = p[i]
        /\ \A i \in DOMAIN All' :
             \/ i \in DOMAIN All
             \/ i - Len(All) \in DOMAIN p /\ i = Len(All) + (i - Len(All))
    <3>1. \A s, t \in Seq(StrandTasks) :
            /\ \A i \in DOMAIN s : i \in DOMAIN (s \o t) /\ (s \o t)[i] = s[i]
            /\ \A i \in DOMAIN t : /\ Len(s) + i \in DOMAIN (s \o t)
                                   /\ (s \o t)[Len(s) + i] = t[i]
            /\ \A i \in DOMAIN (s \o t) :
                 \/ i \in DOMAIN s
                 \/ i - Len(s) \in DOMAIN t /\ i = Len(s) + (i - Len(s))
      BY SMTT(30), PartsOf
    <3>2. QED
      BY <1>6, <2>1, <2>3, <3>1
  <2>5. AllOfDone'
    <3>1. ASSUME NEW i \in DOMAIN All' PROVE log'[All'[i].id].done
      <4>1. CASE i \in DOMAIN All
        BY <1>1, <1>5, <1>6, <2>4, <4>1 DEF AllOfDone
      <4>2. CASE i - Len(All) \in DOMAIN p /\ i = Len(All) + (i - Len(All))
        <5>1. All'[i] = p[i - Len(All)]
          BY <2>4, <4>2
        <5>2. QED
          BY <1>5, <2>1, <4>2, <5>1
      <4>3. QED
        BY <2>4, <4>1, <4>2
    <3>2. QED
      BY <1>7, <3>1
  <2>6. \A n \in Messages :
          ResponsesTo(All', n)
            = ResponsesTo(All, n) \cup {Len(All) + i : i \in ResponsesTo(p, n)}
    BY <1>6, <2>1, <2>3, ResponsesOfParts
  <2>7. ASSUME ~closed, ~terminated, NEW n \in Messages
        PROVE  \/ ~Answerable(n)' /\ ResponsesTo(All', n) = {}
               \/ /\ Answerable(n)'
                  /\ \E i \in DOMAIN All' :
                       ResponsesTo(All', n) = {i} /\ All'[i].resp = Wanted(n)'
    <3>1. CASE n = m
      <4>1. CASE Answerable(m)'
        <5>1. ResponsesTo(p, m) = {1} /\ 1 \in DOMAIN p /\ p[1].resp = Wanted(m)'
          BY <2>2, <4>1
        <5>2. /\ ResponsesTo(All', m) = {Len(All) + 1}
              /\ Len(All) + 1 \in DOMAIN All' /\ All'[Len(All) + 1] = p[1]
          BY <1>8, <2>4, <2>6, <5>1
        <5>3. QED
          BY <3>1, <4>1, <5>1, <5>2
      <4>2. CASE ~Answerable(m)'
        <5>1. ResponsesTo(p, m) = {}
          BY <2>2, <4>2
        <5>2. ResponsesTo(All', m) = {}
          BY <1>8, <2>6, <5>1
        <5>3. QED
          BY <3>1, <4>2, <5>2
      <4>3. QED
        BY <4>1, <4>2
    <3>2. CASE n # m
      <4>1. ResponsesTo(p, n) = {}
        BY <2>1, <3>2 DEF ResponsesTo
      <4>2. ResponsesTo(All', n) = ResponsesTo(All, n)
        BY <2>6, <4>1
      <4>3. log'[n] = log[n] /\ request' = request /\ suppress_exceptions_' = suppress_exceptions_
        BY <1>4, <1>5, <3>2
      <4>4. Answerable(n)' <=> Answerable(n)
        BY <4>3 DEF Answerable
      <4>5. Wanted(n)' = Wanted(n)
        BY <4>3 DEF Wanted
      <4>6. \/ ~Answerable(n) /\ ResponsesTo(All, n) = {}
            \/ /\ Answerable(n)
               /\ \E i \in DOMAIN All :
                    ResponsesTo(All, n) = {i} /\ All[i].resp = Wanted(n)
        BY <1>1, <2>7 DEF AnsweredExactly
      <4>7. QED
        BY <2>4, <4>2, <4>4, <4>5, <4>6
    <3>3. QED
      BY <3>1, <3>2
  <2>8. AnsweredExactly'
    <3>1. \A n \in Messages : ResponsesTo(All, n)' = ResponsesTo(All', n)
      BY DEF ResponsesTo
    <3>2. closed' = closed /\ terminated' = terminated
      BY <1>4, <1>10
    <3>3. QED
      BY <2>7, <3>1, <3>2 DEF AnsweredExactly
  <2>9. QED
    BY <2>5, <2>8
<1>11. \/ terminated' /\ UNCHANGED write_strand
       \/ /\ UNCHANGED terminated
          /\ \E r \in Resps :
               /\ r.id = m
               /\ write_strand' = write_strand \o
                                  Posts(w, m, r, this_handler'[w], zones'[w])
               /\ (this_handler'[w].resp_enabled_ /\ ~r.empty) <=> Answerable(m)'
               /\ Precedence(r, this_handler'[w].error_, this_handler'[w].resp_)
                    = Wanted(m)'
  BY <1>1, <1>2, FinishAnswers
<1>12. QED
  BY <1>9, <1>10, <1>11

(* What is known of a message that is done stays. *)
LEMMA DoneStays ==
  ASSUME IInv, [Next]_vars, NEW m \in Messages, log[m].done
  PROVE  log'[m] = log[m] /\ request'[m] = request[m]
         /\ suppress_exceptions_' = suppress_exceptions_
<1>1. TypeOK /\ FreshOrQueued /\ RunByOne
  BY DEF IInv
<1>2. ASSUME NEW k \in Messages, NEW kind \in Kinds, NEW f \in Names,
             Unpack(k, kind, f)
      PROVE  /\ log' = log /\ request'[m] = request[m]
             /\ suppress_exceptions_' = suppress_exceptions_
  <2>1. k # m
    BY <1>1, <1>2 DEF Unpack, FreshOrQueued, NoLog
  <2>2. QED
    BY <1>1, <1>2, <2>1 DEF Unpack, TypeOK
<1>3. ASSUME NEW w \in Workers, NEW b \in BOOLEAN,
             \/ EnableResponse(w, b)
             \/ PostExit(w)
             \/ StopServer(w)
      PROVE  /\ log'[m] = log[m] /\ request' = request
             /\ suppress_exceptions_' = suppress_exceptions_
  <2>1. running[w] \in Messages /\ running[w] # m
    BY <1>1, <1>3 DEF EnableResponse, PostExit, StopServer, InFunction, TypeOK,
                      RunByOne
  <2>2. QED
    BY <1>1, <1>3, <2>1 DEF EnableResponse, PostExit, StopServer, TypeOK
<1>4. ASSUME NEW w \in Workers, NEW ending \in Endings, Finish(w, ending)
      PROVE  /\ log'[m] = log[m] /\ request' = request
             /\ suppress_exceptions_' = suppress_exceptions_
  <2>1. running[w] \in Messages /\ running[w] # m
    BY <1>1, <1>4 DEF Finish, TypeOK, RunByOne
  <2>2. log' = [log EXCEPT ![running[w]].done = TRUE,
                           ![running[w]].ran = Bound(running[w]),
                           ![running[w]].ending = ending]
    BY <1>1, <1>4, FinishFacts
  <2>3. log'[m] = log[m]
    BY <1>1, <2>1, <2>2 DEF TypeOK
  <2>4. QED
    BY <1>4, <2>3 DEF Finish
<1>5. CASE UNCHANGED <<log, request, suppress_exceptions_>>
  BY <1>5
<1>6. QED
  BY <1>2, <1>3, <1>4, <1>5
     DEF Next, Work, Bind, Unbind, Rebind, Take, RunWrite, RunClose,
         RunCloseSessions, RunStrand, Push, CloseSessions, OnEof, vars

(* A task that is due stays so. *)
LEMMA DueGrows == ASSUME IInv, [Next]_vars PROVE Due \subseteq Due'
<1> SUFFICES ASSUME NEW t \in StrandTasks,
                    t.op = "write" => /\ log[t.id].done
                                      /\ request[t.id].kind = "call"
                                      /\ t.resp = Wanted(t.id)
             PROVE  t.op = "write" => /\ log'[t.id].done
                                      /\ request'[t.id].kind = "call"
                                      /\ t.resp = Wanted(t.id)'
  BY DEF Due
<1>1. t.id \in Messages
  BY DEF StrandTasks
<1>2. ASSUME log[t.id].done
      PROVE  /\ log'[t.id] = log[t.id] /\ request'[t.id] = request[t.id]
             /\ Wanted(t.id)' = Wanted(t.id)
  <2>1. /\ log'[t.id] = log[t.id] /\ request'[t.id] = request[t.id]
        /\ suppress_exceptions_' = suppress_exceptions_
    BY <1>1, <1>2, DoneStays
  <2>2. QED
    BY <2>1 DEF Wanted
<1>3. QED
  BY <1>2

(* What a task posts when its function has ended is what the message wants. *)
LEMMA PostsDue ==
  ASSUME IInv, HandlerFresh,
         NEW w \in Workers, NEW ending \in Endings, Finish(w, ending)
  PROVE  \/ UNCHANGED write_strand
         \/ \E p \in Seq(Due') : write_strand' = write_strand \o p
<1>1. TypeOK /\ FreshOrQueued /\ LocalsTell
  BY DEF IInv
<1>2. PICK m \in Messages : m = running[w]
  BY <1>1, FinishFacts
<1>3. /\ this_handler'[w] \in Handlers
      /\ zones'[w] \in [error_ : Nat, resp_ : Nat]
  BY <1>1, FinishFacts
<1>4. \/ UNCHANGED write_strand
      \/ \E r \in Resps :
           /\ r.id = m
           /\ write_strand' = write_strand \o
                              Posts(w, m, r, this_handler'[w], zones'[w])
           /\ (this_handler'[w].resp_enabled_ /\ ~r.empty) <=> Answerable(m)'
           /\ Precedence(r, this_handler'[w].error_, this_handler'[w].resp_)
                = Wanted(m)'
  BY <1>1, <1>2, FinishAnswers
<1>5. ASSUME NEW r \in Resps, r.id = m,
             write_strand' = write_strand \o
                             Posts(w, m, r, this_handler'[w], zones'[w]),
             (this_handler'[w].resp_enabled_ /\ ~r.empty) <=> Answerable(m)',
             Precedence(r, this_handler'[w].error_, this_handler'[w].resp_)
               = Wanted(m)'
      PROVE  \E p \in Seq(Due') : write_strand' = write_strand \o p
  <2> DEFINE h == this_handler'[w]
             p == Posts(w, m, r, h, zones'[w])
  <2>1. p \in Seq(StrandTasks) /\ \A i \in DOMAIN p : p[i].id = m
    BY <1>3, <1>5, PostsOrdered
  <2>2. \/ /\ h.resp_enabled_ /\ ~r.empty
           /\ ResponsesTo(p, m) = {1} /\ 1 \in DOMAIN p
           /\ p[1].resp = Precedence(r, h.error_, h.resp_)
        \/ ~(h.resp_enabled_ /\ ~r.empty) /\ ResponsesTo(p, m) = {}
    BY <1>3, <1>5, PostsResponse
  <2>3. write_strand' = write_strand \o p
    BY <1>5
  <2>4. \/ /\ Answerable(m)' /\ ResponsesTo(p, m) = {1}
           /\ p[1].resp = Wanted(m)'
        \/ ResponsesTo(p, m) = {}
    <3> HIDE DEF p
    <3>1. QED
      BY <1>5, <2>2
  <2> HIDE DEF p
  <2>5. ASSUME NEW i \in DOMAIN p PROVE p[i] \in Due'
    <3> DEFINE t == p[i]
    <3>1. t \in StrandTasks /\ t.id = m
      BY <2>1, <2>5
    <3>2. ASSUME t.op = "write"
          PROVE  Answerable(m)' /\ t.resp = Wanted(m)'
      <4>1. i \in ResponsesTo(p, m)
        BY <2>1, <3>2 DEF ResponsesTo
      <4>2. QED
        BY <2>4, <4>1
    <3> HIDE DEF t
    <3>3. t \in Due'
      BY <3>1, <3>2 DEF Due, Answerable
    <3>4. QED
      BY <3>3 DEF t
  <2>6. p \in Seq(Due')
    BY <2>1, <2>5, SeqWithin
  <2>7. QED
    BY <2>3, <2>6
<1>6. QED
  BY <1>4, <1>5

(* A response stays what its message wanted; the strand takes it from the posts
   of the message's task and gives it to the writer. *)
LEMMA WantedStep ==
  ASSUME IInv, HandlerFresh, WritesAsWanted, [Next]_vars
  PROVE  WritesAsWanted'
<1> DEFINE D == Due'
           Writes(S) == {t \in S : t.op = "write"}
<1>1. Due \subseteq D
  BY DueGrows
<1>2. WritesAsWanted' <=> written' \in Seq(Writes(D)) /\ write_strand' \in Seq(D)
  BY DEF WritesAsWanted
<1>3. written \in Seq(Writes(D)) /\ write_strand \in Seq(D)
  <2>1. written \in Seq(Writes(Due)) /\ write_strand \in Seq(Due)
    BY DEF WritesAsWanted
  <2>2. Writes(Due) \subseteq Writes(D)
    BY <1>1
  <2> HIDE DEF D, Writes
  <2>3. QED
    BY <1>1, <2>1, <2>2, SeqGrows
<1> HIDE DEF D
<1>4. CASE UNCHANGED <<written, write_strand>>
  BY <1>2, <1>3, <1>4
<1>5. CASE RunWrite \/ RunClose \/ RunCloseSessions
  <2>1. /\ write_strand # <<>> /\ write_strand' = Tail(write_strand)
        /\ \/ written' = written
           \/ /\ Head(write_strand).op = "write"
              /\ written' = Append(written, Head(write_strand))
    BY <1>5 DEF RunWrite, RunClose, RunCloseSessions, RunStrand
  <2>2. Tail(write_strand) \in Seq(D) /\ Head(write_strand) \in D
    BY <1>3, <2>1
  <2>3. written' \in Seq(Writes(D))
    <3>1. Head(write_strand).op = "write" => Head(write_strand) \in Writes(D)
      BY <2>2
    <3> HIDE DEF Writes
    <3>2. QED
      BY <1>3, <2>1, <3>1
  <2>4. QED
    BY <1>2, <2>1, <2>2, <2>3
<1>6. ASSUME NEW w \in Workers, NEW ending \in Endings, Finish(w, ending)
      PROVE  WritesAsWanted'
  <2>1. UNCHANGED written
    BY <1>6 DEF Finish
  <2>2. \/ UNCHANGED write_strand
        \/ \E p \in Seq(D) : write_strand' = write_strand \o p
    BY <1>6, PostsDue DEF D
  <2>3. write_strand' \in Seq(D)
    BY <1>3, <2>2, ConcatIn
  <2>4. QED
    BY <1>2, <1>3, <2>1, <2>3
<1>7. QED
  BY <1>4, <1>5, <1>6
     DEF Next, Work, Bind, Unbind, Rebind, Unpack, Take, EnableResponse, PostExit,
         StopServer, Push, CloseSessions, OnEof, vars

(* What was written stays written. *)
LEMMA WrittenGrows ==
  ASSUME TypeOK, TypeOK', [Next]_vars
  PROVE  Len(written) \in Nat /\ Len(written') \in Nat
         /\ Len(written) <= Len(written')
<1>1. written' = written \/ written' = Append(written, Head(write_strand))
  <2>1. CASE \/ RunWrite \/ RunClose \/ RunCloseSessions
             \/ Push \/ CloseSessions \/ OnEof \/ UNCHANGED vars
    BY <2>1
       DEF RunWrite, RunClose, RunCloseSessions, Push, CloseSessions, OnEof, vars
  <2>2. ASSUME NEW w \in Workers, NEW ending \in Endings, Finish(w, ending)
        PROVE  written' = written
    BY <2>2 DEF Finish
  <2>3. ASSUME NEW w \in Workers,
               \/ Take(w) \/ PostExit(w) \/ StopServer(w)
               \/ \E b \in BOOLEAN : EnableResponse(w, b)
        PROVE  written' = written
    BY <2>3 DEF Take, PostExit, StopServer, EnableResponse
  <2>4. CASE \/ \E f \in Names : Bind(f) \/ Unbind(f)
             \/ \E m \in Messages, kind \in Kinds, f \in Names : Unpack(m, kind, f)
    BY <2>4 DEF Bind, Unbind, Rebind, Unpack
  <2>5. QED
    BY <2>1, <2>2, <2>3, <2>4 DEF Next, Work
<1>2. written \in Seq(StrandTasks) /\ written' \in Seq(StrandTasks)
  BY DEF TypeOK
<1>3. Len(written) \in Nat /\ Len(written') \in Nat
  BY <1>2
<1>4. Len(Append(written, Head(write_strand))) = Len(written) + 1
  BY <1>2
<1>5. Len(written') = Len(written) \/ Len(written') = Len(written) + 1
  BY <1>1, <1>4
<1>6. QED
  BY <1>3, <1>5

(* A message is done once, by the worker that has it. *)
LEMMA DoneOnce ==
  ASSUME IInv, [Next]_vars
  PROVE  \/ \A m \in Messages : log'[m].done = log[m].done
         \/ \E m \in Messages :
              /\ ~log[m].done /\ log'[m].done /\ request[m] # NoRequest
              /\ UNCHANGED request
              /\ \A n \in Messages \ {m} : log'[n].done = log[n].done
<1>1. TypeOK /\ FreshOrQueued /\ RunByOne
  BY DEF IInv
<1>2. ASSUME NEW w \in Workers, NEW ending \in Endings, Finish(w, ending)
      PROVE  \E m \in Messages :
               /\ ~log[m].done /\ log'[m].done /\ request[m] # NoRequest
               /\ UNCHANGED request
               /\ \A n \in Messages \ {m} : log'[n].done = log[n].done
  <2>1. PICK m \in Messages : m = running[w]
    BY <1>1, <1>2, FinishFacts
  <2>2. log' = [log EXCEPT ![m].done = TRUE, ![m].ran = Bound(m),
                           ![m].ending = ending]
    BY <1>1, <1>2, <2>1, FinishFacts
  <2>3. log'[m].done /\ \A n \in Messages \ {m} : log'[n] = log[n]
    BY <1>1, <2>2 DEF TypeOK
  <2>4. ~log[m].done /\ request[m] # NoRequest
    BY <1>1, <2>1, IdleAssumption DEF RunByOne, FreshOrQueued
  <2>5. QED
    BY <1>2, <2>3, <2>4 DEF Finish
<1>3. ASSUME NEW w \in Workers, NEW b \in BOOLEAN,
             EnableResponse(w, b) \/ PostExit(w) \/ StopServer(w)
      PROVE  \A m \in Messages : log'[m].done = log[m].done
  <2>1. \/ log' = [log EXCEPT ![running[w]].enabled = b]
        \/ log' = [log EXCEPT ![running[w]].exit = TRUE]
        \/ log' = [log EXCEPT ![running[w]].stop = TRUE]
    BY <1>3 DEF EnableResponse, PostExit, StopServer
  <2>2. running[w] \in Messages
    BY <1>1, <1>3 DEF EnableResponse, PostExit, StopServer, InFunction, TypeOK
  <2>3. log \in [Messages -> Logs]
    BY <1>1 DEF TypeOK, Logs
  <2>4. log'[running[w]].done = log[running[w]].done
    <3>1. CASE log' = [log EXCEPT ![running[w]].enabled = b]
      BY <2>2, <2>3, <3>1 DEF Logs
    <3>2. CASE log' = [log EXCEPT ![running[w]].exit = TRUE]
      BY <2>2, <2>3, <3>2 DEF Logs
    <3>3. CASE log' = [log EXCEPT ![running[w]].stop = TRUE]
      BY <2>2, <2>3, <3>3 DEF Logs
    <3>4. QED
      BY <2>1, <3>1, <3>2, <3>3
  <2>5. \A m \in Messages : m # running[w] => log'[m] = log[m]
    BY <2>1, <2>3
  <2>6. QED
    BY <2>4, <2>5
<1>4. CASE UNCHANGED log
  BY <1>4
<1>5. QED
  BY <1>2, <1>3, <1>4
     DEF Next, Work, Bind, Unbind, Rebind, Unpack, Take, RunWrite, RunClose,
         RunCloseSessions, RunStrand, Push, CloseSessions, OnEof, vars

(* The step of the inductive invariant, action by action. *)
LEMMA ResponseStep ==
  ASSUME IInv, IInv', ResponseIInv, [Next]_vars
  PROVE  ResponseIInv'
<1>1. /\ TypeOK /\ FreshOrQueued /\ RunByOne
      /\ HandlerFresh /\ AllOfDone /\ AnsweredExactly /\ WritesAsWanted
  BY DEF IInv, ResponseIInv
<1>2. HandlerFresh'
  BY <1>1, FreshStep
<1>3. /\ written \in Seq(StrandTasks) /\ write_strand \in Seq(StrandTasks)
      /\ All \in Seq(StrandTasks) /\ \A i \in DOMAIN All : All[i].id \in Messages
  <2>1. /\ written \in Seq(StrandTasks) /\ write_strand \in Seq(StrandTasks)
        /\ All \in Seq(StrandTasks)
    BY <1>1, ConcatIn DEF TypeOK, All
  <2>2. \A i \in DOMAIN All : All[i] \in StrandTasks
    BY <2>1
  <2>3. QED
    BY <2>1, <2>2 DEF StrandTasks
<1>4. ASSUME UNCHANGED <<written, write_strand, closed, terminated, request,
                         suppress_exceptions_, log>>
      PROVE  AllOfDone' /\ AnsweredExactly'
  <2>1. All' = All
    BY <1>4 DEF All
  <2>2. QED
    BY <1>1, <1>4, <2>1, NothingPosted
<1>5. ASSUME NEW m \in Messages, NEW kind \in Kinds, NEW f \in Names,
             Unpack(m, kind, f)
      PROVE  AllOfDone' /\ AnsweredExactly'
  <2>1. ~log[m].done
    BY <1>1, <1>5 DEF Unpack, FreshOrQueued, NoLog
  <2>2. \A n \in Messages : n # m => request'[n] = request[n]
    BY <1>1, <1>5 DEF Unpack, TypeOK
  <2>3. /\ All' = All
        /\ UNCHANGED <<closed, terminated, suppress_exceptions_, log>>
    BY <1>5 DEF Unpack, All
  <2>4. QED
    BY <1>1, <2>1, <2>2, <2>3, NothingPosted
<1>6. ASSUME NEW w \in Workers, NEW b \in BOOLEAN, EnableResponse(w, b)
      PROVE  AllOfDone' /\ AnsweredExactly'
  <2>1. /\ running[w] \in Messages /\ ~log[running[w]].done
        /\ log' = [log EXCEPT ![running[w]].enabled = b]
    BY <1>1, <1>6 DEF EnableResponse, InFunction, TypeOK, RunByOne
  <2>2. \A n \in Messages : /\ log'[n].done = log[n].done
                            /\ log[n].done => log'[n] = log[n]
    BY <1>1, <2>1 DEF TypeOK
  <2>3. /\ All' = All
        /\ UNCHANGED <<closed, terminated, suppress_exceptions_, request>>
    BY <1>6 DEF EnableResponse, All
  <2>4. QED
    BY <1>1, <2>2, <2>3, NothingPosted
<1>7. ASSUME NEW w \in Workers, PostExit(w) \/ StopServer(w)
      PROVE  AllOfDone' /\ AnsweredExactly'
  <2>1. /\ running[w] \in Messages /\ ~log[running[w]].done
        /\ \/ log' = [log EXCEPT ![running[w]].exit = TRUE]
           \/ log' = [log EXCEPT ![running[w]].stop = TRUE]
    BY <1>1, <1>7 DEF PostExit, StopServer, InFunction, TypeOK, RunByOne
  <2>2. \A n \in Messages : /\ log'[n].done = log[n].done
                            /\ log[n].done => log'[n] = log[n]
    <3>1. CASE log' = [log EXCEPT ![running[w]].exit = TRUE]
      BY <1>1, <2>1, <3>1 DEF TypeOK
    <3>2. CASE log' = [log EXCEPT ![running[w]].stop = TRUE]
      BY <1>1, <2>1, <3>2 DEF TypeOK
    <3>3. QED
      BY <2>1, <3>1, <3>2
  <2>3. /\ All' = All
        /\ UNCHANGED <<closed, terminated, suppress_exceptions_, request>>
    BY <1>7 DEF PostExit, StopServer, All
  <2>4. QED
    BY <1>1, <2>2, <2>3, NothingPosted
<1>8. ASSUME RunWrite \/ RunClose \/ RunCloseSessions
      PROVE  AllOfDone' /\ AnsweredExactly'
  <2>1. /\ write_strand # <<>> /\ write_strand' = Tail(write_strand)
        /\ UNCHANGED <<suppress_exceptions_, request, terminated, log>>
    BY <1>8 DEF RunWrite, RunClose, RunCloseSessions, RunStrand
  <2>2. CASE RunWrite /\ ~closed
    <3>1. written' = Append(written, Head(write_strand)) /\ closed' = closed
      BY <2>2 DEF RunWrite
    <3>2. Append(written, Head(write_strand)) \o Tail(write_strand)
            = written \o write_strand
      BY <1>3, <2>1, MovesOver
    <3>3. All' = All
      BY <2>1, <3>1, <3>2 DEF All
    <3>4. QED
      BY <1>1, <2>1, <3>1, <3>3, NothingPosted
  <2>3. CASE (RunWrite /\ closed) \/ RunClose \/ RunCloseSessions
    <3>1. /\ written' = written
          /\ closed' \/ (closed' = closed /\ Head(write_strand).op # "write")
      BY <2>3
         DEF RunWrite, RunClose, RunCloseSessions, RunStrand, Close, CloseListed
    <3>2. AnsweredExactly'
      <4>1. CASE closed'
        BY <4>1 DEF AnsweredExactly
      <4>2. CASE ~closed'
        <5>1. All = written \o write_strand /\ All' = written \o Tail(write_strand)
          BY <2>1, <3>1 DEF All
        <5>2. ASSUME NEW m \in Messages
              PROVE  /\ Answerable(m)' <=> Answerable(m)
                     /\ Wanted(m)' = Wanted(m)
                     /\ ResponsesTo(All, m) = {} => ResponsesTo(All, m)' = {}
                     /\ \A i \in DOMAIN All :
                          ResponsesTo(All, m) = {i}
                            => \E j \in DOMAIN All' :
                                 ResponsesTo(All, m)' = {j} /\ All'[j] = All[i]
          <6>1. (Answerable(m)' <=> Answerable(m)) /\ Wanted(m)' = Wanted(m)
            BY <2>1 DEF Answerable, Wanted
          <6>2. ResponsesTo(All, m)' = ResponsesTo(written \o Tail(write_strand), m)
            BY <5>1 DEF ResponsesTo
          <6>3. /\ write_strand # <<>> /\ Head(write_strand).op # "write"
                /\ written \in Seq(StrandTasks) /\ write_strand \in Seq(StrandTasks)
            BY <1>3, <2>1, <3>1, <4>2
          <6> DEFINE now == written \o write_strand
                     then == written \o Tail(write_strand)
          <6>4. SameResponse(now, then, m)
            BY <6>3, CloseGoes
          <6>5. /\ All = now /\ All' = then
                /\ ResponsesTo(All, m)' = ResponsesTo(then, m)
            BY <5>1, <6>2
          <6> HIDE DEF now, then
          <6>6. QED
            BY <6>1, <6>4, <6>5 DEF SameResponse
        <5>3. ~closed /\ (terminated' = terminated)
          BY <2>1, <3>1, <4>2
        <5>4. ASSUME NEW m \in Messages, ~terminated'
              PROVE  \/ ~Answerable(m)' /\ ResponsesTo(All, m)' = {}
                     \/ /\ Answerable(m)'
                        /\ \E j \in DOMAIN All' :
                             /\ ResponsesTo(All, m)' = {j}
                             /\ All'[j].resp = Wanted(m)'
          <6>1. CASE ~Answerable(m) /\ ResponsesTo(All, m) = {}
            BY <5>2, <6>1
          <6>2. ASSUME Answerable(m), NEW i \in DOMAIN All,
                       ResponsesTo(All, m) = {i}, All[i].resp = Wanted(m)
                PROVE  \E j \in DOMAIN All' :
                         ResponsesTo(All, m)' = {j} /\ All'[j].resp = Wanted(m)'
            <7>1. PICK j \in DOMAIN All' :
                    ResponsesTo(All, m)' = {j} /\ All'[j] = All[i]
              BY <5>2, <6>2
            <7>2. QED
              BY <5>2, <6>2, <7>1
          <6>3. \/ ~Answerable(m) /\ ResponsesTo(All, m) = {}
                \/ /\ Answerable(m)
                   /\ \E i \in DOMAIN All :
                        ResponsesTo(All, m) = {i} /\ All[i].resp = Wanted(m)
            BY <1>1, <5>3, <5>4 DEF AnsweredExactly
          <6>4. QED
            BY <5>2, <6>1, <6>2, <6>3
        <5>5. QED
          BY <5>4 DEF AnsweredExactly
      <4>3. QED
        BY <4>1, <4>2
    <3>3. AllOfDone'
      <4>1. /\ \A i \in DOMAIN written : log[written[i].id].done
            /\ \A i \in DOMAIN write_strand : log[write_strand[i].id].done
        <5>1. \A s, t \in Seq(StrandTasks) :
                /\ \A i \in DOMAIN s : i \in DOMAIN (s \o t) /\ (s \o t)[i] = s[i]
                /\ \A i \in DOMAIN t : /\ Len(s) + i \in DOMAIN (s \o t)
                                       /\ (s \o t)[Len(s) + i] = t[i]
          BY PartsOf
        <5>2. /\ \A i \in DOMAIN written : i \in DOMAIN All /\ All[i] = written[i]
              /\ \A i \in DOMAIN write_strand :
                   /\ Len(written) + i \in DOMAIN All
                   /\ All[Len(written) + i] = write_strand[i]
          BY <1>3, <5>1 DEF All
        <5>3. QED
          BY <1>1, <5>2 DEF AllOfDone
      <4> DEFINE rest == Tail(write_strand)
      <4>2. /\ rest \in Seq(StrandTasks)
            /\ \A i \in DOMAIN rest :
                 i + 1 \in DOMAIN write_strand /\ rest[i] = write_strand[i + 1]
        BY <1>3, <2>1
      <4> HIDE DEF rest
      <4>3. \A i \in DOMAIN rest : log[rest[i].id].done
        BY <4>1, <4>2
      <4>4. \A i \in DOMAIN (written \o rest) :
              \/ i \in DOMAIN written /\ (written \o rest)[i] = written[i]
              \/ /\ i - Len(written) \in DOMAIN rest
                 /\ (written \o rest)[i] = rest[i - Len(written)]
        BY <1>3, <4>2
      <4>5. \A i \in DOMAIN (written \o rest) : log[(written \o rest)[i].id].done
        BY <4>1, <4>3, <4>4
      <4>6. All' = written \o rest /\ log' = log
        BY <2>1, <3>1 DEF All, rest
      <4>7. AllOfDone' <=> \A i \in DOMAIN All' : log'[All'[i].id].done
        BY DEF AllOfDone
      <4>8. QED
        BY <4>5, <4>6, <4>7
    <3>4. QED
      BY <3>2, <3>3
  <2>4. QED
    BY <1>8, <2>2, <2>3
<1>9. ASSUME NEW w \in Workers, NEW ending \in Endings, Finish(w, ending)
      PROVE  AllOfDone' /\ AnsweredExactly'
  BY <1>9, FinishStep
<1>10. ASSUME \/ \E f \in Names : Bind(f) \/ Unbind(f)
              \/ \E w \in Workers : Take(w)
              \/ Push \/ UNCHANGED vars
       PROVE  AllOfDone' /\ AnsweredExactly'
  BY <1>4, <1>10 DEF Bind, Unbind, Rebind, Take, Push, vars
<1>11. ASSUME CloseSessions \/ OnEof PROVE AllOfDone' /\ AnsweredExactly'
  <2>1. UNCHANGED <<written, write_strand, log>> /\ closed'
    BY <1>11 DEF CloseSessions, OnEof, Close, CloseListed
  <2>2. All' = All
    BY <2>1 DEF All
  <2>3. AllOfDone'
    BY <1>1, <2>1, <2>2 DEF AllOfDone
  <2>4. QED
    BY <2>1, <2>3 DEF AnsweredExactly
<1>12. AllOfDone' /\ AnsweredExactly'
  BY <1>5, <1>6, <1>7, <1>8, <1>9, <1>10, <1>11 DEF Next, Work
<1>13. WritesAsWanted'
  BY <1>1, WantedStep
<1>14. QED
  BY <1>2, <1>12, <1>13 DEF ResponseIInv

LEMMA InitResponse == Init => ResponseIInv
<1> SUFFICES ASSUME Init PROVE ResponseIInv
  OBVIOUS
<1>1. All = <<>> /\ \A m \in Messages : ~log[m].done
  BY DEF Init, All, NoLog
<1>2. HandlerFresh
  BY DEF Init, HandlerFresh
<1>3. AllOfDone
  BY <1>1 DEF AllOfDone
<1>4. AnsweredExactly
  <2>1. \A m \in Messages : ~Answerable(m) /\ ResponsesTo(All, m) = {}
    BY <1>1 DEF Answerable, ResponsesTo
  <2>2. QED
    BY <2>1 DEF AnsweredExactly
<1>5. WritesAsWanted
  BY DEF Init, WritesAsWanted
<1>6. QED
  BY <1>2, <1>3, <1>4, <1>5 DEF ResponseIInv

(* Every reachable state: each message that is done and to be answered has its
   one response among what the strand has and had, and no other message has
   any; what is written is what the message's function asked for, also after a
   close. *)
THEOREM ResponseInvariant == Spec => []ResponseIInv
<1>1. IInv /\ IInv' /\ ResponseIInv /\ [Next]_vars => ResponseIInv'
  BY ResponseStep
<1>2. QED
  BY InitResponse, <1>1, SessionInvariant, PTL DEF Spec

(* The thread-local this_handler() carries nothing from one message to the next,
   for any number of workers and messages: each call is answered once with what
   its own function asked for, and a notification or a call whose function
   disabled the response is not answered (server_session.cpp:68-103). *)
THEOREM OwnResponses == Spec => []OwnResponse
<1>1. ResponseIInv => OwnResponse
  <2> SUFFICES ASSUME ResponseIInv, ~closed, ~terminated, NEW m \in Messages
               PROVE  /\ Cardinality(ResponsesTo(All, m))
                           = IF log[m].done /\ request[m].kind = "call" /\ log[m].enabled
                             THEN 1 ELSE 0
                      /\ \A i \in ResponsesTo(All, m) : All[i].resp = Wanted(m)
    BY DEF OwnResponse
  <2>1. \/ ~Answerable(m) /\ ResponsesTo(All, m) = {}
        \/ /\ Answerable(m)
           /\ \E i \in DOMAIN All :
                ResponsesTo(All, m) = {i} /\ All[i].resp = Wanted(m)
    BY DEF ResponseIInv, AnsweredExactly
  <2>2. CASE ~Answerable(m) /\ ResponsesTo(All, m) = {}
    BY <2>2, FS_EmptySet DEF Answerable
  <2>3. ASSUME Answerable(m), NEW i \in DOMAIN All,
               ResponsesTo(All, m) = {i}, All[i].resp = Wanted(m)
        PROVE  /\ Cardinality(ResponsesTo(All, m)) = 1
               /\ \A j \in ResponsesTo(All, m) : All[j].resp = Wanted(m)
    BY <2>3, FS_Singleton
  <2>4. QED
    BY <2>1, <2>2, <2>3 DEF Answerable
<1>2. QED
  BY <1>1, ResponseInvariant, PTL

=============================================================================
