------------------------- MODULE ClientAnswerProofs -------------------------
(* What becomes of the calls of Client: each response finds its promise, no    *)
(* entry is left behind, nothing kept is forgotten and no response ends the    *)
(* process.  For any requests and any bounds.                                  *)
EXTENDS ClientLineProofs

USE DEF ioVars, userVars, sendVars, netVars

(* What a response that is read relies on. *)
AnswersOnce == io = "running" /\ AnswerFindsCall /\ AnsweredOnce

-----------------------------------------------------------------------------
(* Who touches what. *)
LEMMA Untouched ==
  ASSUME [Next]_vars
  PROVE  /\ ongoing_calls' # ongoing_calls => RunCall \/ RunErase
         /\ pending_calls' # pending_calls => RunCall \/ RunFlush
         /\ inbox' # inbox
              => OnRead \/ \E c \in Calls, res \in {"value", "error"} : Answer(c, res)
         /\ answered' # answered
              => \E c \in Calls, res \in {"value", "error"} : Answer(c, res)
         /\ wire' # wire => Transmit
         /\ idx' # idx => \E c \in Calls : NextCallIdx(c)
         /\ is_connected' # is_connected => OnConnected
<1>1. CASE UNCHANGED vars
  BY <1>1 DEF vars
<1>2. CASE RunCall \/ RunNotify \/ RunFlush \/ RunErase
  BY <1>2 DEF RunCall, RunNotify, RunFlush, RunErase, WriteAll
<1>7. CASE OnConnected \/ OnRetry \/ OnConnectError \/ OnRead
  BY <1>7 DEF OnConnected, OnConnectFailed, OnRetry, OnConnectError, OnRead
<1>8. CASE OnReadDisconnected \/ OnReadError \/ OnWritten \/ OnBrokenPipe
             \/ OnWriteError \/ RunReturns
  BY <1>8 DEF ReadEnds, OnReadDisconnected, OnReadError, WriteDone, OnWritten,
              OnBrokenPipe, OnWriteError, RunReturns
<1>9. CASE Kernel
  BY <1>9 DEF Kernel, Settle, Transmit, FailPipe, FailOther
<1>3. CASE \E c \in Calls, res \in {"value", "error"} : Answer(c, res)
  BY <1>3 DEF Answer
<1>4. CASE \E c \in Calls : NextCallIdx(c)
  BY <1>4 DEF NextCallIdx
<1>5. CASE \/ \E c \in Calls : PostCall(c) \/ Wait(c) \/ Return(c) \/ ThrowTimeout(c)
           \/ \E n \in Notifies : Notify(n)
           \/ \E b \in Timeouts : SetTimeout(b)
           \/ Destroy \/ Accepted \/ Refused \/ Break
  BY <1>5
     DEF PostCall, PostTask, Notify, Wait, Return, ThrowTimeout, UserStep,
         SetTimeout, Destroy, Accepted, Refused, ConnectEnds, Break, Drop
<1>6. QED
  BY <1>1, <1>2, <1>7, <1>8, <1>9, <1>3, <1>4, <1>5 DEF Next, User, IoThread

RunsTask == RunCall \/ RunNotify \/ RunFlush \/ RunErase

(* A task is run from the front of the strand, and posted at its end. *)
LEMMA StrandMoves ==
  ASSUME IInv, [Next]_vars
  PROVE  \/ strand' = strand
         \/ \E c \in Calls : PostCall(c) /\ strand' = strand \o <<CallTask(c)>>
         \/ \E n \in Notifies : Notify(n) /\ strand' = strand \o <<NotifyTask(n)>>
         \/ RunsTask /\ strand = <<Head(strand)>> \o strand' /\ Head(strand) \in Tasks
         \/ OnConnected /\ strand' = strand \o <<FlushTask>>
         \/ OnRead
         \/ Destroy
<1>0. strand \in Seq(Tasks)
  BY DEF IInv, TypeOK
<1>1. ASSUME NEW t \in Tasks PROVE Append(strand, t) = strand \o <<t>>
  BY <1>0, AppendsOne
<1>2. ASSUME NEW c \in Calls, PostCall(c) PROVE strand' = strand \o <<CallTask(c)>>
  BY <1>1, <1>2 DEF PostCall, PostTask, Tasks
<1>3. ASSUME NEW n \in Notifies, Notify(n)
      PROVE  strand' = strand \o <<NotifyTask(n)>>
  BY <1>1, <1>3 DEF Notify, PostTask, Tasks
<1>4. ASSUME OnConnected PROVE strand' = strand \o <<FlushTask>>
  BY <1>1, <1>4 DEF OnConnected, Tasks
<1>5. ASSUME RunsTask
      PROVE  strand = <<Head(strand)>> \o strand' /\ Head(strand) \in Tasks
  <2>1. strand # <<>> /\ strand' = Tail(strand)
    BY <1>5 DEF RunsTask, RunCall, RunNotify, RunFlush, RunErase, RunTask
  <2>2. QED
    BY <1>0, <2>1, HeadAndTail
<1>6. CASE UNCHANGED strand
  BY <1>6
<1>7. QED
  BY <1>2, <1>3, <1>4, <1>5, <1>6
     DEF Next, vars, User, NextCallIdx, Wait, Return, ThrowTimeout, UserStep,
         SetTimeout, IoThread, RunsTask, OnConnectFailed, OnRetry,
         OnConnectError, ReadEnds, OnReadDisconnected, OnReadError, WriteDone,
         OnWritten, OnBrokenPipe, OnWriteError, RunReturns, Kernel, Settle,
         Transmit, FailPipe, FailOther, Accepted, Refused, ConnectEnds, Break,
         Drop, Answer

(* do_read() posts an erase for each response it takes. *)
LEMMA ReadPosts ==
  ASSUME IInv, NEW k \in 1 .. Len(inbox),
         strand' = strand \o [i \in 1 .. k |-> EraseTask(inbox[i].id)],
         NEW t
  PROVE  /\ k \in Nat /\ \A i \in 1 .. k : inbox[i] \in Responses
         /\ Within(strand', t) <=> \/ Within(strand, t)
                                   \/ \E i \in 1 .. k : t = EraseTask(inbox[i].id)
<1> DEFINE e == [i \in 1 .. k |-> EraseTask(inbox[i].id)]
<1>1. strand \in Seq(Tasks) /\ inbox \in Seq(Responses) /\ k \in Nat
  BY DEF IInv, TypeOK
<1>2. \A i \in 1 .. k : inbox[i] \in Responses
  BY <1>1
<1>3. \A i \in 1 .. k : EraseTask(inbox[i].id) \in Tasks
  BY <1>2 DEF Responses, Tasks
<1>4. e \in Seq(Tasks)
  BY <1>1, <1>3
<1>5. Within(e, t) <=> \E i \in 1 .. k : t = EraseTask(inbox[i].id)
  BY DEF Within
<1> HIDE DEF e
<1>6. Within(strand \o e, t) <=> Within(strand, t) \/ Within(e, t)
  BY <1>1, <1>4, WithinConcat
<1>7. QED
  BY <1>1, <1>2, <1>5, <1>6 DEF e

(* A task leaves the strand by being run, as long as the client lives. *)
LEMMA TaskStays ==
  ASSUME IInv, [Next]_vars, io' = "running", NEW t \in Tasks, Within(strand, t),
         ~Within(strand', t)
  PROVE  RunsTask /\ Head(strand) = t
<1>0. strand \in Seq(Tasks) /\ strand' \in Seq(Tasks)
  BY TypeStep DEF IInv, TypeOK
<1>1. ASSUME NEW x \in Tasks, strand' = strand \o <<x>> PROVE Within(strand', t)
  <2>1. <<x>> \in Seq(Tasks)
    OBVIOUS
  <2>2. QED
    BY <1>0, <1>1, <2>1, WithinConcat
<1>2. \A c \in Calls : CallTask(c) \in Tasks
  BY DEF Tasks
<1>3. \A n \in Notifies : NotifyTask(n) \in Tasks
  BY DEF Tasks
<1>4. FlushTask \in Tasks
  BY DEF Tasks
<1>5. CASE RunsTask /\ strand = <<Head(strand)>> \o strand' /\ Head(strand) \in Tasks
  <2> DEFINE h == Head(strand)
             s == strand'
  <2>1. h \in Tasks /\ s \in Seq(Tasks) /\ <<h>> \in Seq(Tasks) /\ strand = <<h>> \o s
    BY <1>0, <1>5
  <2> HIDE DEF h, s
  <2>2. Within(<<h>> \o s, t) => Within(<<h>>, t) \/ Within(s, t)
    BY <2>1, WithinConcat
  <2>3. Within(<<h>>, t) => h = t
    BY OneElement
  <2>4. QED
    BY <1>5, <2>1, <2>2, <2>3 DEF h, s
<1>6. CASE OnRead
  <2>1. PICK k \in 1 .. Len(inbox) :
          strand' = strand \o [i \in 1 .. k |-> EraseTask(inbox[i].id)]
    BY <1>6 DEF OnRead
  <2>2. QED
    BY <2>1, ReadPosts
<1>7. CASE Destroy
  BY <1>7 DEF Destroy
<1>8. QED
  BY <1>1, <1>2, <1>3, <1>4, <1>5, <1>6, <1>7, StrandMoves

(* A task comes to the strand from its handler. *)
LEMMA TaskComes ==
  ASSUME IInv, [Next]_vars, NEW t, Within(strand', t), ~Within(strand, t)
  PROVE  \/ \E c \in Calls : PostCall(c) /\ t = CallTask(c)
         \/ \E n \in Notifies : Notify(n) /\ t = NotifyTask(n)
         \/ OnConnected /\ t = FlushTask
         \/ OnRead
<1>0. strand \in Seq(Tasks) /\ strand' \in Seq(Tasks)
  BY TypeStep DEF IInv, TypeOK
<1>1. ASSUME NEW x \in Tasks, strand' = strand \o <<x>> PROVE t = x
  <2>1. <<x>> \in Seq(Tasks)
    OBVIOUS
  <2>2. Within(<<x>>, t)
    BY <1>0, <1>1, <2>1, WithinConcat
  <2>3. QED
    BY <2>2, OneElement
<1>2. \A c \in Calls : CallTask(c) \in Tasks
  BY DEF Tasks
<1>3. \A n \in Notifies : NotifyTask(n) \in Tasks
  BY DEF Tasks
<1>4. FlushTask \in Tasks
  BY DEF Tasks
<1>5. CASE RunsTask /\ strand = <<Head(strand)>> \o strand' /\ Head(strand) \in Tasks
  <2> DEFINE h == Head(strand)
             s == strand'
  <2>1. h \in Tasks /\ s \in Seq(Tasks) /\ <<h>> \in Seq(Tasks) /\ strand = <<h>> \o s
    BY <1>0, <1>5
  <2> HIDE DEF h, s
  <2>2. Within(s, t) => Within(<<h>> \o s, t)
    BY <2>1, WithinConcat
  <2>3. QED
    BY <2>1, <2>2 DEF h, s
<1>6. CASE Destroy
  BY <1>6 DEF Destroy, Within
<1>7. QED
  BY <1>1, <1>2, <1>3, <1>4, <1>5, <1>6, StrandMoves

-----------------------------------------------------------------------------
(* What a step leaves of futures, ids and calls that were made. *)
LEMMA SetForGood ==
  ASSUME IInv, [Next]_vars, NEW c \in Calls, future[c] # NoFuture
  PROVE  future'[c] = future[c]
BY FuturesStay DEF OnRead, Destroy, IInv

LEMMA KnownIds ==
  ASSUME IInv, [Next]_vars
  PROVE  /\ \A c \in Calls \cap Known : c \in Known' /\ idx'[c] = idx[c]
         /\ \A c, d \in Calls \cap Known : idx[c] = idx[d] => c = d
BY KnownGrows, IdStep DEF IInv, IdsDistinct

(* A response in the inbox is for a call that was made, and says what the
   server answered. *)
LEMMA InboxCalls ==
  ASSUME IInv, NEW i \in DOMAIN inbox
  PROVE  /\ inbox[i] \in Responses
         /\ inbox[i].of \in Calls \cap Known
         /\ inbox[i].id = idx[inbox[i].of]
         /\ inbox[i].id \in 0 .. MaxIdx
         /\ inbox[i].res = answered[inbox[i].of]
<1>1. inbox \in Seq(Responses) /\ InboxMatches
  BY DEF IInv, TypeOK
<1>2. inbox[i] \in Responses
  BY <1>1
<1>3. QED
  BY <1>1, <1>2 DEF InboxMatches, Responses

(* A call that is on the wire is registered and not on the strand any more. *)
LEMMA SentIsGone ==
  ASSUME IInv, IInv', OnePlace, io = "running", NEW c \in Calls, Within(wire, c)
  PROVE  /\ stage[c] \notin {"idle", "numbered"}
         /\ ~Within(strand, CallTask(c))
<1>1. c \in Requests
  BY DEF Requests
<1>2. /\ wire \in Seq(Frames) /\ Unsent \in Seq(Frames)
      /\ pending_calls \in Seq(Frames) /\ Coming \in Seq(Frames)
      /\ Copies(c) = Count(Coming, c) + Count(pending_calls, c)
                       + Count(Unsent, c) + Count(wire, c)
  BY <1>1, CopiesInLine
<1>3. /\ Count(Coming, c) \in Nat /\ Count(pending_calls, c) \in Nat
      /\ Count(Unsent, c) \in Nat /\ Count(wire, c) \in Nat
      /\ Count(wire, c) # 0
  BY <1>2, CountIn
<1>4. Copies(c) = IF stage[c] \in {"idle", "numbered"} THEN 0 ELSE 1
  BY DEF OnePlace
<1>5. stage[c] \notin {"idle", "numbered"} /\ Count(Coming, c) = 0
  BY <1>2, <1>3, <1>4
<1>6. strand \in Seq(Tasks)
  BY DEF IInv, TypeOK
<1>7. Count(strand, CallTask(c)) = 0
  BY <1>1, <1>5, <1>6, CarriedCount DEF Coming
<1>8. QED
  BY <1>5, <1>6, <1>7, CountIn

(* A call that the server has not answered has an open future, as long as the
   client lives. *)
LEMMA UnansweredIsOpen ==
  ASSUME IInv, BrokenAtEnd, io = "running", NEW c \in Calls, answered[c] = "none"
  PROVE  future[c] = NoFuture
<1>1. future[c] \in Futures /\ future[c] # Broken
  BY DEF IInv, TypeOK, BrokenAtEnd
<1>2. future[c].res \in {"value", "error"} => future[c] = [of |-> c, res |-> "none"]
  BY DEF IInv, RightAnswer
<1>3. future[c].res \notin {"value", "error"}
  BY <1>2
<1>4. QED
  BY <1>1, <1>3 DEF Futures

-----------------------------------------------------------------------------
(* do_read() finds for each response a promise that is not set, and sets it. *)
LEMMA ReadHits ==
  ASSUME IInv, AnswersOnce, NEW k \in 1 .. Len(inbox), NEW c \in Calls
  PROVE  /\ \A i \in Hits(k, c) : i \in DOMAIN inbox /\ inbox[i].of = c
         /\ Hits(k, c) # {} => future[c] = NoFuture
         /\ \A i, j \in Hits(k, c) : i = j
         /\ \A i \in 1 .. k : inbox[i].of = c => i \in Hits(k, c)
<1>0. io = "running" /\ AnswerFindsCall /\ AnsweredOnce
  BY DEF AnswersOnce
<1>1. inbox \in Seq(Responses) /\ k \in Nat /\ 1 .. k \subseteq DOMAIN inbox
  BY DEF IInv, TypeOK
<1>2. \A i \in 1 .. k : /\ ongoing_calls[inbox[i].id] = inbox[i].of
                        /\ future[inbox[i].of] = NoFuture
  BY <1>0, <1>1 DEF AnswerFindsCall
<1>3. \A i \in Hits(k, c) : i \in 1 .. k /\ inbox[i].of = c
  BY <1>2 DEF Hits
<1>4. \A i, j \in Hits(k, c) : i = j
  BY <1>0, <1>1, <1>3 DEF AnsweredOnce
<1>5. QED
  BY <1>1, <1>2, <1>3, <1>4 DEF Hits

(* So a response that is read never makes the handler throw, and each call
   that was read has its outcome. *)
LEMMA ReadSets ==
  ASSUME IInv, AnswersOnce, NEW k \in 1 .. Len(inbox)
  PROVE  /\ ~SetTwice(k)
         /\ \A c \in Calls :
              LET f == IF Hits(k, c) = {} \/ future[c] # NoFuture THEN future[c]
                       ELSE LET i == CHOOSE j \in Hits(k, c) : TRUE
                            IN  [of |-> inbox[i].of, res |-> inbox[i].res]
              IN  /\ f # future[c] <=> \E i \in 1 .. k : inbox[i].of = c
                  /\ f # future[c] => f.res \in {"value", "error"}
<1>1. ~SetTwice(k)
  BY ReadHits DEF SetTwice
<1>2. ASSUME NEW c \in Calls
      PROVE  LET f == IF Hits(k, c) = {} \/ future[c] # NoFuture THEN future[c]
                      ELSE LET i == CHOOSE j \in Hits(k, c) : TRUE
                           IN  [of |-> inbox[i].of, res |-> inbox[i].res]
             IN  /\ f # future[c] <=> \E i \in 1 .. k : inbox[i].of = c
                 /\ f # future[c] => f.res \in {"value", "error"}
  <2>1. CASE Hits(k, c) = {}
    BY <2>1, ReadHits
  <2>2. CASE Hits(k, c) # {}
    <3> DEFINE i == CHOOSE j \in Hits(k, c) : TRUE
               f == [of |-> inbox[i].of, res |-> inbox[i].res]
    <3>1. i \in Hits(k, c)
      BY <2>2
    <3> HIDE DEF i
    <3>a. i \in 1 .. k
      BY <3>1 DEF Hits
    <3>2. i \in DOMAIN inbox /\ inbox[i].of = c /\ future[c] = NoFuture
      BY <2>2, <3>1, ReadHits
    <3>3. f.res \in {"value", "error"}
      BY <3>2, InboxCalls DEF Responses
    <3>4. f # future[c]
      BY <3>2, <3>3 DEF NoFuture
    <3>5. QED
      BY <2>2, <3>a, <3>2, <3>3, <3>4 DEF i
  <2>3. QED
    BY <2>1, <2>2
<1>3. QED
  BY <1>1, <1>2

(* What do_read() leaves in a step that does not throw. *)
LEMMA ReadEffect ==
  ASSUME IInv, AnswersOnce, OnRead
  PROVE  \E k \in 1 .. Len(inbox) :
           /\ inbox' = SubSeq(inbox, k + 1, Len(inbox))
           /\ Len(inbox') = Len(inbox) - k
           /\ \A i \in DOMAIN inbox' :
                k + i \in DOMAIN inbox /\ inbox'[i] = inbox[k + i]
           /\ io' = "running"
           /\ \A c \in Calls :
                /\ future'[c] # future[c] <=> \E i \in 1 .. k : inbox[i].of = c
                /\ future'[c] # future[c] => future'[c].res \in {"value", "error"}
           /\ \A t : Within(strand', t)
                       <=> \/ Within(strand, t)
                           \/ \E i \in 1 .. k : t = EraseTask(inbox[i].id)
<1>1. PICK k \in 1 .. Len(inbox) :
        /\ inbox' = SubSeq(inbox, k + 1, Len(inbox))
        /\ future' = [c \in Calls |->
                        IF Hits(k, c) = {} \/ future[c] # NoFuture THEN future[c]
                        ELSE LET i == CHOOSE j \in Hits(k, c) : TRUE
                             IN  [of |-> inbox[i].of, res |-> inbox[i].res]]
        /\ io' = IF SetTwice(k) THEN "terminated" ELSE io
        /\ strand' = strand \o [i \in 1 .. k |-> EraseTask(inbox[i].id)]
  BY DEF OnRead
<1>2. inbox \in Seq(Responses) /\ k \in Nat
  BY DEF IInv, TypeOK
<1>3. /\ Len(inbox') = Len(inbox) - k
      /\ \A i \in DOMAIN inbox' :
           k + i \in DOMAIN inbox /\ inbox'[i] = inbox[k + i]
  BY <1>1, <1>2
<1>4. io' = "running"
  BY <1>1, ReadSets DEF AnswersOnce
<1>5. \A c \in Calls :
        /\ future'[c] # future[c] <=> \E i \in 1 .. k : inbox[i].of = c
        /\ future'[c] # future[c] => future'[c].res \in {"value", "error"}
  <2> SUFFICES ASSUME NEW c \in Calls
               PROVE  /\ future'[c] # future[c] <=> \E i \in 1 .. k : inbox[i].of = c
                      /\ future'[c] # future[c] => future'[c].res \in {"value", "error"}
    OBVIOUS
  <2>1. future'[c] = IF Hits(k, c) = {} \/ future[c] # NoFuture THEN future[c]
                     ELSE LET i == CHOOSE j \in Hits(k, c) : TRUE
                          IN  [of |-> inbox[i].of, res |-> inbox[i].res]
    BY <1>1
  <2>2. QED
    BY <2>1, ReadSets
<1>6. \A t : Within(strand', t)
               <=> \/ Within(strand, t)
                   \/ \E i \in 1 .. k : t = EraseTask(inbox[i].id)
  BY <1>1, ReadPosts
<1>7. QED
  BY <1>1, <1>3, <1>4, <1>5, <1>6

-----------------------------------------------------------------------------
(* The steps of the inductive invariant, a part at a time. *)
LEMMA SentStep ==
  ASSUME IInv, OnRead => AnswersOnce, AnsweredSent, AnsweredOnce, [Next]_vars
  PROVE  AnsweredSent' /\ AnsweredOnce'
<1>0. wire \in Seq(Requests) /\ inbox \in Seq(Responses)
      /\ answered \in [Calls -> Outcomes]
  BY DEF IInv, TypeOK
<1>1. ASSUME NEW c \in Calls, Within(wire, c) PROVE Within(wire', c)
  <2>1. CASE wire' = wire
    BY <1>1, <2>1
  <2>2. CASE Transmit
    <3>1. wire' = wire \/ wire' = Append(wire, Head(write_queue))
      BY <2>2 DEF Transmit
    <3>2. QED
      BY <1>0, <1>1, <3>1 DEF Within
  <2>3. QED
    BY <2>1, <2>2, Untouched
<1>2. ASSUME NEW c \in Calls, NEW res \in {"value", "error"}, Answer(c, res)
      PROVE  AnsweredSent' /\ AnsweredOnce'
  <2>1. /\ Within(wire, c) /\ answered[c] = "none"
        /\ answered' = [answered EXCEPT ![c] = res]
        /\ inbox' = Append(inbox, [id |-> idx[c], of |-> c, res |-> res])
    BY <1>2 DEF Answer, Within
  <2>2. AnsweredSent'
    BY <1>0, <1>1, <2>1 DEF AnsweredSent
  <2>3. \A i \in DOMAIN inbox : inbox[i].of # c
    BY <2>1, InboxCalls DEF Responses
  <2>4. AnsweredOnce'
    BY <1>0, <2>1, <2>3 DEF AnsweredOnce
  <2>5. QED
    BY <2>2, <2>4
<1>3. CASE ~ \E c \in Calls, res \in {"value", "error"} : Answer(c, res)
  <2>1. answered' = answered
    BY <1>3, Untouched
  <2>2. AnsweredSent'
    BY <1>1, <2>1 DEF AnsweredSent
  <2>3. CASE inbox' = inbox
    BY <2>2, <2>3 DEF AnsweredOnce
  <2>4. CASE OnRead
    <3>1. PICK k \in 1 .. Len(inbox) :
            /\ Len(inbox') = Len(inbox) - k
            /\ \A i \in DOMAIN inbox' :
                 k + i \in DOMAIN inbox /\ inbox'[i] = inbox[k + i]
      BY <2>4, ReadEffect
    <3>2. inbox' \in Seq(Responses) /\ k \in Nat
      BY TypeStep DEF TypeOK
    <3>3. ASSUME NEW i \in DOMAIN inbox', NEW j \in DOMAIN inbox',
                 inbox'[i].of = inbox'[j].of
          PROVE  i = j
      <4>1. k + i = k + j
        BY <3>1, <3>3 DEF AnsweredOnce
      <4>2. i \in Nat /\ j \in Nat
        BY <3>2
      <4>3. QED
        BY <3>2, <4>1, <4>2
    <3>4. AnsweredOnce'
      BY <3>3 DEF AnsweredOnce
    <3>5. QED
      BY <2>2, <3>4
  <2>5. QED
    BY <1>3, <2>3, <2>4, Untouched
<1>4. QED
  BY <1>2, <1>3

LEMMA EraseStep ==
  ASSUME IInv, IInv', OnRead => AnswersOnce, EraseResolved, [Next]_vars
  PROVE  EraseResolved'
<1>0. strand \in Seq(Tasks) /\ strand' \in Seq(Tasks)
  BY DEF IInv, TypeOK
<1>1. SUFFICES ASSUME NEW t, Within(strand', t), t.op = "erase"
               PROVE  \E c \in Calls \cap Known' : idx'[c] = t.arg /\ future'[c] # NoFuture
  BY DEF EraseResolved, Within
<1>2. CASE Within(strand, t)
  <2>1. PICK c \in Calls \cap Known : idx[c] = t.arg /\ future[c] # NoFuture
    BY <1>1, <1>2 DEF EraseResolved, Within
  <2>2. QED
    BY <2>1, KnownIds, SetForGood
<1>3. CASE ~Within(strand, t)
  <2>1. OnRead
    BY <1>1, <1>3, TaskComes DEF CallTask, NotifyTask, FlushTask
  <2>2. PICK k \in 1 .. Len(inbox) :
          /\ \A c \in Calls :
               future'[c] # future[c] <=> \E i \in 1 .. k : inbox[i].of = c
          /\ \A x : Within(strand', x)
                      <=> \/ Within(strand, x)
                          \/ \E i \in 1 .. k : x = EraseTask(inbox[i].id)
    BY <2>1, ReadEffect
  <2>3. PICK i \in 1 .. k : t = EraseTask(inbox[i].id)
    BY <1>1, <1>3, <2>2
  <2>4. i \in DOMAIN inbox
    BY SMTT(30) DEF IInv, TypeOK
  <2>5. /\ inbox[i].of \in Calls \cap Known
        /\ inbox[i].id = idx[inbox[i].of]
    BY <2>4, InboxCalls
  <2>6. future'[inbox[i].of] # NoFuture
    <3>1. future[inbox[i].of] = NoFuture
      BY <2>1, <2>4 DEF AnswersOnce, AnswerFindsCall
    <3>2. QED
      BY <2>2, <2>5, <3>1
  <2>7. QED
    BY <2>3, <2>5, <2>6, KnownIds DEF EraseTask
<1>4. QED
  BY <1>2, <1>3

LEMMA BrokenStep ==
  ASSUME IInv, OnRead => AnswersOnce, BrokenAtEnd, [Next]_vars
  PROVE  BrokenAtEnd'
<1> SUFFICES ASSUME io' # "destroyed", NEW c \in Calls PROVE future'[c] # Broken
  BY DEF BrokenAtEnd
<1>1. CASE OnRead
  <2>1. future'[c] # future[c] => future'[c].res \in {"value", "error"}
    BY <1>1, ReadEffect
  <2>2. future[c] # Broken
    BY <1>1 DEF BrokenAtEnd, OnRead
  <2>3. QED
    BY <2>1, <2>2 DEF Broken
<1>2. CASE future' = future /\ io # "destroyed"
  BY <1>2 DEF BrokenAtEnd
<1>3. io = "destroyed" => io' = "destroyed"
  BY DEF Next, vars, User, NextCallIdx, PostCall, PostTask, Notify, Wait,
         Return, ThrowTimeout, UserStep, SetTimeout, Usable, Destroy, IoThread,
         RunTask, RunCall, RunNotify, RunFlush, RunErase, OnConnected,
         OnConnectFailed, OnRetry, OnConnectError, OnRead, ReadEnds,
         OnReadDisconnected, OnReadError, WriteDone, OnWritten, OnBrokenPipe,
         OnWriteError, RunReturns, Kernel, Settle, Transmit, FailPipe,
         FailOther, Accepted, Refused, ConnectEnds, Break, Drop, Answer
<1>4. QED
  BY <1>1, <1>2, <1>3, FuturesStay DEF Destroy, IInv

LEMMA CrashStep ==
  ASSUME IInv, OnRead => AnswersOnce, ConnectedDone, CrashOnlyUnreachable,
         [Next]_vars
  PROVE  ConnectedDone' /\ CrashOnlyUnreachable'
<1>1. CASE UNCHANGED <<is_connected, connect_op, failures, io>>
  BY <1>1 DEF ConnectedDone, CrashOnlyUnreachable
<1>2. CASE OnConnected \/ OnRetry \/ OnConnectError \/ Accepted \/ Refused
  BY <1>2
     DEF ConnectedDone, CrashOnlyUnreachable, OnConnected, OnConnectFailed,
         OnRetry, OnConnectError, Accepted, Refused, ConnectEnds, IInv, TypeOK
<1>3. CASE OnRead
  <2>1. io' = "running"
    BY <1>3, ReadEffect
  <2>2. UNCHANGED <<is_connected, connect_op>>
    BY <1>3 DEF OnRead
  <2>3. QED
    BY <2>1, <2>2 DEF ConnectedDone, CrashOnlyUnreachable
<1>4. CASE RunReturns \/ Destroy
  BY <1>4 DEF RunReturns, Destroy, ConnectedDone, CrashOnlyUnreachable
<1>5. QED
  BY <1>1, <1>2, <1>3, <1>4
     DEF Next, vars, User, NextCallIdx, PostCall, PostTask, Notify, Wait,
         Return, ThrowTimeout, UserStep, SetTimeout, IoThread, RunCall,
         RunNotify, RunFlush, RunErase, ReadEnds, OnReadDisconnected,
         OnReadError, WriteDone, OnWritten, OnBrokenPipe, OnWriteError, Kernel,
         Settle, Transmit, FailPipe, FailOther, Break, Drop, Answer

(* Within says what the counts of the invariants say. *)
LEMMA CountWithin ==
  ASSUME NEW S, NEW s \in Seq(S), NEW r
  PROVE  Count(s, r) > 0 <=> Within(s, r)
<1>1. Count(s, r) \in Nat /\ (Count(s, r) = 0 <=> ~Within(s, r))
  BY CountIn
<1>2. QED
  BY <1>1

LEMMA PendingStep ==
  ASSUME IInv, IInv', PendingHasFlush, [Next]_vars
  PROVE  PendingHasFlush'
<1>0. /\ pending_calls \in Seq(Frames) /\ strand \in Seq(Tasks)
      /\ pending_calls' \in Seq(Frames) /\ strand' \in Seq(Tasks)
  BY DEF IInv, TypeOK
<1>1. SUFFICES ASSUME NEW c \in Calls, Within(pending_calls', c),
                      is_connected', io' = "running"
               PROVE  Within(strand', FlushTask)
  <2>1. /\ \A c \in Calls : Count(pending_calls', c) > 0 <=> Within(pending_calls', c)
        /\ Count(strand', FlushTask) > 0 <=> Within(strand', FlushTask)
    BY <1>0, CountWithin
  <2>2. QED
    BY <2>1 DEF PendingHasFlush
<1>2. io = "running"
  BY <1>1, IoStays
<1>3. c # Empty
  BY RequestAssumption
<1>4. pending_calls' = pending_calls
  <2>1. ASSUME RunCall \/ RunFlush, pending_calls' # pending_calls PROVE FALSE
    <3>1. CASE pending_calls' = MovedFrom(pending_calls)
      BY <1>0, <1>1, <1>3, <3>1, MovedFromHolds
    <3>2. CASE RunCall /\ ~is_connected
      BY <1>1, <3>2 DEF RunCall
    <3>3. QED
      BY <2>1, <3>1, <3>2 DEF RunCall, RunFlush
  <2>2. QED
    BY <2>1, Untouched
<1>5. CASE OnConnected
  <2>1. strand' = strand \o <<FlushTask>> /\ <<FlushTask>> \in Seq(Tasks)
    BY <1>0, <1>5, AppendsOne DEF OnConnected, Tasks
  <2>2. Within(<<FlushTask>>, FlushTask)
    BY OneElement
  <2>3. QED
    BY <1>0, <2>1, <2>2, WithinConcat
<1>6. CASE ~OnConnected
  <2>a. /\ Count(pending_calls, c) > 0 <=> Within(pending_calls, c)
        /\ Count(strand, FlushTask) > 0 <=> Within(strand, FlushTask)
    BY <1>0, CountWithin
  <2>b. is_connected
    BY <1>1, <1>6, Untouched
  <2>1. Within(strand, FlushTask)
    BY <1>1, <1>2, <1>4, <2>a, <2>b DEF PendingHasFlush
  <2>2. FlushTask \in Tasks
    BY DEF Tasks
  <2>3. ASSUME ~Within(strand', FlushTask) PROVE FALSE
    <3>1. RunsTask /\ Head(strand) = FlushTask
      BY <1>1, <2>1, <2>2, <2>3, TaskStays
    <3>2. RunFlush
      BY <3>1 DEF RunsTask, RunCall, RunNotify, RunErase, RunTask, FlushTask
    <3>3. pending_calls' = MovedFrom(pending_calls)
      BY <3>2 DEF RunFlush
    <3>4. QED
      BY <1>0, <1>1, <1>3, <3>3, MovedFromHolds
  <2>4. QED
    BY <2>3
<1>7. QED
  BY <1>5, <1>6

(* Entries of ongoing_calls change one at a time: under the id of the call that
   is stored, or of one that is resolved. *)
LEMMA EntriesChange ==
  ASSUME IInv, EraseResolved, [Next]_vars, NEW i \in 0 .. MaxIdx,
         ongoing_calls'[i] # ongoing_calls[i]
  PROVE  \/ RunCall /\ \E c \in Calls \cap Known :
              /\ Head(strand) = CallTask(c) /\ Within(strand, CallTask(c))
              /\ idx[c] = i /\ ongoing_calls'[i] = c
         \/ RunErase /\ ongoing_calls'[i] = NoCall /\ \E c \in Calls \cap Known :
              idx[c] = i /\ future[c] # NoFuture
<1>0. /\ strand \in Seq(KnownTasks) /\ TypeOK /\ KnownOnly
      /\ ongoing_calls \in [0 .. MaxIdx -> Calls \cup {NoCall}]
  BY DEF IInv, KnownOnly, TypeOK
<1>1. CASE RunCall
  <2> DEFINE c == Head(strand).arg
  <2>1. c \in Calls \cap Known /\ strand # <<>> /\ Head(strand).op = "call"
    BY <1>0, <1>1, HeadTask DEF RunCall, RunTask
  <2>2. Head(strand) \in KnownTasks /\ strand[1] = Head(strand) /\ 1 \in DOMAIN strand
    BY <1>0, <2>1
  <2>3. Head(strand) = CallTask(c)
    BY <2>1, <2>2 DEF KnownTasks, CallTask, NotifyTask, FlushTask, EraseTask
  <2>4. Within(strand, CallTask(c))
    BY <2>2, <2>3 DEF Within
  <2>5. ongoing_calls' = [ongoing_calls EXCEPT ![idx[c]] = c]
    BY <1>1 DEF RunCall, Register
  <2>6. idx[c] = i /\ ongoing_calls'[i] = c
    BY <1>0, <2>5
  <2>7. QED
    BY <1>1, <2>1, <2>3, <2>4, <2>6
<1>2. CASE RunErase
  <2> DEFINE j == Head(strand).arg
  <2>1. strand # <<>> /\ Head(strand).op = "erase"
    BY <1>2 DEF RunErase, RunTask
  <2>2. strand[1] = Head(strand) /\ 1 \in DOMAIN strand
    BY <1>0, <2>1
  <2>3. PICK c \in Calls \cap Known : idx[c] = j /\ future[c] # NoFuture
    BY <2>1, <2>2 DEF EraseResolved
  <2>4. ongoing_calls' = [ongoing_calls EXCEPT ![j] = NoCall]
    BY <1>2 DEF RunErase
  <2>5. j = i /\ ongoing_calls'[i] = NoCall
    BY <1>0, <2>4
  <2>6. QED
    BY <1>2, <2>3, <2>5
<1>3. QED
  BY <1>1, <1>2, Untouched

LEMMA RegisteredStep ==
  ASSUME IInv, IInv', Registered, EraseResolved, [Next]_vars
  PROVE  Registered'
<1>1. SUFFICES ASSUME io' = "running", NEW c \in Calls,
                      stage'[c] \notin {"idle", "numbered"}, future'[c] = NoFuture
               PROVE  \/ ongoing_calls'[idx'[c]] = c
                      \/ Within(strand', CallTask(c))
  BY DEF Registered
<1>2. io = "running" /\ future[c] = NoFuture
  BY <1>1, IoStays, SetForGood
<1>3. CASE stage[c] \in {"idle", "numbered"}
  <2>1. PostCall(c)
    BY <1>1, <1>3, StageSteps
  <2>2. strand \in Seq(Tasks) /\ strand' = Append(strand, CallTask(c))
        /\ CallTask(c) \in Tasks
    BY <2>1 DEF IInv, TypeOK, PostCall, PostTask, Tasks
  <2>3. /\ strand' = strand \o <<CallTask(c)>>
        /\ <<CallTask(c)>> \in Seq(Tasks) /\ strand \in Seq(Tasks)
    BY <2>2, AppendsOne
  <2>4. Within(<<CallTask(c)>>, CallTask(c))
    BY OneElement
  <2>5. QED
    BY <2>3, <2>4, WithinConcat
<1>4. CASE stage[c] \notin {"idle", "numbered"}
  <2>1. c \in Calls \cap Known
    BY <1>4 DEF Known, Requests
  <2>2. idx'[c] = idx[c] /\ idx[c] \in 0 .. MaxIdx
    BY <2>1, KnownIds DEF IInv, TypeOK
  <2>3. ongoing_calls[idx[c]] = c \/ Within(strand, CallTask(c))
    BY <1>2, <1>4 DEF Registered
  <2>4. CASE ongoing_calls[idx[c]] = c
    <3>1. ASSUME ongoing_calls'[idx[c]] # c PROVE FALSE
      <4>1. \E d \in Calls \cap Known :
              /\ idx[d] = idx[c]
              /\ d # c \/ future[d] # NoFuture
        BY <2>2, <2>4, <3>1, EntriesChange
      <4>2. QED
        BY <1>2, <2>1, <4>1, KnownIds
    <3>2. QED
      BY <2>2, <3>1
  <2>5. CASE Within(strand, CallTask(c))
    <3>1. CallTask(c) \in Tasks
      BY DEF Tasks
    <3>2. CASE RunsTask /\ Head(strand) = CallTask(c)
      <4>1. RunCall
        BY <3>2 DEF RunsTask, RunNotify, RunFlush, RunErase, RunTask, CallTask
      <4>2. Head(strand).arg = c
        BY <3>2 DEF CallTask
      <4>3. ongoing_calls' = [ongoing_calls EXCEPT ![idx[c]] = c]
        BY <4>1, <4>2 DEF RunCall, Register
      <4>4. ongoing_calls'[idx[c]] = c
        BY <2>2, <4>3 DEF IInv, TypeOK
      <4>5. QED
        BY <2>2, <4>4
    <3>3. QED
      BY <1>1, <2>5, <3>1, <3>2, TaskStays
  <2>6. QED
    BY <2>3, <2>4, <2>5
<1>5. QED
  BY <1>3, <1>4

LEMMA FindsStep ==
  ASSUME IInv, IInv', OnePlace, Registered, EraseResolved, BrokenAtEnd,
         AnswerFindsCall, AnsweredOnce, [Next]_vars
  PROVE  AnswerFindsCall'
<1>1. SUFFICES ASSUME io' = "running", NEW i \in DOMAIN inbox'
               PROVE  /\ ongoing_calls'[inbox'[i].id] = inbox'[i].of
                      /\ future'[inbox'[i].of] = NoFuture
  BY DEF AnswerFindsCall
<1>2. io = "running" /\ AnswersOnce
  BY <1>1, IoStays DEF AnswersOnce
<1>3. ASSUME NEW j \in DOMAIN inbox
      PROVE  ongoing_calls'[inbox[j].id] = inbox[j].of
  <2>1. /\ ongoing_calls[inbox[j].id] = inbox[j].of
        /\ future[inbox[j].of] = NoFuture
    BY <1>2, <1>3 DEF AnswerFindsCall
  <2>2. /\ inbox[j].of \in Calls \cap Known /\ inbox[j].id = idx[inbox[j].of]
        /\ inbox[j].id \in 0 .. MaxIdx
    BY InboxCalls
  <2>3. ASSUME ongoing_calls'[inbox[j].id] # inbox[j].of PROVE FALSE
    <3>1. \E d \in Calls \cap Known :
            /\ idx[d] = inbox[j].id
            /\ d # inbox[j].of \/ future[d] # NoFuture
      BY <2>1, <2>2, <2>3, EntriesChange
    <3>2. QED
      BY <2>1, <2>2, <3>1, KnownIds
  <2>4. QED
    BY <2>3
<1>4. CASE inbox' = inbox
  <2>1. ~OnRead
    BY SMTT(30), <1>2, <1>4, ReadEffect DEF IInv, TypeOK
  <2>2. future' = future
    BY <1>1, <2>1, FuturesStay DEF Destroy, IInv
  <2>3. QED
    BY <1>1, <1>2, <1>3, <1>4, <2>2 DEF AnswerFindsCall
<1>5. CASE OnRead
  <2>1. PICK k \in 1 .. Len(inbox) :
          /\ \A x \in DOMAIN inbox' :
               k + x \in DOMAIN inbox /\ inbox'[x] = inbox[k + x]
          /\ \A c \in Calls :
               future'[c] # future[c] <=> \E x \in 1 .. k : inbox[x].of = c
    BY <1>2, <1>5, ReadEffect
  <2>2. k + i \in DOMAIN inbox /\ inbox'[i] = inbox[k + i]
    BY <2>1
  <2>3. inbox[k + i].of \in Calls /\ future[inbox[k + i].of] = NoFuture
    BY <1>2, <2>2, InboxCalls DEF AnswerFindsCall
  <2>4. ASSUME NEW x \in 1 .. k, inbox[x].of = inbox[k + i].of PROVE FALSE
    <3>1. x \in DOMAIN inbox /\ x # k + i
      <4>1. inbox \in Seq(Responses) /\ inbox' \in Seq(Responses)
        BY DEF IInv, TypeOK
      <4>2. i \in Nat /\ i > 0 /\ k \in Nat /\ k <= Len(inbox)
        BY <4>1
      <4>3. QED
        BY <4>1, <4>2
    <3>2. QED
      BY <2>2, <2>4, <3>1 DEF AnsweredOnce
  <2>5. future'[inbox[k + i].of] = NoFuture
    BY <2>1, <2>3, <2>4
  <2>6. QED
    BY <1>3, <2>2, <2>5
<1>6. ASSUME NEW c \in Calls, NEW res \in {"value", "error"}, Answer(c, res)
      PROVE  /\ ongoing_calls'[inbox'[i].id] = inbox'[i].of
             /\ future'[inbox'[i].of] = NoFuture
  <2>1. /\ Within(wire, c) /\ answered[c] = "none"
        /\ inbox' = Append(inbox, [id |-> idx[c], of |-> c, res |-> res])
        /\ future' = future /\ ongoing_calls' = ongoing_calls
    BY <1>6 DEF Answer, Within
  <2>2. inbox \in Seq(Responses)
    BY DEF IInv, TypeOK
  <2>3. CASE i \in DOMAIN inbox
    <3>1. inbox'[i] = inbox[i]
      BY <2>1, <2>2, <2>3
    <3>2. QED
      BY <1>2, <2>1, <2>3, <3>1 DEF AnswerFindsCall
  <2>4. CASE i \notin DOMAIN inbox
    <3>1. inbox'[i] = [id |-> idx[c], of |-> c, res |-> res]
      BY <2>1, <2>2, <2>4
    <3>2. future[c] = NoFuture
      BY <1>2, <2>1, UnansweredIsOpen
    <3>3. stage[c] \notin {"idle", "numbered"} /\ ~Within(strand, CallTask(c))
      BY <1>2, <2>1, SentIsGone
    <3>4. ongoing_calls[idx[c]] = c
      BY <1>2, <3>2, <3>3 DEF Registered
    <3>5. QED
      BY <2>1, <3>1, <3>2, <3>4
  <2>5. QED
    BY <2>3, <2>4
<1>7. QED
  BY <1>4, <1>5, <1>6, Untouched

LEMMA LeakStep ==
  ASSUME IInv, IInv', OnePlace, AnsweredSent, EraseResolved, BrokenAtEnd,
         AnswerFindsCall, AnsweredOnce, NoLeak, [Next]_vars
  PROVE  NoLeak'
<1>0. /\ strand \in Seq(Tasks) /\ strand' \in Seq(Tasks)
      /\ ongoing_calls \in [0 .. MaxIdx -> Calls \cup {NoCall}]
      /\ ongoing_calls' \in [0 .. MaxIdx -> Calls \cup {NoCall}]
      /\ inbox \in Seq(Responses)
  BY DEF IInv, TypeOK
<1>1. SUFFICES ASSUME io' = "running", NEW i \in 0 .. MaxIdx,
                      ongoing_calls'[i] # NoCall, future'[ongoing_calls'[i]] # NoFuture
               PROVE  Within(strand', EraseTask(i))
  <2>1. \A i \in 0 .. MaxIdx :
          Within(strand', EraseTask(i)) => Count(strand', EraseTask(i)) > 0
    BY <1>0, CountWithin
  <2>2. DOMAIN ongoing_calls' = 0 .. MaxIdx
    BY <1>0
  <2>3. QED
    BY <2>1, <2>2 DEF NoLeak
<1>2. io = "running" /\ AnswersOnce
  BY <1>1, IoStays DEF AnswersOnce
<1>3. EraseTask(i) \in Tasks
  BY DEF Tasks
<1>4. CASE ongoing_calls'[i] # ongoing_calls[i]
  <2>1. PICK c \in Calls \cap Known :
          /\ RunCall /\ Within(strand, CallTask(c)) /\ ongoing_calls'[i] = c
    BY <1>1, <1>4, EntriesChange
  <2>2. future[c] # NoFuture
    BY <1>1, <2>1 DEF RunCall
  <2>3. answered[c] # "none"
    BY <1>2, <2>2, UnansweredIsOpen
  <2>4. Within(wire, c)
    BY <2>3 DEF AnsweredSent
  <2>5. QED
    BY <1>2, <2>1, <2>4, SentIsGone
<1>5. CASE ongoing_calls'[i] = ongoing_calls[i]
  <2> DEFINE c == ongoing_calls[i]
  <2>1. c \in Calls /\ c \in Known /\ idx[c] = i
    BY <1>0, <1>1, <1>5 DEF IInv, EntriesMatch
  <2>2. CASE future[c] # NoFuture
    <3>1. Within(strand, EraseTask(i))
      <4>1. Count(strand, EraseTask(i)) > 0
        BY <1>0, <1>1, <1>2, <1>5, <2>2 DEF NoLeak
      <4>2. QED
        BY <1>0, <4>1, CountWithin
    <3>2. ASSUME RunsTask, Head(strand) = EraseTask(i) PROVE FALSE
      <4>1. RunErase
        BY <3>2 DEF RunsTask, RunCall, RunNotify, RunFlush, RunTask, EraseTask
      <4>2. Head(strand).arg = i
        BY <3>2 DEF EraseTask
      <4>3. ongoing_calls' = [ongoing_calls EXCEPT ![i] = NoCall]
        BY <4>1, <4>2 DEF RunErase
      <4>4. QED
        BY <1>0, <1>1, <4>3
    <3>3. QED
      BY <1>1, <1>3, <3>1, <3>2, TaskStays
  <2>3. CASE future[c] = NoFuture
    <3>1. OnRead
      BY <1>1, <1>5, <2>3, FuturesStay DEF Destroy, IInv
    <3>2. PICK k \in 1 .. Len(inbox) :
            /\ \A d \in Calls :
                 future'[d] # future[d] <=> \E x \in 1 .. k : inbox[x].of = d
            /\ \A t : Within(strand', t)
                        <=> \/ Within(strand, t)
                            \/ \E x \in 1 .. k : t = EraseTask(inbox[x].id)
      BY <1>2, <3>1, ReadEffect
    <3>3. PICK x \in 1 .. k : inbox[x].of = c
      BY <1>1, <1>5, <2>1, <2>3, <3>2
    <3>4. x \in DOMAIN inbox
      BY <1>0
    <3>5. inbox[x].id = i
      BY <2>1, <3>3, <3>4, InboxCalls
    <3>6. QED
      BY <3>2, <3>5
  <2>4. QED
    BY <2>2, <2>3
<1>6. QED
  BY <1>4, <1>5

LEMMA InitAnswer == Init => AnswerIInv
<1> SUFFICES ASSUME Init PROVE AnswerIInv
  OBVIOUS
<1>1. /\ strand = <<>> /\ pending_calls = <<>> /\ inbox = <<>> /\ ~is_connected
      /\ io = "running" /\ \A c \in Calls : answered[c] = "none"
      /\ \A c \in Calls : future[c] = NoFuture
      /\ \A r \in Requests : stage[r] = "idle"
      /\ ongoing_calls = [i \in 0 .. MaxIdx |-> NoCall]
  BY DEF Init
<1>2. \A c \in Calls : NoFuture # Broken /\ stage[c] = "idle"
  BY <1>1 DEF NoFuture, Broken, Requests
<1>3. AnsweredSent /\ AnsweredOnce /\ Registered /\ EraseResolved
  BY <1>1, <1>2 DEF AnsweredSent, AnsweredOnce, Registered, EraseResolved
<1>4. /\ BrokenAtEnd /\ ConnectedDone /\ AnswerFindsCall /\ NoLeak
      /\ PendingHasFlush /\ CrashOnlyUnreachable
  BY <1>1, <1>2
     DEF BrokenAtEnd, ConnectedDone, AnswerFindsCall, NoLeak, PendingHasFlush,
         CrashOnlyUnreachable
<1>5. QED
  BY <1>3, <1>4 DEF AnswerIInv

LEMMA AnswerIInvStep ==
  IInv /\ IInv' /\ OnePlace /\ AnswerIInv /\ [Next]_vars => AnswerIInv'
<1> SUFFICES ASSUME IInv, IInv', OnePlace, AnswerIInv, [Next]_vars
             PROVE  AnswerIInv'
  OBVIOUS
<1>1. OnRead => AnswersOnce
  BY DEF AnswerIInv, AnswersOnce, OnRead
<1>2. AnsweredSent' /\ AnsweredOnce'
  BY <1>1, SentStep DEF AnswerIInv
<1>3. Registered' /\ EraseResolved'
  BY <1>1, RegisteredStep, EraseStep DEF AnswerIInv
<1>4. BrokenAtEnd' /\ ConnectedDone' /\ CrashOnlyUnreachable'
  BY <1>1, BrokenStep, CrashStep DEF AnswerIInv
<1>5. AnswerFindsCall' /\ NoLeak' /\ PendingHasFlush'
  BY FindsStep, LeakStep, PendingStep DEF AnswerIInv
<1>6. QED
  BY <1>2, <1>3, <1>4, <1>5 DEF AnswerIInv

LEMMA CallIInvStep ==
  ASSUME IInv, IInv', CallIInv, [Next]_vars
  PROVE  CallIInv'
<1>1. PlaceIInv /\ AnswerIInv /\ OrderIInv /\ AheadIInv
  BY DEF CallIInv
<1>2. PlaceIInv'
  BY <1>1, PlaceStep
<1>3. OrderIInv' /\ AheadIInv'
  BY <1>1, OrderStep, AheadStep
<1>4. AnswerIInv'
  BY <1>1, <1>2, AnswerIInvStep DEF PlaceIInv
<1>5. QED
  BY <1>2, <1>3, <1>4 DEF CallIInv

LEMMA InitCall == Init => CallIInv
BY InitPlace, InitOrder, InitAnswer, InitAhead DEF CallIInv

(* The inductive invariant of the calls. *)
THEOREM CallInvariant == Spec => []CallIInv
<1>1. IInv /\ IInv' /\ CallIInv /\ [Next]_vars => CallIInv'
  BY CallIInvStep
<1>2. Init => CallIInv
  BY InitCall
<1>3. QED
  BY <1>1, <1>2, ClientInvariant, PTL DEF Spec

(* A response that do_read() reads finds its promise, still open, under its
   id, also if the caller timed out: the entry is registered before the call
   can be answered and erased only after its future is set. *)
THEOREM AnswersFindCalls == Spec => []AnswerFindsCall
<1>1. CallIInv => AnswerFindsCall
  BY DEF CallIInv, AnswerIInv
<1>2. QED
  BY <1>1, CallInvariant, PTL

(* ongoing_calls keeps no entry of a resolved call but those that an erase on
   the strand is about to remove. *)
THEOREM NothingLeaks == Spec => []NoLeak
<1>1. CallIInv => NoLeak
  BY DEF CallIInv, AnswerIInv
<1>2. QED
  BY <1>1, CallInvariant, PTL

(* Once connected, the calls kept in pending_calls have a flush coming. *)
THEOREM PendingIsFlushed == Spec => []PendingHasFlush
<1>1. CallIInv => PendingHasFlush
  BY DEF CallIInv, AnswerIInv
<1>2. QED
  BY <1>1, CallInvariant, PTL

(* No response makes do_read() throw: the io thread dies only of a connection
   that was never established, after all its attempts. *)
THEOREM OnlyUnreachableCrashes == Spec => []CrashOnlyUnreachable
<1>1. CallIInv => CrashOnlyUnreachable
  BY DEF CallIInv, AnswerIInv
<1>2. QED
  BY <1>1, CallInvariant, PTL

=============================================================================
