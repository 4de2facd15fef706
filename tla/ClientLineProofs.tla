-------------------------- MODULE ClientLineProofs --------------------------
(* Where the requests of Client are, and in which order: proofs for any        *)
(* requests and any bounds.                                                    *)
EXTENDS ClientProofs, FiniteSetTheorems

USE DEF ioVars, userVars, sendVars, netVars

-----------------------------------------------------------------------------
(* Lemmas about the elements of sequences: how often one occurs, whether it
   does, and which of two comes first. *)

LEMMA ConcatAt ==
  ASSUME NEW S, NEW s \in Seq(S), NEW t \in Seq(S)
  PROVE  /\ s \o t \in Seq(S) /\ Len(s \o t) = Len(s) + Len(t)
         /\ \A i \in 1 .. Len(s) + Len(t) :
              (s \o t)[i] = IF i <= Len(s) THEN s[i] ELSE t[i - Len(s)]
OBVIOUS

LEMMA CountIn ==
  ASSUME NEW S, NEW s \in Seq(S), NEW r
  PROVE  /\ IsFiniteSet({i \in DOMAIN s : s[i] = r})
         /\ Count(s, r) \in Nat
         /\ Count(s, r) = 0 <=> ~Within(s, r)
<1> DEFINE A == {i \in DOMAIN s : s[i] = r}
<1>1. IsFiniteSet(DOMAIN s)
  BY FS_Interval
<1>2. IsFiniteSet(A)
  BY <1>1, FS_Subset
<1>3. Cardinality(A) \in Nat
  BY <1>2, FS_CardinalityType
<1>4. Cardinality(A) = 0 <=> A = {}
  BY <1>2, FS_EmptySet
<1>5. A = {} <=> ~Within(s, r)
  BY DEF Within
<1>6. QED
  BY <1>2, <1>3, <1>4, <1>5 DEF Count

LEMMA CountConcat ==
  ASSUME NEW S, NEW s \in Seq(S), NEW t \in Seq(S), NEW r
  PROVE  Count(s \o t, r) = Count(s, r) + Count(t, r)
<1> DEFINE A == {i \in DOMAIN s : s[i] = r}
           B == {i \in DOMAIN t : t[i] = r}
           D == {i \in DOMAIN (s \o t) : i > Len(s) /\ (s \o t)[i] = r}
           f == [i \in B |-> i + Len(s)]
<1>1. /\ s \o t \in Seq(S) /\ Len(s \o t) = Len(s) + Len(t)
      /\ \A i \in 1 .. Len(s) : (s \o t)[i] = s[i]
      /\ \A i \in 1 .. Len(t) : (s \o t)[i + Len(s)] = t[i]
  OBVIOUS
<1>2. {i \in DOMAIN (s \o t) : (s \o t)[i] = r} = A \cup D
  BY <1>1
<1>3. A \cap D = {}
  OBVIOUS
<1>4. IsFiniteSet(A) /\ IsFiniteSet(B)
  BY CountIn
<1>5. f \in [B -> D]
  BY <1>1
<1>6. \A i, j \in B : f[i] = f[j] => i = j
  OBVIOUS
<1>7. ASSUME NEW d \in D PROVE \E i \in B : f[i] = d
  <2>1. d - Len(s) \in 1 .. Len(t) /\ d = (d - Len(s)) + Len(s)
    BY <1>1
  <2>2. t[d - Len(s)] = r
    BY <1>1, <2>1
  <2>3. d - Len(s) \in B
    BY <2>1, <2>2
  <2>4. QED
    BY <2>1, <2>3
<1>8. ExistsBijection(B, D)
  <2> HIDE DEF B, D, f
  <2>1. f \in Injection(B, D)
    BY <1>5, <1>6 DEF Injection, IsInjective
  <2>2. f \in Surjection(B, D)
    BY <1>5, <1>7 DEF Surjection
  <2>3. QED
    BY <2>1, <2>2 DEF Bijection, ExistsBijection
<1>9. IsFiniteSet(D) /\ Cardinality(D) = Cardinality(B)
  BY <1>4, <1>8, FS_Bijection
<1>10. /\ Cardinality(A) \in Nat /\ Cardinality(D) \in Nat
       /\ Cardinality({}) = 0
  BY <1>4, <1>9, FS_CardinalityType, FS_EmptySet
<1>11. Cardinality(A \cup D) = Cardinality(A) + Cardinality(D)
  <2> HIDE DEF A, D
  <2>1. Cardinality(A \cup D)
          = Cardinality(A) + Cardinality(D) - Cardinality(A \cap D)
    BY <1>4, <1>9, FS_Union
  <2>2. Cardinality(A \cap D) = 0
    BY <1>3, <1>10, Zenon
  <2>3. QED
    BY <1>10, <2>1, <2>2
<1>12. QED
  BY <1>2, <1>9, <1>11 DEF Count

LEMMA CountOne ==
  ASSUME NEW x, NEW r
  PROVE  Count(<<x>>, r) = IF x = r THEN 1 ELSE 0
<1>1. {i \in DOMAIN <<x>> : <<x>>[i] = r} = IF x = r THEN {1} ELSE {}
  OBVIOUS
<1>2. QED
  BY <1>1, FS_Singleton, FS_EmptySet DEF Count

LEMMA WithinConcat ==
  ASSUME NEW S, NEW s \in Seq(S), NEW t \in Seq(S), NEW r
  PROVE  Within(s \o t, r) <=> Within(s, r) \/ Within(t, r)
<1>1. /\ s \o t \in Seq(S) /\ Len(s \o t) = Len(s) + Len(t)
      /\ \A i \in 1 .. Len(s) : (s \o t)[i] = s[i]
      /\ \A i \in 1 .. Len(t) : (s \o t)[i + Len(s)] = t[i]
      /\ \A i \in Len(s) + 1 .. Len(s) + Len(t) : (s \o t)[i] = t[i - Len(s)]
  OBVIOUS
<1>2. ASSUME Within(s \o t, r) PROVE Within(s, r) \/ Within(t, r)
  <2>1. PICK i \in 1 .. Len(s) + Len(t) : (s \o t)[i] = r
    BY <1>1, <1>2 DEF Within
  <2>2. CASE i <= Len(s)
    BY <1>1, <2>1, <2>2 DEF Within
  <2>3. CASE i > Len(s)
    <3>1. i - Len(s) \in 1 .. Len(t) /\ t[i - Len(s)] = r
      BY <1>1, <2>1, <2>3
    <3>2. QED
      BY <3>1 DEF Within
  <2>4. QED
    BY <2>1, <2>2, <2>3
<1>3. ASSUME Within(s, r) PROVE Within(s \o t, r)
  BY <1>1, <1>3 DEF Within
<1>4. ASSUME Within(t, r) PROVE Within(s \o t, r)
  <2>1. PICK i \in 1 .. Len(t) : t[i] = r
    BY <1>4 DEF Within
  <2>2. i + Len(s) \in 1 .. Len(s \o t) /\ (s \o t)[i + Len(s)] = r
    BY <1>1, <2>1
  <2>3. QED
    BY <1>1, <2>2 DEF Within
<1>5. QED
  BY <1>2, <1>3, <1>4

LEMMA PrecedesConcat ==
  ASSUME NEW S, NEW s \in Seq(S), NEW t \in Seq(S), NEW a, NEW b
  PROVE  Precedes(s \o t, a, b)
           <=> \/ Precedes(s, a, b) \/ Precedes(t, a, b)
               \/ Within(s, a) /\ Within(t, b)
<1> DEFINE u == s \o t
<1>1. /\ u \in Seq(S) /\ Len(u) = Len(s) + Len(t)
      /\ \A i \in 1 .. Len(s) : u[i] = s[i]
      /\ \A i \in 1 .. Len(t) : u[i + Len(s)] = t[i]
      /\ \A i \in Len(s) + 1 .. Len(s) + Len(t) :
           i - Len(s) \in 1 .. Len(t) /\ u[i] = t[i - Len(s)]
  OBVIOUS
<1> HIDE DEF u
<1>2. ASSUME Precedes(u, a, b)
      PROVE  \/ Precedes(s, a, b) \/ Precedes(t, a, b)
             \/ Within(s, a) /\ Within(t, b)
  <2>1. PICK i, j \in 1 .. Len(s) + Len(t) : i < j /\ u[i] = a /\ u[j] = b
    BY <1>1, <1>2 DEF Precedes
  <2>2. CASE j <= Len(s)
    <3>1. i \in 1 .. Len(s) /\ j \in 1 .. Len(s)
      BY <2>1, <2>2
    <3>2. s[i] = a /\ s[j] = b
      BY <1>1, <2>1, <3>1
    <3>3. Precedes(s, a, b)
      BY <2>1, <3>1, <3>2 DEF Precedes
    <3>4. QED
      BY <3>3
  <2>3. CASE i > Len(s)
    <3>1. /\ i - Len(s) \in 1 .. Len(t) /\ j - Len(s) \in 1 .. Len(t)
          /\ t[i - Len(s)] = a /\ t[j - Len(s)] = b /\ i - Len(s) < j - Len(s)
      BY <1>1, <2>1, <2>3
    <3>2. Precedes(t, a, b)
      BY <3>1 DEF Precedes
    <3>3. QED
      BY <3>2
  <2>4. CASE i <= Len(s) /\ j > Len(s)
    <3>1. i \in 1 .. Len(s) /\ s[i] = a
      BY <1>1, <2>1, <2>4
    <3>2. j - Len(s) \in 1 .. Len(t) /\ t[j - Len(s)] = b
      BY <1>1, <2>1, <2>4
    <3>3. Within(s, a) /\ Within(t, b)
      BY <3>1, <3>2 DEF Within
    <3>4. QED
      BY <3>3
  <2>5. QED
    BY <2>1, <2>2, <2>3, <2>4
<1>3. ASSUME Precedes(s, a, b) PROVE Precedes(u, a, b)
  <2>1. PICK i, j \in 1 .. Len(s) : i < j /\ s[i] = a /\ s[j] = b
    BY <1>3 DEF Precedes
  <2>2. i \in 1 .. Len(u) /\ j \in 1 .. Len(u) /\ u[i] = a /\ u[j] = b
    BY <1>1, <2>1
  <2>3. QED
    BY <1>1, <2>1, <2>2 DEF Precedes
<1>4. ASSUME Precedes(t, a, b) PROVE Precedes(u, a, b)
  <2>1. PICK i, j \in 1 .. Len(t) : i < j /\ t[i] = a /\ t[j] = b
    BY <1>4 DEF Precedes
  <2>2. /\ i + Len(s) \in 1 .. Len(u) /\ j + Len(s) \in 1 .. Len(u)
        /\ u[i + Len(s)] = a /\ u[j + Len(s)] = b /\ i + Len(s) < j + Len(s)
    BY <1>1, <2>1
  <2>3. QED
    BY <1>1, <2>2 DEF Precedes
<1>5. ASSUME Within(s, a), Within(t, b) PROVE Precedes(u, a, b)
  <2>1. PICK i \in 1 .. Len(s) : s[i] = a
    BY <1>5 DEF Within
  <2>2. PICK j \in 1 .. Len(t) : t[j] = b
    BY <1>5 DEF Within
  <2>3. /\ i \in DOMAIN u /\ j + Len(s) \in DOMAIN u
        /\ u[i] = a /\ u[j + Len(s)] = b /\ i < j + Len(s)
    BY <1>1, <2>1, <2>2
  <2>4. QED
    BY <2>3 DEF Precedes
<1>6. QED
  BY <1>2, <1>3, <1>4, <1>5 DEF u

(* One element, none, and the two ends of a sequence. *)
LEMMA OneElement ==
  ASSUME NEW x, NEW a, NEW b
  PROVE  (Within(<<x>>, a) <=> x = a) /\ ~Precedes(<<x>>, a, b)
BY DEF Within, Precedes

LEMMA HeadAndTail ==
  ASSUME NEW S, NEW s \in Seq(S), s # <<>>
  PROVE  /\ Head(s) \in S /\ Tail(s) \in Seq(S)
         /\ s = <<Head(s)>> \o Tail(s)
OBVIOUS

LEMMA AppendsOne ==
  ASSUME NEW S, NEW s \in Seq(S), NEW x \in S
  PROVE  Append(s, x) = s \o <<x>> /\ <<x>> \in Seq(S)
OBVIOUS

(* What was moved from holds no request. *)
LEMMA MovedFromHolds ==
  ASSUME NEW S, NEW s \in Seq(S), NEW a, NEW b, a # Empty
  PROVE  ~Within(MovedFrom(s), a) /\ ~Precedes(MovedFrom(s), a, b)
BY DEF MovedFrom, Within, Precedes

-----------------------------------------------------------------------------
(* The line's last part: what the tasks of the strand carry. *)
Coming == Carried(strand)

LEMMA CarriedOne ==
  ASSUME NEW t
  PROVE  Carried(<<t>>) =
           <<IF t.op \in {"call", "notify"} THEN t.arg ELSE Empty>>
BY DEF Carried

LEMMA CarriedTypes ==
  ASSUME NEW s \in Seq(Tasks)
  PROVE  Carried(s) \in Seq(Frames)
<1>1. \A t \in Tasks :
        (IF t.op \in {"call", "notify"} THEN t.arg ELSE Empty) \in Frames
  BY DEF Tasks, CallTask, NotifyTask, FlushTask, EraseTask, Frames, Requests
<1>2. \A i \in DOMAIN s : s[i] \in Tasks
  OBVIOUS
<1>3. QED
  BY <1>1, <1>2 DEF Carried

LEMMA CarriedConcat ==
  ASSUME NEW s \in Seq(Tasks), NEW t \in Seq(Tasks)
  PROVE  Carried(s \o t) = Carried(s) \o Carried(t)
<1>1. /\ s \o t \in Seq(Tasks) /\ Len(s \o t) = Len(s) + Len(t)
      /\ \A i \in 1 .. Len(s) : (s \o t)[i] = s[i]
      /\ \A i \in Len(s) + 1 .. Len(s) + Len(t) :
           i - Len(s) \in 1 .. Len(t) /\ (s \o t)[i] = t[i - Len(s)]
  OBVIOUS
<1>2. /\ Carried(s) \in Seq(Frames) /\ Len(Carried(s)) = Len(s)
      /\ Carried(t) \in Seq(Frames) /\ Len(Carried(t)) = Len(t)
      /\ Carried(s \o t) \in Seq(Frames) /\ Len(Carried(s \o t)) = Len(s) + Len(t)
  <2>1. ASSUME NEW u \in Seq(Tasks) PROVE Len(Carried(u)) = Len(u)
    BY DEF Carried
  <2>2. QED
    BY <1>1, <2>1, CarriedTypes
<1> DEFINE both == Carried(s) \o Carried(t)
<1>3. /\ both \in Seq(Frames) /\ Len(both) = Len(s) + Len(t)
      /\ \A i \in 1 .. Len(s) : both[i] = Carried(s)[i]
      /\ \A i \in Len(s) + 1 .. Len(s) + Len(t) : both[i] = Carried(t)[i - Len(s)]
  BY <1>2
<1> HIDE DEF both
<1>4. \A i \in 1 .. Len(s) + Len(t) : Carried(s \o t)[i] = both[i]
  <2> SUFFICES ASSUME NEW i \in 1 .. Len(s) + Len(t)
               PROVE  Carried(s \o t)[i] = both[i]
    OBVIOUS
  <2>1. CASE i <= Len(s)
    <3>1. i \in 1 .. Len(s) /\ (s \o t)[i] = s[i] /\ both[i] = Carried(s)[i]
      BY <1>1, <1>3, <2>1
    <3>2. QED
      BY <1>1, <3>1 DEF Carried
  <2>2. CASE i > Len(s)
    <3>1. /\ i - Len(s) \in 1 .. Len(t) /\ (s \o t)[i] = t[i - Len(s)]
          /\ both[i] = Carried(t)[i - Len(s)]
      BY <1>1, <1>3, <2>2
    <3>2. QED
      BY <1>1, <3>1 DEF Carried
  <2>3. QED
    BY <2>1, <2>2
<1>5. QED
  BY <1>2, <1>3, <1>4 DEF both

(* A task that carries a request is the one of its kind. *)
LEMMA CarriedCount ==
  ASSUME NEW s \in Seq(Tasks), NEW r \in Requests
  PROVE  /\ Count(s, CallTask(r)) + Count(s, NotifyTask(r)) = Count(Carried(s), r)
         /\ r \in Calls => Count(s, CallTask(r)) = Count(Carried(s), r)
<1>1. \A i \in DOMAIN s : s[i] \in Tasks
  OBVIOUS
<1>2. \A t \in Tasks :
        LET x == IF t.op \in {"call", "notify"} THEN t.arg ELSE Empty IN
          /\ r \in Calls => (t = CallTask(r) <=> x = r) /\ t # NotifyTask(r)
          /\ r \in Notifies => (t = NotifyTask(r) <=> x = r) /\ t # CallTask(r)
  BY RequestAssumption
     DEF Tasks, CallTask, NotifyTask, FlushTask, EraseTask, Requests
<1>3. DOMAIN Carried(s) = DOMAIN s
  BY DEF Carried
<1>4. ASSUME r \in Calls
      PROVE  /\ Count(s, CallTask(r)) = Count(Carried(s), r)
             /\ Count(s, NotifyTask(r)) = 0
  <2>1. {i \in DOMAIN s : s[i] = CallTask(r)}
          = {i \in DOMAIN Carried(s) : Carried(s)[i] = r}
    BY <1>1, <1>2, <1>3, <1>4 DEF Carried
  <2>2. Count(s, CallTask(r)) = Count(Carried(s), r)
    BY <2>1 DEF Count
  <2>3. ~Within(s, NotifyTask(r))
    BY <1>1, <1>2, <1>4 DEF Within
  <2>4. QED
    BY <2>2, <2>3, CountIn
<1>5. ASSUME r \in Notifies
      PROVE  /\ Count(s, NotifyTask(r)) = Count(Carried(s), r)
             /\ Count(s, CallTask(r)) = 0
  <2>1. {i \in DOMAIN s : s[i] = NotifyTask(r)}
          = {i \in DOMAIN Carried(s) : Carried(s)[i] = r}
    BY <1>1, <1>2, <1>3, <1>5 DEF Carried
  <2>2. Count(s, NotifyTask(r)) = Count(Carried(s), r)
    BY <2>1 DEF Count
  <2>3. ~Within(s, CallTask(r))
    BY <1>1, <1>2, <1>5 DEF Within
  <2>4. QED
    BY <2>2, <2>3, CountIn
<1>6. Count(Carried(s), r) \in Nat
  BY CarriedTypes, CountIn
<1>7. QED
  BY <1>4, <1>5, <1>6, RequestAssumption DEF Requests

-----------------------------------------------------------------------------
(* What a step does to the line: its four parts are wire, Unsent, pending_calls
   and Coming. *)

(* A user's thread posts r. *)
Joins(r) ==
  /\ Coming' = Coming \o <<r>>
  /\ UNCHANGED <<wire, Unsent, pending_calls>>

(* A call is kept until the connection is up. *)
IsKept(c) ==
  /\ Coming = <<c>> \o Coming'
  /\ pending_calls' = pending_calls \o <<c>>
  /\ UNCHANGED <<wire, Unsent>>

(* A call is written behind the kept ones. *)
IsWritten(c) ==
  /\ Coming = <<c>> \o Coming'
  /\ Unsent' = Unsent \o (pending_calls \o <<c>>)
  /\ pending_calls' = MovedFrom(pending_calls)
  /\ wire' = wire

(* A notification is written. *)
Overtakes(n) ==
  /\ Coming = <<n>> \o Coming'
  /\ Unsent' = Unsent \o <<n>>
  /\ UNCHANGED <<wire, pending_calls>>

Flushes ==
  /\ Coming = <<Empty>> \o Coming'
  /\ Unsent' = Unsent \o pending_calls
  /\ pending_calls' = MovedFrom(pending_calls)
  /\ wire' = wire

(* A task that carries nothing is run, and such tasks are posted. *)
RunsEmpty ==
  /\ Coming = <<Empty>> \o Coming'
  /\ UNCHANGED <<wire, Unsent, pending_calls>>

AddsEmpty ==
  /\ \E e \in Seq({Empty}) : Coming' = Coming \o e
  /\ UNCHANGED <<wire, Unsent, pending_calls>>

(* The kernel takes a frame. *)
IsTaken(f) ==
  /\ Unsent = <<f>> \o Unsent'
  /\ \/ f = Empty /\ wire' = wire
     \/ f # Empty /\ wire' = wire \o <<f>>
  /\ UNCHANGED <<pending_calls, Coming>>

(* A notification is given up on a broken pipe. *)
IsGivenUp(n) ==
  /\ Unsent = <<n>> \o Unsent'
  /\ UNCHANGED <<wire, pending_calls, Coming>>

Stays == UNCHANGED <<wire, Unsent, pending_calls, Coming>>

(* The destructor drops what is on the strand. *)
IsCut ==
  /\ Coming' = <<>>
  /\ UNCHANGED <<wire, Unsent, pending_calls>>

Moves ==
  \/ \E c \in Calls : (IsKept(c) \/ IsWritten(c)) /\ io = "running"
  \/ \E n \in Notifies : Overtakes(n)
  \/ Flushes
  \/ RunsEmpty
  \/ AddsEmpty
  \/ \E f \in Frames : IsTaken(f)
  \/ \E n \in Notifies : IsGivenUp(n) /\ write_op = "broken_pipe"
  \/ Stays
  \/ IsCut /\ io' = "destroyed"

LEMMA TailConcat ==
  ASSUME NEW S, NEW s \in Seq(S), NEW t \in Seq(S), s # <<>>
  PROVE  Tail(s \o t) = Tail(s) \o t
<1>1. /\ s \o t \in Seq(S) /\ Len(s \o t) = Len(s) + Len(t) /\ Len(s) > 0
      /\ \A i \in 1 .. Len(s) + Len(t) :
           (s \o t)[i] = IF i <= Len(s) THEN s[i] ELSE t[i - Len(s)]
  OBVIOUS
<1> DEFINE u == s \o t
<1>2. /\ Tail(u) \in Seq(S) /\ Len(Tail(u)) = Len(s) + Len(t) - 1
      /\ \A i \in 1 .. Len(s) + Len(t) - 1 : Tail(u)[i] = u[i + 1]
  <2>1. u \in Seq(S) /\ u # <<>> /\ Len(u) = Len(s) + Len(t)
    BY <1>1
  <2> HIDE DEF u
  <2>2. QED
    BY <2>1
<1> DEFINE h == Tail(s)
<1>3. /\ h \in Seq(S) /\ Len(h) = Len(s) - 1
      /\ \A i \in 1 .. Len(s) - 1 : h[i] = s[i + 1]
  BY <1>1
<1> HIDE DEF h
<1>4. /\ h \o t \in Seq(S) /\ Len(h \o t) = Len(s) + Len(t) - 1
      /\ \A i \in 1 .. Len(s) + Len(t) - 1 :
           (h \o t)[i] = IF i <= Len(s) - 1 THEN h[i] ELSE t[i - (Len(s) - 1)]
  <2>1. /\ h \o t \in Seq(S) /\ Len(h \o t) = Len(h) + Len(t)
        /\ \A i \in 1 .. Len(h) + Len(t) :
             (h \o t)[i] = IF i <= Len(h) THEN h[i] ELSE t[i - Len(h)]
    BY <1>3, ConcatAt
  <2>2. Len(h) = Len(s) - 1 /\ Len(h) + Len(t) = Len(s) + Len(t) - 1
    BY <1>1, <1>3
  <2>3. QED
    BY <2>1, <2>2
<1>5. ASSUME NEW i \in 1 .. Len(s) + Len(t) - 1 PROVE Tail(u)[i] = (h \o t)[i]
  <2>1. CASE i <= Len(s) - 1
    <3>1. i + 1 \in 1 .. Len(s) + Len(t) /\ i + 1 <= Len(s) /\ i \in 1 .. Len(s) - 1
      BY <1>1, <2>1
    <3>2. QED
      BY <1>1, <1>2, <1>3, <1>4, <2>1, <3>1
  <2>2. CASE i > Len(s) - 1
    <3>1. /\ i + 1 \in 1 .. Len(s) + Len(t) /\ ~(i + 1 <= Len(s))
          /\ (i + 1) - Len(s) = i - (Len(s) - 1)
      BY <1>1, <2>2
    <3>2. QED
      BY <1>1, <1>2, <1>4, <2>2, <3>1
  <2>3. i <= Len(s) - 1 \/ i > Len(s) - 1
    BY <1>1
  <2>4. QED
    BY <2>1, <2>2, <2>3
<1>6. Tail(u) = h \o t
  <2> DEFINE x == Tail(u)
             y == h \o t
             k == Len(s) + Len(t) - 1
  <2>1. /\ x \in Seq(S) /\ y \in Seq(S) /\ Len(x) = k /\ Len(y) = k
        /\ \A i \in 1 .. k : x[i] = y[i]
    BY <1>2, <1>4, <1>5
  <2> HIDE DEF x, y, k
  <2>2. x = y
    BY <2>1
  <2>3. QED
    BY <2>2 DEF x, y
<1>7. QED
  BY <1>6 DEF h

LEMMA UnsentType ==
  ASSUME NEW S, write_queue \in Seq(S), WriteHasFrame
  PROVE  Unsent \in Seq(S)
BY DEF Unsent, WriteHasFrame

(* What is written goes to the end of what is unsent. *)
LEMMA WritesAtEnd ==
  ASSUME NEW S, write_queue \in Seq(S), NEW s \in Seq(S), WriteAll(s),
         WriteHasFrame
  PROVE  Unsent' = Unsent \o s
<1>1. /\ write_queue' = write_queue \o s
      /\ write_op' = IF write_queue = <<>> /\ s # <<>> THEN "pending"
                     ELSE write_op
  BY DEF WriteAll
<1>2. CASE write_op = "ok"
  <2>1. write_queue # <<>> /\ write_op' = "ok"
    BY <1>1, <1>2 DEF WriteHasFrame
  <2>2. Tail(write_queue \o s) = Tail(write_queue) \o s
    BY <2>1, TailConcat
  <2>3. QED
    BY <1>1, <1>2, <2>1, <2>2 DEF Unsent
<1>3. CASE write_op # "ok"
  BY <1>1, <1>3 DEF Unsent
<1>4. QED
  BY <1>2, <1>3

(* A completed write was of the first frame that is unsent. *)
LEMMA WriteTakes ==
  ASSUME NEW S, write_queue \in Seq(S), WriteHasFrame
  PROVE  /\ Transmit => /\ Unsent = <<Head(write_queue)>> \o Unsent'
                        /\ Head(write_queue) \in S
         /\ FailPipe \/ FailOther => Unsent' = Unsent
         /\ OnWritten \/ OnWriteError => Unsent' = Unsent
         /\ OnBrokenPipe =>
              \/ Unsent' = Unsent
              \/ /\ Unsent = <<Head(write_queue)>> \o Unsent'
                 /\ Head(write_queue) \in Notifies
<1>1. write_op # "none" => /\ Head(write_queue) \in S
                           /\ write_queue = <<Head(write_queue)>> \o Tail(write_queue)
  BY HeadAndTail DEF WriteHasFrame
<1>2. Transmit \/ FailPipe \/ FailOther
        => write_op = "pending" /\ write_queue' = write_queue
  BY DEF Transmit, FailPipe, FailOther, Settle
<1>3. Transmit => write_op' = "ok"
  BY DEF Transmit, Settle
<1>4. FailPipe \/ FailOther => write_op' \in {"broken_pipe", "error"}
  BY DEF FailPipe, FailOther, Settle
<1>5. PopFront => write_queue' = Tail(write_queue) /\ write_op' \in {"pending", "none"}
  BY DEF PopFront
<1>6. QED
  BY <1>1, <1>2, <1>3, <1>4, <1>5
     DEF Unsent, OnWritten, OnWriteError, OnBrokenPipe, WriteDone

LEMMA RunsHead ==
  ASSUME IInv, NEW op, RunTask(op)
  PROVE  /\ strand \in Seq(Tasks) /\ strand' \in Seq(Tasks)
         /\ Coming = <<IF op \in {"call", "notify"} THEN Head(strand).arg
                       ELSE Empty>> \o Coming'
<1>1. /\ strand \in Seq(Tasks) /\ strand # <<>> /\ strand' = Tail(strand)
      /\ Head(strand).op = op
  BY DEF RunTask, IInv, TypeOK
<1>2. strand = <<Head(strand)>> \o Tail(strand) /\ <<Head(strand)>> \in Seq(Tasks)
  BY <1>1, HeadAndTail
<1>3. Carried(strand) = Carried(<<Head(strand)>>) \o Carried(Tail(strand))
  BY <1>1, <1>2, HeadAndTail, CarriedConcat
<1>4. QED
  BY <1>1, <1>3, CarriedOne, HeadAndTail DEF Coming

LEMMA PostsTask ==
  ASSUME strand \in Seq(Tasks), NEW t \in Tasks, strand' = Append(strand, t)
  PROVE  Coming' = Coming \o <<IF t.op \in {"call", "notify"} THEN t.arg ELSE Empty>>
<1>1. strand' = strand \o <<t>> /\ <<t>> \in Seq(Tasks)
  BY AppendsOne
<1>2. Carried(strand') = Carried(strand) \o Carried(<<t>>)
  BY <1>1, CarriedConcat
<1>3. QED
  BY <1>2, CarriedOne DEF Coming

(* A user's thread that posts puts its request at the end of the line. *)
LEMMA PostMoves ==
  ASSUME IInv, NEW r \in Requests, NEW t, PostTask(r, t),
         \/ r \in Calls /\ t = CallTask(r)
         \/ r \in Notifies /\ t = NotifyTask(r)
  PROVE  Joins(r)
<1>1. t \in Tasks /\ t.op \in {"call", "notify"} /\ t.arg = r
  BY DEF Tasks, CallTask, NotifyTask
<1>2. strand \in Seq(Tasks) /\ strand' = Append(strand, t)
  BY DEF PostTask, IInv, TypeOK
<1>3. Coming' = Coming \o <<r>>
  BY <1>1, <1>2, PostsTask
<1>4. UNCHANGED <<wire, Unsent, pending_calls>>
  BY DEF PostTask, Unsent
<1>5. QED
  BY <1>3, <1>4 DEF Joins

(* Every other step of the client moves the line in one of these ways. *)
LEMMA IoMoves == ASSUME IInv, IoThread PROVE Moves
<1>0. /\ strand \in Seq(Tasks) /\ write_queue \in Seq(Frames)
      /\ pending_calls \in Seq(Frames) /\ WriteHasFrame /\ inbox \in Seq(Responses)
  BY DEF IInv, TypeOK
<1>1. CASE RunCall
  <2> DEFINE c == Head(strand).arg
  <2>1. c \in Calls /\ Coming = <<c>> \o Coming' /\ io = "running"
    BY <1>1, RunsHead, HeadTask DEF RunCall, IInv, RunTask
  <2>2. c \in Frames
    BY <2>1 DEF Frames, Requests
  <2>3. /\ Append(pending_calls, c) = pending_calls \o <<c>>
        /\ Append(pending_calls, c) \in Seq(Frames)
    BY <1>0, <2>2, AppendsOne
  <2>4. CASE WriteAll(Append(pending_calls, c))
             /\ pending_calls' = MovedFrom(pending_calls)
    <3>1. Unsent' = Unsent \o (pending_calls \o <<c>>)
      BY <1>0, <2>3, <2>4, WritesAtEnd
    <3>2. wire' = wire
      BY <2>4 DEF WriteAll
    <3>3. IsWritten(c)
      BY <2>1, <2>4, <3>1, <3>2 DEF IsWritten
    <3>4. QED
      BY <2>1, <3>3 DEF Moves
  <2>5. CASE pending_calls' = Append(pending_calls, c) /\ UNCHANGED sendVars
    <3>1. IsKept(c)
      BY <2>1, <2>3, <2>5 DEF IsKept, Unsent
    <3>2. QED
      BY <2>1, <3>1 DEF Moves
  <2>6. QED
    BY <1>1, <2>4, <2>5 DEF RunCall
<1>2. CASE RunNotify
  <2> DEFINE n == Head(strand).arg
  <2>1. n \in Notifies /\ Coming = <<n>> \o Coming'
    BY <1>2, RunsHead, HeadTask DEF RunNotify, IInv
  <2>2. <<n>> \in Seq(Frames)
    BY <2>1 DEF Frames, Requests
  <2>3. Unsent' = Unsent \o <<n>> /\ UNCHANGED <<wire, pending_calls>>
    BY <1>0, <1>2, <2>2, WritesAtEnd DEF RunNotify, WriteAll
  <2>4. QED
    BY <2>1, <2>3 DEF Overtakes, Moves
<1>3. CASE RunFlush
  <2>1. Coming = <<Empty>> \o Coming'
    BY <1>3, RunsHead DEF RunFlush
  <2>2. Unsent' = Unsent \o pending_calls /\ wire' = wire
    BY <1>0, <1>3, WritesAtEnd DEF RunFlush, WriteAll
  <2>3. pending_calls' = MovedFrom(pending_calls)
    BY <1>3 DEF RunFlush
  <2>4. QED
    BY <2>1, <2>2, <2>3 DEF Flushes, Moves
<1>4. CASE RunErase
  <2>1. Coming = <<Empty>> \o Coming'
    BY <1>4, RunsHead DEF RunErase
  <2>2. QED
    BY <1>4, <2>1 DEF RunErase, RunsEmpty, Unsent, Moves
<1>5. CASE OnConnected
  <2>1. FlushTask \in Tasks /\ FlushTask.op \notin {"call", "notify"}
    BY DEF FlushTask, Tasks
  <2>2. Coming' = Coming \o <<Empty>>
    BY <1>0, <1>5, <2>1, PostsTask DEF OnConnected
  <2>3. <<Empty>> \in Seq({Empty})
    OBVIOUS
  <2>4. QED
    BY <1>5, <2>2, <2>3 DEF OnConnected, AddsEmpty, Unsent, Moves
<1>6. CASE OnRead
  <2>1. PICK k \in 1 .. Len(inbox) :
          strand' = strand \o [i \in 1 .. k |-> EraseTask(inbox[i].id)]
    BY <1>6 DEF OnRead
  <2> DEFINE e == [i \in 1 .. k |-> EraseTask(inbox[i].id)]
  <2>2. k \in Nat /\ \A i \in 1 .. k : inbox[i] \in Responses
    BY <1>0
  <2>3. \A i \in 1 .. k : EraseTask(inbox[i].id) \in Tasks
    BY <2>2 DEF Responses, Tasks
  <2>4. e \in Seq(Tasks)
    BY <2>2, <2>3
  <2>5. Carried(e) \in Seq({Empty})
    <3>1. Carried(e) = [i \in 1 .. k |-> Empty]
      BY <2>2 DEF Carried, EraseTask
    <3>2. QED
      BY <2>2, <3>1
  <2>6. Coming' = Coming \o Carried(e)
    BY <1>0, <2>1, <2>4, CarriedConcat DEF Coming
  <2>7. QED
    BY <1>6, <2>5, <2>6 DEF OnRead, AddsEmpty, Unsent, Moves
<1>7. CASE OnWritten \/ OnBrokenPipe \/ OnWriteError
  <2>1. UNCHANGED <<wire, pending_calls, Coming>>
    BY <1>7
       DEF OnWritten, OnBrokenPipe, OnWriteError, WriteDone, Coming
  <2>2. \/ Unsent' = Unsent
        \/ /\ Unsent = <<Head(write_queue)>> \o Unsent'
           /\ Head(write_queue) \in Notifies /\ write_op = "broken_pipe"
    BY <1>0, <1>7, WriteTakes DEF OnBrokenPipe, WriteDone
  <2>3. QED
    BY <2>1, <2>2 DEF Stays, IsGivenUp, Moves
<1>8. CASE OnRetry \/ OnConnectError \/ OnReadDisconnected \/ OnReadError \/ RunReturns
  <2>1. Stays
    BY <1>8
       DEF OnRetry, OnConnectError, OnConnectFailed, OnReadDisconnected,
           OnReadError, ReadEnds, RunReturns, Stays, Unsent, Coming
  <2>2. QED
    BY <2>1 DEF Moves
<1>9. QED
  BY <1>1, <1>2, <1>3, <1>4, <1>5, <1>6, <1>7, <1>8 DEF IoThread

LEMMA LineMoves ==
  ASSUME IInv, [Next]_vars
  PROVE  \/ \E c \in Calls : PostCall(c) /\ Joins(c)
         \/ \E n \in Notifies : Notify(n) /\ Joins(n)
         \/ Moves /\ UNCHANGED posted
<1>1. ASSUME NEW c \in Calls, PostCall(c) PROVE Joins(c)
  BY <1>1, PostMoves DEF PostCall, Requests
<1>2. ASSUME NEW n \in Notifies, Notify(n) PROVE Joins(n)
  BY <1>2, PostMoves DEF Notify, Requests
<1>3. CASE IoThread
  <2>1. UNCHANGED posted
    BY <1>3
       DEF IoThread, RunCall, RunNotify, RunFlush, RunErase, OnConnected,
           OnRetry, OnConnectError, OnConnectFailed, OnRead,
           OnReadDisconnected, OnReadError, ReadEnds, OnWritten, OnBrokenPipe,
           OnWriteError, WriteDone, RunReturns
  <2>2. QED
    BY <1>3, <2>1, IoMoves
<1>4. CASE Kernel
  <2>0. write_queue \in Seq(Frames) /\ WriteHasFrame /\ wire \in Seq(Requests)
    BY DEF IInv, TypeOK
  <2>1. UNCHANGED <<posted, pending_calls, Coming>>
    BY <1>4 DEF Kernel, Transmit, FailPipe, FailOther, Settle, Coming
  <2>2. CASE Transmit
    <3> DEFINE f == Head(write_queue)
    <3>1. Unsent = <<f>> \o Unsent' /\ f \in Frames
      BY <2>0, <2>2, WriteTakes
    <3>2. \/ f = Empty /\ wire' = wire
          \/ f # Empty /\ wire' = Append(wire, f)
      BY <2>2 DEF Transmit
    <3>3. f # Empty => Append(wire, f) = wire \o <<f>>
      BY <2>0, <3>1, AppendsOne DEF Frames
    <3>4. IsTaken(f)
      BY <2>1, <3>1, <3>2, <3>3 DEF IsTaken
    <3>5. QED
      BY <2>1, <3>1, <3>4 DEF Moves
  <2>3. CASE FailPipe \/ FailOther
    <3>1. Unsent' = Unsent
      BY <2>0, <2>3, WriteTakes
    <3>2. QED
      BY <2>1, <2>3, <3>1 DEF FailPipe, FailOther, Stays, Moves
  <2>4. QED
    BY <1>4, <2>2, <2>3 DEF Kernel
<1>5. CASE Destroy
  <2>1. Coming' = <<>>
    BY <1>5 DEF Destroy, Coming, Carried
  <2>2. QED
    BY <1>5, <2>1 DEF Destroy, IsCut, Unsent, Moves
<1>6. CASE UNCHANGED <<strand, pending_calls, write_queue, write_op, wire, posted>>
  BY <1>6 DEF Stays, Unsent, Coming, Moves
<1>7. QED
  BY <1>1, <1>2, <1>3, <1>4, <1>5, <1>6
     DEF Next, vars, User, NextCallIdx, Wait, Return, ThrowTimeout, UserStep,
         SetTimeout, Accepted, Refused, ConnectEnds, Break, Drop, Answer

-----------------------------------------------------------------------------
(* One place for each request. *)

(* Copies counts along the line, before and after a step. *)
LEMMA CopiesInLine ==
  ASSUME IInv, IInv', NEW r \in Requests
  PROVE  /\ wire \in Seq(Frames) /\ Unsent \in Seq(Frames)
         /\ pending_calls \in Seq(Frames) /\ Coming \in Seq(Frames)
         /\ wire' \in Seq(Frames) /\ Unsent' \in Seq(Frames)
         /\ pending_calls' \in Seq(Frames) /\ Coming' \in Seq(Frames)
         /\ Copies(r) = Count(Coming, r) + Count(pending_calls, r)
                          + Count(Unsent, r) + Count(wire, r)
         /\ Copies(r)' = Count(Coming', r) + Count(pending_calls', r)
                           + Count(Unsent', r) + Count(wire', r)
<1>1. /\ strand \in Seq(Tasks) /\ strand' \in Seq(Tasks)
      /\ wire \in Seq(Requests) /\ wire' \in Seq(Requests)
      /\ pending_calls \in Seq(Frames) /\ pending_calls' \in Seq(Frames)
      /\ write_queue \in Seq(Frames) /\ write_queue' \in Seq(Frames)
  BY DEF IInv, TypeOK
<1>2. wire \in Seq(Frames) /\ wire' \in Seq(Frames)
  BY <1>1, SeqMono DEF Frames
<1>3. Unsent \in Seq(Frames)
  BY <1>1, UnsentType DEF IInv
<1>4. Unsent' \in Seq(Frames)
  BY <1>1 DEF IInv, Unsent, WriteHasFrame
<1>5. Coming \in Seq(Frames) /\ Coming' \in Seq(Frames)
  BY <1>1, CarriedTypes DEF Coming
<1>6. /\ Count(strand, CallTask(r)) + Count(strand, NotifyTask(r)) = Count(Coming, r)
      /\ Count(strand', CallTask(r)) + Count(strand', NotifyTask(r)) = Count(Coming', r)
  BY <1>1, CarriedCount DEF Coming
<1>7. /\ Copies(r) = Count(strand, CallTask(r)) + Count(strand, NotifyTask(r))
                       + Count(pending_calls, r) + Count(Unsent, r) + Count(wire, r)
      /\ Copies(r)' = Count(strand', CallTask(r)) + Count(strand', NotifyTask(r))
                        + Count(pending_calls', r) + Count(Unsent', r) + Count(wire', r)
  BY DEF Copies
<1>8. QED
  BY <1>1, <1>2, <1>3, <1>4, <1>5, <1>6, <1>7

LEMMA CopiesAreNat ==
  ASSUME IInv, IInv', NEW r \in Requests
  PROVE  Copies(r) \in Nat /\ Copies(r)' \in Nat
<1>1. \A s \in Seq(Frames) : Count(s, r) \in Nat
  BY CountIn
<1>2. /\ Count(Coming, r) \in Nat /\ Count(pending_calls, r) \in Nat
      /\ Count(Unsent, r) \in Nat /\ Count(wire, r) \in Nat
      /\ Count(Coming', r) \in Nat /\ Count(pending_calls', r) \in Nat
      /\ Count(Unsent', r) \in Nat /\ Count(wire', r) \in Nat
  BY <1>1, CopiesInLine
<1>3. /\ Copies(r) = Count(Coming, r) + Count(pending_calls, r)
                       + Count(Unsent, r) + Count(wire, r)
      /\ Copies(r)' = Count(Coming', r) + Count(pending_calls', r)
                        + Count(Unsent', r) + Count(wire', r)
  BY CopiesInLine
<1>4. QED
  BY <1>2, <1>3

(* A request that was not made is nowhere. *)
LEMMA NotMadeNowhere ==
  ASSUME IInv, NEW r \in Requests, stage[r] = "idle"
  PROVE  /\ Copies(r) = 0
         /\ ~Within(wire, r) /\ ~Within(Unsent, r)
         /\ ~Within(pending_calls, r) /\ ~Within(Coming, r)
<1>0. r \notin Known /\ r # Empty /\ IInv
  BY RequestAssumption DEF Known, Requests
<1>1. /\ strand \in Seq(KnownTasks) /\ pending_calls \in Seq(Known \cup {Empty})
      /\ write_queue \in Seq(Known \cup {Empty}) /\ wire \in Seq(Known)
      /\ strand \in Seq(Tasks)
  BY DEF IInv, KnownOnly, TypeOK
<1>2. Unsent \in Seq(Known \cup {Empty})
  BY <1>1, UnsentType DEF IInv
<1>3. ASSUME NEW s \in Seq(Known \cup {Empty}) PROVE ~Within(s, r)
  BY <1>0 DEF Within
<1>4. ~Within(wire, r) /\ ~Within(Unsent, r) /\ ~Within(pending_calls, r)
  BY <1>0, <1>1, <1>2, <1>3 DEF Within
<1>5. Coming \in Seq(Known \cup {Empty})
  <2>1. \A t \in KnownTasks :
          (IF t.op \in {"call", "notify"} THEN t.arg ELSE Empty) \in Known \cup {Empty}
    BY DEF KnownTasks, CallTask, NotifyTask, FlushTask, EraseTask
  <2>2. \A i \in DOMAIN strand : strand[i] \in KnownTasks
    BY <1>1
  <2>3. QED
    BY <1>1, <2>1, <2>2 DEF Coming, Carried
<1>6. ~Within(Coming, r)
  BY <1>3, <1>5
<1>7. /\ Count(wire, r) = 0 /\ Count(Unsent, r) = 0
      /\ Count(pending_calls, r) = 0 /\ Count(Coming, r) = 0
  BY <1>1, <1>2, <1>4, <1>5, <1>6, CountIn
<1>8. Count(strand, CallTask(r)) + Count(strand, NotifyTask(r)) = 0
  BY <1>1, <1>7, CarriedCount DEF Coming
<1>9. QED
  BY <1>4, <1>6, <1>7, <1>8 DEF Copies

LEMMA MovedFromCount ==
  ASSUME NEW s \in Seq(Frames), NEW r \in Requests
  PROVE  Count(MovedFrom(s), r) = 0
<1>1. r # Empty
  BY RequestAssumption DEF Requests
<1>2. ~Within(MovedFrom(s), r)
  BY <1>1, MovedFromHolds
<1>3. QED
  BY <1>2, MovedFromType, CountIn

LEMMA EmptyCount ==
  ASSUME NEW s \in Seq({Empty}), NEW r \in Requests
  PROVE  Count(s, r) = 0
<1>1. r # Empty
  BY RequestAssumption DEF Requests
<1>2. ~Within(s, r)
  BY <1>1 DEF Within
<1>3. QED
  BY <1>2, CountIn

(* No step of the client alone loses a request or makes a second copy of one,
   except that a notification is given up and that the destructor drops what is
   on the strand. *)
LEMMA MovesKeepCopies ==
  ASSUME IInv, IInv', Moves, NEW r \in Requests
  PROVE  \/ Copies(r)' = Copies(r)
         \/ r \in Notifies /\ write_op = "broken_pipe" /\ Copies(r) = Copies(r)' + 1
         \/ IsCut /\ io' = "destroyed"
<1> DEFINE W == wire
           U == Unsent
           P == pending_calls
           K == Coming
           N(s) == Count(s, r)
<1>1. /\ W \in Seq(Frames) /\ U \in Seq(Frames) /\ P \in Seq(Frames)
      /\ K \in Seq(Frames) /\ W' \in Seq(Frames) /\ U' \in Seq(Frames)
      /\ P' \in Seq(Frames) /\ K' \in Seq(Frames)
      /\ Copies(r) = N(K) + N(P) + N(U) + N(W)
      /\ Copies(r)' = N(K') + N(P') + N(U') + N(W')
  BY CopiesInLine
<1>2. \A s, t \in Seq(Frames) : N(s \o t) = N(s) + N(t)
  BY CountConcat
<1>3. \A s \in Seq(Frames) : N(s) \in Nat /\ N(MovedFrom(s)) = 0
  BY CountIn, MovedFromCount
<1>4. /\ \A f \in Frames : <<f>> \in Seq(Frames)
      /\ \A s, t \in Seq(Frames) : s \o t \in Seq(Frames)
      /\ \A c \in Calls : c \in Frames
      /\ \A n \in Notifies : n \in Frames
      /\ Empty \in Frames /\ r # Empty
  BY RequestAssumption DEF Frames, Requests
<1>5. \A x : N(<<x>>) = IF x = r THEN 1 ELSE 0
  BY CountOne
<1> HIDE DEF N
<1>n. \A x : N(<<x>>) \in Nat
  <2> TAKE x
  <2>1. N(<<x>>) = IF x = r THEN 1 ELSE 0
    BY <1>5
  <2>2. QED
    BY <2>1
<1>t. /\ N(W) \in Nat /\ N(U) \in Nat /\ N(P) \in Nat /\ N(K) \in Nat
      /\ N(W') \in Nat /\ N(U') \in Nat /\ N(P') \in Nat /\ N(K') \in Nat
  BY <1>1, <1>3
<1> HIDE DEF W, U, P, K
<1>6. ASSUME NEW c \in Calls, IsKept(c) PROVE Copies(r)' = Copies(r)
  <2>0. /\ K = <<c>> \o K' /\ P' = P \o <<c>> /\ W' = W /\ U' = U
        /\ <<c>> \in Seq(Frames)
    BY <1>4, <1>6 DEF IsKept, W, U, P, K
  <2>n. N(<<c>>) \in Nat
    BY <1>n
  <2>1. N(K) = N(<<c>>) + N(K') /\ N(P') = N(P) + N(<<c>>)
    BY <1>1, <1>2, <2>0
  <2>2. N(W') = N(W) /\ N(U') = N(U)
    BY <2>0
  <2>3. QED
    BY <1>1, <2>n, <1>t, <2>1, <2>2
<1>7. ASSUME NEW c \in Calls, IsWritten(c) PROVE Copies(r)' = Copies(r)
  <2>0. /\ K = <<c>> \o K' /\ U' = U \o (P \o <<c>>) /\ P' = MovedFrom(P)
        /\ W' = W /\ <<c>> \in Seq(Frames)
    BY <1>4, <1>7 DEF IsWritten, W, U, P, K
  <2>n. N(<<c>>) \in Nat
    BY <1>n
  <2>1. N(K) = N(<<c>>) + N(K') /\ N(P') = 0 /\ N(W') = N(W)
    BY <1>1, <1>2, <1>3, <2>0
  <2>2. P \o <<c>> \in Seq(Frames) /\ N(P \o <<c>>) = N(P) + N(<<c>>)
    BY <1>1, <1>2, <1>4, <2>0
  <2>3. N(U') = N(U) + N(P \o <<c>>)
    BY <1>1, <1>2, <2>0, <2>2
  <2>4. QED
    BY SMTT(30), <1>1, <2>n, <1>t, <2>1, <2>2, <2>3
<1>8. ASSUME NEW n \in Notifies, Overtakes(n) PROVE Copies(r)' = Copies(r)
  <2>0. /\ K = <<n>> \o K' /\ U' = U \o <<n>> /\ P' = P /\ W' = W
        /\ <<n>> \in Seq(Frames)
    BY <1>4, <1>8 DEF Overtakes, W, U, P, K
  <2>n. N(<<n>>) \in Nat
    BY <1>n
  <2>1. N(K) = N(<<n>>) + N(K') /\ N(U') = N(U) + N(<<n>>)
    BY <1>1, <1>2, <2>0
  <2>2. N(W') = N(W) /\ N(P') = N(P)
    BY <2>0
  <2>3. QED
    BY SMTT(30), <1>1, <2>n, <1>t, <2>1, <2>2
<1>e. N(<<Empty>>) = 0 /\ <<Empty>> \in Seq(Frames)
  BY <1>4, <1>5
<1>9. CASE Flushes
  <2>0. /\ K = <<Empty>> \o K' /\ U' = U \o P /\ P' = MovedFrom(P) /\ W' = W
    BY <1>9 DEF Flushes, W, U, P, K
  <2>1. N(K) = N(<<Empty>>) + N(K') /\ N(U') = N(U) + N(P) /\ N(P') = 0
    BY <1>1, <1>2, <1>3, <1>e, <2>0
  <2>2. N(W') = N(W)
    BY <2>0
  <2>3. QED
    BY <1>1, <1>e, <1>t, <2>1, <2>2
<1>10. CASE RunsEmpty
  <2>0. K = <<Empty>> \o K' /\ U' = U /\ P' = P /\ W' = W
    BY <1>10 DEF RunsEmpty, W, U, P, K
  <2>1. N(K) = N(<<Empty>>) + N(K')
    BY <1>1, <1>2, <1>e, <2>0
  <2>2. N(W') = N(W) /\ N(U') = N(U) /\ N(P') = N(P)
    BY <2>0
  <2>3. QED
    BY <1>1, <1>e, <1>t, <2>1, <2>2
<1>11. CASE AddsEmpty
  <2>1. PICK e \in Seq({Empty}) : K' = K \o e
    BY <1>11 DEF AddsEmpty, K
  <2>2. e \in Seq(Frames) /\ N(e) = 0
    BY <1>4, <2>1, SeqMono, EmptyCount DEF N
  <2>3. N(K') = N(K) + N(e)
    BY <1>1, <1>2, <2>1, <2>2
  <2>4. W' = W /\ U' = U /\ P' = P
    BY <1>11 DEF AddsEmpty, W, U, P
  <2>5. N(W') = N(W) /\ N(U') = N(U) /\ N(P') = N(P)
    BY <2>4
  <2>6. QED
    BY <1>1, <1>t, <2>2, <2>3, <2>5
<1>12. ASSUME NEW f \in Frames, IsTaken(f) PROVE Copies(r)' = Copies(r)
  <2>0. /\ U = <<f>> \o U' /\ P' = P /\ K' = K /\ <<f>> \in Seq(Frames)
        /\ (f = Empty /\ W' = W) \/ (f # Empty /\ W' = W \o <<f>>)
    BY <1>4, <1>12 DEF IsTaken, W, U, P, K
  <2>n. N(<<f>>) \in Nat
    BY <1>n
  <2>1. N(U) = N(<<f>>) + N(U')
    BY <1>1, <1>2, <2>0
  <2>2. N(W') = N(W) + N(<<f>>)
    <3>1. CASE f = Empty /\ W' = W
      BY <1>e, <1>t, <3>1
    <3>2. CASE W' = W \o <<f>>
      BY <1>1, <1>2, <2>0, <3>2
    <3>3. QED
      BY <2>0, <3>1, <3>2
  <2>3. N(P') = N(P) /\ N(K') = N(K)
    BY <2>0
  <2>4. QED
    BY SMTT(30), <1>1, <2>n, <1>t, <2>1, <2>2, <2>3
<1>13. ASSUME NEW n \in Notifies, IsGivenUp(n), write_op = "broken_pipe"
       PROVE  \/ Copies(r)' = Copies(r)
              \/ r \in Notifies /\ write_op = "broken_pipe"
                   /\ Copies(r) = Copies(r)' + 1
  <2>0. /\ U = <<n>> \o U' /\ P' = P /\ K' = K /\ W' = W
        /\ <<n>> \in Seq(Frames)
    BY <1>4, <1>13 DEF IsGivenUp, W, U, P, K
  <2>n. N(<<n>>) \in Nat
    BY <1>n
  <2>1. N(U) = N(<<n>>) + N(U')
    BY <1>1, <1>2, <2>0
  <2>2. N(P') = N(P) /\ N(K') = N(K) /\ N(W') = N(W)
    BY <2>0
  <2> DEFINE after == Copies(r)'
  <2>s. /\ Copies(r) = N(K) + N(P) + N(U) + N(W)
        /\ after = N(K') + N(P') + N(U') + N(W')
    BY <1>1
  <2> HIDE DEF after
  <2>3. after \in Nat
    BY <1>t, <2>s
  <2>4. Copies(r) = after + N(<<n>>)
    BY <1>t, <2>n, <2>s, <2>1, <2>2
  <2>5. CASE n = r
    <3>1. N(<<n>>) = 1
      BY <1>5, <2>5
    <3>2. QED
      BY <1>13, <2>4, <2>5, <3>1 DEF after
  <2>6. CASE n # r
    <3>1. N(<<n>>) = 0
      BY <1>5, <2>6
    <3>2. Copies(r) = after
      BY <2>3, <2>4, <3>1
    <3>3. QED
      BY <3>2 DEF after
  <2>7. QED
    BY <2>5, <2>6
<1>14. CASE Stays
  <2>1. W' = W /\ U' = U /\ P' = P /\ K' = K
    BY <1>14 DEF Stays, W, U, P, K
  <2>2. N(W') = N(W) /\ N(U') = N(U) /\ N(P') = N(P) /\ N(K') = N(K)
    BY <2>1
  <2>3. QED
    BY <1>1, <2>2
<1>15. QED
  BY <1>6, <1>7, <1>8, <1>9, <1>10, <1>11, <1>12, <1>13, <1>14 DEF Moves

LEMMA JoinAddsOne ==
  ASSUME IInv, IInv', NEW q \in Requests, Joins(q), NEW r \in Requests
  PROVE  /\ Copies(r) \in Nat
         /\ Copies(r)' = Copies(r) + (IF r = q THEN 1 ELSE 0)
<1>0. /\ wire \in Seq(Frames) /\ Unsent \in Seq(Frames)
      /\ pending_calls \in Seq(Frames) /\ Coming \in Seq(Frames)
  BY CopiesInLine
<1>1. Count(Coming', r) = Count(Coming, r) + Count(<<q>>, r)
  <2>1. <<q>> \in Seq(Frames)
    BY DEF Frames
  <2>2. Coming' = Coming \o <<q>>
    BY DEF Joins
  <2>3. QED
    BY <1>0, <2>1, <2>2, CountConcat
<1>2. Count(<<q>>, r) = IF r = q THEN 1 ELSE 0
  BY CountOne
<1>3. /\ Count(Coming, r) \in Nat /\ Count(pending_calls, r) \in Nat
      /\ Count(Unsent, r) \in Nat /\ Count(wire, r) \in Nat
  BY <1>0, CountIn
<1>4. wire' = wire /\ Unsent' = Unsent /\ pending_calls' = pending_calls
  BY DEF Joins
<1>5. /\ Copies(r) = Count(Coming, r) + Count(pending_calls, r)
                       + Count(Unsent, r) + Count(wire, r)
      /\ Copies(r)' = Count(Coming', r) + Count(pending_calls', r)
                        + Count(Unsent', r) + Count(wire', r)
  BY CopiesInLine
<1>6. /\ Count(wire', r) = Count(wire, r) /\ Count(Unsent', r) = Count(Unsent, r)
      /\ Count(pending_calls', r) = Count(pending_calls, r)
  BY <1>4
<1>7. QED
  BY <1>1, <1>2, <1>3, <1>5, <1>6

(* Only a user's thread takes a request out of "idle" and "numbered". *)
LEMMA StageSteps ==
  ASSUME IInv, [Next]_vars
  PROVE  /\ \A c \in Calls :
              (stage'[c] \in {"idle", "numbered"}) # (stage[c] \in {"idle", "numbered"})
                => /\ PostCall(c) /\ Joins(c)
                   /\ stage[c] = "numbered" /\ stage'[c] = "posted"
         /\ \A n \in Notifies :
              stage'[n] # stage[n]
                => Notify(n) /\ Joins(n) /\ stage[n] = "idle" /\ stage'[n] = "posted"
<1>0. stage \in [Requests -> Stages]
  BY DEF IInv, TypeOK
<1>1. CASE UNCHANGED stage
  BY <1>1
<1>2. ASSUME NEW c \in Calls, User(c)
      PROVE  /\ \A d \in Calls :
                  (stage'[d] \in {"idle", "numbered"}) # (stage[d] \in {"idle", "numbered"})
                    => /\ d = c /\ PostCall(d) /\ Joins(d)
                       /\ stage[d] = "numbered" /\ stage'[d] = "posted"
             /\ \A n \in Notifies : stage'[n] = stage[n]
  <2>1. c \in Requests /\ c \notin Notifies /\ Notifies \subseteq Requests
    BY RequestAssumption DEF Requests
  <2>2. PICK to : stage' = [stage EXCEPT ![c] = to]
    BY <1>2
       DEF User, NextCallIdx, PostCall, PostTask, Wait, Return, ThrowTimeout,
           UserStep
  <2>3. \A r \in Requests : stage'[r] = IF r = c THEN to ELSE stage[r]
    BY <1>0, <2>2
  <2>4. CASE PostCall(c)
    <3>1. stage[c] = "numbered" /\ stage'[c] = "posted"
      BY <1>0, <2>1, <2>4 DEF PostCall, PostTask
    <3>2. Joins(c)
      BY <2>1, <2>4, PostMoves DEF PostCall
    <3>3. QED
      BY <2>1, <2>3, <2>4, <3>1, <3>2 DEF Requests
  <2>5. CASE ~PostCall(c)
    <3>1. stage'[c] \in {"idle", "numbered"} <=> stage[c] \in {"idle", "numbered"}
      BY <1>0, <1>2, <2>1, <2>5
         DEF User, NextCallIdx, Wait, Return, ThrowTimeout, UserStep
    <3>2. QED
      BY <2>1, <2>3, <3>1 DEF Requests
  <2>6. QED
    BY <2>4, <2>5
<1>3. ASSUME NEW n \in Notifies, Notify(n)
      PROVE  /\ Joins(n) /\ stage[n] = "idle" /\ stage'[n] = "posted"
             /\ \A r \in Requests : r # n => stage'[r] = stage[r]
  <2>1. n \in Requests
    BY DEF Requests
  <2>2. QED
    BY <1>0, <1>3, <2>1, PostMoves DEF Notify, PostTask
<1>4. CASE \E c \in Calls : User(c)
  BY <1>2, <1>4
<1>5. CASE \E n \in Notifies : Notify(n)
  BY <1>3, <1>5, RequestAssumption DEF Requests
<1>6. QED
  BY <1>1, <1>4, <1>5
     DEF Next, vars, SetTimeout, Destroy, IoThread, RunCall, RunNotify,
         RunFlush, RunErase, OnConnected, OnRetry, OnConnectError,
         OnConnectFailed, OnRead, OnReadDisconnected, OnReadError, ReadEnds,
         OnWritten, OnBrokenPipe, OnWriteError, WriteDone, RunReturns, Kernel,
         Transmit, FailPipe, FailOther, Settle, Accepted, Refused, ConnectEnds,
         Break, Drop, Answer

(* A connection that failed is remembered, by the count of failures or by the
   state of the link. *)
LEMMA FailureStep ==
  ASSUME IInv, ConnectsAnew, PipeFailed, [Next]_vars
  PROVE  ConnectsAnew' /\ PipeFailed' /\ (Failed => Failed')
<1>1. failures \in Nat
  BY DEF IInv, TypeOK
<1>2. CASE OnRetry \/ OnConnectError
  BY <1>1, <1>2
     DEF OnRetry, OnConnectError, OnConnectFailed, ConnectsAnew, PipeFailed, Failed
<1>3. CASE Accepted \/ Refused
  BY <1>3 DEF Accepted, Refused, ConnectEnds, ConnectsAnew, PipeFailed, Failed
<1>4. CASE Break
  BY <1>4 DEF Break, Drop, ConnectsAnew, PipeFailed, Failed
<1>5. CASE OnConnected
  BY <1>5 DEF OnConnected, ConnectsAnew, PipeFailed, Failed
<1>6. CASE Kernel
  BY <1>6
     DEF Kernel, Transmit, FailPipe, FailOther, Settle, ConnectsAnew, PipeFailed,
         Failed
<1>7. CASE OnWritten \/ OnBrokenPipe \/ OnWriteError
  BY <1>7
     DEF OnWritten, OnBrokenPipe, OnWriteError, WriteDone, PopFront,
         ConnectsAnew, PipeFailed, Failed
<1>8. CASE RunCall \/ RunNotify \/ RunFlush
  BY <1>8
     DEF RunCall, RunNotify, RunFlush, WriteAll, ConnectsAnew, PipeFailed, Failed
<1>9. CASE UNCHANGED <<failures, link, connect_op, write_op>>
  BY <1>9 DEF ConnectsAnew, PipeFailed, Failed
<1>10. QED
  BY <1>2, <1>3, <1>4, <1>5, <1>6, <1>7, <1>8, <1>9
     DEF Next, vars, User, NextCallIdx, PostCall, PostTask, Notify, Wait,
         Return, ThrowTimeout, UserStep, SetTimeout, Destroy, IoThread,
         RunErase, OnRead, OnReadDisconnected, OnReadError, ReadEnds,
         RunReturns, Answer

(* The io thread does not start again. *)
LEMMA IoStays ==
  ASSUME [Next]_vars
  PROVE  /\ io' = "running" => io = "running"
         /\ io' \in {"running", "returned"} => io \in {"running", "returned"}
<1>1. CASE UNCHANGED io
  BY <1>1
<1>2. QED
  BY <1>1
     DEF Next, vars, User, NextCallIdx, PostCall, PostTask, Notify, Wait,
         Return, ThrowTimeout, UserStep, SetTimeout, Destroy, IoThread, RunCall,
         RunNotify, RunFlush, RunErase, OnConnected, OnConnectFailed, OnRetry,
         OnConnectError, OnRead, ReadEnds, OnReadDisconnected, OnReadError,
         WriteDone, OnWritten, OnBrokenPipe, OnWriteError, RunReturns, Kernel,
         Settle, Transmit, FailPipe, FailOther, Accepted, Refused, ConnectEnds,
         Break, Drop, Answer

LEMMA PlaceStep == IInv /\ IInv' /\ PlaceIInv /\ [Next]_vars => PlaceIInv'
<1> SUFFICES ASSUME IInv, IInv', PlaceIInv, [Next]_vars PROVE PlaceIInv'
  OBVIOUS
<1>1. ConnectsAnew' /\ PipeFailed' /\ (Failed => Failed')
  BY FailureStep DEF PlaceIInv
<1>2. ASSUME io' \in {"running", "returned"}
      PROVE  /\ \A c \in Calls :
                  Copies(c)' = IF stage'[c] \in {"idle", "numbered"} THEN 0 ELSE 1
             /\ \A n \in Notifies :
                  /\ Copies(n)' <= 1
                  /\ stage'[n] # "idle" /\ Copies(n)' = 0 => Failed'
  <2>1. io \in {"running", "returned"}
    BY <1>2, IoStays
  <2>2. /\ \A c \in Calls :
             Copies(c) = IF stage[c] \in {"idle", "numbered"} THEN 0 ELSE 1
        /\ \A n \in Notifies :
             /\ Copies(n) <= 1
             /\ stage[n] # "idle" /\ Copies(n) = 0 => Failed
    BY <2>1 DEF PlaceIInv, OnePlace, Failed
  <2>3. \A r \in Requests : Copies(r) \in Nat /\ Copies(r)' \in Nat
    <3> SUFFICES ASSUME NEW r \in Requests
                 PROVE  Copies(r) \in Nat /\ Copies(r)' \in Nat
      OBVIOUS
    <3>1. QED
      BY CopiesAreNat
  <2>4. \A n \in Notifies : stage[n] = "idle" => Copies(n) = 0
    <3> SUFFICES ASSUME NEW n \in Notifies, stage[n] = "idle" PROVE Copies(n) = 0
      OBVIOUS
    <3>1. n \in Requests
      BY DEF Requests
    <3>2. QED
      BY <3>1, NotMadeNowhere
  <2>5. ASSUME NEW q \in Requests, Joins(q), NEW r \in Requests
        PROVE  Copies(r)' = Copies(r) + (IF r = q THEN 1 ELSE 0)
    BY <2>5, JoinAddsOne
  <2>6. CASE \E c \in Calls : PostCall(c) /\ Joins(c)
    <3>1. PICK c \in Calls : PostCall(c) /\ Joins(c)
      BY <2>6
    <3>2. stage[c] = "numbered" /\ stage' = [stage EXCEPT ![c] = "posted"]
      BY <3>1 DEF PostCall, PostTask
    <3>3. \A r \in Requests : stage'[r] = IF r = c THEN "posted" ELSE stage[r]
      BY <3>2 DEF IInv, TypeOK
    <3>4. c \in Requests /\ c \notin Notifies
      BY RequestAssumption DEF Requests
    <3>5. \A r \in Requests : Copies(r)' = Copies(r) + (IF r = c THEN 1 ELSE 0)
      BY <2>5, <3>1, <3>4
    <3>6. QED
      BY <1>1, <2>2, <2>3, <3>2, <3>3, <3>4, <3>5 DEF Requests
  <2>7. CASE \E n \in Notifies : Notify(n) /\ Joins(n)
    <3>1. PICK n \in Notifies : Notify(n) /\ Joins(n)
      BY <2>7
    <3>2. stage[n] = "idle" /\ stage' = [stage EXCEPT ![n] = "posted"]
      BY <3>1 DEF Notify, PostTask
    <3>3. \A r \in Requests : stage'[r] = IF r = n THEN "posted" ELSE stage[r]
      BY <3>2 DEF IInv, TypeOK
    <3>4. n \in Requests /\ n \notin Calls
      BY RequestAssumption DEF Requests
    <3>5. \A r \in Requests : Copies(r)' = Copies(r) + (IF r = n THEN 1 ELSE 0)
      BY <2>5, <3>1, <3>4
    <3>6. Copies(n)' = 1
      BY <2>3, <2>4, <3>2, <3>4, <3>5
    <3>7. QED
      BY <1>1, <2>2, <2>3, <3>3, <3>4, <3>5, <3>6 DEF Requests
  <2>8. CASE /\ Moves
             /\ ~ \E c \in Calls : PostCall(c) /\ Joins(c)
             /\ ~ \E n \in Notifies : Notify(n) /\ Joins(n)
    <3>1. /\ \A c \in Calls :
               stage'[c] \in {"idle", "numbered"} <=> stage[c] \in {"idle", "numbered"}
          /\ \A n \in Notifies : stage'[n] = stage[n]
      BY <2>8, StageSteps
    <3>2. ASSUME NEW c \in Calls
          PROVE  Copies(c)' = IF stage'[c] \in {"idle", "numbered"} THEN 0 ELSE 1
      <4>1. c \in Requests /\ c \notin Notifies
        BY RequestAssumption DEF Requests
      <4>2. Copies(c)' = Copies(c)
        BY <1>2, <2>8, <4>1, MovesKeepCopies
      <4>3. QED
        BY <2>2, <3>1, <4>2
    <3>3. ASSUME NEW n \in Notifies
          PROVE  /\ Copies(n)' <= 1
                 /\ stage'[n] # "idle" /\ Copies(n)' = 0 => Failed'
      <4>1. n \in Requests
        BY DEF Requests
      <4>2. \/ Copies(n)' = Copies(n)
            \/ write_op = "broken_pipe" /\ Copies(n) = Copies(n)' + 1
        BY <1>2, <2>8, <4>1, MovesKeepCopies
      <4>3. write_op = "broken_pipe" => Failed
        BY DEF PlaceIInv, PipeFailed
      <4>4. QED
        BY <1>1, <2>2, <2>3, <3>1, <4>1, <4>2, <4>3
    <3>4. QED
      BY <3>2, <3>3
  <2>9. QED
    BY <2>6, <2>7, <2>8, LineMoves
<1>3. QED
  BY <1>1, <1>2 DEF PlaceIInv, OnePlace, Failed

LEMMA InitPlace == Init => PlaceIInv
<1> SUFFICES ASSUME Init PROVE PlaceIInv
  OBVIOUS
<1>1. ConnectsAnew /\ PipeFailed
  BY DEF Init, ConnectsAnew, PipeFailed
<1>2. \A r \in Requests : stage[r] = "idle"
  BY DEF Init
<1>3. \A x : Count(<<>>, x) = 0
  BY FS_EmptySet DEF Count
<1>4. /\ strand = <<>> /\ pending_calls = <<>> /\ Unsent = <<>> /\ wire = <<>>
  BY DEF Init, Unsent
<1>5. \A r \in Requests : Copies(r) = 0
  BY <1>3, <1>4 DEF Copies
<1>6. QED
  BY <1>1, <1>2, <1>5 DEF PlaceIInv, OnePlace, Requests

(* A posted call is in exactly one place as long as the client lives, and a
   notification is missing only over a connection that failed: for any
   requests, in any order of callers, connection, flush and completions. *)
THEOREM EveryCallInOnePlace == Spec => []OnePlace
<1>1. IInv /\ IInv' /\ PlaceIInv /\ [Next]_vars => PlaceIInv'
  BY PlaceStep
<1>2. PlaceIInv => OnePlace
  BY DEF PlaceIInv
<1>3. QED
  BY <1>1, <1>2, InitPlace, ClientInvariant, PTL DEF Spec

-----------------------------------------------------------------------------
(* The order along the line. *)

(* What is in a sequence of four parts, and in which order. *)
LEMMA FourParts ==
  ASSUME NEW S, NEW w \in Seq(S), NEW u \in Seq(S), NEW p \in Seq(S),
         NEW k \in Seq(S), NEW a, NEW b
  PROVE  /\ Within(w \o u \o p \o k, a)
              <=> Within(w, a) \/ Within(u, a) \/ Within(p, a) \/ Within(k, a)
         /\ Precedes(w \o u \o p \o k, a, b)
              <=> \/ Precedes(w, a, b) \/ Precedes(u, a, b)
                  \/ Precedes(p, a, b) \/ Precedes(k, a, b)
                  \/ Within(w, a) /\ (Within(u, b) \/ Within(p, b) \/ Within(k, b))
                  \/ Within(u, a) /\ (Within(p, b) \/ Within(k, b))
                  \/ Within(p, a) /\ Within(k, b)
<1> DEFINE wu == w \o u
           wup == wu \o p
<1>1. wu \in Seq(S) /\ wup \in Seq(S)
  OBVIOUS
<1>2. /\ Within(wu, a) <=> Within(w, a) \/ Within(u, a)
      /\ Precedes(wu, a, b)
           <=> \/ Precedes(w, a, b) \/ Precedes(u, a, b)
               \/ Within(w, a) /\ Within(u, b)
  BY WithinConcat, PrecedesConcat
<1> HIDE DEF wu
<1>3. /\ Within(wup, a) <=> Within(wu, a) \/ Within(p, a)
      /\ Precedes(wup, a, b)
           <=> \/ Precedes(wu, a, b) \/ Precedes(p, a, b)
               \/ Within(wu, a) /\ Within(p, b)
  BY <1>1, WithinConcat, PrecedesConcat
<1> HIDE DEF wup
<1>4. /\ Within(wup \o k, a) <=> Within(wup, a) \/ Within(k, a)
      /\ Precedes(wup \o k, a, b)
           <=> \/ Precedes(wup, a, b) \/ Precedes(k, a, b)
               \/ Within(wup, a) /\ Within(k, b)
  BY <1>1, WithinConcat, PrecedesConcat
<1>5. QED
  BY <1>2, <1>3, <1>4 DEF wu, wup

LEMMA LineParts ==
  ASSUME IInv, IInv', NEW a \in Requests, NEW b \in Requests
  PROVE  /\ Within(Line, a) <=> \/ Within(wire, a) \/ Within(Unsent, a)
                                \/ Within(pending_calls, a) \/ Within(Coming, a)
         /\ Within(Line', a) <=> \/ Within(wire', a) \/ Within(Unsent', a)
                                 \/ Within(pending_calls', a) \/ Within(Coming', a)
         /\ Precedes(Line, a, b)
              <=> \/ Precedes(wire, a, b) \/ Precedes(Unsent, a, b)
                  \/ Precedes(pending_calls, a, b) \/ Precedes(Coming, a, b)
                  \/ Within(wire, a) /\ (\/ Within(Unsent, b) \/ Within(pending_calls, b)
                                         \/ Within(Coming, b))
                  \/ Within(Unsent, a) /\ (Within(pending_calls, b) \/ Within(Coming, b))
                  \/ Within(pending_calls, a) /\ Within(Coming, b)
         /\ Precedes(Line', a, b)
              <=> \/ Precedes(wire', a, b) \/ Precedes(Unsent', a, b)
                  \/ Precedes(pending_calls', a, b) \/ Precedes(Coming', a, b)
                  \/ Within(wire', a) /\ (\/ Within(Unsent', b) \/ Within(pending_calls', b)
                                          \/ Within(Coming', b))
                  \/ Within(Unsent', a) /\ (Within(pending_calls', b) \/ Within(Coming', b))
                  \/ Within(pending_calls', a) /\ Within(Coming', b)
<1>1. /\ wire \in Seq(Frames) /\ Unsent \in Seq(Frames)
      /\ pending_calls \in Seq(Frames) /\ Coming \in Seq(Frames)
      /\ wire' \in Seq(Frames) /\ Unsent' \in Seq(Frames)
      /\ pending_calls' \in Seq(Frames) /\ Coming' \in Seq(Frames)
  BY CopiesInLine
<1>2. /\ Line = wire \o Unsent \o pending_calls \o Coming
      /\ Line' = wire' \o Unsent' \o pending_calls' \o Coming'
  BY DEF Line, Coming
<1> DEFINE w == wire
           u == Unsent
           p == pending_calls
           k == Coming
<1>3. /\ w \in Seq(Frames) /\ u \in Seq(Frames) /\ p \in Seq(Frames) /\ k \in Seq(Frames)
      /\ w' \in Seq(Frames) /\ u' \in Seq(Frames) /\ p' \in Seq(Frames)
      /\ k' \in Seq(Frames) /\ Line = w \o u \o p \o k /\ Line' = w' \o u' \o p' \o k'
  BY <1>1, <1>2
<1> HIDE DEF w, u, p, k
<1>4. /\ Within(Line, a) <=> Within(w, a) \/ Within(u, a) \/ Within(p, a) \/ Within(k, a)
      /\ Precedes(Line, a, b)
           <=> \/ Precedes(w, a, b) \/ Precedes(u, a, b)
               \/ Precedes(p, a, b) \/ Precedes(k, a, b)
               \/ Within(w, a) /\ (Within(u, b) \/ Within(p, b) \/ Within(k, b))
               \/ Within(u, a) /\ (Within(p, b) \/ Within(k, b))
               \/ Within(p, a) /\ Within(k, b)
  BY <1>3, FourParts
<1>5. /\ Within(Line', a) <=> \/ Within(w', a) \/ Within(u', a)
                              \/ Within(p', a) \/ Within(k', a)
      /\ Precedes(Line', a, b)
           <=> \/ Precedes(w', a, b) \/ Precedes(u', a, b)
               \/ Precedes(p', a, b) \/ Precedes(k', a, b)
               \/ Within(w', a) /\ (Within(u', b) \/ Within(p', b) \/ Within(k', b))
               \/ Within(u', a) /\ (Within(p', b) \/ Within(k', b))
               \/ Within(p', a) /\ Within(k', b)
  BY <1>3, FourParts
<1>6. QED
  BY <1>4, <1>5 DEF w, u, p, k

(* No step of the client alone puts a request into the line or changes the
   order of two, except that a notification overtakes calls. *)
LEMMA MovesKeepOrder ==
  ASSUME IInv, IInv', KeptAreCalls, Moves, NEW a \in Requests, NEW b \in Requests
  PROVE  /\ Within(Line', a) => Within(Line, a)
         /\ Precedes(Line', a, b) /\ (b \in Calls => a \in Calls)
              => Precedes(Line, a, b)
<1> DEFINE W == wire
           U == Unsent
           P == pending_calls
           K == Coming
           A(s) == Within(s, a)
           B(s) == Within(s, b)
           AB(s) == Precedes(s, a, b)
           Kept == /\ A(Line') => A(Line)
                   /\ AB(Line') /\ (b \in Calls => a \in Calls) => AB(Line)
<1>1. /\ W \in Seq(Frames) /\ U \in Seq(Frames) /\ P \in Seq(Frames)
      /\ K \in Seq(Frames) /\ W' \in Seq(Frames) /\ U' \in Seq(Frames)
      /\ P' \in Seq(Frames) /\ K' \in Seq(Frames)
  BY CopiesInLine
<1>2. /\ A(Line) <=> A(W) \/ A(U) \/ A(P) \/ A(K)
      /\ A(Line') <=> A(W') \/ A(U') \/ A(P') \/ A(K')
      /\ AB(Line) <=> \/ AB(W) \/ AB(U) \/ AB(P) \/ AB(K)
                      \/ A(W) /\ (B(U) \/ B(P) \/ B(K))
                      \/ A(U) /\ (B(P) \/ B(K))
                      \/ (A(P) /\ B(K))
      /\ AB(Line') <=> \/ AB(W') \/ AB(U') \/ AB(P') \/ AB(K')
                       \/ A(W') /\ (B(U') \/ B(P') \/ B(K'))
                       \/ A(U') /\ (B(P') \/ B(K'))
                       \/ (A(P') /\ B(K'))
  BY LineParts
<1>3. \A s, t \in Seq(Frames) :
        /\ A(s \o t) <=> A(s) \/ A(t)
        /\ B(s \o t) <=> B(s) \/ B(t)
        /\ AB(s \o t) <=> AB(s) \/ AB(t) \/ (A(s) /\ B(t))
  BY WithinConcat, PrecedesConcat
<1>4. a # Empty /\ b # Empty /\ Calls \cap Notifies = {} /\ Requests = Calls \cup Notifies
  BY RequestAssumption DEF Requests
<1>5. \A x : (A(<<x>>) <=> x = a) /\ (B(<<x>>) <=> x = b) /\ ~AB(<<x>>)
  BY OneElement
<1>6. \A s \in Seq(Frames) :
        ~A(MovedFrom(s)) /\ ~B(MovedFrom(s)) /\ ~AB(MovedFrom(s))
  BY <1>4, MovedFromHolds
<1>7. B(P) => b \in Calls
  BY <1>4 DEF KeptAreCalls
<1>8. /\ \A f \in Frames : <<f>> \in Seq(Frames)
      /\ \A s, t \in Seq(Frames) : s \o t \in Seq(Frames)
      /\ \A c \in Calls : c \in Frames
      /\ \A n \in Notifies : n \in Frames
      /\ Empty \in Frames
  BY DEF Frames, Requests
<1>9. ~A(<<Empty>>) /\ ~B(<<Empty>>) /\ ~AB(<<Empty>>) /\ <<Empty>> \in Seq(Frames)
  BY <1>4, <1>5, <1>8
<1> HIDE DEF A, B, AB
<1> HIDE DEF W, U, P, K
<1>10. ASSUME NEW c \in Calls, IsKept(c) PROVE Kept
  <2>0. /\ K = <<c>> \o K' /\ P' = P \o <<c>> /\ W' = W /\ U' = U
        /\ <<c>> \in Seq(Frames)
    BY <1>8, <1>10 DEF IsKept, W, U, P, K
  <2>1. /\ A(K) <=> A(<<c>>) \/ A(K')
        /\ B(K) <=> B(<<c>>) \/ B(K')
        /\ AB(K) <=> AB(<<c>>) \/ AB(K') \/ (A(<<c>>) /\ B(K'))
        /\ A(P') <=> A(P) \/ A(<<c>>)
        /\ B(P') <=> B(P) \/ B(<<c>>)
        /\ AB(P') <=> AB(P) \/ AB(<<c>>) \/ (A(P) /\ B(<<c>>))
    BY <1>1, <1>3, <2>0
  <2>2. /\ (A(W') <=> A(W)) /\ (B(W') <=> B(W)) /\ (AB(W') <=> AB(W))
        /\ (A(U') <=> A(U)) /\ (B(U') <=> B(U)) /\ (AB(U') <=> AB(U))
    BY <2>0
  <2>3. QED
    BY <1>2, <2>1, <2>2
<1>11. ASSUME NEW c \in Calls, IsWritten(c) PROVE Kept
  <2>0. /\ K = <<c>> \o K' /\ U' = U \o (P \o <<c>>) /\ P' = MovedFrom(P)
        /\ W' = W /\ <<c>> \in Seq(Frames) /\ P \o <<c>> \in Seq(Frames)
    BY <1>1, <1>8, <1>11 DEF IsWritten, W, U, P, K
  <2>1. /\ A(K) <=> A(<<c>>) \/ A(K')
        /\ B(K) <=> B(<<c>>) \/ B(K')
        /\ AB(K) <=> AB(<<c>>) \/ AB(K') \/ (A(<<c>>) /\ B(K'))
        /\ A(P \o <<c>>) <=> A(P) \/ A(<<c>>)
        /\ B(P \o <<c>>) <=> B(P) \/ B(<<c>>)
        /\ AB(P \o <<c>>) <=> AB(P) \/ AB(<<c>>) \/ (A(P) /\ B(<<c>>))
    BY <1>1, <1>3, <2>0
  <2>2. /\ A(U') <=> A(U) \/ A(P \o <<c>>)
        /\ B(U') <=> B(U) \/ B(P \o <<c>>)
        /\ AB(U') <=> AB(U) \/ AB(P \o <<c>>) \/ (A(U) /\ B(P \o <<c>>))
    BY <1>1, <1>3, <2>0
  <2>3. /\ (A(W') <=> A(W)) /\ (B(W') <=> B(W)) /\ (AB(W') <=> AB(W))
        /\ ~A(P') /\ ~B(P') /\ ~AB(P')
    BY <1>1, <1>6, <2>0
  <2>4. QED
    BY <1>2, <2>1, <2>2, <2>3
<1>12. ASSUME NEW n \in Notifies, Overtakes(n) PROVE Kept
  <2>0. /\ K = <<n>> \o K' /\ U' = U \o <<n>> /\ P' = P /\ W' = W
        /\ <<n>> \in Seq(Frames)
    BY <1>8, <1>12 DEF Overtakes, W, U, P, K
  <2>1. /\ A(K) <=> A(<<n>>) \/ A(K')
        /\ B(K) <=> B(<<n>>) \/ B(K')
        /\ AB(K) <=> AB(<<n>>) \/ AB(K') \/ (A(<<n>>) /\ B(K'))
        /\ A(U') <=> A(U) \/ A(<<n>>)
        /\ B(U') <=> B(U) \/ B(<<n>>)
        /\ AB(U') <=> AB(U) \/ AB(<<n>>) \/ (A(U) /\ B(<<n>>))
    BY <1>1, <1>3, <2>0
  <2>2. /\ (A(W') <=> A(W)) /\ (B(W') <=> B(W)) /\ (AB(W') <=> AB(W))
        /\ (A(P') <=> A(P)) /\ (B(P') <=> B(P)) /\ (AB(P') <=> AB(P))
    BY <2>0
  <2>3. A(<<n>>) => a \notin Calls
    BY <1>4, <1>5
  <2>4. QED
    BY <1>2, <1>7, <2>1, <2>2, <2>3
<1>13. ASSUME Flushes PROVE Kept
  <2>0. K = <<Empty>> \o K' /\ U' = U \o P /\ P' = MovedFrom(P) /\ W' = W
    BY <1>13 DEF Flushes, W, U, P, K
  <2>1. /\ A(K) <=> A(K')
        /\ B(K) <=> B(K')
        /\ AB(K) <=> AB(K')
    BY <1>1, <1>3, <1>9, <2>0
  <2>2. /\ A(U') <=> A(U) \/ A(P)
        /\ B(U') <=> B(U) \/ B(P)
        /\ AB(U') <=> AB(U) \/ AB(P) \/ (A(U) /\ B(P))
    BY <1>1, <1>3, <2>0
  <2>3. /\ (A(W') <=> A(W)) /\ (B(W') <=> B(W)) /\ (AB(W') <=> AB(W))
        /\ ~A(P') /\ ~B(P') /\ ~AB(P')
    BY <1>1, <1>6, <2>0
  <2>4. QED
    BY <1>2, <2>1, <2>2, <2>3
<1>14. ASSUME RunsEmpty PROVE Kept
  <2>0. K = <<Empty>> \o K' /\ U' = U /\ P' = P /\ W' = W
    BY <1>14 DEF RunsEmpty, W, U, P, K
  <2>1. /\ A(K) <=> A(K')
        /\ B(K) <=> B(K')
        /\ AB(K) <=> AB(K')
    BY <1>1, <1>3, <1>9, <2>0
  <2>2. /\ (A(W') <=> A(W)) /\ (B(W') <=> B(W)) /\ (AB(W') <=> AB(W))
        /\ (A(U') <=> A(U)) /\ (B(U') <=> B(U)) /\ (AB(U') <=> AB(U))
        /\ (A(P') <=> A(P)) /\ (B(P') <=> B(P)) /\ (AB(P') <=> AB(P))
    BY <2>0
  <2>3. QED
    BY <1>2, <2>1, <2>2
<1>15. ASSUME AddsEmpty PROVE Kept
  <2>0. PICK e \in Seq({Empty}) : K' = K \o e
    BY <1>15 DEF AddsEmpty, K
  <2>1. e \in Seq(Frames) /\ ~A(e) /\ ~B(e) /\ ~AB(e)
    BY <1>4, <1>8, SeqMono DEF A, B, AB, Within, Precedes
  <2>2. /\ A(K') <=> A(K)
        /\ B(K') <=> B(K)
        /\ AB(K') <=> AB(K)
    BY <1>1, <1>3, <2>0, <2>1
  <2>3. W' = W /\ U' = U /\ P' = P
    BY <1>15 DEF AddsEmpty, W, U, P
  <2>4. /\ (A(W') <=> A(W)) /\ (B(W') <=> B(W)) /\ (AB(W') <=> AB(W))
        /\ (A(U') <=> A(U)) /\ (B(U') <=> B(U)) /\ (AB(U') <=> AB(U))
        /\ (A(P') <=> A(P)) /\ (B(P') <=> B(P)) /\ (AB(P') <=> AB(P))
    BY <2>3
  <2>5. QED
    BY <1>2, <2>2, <2>4
<1>16. ASSUME NEW f \in Frames, IsTaken(f) PROVE Kept
  <2>0. /\ U = <<f>> \o U' /\ P' = P /\ K' = K /\ <<f>> \in Seq(Frames)
        /\ (f = Empty /\ W' = W) \/ (f # Empty /\ W' = W \o <<f>>)
    BY <1>8, <1>16 DEF IsTaken, W, U, P, K
  <2>1. /\ A(U) <=> A(<<f>>) \/ A(U')
        /\ B(U) <=> B(<<f>>) \/ B(U')
        /\ AB(U) <=> AB(<<f>>) \/ AB(U') \/ (A(<<f>>) /\ B(U'))
    BY <1>1, <1>3, <2>0
  <2>2. /\ A(W') <=> A(W) \/ A(<<f>>)
        /\ B(W') <=> B(W) \/ B(<<f>>)
        /\ AB(W') <=> AB(W) \/ AB(<<f>>) \/ (A(W) /\ B(<<f>>))
    <3>1. CASE f = Empty /\ W' = W
      BY <1>9, <3>1
    <3>2. CASE W' = W \o <<f>>
      BY <1>1, <1>3, <2>0, <3>2
    <3>3. QED
      BY <2>0, <3>1, <3>2
  <2>3. /\ (A(K') <=> A(K)) /\ (B(K') <=> B(K)) /\ (AB(K') <=> AB(K))
        /\ (A(P') <=> A(P)) /\ (B(P') <=> B(P)) /\ (AB(P') <=> AB(P))
    BY <2>0
  <2>4. QED
    BY <1>2, <2>1, <2>2, <2>3
<1>17. ASSUME NEW n \in Notifies, IsGivenUp(n) PROVE Kept
  <2>0. /\ U = <<n>> \o U' /\ P' = P /\ K' = K /\ W' = W
        /\ <<n>> \in Seq(Frames)
    BY <1>8, <1>17 DEF IsGivenUp, W, U, P, K
  <2>1. (A(U') => A(U)) /\ (B(U') => B(U)) /\ (AB(U') => AB(U))
    BY <1>1, <1>3, <2>0
  <2>2. /\ (A(W') <=> A(W)) /\ (B(W') <=> B(W)) /\ (AB(W') <=> AB(W))
        /\ (A(K') <=> A(K)) /\ (B(K') <=> B(K)) /\ (AB(K') <=> AB(K))
        /\ (A(P') <=> A(P)) /\ (B(P') <=> B(P)) /\ (AB(P') <=> AB(P))
    BY <2>0
  <2>3. QED
    BY <1>2, <2>1, <2>2
<1>18. ASSUME Stays PROVE Kept
  <2>1. W' = W /\ U' = U /\ P' = P /\ K' = K
    BY <1>18 DEF Stays, W, U, P, K
  <2>2. /\ (A(W') <=> A(W)) /\ (B(W') <=> B(W)) /\ (AB(W') <=> AB(W))
        /\ (A(U') <=> A(U)) /\ (B(U') <=> B(U)) /\ (AB(U') <=> AB(U))
        /\ (A(K') <=> A(K)) /\ (B(K') <=> B(K)) /\ (AB(K') <=> AB(K))
        /\ (A(P') <=> A(P)) /\ (B(P') <=> B(P)) /\ (AB(P') <=> AB(P))
    BY <2>1
  <2>3. QED
    BY <1>2, <2>2
<1>19. ASSUME IsCut PROVE Kept
  <2>1. W' = W /\ U' = U /\ P' = P /\ K' = <<>>
    BY <1>19 DEF IsCut, W, U, P, K
  <2>2. ~A(K') /\ ~B(K') /\ ~AB(K')
    BY <2>1 DEF A, B, AB, Within, Precedes
  <2>3. /\ (A(W') <=> A(W)) /\ (B(W') <=> B(W)) /\ (AB(W') <=> AB(W))
        /\ (A(U') <=> A(U)) /\ (B(U') <=> B(U)) /\ (AB(U') <=> AB(U))
        /\ (A(P') <=> A(P)) /\ (B(P') <=> B(P)) /\ (AB(P') <=> AB(P))
    BY <2>1
  <2>4. QED
    BY <1>2, <2>2, <2>3
<1>20. Kept
  BY <1>10, <1>11, <1>12, <1>13, <1>14, <1>15, <1>16, <1>17, <1>18, <1>19
     DEF Moves
<1>21. QED
  BY <1>20 DEF A, AB

(* A request that is posted comes last in the line, as it does in posted. *)
LEMMA JoinKeepsOrder ==
  ASSUME IInv, IInv', NEW r \in Requests, Joins(r), posted' = Append(posted, r),
         NEW a \in Requests, NEW b \in Requests
  PROVE  /\ Within(Line', a) <=> Within(Line, a) \/ a = r
         /\ Within(posted', a) <=> Within(posted, a) \/ a = r
         /\ Precedes(Line', a, b) => \/ Precedes(Line, a, b)
                                     \/ Within(Line, a) /\ b = r
         /\ Precedes(posted', a, b) <=> \/ Precedes(posted, a, b)
                                        \/ Within(posted, a) /\ b = r
<1> DEFINE k == Coming
           q == posted
<1>1. k \in Seq(Frames) /\ <<r>> \in Seq(Frames) /\ k' = k \o <<r>>
  BY CopiesInLine DEF Joins, Frames
<1>2. q \in Seq(Requests) /\ <<r>> \in Seq(Requests) /\ q' = q \o <<r>>
  <2>1. q \in Seq(Requests)
    BY DEF IInv, TypeOK
  <2>2. q' = Append(q, r)
    OBVIOUS
  <2> HIDE DEF q
  <2>3. QED
    BY <2>1, <2>2, AppendsOne
<1>3. /\ Within(<<r>>, a) <=> r = a
      /\ Within(<<r>>, b) <=> r = b
      /\ ~Precedes(<<r>>, a, b)
  BY OneElement
<1> HIDE DEF k, q
<1>4. /\ Within(k', a) <=> Within(k, a) \/ r = a
      /\ Within(k', b) <=> Within(k, b) \/ r = b
      /\ Precedes(k', a, b) <=> \/ Precedes(k, a, b)
                                \/ Within(k, a) /\ r = b
  BY <1>1, <1>3, WithinConcat, PrecedesConcat
<1>5. /\ Within(q', a) <=> Within(q, a) \/ r = a
      /\ Precedes(q', a, b) <=> \/ Precedes(q, a, b)
                                \/ Within(q, a) /\ r = b
  BY <1>2, <1>3, WithinConcat, PrecedesConcat
<1>6. wire' = wire /\ Unsent' = Unsent /\ pending_calls' = pending_calls
  BY DEF Joins
<1>7. QED
  BY <1>4, <1>5, <1>6, LineParts DEF k, q

LEMMA OrderStep ==
  ASSUME IInv, IInv', OrderIInv, [Next]_vars
  PROVE  OrderIInv'
<1>0. LineInOrder /\ LinePosted /\ KeptAreCalls
  BY DEF OrderIInv
<1>1. ASSUME NEW r \in Requests, Joins(r), posted' = Append(posted, r)
      PROVE  OrderIInv'
  <2>1. KeptAreCalls'
    BY <1>0, <1>1 DEF Joins, KeptAreCalls
  <2>2. LinePosted'
    BY <1>0, <1>1, JoinKeepsOrder DEF LinePosted
  <2>3. ASSUME NEW a \in Requests, NEW b \in Requests,
               Precedes(Line', a, b), b \in Calls => a \in Calls
        PROVE  Precedes(posted', a, b)
    <3>1. Precedes(Line, a, b) => Precedes(posted, a, b)
      BY <1>0, <2>3 DEF LineInOrder
    <3>2. Within(Line, a) => Within(posted, a)
      BY <1>0 DEF LinePosted
    <3>3. QED
      BY <1>1, <2>3, <3>1, <3>2, JoinKeepsOrder
  <2>4. LineInOrder'
    BY <2>3 DEF LineInOrder
  <2>5. QED
    BY <2>1, <2>2, <2>4 DEF OrderIInv
<1>2. ASSUME Moves, UNCHANGED posted PROVE OrderIInv'
  <2>1. KeptAreCalls'
    <3>1. CASE \E c \in Calls : pending_calls' = pending_calls \o <<c>>
      <4>1. PICK c \in Calls : pending_calls' = pending_calls \o <<c>>
        BY <3>1
      <4>2. pending_calls \in Seq(Frames) /\ <<c>> \in Seq(Frames)
        BY DEF IInv, TypeOK, Frames, Requests
      <4>3. \A n \in Notifies : ~Within(<<c>>, n)
        BY RequestAssumption, OneElement
      <4>4. QED
        BY <1>0, <4>1, <4>2, <4>3, WithinConcat DEF KeptAreCalls
    <3>2. CASE pending_calls' = MovedFrom(pending_calls)
      <4>1. pending_calls \in Seq(Frames) /\ \A n \in Notifies : n # Empty
        BY RequestAssumption DEF IInv, TypeOK
      <4>2. QED
        BY <3>2, <4>1, MovedFromHolds DEF KeptAreCalls
    <3>3. CASE pending_calls' = pending_calls
      BY <1>0, <3>3 DEF KeptAreCalls
    <3>4. QED
      BY <1>2, <3>1, <3>2, <3>3
         DEF Moves, IsKept, IsWritten, Overtakes, Flushes, RunsEmpty,
             AddsEmpty, IsTaken, IsGivenUp, Stays, IsCut
  <2>2. ASSUME NEW a \in Requests, NEW b \in Requests
        PROVE  /\ Within(Line', a) => Within(posted', a)
               /\ Precedes(Line', a, b) /\ (b \in Calls => a \in Calls)
                    => Precedes(posted', a, b)
    <3>1. /\ Within(Line', a) => Within(Line, a)
          /\ Precedes(Line', a, b) /\ (b \in Calls => a \in Calls)
               => Precedes(Line, a, b)
      BY <1>0, <1>2, MovesKeepOrder
    <3>2. posted' = posted
      BY <1>2
    <3>3. QED
      BY <1>0, <3>1, <3>2 DEF LineInOrder, LinePosted
  <2>3. LinePosted' /\ LineInOrder'
    BY <2>2 DEF LinePosted, LineInOrder
  <2>4. QED
    BY <2>1, <2>3 DEF OrderIInv
<1>3. ASSUME NEW c \in Calls, PostCall(c)
      PROVE  c \in Requests /\ posted' = Append(posted, c)
  BY <1>3 DEF PostCall, PostTask, Requests
<1>4. ASSUME NEW n \in Notifies, Notify(n)
      PROVE  n \in Requests /\ posted' = Append(posted, n)
  BY <1>4 DEF Notify, PostTask, Requests
<1>5. QED
  BY <1>1, <1>2, <1>3, <1>4, LineMoves

LEMMA InitOrder == Init => OrderIInv
<1> SUFFICES ASSUME Init PROVE OrderIInv
  OBVIOUS
<1>1. wire = <<>> /\ Unsent = <<>> /\ pending_calls = <<>> /\ Carried(strand) = <<>>
  BY DEF Init, Unsent, Carried
<1>2. Line = <<>>
  BY <1>1 DEF Line
<1>3. QED
  BY <1>1, <1>2
     DEF OrderIInv, LineInOrder, LinePosted, KeptAreCalls, Within, Precedes

(* Of two calls, and of two notifications, the one that was posted first
   reaches the kernel first, over any number of them: a notification may only
   overtake calls that wait for the connection. *)
THEOREM KindsKeepOrder == Spec => []SameKindInOrder
<1>1. IInv /\ IInv' /\ OrderIInv /\ [Next]_vars => OrderIInv'
  BY OrderStep
<1>2. IInv /\ OrderIInv => SameKindInOrder
  <2> SUFFICES ASSUME IInv, OrderIInv PROVE SameKindInOrder
    OBVIOUS
  <2>1. ASSUME NEW a \in Requests, NEW b \in Requests, Precedes(wire, a, b),
               a \in Calls <=> b \in Calls
        PROVE  Precedes(posted, a, b)
    <3>1. Precedes(Line, a, b)
      <4> DEFINE rest == Unsent \o pending_calls \o Carried(strand)
      <4>1. /\ wire \in Seq(Frames) /\ Unsent \in Seq(Frames)
            /\ pending_calls \in Seq(Frames) /\ Carried(strand) \in Seq(Frames)
        <5>1. /\ wire \in Seq(Requests) /\ write_queue \in Seq(Frames)
              /\ pending_calls \in Seq(Frames) /\ strand \in Seq(Tasks)
              /\ WriteHasFrame
          BY DEF IInv, TypeOK
        <5>2. QED
          BY <5>1, SeqMono, UnsentType, CarriedTypes DEF Frames
      <4>2. QED
        BY <2>1, <4>1, FourParts DEF Line
    <3>2. QED
      BY <2>1, <3>1 DEF OrderIInv, LineInOrder
  <2>2. QED
    BY <2>1 DEF SameKindInOrder
<1>3. QED
  BY <1>1, <1>2, InitOrder, ClientInvariant, PTL DEF Spec

-----------------------------------------------------------------------------
(* What a call finds ahead of it. *)

LEMMA InLine ==
  ASSUME IInv, NEW a \in Requests, NEW b \in Requests
  PROVE  /\ Within(Line, a) <=> \/ Within(wire, a) \/ Within(Unsent, a)
                                \/ Within(pending_calls, a) \/ Within(Coming, a)
         /\ Within(wire, a) /\ (\/ Within(Unsent, b) \/ Within(pending_calls, b)
                                \/ Within(Coming, b))
              => Precedes(Line, a, b)
         /\ (Within(Unsent, a) \/ Within(pending_calls, a)) /\ Within(Coming, b)
              => Precedes(Line, a, b)
         /\ Precedes(wire, a, b) => Precedes(Line, a, b)
<1>1. /\ wire \in Seq(Frames) /\ Unsent \in Seq(Frames)
      /\ pending_calls \in Seq(Frames) /\ Coming \in Seq(Frames)
  <2>1. /\ wire \in Seq(Requests) /\ write_queue \in Seq(Frames)
        /\ pending_calls \in Seq(Frames) /\ strand \in Seq(Tasks)
        /\ WriteHasFrame
    BY DEF IInv, TypeOK
  <2>2. QED
    BY <2>1, SeqMono, UnsentType, CarriedTypes DEF Frames, Coming
<1>2. Line = wire \o Unsent \o pending_calls \o Coming
  BY DEF Line, Coming
<1>3. QED
  BY <1>1, <1>2, FourParts

(* A request that Copies counts is in the line. *)
LEMMA CopyInLine ==
  ASSUME IInv, IInv', NEW r \in Requests
  PROVE  /\ Copies(r) > 0 <=> Within(Line, r)
         /\ Copies(r)' > 0 <=> Within(Line', r)
<1>1. /\ wire \in Seq(Frames) /\ Unsent \in Seq(Frames)
      /\ pending_calls \in Seq(Frames) /\ Coming \in Seq(Frames)
      /\ wire' \in Seq(Frames) /\ Unsent' \in Seq(Frames)
      /\ pending_calls' \in Seq(Frames) /\ Coming' \in Seq(Frames)
      /\ Copies(r) = Count(Coming, r) + Count(pending_calls, r)
                       + Count(Unsent, r) + Count(wire, r)
      /\ Copies(r)' = Count(Coming', r) + Count(pending_calls', r)
                        + Count(Unsent', r) + Count(wire', r)
  BY CopiesInLine
<1>2. \A s \in Seq(Frames) :
        Count(s, r) \in Nat /\ (Count(s, r) > 0 <=> Within(s, r))
  <2> SUFFICES ASSUME NEW s \in Seq(Frames)
               PROVE  Count(s, r) \in Nat /\ (Count(s, r) > 0 <=> Within(s, r))
    OBVIOUS
  <2>1. Count(s, r) \in Nat /\ (Count(s, r) = 0 <=> ~Within(s, r))
    BY CountIn
  <2>2. QED
    BY <2>1
<1>3. /\ Within(Line, r) <=> \/ Within(wire, r) \/ Within(Unsent, r)
                             \/ Within(pending_calls, r) \/ Within(Coming, r)
      /\ Within(Line', r) <=> \/ Within(wire', r) \/ Within(Unsent', r)
                              \/ Within(pending_calls', r) \/ Within(Coming', r)
  BY LineParts
<1>4. Copies(r) > 0 <=> Within(Line, r)
  <2>1. /\ Count(Coming, r) \in Nat /\ Count(pending_calls, r) \in Nat
        /\ Count(Unsent, r) \in Nat /\ Count(wire, r) \in Nat
        /\ Count(Coming, r) > 0 <=> Within(Coming, r)
        /\ Count(pending_calls, r) > 0 <=> Within(pending_calls, r)
        /\ Count(Unsent, r) > 0 <=> Within(Unsent, r)
        /\ Count(wire, r) > 0 <=> Within(wire, r)
    BY <1>1, <1>2
  <2>2. QED
    BY <1>1, <1>3, <2>1
<1>5. Copies(r)' > 0 <=> Within(Line', r)
  <2>1. /\ Count(Coming', r) \in Nat /\ Count(pending_calls', r) \in Nat
        /\ Count(Unsent', r) \in Nat /\ Count(wire', r) \in Nat
        /\ Count(Coming', r) > 0 <=> Within(Coming', r)
        /\ Count(pending_calls', r) > 0 <=> Within(pending_calls', r)
        /\ Count(Unsent', r) > 0 <=> Within(Unsent', r)
        /\ Count(wire', r) > 0 <=> Within(wire', r)
    BY <1>1, <1>2
  <2>2. QED
    BY <1>1, <1>3, <2>1
<1>6. QED
  BY <1>4, <1>5

(* A request posted once is not posted both before and after another. *)
LEMMA OneOrder ==
  ASSUME PostedOnce, posted \in Seq(Requests),
         NEW a, NEW b, Precedes(posted, a, b)
  PROVE  ~Precedes(posted, b, a)
<1>1. PICK i, j \in DOMAIN posted : i < j /\ posted[i] = a /\ posted[j] = b
  BY DEF Precedes
<1>2. ASSUME NEW k \in DOMAIN posted, NEW l \in DOMAIN posted,
             k < l, posted[k] = b, posted[l] = a
      PROVE  FALSE
  <2>1. k = j /\ l = i
    BY <1>1, <1>2 DEF PostedOnce
  <2>2. i \in Nat /\ j \in Nat
    OBVIOUS
  <2>3. QED
    BY <1>1, <1>2, <2>1, <2>2
<1>3. QED
  BY <1>2 DEF Precedes

LEMMA WireConnectedStep ==
  ASSUME IInv, ConnectsAnew, WireConnected, [Next]_vars
  PROVE  WireConnected'
<1>1. failures \in Nat
  BY DEF IInv, TypeOK
<1>2. CASE OnRetry \/ OnConnectError
  BY <1>1, <1>2 DEF OnRetry, OnConnectError, OnConnectFailed, WireConnected
<1>3. CASE Accepted \/ Refused
  BY <1>3 DEF Accepted, Refused, ConnectEnds, ConnectsAnew, WireConnected
<1>4. CASE Break
  BY <1>4 DEF Break, Drop, WireConnected
<1>5. CASE Kernel
  BY <1>5 DEF Kernel, Transmit, FailPipe, FailOther, Settle, WireConnected
<1>6. CASE UNCHANGED <<failures, link, wire>>
  BY <1>6 DEF WireConnected
<1>7. CASE RunCall \/ RunNotify \/ RunFlush \/ RunErase
  BY <1>6, <1>7 DEF RunCall, RunNotify, RunFlush, RunErase, WriteAll
<1>8. CASE \/ OnConnected \/ OnRead \/ OnReadDisconnected \/ OnReadError
           \/ OnWritten \/ OnBrokenPipe \/ OnWriteError \/ RunReturns
  BY <1>6, <1>8
     DEF OnConnected, OnRead, OnReadDisconnected, OnReadError, ReadEnds,
         OnWritten, OnBrokenPipe, OnWriteError, WriteDone, RunReturns
<1>9. CASE (\E c \in Calls : User(c)) \/ \E n \in Notifies : Notify(n)
  BY <1>6, <1>9
     DEF User, NextCallIdx, PostCall, PostTask, Notify, Wait, Return,
         ThrowTimeout, UserStep
<1>10. QED
  BY <1>2, <1>3, <1>4, <1>5, <1>6, <1>7, <1>8, <1>9
     DEF Next, vars, SetTimeout, Destroy, IoThread, Answer

LEMMA PostedOnceStep ==
  ASSUME IInv, IInv', PostedOnce, [Next]_vars
  PROVE  PostedOnce'
<1>0. posted \in Seq(Requests) /\ stage \in [Requests -> Stages]
  BY DEF IInv, TypeOK
<1>1. ASSUME NEW r \in Requests, stage[r] \in {"idle", "numbered"},
             posted' = Append(posted, r), stage' = [stage EXCEPT ![r] = "posted"]
      PROVE  PostedOnce'
  <2> DEFINE n == Len(posted)
  <2>1. /\ n \in Nat /\ DOMAIN posted = 1 .. n /\ DOMAIN posted' = 1 .. n + 1
        /\ \A i \in 1 .. n : posted'[i] = posted[i] /\ posted[i] # r
        /\ posted'[n + 1] = r
    <3>1. \A i \in DOMAIN posted : posted[i] # r
      BY <1>1 DEF PostedOnce, Within
    <3>2. QED
      BY <1>0, <1>1, <3>1
  <2> HIDE DEF n
  <2>2. \A i, j \in DOMAIN posted' : posted'[i] = posted'[j] => i = j
    <3> SUFFICES ASSUME NEW i \in 1 .. n + 1, NEW j \in 1 .. n + 1,
                        posted'[i] = posted'[j]
                 PROVE  i = j
      BY <2>1
    <3>1. CASE i \in 1 .. n /\ j \in 1 .. n
      BY <2>1, <3>1 DEF PostedOnce
    <3>2. CASE i = n + 1 \/ j = n + 1
      <4>1. i \in 1 .. n => posted'[i] # r
        BY <2>1
      <4>2. j \in 1 .. n => posted'[j] # r
        BY <2>1
      <4>3. posted'[i] = r /\ posted'[j] = r
        BY <2>1, <3>2
      <4>4. i \notin 1 .. n /\ j \notin 1 .. n
        BY <4>1, <4>2, <4>3
      <4>5. QED
        BY <2>1, <4>4
    <3>3. QED
      BY <2>1, <3>1, <3>2
  <2>3. ASSUME NEW q \in Requests, Within(posted', q)
        PROVE  stage'[q] \notin {"idle", "numbered"}
    <3>1. q = r \/ Within(posted, q)
      <4>1. PICK i \in 1 .. n + 1 : posted'[i] = q
        BY <2>1, <2>3 DEF Within
      <4>2. i = n + 1 \/ i \in 1 .. n
        BY <2>1
      <4>3. QED
        BY <2>1, <4>1, <4>2 DEF Within
    <3>2. stage'[q] = IF q = r THEN "posted" ELSE stage[q]
      BY <1>0, <1>1
    <3>3. QED
      BY <3>1, <3>2 DEF PostedOnce
  <2>4. QED
    BY <2>2, <2>3 DEF PostedOnce
<1>2. ASSUME UNCHANGED posted PROVE PostedOnce'
  <2>1. \A c \in Calls : stage'[c] \in {"idle", "numbered"}
                           => \/ stage[c] \in {"idle", "numbered"}
                              \/ PostCall(c)
    BY StageSteps
  <2>2. \A n \in Notifies : stage'[n] \in {"idle", "numbered"}
                              => stage[n] \in {"idle", "numbered"}
    BY StageSteps
  <2>3. \A c \in Calls : ~PostCall(c)
    <3> SUFFICES ASSUME NEW c \in Calls, PostCall(c) PROVE FALSE
      OBVIOUS
    <3>1. posted' = Append(posted, c) /\ c \in Requests
      BY DEF PostCall, PostTask, Requests
    <3>2. Len(posted') = Len(posted) + 1 /\ Len(posted) \in Nat
      BY <1>0, <3>1
    <3>3. QED
      BY <1>2, <3>2
  <2>4. QED
    BY <1>2, <2>1, <2>2, <2>3 DEF PostedOnce, Requests
<1>3. ASSUME NEW c \in Calls, PostCall(c)
      PROVE  /\ c \in Requests /\ stage[c] \in {"idle", "numbered"}
             /\ posted' = Append(posted, c) /\ stage' = [stage EXCEPT ![c] = "posted"]
  BY <1>3 DEF PostCall, PostTask, Requests
<1>4. ASSUME NEW n \in Notifies, Notify(n)
      PROVE  /\ n \in Requests /\ stage[n] \in {"idle", "numbered"}
             /\ posted' = Append(posted, n) /\ stage' = [stage EXCEPT ![n] = "posted"]
  BY <1>4 DEF Notify, PostTask, Requests
<1>5. QED
  BY <1>1, <1>2, <1>3, <1>4, LineMoves

(* Whoever is ahead of a call stays in the line with it: what the destructor
   drops is at the end. *)
LEMMA NoneLeftStep ==
  ASSUME IInv, IInv', PlaceIInv, OrderIInv, AheadIInv, [Next]_vars
  PROVE  NoneLeftBehind'
<1>0. /\ LineInOrder /\ PostedOnce /\ NoneLeftBehind
      /\ Calls \cap Notifies = {} /\ Requests = Calls \cup Notifies
      /\ posted \in Seq(Requests)
  BY RequestAssumption DEF OrderIInv, AheadIInv, IInv, TypeOK, Requests
<1>f. /\ Failed => Failed'
      /\ write_op = "broken_pipe" => Failed
  BY FailureStep DEF PlaceIInv, PipeFailed
<1>1. ASSUME NEW r \in Requests, Joins(r), posted' = Append(posted, r), Usable
      PROVE  NoneLeftBehind'
  <2> SUFFICES ASSUME NEW n \in Notifies, NEW c \in Calls,
                      Precedes(posted', n, c), Within(Line', c)
               PROVE  Within(Line', n) \/ Failed'
    BY DEF NoneLeftBehind
  <2>0. n \in Requests /\ c \in Requests /\ n # c
    BY <1>0
  <2>1. /\ Within(Line', n) <=> Within(Line, n) \/ n = r
        /\ Within(Line', c) <=> Within(Line, c) \/ c = r
        /\ \/ Precedes(posted, n, c)
           \/ Within(posted, n) /\ c = r
    BY <1>1, <2>0, JoinKeepsOrder
  <2>2. Within(posted, n)
    BY <2>1 DEF Precedes, Within
  <2>3. stage[n] # "idle"
    BY <1>0, <2>0, <2>2 DEF PostedOnce
  <2>4. Copies(n) # 0 \/ Failed
    BY <1>1, <2>3 DEF PlaceIInv, OnePlace, Usable, Failed
  <2>5. Copies(n) \in Nat /\ (Copies(n) > 0 <=> Within(Line, n))
    BY <2>0, CopiesAreNat, CopyInLine
  <2>6. Within(Line, n) \/ Failed
    BY <2>4, <2>5
  <2>7. QED
    BY <1>f, <2>1, <2>6
<1>2. ASSUME Moves, UNCHANGED posted PROVE NoneLeftBehind'
  <2> SUFFICES ASSUME NEW n \in Notifies, NEW c \in Calls,
                      Precedes(posted', n, c), Within(Line', c)
               PROVE  Within(Line', n) \/ Failed'
    BY DEF NoneLeftBehind
  <2>0. n \in Requests /\ c \in Requests /\ n # c /\ n \notin Calls
    BY <1>0
  <2>1. Within(Line, c) /\ Precedes(posted, n, c)
    <3>1. Within(Line', c) => Within(Line, c)
      BY <1>2, <2>0, MovesKeepOrder DEF OrderIInv
    <3>2. QED
      BY <1>2, <3>1
  <2>2. Within(Line, n) \/ Failed
    BY <1>0, <2>1 DEF NoneLeftBehind
  <2>3. \/ Copies(n)' = Copies(n)
        \/ write_op = "broken_pipe"
        \/ IsCut
    BY <1>2, <2>0, MovesKeepCopies
  <2>4. CASE Copies(n)' = Copies(n)
    <3>1. /\ Copies(n) > 0 <=> Within(Line, n)
          /\ Copies(n)' > 0 <=> Within(Line', n)
      BY <2>0, CopyInLine
    <3>2. QED
      BY <1>f, <2>2, <2>4, <3>1
  <2>5. CASE IsCut /\ Within(Line, n)
    <3>1. /\ Within(Line', c) <=> \/ Within(wire', c) \/ Within(Unsent', c)
                                  \/ Within(pending_calls', c) \/ Within(Coming', c)
          /\ Within(Line', n) <=> \/ Within(wire', n) \/ Within(Unsent', n)
                                  \/ Within(pending_calls', n) \/ Within(Coming', n)
      BY <2>0, LineParts
    <3>2. /\ ~Within(Coming', c)
          /\ wire' = wire /\ Unsent' = Unsent /\ pending_calls' = pending_calls
      BY <2>5 DEF IsCut, Within
    <3>3. Within(wire, c) \/ Within(Unsent, c) \/ Within(pending_calls, c)
      BY <3>1, <3>2
    <3>4. Within(Coming, n) => Precedes(Line, c, n)
      BY <2>0, <3>3, InLine
    <3>5. Precedes(Line, c, n) => Precedes(posted, c, n)
      BY <1>0, <2>0 DEF LineInOrder
    <3>6. ~Precedes(posted, c, n)
      BY <1>0, <2>1, OneOrder
    <3>7. Within(wire, n) \/ Within(Unsent, n) \/ Within(pending_calls, n)
      BY <2>0, <2>5, <3>4, <3>5, <3>6, InLine
    <3>8. QED
      BY <3>1, <3>2, <3>7
  <2>6. QED
    BY <1>f, <2>2, <2>3, <2>4, <2>5
<1>3. ASSUME NEW c \in Calls, PostCall(c)
      PROVE  c \in Requests /\ posted' = Append(posted, c) /\ Usable
  BY <1>3 DEF PostCall, PostTask, Requests
<1>4. ASSUME NEW n \in Notifies, Notify(n)
      PROVE  n \in Requests /\ posted' = Append(posted, n) /\ Usable
  BY <1>4 DEF Notify, PostTask, Requests
<1>5. QED
  BY <1>1, <1>2, <1>3, <1>4, LineMoves

LEMMA AheadStep ==
  ASSUME IInv, IInv', PlaceIInv, OrderIInv, AheadIInv, [Next]_vars
  PROVE  AheadIInv'
BY PostedOnceStep, NoneLeftStep, WireConnectedStep DEF AheadIInv, PlaceIInv

LEMMA InitAhead == Init => AheadIInv
<1> SUFFICES ASSUME Init PROVE AheadIInv
  OBVIOUS
<1>1. posted = <<>> /\ wire = <<>>
  BY DEF Init
<1>2. QED
  BY <1>1
     DEF AheadIInv, PostedOnce, NoneLeftBehind, WireConnected, Within, Precedes

(* A notification that was posted before a call is on the wire before it, unless
   a connection failed. *)
LEMMA NotifiesAhead ==
  ASSUME IInv, OrderIInv, AheadIInv, NEW n \in Notifies, NEW c \in Calls,
         Precedes(posted, n, c), failures = 0, link # "broken",
         NEW j \in DOMAIN wire, wire[j] = c
  PROVE  \E i \in DOMAIN wire : i < j /\ wire[i] = n
<1>0. /\ n \in Requests /\ c \in Requests /\ n # c /\ n \notin Calls
      /\ posted \in Seq(Requests) /\ wire \in Seq(Requests)
  BY RequestAssumption DEF Requests, IInv, TypeOK
<1>1. Within(wire, c)
  BY DEF Within
<1>2. ~Failed
  <2>1. wire # <<>>
    OBVIOUS
  <2>2. QED
    BY <2>1 DEF AheadIInv, WireConnected, Failed
<1>3. Within(Line, n)
  <2>1. Within(Line, c)
    BY <1>0, <1>1, InLine
  <2>2. QED
    BY <1>2, <2>1 DEF AheadIInv, NoneLeftBehind
<1>4. ~Precedes(Line, c, n)
  <2>1. ~Precedes(posted, c, n)
    BY <1>0, OneOrder DEF AheadIInv
  <2>2. QED
    BY <1>0, <2>1 DEF OrderIInv, LineInOrder
<1>5. Within(wire, n) /\ ~Precedes(wire, c, n)
  BY <1>0, <1>1, <1>3, <1>4, InLine
<1>6. PICK i \in DOMAIN wire : wire[i] = n
  BY <1>5 DEF Within
<1>7. ~(j < i) /\ i # j
  BY <1>0, <1>5, <1>6 DEF Precedes
<1>8. i \in Nat /\ j \in Nat
  BY <1>0
<1>9. QED
  BY <1>6, <1>7, <1>8

=============================================================================
