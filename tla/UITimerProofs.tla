---------------------------- MODULE UITimerProofs ----------------------------
(***************************************************************************)
(* Proofs of the safety properties of UITimer, and with it of the pump and *)
(* of the timer.                                                           *)
(***************************************************************************)
EXTENDS UITimer, ListLemmas, SequenceTheorems

-----------------------------------------------------------------------------
(* Counting the entries of a list that are in a set.                       *)

Positions(list, S) == {i \in DOMAIN list : list[i] \in S}
Count(list, S) == Cardinality(Positions(list, S))
One(e, S) == IF e \in S THEN 1 ELSE 0

LEMMA PositionsFinite ==
  ASSUME NEW V, NEW list \in Seq(V), NEW S
  PROVE  IsFiniteSet(Positions(list, S)) /\ Count(list, S) \in Nat
<1>0. 1 \in Int /\ Len(list) \in Int
  OBVIOUS
<1>1. IsFiniteSet(1 .. Len(list))
  BY <1>0, FS_Interval
<1>2. Positions(list, S) \in SUBSET (1 .. Len(list))
  BY DEF Positions
<1>3. IsFiniteSet(Positions(list, S))
  BY <1>1, <1>2, FS_Subset
<1>4. QED
  BY <1>3, FS_CardinalityType DEF Count

LEMMA CountEmpty ==
  ASSUME NEW S
  PROVE  Count(<<>>, S) = 0
<1>1. Positions(<<>>, S) = {}
  BY DEF Positions
<1>2. QED
  BY <1>1, FS_EmptySet DEF Count

\* An entry in the set counts.
LEMMA CountOf ==
  ASSUME NEW V, NEW list \in Seq(V), NEW S
  PROVE  /\ \A i \in DOMAIN list : list[i] \in S => Count(list, S) >= 1
         /\ Count(list, S) >= 1 => \E i \in DOMAIN list : list[i] \in S
<1>1. IsFiniteSet(Positions(list, S)) /\ Count(list, S) \in Nat
  BY PositionsFinite
<1>2. Count(list, S) = 0 <=> Positions(list, S) = {}
  BY <1>1, FS_EmptySet DEF Count
<1>3. QED
  BY <1>1, <1>2 DEF Positions

LEMMA CountAppend ==
  ASSUME NEW V, NEW list \in Seq(V), NEW e \in V, NEW S
  PROVE  Count(Append(list, e), S) = Count(list, S) + One(e, S)
<1>1. IsFiniteSet(Positions(list, S)) /\ Count(list, S) \in Nat
  BY PositionsFinite
<1>2. Positions(Append(list, e), S)
        = IF e \in S THEN Positions(list, S) \cup {Len(list) + 1} ELSE Positions(list, S)
  BY DEF Positions
<1>3. Len(list) + 1 \notin Positions(list, S)
  BY DEF Positions
<1>4. Cardinality(Positions(list, S) \cup {Len(list) + 1}) = Count(list, S) + 1
  BY <1>1, <1>3, FS_AddElement DEF Count
<1>5. QED
  BY <1>1, <1>2, <1>4 DEF Count, One

LEMMA CountFront ==
  ASSUME NEW V, NEW list \in Seq(V), list # <<>>, NEW S
  PROVE  Count(list, S) = Count(Front(list), S) + One(Last(list), S)
<1> DEFINE n == Len(list)
           e == Last(list)
           front == Front(list)
<1>1. front \in Seq(V) /\ e \in V
  BY FrontElements
<1>2. /\ n \in Nat \ {0} /\ DOMAIN list = 1 .. n /\ list[n] = e
      /\ DOMAIN front = 1 .. n - 1 /\ \A i \in 1 .. n - 1 : front[i] = list[i]
  BY DEF Front, Last
<1> HIDE DEF n, e, front
<1>3. IsFiniteSet(Positions(front, S)) /\ Count(front, S) \in Nat
  BY <1>1, PositionsFinite
<1>4. Positions(list, S)
        = IF e \in S THEN Positions(front, S) \cup {n} ELSE Positions(front, S)
  BY <1>2 DEF Positions
<1>5. n \notin Positions(front, S)
  BY <1>2 DEF Positions
<1>6. Cardinality(Positions(front, S) \cup {n}) = Count(front, S) + 1
  BY <1>3, <1>5, FS_AddElement DEF Count
<1>7. QED
  BY <1>3, <1>4, <1>6 DEF Count, One, e, front

\* Positions that are moved are as many.
LEMMA CountMoved ==
  ASSUME NEW V, NEW list \in Seq(V), NEW S, NEW U, NEW f \in Bijection(Positions(list, S), U)
  PROVE  IsFiniteSet(U) /\ Cardinality(U) = Count(list, S)
<1>1. IsFiniteSet(Positions(list, S))
  BY PositionsFinite
<1>2. ExistsBijection(Positions(list, S), U)
  BY DEF ExistsBijection
<1>3. QED
  BY <1>1, <1>2, FS_Bijection DEF Count

LEMMA CountTail ==
  ASSUME NEW V, NEW list \in Seq(V), list # <<>>, NEW S
  PROVE  Count(list, S) = Count(Tail(list), S) + One(Head(list), S)
<1> DEFINE n == Len(list)
           e == Head(list)
           tail == Tail(list)
           P == Positions(tail, S)
           U == {i \in 2 .. n : list[i] \in S}
           f == [i \in P |-> i + 1]
<1>1. tail \in Seq(V)
  BY TailElements
<1>2. /\ n \in Nat \ {0} /\ DOMAIN list = 1 .. n /\ list[1] = e
      /\ DOMAIN tail = 1 .. n - 1 /\ \A i \in 1 .. n - 1 : tail[i] = list[i + 1]
  OBVIOUS
<1> HIDE DEF n, e, tail
<1>3. f \in Bijection(P, U)
  <2>1. /\ \A i \in P : i \in 1 .. n - 1 /\ list[i + 1] \in S
        /\ \A j \in U : j - 1 \in P /\ j \in Int
    BY <1>2 DEF Positions
  <2>2. f \in [P -> U]
    BY <1>2, <2>1
  <2>3. \A i, j \in P : f[i] = f[j] => i = j
    BY <2>1
  <2>4. \A j \in U : \E i \in P : f[i] = j
    <3>1. TAKE j \in U
    <3>2. j - 1 \in P /\ f[j - 1] = j
      BY <2>1
    <3>3. QED
      BY <3>2
  <2>5. QED
    BY <2>2, <2>3, <2>4 DEF Bijection, Injection, Surjection, IsInjective
<1>4. IsFiniteSet(U) /\ Cardinality(U) = Count(tail, S)
  BY <1>1, <1>3, CountMoved
<1>5. Positions(list, S) = IF e \in S THEN U \cup {1} ELSE U
  BY <1>2 DEF Positions
<1>6. Cardinality(U \cup {1}) = Cardinality(U) + 1
  <2>1. 1 \notin U
    OBVIOUS
  <2> HIDE DEF U
  <2>2. QED
    BY <1>4, <2>1, FS_AddElement
<1>7. Count(tail, S) \in Nat
  BY <1>1, PositionsFinite
<1>8. QED
  BY <1>4, <1>5, <1>6, <1>7 DEF Count, One, e, tail

\* An entry that is put in anywhere: what lies behind it moves up.
LEMMA InsertAtIs ==
  ASSUME NEW V, NEW list \in Seq(V), NEW e \in V, NEW k \in 1 .. Len(list) + 1
  PROVE  /\ InsertAt(list, k, e) \in Seq(V)
         /\ Len(InsertAt(list, k, e)) = Len(list) + 1
         /\ InsertAt(list, k, e)[k] = e
         /\ \A i \in 1 .. k - 1 : InsertAt(list, k, e)[i] = list[i]
         /\ \A i \in k .. Len(list) : InsertAt(list, k, e)[i + 1] = list[i]
<1> DEFINE a == SubSeq(list, 1, k - 1)
           b == SubSeq(list, k, Len(list))
<1>1. /\ a \in Seq(V) /\ Len(a) = k - 1 /\ \A i \in 1 .. k - 1 : a[i] = list[i]
      /\ b \in Seq(V) /\ Len(b) = Len(list) - k + 1
      /\ \A i \in 1 .. Len(list) - k + 1 : b[i] = list[i + k - 1]
  OBVIOUS
<1> HIDE DEF a, b
<1>2. InsertAt(list, k, e) = (a \o <<e>>) \o b
  BY DEF InsertAt, a, b
<1> DEFINE c == a \o <<e>>
<1>3. /\ c \in Seq(V) /\ Len(c) = k /\ c[k] = e
      /\ \A i \in 1 .. k - 1 : c[i] = list[i]
  <2>1. <<e>> \in Seq(V) /\ Len(<<e>>) = 1 /\ <<e>>[1] = e
    OBVIOUS
  <2>2. /\ c \in Seq(V) /\ Len(c) = Len(a) + 1
        /\ \A i \in 1 .. Len(a) + 1 : c[i] = IF i <= Len(a) THEN a[i] ELSE <<e>>[i - Len(a)]
    BY <1>1, <2>1, ConcatProperties
  <2> HIDE DEF c
  <2>3. QED
    <3>1. Len(c) = k /\ c[k] = <<e>>[k - Len(a)]
      BY <1>1, <2>1, <2>2
    <3>2. \A i \in 1 .. k - 1 : c[i] = a[i]
      BY <1>1, <2>2
    <3>3. k - Len(a) = 1
      BY <1>1
    <3>4. QED
      BY <1>1, <2>1, <2>2, <3>1, <3>2, <3>3
<1> HIDE DEF c
<1>4. InsertAt(list, k, e) = c \o b
  BY <1>2 DEF c
<1> DEFINE d == c \o b
<1>5. /\ d \in Seq(V) /\ Len(d) = Len(list) + 1
      /\ \A i \in 1 .. k : d[i] = c[i]
      /\ \A i \in 1 .. Len(list) - k + 1 : d[i + k] = b[i]
  <2>1. /\ d \in Seq(V) /\ Len(d) = Len(c) + Len(b)
        /\ \A i \in 1 .. Len(c) + Len(b) : d[i] = IF i <= Len(c) THEN c[i] ELSE b[i - Len(c)]
    <3>1. c \in Seq(V) /\ b \in Seq(V)
      BY <1>1, <1>3
    <3>2. QED
      BY <3>1, ConcatProperties
  <2> HIDE DEF d
  <2>2. Len(c) = k /\ Len(b) = Len(list) - k + 1 /\ Len(list) \in Nat
    BY <1>1, <1>3
  <2>3. \A i \in 1 .. k : d[i] = c[i]
    BY <2>1, <2>2
  <2>4. \A i \in 1 .. Len(list) - k + 1 : d[i + k] = b[i]
    <3>1. TAKE i \in 1 .. Len(list) - k + 1
    <3>2. i + k \in 1 .. Len(c) + Len(b) /\ ~(i + k <= Len(c)) /\ i + k - Len(c) = i
      BY <2>2
    <3>3. QED
      BY <2>1, <3>2
  <2>5. QED
    BY <2>1, <2>2, <2>3, <2>4
<1> HIDE DEF d
<1>6. \A i \in k .. Len(list) : i - k + 1 \in 1 .. Len(list) - k + 1 /\ i - k + 1 + k = i + 1
  OBVIOUS
<1>7. \A i \in k .. Len(list) : d[i + 1] = list[i]
  <2>1. TAKE i \in k .. Len(list)
  <2>2. d[i - k + 1 + k] = b[i - k + 1]
    BY <1>5, <1>6
  <2>3. b[i - k + 1] = list[i - k + 1 + k - 1]
    BY <1>1, <1>6
  <2>4. i - k + 1 + k - 1 = i
    OBVIOUS
  <2>5. QED
    BY <1>6, <2>2, <2>3, <2>4
<1>8. QED
  BY <1>3, <1>4, <1>5, <1>7 DEF d

LEMMA CountInsertAt ==
  ASSUME NEW V, NEW list \in Seq(V), NEW e \in V, NEW k \in 1 .. Len(list) + 1, NEW S
  PROVE  Count(InsertAt(list, k, e), S) = Count(list, S) + One(e, S)
<1>0. /\ InsertAt(list, k, e) \in Seq(V)
      /\ Len(InsertAt(list, k, e)) = Len(list) + 1
      /\ InsertAt(list, k, e)[k] = e
      /\ \A i \in 1 .. k - 1 : InsertAt(list, k, e)[i] = list[i]
      /\ \A i \in k .. Len(list) : InsertAt(list, k, e)[i + 1] = list[i]
  BY InsertAtIs
<1> DEFINE n == Len(list)
           new == InsertAt(list, k, e)
           P == Positions(list, S)
           U == {i \in 1 .. n + 1 : i # k /\ new[i] \in S}
           f == [i \in P |-> IF i < k THEN i ELSE i + 1]
<1>1. n \in Nat /\ k \in Int /\ 1 <= k /\ k <= n + 1 /\ DOMAIN list = 1 .. n
  OBVIOUS
<1>2. /\ DOMAIN new = 1 .. n + 1 /\ new[k] = e
      /\ \A i \in 1 .. k - 1 : new[i] = list[i]
      /\ \A i \in k .. n : new[i + 1] = list[i]
  <2>1. /\ new \in Seq(V) /\ Len(new) = n + 1 /\ new[k] = e
        /\ \A i \in 1 .. k - 1 : new[i] = list[i]
        /\ \A i \in k .. n : new[i + 1] = list[i]
    BY <1>0
  <2> HIDE DEF new, n
  <2>2. QED
    BY <2>1
<1> HIDE DEF n, new
<1>3. f \in Bijection(P, U)
  <2>1. \A i \in P : i \in 1 .. n /\ list[i] \in S
    BY <1>1 DEF Positions
  <2>2. f \in [P -> U]
    BY <1>1, <1>2, <2>1
  <2>3. \A i, j \in P : f[i] = f[j] => i = j
    BY <1>1, <2>1
  <2>4. \A j \in U : \E i \in P : f[i] = j
    <3>1. TAKE j \in U
    <3>2. CASE j < k
      <4>1. j \in P /\ f[j] = j
        BY <1>1, <1>2, <3>2 DEF Positions
      <4>2. QED
        BY <4>1
    <3>3. CASE j > k
      <4>1. j - 1 \in k .. n /\ new[j - 1 + 1] = list[j - 1] /\ j - 1 + 1 = j
        BY <1>1, <1>2, <3>3
      <4>2. j - 1 \in P
        BY <1>1, <4>1 DEF Positions
      <4>3. f[j - 1] = j
        BY <1>1, <4>1, <4>2
      <4>4. QED
        BY <4>2, <4>3
    <3>4. QED
      BY <1>1, <3>2, <3>3
  <2>5. QED
    BY <2>2, <2>3, <2>4 DEF Bijection, Injection, Surjection, IsInjective
<1>4. IsFiniteSet(U) /\ Cardinality(U) = Count(list, S)
  BY <1>3, CountMoved
<1>5. Positions(new, S) = IF e \in S THEN U \cup {k} ELSE U
  BY <1>1, <1>2 DEF Positions
<1>6. Cardinality(U \cup {k}) = Cardinality(U) + 1
  <2>1. k \notin U
    OBVIOUS
  <2> HIDE DEF U
  <2>2. QED
    BY <1>4, <2>1, FS_AddElement
<1>7. Count(list, S) \in Nat
  BY PositionsFinite
<1>8. QED
  BY <1>4, <1>5, <1>6, <1>7 DEF Count, One, new

-----------------------------------------------------------------------------
(* The invariants.                                                         *)

Times == 1 .. 2 * MaxTime

PendingTasks == {Plain} \cup [id : TaskIds, time : {Null} \cup Times]
DelayedTasks == {task \in PendingTasks : task.time # Null}

Kinds == {"run", "work", "timer", "body", "native"}
Pcs == {"next", "replace", "clear", "work", "worked", "delayed", "wait", "quit",
        "kill", "fire", "begin", "in", "handler", "pump"}
Messages == {"none", "work", "timer", "other"}
Olds == {"none", "allowed", "not"}

Frames == [kind : Kinds, pc : Pcs, more : BOOLEAN, quit : BOOLEAN,
           msg : Messages, task : TaskIds \cup {0}, old : Olds]

\* A task that is to begin has a number.
FrameOK(f) == f.pc = "begin" => f.task # 0

StackOK(list) == list \in Seq(Frames) /\ \A i \in DOMAIN list : FrameOK(list[i])
StackType == StackOK(stack)

PumpType ==
  /\ have_work_ \in {0, 1}
  /\ delayed_work_time_ \in {Null} \cup 0 .. 2 * MaxTime
  /\ wm_timer \in {Null} \cup 0 .. 2 * MaxTime + UserTimerMinimum
  /\ messages \in Seq({"work", "other"})
  /\ poster \in [Posters -> {"idle", "exchange", "post"}]

QueuesType ==
  /\ incoming_queue_ \in Seq(PendingTasks) /\ work_queue_ \in Seq(PendingTasks)
  /\ delayed_work_queue_ \in Seq(DelayedTasks)

TimerType ==
  /\ now \in 0 .. MaxTime
  /\ is_running_ \in BOOLEAN
  /\ delay_ \in {T!NoTask} \cup 0 .. MaxTime
  /\ is_running_ => delay_ # T!NoTask
  /\ scheduled_task_ \in TaskIds \cup {0}
  /\ scheduled_run_time_ \in 0 .. 2 * MaxTime
  /\ desired_run_time_ \in 0 .. 2 * MaxTime
  /\ asked \in 0 .. 2 * MaxTime

TypeInv == StackType /\ PumpType /\ QueuesType /\ TimerType
           /\ nestable_tasks_allowed_ \in BOOLEAN

-----------------------------------------------------------------------------
(* Frames and the stack.                                                   *)

With(list, f) == Append(Front(list), f)

\* What the step of a frame leaves as it is.
SameCall(f, g) == /\ g.kind = f.kind /\ g.old = f.old /\ g.quit = f.quit
                  /\ g.pc = "handler" <=> f.pc = "handler"

LEMMA FrameFields ==
  ASSUME NEW f \in Frames
  PROVE  /\ f.kind \in Kinds /\ f.pc \in Pcs /\ f.more \in BOOLEAN /\ f.quit \in BOOLEAN
         /\ f.msg \in Messages /\ f.task \in TaskIds \cup {0} /\ f.old \in Olds
BY DEF Frames

LEMMA FrameGoes ==
  ASSUME NEW f \in Frames, NEW pc \in Pcs
  PROVE  LET g == [f EXCEPT !.pc = pc] IN
         /\ g \in Frames /\ g.pc = pc /\ g.kind = f.kind /\ g.more = f.more
         /\ g.quit = f.quit /\ g.msg = f.msg /\ g.task = f.task /\ g.old = f.old
BY DEF Frames

LEMMA FrameGoesMore ==
  ASSUME NEW f \in Frames, NEW pc \in Pcs, NEW more \in BOOLEAN
  PROVE  LET g == [f EXCEPT !.pc = pc, !.more = more] IN
         /\ g \in Frames /\ g.pc = pc /\ g.kind = f.kind /\ g.more = more
         /\ g.quit = f.quit /\ g.msg = f.msg /\ g.task = f.task /\ g.old = f.old
BY DEF Frames

LEMMA FrameCleared ==
  ASSUME NEW f \in Frames, NEW more \in BOOLEAN
  PROVE  LET g == [f EXCEPT !.pc = "work", !.msg = "none", !.more = more] IN
         /\ g \in Frames /\ g.pc = "work" /\ g.kind = f.kind /\ g.more = more
         /\ g.quit = f.quit /\ g.msg = "none" /\ g.task = f.task /\ g.old = f.old
BY DEF Frames, Pcs, Messages

LEMMA FrameBegun ==
  ASSUME NEW f \in Frames
  PROVE  LET g == [f EXCEPT !.pc = "in", !.task = 0] IN
         /\ g \in Frames /\ g.pc = "in" /\ g.kind = f.kind /\ g.more = f.more
         /\ g.quit = f.quit /\ g.msg = f.msg /\ g.task = 0 /\ g.old = f.old
BY DEF Frames, Pcs

LEMMA FrameQuits ==
  ASSUME NEW f \in Frames
  PROVE  LET g == [f EXCEPT !.quit = TRUE] IN
         /\ g \in Frames /\ g.pc = f.pc /\ g.kind = f.kind /\ g.more = f.more
         /\ g.quit = TRUE /\ g.msg = f.msg /\ g.task = f.task /\ g.old = f.old
BY DEF Frames

LEMMA BodyIs ==
  ASSUME NEW id \in TaskIds \cup {0}
  PROVE  /\ Body(id) \in Frames /\ FrameOK(Body(id))
         /\ Body(id).kind = "body" /\ Body(id).pc \in {"in", "begin"}
         /\ Body(id).task = id /\ Body(id).old = "none"
         /\ id # 0 => Body(id).pc = "begin"
<1> DEFINE pc == IF id = 0 THEN "in" ELSE "begin"
<1>1. pc \in Pcs /\ "body" \in Kinds
  BY DEF Pcs, Kinds
<1>2. /\ Frame("body", pc) \in Frames /\ Frame("body", pc).kind = "body"
      /\ Frame("body", pc).pc = pc /\ Frame("body", pc).old = "none"
  BY <1>1 DEF Frame, Frames, Messages, Olds
<1>3. Body(id) = [Frame("body", pc) EXCEPT !.task = id]
  BY DEF Body
<1> DEFINE f == Frame("body", pc)
<1> HIDE DEF f
<1>4. LET g == [f EXCEPT !.task = id] IN
      /\ f \in Frames => g \in Frames /\ g.kind = f.kind /\ g.pc = f.pc /\ g.task = id
                         /\ g.old = f.old
  BY DEF Frames
<1>5. QED
  BY <1>2, <1>3, <1>4 DEF FrameOK, f

LEMMA HandlerIs ==
  /\ Handler \in Frames /\ Handler.kind = "body" /\ Handler.pc = "handler"
  /\ Handler.task = 0 /\ Handler.old = "none"
<1>1. "body" \in Kinds /\ "handler" \in Pcs
  BY DEF Kinds, Pcs
<1>2. QED
  BY <1>1 DEF Handler, Frame, Frames, Messages, Olds

\* The frame of the window procedure that a message is for.
Called(msg) == CASE msg = "work" -> Frame("work", "replace")
                 [] msg = "timer" -> Frame("timer", "kill")
                 [] OTHER -> Handler

LEMMA CalledIs ==
  ASSUME NEW msg
  PROVE  /\ Called(msg) \in Frames /\ FrameOK(Called(msg))
         /\ Called(msg).kind \in {"work", "timer", "body"}
         /\ Called(msg).kind = "body" <=> Called(msg).pc = "handler"
         /\ Called(msg).pc = "replace" <=> msg = "work"
         /\ Called(msg).kind = "work" => msg = "work"
         /\ Called(msg).pc # "clear"
         /\ Called(msg).task = 0
<1>1. /\ "work" \in Kinds /\ "timer" \in Kinds /\ "replace" \in Pcs /\ "kill" \in Pcs
  BY DEF Kinds, Pcs
<1>2. /\ Frame("work", "replace") \in Frames /\ Frame("work", "replace").kind = "work"
      /\ Frame("work", "replace").pc = "replace" /\ Frame("work", "replace").task = 0
      /\ Frame("timer", "kill") \in Frames /\ Frame("timer", "kill").kind = "timer"
      /\ Frame("timer", "kill").pc = "kill" /\ Frame("timer", "kill").task = 0
  BY <1>1 DEF Frame, Frames, Messages, Olds
<1>3. CASE msg = "work"
  <2>1. Called(msg) = Frame("work", "replace")
    BY <1>3 DEF Called
  <2>2. QED
    BY <1>2, <1>3, <2>1 DEF FrameOK
<1>4. CASE msg = "timer"
  <2>1. Called(msg) = Frame("timer", "kill")
    BY <1>4 DEF Called
  <2>2. QED
    BY <1>2, <1>4, <2>1 DEF FrameOK
<1>5. CASE msg # "work" /\ msg # "timer"
  <2>1. Called(msg) = Handler
    BY <1>5 DEF Called
  <2>2. QED
    BY <1>5, <2>1, HandlerIs DEF FrameOK
<1>6. QED
  BY <1>3, <1>4, <1>5

\* The stack after its top frame has made a step, returned, or called another.
LEMMA TopIs ==
  ASSUME NEW list \in Seq(Frames), list # <<>>
  PROVE  /\ Last(list) \in Frames /\ Len(list) \in DOMAIN list
         /\ Last(list) = list[Len(list)] /\ Len(list) \in Nat \ {0}
         /\ DOMAIN list = 1 .. Len(list)
BY DEF Last

LEMMA FrontIs ==
  ASSUME NEW list \in Seq(Frames), list # <<>>
  PROVE  /\ Front(list) \in Seq(Frames) /\ Len(Front(list)) = Len(list) - 1
         /\ \A i \in 1 .. Len(list) - 1 : Front(list)[i] = list[i]
<1> DEFINE n == Len(list)
<1>1. n \in Nat \ {0} /\ \A i \in 1 .. n - 1 : list[i] \in Frames
  OBVIOUS
<1>2. Front(list) = SubSeq(list, 1, n - 1)
  BY DEF Front
<1> HIDE DEF n
<1>3. 1 \in Int /\ n - 1 \in Int
  BY <1>1
<1>4. /\ SubSeq(list, 1, n - 1) \in Seq(Frames)
      /\ Len(SubSeq(list, 1, n - 1)) = IF 1 <= n - 1 THEN n - 1 - 1 + 1 ELSE 0
      /\ \A i \in 1 .. n - 1 - 1 + 1 : SubSeq(list, 1, n - 1)[i] = list[1 + i - 1]
  BY <1>1, <1>3, SubSeqProperties
<1>5. n - 1 - 1 + 1 = n - 1 /\ \A i \in 1 .. n - 1 : 1 + i - 1 = i
  BY <1>1
<1>6. \A i \in 1 .. n - 1 : SubSeq(list, 1, n - 1)[i] = list[i]
  BY <1>4, <1>5
<1>7. Len(SubSeq(list, 1, n - 1)) = n - 1
  BY <1>1, <1>4, <1>5
<1>8. QED
  BY <1>2, <1>4, <1>6, <1>7 DEF n

LEMMA WithIs ==
  ASSUME NEW list \in Seq(Frames), list # <<>>, NEW f \in Frames
  PROVE  /\ With(list, f) \in Seq(Frames) /\ Len(With(list, f)) = Len(list)
         /\ With(list, f) # <<>> /\ Last(With(list, f)) = f
         /\ With(list, f)[Len(list)] = f
         /\ \A i \in 1 .. Len(list) - 1 : With(list, f)[i] = list[i]
<1> DEFINE front == Front(list)
<1>1. /\ front \in Seq(Frames) /\ Len(front) = Len(list) - 1 /\ Len(list) \in Nat
      /\ \A i \in 1 .. Len(list) - 1 : front[i] = list[i]
  BY FrontIs
<1> HIDE DEF front
<1>2. With(list, f) = Append(front, f)
  BY DEF With, front
<1>3. QED
  BY <1>1, <1>2 DEF Last

LEMMA PushIs ==
  ASSUME NEW list \in Seq(Frames), NEW f \in Frames
  PROVE  /\ Append(list, f) \in Seq(Frames) /\ Len(Append(list, f)) = Len(list) + 1
         /\ Append(list, f) # <<>> /\ Last(Append(list, f)) = f
         /\ Append(list, f)[Len(list) + 1] = f
         /\ \A i \in 1 .. Len(list) : Append(list, f)[i] = list[i]
         /\ list \o <<f>> = Append(list, f)
BY DEF Last

LEMMA StackOps ==
  ASSUME NEW list, StackOK(list)
  PROVE  /\ \A f \in Frames : FrameOK(f) => StackOK(Append(list, f))
         /\ list # <<>> => StackOK(Front(list))
         /\ list # <<>> => \A f \in Frames : FrameOK(f) => StackOK(With(list, f))
<1>0. list \in Seq(Frames) /\ Len(list) \in Nat /\ DOMAIN list = 1 .. Len(list)
  BY DEF StackOK
<1>1. \A f \in Frames : FrameOK(f) => StackOK(Append(list, f))
  <2>1. SUFFICES ASSUME NEW f \in Frames, FrameOK(f) PROVE StackOK(Append(list, f))
    OBVIOUS
  <2> DEFINE new == Append(list, f)
  <2>2. /\ new \in Seq(Frames) /\ Len(new) = Len(list) + 1 /\ new[Len(list) + 1] = f
        /\ \A i \in 1 .. Len(list) : new[i] = list[i]
    BY <1>0, PushIs
  <2> HIDE DEF new
  <2>3. \A i \in 1 .. Len(list) + 1 : FrameOK(new[i])
    BY <1>0, <2>1, <2>2 DEF StackOK
  <2>4. QED
    BY <2>2, <2>3 DEF StackOK, new
<1>2. ASSUME list # <<>> PROVE StackOK(Front(list))
  <2> DEFINE new == Front(list)
  <2>2. /\ new \in Seq(Frames) /\ Len(new) = Len(list) - 1
        /\ \A i \in 1 .. Len(list) - 1 : new[i] = list[i]
    BY <1>0, <1>2, FrontIs
  <2> HIDE DEF new
  <2>3. \A i \in 1 .. Len(list) - 1 : FrameOK(new[i])
    BY <1>0, <2>2 DEF StackOK
  <2>4. QED
    BY <2>2, <2>3 DEF StackOK, new
<1>3. ASSUME list # <<>>, NEW f \in Frames, FrameOK(f) PROVE StackOK(With(list, f))
  <2> DEFINE new == With(list, f)
  <2>2. /\ new \in Seq(Frames) /\ Len(new) = Len(list) /\ new[Len(list)] = f
        /\ \A i \in 1 .. Len(list) - 1 : new[i] = list[i]
    BY <1>0, <1>3, WithIs
  <2> HIDE DEF new
  <2>3. \A i \in 1 .. Len(list) : FrameOK(new[i])
    BY <1>0, <1>3, <2>2 DEF StackOK
  <2>4. QED
    BY <2>2, <2>3 DEF StackOK, new
<1>4. QED
  BY <1>1, <1>2, <1>3

-----------------------------------------------------------------------------
(* What each step does to the stack.                                       *)

\* The top frame makes a step, and may call another.
Moves(f) ==
  /\ stack # <<>> /\ f \in Frames /\ FrameOK(f)
  /\ SameCall(Top, f) /\ f.task = Top.task
  /\ stack' = With(stack, f)

CallsOn(f, g) ==
  /\ stack # <<>> /\ f \in Frames /\ FrameOK(f)
  /\ SameCall(Top, f) /\ f.task = Top.task
  /\ g \in Frames /\ FrameOK(g)
  /\ stack' = Append(With(stack, f), g)

LEMMA StackTop ==
  ASSUME StackType, stack # <<>>
  PROVE  /\ stack \in Seq(Frames) /\ Top \in Frames /\ FrameOK(Top)
         /\ Top = stack[Len(stack)] /\ Len(stack) \in DOMAIN stack
BY TopIs DEF StackType, StackOK, Top

LEMMA TopGoes ==
  ASSUME StackType, stack # <<>>, NEW pc \in Pcs, pc # "begin",
         pc = "handler" <=> Top.pc = "handler", Goes(pc)
  PROVE  \E f \in Frames : /\ Moves(f) /\ f.pc = pc /\ f.more = Top.more /\ f.msg = Top.msg
<1> DEFINE f == [Top EXCEPT !.pc = pc]
<1>1. /\ f \in Frames /\ f.pc = pc /\ f.kind = Top.kind /\ f.more = Top.more
      /\ f.quit = Top.quit /\ f.msg = Top.msg /\ f.task = Top.task /\ f.old = Top.old
  BY StackTop, FrameGoes
<1>2. stack' = With(stack, f)
  BY DEF Goes, Becomes, With
<1> HIDE DEF f
<1>3. QED
  BY <1>1, <1>2 DEF Moves, SameCall, FrameOK

LEMMA DispatchIs ==
  ASSUME StackType, stack # <<>>, NEW f \in Frames, NEW msg, Dispatch(f, msg),
         f.pc # "begin", SameCall(Top, f), f.task = Top.task
  PROVE  CallsOn(f, Called(msg))
<1>1. stack' = With(stack, f) \o <<Called(msg)>>
  BY DEF Dispatch, Calls, Becomes, With, Called
<1>2. With(stack, f) \in Seq(Frames)
  BY StackTop, WithIs
<1>3. Called(msg) \in Frames /\ FrameOK(Called(msg))
  BY CalledIs
<1>4. stack' = Append(With(stack, f), Called(msg))
  BY <1>1, <1>2, <1>3, PushIs
<1>5. QED
  BY <1>3, <1>4 DEF CallsOn, FrameOK

LEMMA NextMessageIs ==
  ASSUME PumpType
  PROVE  /\ NextMessage \in Messages
         /\ NextMessage = "work" <=> messages # <<>> /\ Head(messages) = "work"
         /\ messages = <<>> => NextMessage \in {"timer", "none"}
         /\ NextMessage = "timer" => messages = <<>> /\ wm_timer # Null /\ now >= wm_timer
         /\ NextMessage = "none" => messages = <<>>
         /\ messages # <<>> => Head(messages) \in {"work", "other"}
<1>1. messages # <<>> => Head(messages) \in {"work", "other"}
  BY DEF PumpType
<1>2. QED
  BY <1>1 DEF NextMessage, TimerElapsed, Messages

LEMMA ProcessNextIs ==
  ASSUME StackType, PumpType, ProcessNextWindowsMessage
  PROVE  \E f \in Frames :
           /\ Top.kind = "run" /\ Top.pc = "next"
           /\ \/ NextMessage = "none" /\ f.pc = "work" /\ Moves(f)
              \/ NextMessage = "work" /\ f.pc = "replace" /\ Moves(f)
              \/ /\ NextMessage \in {"timer", "other"} /\ f.pc = "work" /\ f.more
                 /\ CallsOn(f, Called(NextMessage))
<1>1. stack # <<>> /\ Top.kind = "run" /\ Top.pc = "next" /\ Top \in Frames
  BY StackTop DEF ProcessNextWindowsMessage, InRun, In
<1>2. "work" \in Pcs /\ "replace" \in Pcs
  BY DEF Pcs
<1>3. CASE NextMessage = "none"
  <2> DEFINE f == [Top EXCEPT !.pc = "work", !.more = FALSE]
  <2>1. stack' = With(stack, f)
    BY <1>3 DEF ProcessNextWindowsMessage, Becomes, With
  <2>2. /\ f \in Frames /\ f.pc = "work" /\ f.kind = Top.kind /\ f.quit = Top.quit
        /\ f.task = Top.task /\ f.old = Top.old
    BY <1>1, <1>2, FrameGoesMore
  <2> HIDE DEF f
  <2>3. QED
    BY <1>1, <1>3, <2>1, <2>2 DEF Moves, SameCall, FrameOK
<1>4. CASE NextMessage = "work"
  <2>1. Goes("replace")
    BY <1>4 DEF ProcessNextWindowsMessage
  <2>2. QED
    BY <1>1, <1>2, <1>4, <2>1, TopGoes
<1>5. CASE NextMessage \notin {"none", "work"}
  <2> DEFINE f == [Top EXCEPT !.pc = "work", !.more = TRUE]
  <2>1. Dispatch(f, NextMessage)
    BY <1>5 DEF ProcessNextWindowsMessage
  <2>2. /\ f \in Frames /\ f.pc = "work" /\ f.kind = Top.kind /\ f.quit = Top.quit
        /\ f.more = TRUE /\ f.task = Top.task /\ f.old = Top.old
    BY <1>1, <1>2, FrameGoesMore
  <2> HIDE DEF f
  <2>3. SameCall(Top, f)
    BY <1>1, <2>2 DEF SameCall
  <2>4. CallsOn(f, Called(NextMessage))
    BY <1>1, <2>1, <2>2, <2>3, DispatchIs
  <2>5. NextMessage \in {"timer", "other"}
    BY <1>5, NextMessageIs DEF Messages
  <2>6. QED
    BY <1>1, <2>2, <2>4, <2>5
<1>6. QED
  BY <1>3, <1>4, <1>5

LEMMA PeekReplacementIs ==
  ASSUME StackType, PumpType, PeekReplacement
  PROVE  \E f \in Frames :
           /\ Top.kind \in {"run", "work"} /\ Top.pc = "replace"
           /\ f.pc = "clear" /\ f.msg = NextMessage /\ Moves(f)
<1>1. stack # <<>> /\ Top.kind \in {"run", "work"} /\ Top.pc = "replace" /\ Top \in Frames
  BY StackTop DEF PeekReplacement, InRun, In
<1>2. NextMessage \in Messages
  BY NextMessageIs
<1>b. "clear" \in Pcs
  BY DEF Pcs
<1>a. PICK msg \in Messages : msg = NextMessage
  BY <1>2
<1> DEFINE f == [Top EXCEPT !.pc = "clear", !.msg = msg]
<1>3. stack' = With(stack, f)
  BY <1>a DEF PeekReplacement, Becomes, With
<1>4. /\ f \in Frames /\ f.pc = "clear" /\ f.kind = Top.kind /\ f.quit = Top.quit
      /\ f.msg = msg /\ f.task = Top.task /\ f.old = Top.old
  BY <1>1, <1>b DEF Frames
<1> HIDE DEF f
<1>5. QED
  BY <1>1, <1>a, <1>3, <1>4 DEF Moves, SameCall, FrameOK

LEMMA DispatchReplacementIs ==
  ASSUME StackType, DispatchReplacement
  PROVE  \E f \in Frames :
           /\ Top.kind \in {"run", "work"} /\ Top.pc = "clear" /\ Top.msg \in Messages
           /\ f.pc = "work" /\ f.more = (Top.kind = "run" /\ Top.msg # "none")
           /\ \/ Top.msg = "none" /\ Moves(f)
              \/ Top.msg # "none" /\ CallsOn(f, Called(Top.msg))
<1>1. /\ stack # <<>> /\ Top.kind \in {"run", "work"} /\ Top.pc = "clear" /\ Top \in Frames
      /\ Top.msg \in Messages
  BY StackTop, FrameFields DEF DispatchReplacement, InRun, In
<1> DEFINE more == Top.kind = "run" /\ Top.msg # "none"
           f == [Top EXCEPT !.pc = "work", !.msg = "none", !.more = more]
<1>2. /\ f \in Frames /\ f.pc = "work" /\ f.kind = Top.kind /\ f.quit = Top.quit
      /\ f.more = more /\ f.task = Top.task /\ f.old = Top.old
  <2>1. more \in BOOLEAN
    OBVIOUS
  <2> HIDE DEF more
  <2>2. QED
    BY <1>1, <2>1, FrameCleared
<1>3. /\ Top.msg = "none" => stack' = With(stack, f)
      /\ Top.msg # "none" => Dispatch(f, Top.msg)
  BY DEF DispatchReplacement, Becomes, With
<1> HIDE DEF f
<1>4. SameCall(Top, f)
  BY <1>1, <1>2 DEF SameCall
<1>5. CASE Top.msg = "none"
  BY <1>1, <1>2, <1>3, <1>4, <1>5 DEF Moves, FrameOK
<1>6. CASE Top.msg # "none"
  <2>1. CallsOn(f, Called(Top.msg))
    BY <1>1, <1>2, <1>3, <1>4, <1>6, DispatchIs
  <2>2. QED
    BY <1>1, <1>2, <1>6, <2>1
<1>7. QED
  BY <1>5, <1>6

LEMMA ModalLoopDispatchesIs ==
  ASSUME StackType, PumpType, ModalLoopDispatches
  PROVE  /\ Top.kind = "native" /\ Top.pc = "pump" /\ Top \in Frames
         /\ NextMessage \in {"work", "timer", "other"}
         /\ CallsOn(Top, Called(NextMessage))
<1>1. /\ stack # <<>> /\ Top.kind = "native" /\ Top.pc = "pump" /\ Top \in Frames
      /\ Dispatch(Top, NextMessage) /\ NextMessage # "none"
  BY StackTop DEF ModalLoopDispatches, In
<1>2. SameCall(Top, Top)
  BY DEF SameCall
<1>3. QED
  BY <1>1, <1>2, NextMessageIs, DispatchIs DEF Messages

LEMMA RunTaskIs ==
  ASSUME StackType, stack # <<>>, NEW f \in Frames, NEW task \in PendingTasks,
         RunTask(f, task), f.pc # "begin", SameCall(Top, f), f.task = Top.task
  PROVE  CallsOn(f, Body(task.id)) /\ nestable_tasks_allowed_' = FALSE
<1>1. stack' = With(stack, f) \o <<Body(task.id)>> /\ nestable_tasks_allowed_' = FALSE
  BY DEF RunTask, Calls, Becomes, With
<1>2. With(stack, f) \in Seq(Frames)
  BY StackTop, WithIs
<1>3. task.id \in TaskIds \cup {0}
  BY DEF PendingTasks, Plain
<1>4. Body(task.id) \in Frames /\ FrameOK(Body(task.id))
  BY <1>3, BodyIs
<1>5. stack' = Append(With(stack, f), Body(task.id))
  BY <1>1, <1>2, <1>4, PushIs
<1>6. QED
  BY <1>1, <1>4, <1>5 DEF CallsOn, FrameOK

LEMMA DoWorkRunIs ==
  ASSUME StackType, QueuesType, DoWorkRun
  PROVE  \E f \in Frames :
           /\ Top.kind \in {"run", "work"} /\ Top.pc = "work"
           /\ f.pc = "worked" /\ f.more
           /\ nestable_tasks_allowed_ /\ nestable_tasks_allowed_' = FALSE
           /\ Head(work_queue_) \in PendingTasks
           /\ CallsOn(f, Body(Head(work_queue_).id))
<1>1. /\ stack # <<>> /\ Top.kind \in {"run", "work"} /\ Top.pc = "work" /\ Top \in Frames
      /\ nestable_tasks_allowed_
  BY StackTop DEF DoWorkRun, CallsDoWork, InRun, In
<1>2. Head(work_queue_) \in PendingTasks
  BY DEF DoWorkRun, QueuesType
<1> DEFINE f == [Top EXCEPT !.pc = "worked", !.more = TRUE]
<1>3. RunTask(f, Head(work_queue_))
  BY DEF DoWorkRun
<1>4. "worked" \in Pcs
  BY DEF Pcs
<1>5. /\ f \in Frames /\ f.pc = "worked" /\ f.kind = Top.kind /\ f.quit = Top.quit
      /\ f.more = TRUE /\ f.task = Top.task /\ f.old = Top.old
  BY <1>1, <1>4, FrameGoesMore
<1> HIDE DEF f
<1>6. SameCall(Top, f)
  BY <1>1, <1>5 DEF SameCall
<1>7. CallsOn(f, Body(Head(work_queue_).id)) /\ nestable_tasks_allowed_' = FALSE
  BY <1>1, <1>2, <1>3, <1>5, <1>6, RunTaskIs
<1>8. QED
  BY <1>1, <1>2, <1>5, <1>7

LEMMA DoDelayedWorkRunIs ==
  ASSUME StackType, QueuesType, DoDelayedWorkRun
  PROVE  \E f \in Frames :
           /\ Top.kind \in {"run", "timer"} /\ Top.pc \in {"worked", "fire"}
           /\ f.pc = "delayed" /\ f.more
           /\ nestable_tasks_allowed_ /\ nestable_tasks_allowed_' = FALSE
           /\ Head(delayed_work_queue_) \in DelayedTasks
           /\ CallsOn(f, Body(Head(delayed_work_queue_).id))
<1>1. /\ stack # <<>> /\ Top.kind \in {"run", "timer"} /\ Top.pc \in {"worked", "fire"}
      /\ Top \in Frames /\ nestable_tasks_allowed_
  BY StackTop DEF DoDelayedWorkRun, CallsDoDelayedWork, InRun, In
<1>2. Head(delayed_work_queue_) \in DelayedTasks
  BY DEF DoDelayedWorkRun, QueuesType
<1>a. Head(delayed_work_queue_) \in PendingTasks
  BY <1>2 DEF DelayedTasks
<1> DEFINE f == [Top EXCEPT !.pc = "delayed", !.more = TRUE]
<1>3. RunTask(f, Head(delayed_work_queue_))
  BY DEF DoDelayedWorkRun
<1>4. "delayed" \in Pcs
  BY DEF Pcs
<1>5. /\ f \in Frames /\ f.pc = "delayed" /\ f.kind = Top.kind /\ f.quit = Top.quit
      /\ f.more = TRUE /\ f.task = Top.task /\ f.old = Top.old
  BY <1>1, <1>4, FrameGoesMore
<1> HIDE DEF f
<1>6. SameCall(Top, f)
  BY <1>1, <1>5 DEF SameCall
<1>7. CallsOn(f, Body(Head(delayed_work_queue_).id)) /\ nestable_tasks_allowed_' = FALSE
  BY <1>1, <1>a, <1>3, <1>5, <1>6, RunTaskIs
<1>8. QED
  BY <1>1, <1>2, <1>5, <1>7

\* The steps of a frame that call nobody, and where they go.
DoWorkGoes == /\ Top.kind \in {"run", "work"} /\ Top.pc = "work"
DoDelayedGoes == /\ Top.kind \in {"run", "timer"} /\ Top.pc \in {"worked", "fire"}

LEMMA GoesIs ==
  ASSUME StackType
  PROVE  /\ DoWorkNothing => /\ DoWorkGoes
                             /\ \E f \in Frames : Moves(f) /\ f.pc = "worked" /\ f.more = Top.more
         /\ DoDelayedWorkNothing \/ DoDelayedWorkNotDue =>
              /\ DoDelayedGoes
              /\ \E f \in Frames : Moves(f) /\ f.pc = "delayed" /\ f.more = Top.more
         /\ KillTimer /\ Running =>
              /\ Top.kind = "timer" /\ Top.pc = "kill"
              /\ \E f \in Frames : Moves(f) /\ f.pc = "fire"
         /\ DelayedWorkDone =>
              /\ Top.kind = "run" /\ Top.pc = "delayed"
              /\ \E f \in Frames : /\ Moves(f) /\ f.pc \in {"quit", "next", "wait"}
                                   /\ f.more = Top.more /\ (f.pc = "wait" => ~Top.more)
         /\ WaitForWork =>
              /\ Top.kind = "run" /\ Top.pc = "wait"
              /\ \E f \in Frames : Moves(f) /\ f.pc = "next"
<1>0. {"worked", "delayed", "fire", "next", "quit", "wait"} \subseteq Pcs
  BY DEF Pcs
<1>1. ASSUME DoWorkNothing
      PROVE  DoWorkGoes /\ \E f \in Frames : Moves(f) /\ f.pc = "worked" /\ f.more = Top.more
  <2>1. stack # <<>> /\ DoWorkGoes /\ Goes("worked")
    BY <1>1 DEF DoWorkNothing, CallsDoWork, InRun, In, DoWorkGoes
  <2>2. QED
    BY <1>0, <2>1, TopGoes DEF DoWorkGoes
<1>2. ASSUME DoDelayedWorkNothing \/ DoDelayedWorkNotDue
      PROVE  DoDelayedGoes /\ \E f \in Frames : Moves(f) /\ f.pc = "delayed" /\ f.more = Top.more
  <2>1. stack # <<>> /\ DoDelayedGoes /\ Goes("delayed")
    BY <1>2 DEF DoDelayedWorkNothing, DoDelayedWorkNotDue, CallsDoDelayedWork, InRun, In,
                DoDelayedGoes
  <2>2. QED
    BY <1>0, <2>1, TopGoes DEF DoDelayedGoes
<1>3. ASSUME KillTimer, Running
      PROVE  Top.kind = "timer" /\ Top.pc = "kill" /\ \E f \in Frames : Moves(f) /\ f.pc = "fire"
  <2>1. stack # <<>> /\ Top.kind = "timer" /\ Top.pc = "kill" /\ Goes("fire")
    BY <1>3 DEF KillTimer, In
  <2>2. QED
    BY <1>0, <2>1, TopGoes
<1>4. ASSUME DelayedWorkDone
      PROVE  /\ Top.kind = "run" /\ Top.pc = "delayed"
             /\ \E f \in Frames : /\ Moves(f) /\ f.pc \in {"quit", "next", "wait"}
                                  /\ f.more = Top.more /\ (f.pc = "wait" => ~Top.more)
  <2>1. stack # <<>> /\ Top.kind = "run" /\ Top.pc = "delayed" /\ Goes(Continues)
    BY <1>4 DEF DelayedWorkDone, InRun, In
  <2>2. Continues \in {"quit", "next", "wait"} /\ (Continues = "wait" => ~Top.more)
    BY StackTop, <2>1, FrameFields DEF Continues
  <2>3. PICK pc \in Pcs : pc = Continues /\ Goes(pc)
    BY <1>0, <2>1, <2>2
  <2>4. pc # "begin" /\ pc # "handler"
    BY <2>2, <2>3
  <2>5. \E f \in Frames : Moves(f) /\ f.pc = pc /\ f.more = Top.more
    BY <2>1, <2>3, <2>4, TopGoes
  <2>6. QED
    BY <2>1, <2>2, <2>3, <2>5
<1>5. ASSUME WaitForWork
      PROVE  Top.kind = "run" /\ Top.pc = "wait" /\ \E f \in Frames : Moves(f) /\ f.pc = "next"
  <2>1. stack # <<>> /\ Top.kind = "run" /\ Top.pc = "wait" /\ Goes("next")
    BY <1>5 DEF WaitForWork, InRun, In
  <2>2. QED
    BY <1>0, <2>1, TopGoes
<1>6. QED
  BY <1>1, <1>2, <1>3, <1>4, <1>5

\* A scheduled task begins to run.
LEMMA TaskRunsIs ==
  ASSUME StackType, TaskRuns
  PROVE  \E f \in Frames :
           /\ stack # <<>> /\ Top.kind = "body" /\ Top.pc = "begin" /\ Top.task \in TaskIds
           /\ f.pc = "in" /\ f.task = 0 /\ SameCall(Top, f) /\ stack' = With(stack, f)
<1>1. /\ stack # <<>> /\ Top.kind = "body" /\ Top.pc = "begin" /\ Top \in Frames /\ FrameOK(Top)
  BY StackTop DEF TaskRuns, In
<1>2. Top.task \in TaskIds
  BY <1>1, FrameFields DEF FrameOK
<1> DEFINE f == [Top EXCEPT !.pc = "in", !.task = 0]
<1>3. stack' = With(stack, f)
  BY DEF TaskRuns, Becomes, With
<1>4. /\ f \in Frames /\ f.pc = "in" /\ f.kind = Top.kind /\ f.quit = Top.quit
      /\ f.task = 0 /\ f.old = Top.old
  BY <1>1, FrameBegun
<1> HIDE DEF f
<1>5. QED
  BY <1>1, <1>2, <1>3, <1>4 DEF SameCall

\* The steps in which the top frame returns.
Return == \/ WorkOutsideRun \/ WorkMessageHandled \/ (KillTimer /\ ~Running)
          \/ TimerMessageHandled \/ RunEnds \/ ModalLoopEnds \/ BodyReturns

LEMMA ReturnIs ==
  ASSUME StackType, Return
  PROVE  /\ stack # <<>> /\ stack' = Front(stack)
         /\ WorkOutsideRun => Top.kind = "work" /\ Top.pc = "replace"
         /\ ~WorkOutsideRun => Top.pc \notin {"replace", "clear"}
         /\ Top.pc # "begin"
         /\ \/ /\ Top.kind \in {"run", "native"}
               /\ nestable_tasks_allowed_' = IF Top.old = "none" THEN nestable_tasks_allowed_
                                             ELSE Top.old = "allowed"
            \/ Top.kind \in {"work", "timer"} /\ nestable_tasks_allowed_' = nestable_tasks_allowed_
            \/ /\ Top.kind = "body"
               /\ nestable_tasks_allowed_' = (nestable_tasks_allowed_ \/ Top.pc = "in")
BY DEF Return, WorkOutsideRun, WorkMessageHandled, KillTimer, TimerMessageHandled, RunEnds,
       ModalLoopEnds, BodyReturns, InBody, In, Returns, Restored

\* The steps in which a body opens a loop.
Open == RunBegins \/ ModalLoopBegins

LEMMA OpenIs ==
  ASSUME StackType, Open, nestable_tasks_allowed_ \in BOOLEAN
  PROVE  \E g \in Frames :
           /\ stack' = Append(stack, g) /\ g.task = 0 /\ FrameOK(g)
           /\ \/ g.kind = "run" /\ g.pc = "next"
              \/ g.kind = "native" /\ g.pc = "pump"
           /\ \/ /\ g.kind = "native" /\ g.old = "none"
                 /\ nestable_tasks_allowed_' = nestable_tasks_allowed_
              \/ /\ g.old \in {"allowed", "not"}
                 /\ (g.old = "allowed") = nestable_tasks_allowed_
                 /\ nestable_tasks_allowed_' = TRUE
<1>b. "run" \in Kinds /\ "native" \in Kinds /\ "next" \in Pcs /\ "pump" \in Pcs
  BY DEF Kinds, Pcs
<1>0. /\ WasAllowed \in {"allowed", "not"} /\ WasAllowed \in Olds
      /\ (WasAllowed = "allowed") = nestable_tasks_allowed_
  BY DEF Olds, WasAllowed
<1>a. PICK old \in Olds : old = WasAllowed
  BY <1>0
<1>1. CASE RunBegins
  <2> DEFINE g == [Frame("run", "next") EXCEPT !.old = old]
  <2>1. stack' = Append(stack, g) /\ nestable_tasks_allowed_' = TRUE
    BY <1>1, <1>a DEF RunBegins, OpensLoop, AllowNestableTasks
  <2>2. g \in Frames /\ g.kind = "run" /\ g.pc = "next" /\ g.task = 0 /\ g.old = old
    BY <1>b DEF Frame, Frames, Messages
  <2> HIDE DEF g
  <2>3. QED
    BY <1>0, <1>a, <2>1, <2>2 DEF FrameOK
<1>2. CASE ModalLoopBegins
  <2> DEFINE g == [Frame("native", "pump") EXCEPT !.old = old]
             h == Frame("native", "pump")
  <2>1. \/ /\ stack' = Append(stack, h)
           /\ nestable_tasks_allowed_' = nestable_tasks_allowed_
        \/ stack' = Append(stack, g) /\ nestable_tasks_allowed_' = TRUE
    BY <1>2, <1>a DEF ModalLoopBegins, OpensLoop, AllowNestableTasks
  <2>2. g \in Frames /\ g.kind = "native" /\ g.pc = "pump" /\ g.task = 0 /\ g.old = old
    BY <1>b DEF Frame, Frames, Messages
  <2>3. h \in Frames /\ h.kind = "native" /\ h.pc = "pump" /\ h.task = 0 /\ h.old = "none"
    BY <1>b DEF Frame, Frames, Messages, Olds
  <2> HIDE DEF g, h
  <2>4. QED
    BY <1>0, <1>a, <2>1, <2>2, <2>3 DEF FrameOK
<1>3. QED
  BY <1>1, <1>2 DEF Open

\* The innermost Run.
LEMMA InnermostRun ==
  ASSUME StackType, Running
  PROVE  state_ \in DOMAIN stack /\ stack[state_].kind = "run"
<1> DEFINE n == Len(stack)
           S == {m \in 0 .. n : n - m \in DOMAIN stack /\ stack[n - m].kind = "run"}
<1>1. n \in Nat /\ DOMAIN stack = 1 .. n
  BY DEF StackType, StackOK
<1>2. PICK i \in DOMAIN stack : stack[i].kind = "run"
  BY DEF Running
<1> HIDE DEF n
<1>3. n - i \in 0 .. n /\ n - (n - i) = i
  BY <1>1
<1>4. n - i \in S
  BY <1>2, <1>3
<1>5. \A m \in S : m \in Nat
  BY <1>1
<1>6. PICK m \in S : \A l \in S : m <= l
  <2> HIDE DEF S
  <2>1. QED
    BY <1>4, <1>5, LeastElement
<1>7. n - m \in DOMAIN stack /\ stack[n - m].kind = "run"
  BY <1>6
<1>8. ASSUME NEW j \in DOMAIN stack, stack[j].kind = "run"
      PROVE  j <= n - m
  <2>1. n - j \in 0 .. n /\ n - (n - j) = j
    BY <1>1
  <2>2. n - j \in S
    BY <1>8, <2>1
  <2>3. QED
    BY <1>1, <1>6, <2>1, <2>2
<1> DEFINE Innermost(i_) == /\ stack[i_].kind = "run"
                            /\ \A j \in DOMAIN stack : stack[j].kind = "run" => j <= i_
<1>9. n - m \in DOMAIN stack /\ Innermost(n - m)
  BY <1>7, <1>8
<1>10. state_ = CHOOSE i_ \in DOMAIN stack : Innermost(i_)
  BY DEF state_
<1> HIDE DEF Innermost, S
<1>11. state_ \in DOMAIN stack /\ Innermost(state_)
  BY <1>9, <1>10
<1>12. QED
  BY <1>11 DEF Innermost

\* QuitsNow marks the frame of a Run.
Marks(list, k, f) ==
  /\ k \in DOMAIN list /\ f \in Frames
  /\ f.kind = list[k].kind /\ f.pc = list[k].pc /\ f.more = list[k].more
  /\ f.msg = list[k].msg /\ f.task = list[k].task /\ f.old = list[k].old

LEMMA QuitsNowIs ==
  ASSUME StackType, QuitsNow
  PROVE  \E k \in DOMAIN stack : \E f \in Frames :
           /\ Marks(stack, k, f) /\ stack' = [stack EXCEPT ![k] = f]
           /\ InBody /\ k # Len(stack)
<1>1. InBody /\ Running /\ stack' = [stack EXCEPT ![state_].quit = TRUE]
  BY DEF QuitsNow
<1>2. state_ \in DOMAIN stack /\ stack[state_].kind = "run"
  BY <1>1, InnermostRun
<1>3. PICK k \in DOMAIN stack : k = state_
  BY <1>2
<1> DEFINE f == [stack[k] EXCEPT !.quit = TRUE]
<1>4. stack[k] \in Frames
  BY DEF StackType, StackOK
<1>5. /\ f \in Frames /\ f.kind = stack[k].kind /\ f.pc = stack[k].pc
      /\ f.more = stack[k].more /\ f.msg = stack[k].msg /\ f.task = stack[k].task
      /\ f.old = stack[k].old
  BY <1>4, FrameQuits
<1>6. stack' = [stack EXCEPT ![k] = f]
  BY <1>1, <1>3
<1> HIDE DEF f
<1>7. k # Len(stack)
  BY <1>1, <1>2, <1>3 DEF InBody, In, Top, Last
<1>8. QED
  BY <1>1, <1>5, <1>6, <1>7 DEF Marks

\* The ways in which a step changes the stack.
StackStays == UNCHANGED <<stack, nestable_tasks_allowed_>>

StackMoves ==
  /\ stack # <<>> /\ UNCHANGED nestable_tasks_allowed_
  /\ \E f \in Frames : FrameOK(f) /\ SameCall(Top, f) /\ stack' = With(stack, f)

StackDispatches ==
  /\ UNCHANGED nestable_tasks_allowed_
  /\ Top.kind \in {"run", "work", "native"}
  /\ \E f \in Frames, msg \in Messages :
       /\ CallsOn(f, Called(msg))
       /\ msg = "work" => Top.kind = "native" \/ (Top.pc = "clear" /\ Top.msg = "work")

StackRuns ==
  /\ nestable_tasks_allowed_ /\ nestable_tasks_allowed_' = FALSE
  /\ Top.kind \in {"run", "work", "timer"}
  /\ \E f \in Frames, id \in TaskIds \cup {0} : CallsOn(f, Body(id))

StackQuits ==
  /\ UNCHANGED nestable_tasks_allowed_
  /\ \E k \in DOMAIN stack : \E f \in Frames :
       /\ Marks(stack, k, f) /\ stack' = [stack EXCEPT ![k] = f]

LEMMA StackSteps ==
  ASSUME TypeInv, Next
  PROVE  \/ StackStays \/ StackMoves \/ StackDispatches \/ StackRuns
         \/ Return \/ Open \/ StackQuits
<1>0. StackType /\ PumpType /\ QueuesType
  BY DEF TypeInv
<1>1. CASE \/ ReloadWorkQueue \/ DoWorkDelayed \/ (\E p \in Posters : Poster(p))
           \/ MessageArrives \/ Tick \/ UserCalls
  BY <1>1 DEF ReloadWorkQueue, DoWorkDelayed, Poster, PosterPushes, PosterExchanges,
              PosterPosts, MessageArrives, Tick, UserCalls, PumpRest, StackStays
<1>2. CASE \/ DoWorkNothing \/ DoDelayedWorkNothing \/ DoDelayedWorkNotDue
           \/ (KillTimer /\ Running) \/ DelayedWorkDone \/ WaitForWork
  <2>1. \E f \in Frames : Moves(f)
    BY <1>0, <1>2, GoesIs
  <2>2. UNCHANGED nestable_tasks_allowed_
    BY <1>2 DEF DoWorkNothing, DoDelayedWorkNothing, DoDelayedWorkNotDue, KillTimer,
                DelayedWorkDone, WaitForWork
  <2>3. QED
    BY <2>1, <2>2 DEF Moves, StackMoves
<1>3. CASE ProcessNextWindowsMessage
  <2>1. UNCHANGED nestable_tasks_allowed_
    BY <1>3 DEF ProcessNextWindowsMessage
  <2>2. NextMessage \in Messages
    BY <1>0, NextMessageIs
  <2>3. QED
    BY <1>0, <1>3, <2>1, <2>2, ProcessNextIs DEF Moves, StackMoves, StackDispatches
<1>4. CASE PeekReplacement
  <2>1. UNCHANGED nestable_tasks_allowed_
    BY <1>4 DEF PeekReplacement
  <2>2. QED
    BY <1>0, <1>4, <2>1, PeekReplacementIs DEF Moves, StackMoves
<1>5. CASE DispatchReplacement
  <2>1. UNCHANGED nestable_tasks_allowed_
    BY <1>5 DEF DispatchReplacement
  <2>2. QED
    BY <1>0, <1>5, <2>1, DispatchReplacementIs DEF Moves, StackMoves, StackDispatches
<1>6. CASE ModalLoopDispatches
  <2>1. UNCHANGED nestable_tasks_allowed_
    BY <1>6 DEF ModalLoopDispatches
  <2>2. NextMessage \in Messages
    BY <1>0, NextMessageIs
  <2>3. QED
    BY <1>0, <1>6, <2>1, <2>2, ModalLoopDispatchesIs DEF StackDispatches
<1>7. CASE DoWorkRun
  <2>1. \A task \in PendingTasks : task.id \in TaskIds \cup {0}
    BY DEF PendingTasks, Plain
  <2>2. QED
    BY <1>0, <1>7, <2>1, DoWorkRunIs DEF StackRuns
<1>8. CASE DoDelayedWorkRun
  <2>1. \A task \in DelayedTasks : task.id \in TaskIds \cup {0}
    BY DEF DelayedTasks, PendingTasks, Plain
  <2>2. QED
    BY <1>0, <1>8, <2>1, DoDelayedWorkRunIs DEF StackRuns
<1>9. CASE TaskRuns
  <2>1. UNCHANGED nestable_tasks_allowed_
    BY <1>9 DEF TaskRuns, PumpRest
  <2>2. QED
    BY <1>0, <1>9, <2>1, TaskRunsIs DEF StackMoves, FrameOK
<1>10. CASE QuitsNow
  <2>1. UNCHANGED nestable_tasks_allowed_
    BY <1>10 DEF QuitsNow
  <2>2. QED
    BY <1>0, <1>10, <2>1, QuitsNowIs DEF StackQuits
<1>11. CASE Return \/ Open
  BY <1>11
<1>12. QED
  BY <1>1, <1>2, <1>3, <1>4, <1>5, <1>6, <1>7, <1>8, <1>9, <1>10, <1>11
     DEF Next, Pump, Client, Environment, DoRunLoop, DoWork, DoDelayedWork,
         HandleWorkMessage, HandleTimerMessage, Return, Open

LEMMA MarkedIs ==
  ASSUME NEW list \in Seq(Frames), NEW k, NEW f, Marks(list, k, f)
  PROVE  LET new == [list EXCEPT ![k] = f] IN
         /\ new \in Seq(Frames) /\ Len(new) = Len(list)
         /\ new[k] = f
         /\ \A i \in DOMAIN list : i # k => new[i] = list[i]
BY DEF Marks

LEMMA StackTypeStep ==
  ASSUME TypeInv, Next
  PROVE  StackType'
<1>0. StackType /\ nestable_tasks_allowed_ \in BOOLEAN
  BY DEF TypeInv
<1>1. StackOK(stack) /\ stack \in Seq(Frames)
  BY <1>0 DEF StackType, StackOK
<1>2. SUFFICES StackOK(stack')
  BY DEF StackType
<1>3. CASE StackStays
  BY <1>1, <1>3 DEF StackStays
<1>4. CASE StackMoves
  BY <1>1, <1>4, StackOps DEF StackMoves
<1>5. ASSUME NEW f \in Frames, NEW g, CallsOn(f, g)
      PROVE  StackOK(stack')
  <2>1. StackOK(With(stack, f))
    BY <1>1, <1>5, StackOps DEF CallsOn
  <2>2. QED
    BY <1>5, <2>1, StackOps DEF CallsOn
<1>6. CASE StackDispatches \/ StackRuns
  BY <1>5, <1>6 DEF StackDispatches, StackRuns
<1>7. CASE Return
  BY <1>0, <1>1, <1>7, ReturnIs, StackOps
<1>8. CASE Open
  BY <1>0, <1>1, <1>8, OpenIs, StackOps
<1>9. CASE StackQuits
  <2>1. PICK k \in DOMAIN stack, f \in Frames :
          Marks(stack, k, f) /\ stack' = [stack EXCEPT ![k] = f]
    BY <1>9 DEF StackQuits
  <2>2. /\ stack' \in Seq(Frames) /\ Len(stack') = Len(stack) /\ stack'[k] = f
        /\ \A i \in DOMAIN stack : i # k => stack'[i] = stack[i]
    BY <1>1, <2>1, MarkedIs
  <2>3. FrameOK(f)
    BY <1>1, <2>1 DEF Marks, StackOK, FrameOK
  <2>4. \A i \in DOMAIN stack' : i \in DOMAIN stack
    BY <1>1, <2>2
  <2>5. QED
    BY <1>1, <2>2, <2>3, <2>4 DEF StackOK
<1>10. QED
  BY <1>3, <1>4, <1>6, <1>7, <1>8, <1>9, StackSteps

-----------------------------------------------------------------------------
(* Where tasks are allowed: the flag is what the stack says it is.         *)

\* Tasks are allowed where i is in A: what the i-th call makes of it.
Linked(f, A, i) ==
  /\ f.kind = "run" => f.old # "none"
  /\ f.old # "none" /\ f.kind \in {"run", "native"} =>
       i \in A /\ (i - 1 \in A <=> f.old = "allowed")
  /\ f.kind = "body" /\ f.pc # "handler" => i - 1 \in A /\ i \notin A
  /\ \/ f.kind \in {"work", "timer"} \/ (f.kind = "native" /\ f.old = "none")
     \/ f.kind = "body" /\ f.pc = "handler"
     => (i \in A <=> i - 1 \in A)

NestOK(list, A, allowed) ==
  /\ Len(list) \in A <=> allowed
  /\ \A i \in 1 .. Len(list) : Linked(list[i], A, i)

NestInv == \E A \in SUBSET Nat : NestOK(stack, A, nestable_tasks_allowed_)

LEMMA LinkedSame ==
  ASSUME NEW f, NEW g, NEW A, NEW i, Linked(f, A, i),
         g.kind = f.kind, g.old = f.old, g.pc = "handler" <=> f.pc = "handler"
  PROVE  Linked(g, A, i)
BY DEF Linked

LEMMA NestWith ==
  ASSUME NEW list \in Seq(Frames), list # <<>>, NEW A, NEW allowed \in BOOLEAN, NestOK(list, A, allowed),
         NEW f \in Frames, SameCall(Last(list), f)
  PROVE  NestOK(With(list, f), A, allowed)
<1>1. /\ Last(list) = list[Len(list)] /\ Len(list) \in Nat \ {0}
  BY TopIs
<1> DEFINE new == With(list, f)
<1>2. /\ Len(new) = Len(list) /\ new[Len(list)] = f
      /\ \A i \in 1 .. Len(list) - 1 : new[i] = list[i]
  BY WithIs
<1> HIDE DEF new
<1>3. Linked(f, A, Len(list))
  BY <1>1, LinkedSame DEF NestOK, SameCall
<1>4. \A i \in 1 .. Len(list) : Linked(new[i], A, i)
  BY <1>1, <1>2, <1>3 DEF NestOK
<1>5. QED
  BY <1>2, <1>4 DEF NestOK, new

\* A call that leaves tasks allowed or not in its own way.
LEMMA NestPush ==
  ASSUME NEW list \in Seq(Frames), NEW A \in SUBSET Nat, NEW allowed \in BOOLEAN, NestOK(list, A, allowed),
         NEW g \in Frames, NEW now_allowed \in BOOLEAN,
         \A B \in SUBSET Nat :
           /\ Len(list) + 1 \in B <=> now_allowed
           /\ Len(list) \in B <=> allowed
           => Linked(g, B, Len(list) + 1)
  PROVE  \E B \in SUBSET Nat : NestOK(Append(list, g), B, now_allowed)
<1> DEFINE n == Len(list)
           B == IF now_allowed THEN (A \cap 0 .. n) \cup {n + 1} ELSE A \cap 0 .. n
           new == Append(list, g)
<1>1. n \in Nat
  OBVIOUS
<1>2. /\ Len(new) = n + 1 /\ new[n + 1] = g /\ \A i \in 1 .. n : new[i] = list[i]
  BY PushIs
<1> HIDE DEF n, new
<1>3. /\ B \in SUBSET Nat
      /\ n + 1 \in B <=> now_allowed
      /\ \A i \in 0 .. n : i \in B <=> i \in A
  BY <1>1
<1>4. n \in B <=> allowed
  BY <1>1, <1>3 DEF NestOK, n
<1> HIDE DEF B
<1>5. Linked(g, B, n + 1)
  BY <1>3, <1>4 DEF n
<1>6. ASSUME NEW i \in 1 .. n PROVE Linked(list[i], B, i)
  <2>1. Linked(list[i], A, i)
    BY DEF NestOK, n
  <2>2. (i \in B <=> i \in A) /\ (i - 1 \in B <=> i - 1 \in A)
    BY <1>1, <1>3
  <2>3. QED
    BY <2>1, <2>2 DEF Linked
<1>7. \A i \in 1 .. n + 1 : Linked(new[i], B, i)
  BY <1>1, <1>2, <1>5, <1>6
<1>8. NestOK(new, B, now_allowed)
  BY <1>2, <1>3, <1>7 DEF NestOK
<1>9. QED
  BY <1>3, <1>8 DEF new

LEMMA NestStep ==
  ASSUME TypeInv, NestInv, Next
  PROVE  NestInv'
<1>0. /\ StackType /\ stack \in Seq(Frames) /\ nestable_tasks_allowed_ \in BOOLEAN
      /\ stack # <<>> => Top = Last(stack) /\ Top \in Frames
  BY StackTop DEF TypeInv, StackType, StackOK, Top
<1>1. PICK A \in SUBSET Nat : NestOK(stack, A, nestable_tasks_allowed_)
  BY DEF NestInv
<1>2. CASE StackStays
  BY <1>1, <1>2 DEF StackStays, NestInv
<1>3. CASE StackMoves
  <2>1. PICK f \in Frames : SameCall(Top, f) /\ stack' = With(stack, f)
    BY <1>3 DEF StackMoves
  <2>2. NestOK(With(stack, f), A, nestable_tasks_allowed_)
    BY <1>0, <1>1, <1>3, <2>1, NestWith DEF StackMoves
  <2>3. QED
    BY <1>3, <2>1, <2>2 DEF StackMoves, NestInv
<1>4. ASSUME NEW f \in Frames, NEW g, CallsOn(f, g)
      PROVE  /\ With(stack, f) \in Seq(Frames) /\ g \in Frames
             /\ stack' = Append(With(stack, f), g)
             /\ NestOK(With(stack, f), A, nestable_tasks_allowed_)
  <2>1. stack # <<>> /\ SameCall(Top, f) /\ g \in Frames /\ stack' = Append(With(stack, f), g)
    BY <1>4 DEF CallsOn
  <2>2. NestOK(With(stack, f), A, nestable_tasks_allowed_)
    BY <1>0, <1>1, <2>1, NestWith
  <2>3. QED
    BY <1>0, <2>1, <2>2, WithIs
<1>5. CASE StackDispatches
  <2>1. PICK f \in Frames, msg \in Messages : CallsOn(f, Called(msg))
    BY <1>5 DEF StackDispatches
  <2> DEFINE list == With(stack, f)
             g == Called(msg)
  <2>2. /\ list \in Seq(Frames) /\ g \in Frames /\ stack' = Append(list, g)
        /\ NestOK(list, A, nestable_tasks_allowed_)
    BY <1>4, <2>1
  <2>3. g.kind \in {"work", "timer", "body"} /\ (g.kind = "body" <=> g.pc = "handler")
    BY CalledIs
  <2> HIDE DEF list, g
  <2>4. \A B \in SUBSET Nat :
          (Len(list) + 1 \in B <=> Len(list) \in B) => Linked(g, B, Len(list) + 1)
    <3>1. Len(list) + 1 - 1 = Len(list)
      BY <2>2
    <3>2. QED
      BY <2>3, <3>1 DEF Linked
  <2>5. \E B \in SUBSET Nat : NestOK(Append(list, g), B, nestable_tasks_allowed_)
    BY <1>0, <2>2, <2>4, NestPush
  <2>6. QED
    BY <1>5, <2>2, <2>5 DEF StackDispatches, NestInv
<1>6. CASE StackRuns
  <2>1. PICK f \in Frames, id \in TaskIds \cup {0} : CallsOn(f, Body(id))
    BY <1>6 DEF StackRuns
  <2> DEFINE list == With(stack, f)
             g == Body(id)
  <2>2. /\ list \in Seq(Frames) /\ g \in Frames /\ stack' = Append(list, g)
        /\ NestOK(list, A, nestable_tasks_allowed_)
    BY <1>4, <2>1
  <2>3. g.kind = "body" /\ g.pc # "handler"
    BY BodyIs
  <2> HIDE DEF list, g
  <2>4. \A B \in SUBSET Nat :
          /\ Len(list) + 1 \notin B
          /\ Len(list) \in B
          => Linked(g, B, Len(list) + 1)
    <3>1. Len(list) + 1 - 1 = Len(list)
      BY <2>2
    <3>2. QED
      BY <2>3, <3>1 DEF Linked
  <2>5. NestOK(list, A, TRUE)
    BY <1>6, <2>2 DEF StackRuns, NestOK
  <2>6. \E B \in SUBSET Nat : NestOK(Append(list, g), B, FALSE)
    BY <2>2, <2>4, <2>5, NestPush
  <2>7. QED
    BY <1>6, <2>2, <2>6 DEF StackRuns, NestInv
<1>7. CASE Return
  <2> DEFINE n == Len(stack)
             new == Front(stack)
  <2>1. stack # <<>> /\ stack' = new /\ Top = stack[n] /\ n \in Nat \ {0}
    BY <1>0, <1>7, ReturnIs, TopIs
  <2>2. Len(new) = n - 1 /\ \A i \in 1 .. n - 1 : new[i] = stack[i]
    BY <1>0, <2>1, FrontIs
  <2>3. Linked(Top, A, n) /\ (n \in A <=> nestable_tasks_allowed_)
    BY <1>1, <2>1 DEF NestOK
  <2> HIDE DEF n, new
  <2>4. n - 1 \in A <=> nestable_tasks_allowed_'
    <3>1. CASE Top.kind \in {"run", "native"} /\ Top.old = "none"
      BY <1>0, <1>7, <2>3, <3>1, ReturnIs DEF Linked
    <3>2. CASE Top.kind \in {"run", "native"} /\ Top.old # "none"
      <4>1. nestable_tasks_allowed_' = (Top.old = "allowed")
        BY <1>0, <1>7, <3>2, ReturnIs
      <4>2. n - 1 \in A <=> Top.old = "allowed"
        BY <2>3, <3>2 DEF Linked
      <4>3. QED
        BY <4>1, <4>2
    <3>3. CASE Top.kind \in {"work", "timer"}
      BY <1>0, <1>7, <2>3, <3>3, ReturnIs DEF Linked
    <3>4. CASE Top.kind = "body" /\ Top.pc = "handler"
      BY <1>0, <1>7, <2>3, <3>4, ReturnIs DEF Linked
    <3>5. CASE Top.kind = "body" /\ Top.pc # "handler"
      <4>1. Top.pc = "in"
        BY <1>7, <3>5 DEF Return, WorkOutsideRun, WorkMessageHandled, KillTimer,
           TimerMessageHandled, RunEnds, ModalLoopEnds, BodyReturns, InBody, In
      <4>2. n - 1 \in A
        BY <2>3, <3>5 DEF Linked
      <4>3. nestable_tasks_allowed_'
        BY <1>0, <1>7, <3>5, <4>1, ReturnIs
      <4>4. QED
        BY <4>2, <4>3
    <3>6. QED
      BY <1>0, <1>7, <3>1, <3>2, <3>3, <3>4, <3>5, ReturnIs
  <2>5. \A i \in 1 .. n - 1 : Linked(new[i], A, i)
    BY <1>1, <2>1, <2>2 DEF NestOK, n
  <2>6. NestOK(new, A, nestable_tasks_allowed_')
    BY <2>2, <2>4, <2>5 DEF NestOK
  <2>7. QED
    BY <1>1, <2>1, <2>6 DEF NestInv
<1>8. CASE Open
  <2>1. PICK g \in Frames :
           /\ stack' = Append(stack, g)
           /\ g.kind = "run" \/ g.kind = "native"
           /\ \/ /\ g.kind = "native" /\ g.old = "none"
                 /\ nestable_tasks_allowed_' = nestable_tasks_allowed_
              \/ /\ g.old \in {"allowed", "not"}
                 /\ (g.old = "allowed") = nestable_tasks_allowed_
                 /\ nestable_tasks_allowed_' = TRUE
    BY <1>0, <1>8, OpenIs
  <2>n. PICK n \in Nat : n = Len(stack)
    BY <1>0
  <2>2. n + 1 - 1 = n
    OBVIOUS
  <2>3. CASE g.kind = "native" /\ g.old = "none"
    <3>1. \A B \in SUBSET Nat : (n + 1 \in B <=> n \in B) => Linked(g, B, n + 1)
      BY <2>2, <2>3 DEF Linked
    <3>2. \E B \in SUBSET Nat : NestOK(Append(stack, g), B, nestable_tasks_allowed_)
      BY <1>0, <1>1, <2>n, <3>1, NestPush
    <3>3. nestable_tasks_allowed_' = nestable_tasks_allowed_
      BY <2>1, <2>3
    <3>4. QED
      BY <2>1, <3>2, <3>3 DEF NestInv
  <2>4. CASE g.old \in {"allowed", "not"}
    <3>1. \A B \in SUBSET Nat :
            /\ n + 1 \in B
            /\ n \in B <=> g.old = "allowed"
            => Linked(g, B, n + 1)
      BY <2>1, <2>2, <2>4 DEF Linked
    <3>2. (nestable_tasks_allowed_ <=> g.old = "allowed") /\ nestable_tasks_allowed_'
      BY <1>0, <2>1, <2>4
    <3>3. \A B \in SUBSET Nat :
            /\ n + 1 \in B <=> TRUE
            /\ n \in B <=> nestable_tasks_allowed_
            => Linked(g, B, n + 1)
      BY <3>1, <3>2
    <3>4. \E B \in SUBSET Nat : NestOK(Append(stack, g), B, TRUE)
      BY <1>0, <1>1, <2>n, <3>3, NestPush
    <3>5. nestable_tasks_allowed_' = TRUE
      BY <2>1, <2>4
    <3>6. QED
      BY <2>1, <3>4, <3>5 DEF NestInv
  <2>5. QED
    BY <2>1, <2>3, <2>4
<1>9. CASE StackQuits
  <2>1. PICK k \in DOMAIN stack, f \in Frames :
          Marks(stack, k, f) /\ stack' = [stack EXCEPT ![k] = f]
    BY <1>9 DEF StackQuits
  <2>2. /\ Len(stack') = Len(stack) /\ stack'[k] = f /\ DOMAIN stack = 1 .. Len(stack)
        /\ \A i \in DOMAIN stack : i # k => stack'[i] = stack[i]
    BY <1>0, <2>1, MarkedIs
  <2>3. Linked(f, A, k)
    BY <1>1, <2>1, <2>2, LinkedSame DEF Marks, NestOK
  <2>4. \A i \in 1 .. Len(stack) : Linked(stack'[i], A, i)
    BY <1>1, <2>2, <2>3 DEF NestOK
  <2>5. NestOK(stack', A, nestable_tasks_allowed_)
    BY <1>1, <2>2, <2>4 DEF NestOK
  <2>6. QED
    BY <1>1, <1>9, <2>5 DEF StackQuits, NestInv
<1>10. QED
  BY <1>2, <1>3, <1>5, <1>6, <1>7, <1>8, <1>9, StackSteps

\* Run never finds tasks not allowed.
LEMMA RunAllowed ==
  ASSUME StackType, NestInv, stack # <<>>, Top.kind = "run"
  PROVE  nestable_tasks_allowed_
<1>1. PICK A \in SUBSET Nat : NestOK(stack, A, nestable_tasks_allowed_)
  BY DEF NestInv
<1>2. Len(stack) \in 1 .. Len(stack) /\ Top = stack[Len(stack)]
  BY StackTop DEF Top, Last
<1>3. QED
  BY <1>1, <1>2 DEF NestOK, Linked

-----------------------------------------------------------------------------
(* Types.                                                                  *)

LEMMA NewTaskIsFree ==
  ASSUME Free # {}
  PROVE  NewTask \in Free /\ NewTask \in TaskIds
<1>1. Free \subseteq TaskIds /\ \A n \in Free : n \in Nat
  BY TimerAssumption DEF Free
<1> DEFINE Least(id) == \A other \in Free : id <= other
<1>2. PICK e \in Free : TRUE
  OBVIOUS
<1>3. \E id \in Free : Least(id)
  <2> DEFINE S == Free
  <2>1. (\A n \in S : n \in Nat) /\ e \in S
    BY <1>1, <1>2
  <2> HIDE DEF S
  <2>2. \E n \in S : \A m \in S : n <= m
    BY <2>1, LeastElement
  <2>3. QED
    BY <2>2 DEF S
<1>4. NewTask = CHOOSE id \in Free : Least(id)
  BY DEF NewTask
<1> HIDE DEF Least
<1>5. NewTask \in Free
  BY <1>3, <1>4
<1>6. QED
  BY <1>1, <1>5

\* The ways in which a step changes the timer.
Reschedules(id) ==
  /\ is_running_' = TRUE /\ delay_' # T!NoTask
  /\ scheduled_task_' = id /\ desired_run_time_' = scheduled_run_time_'
  /\ asked' = desired_run_time_'

Reuses ==
  /\ is_running_' = TRUE /\ delay_' # T!NoTask
  /\ scheduled_task_ # 0
  /\ UNCHANGED <<scheduled_task_, scheduled_run_time_>>
  /\ desired_run_time_' > scheduled_run_time_
  /\ asked' = desired_run_time_'

Rests == /\ is_running_' = FALSE
         /\ UNCHANGED <<scheduled_task_, scheduled_run_time_>>

Abandons == is_running_' = FALSE /\ scheduled_task_' = 0

LEMMA MaxTimeIs == MaxTime \in Nat /\ UserTimerMinimum \in Nat
BY PumpAssumption

LEMMA UserCallsIs ==
  ASSUME TimerType, UserCalls
  PROVE  /\ TimerType'
         /\ \/ Free # {} /\ Reschedules(NewTask)
            \/ Reuses \/ Rests \/ Abandons
<1>0. /\ MaxTime \in Nat /\ Delays \subseteq Nat /\ now' = now
      /\ T!NoTask = -1
  BY MaxTimeIs, TimerAssumption DEF UserCalls, PumpRest, T!NoTask
<1>1. CASE Free # {} /\ \E delay \in Delays : now + delay <= MaxTime /\ T!Start(NewTask, delay, now)
  <2>1. PICK delay \in Delays : now + delay <= MaxTime /\ T!Start(NewTask, delay, now)
    BY <1>1
  <2>2. delay \in 0 .. MaxTime
    BY <1>0, <2>1 DEF TimerType
  <2>3. NewTask \in TaskIds
    BY <1>1, NewTaskIsFree
  <2>4. /\ delay_' = delay /\ asked' = now + delay /\ is_running_' = TRUE
        /\ desired_run_time_' = now + delay
        /\ \/ /\ scheduled_task_ # 0 /\ now + delay > scheduled_run_time_
              /\ UNCHANGED <<scheduled_task_, scheduled_run_time_>>
           \/ scheduled_task_' = NewTask /\ scheduled_run_time_' = now + delay
    BY <2>1 DEF T!Start, T!ResetTo, T!Reuse, T!PostNewScheduledTask
  <2>5. TimerType'
    BY <1>0, <2>1, <2>2, <2>3, <2>4 DEF TimerType
  <2>6. QED
    BY <1>0, <1>1, <2>2, <2>4, <2>5 DEF Reschedules, Reuses
<1>2. CASE Free # {} /\ now + delay_ <= MaxTime /\ T!Reset(NewTask, now)
  <2>2. delay_ \in 0 .. MaxTime
    BY <1>0, <1>2 DEF TimerType, T!Reset
  <2>3. NewTask \in TaskIds
    BY <1>2, NewTaskIsFree
  <2>4. /\ delay_' = delay_ /\ asked' = now + delay_ /\ is_running_' = TRUE
        /\ desired_run_time_' = now + delay_
        /\ \/ /\ scheduled_task_ # 0 /\ now + delay_ > scheduled_run_time_
              /\ UNCHANGED <<scheduled_task_, scheduled_run_time_>>
           \/ scheduled_task_' = NewTask /\ scheduled_run_time_' = now + delay_
    BY <1>2 DEF T!Reset, T!ResetTo, T!Reuse, T!PostNewScheduledTask
  <2>5. TimerType'
    BY <1>0, <1>2, <2>2, <2>3, <2>4 DEF TimerType
  <2>6. QED
    BY <1>0, <1>2, <2>2, <2>4, <2>5 DEF Reschedules, Reuses
<1>3. CASE T!Stop
  BY <1>0, <1>3 DEF T!Stop, TimerType, Rests
<1>4. CASE T!StopAndAbandon
  <2>1. /\ is_running_' = FALSE /\ scheduled_task_' = 0 /\ delay_' = T!NoTask
        /\ scheduled_run_time_' = 0 /\ desired_run_time_' = 0 /\ asked' = 0
    BY <1>4 DEF T!StopAndAbandon
  <2>2. 0 \in 0 .. 2 * MaxTime
    BY <1>0
  <2>3. QED
    BY <1>0, <2>1, <2>2 DEF TimerType, Abandons
<1>5. QED
  BY <1>1, <1>2, <1>3, <1>4 DEF UserCalls

LEMMA TaskRunsTimer ==
  ASSUME TimerType, StackType, TaskRuns, is_running_ => asked = desired_run_time_
  PROVE  /\ TimerType'
         /\ \/ scheduled_task_ = Top.task /\ Reschedules(Top.task)
            \/ scheduled_task_ = Top.task /\ Abandons
            \/ scheduled_task_ # Top.task /\ UNCHANGED timervars
<1>0. /\ MaxTime \in Nat /\ now' = now /\ T!NoTask = -1
      /\ Top.task \in TaskIds /\ T!RunScheduledTask(Top.task, Top.task, now)
  BY MaxTimeIs, TaskRunsIs DEF TaskRuns, PumpRest, T!NoTask
<1>1. CASE T!RunsForNothing(Top.task)
  BY <1>0, <1>1 DEF T!RunsForNothing, TimerType, Abandons, T!timer, timervars
<1>2. CASE T!RunsTooEarly(Top.task, Top.task, now)
  <2>1. /\ scheduled_task_ = Top.task /\ is_running_ /\ is_running_' = TRUE
        /\ desired_run_time_ > now
        /\ scheduled_task_' = Top.task
        /\ scheduled_run_time_' = now + (desired_run_time_ - now)
        /\ desired_run_time_' = now + (desired_run_time_ - now)
        /\ UNCHANGED <<delay_, asked>>
    BY <1>2 DEF T!RunsTooEarly, T!TooEarly, T!PostNewScheduledTask
  <2>2. now + (desired_run_time_ - now) = desired_run_time_
    BY DEF TimerType
  <2>3. QED
    BY <1>0, <2>1, <2>2 DEF TimerType, Reschedules
<1>3. CASE T!RunsUserTask(Top.task, Top.task, now)
  <2>1. CASE is_repeating_
    <3>1. /\ scheduled_task_ = Top.task /\ is_running_ /\ is_running_' = TRUE
          /\ scheduled_task_' = Top.task
          /\ scheduled_run_time_' = now + delay_ /\ desired_run_time_' = now + delay_
          /\ asked' = now + delay_ /\ delay_' = delay_
      BY <1>3, <2>1 DEF T!RunsUserTask, T!PostNewScheduledTask
    <3>2. delay_ \in 0 .. MaxTime /\ now + delay_ \in 0 .. 2 * MaxTime
      BY <1>0, <3>1 DEF TimerType
    <3>3. QED
      BY <1>0, <3>1, <3>2 DEF TimerType, Reschedules
  <2>2. CASE ~is_repeating_
    BY <1>0, <1>3, <2>2 DEF T!RunsUserTask, TimerType, Abandons
  <2>3. QED
    BY <2>1, <2>2
<1>4. QED
  BY <1>0, <1>1, <1>2, <1>3 DEF T!RunScheduledTask

LEMMA TimerTypeStep ==
  ASSUME TypeInv, Next, is_running_ => asked = desired_run_time_
  PROVE  TimerType'
<1>0. TimerType /\ StackType
  BY DEF TypeInv
<1>1. CASE UserCalls
  BY <1>0, <1>1, UserCallsIs
<1>2. CASE TaskRuns
  BY <1>0, <1>2, TaskRunsTimer
<1>3. CASE (Pump \/ Client \/ Environment) /\ UNCHANGED timervars
  <2>1. now' \in 0 .. MaxTime
    BY <1>0, <1>3, MaxTimeIs DEF Pump, Client, Environment, TimerType,
         DoRunLoop, DoWork, DoDelayedWork, HandleWorkMessage, HandleTimerMessage,
         ProcessNextWindowsMessage, PeekReplacement, DispatchReplacement, WorkOutsideRun,
         DoWorkNothing, ReloadWorkQueue, DoWorkDelayed, DoWorkRun, WorkMessageHandled,
         DoDelayedWorkNothing, DoDelayedWorkNotDue, DoDelayedWorkRun, KillTimer,
         TimerMessageHandled, DelayedWorkDone, WaitForWork, RunEnds, RunBegins,
         ModalLoopBegins, ModalLoopDispatches, ModalLoopEnds, QuitsNow, BodyReturns,
         MessageArrives, Tick, Poster, PosterPushes, PosterExchanges, PosterPosts
  <2>2. QED
    BY <1>0, <1>3, <2>1 DEF TimerType, timervars
<1>4. QED
  BY <1>1, <1>2, <1>3 DEF Next

\* Insert puts the task somewhere.
LEMMA InsertIs ==
  ASSUME NEW list \in Seq(DelayedTasks), NEW task \in DelayedTasks
  PROVE  \E k \in 1 .. Len(list) + 1 : Insert(list, task) = InsertAt(list, k, task)
<1> DEFINE S == {i \in DOMAIN list : list[i].time <= task.time}
<1>1. 1 \in Int /\ Len(list) \in Int /\ Len(list) \in Nat
  OBVIOUS
<1>2. IsFiniteSet(1 .. Len(list)) /\ Cardinality(1 .. Len(list)) = Len(list)
  <2>1. IsFiniteSet(1 .. Len(list))
    BY <1>1, FS_Interval
  <2>2. Cardinality(1 .. Len(list)) = IF 1 > Len(list) THEN 0 ELSE Len(list) - 1 + 1
    BY <1>1, FS_Interval
  <2>3. QED
    BY <1>1, <2>1, <2>2
<1>3. S \in SUBSET (1 .. Len(list))
  OBVIOUS
<1> HIDE DEF S
<1>4. IsFiniteSet(S) /\ Cardinality(S) <= Len(list)
  BY <1>2, <1>3, FS_Subset
<1>5. Cardinality(S) \in Nat
  BY <1>4, FS_CardinalityType
<1>6. Insert(list, task) = InsertAt(list, Cardinality(S) + 1, task)
  BY DEF Insert, S
<1>7. QED
  BY <1>1, <1>4, <1>5, <1>6

\* The task that a call of the timer posts.
Posted == [id   |-> scheduled_task_',
           time |-> IF scheduled_run_time_' > now THEN scheduled_run_time_' ELSE Null]

LEMMA PostedIs ==
  ASSUME TimerType, TimerType', scheduled_task_' \in TaskIds
  PROVE  /\ Posted \in PendingTasks /\ Posted.id = scheduled_task_'
         /\ \/ Posted.time = scheduled_run_time_'
            \/ Posted.time = Null /\ scheduled_run_time_' <= now
BY MaxTimeIs DEF TimerType, PendingTasks, Times, Posted

\* The ways in which a step changes the queues.
QueuesStay == UNCHANGED queues

QueuesGet(task) ==
  /\ incoming_queue_' = Append(incoming_queue_, task)
  /\ UNCHANGED <<work_queue_, delayed_work_queue_>>

QueuesReload ==
  /\ work_queue_ = <<>> /\ incoming_queue_ # <<>>
  /\ work_queue_' = incoming_queue_ /\ incoming_queue_' = <<>>
  /\ UNCHANGED delayed_work_queue_

QueuesDelay ==
  /\ work_queue_ # <<>> /\ Head(work_queue_).time # Null
  /\ work_queue_' = Tail(work_queue_)
  /\ \E k \in 1 .. Len(delayed_work_queue_) + 1 :
       delayed_work_queue_' = InsertAt(delayed_work_queue_, k, Head(work_queue_))
  /\ UNCHANGED incoming_queue_

QueuesRun ==
  /\ work_queue_ # <<>> /\ Head(work_queue_).time = Null
  /\ work_queue_' = Tail(work_queue_)
  /\ UNCHANGED <<incoming_queue_, delayed_work_queue_>>

QueuesRunDelayed ==
  /\ delayed_work_queue_ # <<>> /\ Head(delayed_work_queue_).time <= now
  /\ delayed_work_queue_' = Tail(delayed_work_queue_)
  /\ UNCHANGED <<incoming_queue_, work_queue_>>

LEMMA DoWorkDelayedIs ==
  ASSUME QueuesType, DoWorkDelayed
  PROVE  QueuesDelay /\ Head(work_queue_) \in DelayedTasks
<1>1. /\ work_queue_ # <<>> /\ Head(work_queue_).time # Null
      /\ work_queue_' = Tail(work_queue_)
      /\ delayed_work_queue_' = Insert(delayed_work_queue_, Head(work_queue_))
      /\ UNCHANGED incoming_queue_
  BY DEF DoWorkDelayed
<1>2. Head(work_queue_) \in DelayedTasks /\ delayed_work_queue_ \in Seq(DelayedTasks)
  BY <1>1 DEF QueuesType, DelayedTasks
<1>3. \E k \in 1 .. Len(delayed_work_queue_) + 1 :
        delayed_work_queue_' = InsertAt(delayed_work_queue_, k, Head(work_queue_))
  BY <1>1, <1>2, InsertIs
<1>4. QED
  BY <1>1, <1>2, <1>3 DEF QueuesDelay

LEMMA UserCallsPost ==
  ASSUME UserCalls
  PROVE  \/ scheduled_task_' \notin {0, scheduled_task_} /\ QueuesGet(Posted)
         \/ scheduled_task_' \in {0, scheduled_task_} /\ QueuesStay
BY DEF UserCalls, PostsScheduledTask, AddToIncomingQueue, PumpRest, queues,
       QueuesGet, QueuesStay, Posted

LEMMA TaskRunsPost ==
  ASSUME TaskRuns
  PROVE  \/ scheduled_task_ = Top.task /\ scheduled_task_' # 0 /\ QueuesGet(Posted)
         \/ ~(scheduled_task_ = Top.task /\ scheduled_task_' # 0) /\ QueuesStay
BY DEF TaskRuns, PostsScheduledTask, AddToIncomingQueue, PumpRest, queues,
       QueuesGet, QueuesStay, Posted

\* The steps that leave the queues alone.
QueueSteps == \/ UserCalls \/ TaskRuns \/ ReloadWorkQueue \/ DoWorkDelayed \/ DoWorkRun
              \/ DoDelayedWorkRun \/ \E p \in Posters : PosterPushes(p)

LEMMA OtherStepsLeaveQueues ==
  ASSUME Next, ~QueueSteps
  PROVE  QueuesStay /\ UNCHANGED timervars
<1>1. (Pump \/ Client \/ Environment) /\ UNCHANGED timervars
  BY DEF Next, QueueSteps
<1>2. QueuesStay
  BY <1>1 DEF QueueSteps, Pump, Client, Environment, QueuesStay, queues,
         DoRunLoop, DoWork, DoDelayedWork, HandleWorkMessage, HandleTimerMessage,
         ProcessNextWindowsMessage, PeekReplacement, DispatchReplacement, WorkOutsideRun,
         DoWorkNothing, WorkMessageHandled,
         DoDelayedWorkNothing, DoDelayedWorkNotDue, KillTimer,
         TimerMessageHandled, DelayedWorkDone, WaitForWork, RunEnds, RunBegins,
         ModalLoopBegins, ModalLoopDispatches, ModalLoopEnds, QuitsNow, BodyReturns,
         MessageArrives, Tick, Poster, PosterExchanges, PosterPosts
<1>3. QED
  BY <1>1, <1>2

LEMMA PlainIs == Plain \in PendingTasks /\ Plain.id = 0 /\ Plain.time = Null
BY DEF PendingTasks, Plain

LEMMA QueuesTypeStep ==
  ASSUME TypeInv, Next, TimerType'
  PROVE  QueuesType'
<1>0. /\ TimerType /\ QueuesType /\ StackType
      /\ incoming_queue_ \in Seq(PendingTasks) /\ work_queue_ \in Seq(PendingTasks)
      /\ delayed_work_queue_ \in Seq(DelayedTasks)
  BY DEF TypeInv, QueuesType
<1>1. ASSUME QueuesStay PROVE QueuesType'
  BY <1>0, <1>1 DEF QueuesStay, queues, QueuesType
<1>2. ASSUME NEW task \in PendingTasks, QueuesGet(task) PROVE QueuesType'
  BY <1>0, <1>2 DEF QueuesGet, QueuesType
<1>3. CASE UserCalls
  <2>1. CASE scheduled_task_' \notin {0, scheduled_task_} /\ QueuesGet(Posted)
    <3>1. scheduled_task_' \in TaskIds
      BY <2>1 DEF TimerType
    <3>2. Posted \in PendingTasks
      BY <1>0, <3>1, PostedIs
    <3>3. QED
      BY <1>2, <2>1, <3>2
  <2>2. QED
    BY <1>1, <1>3, <2>1, UserCallsPost
<1>4. CASE TaskRuns
  <2>1. CASE scheduled_task_' # 0 /\ QueuesGet(Posted)
    <3>1. scheduled_task_' \in TaskIds
      BY <2>1 DEF TimerType
    <3>2. Posted \in PendingTasks
      BY <1>0, <3>1, PostedIs
    <3>3. QED
      BY <1>2, <2>1, <3>2
  <2>2. QED
    BY <1>1, <1>4, <2>1, TaskRunsPost
<1>5. CASE \E p \in Posters : PosterPushes(p)
  <2>1. QueuesGet(Plain)
    BY <1>5 DEF PosterPushes, QueuesGet
  <2>2. QED
    BY <1>2, <2>1, PlainIs
<1>6. CASE ReloadWorkQueue
  BY <1>0, <1>6 DEF ReloadWorkQueue, QueuesType
<1>7. CASE DoWorkDelayed
  <2>1. QueuesDelay /\ Head(work_queue_) \in DelayedTasks
    BY <1>0, <1>7, DoWorkDelayedIs
  <2>2. PICK k \in 1 .. Len(delayed_work_queue_) + 1 :
          delayed_work_queue_' = InsertAt(delayed_work_queue_, k, Head(work_queue_))
    BY <2>1 DEF QueuesDelay
  <2>3. delayed_work_queue_' \in Seq(DelayedTasks)
    BY <1>0, <2>1, <2>2, InsertAtIs
  <2>4. QED
    BY <1>0, <2>1, <2>3 DEF QueuesDelay, QueuesType
<1>8. CASE DoWorkRun
  BY <1>0, <1>8 DEF DoWorkRun, QueuesType
<1>9. CASE DoDelayedWorkRun
  BY <1>0, <1>9 DEF DoDelayedWorkRun, QueuesType
<1>10. CASE ~QueueSteps
  BY <1>1, <1>10, OtherStepsLeaveQueues
<1>11. QED
  BY <1>3, <1>4, <1>5, <1>6, <1>7, <1>8, <1>9, <1>10 DEF QueueSteps

-----------------------------------------------------------------------------
(* The one kMsgHaveWork: in the queue, with a poster, or taken by a call   *)
(* that will clear the flag.                                               *)

Taking == {f \in Frames : f.pc \in {"replace", "clear"}}
Taken == Count(stack, Taking)

\* A call that is about to dispatch does not do so with another kMsgHaveWork; and
\* only a task that is to begin is still there.
ProperFrames == {f \in Frames : /\ f.pc = "clear" => f.msg # "work"
                                /\ f.task # 0 => f.pc = "begin"}
FramesInv == stack \in Seq(ProperFrames)

LEMMA CountWith ==
  ASSUME NEW list \in Seq(Frames), list # <<>>, NEW f \in Frames, NEW S
  PROVE  /\ Count(list, S) = Count(Front(list), S) + One(Last(list), S)
         /\ Count(With(list, f), S) = Count(Front(list), S) + One(f, S)
         /\ Count(Front(list), S) \in Nat
<1>1. Front(list) \in Seq(Frames)
  BY FrontIs
<1>2. Count(Front(list), S) \in Nat
  BY <1>1, PositionsFinite
<1>3. Count(list, S) = Count(Front(list), S) + One(Last(list), S)
  BY CountFront
<1>4. Count(Append(Front(list), f), S) = Count(Front(list), S) + One(f, S)
  BY <1>1, CountAppend
<1>5. QED
  BY <1>2, <1>3, <1>4 DEF With

LEMMA CountSame ==
  ASSUME NEW V, NEW list \in Seq(V), NEW new \in Seq(V), Len(new) = Len(list), NEW S,
         \A i \in DOMAIN list : new[i] \in S <=> list[i] \in S
  PROVE  Count(new, S) = Count(list, S)
<1>1. Positions(new, S) = Positions(list, S)
  BY DEF Positions
<1>2. QED
  BY <1>1 DEF Count

\* How a step changes the number of calls that have taken it.
TakenBy(f) == One(f, Taking)

LEMMA TakenSteps ==
  ASSUME StackType
  PROVE  /\ Taken \in Nat
         /\ stack # <<>> => (Top.pc \in {"replace", "clear"} => Taken >= 1)
         /\ \A f \in Frames : Moves(f) =>
              Taken' = Taken - TakenBy(Top) + TakenBy(f)
         /\ \A f \in Frames : \A g : CallsOn(f, g) =>
              Taken' = Taken - TakenBy(Top) + TakenBy(f) + TakenBy(g)
         /\ stack # <<>> /\ stack' = Front(stack) => Taken' = Taken - TakenBy(Top)
         /\ \A g \in Frames : stack' = Append(stack, g) => Taken' = Taken + TakenBy(g)
<1>0. stack \in Seq(Frames)
  BY DEF StackType, StackOK
<1>1. Taken \in Nat
  BY <1>0, PositionsFinite DEF Taken
<1>2. ASSUME stack # <<>>
      PROVE  /\ Taken = Count(Front(stack), Taking) + TakenBy(Top)
             /\ Count(Front(stack), Taking) \in Nat
             /\ \A f \in Frames : Count(With(stack, f), Taking)
                                    = Count(Front(stack), Taking) + TakenBy(f)
  BY <1>0, <1>2, CountWith, StackTop DEF Taken, TakenBy, Top
<1>3. ASSUME stack # <<>>, Top.pc \in {"replace", "clear"}
      PROVE  Taken >= 1
  <2>1. Top \in Frames
    BY <1>3, StackTop DEF StackType
  <2>2. TakenBy(Top) = 1
    BY <1>3, <2>1 DEF TakenBy, One, Taking
  <2>3. QED
    BY <1>2, <1>3, <2>2
<1>4. \A f : TakenBy(f) \in {0, 1}
  BY DEF TakenBy, One
<1>5. ASSUME NEW f \in Frames, Moves(f)
      PROVE  Taken' = Taken - TakenBy(Top) + TakenBy(f)
  <2>1. stack # <<>> /\ stack' = With(stack, f)
    BY <1>5 DEF Moves
  <2>2. Taken' = Count(Front(stack), Taking) + TakenBy(f)
    BY <1>2, <2>1 DEF Taken
  <2>3. QED
    BY <1>2, <1>4, <2>1, <2>2
<1>6. ASSUME NEW f \in Frames, NEW g, CallsOn(f, g)
      PROVE  Taken' = Taken - TakenBy(Top) + TakenBy(f) + TakenBy(g)
  <2>1. stack # <<>> /\ stack' = Append(With(stack, f), g) /\ g \in Frames
    BY <1>6 DEF CallsOn
  <2>2. With(stack, f) \in Seq(Frames)
    BY <1>0, <2>1, WithIs
  <2>3. Count(Append(With(stack, f), g), Taking) = Count(With(stack, f), Taking) + TakenBy(g)
    BY <2>1, <2>2, CountAppend DEF TakenBy
  <2>4. Taken' = Count(Front(stack), Taking) + TakenBy(f) + TakenBy(g)
    BY <1>2, <2>1, <2>3 DEF Taken
  <2>5. QED
    BY <1>2, <1>4, <2>1, <2>4
<1>7. ASSUME stack # <<>>, stack' = Front(stack)
      PROVE  Taken' = Taken - TakenBy(Top)
  <2>1. Taken' = Count(Front(stack), Taking)
    BY <1>7 DEF Taken
  <2>2. QED
    BY <1>2, <1>4, <1>7, <2>1
<1>8. ASSUME NEW g \in Frames, stack' = Append(stack, g)
      PROVE  Taken' = Taken + TakenBy(g)
  BY <1>0, <1>8, CountAppend DEF Taken, TakenBy
<1>9. QED
  BY <1>1, <1>3, <1>5, <1>6, <1>7, <1>8

\* The ways in which a step changes what has to do with the message.
Handshake == <<have_work_, messages, poster>>

WorkStays == UNCHANGED Handshake /\ Taken' = Taken

WorkScheduled == ScheduleWork /\ UNCHANGED poster /\ Taken' = Taken

WorkTaken ==
  /\ TakeMessage /\ UNCHANGED <<have_work_, poster>>
  /\ Taken' = Taken + IF NextMessage = "work" THEN 1 ELSE 0

WorkPeeked ==
  /\ TakeMessage /\ UNCHANGED <<have_work_, poster>>
  /\ Taken >= 1 /\ Taken' = Taken

WorkCleared ==
  /\ Taken >= 1 /\ Taken' = Taken - 1
  /\ have_work_' = 0 /\ UNCHANGED <<messages, poster>>

WorkRepeated ==
  /\ Taken >= 1 /\ Taken' = Taken - 1
  /\ have_work_' = 1 /\ messages' = Append(messages, "work") /\ UNCHANGED poster

WorkByOthers ==
  /\ \/ MessageArrives
     \/ \E p \in Posters : Poster(p)
  /\ Taken' = Taken

LEMMA WorkSteps ==
  ASSUME TypeInv, FramesInv, Next
  PROVE  \/ WorkStays \/ WorkScheduled \/ WorkTaken \/ WorkPeeked \/ WorkCleared
         \/ WorkRepeated \/ WorkByOthers
<1>0. StackType /\ PumpType /\ QueuesType /\ nestable_tasks_allowed_ \in BOOLEAN
  BY DEF TypeInv
<1>t. /\ Taken \in Nat
      /\ stack # <<>> => (Top.pc \in {"replace", "clear"} => Taken >= 1)
      /\ stack # <<>> => Top \in Frames
  BY <1>0, TakenSteps, StackTop
<1>o. /\ \A f \in Frames : TakenBy(f) = IF f.pc \in {"replace", "clear"} THEN 1 ELSE 0
      /\ \A msg : TakenBy(Called(msg)) = IF msg = "work" THEN 1 ELSE 0
      /\ \A id \in TaskIds \cup {0} : TakenBy(Body(id)) = 0
  <2>1. \A f \in Frames : TakenBy(f) = IF f.pc \in {"replace", "clear"} THEN 1 ELSE 0
    BY DEF TakenBy, One, Taking
  <2>2. \A msg : TakenBy(Called(msg)) = IF msg = "work" THEN 1 ELSE 0
    <3>1. TAKE msg
    <3>2. Called(msg) \in Frames /\ (Called(msg).pc = "replace" <=> msg = "work")
          /\ Called(msg).pc # "clear"
      BY CalledIs
    <3>3. QED
      BY <2>1, <3>2
  <2>3. \A id \in TaskIds \cup {0} : TakenBy(Body(id)) = 0
    BY <2>1, BodyIs
  <2>4. QED
    BY <2>1, <2>2, <2>3
<1>1. CASE \/ ReloadWorkQueue \/ DoWorkDelayed \/ Tick
  BY <1>1 DEF ReloadWorkQueue, DoWorkDelayed, Tick, WorkStays, Handshake, Taken, pump
<1>2. CASE MessageArrives \/ \E p \in Posters : Poster(p)
  BY <1>2 DEF MessageArrives, Poster, PosterPushes, PosterExchanges, PosterPosts,
              WorkByOthers, Taken
<1>3. CASE UserCalls
  BY <1>3 DEF UserCalls, PostsScheduledTask, AddToIncomingQueue, PumpRest, Taken,
              WorkStays, WorkScheduled, Handshake
<1>4. CASE \/ DoWorkNothing \/ DoDelayedWorkNothing \/ DoDelayedWorkNotDue
           \/ (KillTimer /\ Running) \/ DelayedWorkDone \/ WaitForWork
  <2>1. \E f \in Frames : /\ Moves(f) /\ f.pc \notin {"replace", "clear"}
                          /\ stack # <<>> /\ Top.pc \notin {"replace", "clear"}
    BY <1>0, <1>4, GoesIs DEF Moves, DoWorkGoes, DoDelayedGoes
  <2>2. Taken' = Taken
    BY <1>0, <1>t, <1>o, <2>1, TakenSteps
  <2>3. UNCHANGED Handshake
    BY <1>4 DEF DoWorkNothing, DoDelayedWorkNothing, DoDelayedWorkNotDue, KillTimer,
                DelayedWorkDone, WaitForWork, Handshake, pump
  <2>4. QED
    BY <2>2, <2>3 DEF WorkStays
<1>5. CASE ProcessNextWindowsMessage
  <2>1. PICK f \in Frames :
           /\ Top.kind = "run" /\ Top.pc = "next"
           /\ \/ NextMessage = "none" /\ f.pc = "work" /\ Moves(f)
              \/ NextMessage = "work" /\ f.pc = "replace" /\ Moves(f)
              \/ /\ NextMessage \in {"timer", "other"} /\ f.pc = "work" /\ f.more
                 /\ CallsOn(f, Called(NextMessage))
    BY <1>0, <1>5, ProcessNextIs
  <2>2. stack # <<>> /\ TakenBy(Top) = 0
    BY <1>t, <1>o, <2>1 DEF Moves, CallsOn
  <2>3. Taken' = Taken + IF NextMessage = "work" THEN 1 ELSE 0
    <3>1. CASE NextMessage = "none" /\ f.pc = "work" /\ Moves(f)
      BY <1>0, <1>t, <1>o, <2>2, <3>1, TakenSteps
    <3>2. CASE NextMessage = "work" /\ f.pc = "replace" /\ Moves(f)
      BY <1>0, <1>t, <1>o, <2>2, <3>2, TakenSteps
    <3>3. CASE NextMessage \in {"timer", "other"} /\ f.pc = "work" /\ CallsOn(f, Called(NextMessage))
      <4>1. TakenBy(f) = 0 /\ TakenBy(Called(NextMessage)) = 0 /\ NextMessage # "work"
        BY <1>o, <3>3
      <4>2. Taken' = Taken - TakenBy(Top) + TakenBy(f) + TakenBy(Called(NextMessage))
        BY <1>0, <3>3, TakenSteps
      <4>3. QED
        BY <1>t, <2>2, <4>1, <4>2
    <3>4. QED
      BY <2>1, <3>1, <3>2, <3>3
  <2>4. TakeMessage /\ UNCHANGED <<have_work_, poster>>
    BY <1>5 DEF ProcessNextWindowsMessage
  <2>5. QED
    BY <2>3, <2>4 DEF WorkTaken
<1>6. CASE ModalLoopDispatches
  <2>1. /\ Top.pc = "pump" /\ Top \in Frames /\ stack # <<>>
        /\ CallsOn(Top, Called(NextMessage))
    BY <1>0, <1>6, ModalLoopDispatchesIs DEF CallsOn
  <2>2. TakenBy(Top) = 0 /\ TakenBy(Called(NextMessage)) = IF NextMessage = "work" THEN 1 ELSE 0
    BY <1>o, <2>1
  <2>3. Taken' = Taken - TakenBy(Top) + TakenBy(Top) + TakenBy(Called(NextMessage))
    BY <1>0, <2>1, TakenSteps
  <2>4. TakeMessage /\ UNCHANGED <<have_work_, poster>>
    BY <1>6 DEF ModalLoopDispatches
  <2>5. QED
    BY <1>t, <2>2, <2>3, <2>4 DEF WorkTaken
<1>7. CASE PeekReplacement
  <2>1. PICK f \in Frames : Top.pc = "replace" /\ f.pc = "clear" /\ Moves(f)
    BY <1>0, <1>7, PeekReplacementIs
  <2>2. stack # <<>> /\ TakenBy(Top) = 1 /\ TakenBy(f) = 1
    BY <1>t, <1>o, <2>1 DEF Moves
  <2>3. Taken' = Taken /\ Taken >= 1
    BY <1>0, <1>t, <2>1, <2>2, TakenSteps
  <2>4. TakeMessage /\ UNCHANGED <<have_work_, poster>>
    BY <1>7 DEF PeekReplacement
  <2>5. QED
    BY <2>3, <2>4 DEF WorkPeeked
<1>8. CASE DispatchReplacement
  <2>1. PICK f \in Frames :
           /\ Top.pc = "clear" /\ f.pc = "work"
           /\ \/ Top.msg = "none" /\ Moves(f)
              \/ Top.msg # "none" /\ CallsOn(f, Called(Top.msg))
    BY <1>0, <1>8, DispatchReplacementIs
  <2>2. stack # <<>> /\ TakenBy(Top) = 1 /\ TakenBy(f) = 0 /\ Taken >= 1
    BY <1>t, <1>o, <2>1 DEF Moves, CallsOn
  <2>3. UNCHANGED poster
    BY <1>8 DEF DispatchReplacement
  <2>4. CASE Top.msg = "none"
    <3>1. have_work_' = 0 /\ UNCHANGED messages
      BY <1>8, <2>4 DEF DispatchReplacement
    <3>2. Taken' = Taken - 1
      BY <1>0, <1>t, <2>1, <2>2, <2>4, TakenSteps
    <3>3. QED
      BY <2>2, <2>3, <3>1, <3>2 DEF WorkCleared
  <2>5. CASE Top.msg # "none"
    <3>1. have_work_' = 1 /\ messages' = Append(messages, "work")
      BY <1>8, <2>5 DEF DispatchReplacement
    <3>2. Top.msg # "work"
      <4>1. Last(stack) \in ProperFrames
        BY <2>2, FrontElements DEF FramesInv
      <4>2. QED
        BY <2>1, <4>1 DEF ProperFrames, Top
    <3>3. TakenBy(Called(Top.msg)) = 0
      BY <1>o, <3>2
    <3>4. Taken' = Taken - TakenBy(Top) + TakenBy(f) + TakenBy(Called(Top.msg))
      BY <1>0, <2>1, <2>5, TakenSteps
    <3>5. Taken' = Taken - 1
      BY <1>t, <2>2, <3>3, <3>4
    <3>6. QED
      BY <2>2, <2>3, <3>1, <3>5 DEF WorkRepeated
  <2>6. QED
    BY <2>4, <2>5
<1>9. CASE DoWorkRun
  <2>1. PICK f \in Frames :
           /\ Top.pc = "work" /\ f.pc = "worked" /\ Head(work_queue_) \in PendingTasks
           /\ CallsOn(f, Body(Head(work_queue_).id))
    BY <1>0, <1>9, DoWorkRunIs
  <2>2. TakenBy(Body(Head(work_queue_).id)) = 0
    BY <1>o, <2>1 DEF PendingTasks, Plain
  <2>3. stack # <<>> /\ TakenBy(Top) = 0 /\ TakenBy(f) = 0
    BY <1>t, <1>o, <2>1 DEF CallsOn
  <2>4. Taken' = Taken - TakenBy(Top) + TakenBy(f) + TakenBy(Body(Head(work_queue_).id))
    BY <1>0, <2>1, TakenSteps
  <2>5. UNCHANGED Handshake
    BY <1>9 DEF DoWorkRun, Handshake, pump
  <2>6. QED
    BY <1>t, <2>2, <2>3, <2>4, <2>5 DEF WorkStays
<1>10. CASE DoDelayedWorkRun
  <2>1. PICK f \in Frames :
           /\ Top.pc \in {"worked", "fire"} /\ f.pc = "delayed"
           /\ Head(delayed_work_queue_) \in DelayedTasks
           /\ CallsOn(f, Body(Head(delayed_work_queue_).id))
    BY <1>0, <1>10, DoDelayedWorkRunIs
  <2>2. TakenBy(Body(Head(delayed_work_queue_).id)) = 0
    BY <1>o, <2>1 DEF DelayedTasks, PendingTasks, Plain
  <2>3. stack # <<>> /\ TakenBy(Top) = 0 /\ TakenBy(f) = 0
    BY <1>t, <1>o, <2>1 DEF CallsOn
  <2>4. Taken' = Taken - TakenBy(Top) + TakenBy(f) + TakenBy(Body(Head(delayed_work_queue_).id))
    BY <1>0, <2>1, TakenSteps
  <2>5. UNCHANGED Handshake
    BY <1>10 DEF DoDelayedWorkRun, Handshake
  <2>6. QED
    BY <1>t, <2>2, <2>3, <2>4, <2>5 DEF WorkStays
<1>11. CASE TaskRuns
  <2>1. PICK f \in Frames : /\ stack # <<>> /\ Top.pc = "begin" /\ f.pc = "in"
                            /\ stack' = With(stack, f)
    BY <1>0, <1>11, TaskRunsIs
  <2>2. /\ Taken = Count(Front(stack), Taking) + TakenBy(Top)
        /\ Taken' = Count(Front(stack), Taking) + TakenBy(f)
        /\ Count(Front(stack), Taking) \in Nat
    BY <1>0, <2>1, CountWith DEF Taken, TakenBy, Top, StackType, StackOK
  <2>3. TakenBy(Top) = 0 /\ TakenBy(f) = 0
    BY <1>t, <1>o, <2>1
  <2>4. Taken' = Taken
    BY <2>2, <2>3
  <2>5. (ScheduleWork \/ UNCHANGED <<have_work_, messages>>) /\ UNCHANGED poster
    BY <1>11 DEF TaskRuns, PostsScheduledTask, AddToIncomingQueue, PumpRest
  <2>6. QED
    BY <2>4, <2>5 DEF WorkStays, WorkScheduled, Handshake
<1>12. CASE Return
  <2>1. /\ stack # <<>> /\ stack' = Front(stack)
        /\ WorkOutsideRun => Top.pc = "replace"
        /\ ~WorkOutsideRun => Top.pc \notin {"replace", "clear"}
    BY <1>0, <1>12, ReturnIs
  <2>2. Taken' = Taken - TakenBy(Top)
    BY <1>0, <2>1, TakenSteps
  <2>3. CASE WorkOutsideRun
    <3>1. have_work_' = 0 /\ UNCHANGED <<messages, poster>>
      BY <2>3 DEF WorkOutsideRun
    <3>2. TakenBy(Top) = 1 /\ Taken >= 1
      BY <1>t, <1>o, <2>1, <2>3
    <3>3. QED
      BY <2>2, <3>1, <3>2 DEF WorkCleared
  <2>4. CASE ~WorkOutsideRun
    <3>1. TakenBy(Top) = 0
      BY <1>t, <1>o, <2>1, <2>4
    <3>2. Taken' = Taken
      BY <1>t, <2>2, <3>1
    <3>3. (ScheduleWork \/ UNCHANGED <<have_work_, messages>>) /\ UNCHANGED poster
      BY <1>12, <2>4 DEF Return, WorkMessageHandled, KillTimer, TimerMessageHandled,
                         RunEnds, ModalLoopEnds, BodyReturns, pump
    <3>4. QED
      BY <3>2, <3>3 DEF WorkStays, WorkScheduled, Handshake
  <2>5. QED
    BY <2>3, <2>4
<1>13. CASE Open
  <2>1. PICK g \in Frames : stack' = Append(stack, g) /\ g.pc \in {"next", "pump"}
    BY <1>0, <1>13, OpenIs
  <2>2. Taken' = Taken + TakenBy(g)
    BY <1>0, <2>1, TakenSteps
  <2>3. Taken' = Taken
    BY <1>t, <1>o, <2>1, <2>2
  <2>4. (ScheduleWork \/ UNCHANGED <<have_work_, messages>>) /\ UNCHANGED poster
    BY <1>13 DEF Open, RunBegins, ModalLoopBegins, AllowNestableTasks
  <2>5. QED
    BY <2>3, <2>4 DEF WorkStays, WorkScheduled, Handshake
<1>14. CASE QuitsNow
  <2>1. PICK k \in DOMAIN stack, f \in Frames :
          Marks(stack, k, f) /\ stack' = [stack EXCEPT ![k] = f]
    BY <1>0, <1>14, QuitsNowIs
  <2>2. stack[k] \in Frames /\ stack \in Seq(Frames)
    BY <1>0 DEF StackType, StackOK
  <2>3. f \in Taking <=> stack[k] \in Taking
    BY <2>1, <2>2 DEF Marks, Taking
  <2>4. Count(stack', Taking) = Count(stack, Taking)
    <3>1. /\ stack' \in Seq(Frames) /\ Len(stack') = Len(stack) /\ stack'[k] = f
          /\ \A i \in DOMAIN stack : i # k => stack'[i] = stack[i]
      BY <2>1, <2>2, MarkedIs
    <3>2. \A i \in DOMAIN stack : stack'[i] \in Taking <=> stack[i] \in Taking
      BY <2>3, <3>1
    <3>3. QED
      BY <2>2, <3>1, <3>2, CountSame
  <2>7. Taken' = Taken
    BY <2>4 DEF Taken
  <2>5. UNCHANGED Handshake
    BY <1>14 DEF QuitsNow, Handshake, pump
  <2>6. QED
    BY <2>5, <2>7 DEF WorkStays
<1>15. QED
  BY <1>1, <1>2, <1>3, <1>4, <1>5, <1>6, <1>7, <1>8, <1>9, <1>10, <1>11, <1>12, <1>13, <1>14
     DEF Next, Pump, Client, Environment, DoRunLoop, DoWork, DoDelayedWork,
         HandleWorkMessage, HandleTimerMessage, Return, Open

Mail == Count(messages, {"work"})
Posting == {p \in Posters : poster[p] = "post"}

WorkInv == Mail + Cardinality(Posting) + Taken = have_work_

\* What each part of the sum is.
LEMMA WorkParts ==
  ASSUME TypeInv
  PROVE  /\ Mail \in Nat /\ Taken \in Nat
         /\ IsFiniteSet(Posting) /\ Cardinality(Posting) \in Nat
         /\ messages # <<>> => Mail = Count(Tail(messages), {"work"}) + One(Head(messages), {"work"})
         /\ Count(Tail(messages), {"work"}) \in Nat \/ messages = <<>>
         /\ Count(Append(messages, "work"), {"work"}) = Mail + 1
         /\ Count(Append(messages, "other"), {"work"}) = Mail
<1>0. messages \in Seq({"work", "other"}) /\ stack \in Seq(Frames)
  BY DEF TypeInv, PumpType, StackType, StackOK
<1>1. Mail \in Nat /\ Taken \in Nat
  BY <1>0, PositionsFinite DEF Mail, Taken
<1>2. IsFiniteSet(Posting)
  BY PumpAssumption, FS_Subset DEF Posting
<1>3. Cardinality(Posting) \in Nat
  BY <1>2, FS_CardinalityType
<1>4. ASSUME messages # <<>>
      PROVE  /\ Mail = Count(Tail(messages), {"work"}) + One(Head(messages), {"work"})
             /\ Count(Tail(messages), {"work"}) \in Nat
  <2>1. Tail(messages) \in Seq({"work", "other"})
    BY <1>0, <1>4
  <2>2. Count(Tail(messages), {"work"}) \in Nat
    BY <2>1, PositionsFinite
  <2>3. QED
    BY <1>0, <1>4, <2>2, CountTail DEF Mail
<1>5. Count(Append(messages, "work"), {"work"}) = Mail + One("work", {"work"})
  BY <1>0, CountAppend DEF Mail
<1>6. Count(Append(messages, "other"), {"work"}) = Mail + One("other", {"work"})
  BY <1>0, CountAppend DEF Mail
<1>7. One("work", {"work"}) = 1 /\ One("other", {"work"}) = 0
  BY DEF One
<1>8. QED
  BY <1>1, <1>2, <1>3, <1>4, <1>5, <1>6, <1>7

\* Taking the next message takes a kMsgHaveWork or leaves them all.
LEMMA MailTaken ==
  ASSUME TypeInv, TakeMessage
  PROVE  Mail = Mail' + IF NextMessage = "work" THEN 1 ELSE 0
<1>0. PumpType
  BY DEF TypeInv
<1>1. CASE messages = <<>>
  <2>1. messages' = messages /\ NextMessage # "work"
    BY <1>0, <1>1, NextMessageIs DEF TakeMessage
  <2>2. Mail' = Mail
    BY <2>1 DEF Mail
  <2>3. QED
    BY <2>1, <2>2, WorkParts
<1>2. CASE messages # <<>>
  <2>1. messages' = Tail(messages)
    BY <1>2 DEF TakeMessage
  <2>2. Mail' = Count(Tail(messages), {"work"})
    BY <2>1 DEF Mail
  <2>3. NextMessage = "work" <=> Head(messages) = "work"
    BY <1>0, <1>2, NextMessageIs
  <2>4. One(Head(messages), {"work"}) = IF NextMessage = "work" THEN 1 ELSE 0
    BY <2>3 DEF One
  <2>5. QED
    BY <1>2, <2>2, <2>4, WorkParts
<1>3. QED
  BY <1>1, <1>2

LEMMA WorkStep ==
  ASSUME TypeInv, FramesInv, WorkInv, Next
  PROVE  WorkInv'
<1>0. /\ Mail \in Nat /\ Taken \in Nat
      /\ IsFiniteSet(Posting) /\ Cardinality(Posting) \in Nat
      /\ have_work_ \in {0, 1}
      /\ Mail + Cardinality(Posting) + Taken = have_work_
  BY WorkParts DEF TypeInv, PumpType, WorkInv
<1>p. UNCHANGED poster => Posting' = Posting
  BY DEF Posting
<1>m. UNCHANGED messages => Mail' = Mail
  BY DEF Mail
<1>a. messages' = Append(messages, "work") => Mail' = Mail + 1
  BY WorkParts DEF Mail
<1>1. CASE WorkStays
  BY <1>0, <1>p, <1>m, <1>1 DEF WorkStays, Handshake, WorkInv
<1>2. CASE WorkScheduled
  <2>1. CASE have_work_ = 0
    <3>1. Mail' = Mail + 1 /\ have_work_' = 1 /\ Posting' = Posting /\ Taken' = Taken
      BY <1>p, <1>a, <1>2, <2>1 DEF WorkScheduled, ScheduleWork
    <3>2. QED
      BY <1>0, <2>1, <3>1 DEF WorkInv
  <2>2. CASE have_work_ = 1
    <3>1. Mail' = Mail /\ have_work_' = 1 /\ Posting' = Posting /\ Taken' = Taken
      BY <1>p, <1>m, <1>2, <2>2 DEF WorkScheduled, ScheduleWork
    <3>2. QED
      BY <1>0, <2>2, <3>1 DEF WorkInv
  <2>3. QED
    BY <1>0, <2>1, <2>2
<1>3. CASE WorkTaken
  <2>1. /\ Mail = Mail' + IF NextMessage = "work" THEN 1 ELSE 0
        /\ Taken' = Taken + IF NextMessage = "work" THEN 1 ELSE 0
        /\ have_work_' = have_work_ /\ Posting' = Posting
    BY <1>p, <1>3, MailTaken DEF WorkTaken
  <2>2. Mail' \in Nat
    BY <1>3, WorkParts DEF WorkTaken, TakeMessage, Mail
  <2>3. QED
    BY <1>0, <2>1, <2>2 DEF WorkInv
<1>4. CASE WorkPeeked
  <2>1. /\ Mail = Mail' + IF NextMessage = "work" THEN 1 ELSE 0
        /\ Taken' = Taken /\ Taken >= 1
        /\ have_work_' = have_work_ /\ Posting' = Posting
    BY <1>p, <1>4, MailTaken DEF WorkPeeked
  <2>2. Mail' \in Nat
    BY <1>4, WorkParts DEF WorkPeeked, TakeMessage, Mail
  <2>3. Mail = 0
    <3>1. Taken >= 1
      BY <2>1
    <3>2. QED
      BY <1>0, <3>1
  <2>4. QED
    BY <1>0, <2>1, <2>2, <2>3 DEF WorkInv
<1>5. CASE WorkCleared
  BY <1>0, <1>p, <1>m, <1>5 DEF WorkCleared, WorkInv
<1>6. CASE WorkRepeated
  BY <1>0, <1>p, <1>a, <1>6 DEF WorkRepeated, WorkInv
<1>7. CASE MessageArrives /\ Taken' = Taken
  <2>1. Mail' = Mail
    BY <1>7, WorkParts DEF MessageArrives, Mail
  <2>2. QED
    BY <1>0, <1>p, <1>7, <2>1 DEF MessageArrives, WorkInv
<1>8. ASSUME NEW p \in Posters, Poster(p), Taken' = Taken
      PROVE  WorkInv'
  <2>0. poster \in [Posters -> {"idle", "exchange", "post"}]
    BY DEF TypeInv, PumpType
  <2>1. CASE PosterPushes(p)
    <3>1. Posting' = Posting
      BY <2>0, <2>1 DEF PosterPushes, Posting
    <3>2. QED
      BY <1>0, <1>m, <1>8, <2>1, <3>1 DEF PosterPushes, WorkInv, pump
  <2>2. CASE PosterExchanges(p) /\ have_work_ = 0
    <3>1. Posting' = Posting \cup {p} /\ p \notin Posting
      BY <2>0, <2>2 DEF PosterExchanges, Posting
    <3>2. Cardinality(Posting') = Cardinality(Posting) + 1
      BY <1>0, <3>1, FS_AddElement
    <3>3. QED
      BY <1>0, <1>m, <1>8, <2>2, <3>2 DEF PosterExchanges, WorkInv
  <2>3. CASE PosterExchanges(p) /\ have_work_ = 1
    <3>1. Posting' = Posting
      BY <2>0, <2>3 DEF PosterExchanges, Posting
    <3>2. QED
      BY <1>0, <1>m, <1>8, <2>3, <3>1 DEF PosterExchanges, WorkInv
  <2>4. CASE PosterPosts(p)
    <3>1. Posting' = Posting \ {p} /\ p \in Posting
      BY <2>0, <2>4 DEF PosterPosts, Posting
    <3>2. Cardinality(Posting') = Cardinality(Posting) - 1
      BY <1>0, <3>1, FS_RemoveElement
    <3>3. QED
      BY <1>0, <1>a, <1>8, <2>4, <3>2 DEF PosterPosts, WorkInv
  <2>5. QED
    BY <1>0, <1>8, <2>1, <2>2, <2>3, <2>4 DEF Poster
<1>9. QED
  BY <1>1, <1>2, <1>3, <1>4, <1>5, <1>6, <1>7, <1>8, WorkSteps DEF WorkByOthers

\* The ways in which a step changes the stack again, by the frames it leaves.
TopMoves ==
  /\ stack # <<>>
  /\ \E f \in Frames : /\ SameCall(Top, f) /\ stack' = With(stack, f)
                       /\ f.pc # "clear" \/ (PeekReplacement /\ f.msg = NextMessage)
                       /\ \/ f.task = Top.task /\ Top.pc # "begin"
                          \/ f.task = 0 /\ TaskRuns

TopCalls ==
  /\ stack # <<>>
  /\ \E f, g \in Frames : /\ SameCall(Top, f) /\ stack' = Append(With(stack, f), g)
                          /\ f.pc # "clear" /\ g.pc # "clear"
                          /\ f.kind = "run" => f.more /\ f.pc # "wait"
                          /\ f.task = Top.task /\ Top.pc # "begin"
                          /\ g.task # 0 => /\ g.pc = "begin"
                                           /\ DoWorkRun \/ DoDelayedWorkRun

BodyOpens ==
  /\ stack # <<>> => Top.kind = "body"
  /\ \E g \in Frames : stack' = Append(stack, g) /\ g.pc \in {"next", "pump"} /\ g.task = 0

TopReturns == stack # <<>> /\ stack' = Front(stack) /\ Top.pc # "begin"

LowerQuits ==
  \E k \in DOMAIN stack : \E f \in Frames :
    /\ Marks(stack, k, f) /\ stack' = [stack EXCEPT ![k] = f]
    /\ Top.kind = "body" /\ k # Len(stack)

LEMMA StackChanges ==
  ASSUME TypeInv, Next
  PROVE  UNCHANGED stack \/ TopMoves \/ TopCalls \/ BodyOpens \/ TopReturns \/ LowerQuits
<1>0. StackType /\ PumpType /\ QueuesType /\ nestable_tasks_allowed_ \in BOOLEAN
  BY DEF TypeInv
<1>1. CASE \/ ReloadWorkQueue \/ DoWorkDelayed \/ (\E p \in Posters : Poster(p))
           \/ MessageArrives \/ Tick \/ UserCalls
  BY <1>1 DEF ReloadWorkQueue, DoWorkDelayed, Poster, PosterPushes, PosterExchanges,
              PosterPosts, MessageArrives, Tick, UserCalls
<1>2. CASE \/ DoWorkNothing \/ DoDelayedWorkNothing \/ DoDelayedWorkNotDue
           \/ (KillTimer /\ Running) \/ DelayedWorkDone \/ WaitForWork
  <2>1. \E f \in Frames : Moves(f) /\ f.pc # "clear" /\ Top.pc # "begin"
    BY <1>0, <1>2, GoesIs DEF DoWorkGoes, DoDelayedGoes
  <2>2. QED
    BY <2>1 DEF Moves, TopMoves
<1>3. ASSUME NEW f \in Frames, NEW g, CallsOn(f, g), f.pc # "clear", g.pc # "clear",
             f.kind = "run" => f.more /\ f.pc # "wait",
             Top.pc # "begin",
             g.task # 0 => g.pc = "begin" /\ (DoWorkRun \/ DoDelayedWorkRun)
      PROVE  TopCalls
  BY <1>3 DEF CallsOn, TopCalls
<1>4. CASE ProcessNextWindowsMessage
  <2>1. PICK f \in Frames :
           /\ f.pc \in {"work", "replace"} /\ Top.pc = "next"
           /\ \/ Moves(f)
              \/ f.more /\ CallsOn(f, Called(NextMessage))
    BY <1>0, <1>4, ProcessNextIs
  <2>2. CASE Moves(f)
    BY <2>1, <2>2 DEF Moves, TopMoves
  <2>3. CASE f.more /\ CallsOn(f, Called(NextMessage))
    <3>1. Called(NextMessage).pc # "clear" /\ Called(NextMessage).task = 0
      BY CalledIs
    <3>2. QED
      BY <1>3, <2>1, <2>3, <3>1
  <2>4. QED
    BY <2>1, <2>2, <2>3
<1>5. CASE PeekReplacement
  BY <1>0, <1>5, PeekReplacementIs DEF Moves, TopMoves
<1>6. CASE DispatchReplacement
  <2>1. PICK f \in Frames :
           /\ f.pc = "work" /\ Top.pc = "clear" /\ f.more = (Top.kind = "run" /\ Top.msg # "none")
           /\ \/ Moves(f)
              \/ Top.msg # "none" /\ CallsOn(f, Called(Top.msg))
    BY <1>0, <1>6, DispatchReplacementIs
  <2>2. CASE Moves(f)
    BY <2>1, <2>2 DEF Moves, TopMoves
  <2>3. CASE Top.msg # "none" /\ CallsOn(f, Called(Top.msg))
    <3>1. Called(Top.msg).pc # "clear" /\ Called(Top.msg).task = 0
      BY CalledIs
    <3>2. f.kind = "run" => f.more /\ f.pc # "wait"
      BY <2>1, <2>3 DEF CallsOn, SameCall
    <3>3. QED
      BY <1>3, <2>1, <2>3, <3>1, <3>2
  <2>4. QED
    BY <2>1, <2>2, <2>3
<1>7. CASE ModalLoopDispatches
  <2>1. /\ Top.kind = "native" /\ Top.pc = "pump" /\ Top \in Frames
        /\ CallsOn(Top, Called(NextMessage))
    BY <1>0, <1>7, ModalLoopDispatchesIs
  <2>2. Called(NextMessage).pc # "clear" /\ Called(NextMessage).task = 0
    BY CalledIs
  <2>3. QED
    BY <1>3, <2>1, <2>2
<1>8. CASE DoWorkRun \/ DoDelayedWorkRun
  <2>1. \A task \in PendingTasks : task.id \in TaskIds \cup {0}
    BY DEF PendingTasks, Plain
  <2>2. PICK f \in Frames, id \in TaskIds \cup {0} :
          /\ f.pc \in {"worked", "delayed"} /\ f.more /\ CallsOn(f, Body(id))
          /\ Top.pc # "begin"
    BY <1>0, <1>8, <2>1, DoWorkRunIs, DoDelayedWorkRunIs DEF DelayedTasks
  <2>3. Body(id).pc # "clear" /\ (Body(id).task # 0 => Body(id).pc = "begin")
    BY BodyIs
  <2>4. QED
    BY <1>3, <1>8, <2>2, <2>3
<1>9. CASE TaskRuns
  BY <1>0, <1>9, TaskRunsIs DEF TopMoves
<1>10. CASE Return
  BY <1>0, <1>10, ReturnIs DEF TopReturns
<1>11. CASE Open
  <2>1. \E g \in Frames : stack' = Append(stack, g) /\ g.pc \in {"next", "pump"} /\ g.task = 0
    BY <1>0, <1>11, OpenIs
  <2>2. stack # <<>> => Top.kind = "body"
    BY <1>11 DEF Open, RunBegins, ModalLoopBegins, InBody, In
  <2>3. QED
    BY <2>1, <2>2 DEF BodyOpens
<1>12. CASE QuitsNow
  BY <1>0, <1>12, QuitsNowIs DEF LowerQuits, InBody, In
<1>13. QED
  BY <1>1, <1>2, <1>4, <1>5, <1>6, <1>7, <1>8, <1>9, <1>10, <1>11, <1>12
     DEF Next, Pump, Client, Environment, DoRunLoop, DoWork, DoDelayedWork,
         HandleWorkMessage, HandleTimerMessage, Return, Open

\* While a call has taken kMsgHaveWork, none is in the queue.
LEMMA PeekedIsNotWork ==
  ASSUME TypeInv, WorkInv, PeekReplacement
  PROVE  NextMessage # "work"
<1>1. StackType /\ PumpType
  BY DEF TypeInv
<1>2. Taken >= 1
  BY <1>1, TakenSteps DEF PeekReplacement, InRun, In
<1>3. Mail \in Nat /\ Taken \in Nat /\ Cardinality(Posting) \in Nat /\ have_work_ \in {0, 1}
  BY WorkParts DEF TypeInv, PumpType
<1>4. Mail = 0
  BY <1>2, <1>3 DEF WorkInv
<1>5. TakeMessage
  BY DEF PeekReplacement
<1>6. Mail = Mail' + IF NextMessage = "work" THEN 1 ELSE 0
  BY <1>5, MailTaken
<1>7. PICK n \in Nat : n = Mail'
  BY <1>5, WorkParts DEF TakeMessage, Mail
<1>8. NextMessage = "work" => 0 = n + 1
  BY <1>4, <1>6, <1>7
<1>9. 0 # n + 1
  OBVIOUS
<1>10. QED
  BY <1>8, <1>9

LEMMA FramesStep ==
  ASSUME TypeInv, WorkInv, FramesInv, Next
  PROVE  FramesInv'
<1>0. /\ stack \in Seq(Frames) /\ stack \in Seq(ProperFrames)
      /\ ProperFrames \subseteq Frames
  BY DEF TypeInv, StackType, StackOK, FramesInv, ProperFrames
<1>t. ASSUME stack # <<>>, Top.pc # "begin"
      PROVE  Top.task = 0
  <2>1. Last(stack) \in ProperFrames
    BY <1>0, <1>t, FrontElements
  <2>2. QED
    BY <1>t, <2>1 DEF Top, ProperFrames
<1>1. SUFFICES stack' \in Seq(ProperFrames)
  BY DEF FramesInv
<1>2. ASSUME stack # <<>>, NEW f \in ProperFrames
      PROVE  With(stack, f) \in Seq(ProperFrames)
  BY <1>0, <1>2, FrontElements, AppendElements DEF With
<1>3. CASE TopMoves
  <2>1. PICK f \in Frames : /\ stack' = With(stack, f)
                            /\ f.pc # "clear" \/ (PeekReplacement /\ f.msg = NextMessage)
                            /\ f.task = 0
    BY <1>3, <1>t DEF TopMoves
  <2>2. f \in ProperFrames
    BY <2>1, PeekedIsNotWork DEF ProperFrames
  <2>3. QED
    BY <1>2, <1>3, <2>1, <2>2 DEF TopMoves
<1>4. CASE TopCalls
  <2>1. PICK f \in Frames, g \in Frames :
          /\ stack' = Append(With(stack, f), g) /\ f.pc # "clear" /\ g.pc # "clear"
          /\ f.task = 0 /\ (g.task # 0 => g.pc = "begin")
    BY <1>4, <1>t DEF TopCalls
  <2>2. f \in ProperFrames /\ g \in ProperFrames
    BY <2>1 DEF ProperFrames
  <2>3. With(stack, f) \in Seq(ProperFrames)
    BY <1>2, <1>4, <2>2 DEF TopCalls
  <2>4. QED
    BY <2>1, <2>2, <2>3, AppendElements
<1>5. CASE BodyOpens
  <2>1. PICK g \in Frames : stack' = Append(stack, g) /\ g.pc # "clear" /\ g.task = 0
    BY <1>5 DEF BodyOpens
  <2>2. g \in ProperFrames
    BY <2>1 DEF ProperFrames
  <2>3. QED
    BY <1>0, <2>1, <2>2, AppendElements
<1>6. CASE TopReturns
  BY <1>0, <1>6, FrontElements DEF TopReturns
<1>7. CASE LowerQuits
  <2>1. PICK k \in DOMAIN stack, f \in Frames :
          Marks(stack, k, f) /\ stack' = [stack EXCEPT ![k] = f]
    BY <1>7 DEF LowerQuits
  <2>2. f \in ProperFrames
    BY <1>0, <2>1 DEF Marks, ProperFrames
  <2>3. QED
    BY <1>0, <2>1, <2>2
<1>8. QED
  BY <1>0, <1>3, <1>4, <1>5, <1>6, <1>7, StackChanges

\* The steps that change the two times.
TimeSteps == \/ DoWorkDelayed \/ DoDelayedWorkNothing \/ DoDelayedWorkNotDue \/ DoDelayedWorkRun
             \/ KillTimer \/ TimerMessageHandled \/ DelayedWorkDone

LEMMA OtherStepsLeaveTimes ==
  ASSUME Next, ~TimeSteps
  PROVE  UNCHANGED <<delayed_work_time_, wm_timer>>
<1>1. CASE UserCalls \/ TaskRuns
  BY <1>1 DEF UserCalls, TaskRuns, PumpRest
<1>2. CASE Pump \/ Client \/ Environment
  BY <1>2 DEF TimeSteps, Pump, Client, Environment, pump,
         DoRunLoop, DoWork, DoDelayedWork, HandleWorkMessage, HandleTimerMessage,
         ProcessNextWindowsMessage, PeekReplacement, DispatchReplacement, WorkOutsideRun,
         DoWorkNothing, ReloadWorkQueue, DoWorkRun, WorkMessageHandled,
         WaitForWork, RunEnds, RunBegins,
         ModalLoopBegins, ModalLoopDispatches, ModalLoopEnds, QuitsNow, BodyReturns,
         MessageArrives, Tick, Poster, PosterPushes, PosterExchanges, PosterPosts
<1>3. QED
  BY <1>1, <1>2 DEF Next

LEMMA TimesTypeStep ==
  ASSUME TypeInv, Next
  PROVE  /\ delayed_work_time_' \in {Null} \cup 0 .. 2 * MaxTime
         /\ wm_timer' \in {Null} \cup 0 .. 2 * MaxTime + UserTimerMinimum
<1>0. /\ delayed_work_time_ \in {Null} \cup 0 .. 2 * MaxTime
      /\ wm_timer \in {Null} \cup 0 .. 2 * MaxTime + UserTimerMinimum
      /\ now \in 0 .. MaxTime /\ MaxTime \in Nat /\ UserTimerMinimum \in Nat
      /\ QueuesType /\ delayed_work_queue_ \in Seq(DelayedTasks)
  BY MaxTimeIs DEF TypeInv, PumpType, TimerType, QueuesType
<1>1. \A task \in DelayedTasks : task.time \in 1 .. 2 * MaxTime
  BY DEF DelayedTasks, PendingTasks, Plain, Times
<1>2. ASSUME NEW time \in 0 .. 2 * MaxTime, SetTimer(time)
      PROVE  wm_timer' \in {Null} \cup 0 .. 2 * MaxTime + UserTimerMinimum
  BY <1>0, <1>2 DEF SetTimer
<1>3. ASSUME NEW time \in 0 .. 2 * MaxTime, ScheduleDelayedWork(time)
      PROVE  /\ delayed_work_time_' \in {Null} \cup 0 .. 2 * MaxTime
             /\ wm_timer' \in {Null} \cup 0 .. 2 * MaxTime + UserTimerMinimum
  BY <1>2, <1>3 DEF ScheduleDelayedWork
<1>4. CASE DoWorkDelayed
  <2>1. Head(work_queue_) \in DelayedTasks
    BY <1>0, <1>4, DoWorkDelayedIs
  <2>2. PICK time \in 0 .. 2 * MaxTime : time = Head(work_queue_).time
    BY <1>0, <1>1, <2>1
  <2>3. \/ ScheduleDelayedWork(time)
        \/ UNCHANGED <<delayed_work_time_, wm_timer>>
    BY <1>4, <2>2 DEF DoWorkDelayed
  <2>4. QED
    BY <1>0, <1>3, <2>3
<1>5. CASE DoDelayedWorkNothing
  BY <1>0, <1>5 DEF DoDelayedWorkNothing
<1>6. CASE DoDelayedWorkNotDue
  <2>1. Head(delayed_work_queue_) \in DelayedTasks
    BY <1>0, <1>6, TailElements DEF DoDelayedWorkNotDue
  <2>2. QED
    BY <1>0, <1>1, <1>6, <2>1 DEF DoDelayedWorkNotDue
<1>7. CASE DoDelayedWorkRun
  <2>1. /\ UNCHANGED wm_timer
        /\ delayed_work_queue_ # <<>>
        /\ delayed_work_time_' = IF Len(delayed_work_queue_) = 1 THEN delayed_work_time_
                                 ELSE delayed_work_queue_[2].time
    BY <1>7 DEF DoDelayedWorkRun
  <2>2. CASE Len(delayed_work_queue_) = 1
    BY <1>0, <2>1, <2>2
  <2>3. CASE Len(delayed_work_queue_) # 1
    <3>0. Len(delayed_work_queue_) \in Nat /\ Len(delayed_work_queue_) # 0
      BY <1>0, <2>1, EmptySeq
    <3>1. delayed_work_queue_[2] \in DelayedTasks
      <4>0. PICK n \in Nat : n = Len(delayed_work_queue_) /\ n # 0 /\ n # 1
        BY <2>3, <3>0
      <4>1. 2 \in 1 .. n
        BY <4>0
      <4>2. QED
        BY <1>0, <4>0, <4>1, ElementOfSeq
    <3>2. QED
      BY <1>0, <1>1, <2>1, <2>3, <3>1
  <2>4. QED
    BY <2>2, <2>3
<1>8. CASE KillTimer
  BY <1>0, <1>8 DEF KillTimer
<1>9. CASE TimerMessageHandled
  <2>1. CASE delayed_work_time_ # Null
    <3>1. PICK time \in 0 .. 2 * MaxTime : time = delayed_work_time_
      BY <1>0, <2>1
    <3>2. ScheduleDelayedWork(time)
      BY <1>9, <2>1, <3>1 DEF TimerMessageHandled
    <3>3. QED
      BY <1>3, <3>2
  <2>2. CASE delayed_work_time_ = Null
    BY <1>0, <1>9, <2>2 DEF TimerMessageHandled
  <2>3. QED
    BY <2>1, <2>2
<1>10. CASE DelayedWorkDone
  BY <1>0, <1>10 DEF DelayedWorkDone
<1>11. CASE ~TimeSteps
  BY <1>0, <1>11, OtherStepsLeaveTimes
<1>12. QED
  BY <1>4, <1>5, <1>6, <1>7, <1>8, <1>9, <1>10, <1>11 DEF TimeSteps

LEMMA PumpTypeStep ==
  ASSUME TypeInv, FramesInv, Next
  PROVE  PumpType'
<1>0. /\ have_work_ \in {0, 1} /\ messages \in Seq({"work", "other"})
      /\ poster \in [Posters -> {"idle", "exchange", "post"}]
  BY DEF TypeInv, PumpType
<1>t. TakeMessage => messages' \in Seq({"work", "other"})
  BY <1>0 DEF TakeMessage
<1>a. /\ Append(messages, "work") \in Seq({"work", "other"})
      /\ Append(messages, "other") \in Seq({"work", "other"})
  BY <1>0
<1>1. /\ have_work_' \in {0, 1} /\ messages' \in Seq({"work", "other"})
      /\ poster' \in [Posters -> {"idle", "exchange", "post"}]
  <2>1. CASE WorkStays \/ WorkCleared
    BY <1>0, <2>1 DEF WorkStays, WorkCleared, Handshake
  <2>2. CASE WorkScheduled \/ WorkRepeated
    BY <1>0, <1>a, <2>2 DEF WorkScheduled, WorkRepeated, ScheduleWork
  <2>3. CASE WorkTaken \/ WorkPeeked
    BY <1>0, <1>t, <2>3 DEF WorkTaken, WorkPeeked
  <2>4. CASE MessageArrives
    BY <1>0, <1>a, <2>4 DEF MessageArrives
  <2>5. ASSUME NEW p \in Posters, Poster(p)
        PROVE  /\ have_work_' \in {0, 1} /\ messages' \in Seq({"work", "other"})
               /\ poster' \in [Posters -> {"idle", "exchange", "post"}]
    BY <1>0, <1>a, <2>5 DEF Poster, PosterPushes, PosterExchanges, PosterPosts, pump
  <2>6. QED
    BY <2>1, <2>2, <2>3, <2>4, <2>5, WorkSteps DEF WorkByOthers
<1>2. QED
  BY <1>1, TimesTypeStep DEF PumpType

LEMMA TypeStep ==
  ASSUME TypeInv, FramesInv, is_running_ => asked = desired_run_time_, Next
  PROVE  TypeInv'
<1>1. TimerType' /\ StackType' /\ PumpType'
  BY TimerTypeStep, StackTypeStep, PumpTypeStep
<1>2. QueuesType'
  BY <1>1, QueuesTypeStep
<1>3. nestable_tasks_allowed_' \in BOOLEAN
  <2>1. /\ nestable_tasks_allowed_ \in BOOLEAN /\ StackType
    BY DEF TypeInv
  <2>2. CASE Return
    <3>1. Top \in Frames
      BY <2>1, <2>2, ReturnIs, StackTop
    <3>2. QED
      BY <2>1, <2>2, ReturnIs
  <2>3. CASE Open
    BY <2>1, <2>3, OpenIs
  <2>4. CASE \/ StackStays \/ StackMoves \/ StackDispatches \/ StackRuns \/ StackQuits
    BY <2>1, <2>4 DEF StackStays, StackMoves, StackDispatches, StackRuns, StackQuits
  <2>5. QED
    BY <2>2, <2>3, <2>4, StackSteps
<1>4. QED
  BY <1>1, <1>2, <1>3 DEF TypeInv

-----------------------------------------------------------------------------
(* Run goes to sleep with its work queue empty, the message for what       *)
(* others post on its way, and the time of the first delayed task known.   *)

\* A Run that has called another call will go on when that returns.
LowerInv ==
  \A i \in DOMAIN stack : stack[i].kind = "run" /\ i # Len(stack) =>
    stack[i].more /\ stack[i].pc # "wait"

LEMMA LowerStep ==
  ASSUME TypeInv, LowerInv, Next
  PROVE  LowerInv'
<1>0. stack \in Seq(Frames) /\ Len(stack) \in Nat /\ DOMAIN stack = 1 .. Len(stack)
  BY DEF TypeInv, StackType, StackOK
<1>1. CASE UNCHANGED stack
  BY <1>1 DEF LowerInv
<1>2. ASSUME stack # <<>>, NEW f \in Frames, NEW new, new = With(stack, f)
      PROVE  /\ new \in Seq(Frames) /\ Len(new) = Len(stack) /\ new[Len(stack)] = f
             /\ \A i \in 1 .. Len(stack) - 1 : new[i] = stack[i]
  BY <1>0, <1>2, WithIs
<1>3. CASE TopMoves
  <2>1. PICK f \in Frames : stack' = With(stack, f)
    BY <1>3 DEF TopMoves
  <2>2. /\ stack' \in Seq(Frames) /\ Len(stack') = Len(stack)
        /\ \A i \in 1 .. Len(stack) - 1 : stack'[i] = stack[i]
    BY <1>2, <1>3, <2>1 DEF TopMoves
  <2>3. QED
    BY <1>0, <2>2 DEF LowerInv
<1>4. CASE TopCalls
  <2>1. PICK f \in Frames, g \in Frames : /\ stack' = Append(With(stack, f), g)
                                          /\ f.kind = "run" => f.more /\ f.pc # "wait"
    BY <1>4 DEF TopCalls
  <2>2. PICK new \in Seq(Frames) :
           /\ new = With(stack, f) /\ Len(new) = Len(stack) /\ new[Len(stack)] = f
           /\ \A i \in 1 .. Len(stack) - 1 : new[i] = stack[i]
    BY <1>2, <1>4 DEF TopCalls
  <2>3. /\ stack' \in Seq(Frames) /\ Len(stack') = Len(stack) + 1
        /\ \A i \in 1 .. Len(stack) : stack'[i] = new[i]
    BY <2>1, <2>2, PushIs
  <2>4. ASSUME NEW i \in 1 .. Len(stack), stack'[i].kind = "run"
        PROVE  stack'[i].more /\ stack'[i].pc # "wait"
    <3>1. CASE i = Len(stack)
      BY <2>1, <2>2, <2>3, <2>4, <3>1
    <3>2. CASE i # Len(stack)
      <4>n. PICK n \in Nat : n = Len(stack)
        BY <1>0
      <4>0. i \in 1 .. n - 1
        BY <3>2, <4>n
      <4>1. stack'[i] = stack[i]
        BY <2>2, <2>3, <4>n, <4>0
      <4>2. QED
        BY <1>0, <2>4, <3>2, <4>1 DEF LowerInv
    <3>3. QED
      BY <3>1, <3>2
  <2>5. \A i \in DOMAIN stack' : i # Len(stack') => i \in 1 .. Len(stack)
    BY <1>0, <2>3
  <2>6. QED
    BY <2>4, <2>5 DEF LowerInv
<1>5. CASE BodyOpens
  <2>1. PICK g \in Frames : stack' = Append(stack, g)
    BY <1>5 DEF BodyOpens
  <2>2. /\ stack' \in Seq(Frames) /\ Len(stack') = Len(stack) + 1
        /\ \A i \in 1 .. Len(stack) : stack'[i] = stack[i]
    BY <1>0, <2>1, PushIs
  <2>3. stack # <<>> => stack[Len(stack)].kind = "body"
    BY <1>5 DEF BodyOpens, Top, Last
  <2>4. \A i \in DOMAIN stack' : i # Len(stack') => i \in 1 .. Len(stack) /\ stack # <<>>
    BY <1>0, <2>2
  <2>5. QED
    BY <1>0, <2>2, <2>3, <2>4 DEF LowerInv
<1>6. CASE TopReturns
  <2>1. /\ Len(stack') = Len(stack) - 1 /\ stack' \in Seq(Frames)
        /\ \A i \in 1 .. Len(stack) - 1 : stack'[i] = stack[i]
    BY <1>0, <1>6, FrontIs DEF TopReturns
  <2>2. QED
    BY <1>0, <2>1 DEF LowerInv
<1>7. CASE LowerQuits
  <2>1. PICK k \in DOMAIN stack, f \in Frames :
          Marks(stack, k, f) /\ stack' = [stack EXCEPT ![k] = f]
    BY <1>7 DEF LowerQuits
  <2>2. /\ stack' \in Seq(Frames) /\ Len(stack') = Len(stack) /\ stack'[k] = f
        /\ \A i \in DOMAIN stack : i # k => stack'[i] = stack[i]
    BY <1>0, <2>1, MarkedIs
  <2>3. \A i \in DOMAIN stack : /\ stack'[i].kind = stack[i].kind
                                /\ stack'[i].more = stack[i].more
                                /\ stack'[i].pc = stack[i].pc
    BY <2>1, <2>2 DEF Marks
  <2>4. DOMAIN stack' = DOMAIN stack
    BY <1>0, <2>2
  <2>5. QED
    BY <2>2, <2>3, <2>4 DEF LowerInv
<1>8. QED
  BY <1>1, <1>3, <1>4, <1>5, <1>6, <1>7, StackChanges

\* Run has found nothing to do, or sleeps.
AtRest == /\ stack # <<>> /\ Top.kind = "run"
          /\ Top.pc = "wait" \/ (Top.pc \in {"worked", "delayed"} /\ ~Top.more)

RestInv ==
  AtRest => /\ ~Top.more /\ work_queue_ = <<>>
            /\ incoming_queue_ # <<>> => WorkSignalled
            /\ Top.pc # "worked" /\ delayed_work_queue_ # <<>> =>
                 delayed_work_time_ = Head(delayed_work_queue_).time

\* The steps after which Run is at rest.
LEMMA RestsAfter ==
  ASSUME TypeInv, LowerInv, Next, AtRest'
  PROVE  \/ Top.kind = "run" /\ DoWorkNothing /\ Top'.pc = "worked" /\ ~Top'.more
         \/ /\ DoDelayedWorkNothing \/ DoDelayedWorkNotDue
            /\ AtRest /\ Top.pc = "worked" /\ ~Top'.more /\ Top'.pc = "delayed"
         \/ DelayedWorkDone /\ AtRest /\ Top.pc = "delayed" /\ ~Top'.more
         \/ Environment /\ UNCHANGED stack
<1>0. /\ StackType /\ PumpType /\ QueuesType /\ nestable_tasks_allowed_ \in BOOLEAN
      /\ stack \in Seq(Frames)
  BY DEF TypeInv, StackType, StackOK
<1>r. /\ stack' # <<>> /\ Top'.kind = "run"
      /\ Top'.pc = "wait" \/ (Top'.pc \in {"worked", "delayed"} /\ ~Top'.more)
      /\ Top' = Last(stack')
  BY DEF AtRest, Top
<1>m. ASSUME NEW f \in Frames, Moves(f)
      PROVE  Top' = f /\ f.kind = Top.kind /\ stack # <<>>
  <2>1. stack # <<>> /\ stack' = With(stack, f) /\ f.kind = Top.kind
    BY <1>m DEF Moves, SameCall
  <2>2. QED
    BY <1>0, <1>r, <2>1, WithIs
<1>c. ASSUME NEW f \in Frames, NEW g, CallsOn(f, g)
      PROVE  Top' = g
  <2>1. stack # <<>> /\ stack' = Append(With(stack, f), g) /\ g \in Frames
    BY <1>c DEF CallsOn
  <2>2. QED
    BY <1>0, <1>r, <2>1, WithIs, PushIs
<1>1. CASE Environment
  BY <1>1 DEF Environment, MessageArrives, Tick, Poster, PosterPushes, PosterExchanges,
              PosterPosts
<1>2. CASE ReloadWorkQueue \/ DoWorkDelayed \/ UserCalls
  <2>1. /\ Top' = Top
        /\ Top.pc = "work" \/ Top.kind = "body"
    BY <1>2 DEF ReloadWorkQueue, DoWorkDelayed, UserCalls, CallsDoWork, InRun, In, InBody, Top
  <2>2. QED
    BY <1>r, <2>1
<1>3. CASE DoWorkNothing
  <2>1. PICK f \in Frames : Moves(f) /\ f.pc = "worked"
    BY <1>0, <1>3, GoesIs
  <2>2. QED
    BY <1>3, <1>r, <1>m, <2>1
<1>4. CASE DoDelayedWorkNothing \/ DoDelayedWorkNotDue
  <2>1. PICK f \in Frames : DoDelayedGoes /\ Moves(f) /\ f.pc = "delayed" /\ f.more = Top.more
    BY <1>0, <1>4, GoesIs
  <2>2. Top.kind = "run" /\ ~Top.more /\ stack # <<>> /\ ~Top'.more /\ Top'.pc = "delayed"
    BY <1>r, <1>m, <2>1
  <2>3. Top.pc = "worked"
    BY <1>4, <2>2 DEF DoDelayedWorkNothing, DoDelayedWorkNotDue, CallsDoDelayedWork, InRun, In
  <2>4. QED
    BY <1>4, <2>2, <2>3 DEF AtRest
<1>5. CASE KillTimer /\ Running
  BY <1>0, <1>5, <1>r, <1>m, GoesIs
<1>6. CASE DelayedWorkDone
  <2>1. PICK f \in Frames : /\ Moves(f) /\ f.pc \in {"quit", "next", "wait"}
                            /\ f.more = Top.more /\ (f.pc = "wait" => ~Top.more)
                            /\ Top.kind = "run" /\ Top.pc = "delayed"
    BY <1>0, <1>6, GoesIs
  <2>2. f.pc = "wait" /\ Top' = f
    BY <1>r, <1>m, <2>1
  <2>3. QED
    BY <1>6, <1>m, <2>1, <2>2 DEF AtRest
<1>7. CASE WaitForWork
  BY <1>0, <1>7, <1>r, <1>m, GoesIs
<1>8. CASE ProcessNextWindowsMessage
  <2>1. PICK f \in Frames :
           /\ f.pc \in {"work", "replace"}
           /\ \/ Moves(f)
              \/ CallsOn(f, Called(NextMessage))
    BY <1>0, <1>8, ProcessNextIs
  <2>2. Called(NextMessage).kind # "run"
    BY CalledIs
  <2>3. QED
    BY <1>r, <1>m, <1>c, <2>1, <2>2
<1>9. CASE PeekReplacement
  BY <1>0, <1>9, <1>r, <1>m, PeekReplacementIs
<1>10. CASE DispatchReplacement
  <2>1. PICK f \in Frames :
           /\ f.pc = "work"
           /\ \/ Moves(f)
              \/ CallsOn(f, Called(Top.msg))
    BY <1>0, <1>10, DispatchReplacementIs
  <2>2. Called(Top.msg).kind # "run"
    BY CalledIs
  <2>3. QED
    BY <1>r, <1>m, <1>c, <2>1, <2>2
<1>11. CASE ModalLoopDispatches
  <2>1. CallsOn(Top, Called(NextMessage)) /\ Top \in Frames
    BY <1>0, <1>11, ModalLoopDispatchesIs
  <2>2. Called(NextMessage).kind # "run"
    BY CalledIs
  <2>3. QED
    BY <1>r, <1>c, <2>1, <2>2
<1>12. CASE DoWorkRun \/ DoDelayedWorkRun
  <2>1. \A task \in PendingTasks : task.id \in TaskIds \cup {0}
    BY DEF PendingTasks, Plain
  <2>2. \E f \in Frames : \E id \in TaskIds \cup {0} : CallsOn(f, Body(id))
    BY <1>0, <1>12, <2>1, DoWorkRunIs, DoDelayedWorkRunIs DEF DelayedTasks
  <2>3. \A id \in TaskIds \cup {0} : Body(id).kind # "run"
    BY BodyIs
  <2>4. QED
    BY <1>r, <1>c, <2>2, <2>3
<1>13. CASE TaskRuns
  <2>1. PICK f \in Frames : stack # <<>> /\ f.kind = "body" /\ stack' = With(stack, f)
    BY <1>0, <1>13, TaskRunsIs DEF SameCall
  <2>2. Top' = f
    BY <1>0, <1>r, <2>1, WithIs
  <2>3. QED
    BY <1>r, <2>1, <2>2
<1>14. CASE Return
  <2>1. stack # <<>> /\ stack' = Front(stack)
    BY <1>0, <1>14, ReturnIs
  <2>2. PICK n \in Nat : n = Len(stack) /\ DOMAIN stack = 1 .. n
    BY <1>0
  <2>3. /\ stack' \in Seq(Frames) /\ Len(stack') = n - 1
        /\ \A i \in 1 .. n - 1 : stack'[i] = stack[i]
    BY <1>0, <2>1, <2>2, FrontIs
  <2>4. Len(stack') # 0
    BY <1>r, <2>3, EmptySeq
  <2>5. Top' = stack[n - 1] /\ n - 1 \in DOMAIN stack /\ n - 1 # n
    BY <1>r, <2>2, <2>3, <2>4 DEF Last
  <2>6. Top'.more /\ Top'.pc # "wait"
    BY <1>r, <2>2, <2>5 DEF LowerInv
  <2>7. QED
    BY <1>r, <2>6
<1>15. CASE Open
  <2>1. PICK g \in Frames : stack' = Append(stack, g) /\ g.pc \in {"next", "pump"}
    BY <1>0, <1>15, OpenIs
  <2>2. Top' = g
    BY <1>0, <1>r, <2>1, PushIs
  <2>3. QED
    BY <1>r, <2>1, <2>2
<1>16. CASE QuitsNow
  <2>1. PICK k \in DOMAIN stack, f \in Frames :
          /\ Marks(stack, k, f) /\ stack' = [stack EXCEPT ![k] = f] /\ k # Len(stack)
          /\ Top.kind = "body"
    BY <1>0, <1>16, QuitsNowIs DEF InBody, In
  <2>2. stack # <<>>
    BY <2>1
  <2>3. /\ Len(stack') = Len(stack)
        /\ \A i \in DOMAIN stack : i # k => stack'[i] = stack[i]
    BY <1>0, <2>1, MarkedIs
  <2>4. Top' = Top
    BY <1>0, <1>r, <2>1, <2>2, <2>3, TopIs DEF Top, Last
  <2>5. QED
    BY <1>r, <2>1, <2>4
<1>17. QED
  BY <1>1, <1>2, <1>3, <1>4, <1>5, <1>6, <1>7, <1>8, <1>9, <1>10, <1>11, <1>12, <1>13,
     <1>14, <1>15, <1>16
     DEF Next, Pump, Client, DoRunLoop, DoWork, DoDelayedWork,
         HandleWorkMessage, HandleTimerMessage, Return, Open

LEMMA RestStep ==
  ASSUME TypeInv, NestInv, WorkInv, LowerInv, RestInv, Next
  PROVE  RestInv'
<1>0. /\ StackType /\ QueuesType /\ have_work_ \in {0, 1}
      /\ poster \in [Posters -> {"idle", "exchange", "post"}]
  BY DEF TypeInv, PumpType
<1>1. SUFFICES ASSUME AtRest'
               PROVE  /\ ~Top'.more /\ work_queue_' = <<>>
                      /\ incoming_queue_' # <<>> => WorkSignalled'
                      /\ Top'.pc # "worked" /\ delayed_work_queue_' # <<>> =>
                           delayed_work_time_' = Head(delayed_work_queue_').time
  BY DEF RestInv
<1>2. CASE Top.kind = "run" /\ DoWorkNothing /\ Top'.pc = "worked" /\ ~Top'.more
  <2>1. stack # <<>>
    BY <1>2 DEF DoWorkNothing, CallsDoWork, InRun, In
  <2>2. nestable_tasks_allowed_
    BY <1>0, <1>2, <2>1, RunAllowed
  <2>3. work_queue_' = <<>> /\ incoming_queue_' = <<>>
    BY <1>2, <2>2 DEF DoWorkNothing, queues
  <2>4. QED
    BY <1>2, <2>3
<1>3. CASE /\ DoDelayedWorkNothing \/ DoDelayedWorkNotDue
           /\ AtRest /\ Top.pc = "worked" /\ ~Top'.more /\ Top'.pc = "delayed"
  <2>1. nestable_tasks_allowed_
    BY <1>0, <1>3, RunAllowed DEF AtRest
  <2>2. UNCHANGED <<work_queue_, incoming_queue_, delayed_work_queue_, have_work_, poster>>
    BY <1>3 DEF DoDelayedWorkNothing, DoDelayedWorkNotDue, queues, pump
  <2>3. work_queue_ = <<>> /\ (incoming_queue_ # <<>> => WorkSignalled)
    BY <1>3 DEF RestInv
  <2>4. WorkSignalled' <=> WorkSignalled
    BY <2>2 DEF WorkSignalled
  <2>5. delayed_work_queue_' # <<>> => delayed_work_time_' = Head(delayed_work_queue_').time
    BY <1>3, <2>1, <2>2 DEF DoDelayedWorkNothing, DoDelayedWorkNotDue
  <2>6. QED
    BY <1>3, <2>2, <2>3, <2>4, <2>5
<1>4. CASE DelayedWorkDone /\ AtRest /\ Top.pc = "delayed" /\ ~Top'.more
  <2>1. UNCHANGED <<work_queue_, incoming_queue_, delayed_work_queue_, have_work_, poster,
                    delayed_work_time_>>
    BY <1>4 DEF DelayedWorkDone, queues
  <2>2. /\ work_queue_ = <<>> /\ (incoming_queue_ # <<>> => WorkSignalled)
        /\ delayed_work_queue_ # <<>> => delayed_work_time_ = Head(delayed_work_queue_).time
    BY <1>4 DEF RestInv
  <2>3. WorkSignalled' <=> WorkSignalled
    BY <2>1 DEF WorkSignalled
  <2>4. QED
    BY <1>4, <2>1, <2>2, <2>3
<1>5. CASE Environment /\ UNCHANGED stack
  <2>1. AtRest /\ Top' = Top
    BY <1>1, <1>5 DEF AtRest, Top
  <2>2. /\ ~Top.more /\ work_queue_ = <<>>
        /\ incoming_queue_ # <<>> => WorkSignalled
        /\ Top.pc # "worked" /\ delayed_work_queue_ # <<>> =>
             delayed_work_time_ = Head(delayed_work_queue_).time
    BY <2>1 DEF RestInv
  <2>3. UNCHANGED <<work_queue_, delayed_work_queue_, delayed_work_time_>>
    BY <1>5 DEF Environment, MessageArrives, Tick, Poster, PosterPushes, PosterExchanges,
                PosterPosts, pump, queues
  <2>4. incoming_queue_' # <<>> => WorkSignalled'
    <3>1. CASE MessageArrives \/ Tick
      <4>1. UNCHANGED <<incoming_queue_, have_work_, poster>>
        BY <3>1 DEF MessageArrives, Tick, pump, queues
      <4>2. QED
        BY <2>2, <4>1 DEF WorkSignalled
    <3>2. ASSUME NEW p \in Posters, PosterPushes(p)
          PROVE  WorkSignalled'
      <4>1. /\ poster[p] = "idle" /\ have_work_' = have_work_
            /\ poster' = [poster EXCEPT ![p] = IF incoming_queue_ = <<>> THEN "exchange" ELSE @]
        BY <3>2 DEF PosterPushes, pump
      <4>2. CASE incoming_queue_ = <<>>
        <5>1. poster'[p] = "exchange"
          BY <1>0, <4>1, <4>2
        <5>2. QED
          BY <5>1 DEF WorkSignalled
      <4>3. CASE incoming_queue_ # <<>>
        <5>1. poster' = poster
          BY <1>0, <4>1, <4>3
        <5>2. QED
          BY <2>2, <4>1, <4>3, <5>1 DEF WorkSignalled
      <4>4. QED
        BY <4>2, <4>3
    <3>3. ASSUME NEW p \in Posters, PosterExchanges(p)
          PROVE  WorkSignalled'
      BY <3>3 DEF PosterExchanges, WorkSignalled
    <3>4. ASSUME NEW p \in Posters, PosterPosts(p)
          PROVE  WorkSignalled'
      <4>1. p \in Posting
        BY <3>4 DEF PosterPosts, Posting
      <4>2. /\ IsFiniteSet(Posting) /\ Cardinality(Posting) \in Nat
            /\ Mail \in Nat /\ Taken \in Nat
        BY WorkParts
      <4>3. Cardinality(Posting) # 0
        BY <4>1, <4>2, FS_EmptySet
      <4>4. have_work_ = 1
        <5>1. \A a, b, c \in Nat : b # 0 => a + b + c # 0
          OBVIOUS
        <5>2. Mail + Cardinality(Posting) + Taken # 0
          BY <4>2, <4>3, <5>1
        <5>3. QED
          BY <1>0, <5>2 DEF WorkInv
      <4>5. QED
        BY <3>4, <4>4 DEF PosterPosts, WorkSignalled
    <3>5. QED
      BY <1>5, <3>1, <3>2, <3>3, <3>4 DEF Environment, Poster
  <2>5. QED
    BY <2>1, <2>2, <2>3, <2>4
<1>6. QED
  BY <1>1, <1>2, <1>3, <1>4, <1>5, RestsAfter

LEMMA RestWakes ==
  ASSUME TypeInv, RestInv
  PROVE  RunWakesInTime
<1>1. SUFFICES ASSUME InRun("wait")
               PROVE  /\ incoming_queue_ \o work_queue_ # <<>> => WorkSignalled
                      /\ delayed_work_queue_ # <<>> =>
                           delayed_work_time_ \in 0 .. Head(delayed_work_queue_).time
  BY DEF RunWakesInTime
<1>2. AtRest /\ Top.pc = "wait"
  BY <1>1 DEF InRun, In, AtRest
<1>3. /\ work_queue_ = <<>>
      /\ incoming_queue_ # <<>> => WorkSignalled
      /\ delayed_work_queue_ # <<>> => delayed_work_time_ = Head(delayed_work_queue_).time
  BY <1>2 DEF RestInv
<1>4. incoming_queue_ = <<>> => incoming_queue_ \o work_queue_ = <<>>
  BY <1>3
<1>5. ASSUME delayed_work_queue_ # <<>>
      PROVE  Head(delayed_work_queue_).time \in Times
  BY <1>5, TailElements DEF TypeInv, QueuesType, DelayedTasks, PendingTasks, Plain
<1>6. ASSUME delayed_work_queue_ # <<>>
      PROVE  delayed_work_time_ \in 0 .. Head(delayed_work_queue_).time
  BY <1>3, <1>5, <1>6, MaxTimeIs DEF Times
<1>7. QED
  BY <1>3, <1>4, <1>6

-----------------------------------------------------------------------------
(* The timer's task: it is held once, and comes in time.                   *)

LEMMA CountMono ==
  ASSUME NEW V, NEW list \in Seq(V), NEW R, NEW S, \A e \in V : e \in R => e \in S
  PROVE  Count(list, R) <= Count(list, S)
<1>1. IsFiniteSet(Positions(list, S))
  BY PositionsFinite
<1>2. Positions(list, R) \in SUBSET Positions(list, S)
  BY DEF Positions
<1>3. Cardinality(Positions(list, R)) <= Cardinality(Positions(list, S))
  BY <1>1, <1>2, FS_Subset
<1>4. QED
  BY <1>3 DEF Count

Queued(P) == Count(incoming_queue_, P) + Count(work_queue_, P) + Count(delayed_work_queue_, P)
Stacked(F) == Count(stack, F)

Named(id) == {task \in PendingTasks : task.id = id}
Holding(id) == {f \in Frames : f.task = id}

\* How often a task is held.
Held(id) == Queued(Named(id)) + Stacked(Holding(id))

\* The scheduled task with its time, or without a time when it is due.
OnTime == {task \in Named(scheduled_task_) :
             \/ task.time = scheduled_run_time_
             \/ task.time = Null /\ scheduled_run_time_ <= now}
HoldingInTime == {f \in Holding(scheduled_task_) : scheduled_run_time_ <= now}

OnceInv == \A id \in TaskIds : Held(id) <= 1
ScheduledInv == scheduled_task_ # 0 => Queued(OnTime) + Stacked(HoldingInTime) >= 1
RunningInv == is_running_ => /\ scheduled_task_ # 0
                             /\ scheduled_run_time_ <= desired_run_time_
                             /\ asked = desired_run_time_

LEMMA SumIs ==
  ASSUME TypeInv, NEW P, NEW F
  PROVE  /\ Count(incoming_queue_, P) \in Nat /\ Count(work_queue_, P) \in Nat
         /\ Count(delayed_work_queue_, P) \in Nat
         /\ Queued(P) \in Nat /\ Stacked(F) \in Nat
<1>1. /\ Count(incoming_queue_, P) \in Nat /\ Count(work_queue_, P) \in Nat
      /\ Count(delayed_work_queue_, P) \in Nat /\ Stacked(F) \in Nat
  BY PositionsFinite DEF TypeInv, QueuesType, StackType, StackOK, Stacked
<1>2. QED
  BY <1>1 DEF Queued

LEMMA SumMono ==
  ASSUME TypeInv, NEW P, NEW Q, \A task \in PendingTasks : task \in P => task \in Q,
         NEW F, NEW G, \A f \in Frames : f \in F => f \in G
  PROVE  Queued(P) <= Queued(Q) /\ Stacked(F) <= Stacked(G)
<1>0. /\ incoming_queue_ \in Seq(PendingTasks) /\ work_queue_ \in Seq(PendingTasks)
      /\ delayed_work_queue_ \in Seq(DelayedTasks) /\ stack \in Seq(Frames)
  BY DEF TypeInv, QueuesType, StackType, StackOK
<1>1. /\ Count(incoming_queue_, P) <= Count(incoming_queue_, Q)
      /\ Count(work_queue_, P) <= Count(work_queue_, Q)
  BY <1>0, CountMono
<1>2. Count(delayed_work_queue_, P) <= Count(delayed_work_queue_, Q)
  <2>1. \A task \in DelayedTasks : task \in P => task \in Q
    BY DEF DelayedTasks
  <2>2. QED
    BY <1>0, <2>1, CountMono
<1>3. Stacked(F) <= Stacked(G)
  BY <1>0, CountMono DEF Stacked
<1>4. \A a, b, c, x, y, z \in Nat : a <= x /\ b <= y /\ c <= z => a + b + c <= x + y + z
  OBVIOUS
<1>5. QED
  BY <1>1, <1>2, <1>3, <1>4, SumIs DEF Queued

\* What the sum counts.
LEMMA SumOf ==
  ASSUME TypeInv, NEW P, NEW F
  PROVE  /\ Queued(P) >= 1 <=> \E task \in Pending : task \in P
         /\ Stacked(F) >= 1 <=> \E i \in DOMAIN stack : stack[i] \in F
<1>0. /\ incoming_queue_ \in Seq(PendingTasks) /\ work_queue_ \in Seq(PendingTasks)
      /\ delayed_work_queue_ \in Seq(DelayedTasks) /\ stack \in Seq(Frames)
  BY DEF TypeInv, QueuesType, StackType, StackOK
<1>1. /\ Count(incoming_queue_, P) >= 1 <=> \E task \in Entries(incoming_queue_) : task \in P
      /\ Count(work_queue_, P) >= 1 <=> \E task \in Entries(work_queue_) : task \in P
      /\ Count(delayed_work_queue_, P) >= 1
           <=> \E task \in Entries(delayed_work_queue_) : task \in P
  BY <1>0, CountOf DEF Entries
<1>2. Stacked(F) >= 1 <=> \E i \in DOMAIN stack : stack[i] \in F
  BY <1>0, CountOf DEF Stacked
<1>3. \A a, b, c \in Nat : a + b + c >= 1 <=> a >= 1 \/ b >= 1 \/ c >= 1
  OBVIOUS
<1>4. Queued(P) >= 1 <=> \/ Count(incoming_queue_, P) >= 1 \/ Count(work_queue_, P) >= 1
                         \/ Count(delayed_work_queue_, P) >= 1
  BY <1>3, SumIs DEF Queued
<1>5. QED
  BY <1>1, <1>2, <1>4 DEF Pending

\* The same sums after a step.
QueuedNext(P) == Count(incoming_queue_', P) + Count(work_queue_', P) + Count(delayed_work_queue_', P)
StackedNext(F) == Count(stack', F)

LEMMA QueuedSteps ==
  ASSUME TypeInv, NEW P
  PROVE  /\ QueuesStay \/ QueuesReload => QueuedNext(P) = Queued(P)
         /\ QueuesDelay => QueuedNext(P) = Queued(P)
         /\ \A task \in PendingTasks : QueuesGet(task) => QueuedNext(P) = Queued(P) + One(task, P)
         /\ QueuesRun => QueuedNext(P) = Queued(P) - One(Head(work_queue_), P)
         /\ QueuesRunDelayed => QueuedNext(P) = Queued(P) - One(Head(delayed_work_queue_), P)
<1> DEFINE a == Count(incoming_queue_, P)
           b == Count(work_queue_, P)
           c == Count(delayed_work_queue_, P)
<1>0. /\ incoming_queue_ \in Seq(PendingTasks) /\ work_queue_ \in Seq(PendingTasks)
      /\ delayed_work_queue_ \in Seq(DelayedTasks)
  BY DEF TypeInv, QueuesType
<1>1. a \in Nat /\ b \in Nat /\ c \in Nat /\ Queued(P) = a + b + c
  BY SumIs DEF Queued
<1>2. \A e : One(e, P) \in {0, 1}
  BY DEF One
<1>4. ASSUME QueuesReload
      PROVE  QueuedNext(P) = Queued(P)
  <2>1. /\ Count(incoming_queue_', P) = 0 /\ b = 0
        /\ Count(work_queue_', P) = a /\ Count(delayed_work_queue_', P) = c
    BY <1>4, CountEmpty DEF QueuesReload
  <2>2. QED
    BY <1>1, <2>1 DEF QueuedNext
<1>5. ASSUME QueuesDelay
      PROVE  QueuedNext(P) = Queued(P)
  <2>1. PICK k \in 1 .. Len(delayed_work_queue_) + 1 :
          /\ delayed_work_queue_' = InsertAt(delayed_work_queue_, k, Head(work_queue_))
          /\ work_queue_ # <<>> /\ Head(work_queue_).time # Null
          /\ work_queue_' = Tail(work_queue_) /\ UNCHANGED incoming_queue_
    BY <1>5 DEF QueuesDelay
  <2>2. Head(work_queue_) \in PendingTasks
    BY <1>0, <2>1, TailElements
  <2>3. PICK e \in DelayedTasks : e = Head(work_queue_)
    BY <2>1, <2>2 DEF DelayedTasks
  <2>4. Count(delayed_work_queue_', P) = c + One(e, P)
    BY <1>0, <2>1, <2>3, CountInsertAt
  <2>5. b = Count(work_queue_', P) + One(e, P)
    BY <1>0, <2>1, <2>3, CountTail
  <2>6. Count(incoming_queue_', P) = a
    BY <2>1
  <2>7. work_queue_' \in Seq(PendingTasks)
    BY <1>0, <2>1
  <2>8. Count(work_queue_', P) \in Nat
    BY <2>7, PositionsFinite
  <2>9. QED
    BY <1>1, <1>2, <2>4, <2>5, <2>6, <2>8 DEF QueuedNext
<1>6. ASSUME NEW task \in PendingTasks, QueuesGet(task)
      PROVE  QueuedNext(P) = Queued(P) + One(task, P)
  <2>1. Count(incoming_queue_', P) = a + One(task, P)
    BY <1>0, <1>6, CountAppend DEF QueuesGet
  <2>2. Count(work_queue_', P) = b /\ Count(delayed_work_queue_', P) = c
    BY <1>6 DEF QueuesGet
  <2>3. QED
    BY <1>1, <1>2, <2>1, <2>2 DEF QueuedNext
<1>7. ASSUME QueuesRun
      PROVE  QueuedNext(P) = Queued(P) - One(Head(work_queue_), P)
  <2>1. b = Count(work_queue_', P) + One(Head(work_queue_), P)
    BY <1>0, <1>7, CountTail DEF QueuesRun
  <2>2. Count(incoming_queue_', P) = a /\ Count(delayed_work_queue_', P) = c
    BY <1>7 DEF QueuesRun
  <2>3. work_queue_' \in Seq(PendingTasks)
    BY <1>0, <1>7 DEF QueuesRun
  <2>4. Count(work_queue_', P) \in Nat
    BY <2>3, PositionsFinite
  <2>5. QED
    BY <1>1, <1>2, <2>1, <2>2, <2>4 DEF QueuedNext
<1>8. ASSUME QueuesRunDelayed
      PROVE  QueuedNext(P) = Queued(P) - One(Head(delayed_work_queue_), P)
  <2>1. c = Count(delayed_work_queue_', P) + One(Head(delayed_work_queue_), P)
    BY <1>0, <1>8, CountTail DEF QueuesRunDelayed
  <2>2. Count(incoming_queue_', P) = a /\ Count(work_queue_', P) = b
    BY <1>8 DEF QueuesRunDelayed
  <2>3. delayed_work_queue_' \in Seq(DelayedTasks)
    BY <1>0, <1>8 DEF QueuesRunDelayed
  <2>4. Count(delayed_work_queue_', P) \in Nat
    BY <2>3, PositionsFinite
  <2>5. QED
    BY <1>1, <1>2, <2>1, <2>2, <2>4 DEF QueuedNext
<1>9. QueuesStay => QueuedNext(P) = Queued(P)
  BY DEF QueuesStay, queues, Queued, QueuedNext
<1>10. QED
  BY <1>4, <1>5, <1>6, <1>7, <1>8, <1>9

\* A set of frames that is told by their tasks.
ByTask(F) == \A f, g \in Frames : /\ f.task = 0 => f \notin F
                                  /\ f.task = g.task /\ f \in F => g \in F

LEMMA StackedSteps ==
  ASSUME TypeInv, FramesInv, Next, NEW F, ByTask(F)
  PROVE  /\ ~TaskRuns /\ ~DoWorkRun /\ ~DoDelayedWorkRun => StackedNext(F) = Stacked(F)
         /\ TaskRuns => StackedNext(F) = Stacked(F) - One(Top, F)
         /\ DoWorkRun => StackedNext(F) = Stacked(F) + One(Body(Head(work_queue_).id), F)
         /\ DoDelayedWorkRun =>
              StackedNext(F) = Stacked(F) + One(Body(Head(delayed_work_queue_).id), F)
<1>0. /\ StackType /\ QueuesType /\ stack \in Seq(Frames) /\ Stacked(F) \in Nat
      /\ stack \in Seq(ProperFrames)
      /\ stack # <<>> => Top \in Frames
  BY SumIs, StackTop DEF TypeInv, StackType, StackOK, FramesInv
<1>1. \A e : One(e, F) \in {0, 1}
  BY DEF One
<1>2. \A f \in Frames : f.task = 0 => One(f, F) = 0
  BY DEF ByTask, One
<1>3. ASSUME stack # <<>>, Top.pc # "begin"
      PROVE  Top.task = 0
  <2>1. Last(stack) \in ProperFrames
    BY <1>0, <1>3, FrontElements
  <2>2. QED
    BY <1>3, <2>1 DEF Top, ProperFrames
<1>4. ASSUME stack # <<>>
      PROVE  /\ Stacked(F) = Count(Front(stack), F) + One(Top, F)
             /\ \A f \in Frames : Count(With(stack, f), F) = Count(Front(stack), F) + One(f, F)
             /\ Count(Front(stack), F) \in Nat
  BY <1>0, <1>4, CountWith DEF Stacked, Top
<1>5. ASSUME NEW f \in Frames, NEW g \in Frames, stack # <<>>
      PROVE  Count(Append(With(stack, f), g), F) = Count(With(stack, f), F) + One(g, F)
  <2>1. With(stack, f) \in Seq(Frames)
    BY <1>0, <1>5, WithIs
  <2>2. QED
    BY <2>1, CountAppend
<1>6. ASSUME ~TaskRuns, ~DoWorkRun, ~DoDelayedWorkRun
      PROVE  StackedNext(F) = Stacked(F)
  <2>1. CASE UNCHANGED stack
    BY <2>1 DEF StackedNext, Stacked
  <2>2. CASE TopMoves
    <3>1. PICK f \in Frames : stack' = With(stack, f) /\ f.task = 0 /\ Top.task = 0
      BY <1>3, <1>6, <2>2 DEF TopMoves
    <3>2. One(f, F) = 0 /\ One(Top, F) = 0
      BY <1>0, <1>2, <2>2, <3>1 DEF TopMoves
    <3>3. StackedNext(F) = Count(Front(stack), F) + One(f, F)
      BY <1>4, <2>2, <3>1 DEF TopMoves, StackedNext
    <3>4. QED
      BY <1>4, <2>2, <3>2, <3>3 DEF TopMoves
  <2>3. CASE TopCalls
    <3>1. PICK f \in Frames, g \in Frames :
            /\ stack' = Append(With(stack, f), g)
            /\ f.task = 0 /\ Top.task = 0 /\ g.task = 0
      BY <1>3, <1>6, <2>3 DEF TopCalls
    <3>2. One(f, F) = 0 /\ One(Top, F) = 0 /\ One(g, F) = 0
      BY <1>0, <1>2, <2>3, <3>1 DEF TopCalls
    <3>3. StackedNext(F) = Count(With(stack, f), F) + One(g, F)
      BY <1>5, <2>3, <3>1 DEF TopCalls, StackedNext
    <3>4. QED
      BY <1>4, <2>3, <3>2, <3>3 DEF TopCalls
  <2>4. CASE BodyOpens
    <3>1. PICK g \in Frames : stack' = Append(stack, g) /\ g.task = 0
      BY <2>4 DEF BodyOpens
    <3>2. StackedNext(F) = Stacked(F) + One(g, F) /\ One(g, F) = 0
      BY <1>0, <1>2, <3>1, CountAppend DEF StackedNext, Stacked
    <3>3. QED
      BY <1>0, <3>2
  <2>5. CASE TopReturns
    <3>1. One(Top, F) = 0
      BY <1>0, <1>2, <1>3, <2>5 DEF TopReturns
    <3>2. StackedNext(F) = Count(Front(stack), F)
      BY <2>5 DEF TopReturns, StackedNext
    <3>3. QED
      BY <1>4, <2>5, <3>1, <3>2 DEF TopReturns
  <2>6. CASE LowerQuits
    <3>1. PICK k \in DOMAIN stack, f \in Frames :
            Marks(stack, k, f) /\ stack' = [stack EXCEPT ![k] = f]
      BY <2>6 DEF LowerQuits
    <3>2. /\ stack' \in Seq(Frames) /\ Len(stack') = Len(stack) /\ stack'[k] = f
          /\ \A i \in DOMAIN stack : i # k => stack'[i] = stack[i]
      BY <1>0, <3>1, MarkedIs
    <3>3. f \in F <=> stack[k] \in F
      BY <1>0, <3>1 DEF Marks, ByTask
    <3>4. \A i \in DOMAIN stack : stack'[i] \in F <=> stack[i] \in F
      BY <3>2, <3>3
    <3>5. QED
      BY <1>0, <3>2, <3>4, CountSame DEF StackedNext, Stacked
  <2>7. QED
    BY <2>1, <2>2, <2>3, <2>4, <2>5, <2>6, StackChanges
<1>7. ASSUME TaskRuns
      PROVE  StackedNext(F) = Stacked(F) - One(Top, F)
  <2>1. PICK f \in Frames : stack # <<>> /\ f.task = 0 /\ stack' = With(stack, f)
    BY <1>0, <1>7, TaskRunsIs
  <2>2. StackedNext(F) = Count(Front(stack), F) + One(f, F) /\ One(f, F) = 0
    BY <1>2, <1>4, <2>1 DEF StackedNext
  <2>3. QED
    BY <1>1, <1>4, <2>1, <2>2
<1>8. ASSUME NEW f \in Frames, NEW g \in Frames, CallsOn(f, g), Top.pc # "begin"
      PROVE  StackedNext(F) = Stacked(F) + One(g, F)
  <2>1. stack # <<>> /\ stack' = Append(With(stack, f), g) /\ f.task = Top.task
    BY <1>8 DEF CallsOn
  <2>2. One(f, F) = 0 /\ One(Top, F) = 0
    BY <1>0, <1>2, <1>3, <1>8, <2>1
  <2>3. StackedNext(F) = Count(With(stack, f), F) + One(g, F)
    BY <1>5, <2>1 DEF StackedNext
  <2>4. QED
    BY <1>1, <1>4, <2>1, <2>2, <2>3
<1>9. \A task \in PendingTasks : Body(task.id) \in Frames
  BY BodyIs DEF PendingTasks, Plain
<1>10. ASSUME DoWorkRun
       PROVE  StackedNext(F) = Stacked(F) + One(Body(Head(work_queue_).id), F)
  <2>1. PICK f \in Frames : /\ Top.pc = "work" /\ Head(work_queue_) \in PendingTasks
                            /\ CallsOn(f, Body(Head(work_queue_).id))
    BY <1>0, <1>10, DoWorkRunIs
  <2>2. QED
    BY <1>8, <1>9, <2>1
<1>11. ASSUME DoDelayedWorkRun
       PROVE  StackedNext(F) = Stacked(F) + One(Body(Head(delayed_work_queue_).id), F)
  <2>1. PICK f \in Frames : /\ Top.pc \in {"worked", "fire"}
                            /\ Head(delayed_work_queue_) \in DelayedTasks
                            /\ CallsOn(f, Body(Head(delayed_work_queue_).id))
    BY <1>0, <1>11, DoDelayedWorkRunIs
  <2>2. Head(delayed_work_queue_) \in PendingTasks
    BY <2>1 DEF DelayedTasks
  <2>3. QED
    BY <1>8, <1>9, <2>1, <2>2
<1>12. QED
  BY <1>6, <1>7, <1>10, <1>11

\* The steps that are not the timer's move tasks, and run those that are due.
LEMMA SumSteps ==
  ASSUME TypeInv, FramesInv, Next, ~UserCalls, ~TaskRuns,
         NEW P, \A task \in PendingTasks : task.id = 0 => task \notin P,
         NEW F, ByTask(F)
  PROVE  \/ QueuedNext(P) = Queued(P) /\ StackedNext(F) = Stacked(F)
         \/ \E task \in PendingTasks :
              /\ task.time <= now
              /\ QueuedNext(P) = Queued(P) - One(task, P)
              /\ StackedNext(F) = Stacked(F) + One(Body(task.id), F)
<1>0. /\ QueuesType /\ Null <= now
      /\ work_queue_ \in Seq(PendingTasks) /\ delayed_work_queue_ \in Seq(DelayedTasks)
  BY DEF TypeInv, QueuesType, TimerType, Null
<1>1. CASE DoWorkRun
  <2>1. QueuesRun /\ Head(work_queue_) \in PendingTasks /\ Head(work_queue_).time = Null
    BY <1>0, <1>1, TailElements DEF DoWorkRun, QueuesRun
  <2>2. /\ QueuedNext(P) = Queued(P) - One(Head(work_queue_), P)
        /\ StackedNext(F) = Stacked(F) + One(Body(Head(work_queue_).id), F)
    BY <1>1, <2>1, QueuedSteps, StackedSteps
  <2>3. QED
    BY <1>0, <2>1, <2>2
<1>2. CASE DoDelayedWorkRun
  <2>1. /\ QueuesRunDelayed /\ Head(delayed_work_queue_) \in DelayedTasks
        /\ Head(delayed_work_queue_).time <= now
    BY <1>0, <1>2, TailElements DEF DoDelayedWorkRun, QueuesRunDelayed
  <2>2. /\ QueuedNext(P) = Queued(P) - One(Head(delayed_work_queue_), P)
        /\ StackedNext(F) = Stacked(F) + One(Body(Head(delayed_work_queue_).id), F)
    BY <1>2, <2>1, QueuedSteps, StackedSteps
  <2>3. Head(delayed_work_queue_) \in PendingTasks
    BY <2>1 DEF DelayedTasks
  <2>4. QED
    BY <2>1, <2>2, <2>3
<1>3. CASE ~DoWorkRun /\ ~DoDelayedWorkRun
  <2>1. StackedNext(F) = Stacked(F)
    BY <1>3, StackedSteps
  <2>2. QueuedNext(P) = Queued(P)
    <3>1. CASE QueuesStay \/ QueuesReload \/ QueuesDelay
      BY <3>1, QueuedSteps
    <3>2. CASE ReloadWorkQueue
      BY <3>1, <3>2 DEF ReloadWorkQueue, QueuesReload
    <3>3. CASE DoWorkDelayed
      BY <1>0, <3>1, <3>3, DoWorkDelayedIs
    <3>4. CASE \E p \in Posters : PosterPushes(p)
      <4>1. QueuesGet(Plain)
        BY <3>4 DEF PosterPushes, QueuesGet
      <4>2. QueuedNext(P) = Queued(P) + One(Plain, P) /\ One(Plain, P) = 0
        BY <4>1, QueuedSteps, PlainIs DEF One
      <4>3. Queued(P) \in Nat
        BY SumIs
      <4>4. QED
        BY <4>2, <4>3
    <3>5. CASE ~QueueSteps
      BY <3>1, <3>5, OtherStepsLeaveQueues
    <3>6. QED
      BY <1>3, <3>2, <3>3, <3>4, <3>5 DEF QueueSteps
  <2>3. QED
    BY <2>1, <2>2
<1>4. QED
  BY <1>1, <1>2, <1>3

LEMMA NowStep ==
  ASSUME TypeInv, Next
  PROVE  /\ now' = now \/ now' = now + 1
         /\ UserCalls \/ TaskRuns => now' = now
         /\ ~UserCalls /\ ~TaskRuns => UNCHANGED timervars
<1>1. UserCalls \/ TaskRuns => now' = now
  BY DEF UserCalls, TaskRuns, PumpRest
<1>2. Pump \/ Client \/ Environment => now' = now \/ now' = now + 1
  BY DEF Pump, Client, Environment,
         DoRunLoop, DoWork, DoDelayedWork, HandleWorkMessage, HandleTimerMessage,
         ProcessNextWindowsMessage, PeekReplacement, DispatchReplacement, WorkOutsideRun,
         DoWorkNothing, ReloadWorkQueue, DoWorkDelayed, DoWorkRun, WorkMessageHandled,
         DoDelayedWorkNothing, DoDelayedWorkNotDue, DoDelayedWorkRun, KillTimer,
         TimerMessageHandled, DelayedWorkDone, WaitForWork, RunEnds, RunBegins,
         ModalLoopBegins, ModalLoopDispatches, ModalLoopEnds, QuitsNow, BodyReturns,
         MessageArrives, Tick, Poster, PosterPushes, PosterExchanges, PosterPosts
<1>3. QED
  BY <1>1, <1>2 DEF Next

\* A new task is nowhere yet.
LEMMA NewIsNotHeld ==
  ASSUME TypeInv, NEW id \in Free
  PROVE  Queued(Named(id)) = 0 /\ Stacked(Holding(id)) = 0
<1>1. /\ \A task \in Pending : task.id # id
      /\ \A i \in DOMAIN stack : stack[i].task # id
  BY DEF Free, InUse
<1>2. /\ ~\E task \in Pending : task \in Named(id)
      /\ ~\E i \in DOMAIN stack : stack[i] \in Holding(id)
  BY <1>1 DEF Named, Holding
<1>3. ~(Queued(Named(id)) >= 1) /\ ~(Stacked(Holding(id)) >= 1)
  BY <1>2, SumOf
<1>4. Queued(Named(id)) \in Nat /\ Stacked(Holding(id)) \in Nat
  BY SumIs
<1>5. QED
  BY <1>3, <1>4

\* The scheduled task is held.
LEMMA ScheduledIsHeld ==
  ASSUME TypeInv, ScheduledInv, scheduled_task_ # 0
  PROVE  Held(scheduled_task_) >= 1
<1>1. /\ \A task \in PendingTasks : task \in OnTime => task \in Named(scheduled_task_)
      /\ \A f \in Frames : f \in HoldingInTime => f \in Holding(scheduled_task_)
  BY DEF OnTime, HoldingInTime
<1>2. /\ Queued(OnTime) <= Queued(Named(scheduled_task_))
      /\ Stacked(HoldingInTime) <= Stacked(Holding(scheduled_task_))
  BY <1>1, SumMono
<1>3. /\ Queued(OnTime) \in Nat /\ Queued(Named(scheduled_task_)) \in Nat
      /\ Stacked(HoldingInTime) \in Nat /\ Stacked(Holding(scheduled_task_)) \in Nat
  BY SumIs
<1>4. Queued(OnTime) + Stacked(HoldingInTime) >= 1
  BY DEF ScheduledInv
<1>5. QED
  BY <1>2, <1>3, <1>4 DEF Held

\* A task that is posted for the timer is its scheduled task.
LEMMA PostedStep ==
  ASSUME TypeInv, TimerType', NEW id \in TaskIds, Reschedules(id), QueuesGet(Posted),
         now' = now, StackType'
  PROVE  /\ ScheduledInv' /\ RunningInv'
         /\ \A other \in TaskIds :
              QueuedNext(Named(other)) = Queued(Named(other)) + IF other = id THEN 1 ELSE 0
<1>0. /\ scheduled_task_' = id /\ id # 0
      /\ desired_run_time_' = scheduled_run_time_' /\ asked' = desired_run_time_'
      /\ scheduled_run_time_' \in Nat
  BY TimerAssumption, MaxTimeIs DEF Reschedules, TimerType
<1>1. /\ Posted \in PendingTasks /\ Posted.id = id
      /\ \/ Posted.time = scheduled_run_time_'
         \/ Posted.time = Null /\ scheduled_run_time_' <= now
  BY <1>0, PostedIs DEF TypeInv
<1>2. RunningInv'
  BY <1>0 DEF RunningInv
<1>3. ASSUME NEW other \in TaskIds
      PROVE  QueuedNext(Named(other)) = Queued(Named(other)) + IF other = id THEN 1 ELSE 0
  <2>1. One(Posted, Named(other)) = IF other = id THEN 1 ELSE 0
    BY <1>1 DEF One, Named
  <2>2. QED
    BY <1>1, <2>1, QueuedSteps
<1>4. ScheduledInv'
  <2>1. PICK P : P = OnTime'
    OBVIOUS
  <2>2. PICK F : F = HoldingInTime'
    OBVIOUS
  <2>3. Posted \in P
    BY <1>0, <1>1, <2>1 DEF OnTime, Named
  <2>4. QueuedNext(P) = Queued(P) + One(Posted, P) /\ One(Posted, P) = 1 /\ Queued(P) \in Nat
    BY <1>1, <2>3, QueuedSteps, SumIs DEF One
  <2>5. StackedNext(F) \in Nat
    BY PositionsFinite DEF StackType, StackOK, StackedNext
  <2>6. Queued(OnTime)' = QueuedNext(P) /\ Stacked(HoldingInTime)' = StackedNext(F)
    BY <2>1, <2>2 DEF Queued, QueuedNext, Stacked, StackedNext
  <2>7. QED
    BY <2>4, <2>5, <2>6 DEF ScheduledInv
<1>5. QED
  BY <1>2, <1>3, <1>4

LEMMA TimerStep ==
  ASSUME TypeInv, TypeInv', FramesInv, OnceInv, ScheduledInv, RunningInv, Next
  PROVE  OnceInv' /\ ScheduledInv' /\ RunningInv'
<1>0. /\ TimerType /\ TimerType' /\ StackType /\ StackType'
      /\ is_running_ => asked = desired_run_time_
      /\ \A id \in TaskIds : id # 0
  BY TimerAssumption DEF TypeInv, RunningInv
<1>h. \A id \in TaskIds : Held(id)' = QueuedNext(Named(id)) + StackedNext(Holding(id))
  BY DEF Held, Queued, QueuedNext, Stacked, StackedNext, Named, Holding
<1>n. \A P, F : /\ Queued(P) \in Nat /\ Stacked(F) \in Nat
                /\ One(Top, F) \in {0, 1}
  BY SumIs DEF One
<1>b. \A id \in TaskIds : ByTask(Holding(id))
  BY <1>0 DEF ByTask, Holding
<1>1. CASE UserCalls
  <2>0. now' = now /\ \A F : StackedNext(F) = Stacked(F)
    BY <1>1, NowStep DEF UserCalls, StackedNext, Stacked
  <2>1. CASE Free # {} /\ Reschedules(NewTask)
    <3>1. NewTask \in Free /\ NewTask \in TaskIds /\ scheduled_task_' = NewTask
      BY <2>1, NewTaskIsFree DEF Reschedules
    <3>2. Queued(Named(NewTask)) = 0 /\ Stacked(Holding(NewTask)) = 0
      BY <3>1, NewIsNotHeld
    <3>3. NewTask # scheduled_task_
      BY <1>0, <3>1, <3>2, ScheduledIsHeld DEF Held
    <3>4. QueuesGet(Posted)
      BY <1>0, <1>1, <3>1, <3>3, UserCallsPost
    <3>5. /\ ScheduledInv' /\ RunningInv'
          /\ \A other \in TaskIds :
               QueuedNext(Named(other)) = Queued(Named(other)) + IF other = NewTask THEN 1 ELSE 0
      BY <1>0, <2>0, <2>1, <3>1, <3>4, PostedStep
    <3>6. ASSUME NEW id \in TaskIds
          PROVE  Held(id)' <= 1
      <4>1. CASE id = NewTask
        <5>1. QueuedNext(Named(id)) = 1 /\ StackedNext(Holding(id)) = 0
          BY <2>0, <3>2, <3>5, <4>1
        <5>2. QED
          BY <1>h, <5>1
      <4>2. CASE id # NewTask
        <5>1. QueuedNext(Named(id)) = Queued(Named(id)) /\ StackedNext(Holding(id)) = Stacked(Holding(id))
          BY <1>n, <2>0, <3>5, <4>2
        <5>2. QED
          BY <1>h, <5>1 DEF OnceInv, Held
      <4>3. QED
        BY <4>1, <4>2
    <3>7. QED
      BY <3>5, <3>6 DEF OnceInv
  <2>2. CASE Reuses \/ Rests \/ Abandons
    <3>1. QueuesStay
      BY <1>1, <2>2, UserCallsPost DEF Reuses, Rests, Abandons
    <3>2. \A P : QueuedNext(P) = Queued(P)
      BY <3>1, QueuedSteps
    <3>3. OnceInv'
      BY <1>h, <2>0, <3>2 DEF OnceInv, Held
    <3>4. RunningInv'
      BY <1>0, <2>2 DEF Reuses, Rests, Abandons, RunningInv, TimerType
    <3>5. ScheduledInv'
      <4>1. CASE Abandons
        BY <4>1 DEF Abandons, ScheduledInv
      <4>2. CASE Reuses \/ Rests
        <5>1. UNCHANGED <<scheduled_task_, scheduled_run_time_, now>>
          BY <2>0, <4>2 DEF Reuses, Rests
        <5>2. OnTime' = OnTime /\ HoldingInTime' = HoldingInTime
          BY <5>1 DEF OnTime, HoldingInTime
        <5>3. /\ Queued(OnTime)' = QueuedNext(OnTime)
              /\ Stacked(HoldingInTime)' = StackedNext(HoldingInTime)
          BY <5>2 DEF Queued, QueuedNext, Stacked, StackedNext
        <5>4. QED
          BY <2>0, <3>2, <5>1, <5>3 DEF ScheduledInv
      <4>3. QED
        BY <2>2, <4>1, <4>2
    <3>6. QED
      BY <3>3, <3>4, <3>5
  <2>3. QED
    BY <1>0, <1>1, <2>1, <2>2, UserCallsIs
<1>2. CASE TaskRuns
  <2>0. /\ now' = now /\ Top \in Frames /\ Top.task \in TaskIds
        /\ \A id \in TaskIds : StackedNext(Holding(id))
                                 = Stacked(Holding(id)) - IF id = Top.task THEN 1 ELSE 0
    <3>1. stack # <<>> /\ Top.task \in TaskIds
      BY <1>0, <1>2, TaskRunsIs
    <3>2. Top \in Frames
      BY <1>0, <3>1, StackTop
    <3>3. \A id \in TaskIds : One(Top, Holding(id)) = IF id = Top.task THEN 1 ELSE 0
      BY <3>2 DEF One, Holding
    <3>4. \A id \in TaskIds : StackedNext(Holding(id)) = Stacked(Holding(id)) - One(Top, Holding(id))
      BY <1>2, <1>b, StackedSteps
    <3>5. QED
      BY <1>2, <3>1, <3>2, <3>3, <3>4, NowStep
  <2>1. CASE scheduled_task_ = Top.task /\ Reschedules(Top.task)
    <3>1. QueuesGet(Posted)
      BY <1>0, <1>2, <2>0, <2>1, TaskRunsPost DEF Reschedules
    <3>2. /\ ScheduledInv' /\ RunningInv'
          /\ \A other \in TaskIds :
               QueuedNext(Named(other)) = Queued(Named(other)) + IF other = Top.task THEN 1 ELSE 0
      BY <1>0, <2>0, <2>1, <3>1, PostedStep
    <3>3. ASSUME NEW id \in TaskIds
          PROVE  Held(id)' = Held(id)
      BY <1>h, <1>n, <2>0, <3>2 DEF Held
    <3>4. QED
      BY <3>2, <3>3 DEF OnceInv
  <2>2. CASE \/ scheduled_task_ = Top.task /\ Abandons
             \/ scheduled_task_ # Top.task /\ UNCHANGED timervars
    <3>1. QueuesStay
      BY <1>2, <2>2, TaskRunsPost DEF Abandons
    <3>2. \A P : QueuedNext(P) = Queued(P)
      BY <3>1, QueuedSteps
    <3>3. OnceInv'
      <4>1. ASSUME NEW id \in TaskIds
            PROVE  Held(id)' <= 1
        <5>1. Held(id)' <= Held(id)
          BY <1>h, <1>n, <2>0, <3>2 DEF Held
        <5>2. /\ Held(id) <= 1 /\ Held(id) \in Nat /\ Held(id)' \in Int
          BY <1>h, <1>n, <2>0, <3>2 DEF Held, OnceInv
        <5>3. QED
          BY <5>1, <5>2
      <4>2. QED
        BY <4>1 DEF OnceInv
    <3>4. CASE Abandons
      BY <3>3, <3>4 DEF Abandons, ScheduledInv, RunningInv
    <3>5. CASE scheduled_task_ # Top.task /\ UNCHANGED timervars
      <4>1. RunningInv'
        BY <3>5 DEF RunningInv, timervars
      <4>2. OnTime' = OnTime /\ HoldingInTime' = HoldingInTime
        BY <2>0, <3>5 DEF OnTime, HoldingInTime, timervars
      <4>3. /\ Queued(OnTime)' = QueuedNext(OnTime)
            /\ Stacked(HoldingInTime)' = StackedNext(HoldingInTime)
        BY <4>2 DEF Queued, QueuedNext, Stacked, StackedNext
      <4>4. PICK F : F = HoldingInTime
        OBVIOUS
      <4>5. Top \notin F
        BY <3>5, <4>4 DEF HoldingInTime, Holding
      <4>6. scheduled_task_ # 0 => ByTask(F)
        BY <4>4 DEF HoldingInTime, Holding, ByTask
      <4>7. scheduled_task_ # 0 => StackedNext(F) = Stacked(F) - One(Top, F)
        BY <1>2, <4>6, StackedSteps
      <4>8. scheduled_task_ # 0 => StackedNext(HoldingInTime) = Stacked(HoldingInTime)
        BY <1>n, <4>4, <4>5, <4>7 DEF One
      <4>9. ScheduledInv'
        BY <3>2, <3>5, <4>3, <4>8 DEF ScheduledInv, timervars
      <4>10. QED
        BY <3>3, <4>1, <4>9
    <3>6. QED
      BY <2>2, <3>4, <3>5
  <2>3. QED
    BY <1>0, <1>2, <2>1, <2>2, TaskRunsTimer
<1>3. CASE ~UserCalls /\ ~TaskRuns
  <2>0. UNCHANGED timervars /\ (now' = now \/ now' = now + 1)
    BY <1>3, NowStep
  <2>1. RunningInv'
    BY <2>0 DEF RunningInv, timervars
  <2>b. \A task \in PendingTasks : /\ Body(task.id) \in Frames /\ Body(task.id).task = task.id
    BY BodyIs DEF PendingTasks, Plain
  <2>2. ASSUME NEW id \in TaskIds
        PROVE  Held(id)' = Held(id)
    <3>1. \A task \in PendingTasks : task.id = 0 => task \notin Named(id)
      BY <1>0 DEF Named
    <3>2. \A task \in PendingTasks : One(task, Named(id)) = One(Body(task.id), Holding(id))
      BY <2>b DEF One, Named, Holding
    <3>3. \/ QueuedNext(Named(id)) = Queued(Named(id)) /\ StackedNext(Holding(id)) = Stacked(Holding(id))
          \/ \E task \in PendingTasks :
               /\ QueuedNext(Named(id)) = Queued(Named(id)) - One(task, Named(id))
               /\ StackedNext(Holding(id)) = Stacked(Holding(id)) + One(Body(task.id), Holding(id))
      BY <1>3, <1>b, <3>1, SumSteps
    <3>4. \A task : One(task, Named(id)) \in {0, 1}
      BY DEF One
    <3>5. QED
      BY <1>h, <1>n, <3>2, <3>3, <3>4 DEF Held
  <2>3. OnceInv'
    BY <2>2 DEF OnceInv
  <2>4. ScheduledInv'
    <3>0. SUFFICES ASSUME scheduled_task_' # 0
                   PROVE  Queued(OnTime)' + Stacked(HoldingInTime)' >= 1
      BY DEF ScheduledInv
    <3>s. scheduled_task_ # 0 /\ scheduled_task_' = scheduled_task_
          /\ scheduled_run_time_' = scheduled_run_time_
      BY <2>0, <3>0 DEF timervars
    <3>t. scheduled_run_time_ \in Nat /\ now \in Nat /\ now' \in Nat /\ now <= now'
      BY <1>0, <2>0, MaxTimeIs DEF TimerType
    <3>1. PICK P : P = OnTime'
      OBVIOUS
    <3>2. PICK F : F = HoldingInTime'
      OBVIOUS
    <3>3. /\ \A task \in PendingTasks : task \in P <=>
               /\ task.id = scheduled_task_
               /\ \/ task.time = scheduled_run_time_
                  \/ task.time = Null /\ scheduled_run_time_ <= now'
          /\ \A f \in Frames : f \in F <=> f.task = scheduled_task_ /\ scheduled_run_time_ <= now'
      BY <3>s, <3>1, <3>2 DEF OnTime, HoldingInTime, Named, Holding
    <3>4. Queued(P) + Stacked(F) >= 1
      <4>1. /\ \A task \in PendingTasks : task \in OnTime => task \in P
            /\ \A f \in Frames : f \in HoldingInTime => f \in F
        BY <3>t, <3>3 DEF OnTime, HoldingInTime, Named, Holding
      <4>2. Queued(OnTime) <= Queued(P) /\ Stacked(HoldingInTime) <= Stacked(F)
        BY <4>1, SumMono
      <4>3. Queued(OnTime) + Stacked(HoldingInTime) >= 1
        BY <3>s DEF ScheduledInv
      <4>4. QED
        BY <1>n, <4>2, <4>3
    <3>5. ByTask(F) /\ \A task \in PendingTasks : task.id = 0 => task \notin P
      BY <3>s, <3>3 DEF ByTask
    <3>6. ASSUME NEW task \in PendingTasks, task.time <= now, task \in P
          PROVE  Body(task.id) \in F
      BY <2>b, <3>t, <3>3, <3>6
    <3>7. \A task \in PendingTasks :
            task.time <= now => One(task, P) <= One(Body(task.id), F)
      BY <3>6 DEF One
    <3>8. \/ QueuedNext(P) = Queued(P) /\ StackedNext(F) = Stacked(F)
          \/ \E task \in PendingTasks :
               /\ task.time <= now
               /\ QueuedNext(P) = Queued(P) - One(task, P)
               /\ StackedNext(F) = Stacked(F) + One(Body(task.id), F)
      BY <1>3, <3>5, SumSteps
    <3>9. \A x, R : One(x, R) \in {0, 1}
      BY DEF One
    <3>10. QueuedNext(P) + StackedNext(F) >= 1
      BY <1>n, <3>4, <3>7, <3>8, <3>9
    <3>11. Queued(OnTime)' = QueuedNext(P) /\ Stacked(HoldingInTime)' = StackedNext(F)
      BY <3>1, <3>2 DEF Queued, QueuedNext, Stacked, StackedNext
    <3>12. QED
      BY <3>10, <3>11
  <2>5. QED
    BY <2>1, <2>3, <2>4
<1>4. QED
  BY <1>1, <1>2, <1>3

-----------------------------------------------------------------------------
(* The inductive invariant and the theorems.                               *)

IInv == /\ TypeInv /\ NestInv /\ FramesInv /\ WorkInv /\ LowerInv /\ RestInv
        /\ OnceInv /\ ScheduledInv /\ RunningInv

LEMMA InitInv == InitAll => IInv
<1> SUFFICES ASSUME InitAll PROVE IInv
  OBVIOUS
<1>0. /\ MaxTime \in Nat /\ UserTimerMinimum \in Nat /\ T!NoTask = -1
  BY MaxTimeIs DEF T!NoTask
<1>1. /\ have_work_ = 0 /\ delayed_work_time_ = Null /\ wm_timer = Null
      /\ messages = <<>> /\ incoming_queue_ = <<>> /\ work_queue_ = <<>>
      /\ delayed_work_queue_ = <<>> /\ stack = <<>>
      /\ nestable_tasks_allowed_ = TRUE /\ now = 0
      /\ poster = [p \in Posters |-> "idle"]
      /\ is_running_ = FALSE /\ scheduled_task_ = 0 /\ delay_ = T!NoTask
      /\ scheduled_run_time_ = 0 /\ desired_run_time_ = 0 /\ asked = 0
  BY DEF InitAll, Init, T!Init
<1>2. Len(stack) = 0 /\ \A i \in DOMAIN stack : FALSE
  BY <1>1
<1>3. TypeInv
  <2>1. \A V : <<>> \in Seq(V)
    OBVIOUS
  <2>2. StackType
    BY <1>1, <1>2, <2>1 DEF StackType, StackOK
  <2>3. PumpType
    BY <1>1, <2>1 DEF PumpType
  <2>4. QueuesType
    BY <1>1, <2>1 DEF QueuesType
  <2>5. TimerType
    <3>1. 0 \in 0 .. MaxTime /\ 0 \in 0 .. 2 * MaxTime
      BY <1>0
    <3>2. QED
      BY <1>1, <3>1 DEF TimerType
  <2>6. QED
    BY <1>1, <2>2, <2>3, <2>4, <2>5 DEF TypeInv
<1>4. NestInv
  <2>1. {0} \in SUBSET Nat /\ 0 \in {0}
    OBVIOUS
  <2>2. NestOK(stack, {0}, nestable_tasks_allowed_)
    BY <1>1, <1>2 DEF NestOK
  <2>3. QED
    BY <2>1, <2>2 DEF NestInv
<1>5. FramesInv
  BY <1>1 DEF FramesInv
<1>6. WorkInv
  <2>1. Mail = 0 /\ Taken = 0
    BY <1>1, CountEmpty DEF Mail, Taken
  <2>2. Posting = {}
    BY <1>1 DEF Posting
  <2>3. Cardinality(Posting) = 0
    BY <2>2, FS_EmptySet
  <2>4. QED
    BY <1>1, <2>1, <2>3 DEF WorkInv
<1>7. LowerInv /\ RestInv
  BY <1>1, <1>2 DEF LowerInv, RestInv, AtRest
<1>8. OnceInv
  <2>1. SUFFICES ASSUME NEW id \in TaskIds
                 PROVE  Held(id) <= 1
    BY DEF OnceInv
  <2>2. Queued(Named(id)) = 0 /\ Stacked(Holding(id)) = 0
    BY <1>1, CountEmpty DEF Queued, Stacked
  <2>3. QED
    BY <2>2 DEF Held
<1>9. ScheduledInv /\ RunningInv
  BY <1>1 DEF ScheduledInv, RunningInv
<1>10. QED
  BY <1>3, <1>4, <1>5, <1>6, <1>7, <1>8, <1>9 DEF IInv

LEMMA StepInv == IInv /\ [Next]_allvars => IInv'
<1> SUFFICES ASSUME IInv, [Next]_allvars PROVE IInv'
  OBVIOUS
<1>1. /\ TypeInv /\ NestInv /\ FramesInv /\ WorkInv /\ LowerInv /\ RestInv
      /\ OnceInv /\ ScheduledInv /\ RunningInv
  BY DEF IInv
<1>2. CASE Next
  <2>1. TypeInv'
    BY <1>1, <1>2, TypeStep DEF RunningInv
  <2>2. NestInv'
    BY <1>1, <1>2, NestStep
  <2>3. FramesInv' /\ WorkInv'
    BY <1>1, <1>2, FramesStep, WorkStep
  <2>4. LowerInv'
    BY <1>1, <1>2, LowerStep
  <2>5. RestInv'
    BY <1>1, <1>2, RestStep
  <2>6. OnceInv' /\ ScheduledInv' /\ RunningInv'
    BY <1>1, <1>2, <2>1, TimerStep
  <2>7. QED
    BY <2>1, <2>2, <2>3, <2>4, <2>5, <2>6 DEF IInv
<1>3. CASE UNCHANGED allvars
  <2>1. /\ UNCHANGED <<have_work_, delayed_work_time_, messages, wm_timer>>
        /\ UNCHANGED <<incoming_queue_, work_queue_, delayed_work_queue_>>
        /\ UNCHANGED <<nestable_tasks_allowed_, stack, poster, now>>
        /\ UNCHANGED <<is_running_, delay_, scheduled_task_, scheduled_run_time_,
                       desired_run_time_, asked>>
    BY <1>3 DEF allvars, vars, pump, queues, timervars
  <2>2. TypeInv'
    BY <1>1, <2>1 DEF TypeInv, StackType, PumpType, QueuesType, TimerType
  <2>3. NestInv' /\ FramesInv' /\ LowerInv'
    BY <1>1, <2>1 DEF NestInv, FramesInv, LowerInv
  <2>4. WorkInv'
    BY <1>1, <2>1 DEF WorkInv, Mail, Posting, Taken
  <2>5. RestInv'
    BY <1>1, <2>1 DEF RestInv, AtRest, Top, WorkSignalled
  <2>6. OnceInv'
    BY <1>1, <2>1 DEF OnceInv, Held, Queued, Stacked
  <2>7. ScheduledInv' /\ RunningInv'
    BY <1>1, <2>1 DEF ScheduledInv, RunningInv, Queued, Stacked, OnTime, HoldingInTime,
         Named, Holding
  <2>8. QED
    BY <2>2, <2>3, <2>4, <2>5, <2>6, <2>7 DEF IInv
<1>4. QED
  BY <1>2, <1>3

LEMMA AlwaysInv == Spec => []IInv
BY InitInv, StepInv, PTL DEF Spec

\* The pump's counters, message queue, task queues and posters, the clock and the
\* timer have their types; in the delayed queue every task has a time.
THEOREM UITimerTypeCorrect == Spec => []TypeOK
<1>1. ASSUME TypeInv
      PROVE  TypeOK
  <2>0. /\ incoming_queue_ \in Seq(PendingTasks) /\ work_queue_ \in Seq(PendingTasks)
        /\ delayed_work_queue_ \in Seq(DelayedTasks)
        /\ DelayedTasks \subseteq PendingTasks
    BY <1>1 DEF TypeInv, QueuesType, DelayedTasks
  <2>1. ASSUME NEW V, NEW list \in Seq(V)
        PROVE  Entries(list) \subseteq V
    BY DEF Entries
  <2>2. Pending \subseteq PendingTasks /\ Entries(delayed_work_queue_) \subseteq DelayedTasks
    BY <2>0, <2>1 DEF Pending
  <2>3. \A task \in Pending : task.id \in TaskIds \/ task = Plain
    BY <2>2 DEF PendingTasks
  <2>4. \A task \in DelayedTasks : task.time \in 1 .. 2 * MaxTime
    BY DEF DelayedTasks, PendingTasks, Plain, Times
  <2>5. QED
    BY <1>1, <2>2, <2>3, <2>4 DEF TypeOK, TypeInv, PumpType, TimerType
<1>2. IInv => TypeOK
  BY <1>1 DEF IInv
<1>3. QED
  BY <1>2, AlwaysInv, PTL

\* At most one kMsgHaveWork is ever pending, and have_work_ is 1 exactly while it is
\* in the thread's queue, about to be posted, or taken by a call that will clear
\* the flag; however deep the loops are nested and however many threads post.
THEOREM WorkMessageAccountedHolds == Spec => []WorkMessageAccounted
<1>1. ASSUME TypeInv, WorkInv
      PROVE  WorkMessageAccounted
  <2>1. Positions(messages, {"work"}) = {i \in DOMAIN messages : messages[i] = "work"}
    BY DEF Positions
  <2>2. Positions(stack, Taking) = {i \in DOMAIN stack : \/ stack[i].pc \in {"replace", "clear"}}
    <3>1. \A i \in DOMAIN stack : stack[i] \in Frames
      BY <1>1 DEF TypeInv, StackType, StackOK
    <3>2. QED
      BY <3>1 DEF Positions, Taking
  <2>3. Mail + Cardinality(Posting) + Taken = have_work_
    BY <1>1 DEF WorkInv
  <2>4. Mail \in Nat /\ Cardinality(Posting) \in Nat /\ Taken \in Nat
    BY <1>1, WorkParts
  <2>5. QED
    BY <2>1, <2>2, <2>3 DEF WorkMessageAccounted, Mail, Posting, Taken, Count
<1>2. IInv => WorkMessageAccounted
  BY <1>1 DEF IInv
<1>3. QED
  BY <1>2, AlwaysInv, PTL

\* When Run goes to sleep nothing is left behind: for a task in a queue a
\* kMsgHaveWork is on its way, and the sleep ends when the first delayed task is due.
THEOREM RunWakesInTimeHolds == Spec => []RunWakesInTime
<1>1. IInv => RunWakesInTime
  BY RestWakes DEF IInv
<1>2. QED
  BY <1>1, AlwaysInv, PTL

\* A running timer has its scheduled task in a queue of the loop or about to run, no
\* later than the user's task is to run.
THEOREM TimerHasTaskHolds == Spec => []TimerHasTask
<1>1. ASSUME TypeInv, ScheduledInv, RunningInv, is_running_
      PROVE  /\ scheduled_task_ # 0
             /\ \E task \in Arriving : task.id = scheduled_task_ /\ task.time <= desired_run_time_
  <2>0. /\ scheduled_task_ # 0 /\ scheduled_run_time_ <= desired_run_time_
        /\ Queued(OnTime) + Stacked(HoldingInTime) >= 1
    BY <1>1 DEF RunningInv, ScheduledInv
  <2>1. scheduled_run_time_ \in Nat /\ desired_run_time_ \in Nat /\ Null = -1
    BY <1>1, MaxTimeIs DEF TypeInv, TimerType, Null
  <2>2. Queued(OnTime) >= 1 \/ Stacked(HoldingInTime) >= 1
    <3>1. Queued(OnTime) \in Nat /\ Stacked(HoldingInTime) \in Nat
      BY <1>1, SumIs
    <3>2. QED
      BY <2>0, <3>1
  <2>3. CASE Queued(OnTime) >= 1
    <3>1. PICK task \in Pending : task \in OnTime
      BY <1>1, <2>3, SumOf
    <3>2. task.id = scheduled_task_ /\ (task.time = scheduled_run_time_ \/ task.time = Null)
      BY <3>1 DEF OnTime, Named
    <3>3. task.time <= desired_run_time_
      BY <2>0, <2>1, <3>2
    <3>4. QED
      BY <2>0, <3>2, <3>3 DEF Arriving
  <2>4. CASE Stacked(HoldingInTime) >= 1
    <3>1. PICK i \in DOMAIN stack : stack[i] \in HoldingInTime
      BY <1>1, <2>4, SumOf
    <3>2. stack[i].task = scheduled_task_
      BY <3>1 DEF HoldingInTime, Holding
    <3>3. [id |-> stack[i].task, time |-> Null] \in Arriving
      BY <3>1 DEF Arriving
    <3>4. Null <= desired_run_time_
      BY <2>1
    <3>5. QED
      BY <2>0, <3>2, <3>3, <3>4
  <2>5. QED
    BY <2>0, <2>2, <2>3, <2>4
<1>2. IInv => TimerHasTask
  BY <1>1 DEF IInv, TimerHasTask
<1>3. QED
  BY <1>2, AlwaysInv, PTL

\* The user's task runs only while the timer runs, and not before its delay is over,
\* counted from the last Start, Reset or repetition: the scheduled task that runs is
\* in no queue any more, so it is the one that was in time.
THEOREM NeverFiresEarlyHolds == Spec => NeverFiresEarly
<1>1. ASSUME IInv, TaskRuns, T!RunsUserTask(Top.task, Top.task, now)
      PROVE  is_running_ /\ now >= asked
  <2>0. TypeInv /\ OnceInv /\ ScheduledInv /\ RunningInv
    BY <1>1 DEF IInv
  <2>1. /\ scheduled_task_ = Top.task /\ is_running_ /\ ~T!TooEarly(now)
        /\ scheduled_task_ # 0
        /\ scheduled_run_time_ <= desired_run_time_ /\ asked = desired_run_time_
    BY <1>1, <2>0 DEF T!RunsUserTask, RunningInv
  <2>2. now \in Nat /\ scheduled_run_time_ \in Nat /\ desired_run_time_ \in Nat
    BY <2>0, MaxTimeIs DEF TypeInv, TimerType
  <2>3. scheduled_task_ \in TaskIds
    BY <2>0, <2>1 DEF TypeInv, TimerType
  <2>4. PICK i \in DOMAIN stack : stack[i] = Top /\ Top \in Frames
    <3>1. stack # <<>> /\ stack \in Seq(Frames)
      BY <1>1, <2>0 DEF TaskRuns, In, TypeInv, StackType, StackOK
    <3>2. Top = stack[Len(stack)] /\ Len(stack) \in DOMAIN stack /\ stack[Len(stack)] \in Frames
      BY <3>1 DEF Top, Last
    <3>3. QED
      BY <3>2
  <2>5. Stacked(Holding(scheduled_task_)) >= 1
    <3>1. stack[i] \in Holding(scheduled_task_)
      BY <2>1, <2>4 DEF Holding
    <3>2. QED
      BY <2>0, <3>1, SumOf
  <2>6. Queued(Named(scheduled_task_)) = 0
    <3>1. Queued(Named(scheduled_task_)) + Stacked(Holding(scheduled_task_)) <= 1
      BY <2>0, <2>3 DEF OnceInv, Held
    <3>2. Queued(Named(scheduled_task_)) \in Nat /\ Stacked(Holding(scheduled_task_)) \in Nat
      BY <2>0, SumIs
    <3>3. QED
      BY <2>5, <3>1, <3>2
  <2>7. Queued(OnTime) = 0 /\ Stacked(HoldingInTime) \in Nat
    <3>1. \A task \in PendingTasks : task \in OnTime => task \in Named(scheduled_task_)
      BY DEF OnTime
    <3>2. Queued(OnTime) <= Queued(Named(scheduled_task_))
      BY <2>0, <3>1, SumMono
    <3>3. Queued(OnTime) \in Nat /\ Stacked(HoldingInTime) \in Nat
      BY <2>0, SumIs
    <3>4. QED
      BY <2>6, <3>2, <3>3
  <2>8. Stacked(HoldingInTime) >= 1
    BY <2>0, <2>1, <2>7 DEF ScheduledInv
  <2>9. PICK j \in DOMAIN stack : stack[j] \in HoldingInTime
    BY <2>0, <2>8, SumOf
  <2>10. scheduled_run_time_ <= now
    BY <2>9 DEF HoldingInTime
  <2>11. desired_run_time_ <= now
    BY <2>1, <2>2, <2>10 DEF T!TooEarly
  <2>12. QED
    BY <2>1, <2>2, <2>11
<1>2. IInv /\ [Next]_allvars =>
        [TaskRuns /\ T!RunsUserTask(Top.task, Top.task, now) => is_running_ /\ now >= asked]_allvars
  BY <1>1
<1>3. QED
  BY <1>2, AlwaysInv, PTL DEF Spec, NeverFiresEarly

-----------------------------------------------------------------------------
(* The WM_TIMER that a modal loop depends on.                              *)

Sorted(list) == \A i, j \in DOMAIN list : i < j => list[i].time <= list[j].time

\* Insert keeps the order, and puts a task first or leaves the first one.
LEMMA InsertSorts ==
  ASSUME NEW list \in Seq(DelayedTasks), Sorted(list), NEW task \in DelayedTasks
  PROVE  LET new == Insert(list, task) IN
         /\ new \in Seq(DelayedTasks) /\ new # <<>> /\ Sorted(new)
         /\ Head(new) = task \/ (list # <<>> /\ Head(new) = Head(list))
<1> DEFINE n == Len(list)
           S == {i \in DOMAIN list : list[i].time <= task.time}
           L == {i \in 1 .. Len(list) + 1 : i \notin S}
<1>1. n \in Nat /\ DOMAIN list = 1 .. n
  OBVIOUS
<1>2. \A e \in DelayedTasks : e.time \in Int
  BY MaxTimeIs DEF DelayedTasks, PendingTasks, Plain, Times
<1>3. \A i \in 1 .. n : list[i] \in DelayedTasks /\ list[i].time \in Int
  BY <1>2
<1>4. PICK l \in L : \A i \in L : l <= i
  <2>1. n + 1 \in L /\ \A i \in L : i \in Nat
    BY <1>1
  <2>2. QED
    BY <2>1, LeastElement
<1>5. l \in 1 .. n + 1 /\ l \notin S
  BY <1>4
<1>6. \A i \in 1 .. l - 1 : i \in S
  <2>1. ASSUME NEW i \in 1 .. l - 1, i \notin S
        PROVE  FALSE
    <3>1. i \in L
      BY <1>1, <1>5, <2>1
    <3>2. QED
      BY <1>4, <1>5, <2>1, <3>1
  <2>2. QED
    BY <2>1
<1>7. \A i \in l .. n : task.time < list[i].time /\ i \notin S
  <2>1. ASSUME NEW i \in l .. n
        PROVE  task.time < list[i].time /\ i \notin S
    <3>1. l \in 1 .. n /\ i \in 1 .. n
      BY <1>1, <1>5
    <3>2. list[l].time <= list[i].time
      BY <1>1, <1>3, <3>1 DEF Sorted
    <3>3. task.time < list[l].time
      BY <1>1, <1>2, <1>3, <1>5, <3>1
    <3>4. QED
      BY <1>2, <1>3, <3>1, <3>2, <3>3
  <2>2. QED
    BY <2>1
<1>8. S = 1 .. l - 1
  <2>1. \A i \in S : i \in 1 .. n
    BY <1>1
  <2>2. QED
    BY <1>1, <1>5, <1>6, <1>7, <2>1
<1>9. Cardinality(S) = l - 1
  <2>1. 1 \in Int /\ l - 1 \in Int
    BY <1>1, <1>5
  <2>2. Cardinality(1 .. l - 1) = IF 1 > l - 1 THEN 0 ELSE l - 1 - 1 + 1
    BY <2>1, FS_Interval
  <2>3. Cardinality(S) = Cardinality(1 .. l - 1)
    BY <1>8
  <2>4. l \in Nat /\ l >= 1
    BY <1>1, <1>5
  <2> HIDE DEF S
  <2>5. QED
    BY <2>2, <2>3, <2>4
<1> DEFINE new == InsertAt(list, l, task)
<1>10. Insert(list, task) = new
  <2>1. Insert(list, task) = InsertAt(list, Cardinality(S) + 1, task)
    BY DEF Insert
  <2>2. Cardinality(S) + 1 = l
    BY <1>1, <1>5, <1>9
  <2>3. QED
    BY <2>1, <2>2
<1>11. \A i \in 1 .. l - 1 : list[i].time <= task.time
  BY <1>6
<1> HIDE DEF S, L
<1>12. /\ new \in Seq(DelayedTasks) /\ Len(new) = n + 1 /\ new[l] = task
       /\ \A i \in 1 .. l - 1 : new[i] = list[i]
       /\ \A i \in l .. n : new[i + 1] = list[i]
  BY <1>5, InsertAtIs
<1> HIDE DEF new, n
<1>13. DOMAIN new = 1 .. n + 1
  BY <1>12
<1>a. \A i \in l + 1 .. n + 1 : i - 1 \in l .. n /\ new[i] = list[i - 1]
  <2>1. ASSUME NEW i \in l + 1 .. n + 1
        PROVE  i - 1 \in l .. n /\ new[i] = list[i - 1]
    <3>1. i - 1 \in l .. n /\ i - 1 + 1 = i
      BY <1>1, <1>5
    <3>2. new[i - 1 + 1] = list[i - 1]
      BY <1>12, <3>1
    <3>3. QED
      BY <3>1, <3>2
  <2>2. QED
    BY <2>1
<1>14. ASSUME NEW i \in DOMAIN new, NEW j \in DOMAIN new, i < j
       PROVE  new[i].time <= new[j].time
  <2>0. i \in 1 .. n + 1 /\ j \in 1 .. n + 1 /\ i \in Int /\ j \in Int /\ l \in Int
    BY <1>5, <1>13, <1>14
  <2>1. CASE j < l
    <3>1. i \in 1 .. l - 1 /\ j \in 1 .. l - 1 /\ i \in 1 .. n /\ j \in 1 .. n
      BY <1>1, <1>5, <1>14, <2>0, <2>1
    <3>2. QED
      BY <1>1, <1>12, <1>14, <3>1 DEF Sorted
  <2>2. CASE i < l /\ j = l
    <3>1. i \in 1 .. l - 1
      BY <2>0, <2>2
    <3>2. QED
      BY <1>11, <1>12, <2>2, <3>1
  <2>3. CASE i < l /\ j > l
    <3>1. i \in 1 .. l - 1 /\ j \in l + 1 .. n + 1 /\ i \in 1 .. n
      BY <1>1, <1>5, <2>0, <2>3
    <3>2. j - 1 \in l .. n /\ j - 1 \in 1 .. n
      BY <1>1, <1>5, <3>1
    <3>3. list[i].time <= task.time /\ task.time < list[j - 1].time
      BY <1>7, <1>11, <3>1, <3>2
    <3>4. new[i].time = list[i].time /\ new[j].time = list[j - 1].time
      BY <1>12, <1>a, <3>1
    <3>5. QED
      BY <1>2, <1>3, <3>1, <3>2, <3>3, <3>4
  <2>4. CASE i = l
    <3>1. j \in l + 1 .. n + 1
      BY <1>1, <1>5, <1>14, <2>0, <2>4
    <3>2. j - 1 \in l .. n /\ j - 1 \in 1 .. n
      BY <1>1, <1>5, <3>1
    <3>3. task.time < list[j - 1].time /\ new[j].time = list[j - 1].time /\ new[i].time = task.time
      BY <1>7, <1>12, <1>a, <2>4, <3>1, <3>2
    <3>4. QED
      BY <1>2, <1>3, <3>2, <3>3
  <2>5. CASE i > l
    <3>1. i \in l + 1 .. n + 1 /\ j \in l + 1 .. n + 1
      BY <1>1, <1>5, <1>14, <2>0, <2>5
    <3>2. i - 1 \in 1 .. n /\ j - 1 \in 1 .. n /\ i - 1 < j - 1
      BY <1>1, <1>5, <1>14, <3>1
    <3>3. list[i - 1].time <= list[j - 1].time
      BY <1>1, <3>2 DEF Sorted
    <3>4. QED
      BY <1>a, <3>1, <3>3
  <2>6. QED
    BY <1>14, <2>0, <2>1, <2>2, <2>3, <2>4, <2>5
<1>15. Head(new) = new[1] /\ new # <<>>
  <2>1. Len(new) # 0
    BY <1>1, <1>12
  <2>2. QED
    BY <1>12, <2>1
<1>16. Head(new) = task \/ (list # <<>> /\ Head(new) = Head(list))
  <2>1. CASE l = 1
    BY <1>12, <1>15, <2>1
  <2>2. CASE l # 1
    <3>1. 1 \in 1 .. l - 1 /\ 1 \in 1 .. n
      BY <1>1, <1>5, <2>2
    <3>2. list # <<>> /\ Head(list) = list[1]
      BY <3>1 DEF n
    <3>3. QED
      BY <1>12, <1>15, <3>1, <3>2
  <2>3. QED
    BY <2>1, <2>2
<1>17. QED
  BY <1>10, <1>12, <1>14, <1>15, <1>16 DEF Sorted

LEMMA TailSorted ==
  ASSUME NEW list \in Seq(DelayedTasks), Sorted(list), list # <<>>, Tail(list) # <<>>
  PROVE  /\ Sorted(Tail(list))
         /\ Len(list) # 1 /\ list[2] = Head(Tail(list))
         /\ Head(list).time <= Head(Tail(list)).time
<1> DEFINE tail == Tail(list)
<1>1. PICK n \in Nat : n = Len(list) /\ n # 0
  BY EmptySeq
<1>2. /\ tail \in Seq(DelayedTasks) /\ Len(tail) = n - 1
      /\ \A i \in 1 .. n - 1 : tail[i] = list[i + 1]
  BY <1>1
<1>3. Len(tail) # 0
  BY <1>2, EmptySeq
<1>4. Head(tail) = tail[1] /\ Head(list) = list[1]
  BY <1>1, <1>2, <1>3
<1> HIDE DEF tail
<1>5. n >= 2 /\ 1 \in 1 .. n - 1 /\ 1 \in 1 .. n /\ 2 \in 1 .. n
  BY <1>1, <1>2, <1>3
<1>6. \A i, j \in 1 .. n : i < j => list[i].time <= list[j].time
  BY <1>1 DEF Sorted
<1>7. ASSUME NEW i \in 1 .. n - 1, NEW j \in 1 .. n - 1, i < j
      PROVE  tail[i].time <= tail[j].time
  <2>1. i + 1 \in 1 .. n /\ j + 1 \in 1 .. n /\ i + 1 < j + 1
    BY <1>7
  <2>2. QED
    BY <1>2, <1>6, <2>1
<1>8. DOMAIN tail = 1 .. n - 1
  BY <1>1, <1>2
<1>9. Sorted(tail)
  BY <1>7, <1>8 DEF Sorted
<1>10. tail[1] = list[2]
  BY <1>2, <1>5
<1>11. QED
  BY <1>1, <1>4, <1>5, <1>6, <1>9, <1>10 DEF tail

TimerHandled == \E i \in DOMAIN stack : stack[i].kind = "timer"

\* A call of HandleTimerMessage ends in one of two ways only.
LEMMA TimerFrameStays ==
  ASSUME TypeInv, Next, TimerHandled, ~TimerMessageHandled, ~(KillTimer /\ ~Running)
  PROVE  TimerHandled'
<1>0. /\ StackType /\ nestable_tasks_allowed_ \in BOOLEAN
      /\ stack \in Seq(Frames) /\ Len(stack) \in Nat /\ DOMAIN stack = 1 .. Len(stack)
  BY DEF TypeInv, StackType, StackOK
<1>1. PICK i \in 1 .. Len(stack) : stack[i].kind = "timer"
  BY <1>0 DEF TimerHandled
<1>2. stack # <<>>
  BY <1>0, <1>1
<1>3. ASSUME NEW f \in Frames, f.kind = Top.kind
      PROVE  /\ With(stack, f) \in Seq(Frames) /\ Len(With(stack, f)) = Len(stack)
             /\ With(stack, f)[i].kind = "timer"
  <2>1. /\ With(stack, f) \in Seq(Frames) /\ Len(With(stack, f)) = Len(stack)
        /\ With(stack, f)[Len(stack)] = f
        /\ \A k \in 1 .. Len(stack) - 1 : With(stack, f)[k] = stack[k]
    BY <1>0, <1>2, WithIs
  <2>2. Top = stack[Len(stack)]
    BY <1>0, <1>2, StackTop
  <2>3. i = Len(stack) \/ i \in 1 .. Len(stack) - 1
    <3>1. PICK n \in Nat : n = Len(stack)
      BY <1>0
    <3>2. i \in 1 .. n
      BY <3>1
    <3>3. i = n \/ i \in 1 .. n - 1
      BY <3>2
    <3>4. QED
      BY <3>1, <3>3
  <2>4. QED
    BY <1>1, <1>3, <2>1, <2>2, <2>3
<1>4. ASSUME NEW new \in Seq(Frames), Len(new) = Len(stack), new[i].kind = "timer",
             NEW g \in Frames, stack' = Append(new, g)
      PROVE  TimerHandled'
  <2>1. /\ stack' \in Seq(Frames) /\ Len(stack') = Len(stack) + 1
        /\ \A k \in 1 .. Len(stack) : stack'[k] = new[k]
    BY <1>4, PushIs
  <2>2. i \in DOMAIN stack' /\ stack'[i].kind = "timer"
    BY <1>0, <1>4, <2>1
  <2>3. QED
    BY <2>2 DEF TimerHandled
<1>5. CASE StackStays
  BY <1>0, <1>1, <1>5 DEF StackStays, TimerHandled
<1>6. CASE StackMoves
  <2>1. PICK f \in Frames : f.kind = Top.kind /\ stack' = With(stack, f)
    BY <1>6 DEF StackMoves, SameCall
  <2>2. stack' \in Seq(Frames) /\ Len(stack') = Len(stack) /\ stack'[i].kind = "timer"
    BY <1>3, <2>1
  <2>3. i \in DOMAIN stack'
    BY <1>0, <2>2
  <2>4. QED
    BY <2>2, <2>3 DEF TimerHandled
<1>7. CASE StackDispatches \/ StackRuns
  <2>1. PICK f \in Frames, g \in Frames : f.kind = Top.kind /\ stack' = Append(With(stack, f), g)
    BY <1>7 DEF StackDispatches, StackRuns, CallsOn, SameCall
  <2>2. QED
    BY <1>3, <1>4, <2>1
<1>8. CASE Return
  <2>0. \/ WorkOutsideRun \/ WorkMessageHandled \/ RunEnds \/ ModalLoopEnds \/ BodyReturns
    BY <1>8 DEF Return
  <2>a. Top.kind # "timer"
    BY <2>0 DEF WorkOutsideRun, WorkMessageHandled, RunEnds, ModalLoopEnds, BodyReturns,
       InBody, In
  <2>1. stack' = Front(stack) /\ Top.kind # "timer"
    BY <1>0, <1>8, <2>a, ReturnIs
  <2>2. /\ stack' \in Seq(Frames) /\ Len(stack') = Len(stack) - 1
        /\ \A k \in 1 .. Len(stack) - 1 : stack'[k] = stack[k]
    BY <1>0, <1>2, <2>1, FrontIs
  <2>3. i # Len(stack)
    BY <1>0, <1>1, <1>2, <2>1, StackTop
  <2>4. i \in DOMAIN stack' /\ stack'[i] = stack[i]
    <3>1. PICK n \in Nat : n = Len(stack)
      BY <1>0
    <3>2. i \in 1 .. n - 1
      BY <2>3, <3>1
    <3>3. Len(stack') = n - 1 /\ DOMAIN stack' = 1 .. n - 1
      BY <2>2, <3>1
    <3>4. QED
      BY <2>2, <3>1, <3>2, <3>3
  <2>5. QED
    BY <1>1, <2>4 DEF TimerHandled
<1>9. CASE Open
  <2>1. PICK g \in Frames : stack' = Append(stack, g)
    BY <1>0, <1>9, OpenIs
  <2>2. QED
    BY <1>0, <1>1, <1>4, <2>1
<1>10. CASE StackQuits
  <2>1. PICK k \in DOMAIN stack, f \in Frames :
          Marks(stack, k, f) /\ stack' = [stack EXCEPT ![k] = f]
    BY <1>10 DEF StackQuits
  <2>2. /\ stack' \in Seq(Frames) /\ Len(stack') = Len(stack) /\ stack'[k] = f
        /\ \A j \in DOMAIN stack : j # k => stack'[j] = stack[j]
    BY <1>0, <2>1, MarkedIs
  <2>3. i \in DOMAIN stack' /\ stack'[i].kind = stack[i].kind
    BY <1>0, <2>1, <2>2 DEF Marks
  <2>4. QED
    BY <1>1, <2>3 DEF TimerHandled
<1>11. QED
  BY <1>5, <1>6, <1>7, <1>8, <1>9, <1>10, StackSteps

\* Other steps leave the delayed queue and its times.
LEMMA OtherStepsLeaveDelays ==
  ASSUME Next, ~TimeSteps
  PROVE  UNCHANGED <<delayed_work_time_, wm_timer, delayed_work_queue_, timer_dropped>>
<1>1. CASE UserCalls \/ TaskRuns
  BY <1>1 DEF UserCalls, TaskRuns, PumpRest
<1>2. CASE Pump \/ Client \/ Environment
  BY <1>2 DEF TimeSteps, Pump, Client, Environment, pump, queues,
         DoRunLoop, DoWork, DoDelayedWork, HandleWorkMessage, HandleTimerMessage,
         ProcessNextWindowsMessage, PeekReplacement, DispatchReplacement, WorkOutsideRun,
         DoWorkNothing, ReloadWorkQueue, DoWorkRun, WorkMessageHandled,
         WaitForWork, RunEnds, RunBegins,
         ModalLoopBegins, ModalLoopDispatches, ModalLoopEnds, QuitsNow, BodyReturns,
         MessageArrives, Tick, Poster, PosterPushes, PosterExchanges, PosterPosts
<1>3. QED
  BY <1>1, <1>2 DEF Next

\* SetTimer was called, for the first delayed task or an earlier one.
TimerSet == wm_timer # Null /\ wm_timer <= LaterOf(Head(delayed_work_queue_).time, now + UserTimerMinimum)

TimeKnown == \/ delayed_work_time_ = Head(delayed_work_queue_).time
             \/ delayed_work_time_ = Null /\ timer_dropped

\* The WM_TIMER is kept in every loop, whoever runs it.
ServedInv ==
  /\ Sorted(delayed_work_queue_)
  /\ delayed_work_queue_ # <<>> => TimeKnown /\ (TimerSet \/ timer_dropped \/ TimerHandled)

LEMMA ServedStep ==
  ASSUME IInv, IInv', ServedInv, Next
  PROVE  ServedInv'
<1>0. /\ TypeInv /\ NestInv /\ StackType /\ StackType'
      /\ delayed_work_queue_ \in Seq(DelayedTasks)
      /\ work_queue_ \in Seq(PendingTasks)
      /\ now \in Int /\ UserTimerMinimum \in Nat /\ wm_timer \in Int /\ Null = -1
      /\ delayed_work_time_ = Null \/ delayed_work_time_ \in Nat
  BY MaxTimeIs DEF IInv, TypeInv, QueuesType, PumpType, TimerType, Null
<1>1. \A task \in DelayedTasks : task.time \in Nat /\ task.time # Null
  BY MaxTimeIs DEF DelayedTasks, PendingTasks, Plain, Times, Null
<1>2. delayed_work_queue_ # <<>> => Head(delayed_work_queue_) \in DelayedTasks
  BY <1>0, TailElements
<1>3. now' = now \/ now' = now + 1
  BY <1>0, NowStep
<1>4. ASSUME NEW time \in Nat, SetTimer(time), delayed_work_queue_' # <<>>,
             Head(delayed_work_queue_').time = time, now' = now
      PROVE  TimerSet'
  <2>1. wm_timer' = IF time - now < UserTimerMinimum THEN now + UserTimerMinimum ELSE time
    BY <1>4 DEF SetTimer
  <2>2. wm_timer' # Null
    <3>1. now \in Nat
      BY <1>0 DEF TypeInv, TimerType
    <3>2. QED
      BY <1>0, <2>1, <3>1
  <2>3. wm_timer' <= LaterOf(time, now + UserTimerMinimum)
    BY <1>0, <2>1 DEF LaterOf
  <2>4. QED
    BY <1>4, <2>2, <2>3 DEF TimerSet
<1>5. ASSUME TimerSet, UNCHANGED wm_timer, delayed_work_queue_ # <<>>,
             delayed_work_queue_' # <<>>,
             Head(delayed_work_queue_').time \in Nat,
             Head(delayed_work_queue_).time <= Head(delayed_work_queue_').time
      PROVE  TimerSet'
  <2>1. PICK a \in Nat : a = Head(delayed_work_queue_).time
    BY <1>1, <1>2, <1>5
  <2>2. PICK b \in Nat : b = Head(delayed_work_queue_').time
    BY <1>5
  <2>3. wm_timer # Null /\ wm_timer <= LaterOf(a, now + UserTimerMinimum) /\ a <= b
    BY <1>5, <2>1, <2>2 DEF TimerSet
  <2>4. wm_timer <= LaterOf(b, now' + UserTimerMinimum)
    BY <1>0, <1>3, <2>3 DEF LaterOf
  <2>5. QED
    BY <1>5, <2>2, <2>3, <2>4 DEF TimerSet
<1>6. ASSUME UNCHANGED <<delayed_work_time_, wm_timer, delayed_work_queue_, timer_dropped>>,
             ~TimerMessageHandled, ~(KillTimer /\ ~Running)
      PROVE  ServedInv'
  <2>1. Sorted(delayed_work_queue_')
    BY <1>6 DEF ServedInv
  <2>2. ASSUME delayed_work_queue_' # <<>>
        PROVE  TimeKnown' /\ (TimerSet \/ timer_dropped \/ TimerHandled)'
    <3>1. TimeKnown /\ (TimerSet \/ timer_dropped \/ TimerHandled) /\ delayed_work_queue_ # <<>>
      BY <1>6, <2>2 DEF ServedInv
    <3>2. TimeKnown'
      BY <1>6, <3>1 DEF TimeKnown
    <3>3. CASE TimerSet
      <4>1. Head(delayed_work_queue_).time \in Nat
        BY <1>1, <1>2, <3>1
      <4>2. TimerSet'
        BY <1>5, <1>6, <3>1, <3>3, <4>1
      <4>3. QED
        BY <3>2, <4>2
    <3>4. CASE timer_dropped
      BY <1>6, <3>2, <3>4
    <3>5. CASE TimerHandled
      BY <1>0, <1>6, <3>2, <3>5, TimerFrameStays
    <3>6. QED
      BY <3>1, <3>3, <3>4, <3>5
  <2>3. QED
    BY <2>1, <2>2 DEF ServedInv
<1>7. CASE DoWorkDelayed
  <2>1. Head(work_queue_) \in DelayedTasks
    BY <1>0, <1>7, DoWorkDelayedIs DEF TypeInv
  <2>2. /\ delayed_work_queue_' = Insert(delayed_work_queue_, Head(work_queue_))
        /\ now' = now /\ UNCHANGED stack
        /\ IF Head(delayed_work_queue_') = Head(work_queue_)
           THEN ScheduleDelayedWork(Head(work_queue_).time)
           ELSE UNCHANGED <<delayed_work_time_, wm_timer, timer_dropped>>
    BY <1>7 DEF DoWorkDelayed
  <2>3. /\ delayed_work_queue_' # <<>> /\ Sorted(delayed_work_queue_')
        /\ \/ Head(delayed_work_queue_') = Head(work_queue_)
           \/ /\ delayed_work_queue_ # <<>>
              /\ Head(delayed_work_queue_') = Head(delayed_work_queue_)
    BY <1>0, <2>1, <2>2, InsertSorts DEF ServedInv
  <2>4. CASE Head(delayed_work_queue_') = Head(work_queue_)
    <3>1. PICK time \in Nat : time = Head(work_queue_).time
      BY <1>1, <2>1
    <3>2. delayed_work_time_' = time /\ SetTimer(time)
      BY <2>2, <2>4, <3>1 DEF ScheduleDelayedWork
    <3>3. TimerSet'
      BY <1>4, <2>2, <2>3, <2>4, <3>1, <3>2
    <3>4. TimeKnown'
      BY <2>4, <3>1, <3>2 DEF TimeKnown
    <3>5. QED
      BY <2>3, <3>3, <3>4 DEF ServedInv
  <2>5. CASE Head(delayed_work_queue_') # Head(work_queue_)
    <3>1. /\ UNCHANGED <<delayed_work_time_, wm_timer, timer_dropped>>
          /\ delayed_work_queue_ # <<>>
          /\ Head(delayed_work_queue_') = Head(delayed_work_queue_)
      BY <2>2, <2>3, <2>5
    <3>2. TimeKnown /\ (TimerSet \/ timer_dropped \/ TimerHandled)
      BY <3>1 DEF ServedInv
    <3>3. TimeKnown'
      BY <3>1, <3>2 DEF TimeKnown
    <3>4. TimerSet => TimerSet'
      BY <2>2, <3>1 DEF TimerSet
    <3>5. TimerHandled => TimerHandled'
      BY <2>2 DEF TimerHandled
    <3>6. QED
      BY <2>3, <3>1, <3>2, <3>3, <3>4, <3>5 DEF ServedInv
  <2>6. QED
    BY <2>4, <2>5
<1>8. CASE DoDelayedWorkRun
  <2>1. /\ delayed_work_queue_ # <<>> /\ delayed_work_queue_' = Tail(delayed_work_queue_)
        /\ delayed_work_time_' = IF Len(delayed_work_queue_) = 1 THEN delayed_work_time_
                                 ELSE delayed_work_queue_[2].time
        /\ UNCHANGED <<wm_timer, timer_dropped>>
    BY <1>8 DEF DoDelayedWorkRun
  <2>2. CASE delayed_work_queue_' = <<>>
    BY <2>2 DEF ServedInv, Sorted
  <2>3. CASE delayed_work_queue_' # <<>>
    <3>1. /\ Sorted(delayed_work_queue_') /\ Len(delayed_work_queue_) # 1
          /\ delayed_work_queue_[2] = Head(delayed_work_queue_')
          /\ Head(delayed_work_queue_).time <= Head(delayed_work_queue_').time
      BY <1>0, <2>1, <2>3, TailSorted DEF ServedInv
    <3>2. TimeKnown'
      BY <2>1, <3>1 DEF TimeKnown
    <3>3. Head(delayed_work_queue_') \in DelayedTasks
      <4>1. delayed_work_queue_' \in Seq(DelayedTasks)
        BY <1>0, <2>1, TailElements
      <4>2. QED
        BY <2>3, <4>1, TailElements
    <3>4. Head(delayed_work_queue_').time \in Nat
      BY <1>1, <3>3
    <3>5. TimerSet => TimerSet'
      BY <1>5, <2>1, <2>3, <3>1, <3>4
    <3>6. TimerHandled => TimerHandled'
      <4>1. Top.kind \in {"run", "timer"} /\ Top.pc \in {"worked", "fire"}
        BY <1>8 DEF DoDelayedWorkRun, CallsDoDelayedWork, InRun, In
      <4>2. ~TimerMessageHandled /\ ~KillTimer
        BY <4>1 DEF TimerMessageHandled, KillTimer, In
      <4>3. QED
        BY <1>0, <4>2, TimerFrameStays
    <3>7. QED
      BY <2>1, <3>1, <3>2, <3>5, <3>6 DEF ServedInv
  <2>4. QED
    BY <2>2, <2>3
<1>9. CASE DoDelayedWorkNothing
  <2>1. /\ stack # <<>> /\ Top.kind \in {"run", "timer"}
        /\ ~nestable_tasks_allowed_ \/ delayed_work_queue_ = <<>>
        /\ delayed_work_time_' = Null /\ UNCHANGED delayed_work_queue_
        /\ timer_dropped' = (timer_dropped \/ (Top.kind = "timer" /\ delayed_work_queue_ # <<>>))
    BY <1>9 DEF DoDelayedWorkNothing, CallsDoDelayedWork, InRun, In, queues
  <2>2. ASSUME delayed_work_queue_ # <<>>
        PROVE  timer_dropped'
    <3>1. Top.kind # "run"
      BY <1>0, <2>1, <2>2, RunAllowed
    <3>2. QED
      BY <2>1, <2>2, <3>1
  <2>3. QED
    BY <2>1, <2>2 DEF ServedInv, TimeKnown
<1>10. CASE DoDelayedWorkNotDue
  <2>1. /\ delayed_work_time_' = Head(delayed_work_queue_).time
        /\ UNCHANGED <<wm_timer, delayed_work_queue_, timer_dropped, now>>
        /\ Top.kind \in {"run", "timer"} /\ Top.pc \in {"worked", "fire"}
    BY <1>10 DEF DoDelayedWorkNotDue, CallsDoDelayedWork, InRun, In, queues
  <2>2. ~TimerMessageHandled /\ ~KillTimer
    BY <2>1 DEF TimerMessageHandled, KillTimer, In
  <2>3. TimerHandled => TimerHandled'
    BY <1>0, <2>2, TimerFrameStays
  <2>4. TimeKnown'
    BY <2>1 DEF TimeKnown
  <2>5. TimerSet => TimerSet'
    BY <2>1 DEF TimerSet
  <2>6. QED
    BY <2>1, <2>3, <2>4, <2>5 DEF ServedInv
<1>11. CASE KillTimer
  <2>1. /\ stack # <<>> /\ Top.kind = "timer" /\ Top.pc = "kill"
        /\ UNCHANGED <<delayed_work_time_, delayed_work_queue_>>
        /\ timer_dropped' = (timer_dropped \/ ~Running)
    BY <1>11 DEF KillTimer, In, queues
  <2>2. Running => TimerHandled'
    <3>1. TimerHandled
      BY <1>0, <2>1, StackTop DEF TimerHandled
    <3>2. ~TimerMessageHandled
      BY <2>1 DEF TimerMessageHandled, In
    <3>3. QED
      BY <1>0, <3>1, <3>2, TimerFrameStays
  <2>3. QED
    BY <2>1, <2>2 DEF ServedInv, TimeKnown
<1>12. CASE TimerMessageHandled
  <2>1. /\ UNCHANGED <<delayed_work_queue_, now>>
        /\ IF delayed_work_time_ # Null THEN ScheduleDelayedWork(delayed_work_time_)
           ELSE UNCHANGED <<delayed_work_time_, wm_timer, timer_dropped>>
    BY <1>12 DEF TimerMessageHandled, queues
  <2>2. CASE delayed_work_queue_ = <<>>
    BY <2>1, <2>2 DEF ServedInv
  <2>3. CASE delayed_work_queue_ # <<>> /\ delayed_work_time_ = Null
    <3>1. timer_dropped
      BY <1>1, <1>2, <2>3 DEF ServedInv, TimeKnown
    <3>2. QED
      BY <2>1, <2>3, <3>1 DEF ServedInv, TimeKnown
  <2>4. CASE delayed_work_queue_ # <<>> /\ delayed_work_time_ # Null
    <3>1. PICK time \in Nat : time = delayed_work_time_
      BY <1>0, <2>4
    <3>2. Head(delayed_work_queue_).time = time
      BY <2>4, <3>1 DEF ServedInv, TimeKnown
    <3>3. delayed_work_time_' = time /\ SetTimer(time)
      BY <2>1, <2>4, <3>1 DEF ScheduleDelayedWork
    <3>4. TimerSet'
      BY <1>4, <2>1, <2>4, <3>2, <3>3
    <3>5. QED
      BY <2>1, <3>2, <3>3, <3>4 DEF ServedInv, TimeKnown
  <2>5. QED
    BY <2>2, <2>3, <2>4
<1>13. CASE DelayedWorkDone
  <2>1. /\ stack # <<>> /\ Top.kind = "run"
        /\ wm_timer' = IF Top.more /\ delayed_work_time_ = Null THEN Null ELSE wm_timer
        /\ UNCHANGED <<delayed_work_time_, delayed_work_queue_, timer_dropped, now>>
    BY <1>13 DEF DelayedWorkDone, InRun, In, queues
  <2>2. ~TimerMessageHandled /\ ~KillTimer
    BY <2>1 DEF TimerMessageHandled, KillTimer, In
  <2>3. CASE delayed_work_time_ # Null
    <3>1. UNCHANGED wm_timer
      BY <2>1, <2>3
    <3>2. QED
      BY <1>6, <2>1, <2>2, <3>1
  <2>4. CASE delayed_work_time_ = Null
    <3>1. delayed_work_queue_ # <<>> => timer_dropped
      BY <1>1, <1>2, <2>4 DEF ServedInv, TimeKnown
    <3>2. QED
      BY <2>1, <2>4, <3>1 DEF ServedInv, TimeKnown
  <2>5. QED
    BY <2>3, <2>4
<1>14. CASE ~TimeSteps
  BY <1>6, <1>14, OtherStepsLeaveDelays DEF TimeSteps
<1>15. QED
  BY <1>7, <1>8, <1>9, <1>10, <1>11, <1>12, <1>13, <1>14 DEF TimeSteps

LEMMA AlwaysServed == Spec => []ServedInv
<1>1. InitAll => ServedInv
  BY DEF InitAll, Init, ServedInv, Sorted
<1>2. IInv /\ IInv' /\ ServedInv /\ [Next]_allvars => ServedInv'
  <2>1. ASSUME IInv, IInv', ServedInv, UNCHANGED allvars
        PROVE  ServedInv'
    <3>1. UNCHANGED <<delayed_work_time_, wm_timer, delayed_work_queue_, timer_dropped, now, stack>>
      BY <2>1 DEF allvars, vars, pump, queues
    <3>2. QED
      BY <2>1, <3>1 DEF ServedInv, TimeKnown, TimerSet, TimerHandled
  <2>2. QED
    BY <2>1, ServedStep
<1>3. QED
  BY <1>1, <1>2, AlwaysInv, PTL DEF Spec

\* In a modal loop that lets tasks run WM_TIMER comes in time for the first delayed
\* task, unless one was lost on a loop that did not let tasks run, or the
\* call that handles it is still under way.  Nothing in it depends on the loop: the
\* timer is kept in all.
THEOREM ModalLoopServesTimersHolds == Spec => []ModalLoopServesTimers
<1>1. ServedInv => ModalLoopServesTimers
  BY DEF ServedInv, ModalLoopServesTimers, TimerSet, TimerHandled
<1>2. QED
  BY <1>1, AlwaysServed, PTL

-----------------------------------------------------------------------------
(* Two loops on top of each other: what can stand on what.                 *)

IsLoop(f) == f.kind \in {"run", "native"}

CalledFrom(g, f) ==
  /\ IsLoop(g) => f.kind = "body"
  /\ g.kind = "work" => f.kind = "native"
  /\ g.kind = "body" /\ g.pc = "handler" => f.kind \in {"run", "work", "native"}

\* A loop is at the bottom, and one more at most above it.
Shaped(list) ==
  /\ list # <<>> => IsLoop(list[1])
  /\ \A i \in 2 .. Len(list) : CalledFrom(list[i], list[i - 1])
  /\ \A i, j \in 2 .. Len(list) : IsLoop(list[i]) /\ IsLoop(list[j]) => i = j

LEMMA ShapedSame ==
  ASSUME NEW list \in Seq(Frames), Shaped(list), NEW new \in Seq(Frames), Len(new) <= Len(list),
         \A i \in 1 .. Len(new) : /\ new[i].kind = list[i].kind
                                  /\ new[i].pc = "handler" <=> list[i].pc = "handler"
  PROVE  Shaped(new)
<1>1. PICK n \in Nat, m \in Nat : n = Len(list) /\ m = Len(new) /\ m <= n
  OBVIOUS
<1>2. ASSUME new # <<>> PROVE IsLoop(new[1])
  <2>1. 1 \in 1 .. m /\ list # <<>>
    BY <1>1, <1>2
  <2>2. QED
    BY <1>1, <2>1 DEF Shaped, IsLoop
<1>3. \A i \in 2 .. m : i \in 2 .. n /\ i \in 1 .. m /\ i - 1 \in 1 .. m
  BY <1>1
<1>4. \A i \in 2 .. m : CalledFrom(new[i], new[i - 1])
  BY <1>1, <1>3 DEF Shaped, CalledFrom, IsLoop
<1>5. \A i, j \in 2 .. m : IsLoop(new[i]) /\ IsLoop(new[j]) => i = j
  BY <1>1, <1>3 DEF Shaped, IsLoop
<1>6. QED
  BY <1>1, <1>2, <1>4, <1>5 DEF Shaped

LEMMA ShapedPush ==
  ASSUME NEW list \in Seq(Frames), Shaped(list), list # <<>>, NEW g \in Frames,
         CalledFrom(g, Last(list)),
         IsLoop(g) => \A i \in 2 .. Len(list) : ~IsLoop(list[i])
  PROVE  Shaped(Append(list, g))
<1> DEFINE new == Append(list, g)
<1>1. PICK n \in Nat : n = Len(list) /\ n >= 1
  BY EmptySeq
<1>2. /\ new \in Seq(Frames) /\ Len(new) = n + 1 /\ new[n + 1] = g
      /\ \A i \in 1 .. n : new[i] = list[i]
  BY <1>1, PushIs
<1>3. Last(list) = list[n]
  BY <1>1, TopIs
<1> HIDE DEF new
<1>4. IsLoop(new[1])
  BY <1>1, <1>2 DEF Shaped
<1>5. ASSUME NEW i \in 2 .. n + 1 PROVE CalledFrom(new[i], new[i - 1])
  <2>1. CASE i = n + 1
    BY <1>1, <1>2, <1>3, <2>1
  <2>2. CASE i # n + 1
    <3>1. i \in 2 .. n /\ i \in 1 .. n /\ i - 1 \in 1 .. n
      BY <1>1, <2>2
    <3>2. CalledFrom(list[i], list[i - 1])
      BY <1>1, <3>1 DEF Shaped
    <3>3. QED
      BY <1>2, <3>1, <3>2
  <2>3. QED
    BY <2>1, <2>2
<1>6. ASSUME NEW i \in 2 .. n + 1, NEW j \in 2 .. n + 1, IsLoop(new[i]), IsLoop(new[j])
      PROVE  i = j
  <2>0. \A k \in 2 .. n + 1 : k # n + 1 => k \in 2 .. n /\ new[k] = list[k]
    BY <1>1, <1>2
  <2>1. \A k \in 2 .. n : IsLoop(list[k]) => ~IsLoop(g)
    BY <1>1
  <2>2. CASE i = n + 1 \/ j = n + 1
    BY <1>2, <1>6, <2>0, <2>1, <2>2
  <2>3. CASE i # n + 1 /\ j # n + 1
    BY <1>1, <1>6, <2>0, <2>3 DEF Shaped
  <2>4. QED
    BY <2>2, <2>3
<1>7. QED
  BY <1>2, <1>4, <1>5, <1>6 DEF Shaped, new

\* A loop is opened only on a stack with one.
LEMMA OneLoop ==
  ASSUME MaxLoops <= 2, NEW n \in Nat, StackType, n = Len(stack), IsLoop(stack[1]),
         Loops < MaxLoops, NEW i \in 2 .. n
  PROVE  ~IsLoop(stack[i])
<1> SUFFICES ASSUME IsLoop(stack[i]) PROVE FALSE
  OBVIOUS
<1> DEFINE S == {k \in DOMAIN stack : stack[k].kind \in {"run", "native"}}
<1>1. DOMAIN stack = 1 .. n /\ MaxLoops \in Nat
  BY PumpAssumption DEF StackType, StackOK
<1>2. IsFiniteSet(1 .. n)
  BY FS_Interval
<1>3. S \in SUBSET (1 .. n) /\ 1 \in S /\ i \in S /\ i # 1
  BY <1>1 DEF IsLoop
<1>4. Loops = Cardinality(S)
  BY DEF Loops
<1> HIDE DEF S
<1>5. IsFiniteSet(S) /\ Cardinality(S) \in Nat
  BY <1>2, <1>3, FS_Subset, FS_CardinalityType
<1>6. IsFiniteSet(S \ {1}) /\ Cardinality(S \ {1}) = Cardinality(S) - 1
  BY <1>3, <1>5, FS_RemoveElement
<1>7. i \in S \ {1}
  BY <1>3
<1>8. Cardinality(S \ {1}) # 0
  BY <1>6, <1>7, FS_EmptySet
<1>9. PICK c \in Nat : c = Cardinality(S \ {1}) /\ c # 0 /\ Cardinality(S) = c + 1
  BY <1>5, <1>6, <1>8, FS_CardinalityType
<1>10. QED
  BY <1>1, <1>4, <1>9

ShapeInv == Shaped(stack)

LEMMA ShapeStep ==
  ASSUME MaxLoops <= 2, TypeInv, FramesInv, ShapeInv, Next
  PROVE  ShapeInv'
<1>0. /\ StackType /\ nestable_tasks_allowed_ \in BOOLEAN
      /\ stack \in Seq(Frames) /\ Shaped(stack)
  BY DEF TypeInv, StackType, StackOK, ShapeInv
<1>1. PICK n \in Nat : n = Len(stack) /\ DOMAIN stack = 1 .. n
  BY <1>0
<1>t. stack # <<>> => n # 0 /\ Top = stack[n] /\ Top = Last(stack) /\ Top \in Frames
  BY <1>0, <1>1, EmptySeq, TopIs DEF Top
<1>2. ASSUME stack # <<>>, NEW f \in Frames, SameCall(Top, f)
      PROVE  /\ With(stack, f) \in Seq(Frames) /\ Shaped(With(stack, f))
             /\ With(stack, f) # <<>> /\ Last(With(stack, f)) = f
  <2>1. /\ With(stack, f) \in Seq(Frames) /\ Len(With(stack, f)) = n
        /\ With(stack, f)[n] = f
        /\ \A k \in 1 .. n - 1 : With(stack, f)[k] = stack[k]
        /\ With(stack, f) # <<>> /\ Last(With(stack, f)) = f
    BY <1>0, <1>1, <1>2, WithIs
  <2>2. \A k \in 1 .. n : k # n => k \in 1 .. n - 1
    BY <1>1
  <2>3. \A k \in 1 .. n : /\ With(stack, f)[k].kind = stack[k].kind
                          /\ With(stack, f)[k].pc = "handler" <=> stack[k].pc = "handler"
    BY <1>2, <1>t, <2>1, <2>2 DEF SameCall
  <2>4. QED
    BY <1>0, <1>1, <2>1, <2>3, ShapedSame
<1>3. CASE StackStays
  BY <1>3 DEF StackStays, ShapeInv
<1>4. CASE StackMoves
  BY <1>2, <1>4 DEF StackMoves, ShapeInv
<1>5. ASSUME NEW f \in Frames, NEW g, CallsOn(f, g), CalledFrom(g, Top), ~IsLoop(g)
      PROVE  ShapeInv'
  <2>1. /\ stack # <<>> /\ SameCall(Top, f) /\ g \in Frames
        /\ stack' = Append(With(stack, f), g)
    BY <1>5 DEF CallsOn
  <2>2. CalledFrom(g, f)
    BY <1>5, <2>1 DEF SameCall, CalledFrom
  <2>3. QED
    BY <1>2, <1>5, <2>1, <2>2, ShapedPush DEF ShapeInv
<1>6. CASE StackDispatches
  <2>1. PICK f \in Frames, msg \in Messages :
          /\ CallsOn(f, Called(msg))
          /\ msg = "work" => Top.kind = "native" \/ (Top.pc = "clear" /\ Top.msg = "work")
    BY <1>6 DEF StackDispatches
  <2>2. stack # <<>>
    BY <2>1 DEF CallsOn
  <2>3. Top \in ProperFrames
    BY <1>1, <1>t, <2>2, ElementOfSeq DEF FramesInv
  <2>4. msg = "work" => Top.kind = "native"
    BY <2>1, <2>3 DEF ProperFrames
  <2>5. /\ Called(msg).kind \in {"work", "timer", "body"}
        /\ Called(msg).kind = "work" => msg = "work"
    BY CalledIs
  <2>6. CalledFrom(Called(msg), Top) /\ ~IsLoop(Called(msg))
    BY <1>6, <2>4, <2>5 DEF StackDispatches, CalledFrom, IsLoop
  <2>7. QED
    BY <1>5, <2>1, <2>6
<1>7. CASE StackRuns
  <2>1. PICK f \in Frames, id \in TaskIds \cup {0} : CallsOn(f, Body(id))
    BY <1>7 DEF StackRuns
  <2>2. Body(id).kind = "body" /\ Body(id).pc \in {"in", "begin"}
    BY BodyIs
  <2>3. CalledFrom(Body(id), Top) /\ ~IsLoop(Body(id))
    BY <2>2 DEF CalledFrom, IsLoop
  <2>4. QED
    BY <1>5, <2>1, <2>3
<1>8. CASE Return
  <2>1. stack # <<>> /\ stack' = Front(stack)
    BY <1>0, <1>8, ReturnIs
  <2>2. /\ stack' \in Seq(Frames) /\ Len(stack') = n - 1
        /\ \A k \in 1 .. n - 1 : stack'[k] = stack[k]
    BY <1>0, <1>1, <2>1, FrontIs
  <2>3. QED
    BY <1>0, <1>1, <2>2, ShapedSame DEF ShapeInv
<1>9. CASE Open
  <2>1. PICK g \in Frames : stack' = Append(stack, g) /\ IsLoop(g)
    BY <1>0, <1>9, OpenIs DEF IsLoop
  <2>2. stack = <<>> \/ (Top.kind = "body" /\ stack # <<>> /\ Loops < MaxLoops)
    BY <1>9 DEF Open, RunBegins, ModalLoopBegins, InBody, In
  <2>3. CASE stack = <<>>
    <3>1. /\ stack' \in Seq(Frames) /\ Len(stack') = 1 /\ stack'[1] = g
      BY <2>1, <2>3
    <3>2. QED
      BY <2>1, <3>1 DEF Shaped, ShapeInv
  <2>4. CASE stack # <<>>
    <3>1. \A i \in 2 .. n : ~IsLoop(stack[i])
      BY <1>0, <1>1, <2>2, <2>4, OneLoop DEF Shaped
    <3>2. CalledFrom(g, Last(stack))
      BY <1>t, <2>1, <2>2, <2>4 DEF CalledFrom, IsLoop
    <3>3. QED
      BY <1>0, <1>1, <2>1, <2>4, <3>1, <3>2, ShapedPush DEF ShapeInv
  <2>5. QED
    BY <2>3, <2>4
<1>10. CASE StackQuits
  <2>1. PICK k \in DOMAIN stack, f \in Frames :
          Marks(stack, k, f) /\ stack' = [stack EXCEPT ![k] = f]
    BY <1>10 DEF StackQuits
  <2>2. /\ stack' \in Seq(Frames) /\ Len(stack') = n /\ stack'[k] = f
        /\ \A j \in 1 .. n : j # k => stack'[j] = stack[j]
    BY <1>0, <1>1, <2>1, MarkedIs
  <2>3. \A j \in 1 .. n : /\ stack'[j].kind = stack[j].kind
                          /\ stack'[j].pc = "handler" <=> stack[j].pc = "handler"
    BY <2>1, <2>2 DEF Marks
  <2>4. QED
    BY <1>0, <1>1, <2>2, <2>3, ShapedSame DEF ShapeInv
<1>11. QED
  BY <1>3, <1>4, <1>6, <1>7, <1>8, <1>9, <1>10, StackSteps

-----------------------------------------------------------------------------
(* The kMsgHaveWork for a modal loop that a task opened.                   *)

Waiting == incoming_queue_ # <<>> \/ work_queue_ # <<>>

\* A task is first in incoming_queue_ when it is posted, and then it is signalled.
LEMMA WaitStep ==
  ASSUME TypeInv, Next, Waiting', ~Waiting
  PROVE  WorkSignalled'
<1>0. poster \in [Posters -> {"idle", "exchange", "post"}] /\ have_work_ \in {0, 1}
  BY DEF TypeInv, PumpType
<1>1. incoming_queue_ = <<>> /\ work_queue_ = <<>>
  BY DEF Waiting
<1>2. CASE UserCalls \/ TaskRuns
  <2>1. \/ UNCHANGED incoming_queue_
        \/ ScheduleWork
    BY <1>1, <1>2 DEF UserCalls, TaskRuns, PostsScheduledTask, AddToIncomingQueue
  <2>2. UNCHANGED work_queue_
    BY <1>2 DEF UserCalls, TaskRuns, PumpRest
  <2>3. ScheduleWork
    BY <1>1, <2>1, <2>2 DEF Waiting
  <2>4. QED
    BY <2>3 DEF ScheduleWork, WorkSignalled
<1>3. CASE \E p \in Posters : PosterPushes(p)
  <2>1. PICK p \in Posters : PosterPushes(p)
    BY <1>3
  <2>2. poster'[p] = "exchange"
    BY <1>0, <1>1, <2>1 DEF PosterPushes
  <2>3. QED
    BY <2>2 DEF WorkSignalled
<1>4. CASE ReloadWorkQueue \/ DoWorkDelayed \/ DoWorkRun
  BY <1>1, <1>4 DEF ReloadWorkQueue, DoWorkDelayed, DoWorkRun
<1>5. CASE DoDelayedWorkRun
  BY <1>1, <1>5 DEF DoDelayedWorkRun, Waiting
<1>6. CASE ~QueueSteps
  BY <1>1, <1>6, OtherStepsLeaveQueues DEF QueuesStay, queues, Waiting
<1>7. QED
  BY <1>2, <1>3, <1>4, <1>5, <1>6 DEF QueueSteps

\* The signal is taken back only before the tasks are looked at.
LEMMA SignalStep ==
  ASSUME TypeInv, WorkInv, Next, WorkSignalled
  PROVE  \/ WorkSignalled'
         \/ DispatchReplacement /\ Top.msg = "none"
         \/ WorkOutsideRun
<1>0. poster \in [Posters -> {"idle", "exchange", "post"}] /\ have_work_ \in {0, 1}
  BY DEF TypeInv, PumpType
<1>1. CASE UserCalls \/ TaskRuns
  BY <1>1 DEF UserCalls, TaskRuns, PostsScheduledTask, AddToIncomingQueue, ScheduleWork,
         PumpRest, WorkSignalled
<1>2. CASE DispatchReplacement
  BY <1>2 DEF DispatchReplacement, WorkSignalled
<1>3. ASSUME NEW p \in Posters, Poster(p)
      PROVE  WorkSignalled'
  <2>1. CASE PosterPushes(p)
    <3>1. /\ poster[p] = "idle" /\ have_work_' = have_work_
          /\ poster' = [poster EXCEPT ![p] = IF incoming_queue_ = <<>> THEN "exchange" ELSE @]
      BY <2>1 DEF PosterPushes, pump
    <3>2. \A q \in Posters : poster[q] # "idle" => poster'[q] # "idle"
      BY <1>0, <3>1
    <3>3. QED
      BY <3>1, <3>2 DEF WorkSignalled
  <2>2. CASE PosterExchanges(p)
    BY <2>2 DEF PosterExchanges, WorkSignalled
  <2>3. CASE PosterPosts(p)
    <3>1. p \in Posting
      BY <2>3 DEF PosterPosts, Posting
    <3>2. /\ IsFiniteSet(Posting) /\ Cardinality(Posting) \in Nat
          /\ Mail \in Nat /\ Taken \in Nat
      BY WorkParts
    <3>3. Cardinality(Posting) # 0
      BY <3>1, <3>2, FS_EmptySet
    <3>4. \A a, b, c \in Nat : b # 0 => a + b + c # 0
      OBVIOUS
    <3>5. Mail + Cardinality(Posting) + Taken # 0
      BY <3>2, <3>3, <3>4
    <3>6. have_work_ = 1
      BY <1>0, <3>5 DEF WorkInv
    <3>7. QED
      BY <2>3, <3>6 DEF PosterPosts, WorkSignalled
  <2>4. QED
    BY <1>3, <2>1, <2>2, <2>3 DEF Poster
<1>4. CASE \/ (Pump /\ ~DispatchReplacement /\ ~WorkOutsideRun) \/ Client
           \/ MessageArrives \/ Tick
  <2>1. UNCHANGED poster /\ (have_work_' = have_work_ \/ have_work_' = 1)
    BY <1>4 DEF Pump, Client, pump, ScheduleWork, AllowNestableTasks,
         DoRunLoop, DoWork, DoDelayedWork, HandleWorkMessage, HandleTimerMessage,
         ProcessNextWindowsMessage, PeekReplacement,
         DoWorkNothing, ReloadWorkQueue, DoWorkDelayed, DoWorkRun, WorkMessageHandled,
         DoDelayedWorkNothing, DoDelayedWorkNotDue, DoDelayedWorkRun, KillTimer,
         TimerMessageHandled, DelayedWorkDone, WaitForWork, RunEnds, RunBegins,
         ModalLoopBegins, ModalLoopDispatches, ModalLoopEnds, QuitsNow, BodyReturns,
         MessageArrives, Tick
  <2>2. QED
    BY <2>1 DEF WorkSignalled
<1>5. QED
  BY <1>1, <1>2, <1>3, <1>4 DEF Next, Environment

\* What a step leaves of the frames.
SameFrame(f, g) == /\ g.kind = f.kind /\ g.old = f.old
                   /\ g.pc = "handler" <=> f.pc = "handler"

LEMMA FramesKept ==
  ASSUME TypeInv, Next, NEW n, n = Len(stack)
  PROVE  /\ n \in Nat /\ stack' \in Seq(Frames)
         /\ Len(stack') \in n - 1 .. n + 1
         /\ \A k \in 1 .. n : k <= Len(stack') => SameFrame(stack[k], stack'[k])
         /\ \A k \in 1 .. n - 1 : /\ stack'[k].pc = stack[k].pc
                                  /\ stack'[k].more = stack[k].more
         /\ Len(stack') = n + 1 /\ stack'[n + 1].kind = "native" => Open
<1>0. /\ StackType /\ nestable_tasks_allowed_ \in BOOLEAN
      /\ stack \in Seq(Frames) /\ n \in Nat /\ DOMAIN stack = 1 .. n
  BY DEF TypeInv, StackType, StackOK
<1>t. stack # <<>> => n # 0 /\ Top = stack[n] /\ Top = Last(stack) /\ Top \in Frames
  BY <1>0, EmptySeq, TopIs DEF Top
<1>s. \A k \in 1 .. n : SameFrame(stack[k], stack[k])
  BY DEF SameFrame
<1>e. \A k \in 1 .. n : k # n => k \in 1 .. n - 1
  BY <1>0
<1>b. \A k \in 1 .. n - 1 : k \in 1 .. n
  BY <1>0
<1>2. ASSUME stack # <<>>, NEW f \in Frames, SameCall(Top, f)
      PROVE  /\ With(stack, f) \in Seq(Frames) /\ Len(With(stack, f)) = n
             /\ \A k \in 1 .. n - 1 : With(stack, f)[k] = stack[k]
             /\ \A k \in 1 .. n : SameFrame(stack[k], With(stack, f)[k])
  <2>1. /\ With(stack, f) \in Seq(Frames) /\ Len(With(stack, f)) = n
        /\ With(stack, f)[n] = f
        /\ \A k \in 1 .. n - 1 : With(stack, f)[k] = stack[k]
    BY <1>0, <1>2, WithIs
  <2>2. SameFrame(stack[n], f)
    BY <1>2, <1>t DEF SameCall, SameFrame
  <2>3. \A k \in 1 .. n : SameFrame(stack[k], With(stack, f)[k])
    BY <1>s, <1>e, <2>1, <2>2
  <2>4. QED
    BY <2>1, <2>3
<1>3. CASE StackStays
  <2>1. stack' = stack
    BY <1>3 DEF StackStays
  <2>2. QED
    BY <1>0, <1>s, <2>1
<1>4. CASE StackMoves
  <2>1. PICK f \in Frames : stack # <<>> /\ SameCall(Top, f) /\ stack' = With(stack, f)
    BY <1>4 DEF StackMoves
  <2>2. /\ stack' \in Seq(Frames) /\ Len(stack') = n
        /\ \A k \in 1 .. n - 1 : stack'[k] = stack[k]
        /\ \A k \in 1 .. n : SameFrame(stack[k], stack'[k])
    BY <1>2, <2>1
  <2>3. QED
    BY <1>0, <2>2
<1>5. CASE StackDispatches \/ StackRuns
  <2>0. \A id \in TaskIds \cup {0} : Body(id).kind # "native"
    BY BodyIs
  <2>a. \A msg : Called(msg).kind # "native"
    BY CalledIs
  <2>1. PICK f \in Frames, g \in Frames : CallsOn(f, g) /\ g.kind # "native"
    BY <1>5, <2>0, <2>a DEF StackDispatches, StackRuns, CallsOn
  <2>2. stack # <<>> /\ SameCall(Top, f) /\ stack' = Append(With(stack, f), g)
    BY <2>1 DEF CallsOn
  <2>3. PICK new \in Seq(Frames) :
          /\ new = With(stack, f) /\ Len(new) = n
          /\ \A k \in 1 .. n - 1 : new[k] = stack[k]
          /\ \A k \in 1 .. n : SameFrame(stack[k], new[k])
    BY <1>2, <2>2
  <2>4. /\ stack' \in Seq(Frames) /\ Len(stack') = n + 1 /\ stack'[n + 1] = g
        /\ \A k \in 1 .. n : stack'[k] = new[k]
    BY <2>2, <2>3, PushIs
  <2>5. QED
    BY <1>0, <1>b, <2>1, <2>3, <2>4
<1>6. CASE Return
  <2>1. stack # <<>> /\ stack' = Front(stack)
    BY <1>0, <1>6, ReturnIs
  <2>2. /\ stack' \in Seq(Frames) /\ Len(stack') = n - 1
        /\ \A k \in 1 .. n - 1 : stack'[k] = stack[k]
    BY <1>0, <2>1, FrontIs
  <2>3. QED
    BY <1>0, <1>b, <1>s, <2>2
<1>7. CASE Open
  <2>1. PICK g \in Frames : stack' = Append(stack, g)
    BY <1>0, <1>7, OpenIs
  <2>2. /\ stack' \in Seq(Frames) /\ Len(stack') = n + 1
        /\ \A k \in 1 .. n : stack'[k] = stack[k]
    BY <1>0, <2>1, PushIs
  <2>3. QED
    BY <1>0, <1>7, <1>b, <1>s, <2>2
<1>8. CASE StackQuits
  <2>1. PICK k \in DOMAIN stack, f \in Frames :
          Marks(stack, k, f) /\ stack' = [stack EXCEPT ![k] = f]
    BY <1>8 DEF StackQuits
  <2>2. /\ stack' \in Seq(Frames) /\ Len(stack') = n /\ stack'[k] = f
        /\ \A j \in 1 .. n : j # k => stack'[j] = stack[j]
    BY <1>0, <2>1, MarkedIs
  <2>3. \A j \in 1 .. n : /\ SameFrame(stack[j], stack'[j])
                          /\ stack'[j].pc = stack[j].pc /\ stack'[j].more = stack[j].more
    BY <2>1, <2>2 DEF Marks, SameFrame
  <2>4. QED
    BY <1>0, <1>b, <2>2, <2>3
<1>9. QED
  BY <1>3, <1>4, <1>5, <1>6, <1>7, <1>8, StackSteps

\* A native loop that a task of the Run below opened, and allowed tasks in.
OpenedByTask(i) ==
  /\ stack[i].kind = "native" /\ stack[i].old # "none"
  /\ stack[i - 1].pc # "handler" /\ stack[1].kind = "run"

\* A call of HandleWorkMessage that will look at the tasks, or post another message.
WillServe(f) == /\ f.kind = "work"
                /\ f.pc \in {"replace", "clear", "work"} \/ (f.pc = "worked" /\ f.more)

TasksInv ==
  \A i \in 2 .. Len(stack) : OpenedByTask(i) /\ Waiting =>
    WorkSignalled \/ (i < Len(stack) /\ WillServe(stack[i + 1]))

\* A call of HandleWorkMessage on the top of such a loop.
LEMMA TopServes ==
  ASSUME StackType, ShapeInv, NestInv, NEW n \in Nat, n = Len(stack), NEW i \in 2 .. n,
         OpenedByTask(i), Top.kind = "work"
  PROVE  n = i + 1 /\ nestable_tasks_allowed_ /\ Running
<1>1. stack \in Seq(Frames) /\ DOMAIN stack = 1 .. n /\ Top = stack[n] /\ i \in Nat
  BY TopIs DEF StackType, StackOK, Top, Last
<1>2. Running
  BY <1>1 DEF OpenedByTask, Running
<1>3. n # i /\ n - 1 \in 1 .. n /\ n \in 2 .. n
  BY <1>1 DEF OpenedByTask
<1>4. stack[n - 1].kind = "native"
  BY <1>1, <1>3 DEF ShapeInv, Shaped, CalledFrom
<1>5. n - 1 # 1
  BY <1>4 DEF OpenedByTask
<1>6. n - 1 \in 2 .. n
  BY <1>3, <1>5
<1>7. n - 1 = i
  BY <1>1, <1>4, <1>6 DEF ShapeInv, Shaped, IsLoop, OpenedByTask
<1>8. PICK A \in SUBSET Nat : NestOK(stack, A, nestable_tasks_allowed_)
  BY DEF NestInv
<1>9. i \in A
  <2>1. Linked(stack[i], A, i)
    BY <1>1, <1>8 DEF NestOK
  <2>2. QED
    BY <2>1 DEF Linked, OpenedByTask
<1>10. nestable_tasks_allowed_
  <2>1. Linked(stack[n], A, n) /\ (n \in A <=> nestable_tasks_allowed_)
    BY <1>1, <1>3, <1>8 DEF NestOK
  <2>2. QED
    BY <1>1, <1>7, <1>9, <2>1 DEF Linked
<1>11. QED
  BY <1>1, <1>2, <1>7, <1>10

\* What its steps leave of it.
LEMMA ServingStep ==
  ASSUME TypeInv, NestInv, ShapeInv, Next, NEW n \in Nat, n = Len(stack), NEW i \in 2 .. n,
         OpenedByTask(i), Top.kind = "work", WillServe(Top), Waiting, ~WorkSignalled'
  PROVE  n <= Len(stack') /\ WillServe(stack'[n])
<1>0. /\ StackType /\ PumpType /\ QueuesType /\ stack \in Seq(Frames) /\ stack # <<>>
      /\ Top = stack[n]
  BY TopIs DEF TypeInv, StackType, StackOK, Top, Last
<1>1. n = i + 1 /\ nestable_tasks_allowed_ /\ Running
  BY <1>0, TopServes
<1>2. ASSUME NEW f \in Frames, stack' = With(stack, f) PROVE Len(stack') = n /\ stack'[n] = f
  BY <1>0, <1>2, WithIs
<1>3. ASSUME NEW f \in Frames, NEW g \in Frames, stack' = Append(With(stack, f), g)
      PROVE  n <= Len(stack') /\ stack'[n] = f
  <2>1. PICK new \in Seq(Frames) : new = With(stack, f) /\ Len(new) = n /\ new[n] = f
    BY <1>0, WithIs
  <2>2. Len(stack') = n + 1 /\ \A k \in 1 .. n : stack'[k] = new[k]
    BY <1>3, <2>1, PushIs
  <2>3. n \in 1 .. n
    OBVIOUS
  <2>4. QED
    BY <2>1, <2>2, <2>3
<1>4. CASE PeekReplacement
  <2>1. PICK f \in Frames : Moves(f) /\ f.pc = "clear"
    BY <1>0, <1>4, PeekReplacementIs
  <2>2. QED
    BY <1>2, <2>1 DEF Moves, SameCall, WillServe
<1>5. CASE DispatchReplacement
  <2>1. PICK f \in Frames : /\ f.pc = "work"
                            /\ Moves(f) \/ CallsOn(f, Called(Top.msg))
    BY <1>0, <1>5, DispatchReplacementIs
  <2>2. QED
    BY <1>2, <1>3, <2>1 DEF Moves, CallsOn, SameCall, WillServe
<1>6. CASE DoWorkNothing
  BY <1>1, <1>6 DEF DoWorkNothing, Waiting
<1>7. CASE ReloadWorkQueue \/ DoWorkDelayed \/ Environment \/ UserCalls
  <2>1. stack' = stack
    BY <1>7 DEF ReloadWorkQueue, DoWorkDelayed, Environment, MessageArrives, Tick, Poster,
           PosterPushes, PosterExchanges, PosterPosts, UserCalls
  <2>2. QED
    BY <1>0, <2>1
<1>8. CASE DoWorkRun
  <2>1. PICK f \in Frames : /\ f.pc = "worked" /\ f.more
                            /\ CallsOn(f, Body(Head(work_queue_).id))
    BY <1>0, <1>8, DoWorkRunIs
  <2>2. QED
    BY <1>3, <2>1 DEF CallsOn, SameCall, WillServe
<1>9. CASE WorkMessageHandled
  <2>1. Top.pc = "worked"
    BY <1>9 DEF WorkMessageHandled, In
  <2>2. Top.more
    BY <2>1 DEF WillServe
  <2>3. have_work_' = 1
    BY <1>9, <2>2 DEF WorkMessageHandled, ScheduleWork
  <2>4. QED
    BY <2>3 DEF WorkSignalled
<1>10. CASE WorkOutsideRun
  BY <1>1, <1>10 DEF WorkOutsideRun
<1>11. CASE \/ DoRunLoop \/ DoDelayedWork \/ HandleTimerMessage \/ ModalLoopDispatches
            \/ Client \/ TaskRuns
  <2>1. \/ Top.kind \in {"run", "timer", "native", "body"}
        \/ stack = <<>>
    BY <1>11 DEF DoRunLoop, DoDelayedWork, HandleTimerMessage, Client, TaskRuns,
           ProcessNextWindowsMessage, DoDelayedWorkNothing, DoDelayedWorkNotDue,
           DoDelayedWorkRun, CallsDoDelayedWork, KillTimer, TimerMessageHandled,
           DelayedWorkDone, WaitForWork, RunEnds, RunBegins, ModalLoopBegins,
           ModalLoopDispatches, ModalLoopEnds, QuitsNow, BodyReturns, InBody, InRun, In
  <2>2. QED
    BY <1>0, <2>1
<1>12. QED
  BY <1>4, <1>5, <1>6, <1>7, <1>8, <1>9, <1>10, <1>11
     DEF Next, Pump, DoWork, HandleWorkMessage

LEMMA TasksStep ==
  ASSUME MaxLoops <= 2, TypeInv, NestInv, FramesInv, WorkInv, ShapeInv, TasksInv, Next
  PROVE  TasksInv'
<1>0. /\ StackType /\ nestable_tasks_allowed_ \in BOOLEAN
      /\ stack \in Seq(Frames)
  BY DEF TypeInv, StackType, StackOK
<1>1. PICK n \in Nat : n = Len(stack) /\ DOMAIN stack = 1 .. n
  BY <1>0
<1>t. stack # <<>> => n # 0 /\ Top = stack[n] /\ Top \in Frames
  BY <1>0, <1>1, EmptySeq, TopIs DEF Top
<1>a. stack' \in Seq(Frames) /\ Len(stack') \in n - 1 .. n + 1
  BY <1>1, FramesKept
<1>2. PICK m \in Nat : m = Len(stack') /\ m \in n - 1 .. n + 1
  BY <1>a
<1>3. /\ \A k \in 1 .. n : k <= m => SameFrame(stack[k], stack'[k])
      /\ \A k \in 1 .. n - 1 : stack'[k].pc = stack[k].pc /\ stack'[k].more = stack[k].more
      /\ m = n + 1 /\ stack'[n + 1].kind = "native" => Open
  BY <1>1, <1>2, FramesKept
<1>4. SUFFICES ASSUME NEW i \in 2 .. m, OpenedByTask(i)', Waiting', ~WorkSignalled'
               PROVE  i < m /\ WillServe(stack'[i + 1])
  BY <1>2 DEF TasksInv, OpenedByTask, Waiting, WorkSignalled
<1>5. Waiting
  BY <1>4, WaitStep
<1>6. /\ stack'[i].kind = "native" /\ stack'[i].old # "none"
      /\ stack'[i - 1].pc # "handler" /\ stack'[1].kind = "run"
  BY <1>4 DEF OpenedByTask
<1>7. ASSUME i = n + 1
      PROVE  FALSE
  <2>1. Open /\ n # 0 /\ stack # <<>>
    BY <1>1, <1>2, <1>3, <1>6, <1>7
  <2>2. PICK g \in Frames :
          /\ stack' = Append(stack, g)
          /\ \/ g.kind = "native" /\ g.old = "none"
             \/ nestable_tasks_allowed_' = TRUE
    BY <1>0, <2>1, OpenIs
  <2>3. stack'[n + 1] = g /\ stack'[n] = stack[n]
    BY <1>0, <1>1, <2>1, <2>2, PushIs
  <2>4. g.kind = "native" /\ g.old # "none" /\ Top.pc # "handler"
    BY <1>2, <1>6, <1>7, <1>t, <2>1, <2>3
  <2>5. Top.kind = "body" /\ Top.pc = "in"
    BY <2>1, <2>4 DEF Open, RunBegins, ModalLoopBegins, InBody, In
  <2>6. ~nestable_tasks_allowed_
    <3>1. PICK A \in SUBSET Nat : NestOK(stack, A, nestable_tasks_allowed_)
      BY DEF NestInv
    <3>2. Linked(stack[n], A, n) /\ (n \in A <=> nestable_tasks_allowed_)
      BY <1>1, <2>1, <3>1 DEF NestOK
    <3>3. QED
      BY <1>t, <2>1, <2>5, <3>2 DEF Linked
  <2>7. have_work_' = 1
    BY <2>1, <2>2, <2>4, <2>6 DEF Open, RunBegins, ModalLoopBegins, AllowNestableTasks,
       ScheduleWork
  <2>8. QED
    BY <1>4, <2>7 DEF WorkSignalled
<1>8. /\ i \in 2 .. n /\ i \in 1 .. n /\ i - 1 \in 1 .. n /\ 1 \in 1 .. n
      /\ 1 <= m /\ i <= m /\ i - 1 <= m
  BY <1>2, <1>4, <1>7
<1>9. OpenedByTask(i)
  BY <1>3, <1>6, <1>8 DEF OpenedByTask, SameFrame
<1>10. stack # <<>>
  BY <1>1, <1>8
<1>11. CASE WorkSignalled
  <2>1. (DispatchReplacement /\ Top.msg = "none") \/ WorkOutsideRun
    BY <1>4, <1>11, SignalStep
  <2>2. Running
    BY <1>1, <1>8, <1>9 DEF OpenedByTask, Running
  <2>3. DispatchReplacement /\ Top.msg = "none"
    BY <2>1, <2>2 DEF WorkOutsideRun
  <2>4. PICK f \in Frames : /\ Top.kind \in {"run", "work"}
                            /\ f.pc = "work" /\ Moves(f)
    BY <1>0, <2>3, DispatchReplacementIs
  <2>5. f.kind = Top.kind /\ Len(stack') = n /\ stack'[n] = f
    BY <1>0, <1>1, <1>10, <2>4, WithIs DEF Moves, SameCall
  <2>6. Top.kind # "run"
    <3>1. ASSUME Top.kind = "run" PROVE FALSE
      <4>1. n \in 2 .. n
        BY <1>8
      <4>2. n = i
        BY <1>1, <1>8, <1>9, <1>10, <1>t, <3>1, <4>1 DEF ShapeInv, Shaped, IsLoop, OpenedByTask
      <4>3. QED
        BY <1>9, <1>10, <1>t, <3>1, <4>2 DEF OpenedByTask
    <3>2. QED
      BY <3>1
  <2>7. n = i + 1
    BY <1>0, <1>1, <1>8, <1>9, <2>4, <2>6, TopServes
  <2>8. QED
    BY <1>2, <1>8, <2>4, <2>5, <2>6, <2>7 DEF WillServe
<1>12. CASE ~WorkSignalled
  <2>1. i < n /\ WillServe(stack[i + 1])
    BY <1>1, <1>5, <1>8, <1>9, <1>12 DEF TasksInv
  <2>2. CASE i + 1 = n
    <3>1. Top.kind = "work" /\ WillServe(Top)
      BY <1>10, <1>t, <2>1, <2>2 DEF WillServe
    <3>2. n <= Len(stack') /\ WillServe(stack'[n])
      BY <1>1, <1>4, <1>5, <1>8, <1>9, <3>1, ServingStep
    <3>3. QED
      BY <1>2, <1>8, <2>2, <3>2
  <2>3. CASE i + 1 # n
    <3>1. i + 1 \in 1 .. n - 1 /\ i + 1 \in 1 .. n /\ i + 1 <= m /\ i < m
      BY <1>2, <1>8, <2>1, <2>3
    <3>2. QED
      BY <1>3, <2>1, <3>1 DEF WillServe, SameFrame
  <2>4. QED
    BY <2>2, <2>3
<1>13. QED
  BY <1>11, <1>12

LEMMA AlwaysTasks == ASSUME MaxLoops <= 2 PROVE Spec => [](ShapeInv /\ TasksInv)
<1>1. InitAll => ShapeInv /\ TasksInv
  <2>1. ASSUME InitAll PROVE Len(stack) = 0 /\ stack = <<>> /\ 2 .. Len(stack) = {}
    BY <2>1 DEF InitAll, Init
  <2>2. QED
    BY <2>1 DEF ShapeInv, Shaped, TasksInv
<1>2. IInv /\ ShapeInv /\ TasksInv /\ [Next]_allvars => (ShapeInv /\ TasksInv)'
  <2>1. ASSUME ShapeInv, TasksInv, UNCHANGED allvars
        PROVE  (ShapeInv /\ TasksInv)'
    <3>1. UNCHANGED <<have_work_, poster, incoming_queue_, work_queue_, stack>>
      BY <2>1 DEF allvars, vars, pump, queues
    <3>2. ShapeInv'
      BY <2>1, <3>1 DEF ShapeInv
    <3>3. TasksInv'
      BY <2>1, <3>1 DEF TasksInv, OpenedByTask, Waiting, WorkSignalled
    <3>4. QED
      BY <3>2, <3>3
  <2>2. ASSUME IInv, ShapeInv, TasksInv, Next
        PROVE  (ShapeInv /\ TasksInv)'
    BY <2>2, ShapeStep, TasksStep DEF IInv
  <2>3. QED
    BY <2>1, <2>2
<1>3. QED
  BY <1>1, <1>2, AlwaysInv, PTL DEF Spec

\* With one loop on top of a Run at most, a task that waits in a modal loop which lets
\* tasks run has a kMsgHaveWork on its way; except where a message that the Run
\* took directly opened the loop.  Three loops do break it, in the ways that the README
\* gives, so that the bound is part of the claim.
THEOREM ModalLoopServesTasksHolds ==
  ASSUME MaxLoops <= 2
  PROVE  Spec => []ModalLoopServesTasks
<1>1. ASSUME IInv, ShapeInv, TasksInv, ServesTasks, incoming_queue_ \o work_queue_ # <<>>
      PROVE  WorkSignalled \/ DirectFromRun
  <2>0. /\ NestInv /\ StackType /\ QueuesType /\ stack \in Seq(Frames)
        /\ stack # <<>> /\ Top.kind = "native" /\ Top.pc = "pump"
        /\ nestable_tasks_allowed_ /\ Running
    BY <1>1 DEF IInv, TypeInv, StackType, StackOK, ServesTasks, In
  <2>1. PICK n \in Nat : /\ n = Len(stack) /\ DOMAIN stack = 1 .. n
                         /\ n # 0 /\ Top = stack[n]
    BY <2>0, EmptySeq, TopIs DEF Top
  <2>2. Waiting
    <3>1. incoming_queue_ = <<>> /\ work_queue_ = <<>> => incoming_queue_ \o work_queue_ = <<>>
      OBVIOUS
    <3>2. QED
      BY <1>1, <3>1 DEF Waiting
  <2>3. PICK r \in 1 .. n : stack[r].kind = "run"
    BY <2>0, <2>1 DEF Running
  <2>4. r # n /\ n \in 2 .. n
    BY <2>0, <2>1, <2>3
  <2>5. r = 1
    <3>1. r \in 2 .. n => r = n
      BY <1>1, <2>0, <2>1, <2>3, <2>4 DEF ShapeInv, Shaped, IsLoop
    <3>2. r \in 2 .. n \/ r = 1
      BY <2>3
    <3>3. QED
      BY <2>4, <3>1, <3>2
  <2>6. stack[n - 1].kind = "body"
    BY <1>1, <2>0, <2>1, <2>4 DEF ShapeInv, Shaped, CalledFrom, IsLoop
  <2>7. n - 1 # 1 /\ n - 1 \in 2 .. n /\ n - 1 \in 1 .. n
    BY <2>3, <2>4, <2>5, <2>6
  <2>8. CASE stack[n - 1].pc = "handler"
    <3>1. stack[n - 1 - 1].kind \in {"run", "work", "native"}
      BY <1>1, <2>1, <2>6, <2>7, <2>8 DEF ShapeInv, Shaped, CalledFrom
    <3>2. ASSUME NEW k \in 1 .. n - 1
          PROVE  stack[k].kind # "native"
      <4>1. CASE k = 1
        BY <2>3, <2>5, <4>1
      <4>2. CASE k # 1
        <5>1. k \in 2 .. n /\ k # n
          BY <4>2
        <5>2. QED
          BY <1>1, <2>0, <2>1, <2>4, <5>1 DEF ShapeInv, Shaped, IsLoop
      <4>3. QED
        BY <4>1, <4>2
    <3>3. stack[n - 1 - 1].kind # "native"
      <4>1. n - 1 - 1 \in 1 .. n - 1
        BY <2>7
      <4>2. QED
        BY <3>2, <4>1
    <3>4. stack[n - 1 - 1].kind # "work"
      <4>1. ASSUME stack[n - 1 - 1].kind = "work" PROVE FALSE
        <5>1. n - 1 - 1 # 1
          BY <2>3, <2>5, <4>1
        <5>2. n - 1 - 1 \in 2 .. n /\ n - 1 - 1 - 1 \in 1 .. n - 1
          BY <2>7, <5>1
        <5>3. stack[n - 1 - 1 - 1].kind = "native"
          BY <1>1, <2>1, <4>1, <5>2 DEF ShapeInv, Shaped, CalledFrom
        <5>4. QED
          BY <3>2, <5>2, <5>3
      <4>2. QED
        BY <4>1
    <3>5. n >= 3 /\ n - 2 = n - 1 - 1
      BY <2>7
    <3>6. QED
      BY <2>1, <2>8, <3>1, <3>3, <3>4, <3>5 DEF DirectFromRun
  <2>9. CASE stack[n - 1].pc # "handler"
    <3>1. PICK A \in SUBSET Nat : NestOK(stack, A, nestable_tasks_allowed_)
      BY <2>0 DEF NestInv
    <3>2. n - 1 \notin A /\ n \in A
      <4>1. Linked(stack[n - 1], A, n - 1)
        BY <2>1, <2>7, <3>1 DEF NestOK
      <4>2. QED
        BY <2>0, <2>1, <2>6, <2>9, <3>1, <4>1 DEF Linked, NestOK
    <3>3. stack[n].old # "none"
      <4>1. Linked(stack[n], A, n)
        BY <2>1, <2>4, <3>1 DEF NestOK
      <4>2. QED
        BY <2>0, <2>1, <3>2, <4>1 DEF Linked
    <3>4. OpenedByTask(n)
      BY <2>0, <2>1, <2>3, <2>5, <2>9, <3>3 DEF OpenedByTask
    <3>5. WorkSignalled
      BY <1>1, <2>1, <2>2, <2>4, <3>4 DEF TasksInv
    <3>6. QED
      BY <3>5
  <2>10. QED
    BY <2>8, <2>9
<1>2. IInv /\ ShapeInv /\ TasksInv => ModalLoopServesTasks
  BY <1>1 DEF ModalLoopServesTasks
<1>3. QED
  BY <1>2, AlwaysInv, AlwaysTasks, PTL

=============================================================================
