-------------------------- MODULE WinXPCondVarProofs --------------------------
(***************************************************************************)
(* What holds of WinXPCondVar for every number of threads, whichever of    *)
(* them wait and whichever signal: its invariants, and that its steps are  *)
(* those of ConditionVariable.                                             *)
(***************************************************************************)
EXTENDS MCWinXPCondVar, ListLemmas

-----------------------------------------------------------------------------
(* The inductive invariants.                                               *)

Owns(t, e) == Holding(t) /\ thread[t].event = e

\* waiting_event is set during a wait, and no two waits have the same.
OwnersInv ==
  /\ \A t \in Thread : Holding(t) <=> thread[t].event # 0
  /\ \A t, u \in Thread : Holding(t) /\ Owns(u, thread[t].event) => t = u

\* An event is free or has an owner, and not both; one on waiting_list_ has an
\* owner; there is a thread for each.
ListsInv ==
  /\ Distinct(waiting_list_) /\ Distinct(recycling_list_)
  /\ recycling_list_size_ = Len(recycling_list_)
  /\ \A t \in Thread : thread[t].event \notin ToSet(recycling_list_)
  /\ \A e \in Event : e \in ToSet(recycling_list_) \/ \E t \in Thread : Owns(t, e)
  /\ \A e \in Listed : \E t \in Thread : Owns(t, e)
  /\ allocation_counter_ <= Cardinality(Thread)

\* Handles are held while they are set only; a wait gives up the lock it holds.
CallsInv ==
  \A t \in Thread : /\ thread[t].handles # <<>> <=> At(t, "setting")
                    /\ At(t, "releasing") => user_lock_ = t

EventInv == TypeOK /\ OwnersInv /\ ListsInv /\ CallsInv

Setting(t) == ToSet(thread[t].handles)

InDestructor(t) == thread[t].pc \in {"destroying", "setting", "sleeping"}

\* The destructor is one thread, alone in it, which takes all off waiting_list_
\* before it sleeps; nobody gets in any more.
DestructorInv ==
  /\ \A t \in Thread : thread[t].pc \in {"destroying", "sleeping"} => run_state_ = "SHUTDOWN"
  /\ run_state_ = "SHUTDOWN" =>
       /\ \A t, u \in Thread : InDestructor(t) /\ InDestructor(u) => t = u
       /\ Listed = {} \/ \E t \in Thread : At(t, "destroying")
  /\ destroyed => /\ run_state_ = "SHUTDOWN"
                  /\ \A t \in Thread : thread[t].pc \in {"out", "relocking"}

CondVarInv == EventInv /\ NoLostSignal /\ DestructorInv

Asleep(t) == thread[t].pc \in {"releasing", "waiting"}
Chosen == signaled \cup UNION {Setting(t) : t \in Thread}

\* Without time limits an event is chosen once, off waiting_list_, and for a
\* thread that still sleeps.
ChosenInv ==
  ~timed_out =>
    /\ \A e \in Chosen \cup Listed : \E t \in Thread : Asleep(t) /\ Owns(t, e)
    /\ Chosen \cap Listed = {}
    /\ \A t \in Thread : Distinct(thread[t].handles) /\ Setting(t) \cap signaled = {}
    /\ \A t, u \in Thread : Setting(t) \cap Setting(u) # {} => t = u

-----------------------------------------------------------------------------
(* The lists.                                                              *)

LEMMA ExtractElements ==
  ASSUME NEW S, NEW list \in Seq(S), NEW e, Distinct(list)
  PROVE  /\ Extract(list, e) \in Seq(S)
         /\ Distinct(Extract(list, e))
         /\ ToSet(Extract(list, e)) = ToSet(list) \ {e}
<1>1. CASE e \notin ToSet(list)
  BY <1>1 DEF Extract, ToSet
<1>2. CASE e \in ToSet(list)
  <2> DEFINE k == CHOOSE i \in DOMAIN list : list[i] = e
             rest == RemoveAt(list, k)
  <2>1. k \in DOMAIN list /\ list[k] = e /\ Extract(list, e) = rest
    BY <1>2 DEF Extract, ToSet
  <2>2. k \in 1 .. Len(list) /\ Len(list) \in Nat
    BY <2>1
  <2> HIDE DEF k
  <2>3. /\ rest \in Seq(S) /\ Len(rest) = Len(list) - 1
        /\ \A i \in 1 .. Len(list) - 1 :
             rest[i] = IF i < k THEN list[i] ELSE list[i + 1]
    <3> DEFINE a == SubSeq(list, 1, k - 1)
               b == SubSeq(list, k + 1, Len(list))
    <3>1. a \in Seq(S) /\ Len(a) = k - 1 /\ \A i \in 1 .. k - 1 : a[i] = list[i]
      BY <2>2
    <3>2. /\ b \in Seq(S) /\ Len(b) = Len(list) - k
          /\ \A i \in 1 .. Len(list) - k : b[i] = list[k + i]
      BY <2>2
    <3>3. rest = a \o b
      BY DEF RemoveAt
    <3> HIDE DEF a, b, rest
    <3>4. rest \in Seq(S) /\ Len(rest) = Len(list) - 1
      BY <3>1, <3>2, <3>3, <2>2
    <3>5. ASSUME NEW i \in 1 .. Len(list) - 1
          PROVE  rest[i] = IF i < k THEN list[i] ELSE list[i + 1]
      <4>1. CASE i < k
        BY <4>1, <3>1, <3>2, <3>3, <2>2
      <4>2. CASE i >= k
        <5>1. rest[i] = b[i - (k - 1)]
          BY <4>2, <3>1, <3>2, <3>3, <2>2
        <5>2. i - (k - 1) \in 1 .. Len(list) - k /\ k + (i - (k - 1)) = i + 1
          BY <4>2, <2>2
        <5>3. QED
          BY <4>2, <5>1, <5>2, <3>2, <2>2
      <4>3. QED
        BY <4>1, <4>2, <2>2
    <3>6. QED
      BY <3>4, <3>5
  <2> HIDE DEF rest
  <2>4. DOMAIN list = 1 .. Len(list) /\ DOMAIN rest = 1 .. Len(list) - 1
    BY <2>3
  <2>5. \A i \in DOMAIN rest :
          LET i0 == IF i < k THEN i ELSE i + 1
          IN  i \in Nat /\ i0 \in DOMAIN list /\ i0 # k /\ rest[i] = list[i0]
    BY <2>2, <2>3, <2>4
  <2>5a. Distinct(rest) /\ e \notin ToSet(rest)
    <3>1. e \notin ToSet(rest)
      BY <2>1, <2>5 DEF Distinct, ToSet
    <3>2. ASSUME NEW i \in DOMAIN rest, NEW j \in DOMAIN rest, rest[i] = rest[j]
          PROVE  i = j
      <4>1. (IF i < k THEN i ELSE i + 1) = (IF j < k THEN j ELSE j + 1)
        BY <2>5, <3>2 DEF Distinct
      <4>2. QED
        BY <4>1, <2>2, <2>4
    <3>3. QED
      BY <3>1, <3>2 DEF Distinct
  <2>6. ToSet(rest) \subseteq ToSet(list)
    BY <2>2, <2>3, <2>4 DEF ToSet
  <2>7. ASSUME NEW i \in DOMAIN list, i # k
        PROVE  list[i] \in ToSet(rest)
    <3>1. CASE i < k
      BY <3>1, <2>2, <2>3, <2>4 DEF ToSet
    <3>2. CASE i > k
      <4>1. i - 1 \in DOMAIN rest /\ rest[i - 1] = list[i]
        BY <3>2, <2>2, <2>3, <2>4
      <4>2. QED
        BY <4>1 DEF ToSet
    <3>3. QED
      BY <3>1, <3>2, <2>2, <2>4, <2>7
  <2>8. ToSet(list) \ {e} \subseteq ToSet(rest)
    BY <2>1, <2>7 DEF ToSet
  <2>9. QED
    BY <2>1, <2>3, <2>5a, <2>6, <2>8
<1>3. QED
  BY <1>1, <1>2

-----------------------------------------------------------------------------
(* The events.                                                             *)

Record == [pc : PC, event : Event \cup {0}, timed : BOOLEAN, handles : Seq(Event)]

\* Where a step leaves every thread but one, and of that one all but its pc.
Moves(t, pc) ==
  /\ thread' \in [Thread -> Record]
  /\ \A u \in Thread : u # t => thread'[u] = thread[u]
  /\ thread'[t].pc = pc /\ thread'[t].event = thread[t].event
  /\ thread'[t].handles = thread[t].handles

LEMMA GoesMoves ==
  ASSUME TypeOK, NEW t \in Thread, NEW pc \in PC, Goes(t, pc)
  PROVE  Moves(t, pc)
  BY DEF TypeOK, Record, Goes, Moves

LEMMA InitEventInv == Init => EventInv
<1> SUFFICES ASSUME Init PROVE EventInv
  OBVIOUS
<1> USE DEF Init
<1>1. Event = {} /\ DOMAIN waiting_list_ = {} /\ DOMAIN recycling_list_ = {}
  BY DEF Event
<1>2. TypeOK
  <2>1. Outside \in Record
    BY DEF Outside, Record, PC
  <2>2. thread \in [Thread -> Record]
    BY <2>1
  <2>3. waiting_list_ \in Seq(Event) /\ recycling_list_ \in Seq(Event) /\ signaled \subseteq Event
    OBVIOUS
  <2>4. QED
    BY <2>2, <2>3 DEF TypeOK, Record
<1>3. OwnersInv
  BY DEF OwnersInv, Owns, Holding, Outside
<1>4. 0 <= Cardinality(Thread)
  BY ThreadAssumption, FS_CardinalityType
<1>5. ListsInv
  BY <1>1, <1>4 DEF ListsInv, Distinct, ToSet, Listed
<1>6. CallsInv
  BY DEF CallsInv, At, Outside
<1>7. QED
  BY <1>2, <1>3, <1>5, <1>6 DEF EventInv

\* The steps that only move a thread, and neither to the use of an event nor
\* away from one.
LEMMA QuietEventInv ==
  ASSUME EventInv, NEW t \in Thread, NEW pc \in PC,
         UNCHANGED lists, Moves(t, pc),
         user_lock_' \in Thread \cup {NoThread},
         run_state_' \in {"RUNNING", "SHUTDOWN"},
         signaled' \subseteq Event, timed_out' \in BOOLEAN, destroyed' \in BOOLEAN,
         Holding(t) <=> pc \in {"releasing", "waiting", "woken"},
         At(t, "setting") <=> pc = "setting",
         \A u \in Thread : thread'[u].pc = "releasing" => user_lock_' = u
  PROVE  EventInv'
<1>1. Event' = Event /\ Listed' = Listed
  BY DEF lists, Event, Listed
<1>2. \A u \in Thread : /\ thread'[u].event = thread[u].event
                        /\ thread'[u].handles = thread[u].handles
                        /\ Holding(u)' <=> Holding(u)
                        /\ At(u, "setting")' <=> At(u, "setting")
  BY DEF Moves, Holding, At
<1>3. TypeOK'
  BY <1>1 DEF EventInv, TypeOK, Moves, Record, lists
<1>4. OwnersInv'
  BY <1>2 DEF EventInv, OwnersInv, Owns
<1>5. ListsInv'
  BY <1>1, <1>2 DEF EventInv, ListsInv, Owns, lists
<1>6. CallsInv'
  BY <1>2 DEF EventInv, CallsInv, At
<1>7. QED
  BY <1>3, <1>4, <1>5, <1>6 DEF EventInv

\* Signal, Broadcast and the destructor: events leave waiting_list_ for the
\* handles of a thread that holds none itself, or handles of that thread are set.
LEMMA HandlesEventInv ==
  ASSUME EventInv, NEW t \in Thread, ~Holding(t),
         UNCHANGED <<run_state_, user_lock_, recycling_list_,
                     recycling_list_size_, allocation_counter_, timed_out, destroyed>>,
         signaled' \subseteq Event,
         waiting_list_' \in Seq(Event), Distinct(waiting_list_'),
         Listed' \subseteq Listed,
         NEW pc \in PC, NEW handles \in Seq(Event),
         thread' = [thread EXCEPT ![t].pc = pc, ![t].handles = handles],
         pc \notin {"releasing", "waiting", "woken"},
         handles # <<>> <=> pc = "setting"
  PROVE  EventInv'
<1>1. Event' = Event
  BY DEF Event
<1>2. /\ thread' \in [Thread -> Record]
      /\ \A u \in Thread : u # t => thread'[u] = thread[u]
      /\ thread'[t].pc = pc /\ thread'[t].event = thread[t].event
      /\ thread'[t].handles = handles
  BY DEF EventInv, TypeOK, Record
<1>3. \A u \in Thread : /\ thread'[u].event = thread[u].event
                        /\ Holding(u)' <=> Holding(u)
  BY <1>2 DEF Holding
<1>4. TypeOK'
  BY <1>1, <1>2 DEF EventInv, TypeOK, Record
<1>5. OwnersInv'
  BY <1>3 DEF EventInv, OwnersInv, Owns
<1>6. ListsInv'
  BY <1>1, <1>3 DEF EventInv, ListsInv, Owns
<1>7. CallsInv'
  BY <1>2 DEF EventInv, CallsInv, At
<1>8. QED
  BY <1>4, <1>5, <1>6, <1>7 DEF EventInv

LEMMA SignalEventInv ==
  ASSUME EventInv, NEW t \in Thread, Signal(t)
  PROVE  EventInv'
<1>1. waiting_list_ \in Seq(Event) /\ waiting_list_ # <<>> /\ Distinct(waiting_list_)
  BY DEF Signal, EventInv, TypeOK, ListsInv
<1>2. /\ waiting_list_' = Front(waiting_list_) /\ Listed' \subseteq Listed
      /\ waiting_list_' \in Seq(Event) /\ Distinct(waiting_list_')
      /\ Last(waiting_list_) \in Event
  BY <1>1, FrontElements DEF Signal, Listed
<1>3. ~Holding(t) /\ signaled' \subseteq Event
  BY DEF Signal, MayCall, At, Holding, EventInv, TypeOK
<1>4. /\ <<Last(waiting_list_)>> \in Seq(Event) /\ <<Last(waiting_list_)>> # <<>>
      /\ "setting" \in PC
  BY <1>2 DEF PC
<1>5. QED
  BY <1>2, <1>3, <1>4, HandlesEventInv DEF Signal

LEMMA TakeAllEventInv ==
  ASSUME EventInv, NEW t \in Thread, ~Holding(t), TakeAll(t)
  PROVE  EventInv'
<1>1. waiting_list_ \in Seq(Event) /\ waiting_list_ # <<>> /\ signaled' \subseteq Event
  BY DEF TakeAll, EventInv, TypeOK
<1>2. /\ waiting_list_' = <<>> /\ Listed' = {} /\ Distinct(waiting_list_')
      /\ waiting_list_' \in Seq(Event)
  BY DEF TakeAll, Listed, ToSet, Distinct
<1>3. "setting" \in PC
  BY DEF PC
<1>4. QED
  BY <1>1, <1>2, <1>3, HandlesEventInv DEF TakeAll

LEMMA SetEventKeepsInv ==
  ASSUME EventInv, NEW t \in Thread, SetEvent(t)
  PROVE  EventInv'
<1> DEFINE handles == thread[t].handles
           pc == IF Len(handles) = 1 THEN AfterSetting ELSE "setting"
<1>1. handles \in Seq(Event) /\ handles # <<>> /\ thread[t].pc = "setting"
  BY DEF SetEvent, At, EventInv, TypeOK, CallsInv
<1>2. Head(handles) \in Event /\ Tail(handles) \in Seq(Event)
  BY <1>1, TailElements
<1>3. Tail(handles) # <<>> <=> Len(handles) # 1
  <2>1. Len(Tail(handles)) = Len(handles) - 1 /\ Len(handles) \in Nat
    BY <1>1, TailElements
  <2> HIDE DEF handles
  <2>2. QED
    BY <1>2, <2>1
<1>4. pc \in PC \ {"releasing", "waiting", "woken"} /\ (pc = "setting" <=> Len(handles) # 1)
  BY DEF AfterSetting, PC
<1>5. thread' = [thread EXCEPT ![t].pc = pc, ![t].handles = Tail(handles)]
  BY <1>1 DEF SetEvent, EventInv, TypeOK
<1>6. /\ ~Holding(t) /\ waiting_list_' = waiting_list_ /\ Listed' = Listed
      /\ waiting_list_ \in Seq(Event) /\ Distinct(waiting_list_)
      /\ signaled' \subseteq Event
  BY <1>1, <1>2 DEF SetEvent, lists, Holding, Listed, EventInv, TypeOK, ListsInv
<1> HIDE DEF pc, handles
<1>7. QED
  BY <1>2, <1>3, <1>4, <1>5, <1>6, HandlesEventInv DEF SetEvent, lists

\* A thread that is not in TimedWait, and no free event: one more event is still
\* no more than there are threads.
LEMMA RoomForNewEvent ==
  ASSUME EventInv, NEW t \in Thread, ~Holding(t), recycling_list_ = <<>>
  PROVE  allocation_counter_ + 1 <= Cardinality(Thread)
<1> DEFINE owner == [e \in Event |-> CHOOSE u \in Thread : Owns(u, e)]
           Others == Thread \ {t}
<1>1. \A e \in Event : \E u \in Thread : Owns(u, e)
  BY DEF EventInv, ListsInv, ToSet
<1>2. \A e \in Event : owner[e] \in Thread /\ Owns(owner[e], e)
  BY <1>1
<1>3. owner \in Injection(Event, Others)
  BY <1>2 DEF Owns, Injection, IsInjective
<1>4. /\ IsFiniteSet(Others) /\ Cardinality(Others) = Cardinality(Thread) - 1
      /\ Cardinality(Thread) \in Nat
  BY ThreadAssumption, FS_RemoveElement, FS_CardinalityType
<1>5. Cardinality(Event) = allocation_counter_ /\ allocation_counter_ \in Nat
  <2>1. allocation_counter_ \in Nat
    BY DEF EventInv, TypeOK
  <2>2. QED
    BY <2>1, FS_Interval DEF Event
<1> HIDE DEF owner, Others
<1>6. Cardinality(Event) <= Cardinality(Others)
  BY <1>3, <1>4, FS_Injection
<1>7. QED
  BY <1>4, <1>5, <1>6

\* GetEventForWaiting puts an event that nobody has on waiting_list_.
EventGot(e) ==
  /\ e \in Event' /\ Event' = Event \cup {e} /\ e # 0
  /\ waiting_list_' = Append(waiting_list_, e)
  /\ \A u \in Thread : thread[u].event # e
  /\ recycling_list_' \in Seq(Event') /\ Distinct(recycling_list_')
  /\ ToSet(recycling_list_') = ToSet(recycling_list_) \ {e}
  /\ recycling_list_size_' = Len(recycling_list_')
  /\ allocation_counter_' \in Nat /\ allocation_counter_' <= Cardinality(Thread)

LEMMA GetEventForWaitingGets ==
  ASSUME EventInv, NEW t \in Thread, ~Holding(t), GetEventForWaiting
  PROVE  \E e : EventGot(e)
<1>1. /\ allocation_counter_ \in Nat /\ recycling_list_ \in Seq(Event)
      /\ recycling_list_size_ = Len(recycling_list_) /\ Distinct(recycling_list_)
      /\ \A u \in Thread : /\ thread[u].event \in Event \cup {0}
                           /\ thread[u].event \notin ToSet(recycling_list_)
  BY DEF EventInv, TypeOK, ListsInv
<1>2. CASE NewEvent
  <2> DEFINE e == allocation_counter_ + 1
  <2>1. recycling_list_ = <<>> /\ ToSet(recycling_list_) = {}
    <3>1. Len(recycling_list_) = 0
      BY <1>1, <1>2 DEF NewEvent
    <3>2. recycling_list_ = <<>>
      BY <1>1, <3>1
    <3>3. QED
      BY <3>2 DEF ToSet
  <2>2. e \in Event' /\ Event' = Event \cup {e} /\ e # 0 /\ e \notin Event
    BY <1>1, <1>2 DEF NewEvent, Event
  <2>3. allocation_counter_' \in Nat /\ allocation_counter_' <= Cardinality(Thread)
    BY <1>1, <1>2, <2>1, RoomForNewEvent DEF NewEvent
  <2>4. waiting_list_' = Append(waiting_list_, e) /\ recycling_list_' = recycling_list_
        /\ recycling_list_size_' = recycling_list_size_
    BY <1>2 DEF NewEvent
  <2>5. EventGot(e)
    BY <1>1, <2>1, <2>2, <2>3, <2>4 DEF EventGot
  <2>6. QED
    BY <2>5
<1>3. CASE RecycledEvent
  <2> DEFINE e == Head(recycling_list_)
  <2>1. recycling_list_ # <<>>
    BY <1>1, <1>3 DEF RecycledEvent
  <2>2. /\ Tail(recycling_list_) \in Seq(Event) /\ e \in ToSet(recycling_list_)
        /\ e \in Event /\ Distinct(Tail(recycling_list_))
        /\ ToSet(Tail(recycling_list_)) = ToSet(recycling_list_) \ {e}
        /\ Len(Tail(recycling_list_)) = Len(recycling_list_) - 1
    BY <1>1, <2>1, TailElements
  <2>3. Event' = Event /\ 0 \notin Event
    BY <1>1, <1>3 DEF RecycledEvent, Event
  <2>4. allocation_counter_' \in Nat /\ allocation_counter_' <= Cardinality(Thread)
    BY <1>3 DEF RecycledEvent, EventInv, TypeOK, ListsInv
  <2>5. EventGot(e)
    BY <1>1, <1>3, <2>2, <2>3, <2>4 DEF EventGot, RecycledEvent
  <2>6. QED
    BY <2>5
<1>4. QED
  BY <1>2, <1>3 DEF GetEventForWaiting

\* A wait begins: the thread has an event nobody had, at the end of waiting_list_.
Enters(t, e) ==
  /\ EventGot(e) /\ ~Holding(t) /\ thread[t].handles = <<>>
  /\ waiting_list_' \in Seq(Event') /\ Distinct(waiting_list_')
  /\ e \notin Listed /\ Listed' = Listed \cup {e}
  /\ thread' \in [Thread -> Record']
  /\ \A u \in Thread : u # t =>
       /\ thread'[u] = thread[u]
       /\ Holding(u)' <=> Holding(u)
  /\ thread'[t].pc = "releasing" /\ thread'[t].event = e /\ Holding(t)'
  /\ thread'[t].handles = <<>>

LEMMA EnterWaitEnters ==
  ASSUME EventInv, NEW t \in Thread, EnterWait(t)
  PROVE  \E e : Enters(t, e)
<1>1. /\ thread[t].pc = "out" /\ user_lock_ = t /\ user_lock_' = t
      /\ UNCHANGED <<run_state_, signaled, timed_out, destroyed>>
      /\ GetEventForWaiting
  BY DEF EnterWait, EnterWaitAnyway, At
<1>2. ~Holding(t) /\ thread[t].handles = <<>>
  BY <1>1 DEF Holding, EventInv, CallsInv, At
<1>3. PICK e : EventGot(e)
  BY <1>1, <1>2, GetEventForWaitingGets
<1>4. waiting_list_ \in Seq(Event') /\ Distinct(waiting_list_) /\ e \notin Listed
  <2>1. waiting_list_ \in Seq(Event) /\ Event \subseteq Event'
    BY <1>3 DEF EventInv, TypeOK, EventGot
  <2>2. waiting_list_ \in Seq(Event')
    BY <2>1
  <2>3. QED
    BY <1>3, <2>2 DEF EventInv, ListsInv, Owns, EventGot
<1>5. /\ waiting_list_' \in Seq(Event') /\ Distinct(waiting_list_')
      /\ Last(waiting_list_') = e /\ Listed' = Listed \cup {e}
  BY <1>3, <1>4, AppendElements DEF EventGot, Listed
<1>6. PICK timed \in BOOLEAN :
        thread' = [thread EXCEPT ![t] =
          [pc |-> "releasing", event |-> e, timed |-> timed, handles |-> <<>>]]
  BY <1>5 DEF EnterWait, EnterWaitAnyway, Outside
<1>7. /\ \A u \in Thread : u # t => thread'[u] = thread[u]
      /\ thread'[t].pc = "releasing" /\ thread'[t].event = e
      /\ thread'[t].handles = <<>>
      /\ thread' \in [Thread -> Record']
  <2>1. \A u \in Thread : thread[u] \in Record'
    <3>1. \A h \in Seq(Event) : h \in Seq(Event')
      BY <1>3 DEF EventGot
    <3>2. QED
      BY <1>3, <3>1 DEF EventInv, TypeOK, Record, EventGot
  <2>2. [pc |-> "releasing", event |-> e, timed |-> timed, handles |-> <<>>] \in Record'
    BY <1>3 DEF Record, EventGot, PC
  <2>3. QED
    BY <1>6, <2>1, <2>2 DEF EventInv, TypeOK
<1>8. /\ \A u \in Thread : u # t => (Holding(u)' <=> Holding(u))
      /\ Holding(t)'
  BY <1>7 DEF Holding
<1>9. QED
  BY <1>2, <1>3, <1>4, <1>5, <1>7, <1>8 DEF Enters

LEMMA EnterWaitEventInv ==
  ASSUME EventInv, NEW t \in Thread, EnterWait(t)
  PROVE  EventInv'
<1>1. /\ user_lock_ = t /\ user_lock_' = t
      /\ UNCHANGED <<run_state_, signaled, timed_out, destroyed>>
  BY DEF EnterWait, EnterWaitAnyway
<1>2. PICK e : Enters(t, e)
  BY EnterWaitEnters
<1>2a. /\ \A u \in Thread : thread[u].event # e
       /\ \A u \in Thread : u # t =>
            /\ thread'[u] = thread[u]
            /\ Holding(u)' <=> Holding(u)
       /\ thread'[t].pc = "releasing" /\ thread'[t].event = e /\ Holding(t)'
       /\ thread'[t].handles = <<>> /\ e # 0
       /\ ToSet(recycling_list_') = ToSet(recycling_list_) \ {e}
  BY <1>2 DEF Enters, EventGot
<1>3. TypeOK'
  <2>1. signaled' \subseteq Event' /\ recycling_list_size_' \in Nat
    BY <1>1, <1>2 DEF Enters, EventGot, EventInv, TypeOK
  <2>2. QED
    BY <1>1, <1>2, <2>1 DEF EventInv, TypeOK, Record, Enters, EventGot
<1>4. OwnersInv'
  BY <1>2a DEF EventInv, OwnersInv, Owns
<1>5. ListsInv'
  <2>1. \A u \in Thread : thread'[u].event \notin ToSet(recycling_list_')
    BY <1>2a DEF EventInv, ListsInv
  <2>2. \A x, u : u \in Thread /\ Owns(u, x) => Owns(u, x)'
    BY <1>2 DEF Owns, Enters
  <2>3. Owns(t, e)'
    BY <1>2 DEF Owns, Enters
  <2>4. ASSUME NEW x \in Event'
        PROVE  x \in ToSet(recycling_list_') \/ \E u \in Thread : Owns(u, x)'
    BY <1>2, <2>2, <2>3 DEF EventInv, ListsInv, Enters, EventGot
  <2>5. ASSUME NEW x \in Listed'
        PROVE  \E u \in Thread : Owns(u, x)'
    BY <1>2, <2>2, <2>3 DEF EventInv, ListsInv, Enters
  <2>6. QED
    BY <1>2, <2>1, <2>4, <2>5 DEF ListsInv, Enters, EventGot
<1>6. CallsInv'
  BY <1>1, <1>2a DEF EventInv, CallsInv, At
<1>7. QED
  BY <1>3, <1>4, <1>5, <1>6 DEF EventInv

\* A wait ends: its event is free, wherever it was.
Leaves(t, e) ==
  /\ Owns(t, e) /\ e = thread[t].event /\ e \in Event
  /\ e \notin ToSet(recycling_list_) /\ thread[t].handles = <<>>
  /\ waiting_list_' \in Seq(Event) /\ Distinct(waiting_list_')
  /\ Listed' = Listed \ {e}
  /\ recycling_list_' \in Seq(Event) /\ Distinct(recycling_list_')
  /\ ToSet(recycling_list_') = ToSet(recycling_list_) \cup {e}
  /\ recycling_list_size_' = Len(recycling_list_') /\ recycling_list_size_' \in Nat
  /\ Event' = Event
  /\ thread' \in [Thread -> Record]
  /\ \A u \in Thread : u # t =>
       /\ thread'[u] = thread[u]
       /\ Holding(u)' <=> Holding(u)
  /\ thread'[t].pc = "relocking" /\ thread'[t].event = 0 /\ ~Holding(t)'
  /\ thread'[t].handles = <<>>

LEMMA RecycleEventLeaves ==
  ASSUME EventInv, NEW t \in Thread, RecycleEvent(t)
  PROVE  Leaves(t, thread[t].event)
<1> DEFINE e == thread[t].event
<1>1. /\ Owns(t, e) /\ e \in Event /\ e \notin ToSet(recycling_list_)
      /\ thread[t].handles = <<>>
  BY DEF RecycleEvent, At, Owns, Holding, EventInv, TypeOK, OwnersInv, ListsInv, CallsInv
<1>2. /\ waiting_list_' \in Seq(Event) /\ Distinct(waiting_list_')
      /\ Listed' = Listed \ {e}
  BY ExtractElements DEF RecycleEvent, EventInv, TypeOK, ListsInv, Listed
<1>3. /\ recycling_list_' \in Seq(Event) /\ Distinct(recycling_list_')
      /\ ToSet(recycling_list_') = ToSet(recycling_list_) \cup {e}
      /\ recycling_list_size_' = Len(recycling_list_') /\ recycling_list_size_' \in Nat
  <2>1. recycling_list_ \in Seq(Event) /\ Distinct(recycling_list_)
        /\ recycling_list_size_ = Len(recycling_list_)
        /\ recycling_list_' = Append(recycling_list_, e)
        /\ recycling_list_size_' = recycling_list_size_ + 1
    BY DEF RecycleEvent, EventInv, TypeOK, ListsInv
  <2>2. QED
    BY <1>1, <2>1, AppendElements
<1>4. Event' = Event /\ UNCHANGED <<run_state_, user_lock_, allocation_counter_,
                                    signaled, timed_out, destroyed>>
  BY DEF RecycleEvent, Event
<1>5. /\ \A u \in Thread : u # t => thread'[u] = thread[u]
      /\ thread'[t].pc = "relocking" /\ thread'[t].event = 0
      /\ thread'[t].handles = <<>>
      /\ thread' \in [Thread -> Record]
  <2> DEFINE r == [Outside EXCEPT !.pc = "relocking"]
  <2>1. Outside \in Record /\ Outside.event = 0 /\ Outside.handles = <<>>
    <3>1. <<>> \in Seq(Event) /\ "out" \in PC
      BY DEF PC
    <3>2. QED
      BY <3>1 DEF Outside, Record
  <2>2. r \in Record /\ r.pc = "relocking" /\ r.event = 0 /\ r.handles = <<>>
    BY <2>1 DEF Record, PC
  <2>3. thread' = [thread EXCEPT ![t] = r] /\ thread \in [Thread -> Record]
    BY DEF RecycleEvent, EventInv, TypeOK, Record
  <2> HIDE DEF r
  <2>4. QED
    BY <2>2, <2>3
<1>6. /\ \A u \in Thread : u # t => (Holding(u)' <=> Holding(u))
      /\ ~Holding(t)'
  BY <1>5 DEF Holding
<1>7. QED
  BY <1>1, <1>2, <1>3, <1>4, <1>5, <1>6 DEF Leaves

LEMMA RecycleEventKeepsInv ==
  ASSUME EventInv, NEW t \in Thread, RecycleEvent(t)
  PROVE  EventInv'
<1>1. PICK e : Leaves(t, e)
  BY RecycleEventLeaves
<1>1a. /\ Owns(t, e)
       /\ \A u \in Thread : u # t =>
            /\ thread'[u] = thread[u]
            /\ Holding(u)' <=> Holding(u)
       /\ thread'[t].pc = "relocking" /\ thread'[t].event = 0 /\ ~Holding(t)'
       /\ thread'[t].handles = <<>> /\ thread[t].handles = <<>>
       /\ ToSet(recycling_list_') = ToSet(recycling_list_) \cup {e}
  BY <1>1 DEF Leaves
<1>2. UNCHANGED <<run_state_, user_lock_, allocation_counter_, signaled,
                  timed_out, destroyed>>
  BY DEF RecycleEvent
<1>3. TypeOK'
  BY <1>1, <1>2 DEF Leaves, EventInv, TypeOK, Record
<1>4. OwnersInv'
  BY <1>1a DEF EventInv, OwnersInv, Owns
<1>5. ListsInv'
  <2>1. \A x, u : u \in Thread /\ x # e /\ Owns(u, x) => Owns(u, x)'
    BY <1>1 DEF Leaves, Owns
  <2>2. ASSUME NEW u \in Thread
        PROVE  thread'[u].event \notin ToSet(recycling_list_')
    <3>1. CASE u = t
      <4>1. ToSet(recycling_list_') \subseteq Event
        BY <1>1 DEF Leaves, ToSet
      <4>2. 0 \notin Event
        BY DEF Event
      <4>3. QED
        BY <3>1, <4>1, <4>2, <1>1 DEF Leaves
    <3>2. CASE u # t
      <4>1. thread[u].event # e
        BY <3>2, <1>1 DEF Leaves, EventInv, OwnersInv, Owns, Event
      <4>2. QED
        BY <3>2, <4>1, <1>1a DEF EventInv, ListsInv
    <3>3. QED
      BY <3>1, <3>2
  <2>3. ASSUME NEW x \in Event'
        PROVE  x \in ToSet(recycling_list_') \/ \E u \in Thread : Owns(u, x)'
    BY <1>1, <2>1 DEF Leaves, EventInv, ListsInv
  <2>4. ASSUME NEW x \in Listed'
        PROVE  \E u \in Thread : Owns(u, x)'
    BY <1>1, <2>1 DEF Leaves, EventInv, ListsInv
  <2>5. QED
    BY <1>1, <1>2, <2>2, <2>3, <2>4 DEF Leaves, EventInv, ListsInv
<1>6. CallsInv'
  BY <1>1a, <1>2 DEF EventInv, CallsInv, At
<1>7. QED
  BY <1>3, <1>4, <1>5, <1>6 DEF EventInv

LEMMA NextEventInv ==
  ASSUME EventInv, [Next]_vars
  PROVE  EventInv'
<1>1. CASE UNCHANGED vars
  BY <1>1 DEF vars, lists, EventInv, TypeOK, OwnersInv, ListsInv, CallsInv, Owns, Holding,
              At, Event, Listed, Distinct
<1>2. ASSUME NEW t \in Thread, Acquire(t) \/ Release(t)
      PROVE  EventInv'
  <2>1. Moves(t, "out") /\ thread[t].pc = "out"
    BY <1>2 DEF Acquire, Release, At, Moves, EventInv, TypeOK, Record
  <2>2. UNCHANGED <<run_state_, lists, signaled, thread, timed_out, destroyed>>
    BY <1>2 DEF Acquire, Release
  <2>3. \A u \in Thread : ~At(u, "releasing")
    BY <1>2, ThreadAssumption DEF Acquire, Release, At, EventInv, CallsInv
  <2>4. user_lock_' \in Thread \cup {NoThread}
    BY <1>2 DEF Acquire, Release
  <2>5. QED
    BY <2>1, <2>2, <2>3, <2>4, QuietEventInv DEF Holding, At, PC, EventInv, TypeOK
<1>3. ASSUME NEW t \in Thread, EnterWait(t) PROVE EventInv'
  BY <1>3, EnterWaitEventInv
<1>4. ASSUME NEW t \in Thread, ReleaseUserLock(t) PROVE EventInv'
  <2>1. Moves(t, "waiting") /\ thread[t].pc = "releasing"
    BY <1>4, GoesMoves DEF ReleaseUserLock, EventInv, PC, At
  <2>2. \A u \in Thread : thread'[u].pc # "releasing"
    BY <1>4, <2>1 DEF EventInv, CallsInv, At, Moves
  <2>3. QED
    BY <1>4, <2>1, <2>2, QuietEventInv DEF ReleaseUserLock, Holding, At, PC, EventInv, TypeOK
<1>5. ASSUME NEW t \in Thread, WaitReturns(t) \/ WaitTimesOut(t) PROVE EventInv'
  <2>1. Moves(t, "woken") /\ thread[t].pc = "waiting"
    BY <1>5, GoesMoves DEF WaitReturns, WaitTimesOut, EventInv, PC, At
  <2>2. \A u \in Thread : thread'[u].pc = "releasing" => user_lock_' = u
    BY <1>5, <2>1 DEF WaitReturns, WaitTimesOut, EventInv, CallsInv, At, Moves
  <2>3. /\ signaled' \subseteq Event /\ timed_out' \in BOOLEAN /\ UNCHANGED lists
        /\ UNCHANGED <<run_state_, user_lock_, destroyed>>
    BY <1>5 DEF WaitReturns, WaitTimesOut, EventInv, TypeOK
  <2>4. QED
    BY <2>1, <2>2, <2>3, QuietEventInv DEF Holding, At, PC, EventInv, TypeOK
<1>6. ASSUME NEW t \in Thread, RecycleEvent(t) PROVE EventInv'
  BY <1>6, RecycleEventKeepsInv
<1>7. ASSUME NEW t \in Thread, ReacquireUserLock(t) PROVE EventInv'
  <2>1. Moves(t, "out") /\ thread[t].pc = "relocking"
    BY <1>7, GoesMoves DEF ReacquireUserLock, EventInv, PC, At
  <2>2. \A u \in Thread : thread'[u].pc # "releasing"
    BY <1>7, <2>1, ThreadAssumption DEF ReacquireUserLock, EventInv, CallsInv, At, Moves
  <2>3. QED
    BY <1>7, <2>1, <2>2, QuietEventInv DEF ReacquireUserLock, Holding, At, PC, EventInv, TypeOK
<1>8. ASSUME NEW t \in Thread, Wakes(t) PROVE EventInv'
  <2>1. CASE Signal(t)
    BY <2>1, SignalEventInv
  <2>2. CASE Broadcast(t)
    BY <2>2, TakeAllEventInv DEF Broadcast, MayCall, At, Holding
  <2>3. CASE SetEvent(t)
    BY <2>3, SetEventKeepsInv
  <2>4. QED
    BY <1>8, <2>1, <2>2, <2>3 DEF Wakes
<1>9. ASSUME NEW t \in Thread, Destructor(t) PROVE EventInv'
  <2>1. CASE Destroy(t)
    <3>1. \E pc \in {"out", "destroying"} : Moves(t, pc)
      <4>1. CASE UNCHANGED thread
        BY <2>1, <4>1 DEF Destroy, MayCall, At, Moves, EventInv, TypeOK, Record
      <4>2. CASE Goes(t, "destroying")
        BY <4>2, GoesMoves DEF EventInv, PC
      <4>3. QED
        BY <2>1, <4>1, <4>2 DEF Destroy
    <3>2. thread[t].pc = "out" /\ UNCHANGED <<user_lock_, lists, signaled, timed_out>>
          /\ run_state_' = "SHUTDOWN" /\ destroyed' \in BOOLEAN
      BY <2>1 DEF Destroy, MayCall, At, EventInv, TypeOK
    <3>3. \A u \in Thread : thread'[u].pc = "releasing" => user_lock_' = u
      BY <3>1, <3>2 DEF EventInv, CallsInv, At, Moves
    <3>4. QED
      BY <3>1, <3>2, <3>3, QuietEventInv DEF Holding, At, PC, EventInv, TypeOK
  <2>2. CASE DestroyBroadcasts(t)
    <3>1. CASE TakeAll(t)
      BY <2>2, <3>1, TakeAllEventInv DEF DestroyBroadcasts, At, Holding
    <3>2. CASE DestroyJustSleeps(t)
      <4>1. Moves(t, "sleeping") /\ thread[t].pc = "destroying"
        BY <3>2, GoesMoves DEF DestroyJustSleeps, EventInv, PC, At
      <4>2. \A u \in Thread : thread'[u].pc = "releasing" => user_lock_' = u
        BY <3>2, <4>1 DEF DestroyJustSleeps, EventInv, CallsInv, At, Moves
      <4>3. QED
        BY <3>2, <4>1, <4>2, QuietEventInv DEF DestroyJustSleeps, Holding, At, PC, EventInv, TypeOK
    <3>3. QED
      BY <2>2, <3>1, <3>2 DEF DestroyBroadcasts
  <2>3. CASE DestroyEnds(t)
    <3>1. Moves(t, "out") /\ thread[t].pc = "sleeping"
      BY <2>3, GoesMoves DEF DestroyEnds, EventInv, PC, At
    <3>2. \A u \in Thread : thread'[u].pc = "releasing" => user_lock_' = u
      BY <2>3, <3>1 DEF DestroyEnds, EventInv, CallsInv, At, Moves
    <3>3. QED
      BY <2>3, <3>1, <3>2, QuietEventInv DEF DestroyEnds, Holding, At, PC, EventInv, TypeOK
  <2>4. QED
    BY <1>9, <2>1, <2>2, <2>3 DEF Destructor
<1>10. QED
  BY <1>1, <1>2, <1>3, <1>4, <1>5, <1>6, <1>7, <1>8, <1>9 DEF Next, TimedWait

LEMMA EventInvariant == Spec => []EventInv
<1>1. EventInv /\ [Next]_vars => EventInv'
  BY NextEventInv
<1>2. QED
  BY InitEventInv, <1>1, PTL DEF Spec

-----------------------------------------------------------------------------
(* What is counted.                                                        *)

\* The destructor's test: every event is free exactly when nobody has one.
LEMMA FullMeansFree ==
  ASSUME EventInv
  PROVE  recycling_list_size_ = allocation_counter_ <=> \A t \in Thread : ~Holding(t)
<1> DEFINE n == Len(recycling_list_)
           free == ToSet(recycling_list_)
<1>1. /\ recycling_list_ \in Seq(Event) /\ Distinct(recycling_list_)
      /\ recycling_list_size_ = n /\ allocation_counter_ \in Nat
  BY DEF EventInv, TypeOK, ListsInv
<1>2. n \in Nat /\ DOMAIN recycling_list_ = 1 .. n /\ free \subseteq Event
  BY <1>1 DEF ToSet
<1>4. Cardinality(Event) = allocation_counter_ /\ IsFiniteSet(Event)
  BY <1>1, FS_Interval DEF Event
<1>5. Cardinality(free) = n
  BY <1>1, DistinctLength
<1>6. recycling_list_size_ = allocation_counter_ <=> free = Event
  <2> HIDE DEF free, n
  <2>1. n = allocation_counter_ => free = Event
    BY <1>2, <1>4, <1>5, FS_Subset
  <2>2. QED
    BY <1>1, <1>4, <1>5, <2>1
<1>7. free = Event <=> \A t \in Thread : ~Holding(t)
  <2>1. ASSUME free = Event, NEW t \in Thread
        PROVE  ~Holding(t)
    BY <2>1 DEF EventInv, TypeOK, OwnersInv, ListsInv
  <2>2. ASSUME \A t \in Thread : ~Holding(t)
        PROVE  Event \subseteq free
    BY <2>2 DEF EventInv, ListsInv, Owns
  <2>3. QED
    BY <1>2, <2>1, <2>2
<1>8. QED
  BY <1>6, <1>7

LEMMA Accounted ==
  ASSUME EventInv
  PROVE  EventsAccounted
<1>1. ASSUME NEW e \in Event
      PROVE  Cardinality({i \in DOMAIN recycling_list_ : recycling_list_[i] = e})
               + Cardinality({t \in Thread : Holding(t) /\ thread[t].event = e}) = 1
  <2> DEFINE places == {i \in DOMAIN recycling_list_ : recycling_list_[i] = e}
             owners == {t \in Thread : Holding(t) /\ thread[t].event = e}
  <2>1. CASE e \in ToSet(recycling_list_)
    <3>1. PICK i \in DOMAIN recycling_list_ : recycling_list_[i] = e
      BY <2>1 DEF ToSet
    <3>2. places = {i}
      BY <3>1 DEF EventInv, ListsInv, Distinct
    <3>3. owners = {}
      BY <2>1 DEF EventInv, ListsInv
    <3>4. Cardinality(places) = 1 /\ Cardinality(owners) = 0
      BY <3>2, <3>3, FS_Singleton, FS_EmptySet
    <3>5. QED
      BY <3>4
  <2>2. CASE e \notin ToSet(recycling_list_)
    <3>1. PICK t \in Thread : Owns(t, e)
      BY <2>2 DEF EventInv, ListsInv
    <3>2. owners = {t}
      BY <3>1 DEF EventInv, OwnersInv, Owns
    <3>3. places = {}
      BY <2>2 DEF ToSet
    <3>4. Cardinality(owners) = 1 /\ Cardinality(places) = 0
      BY <3>2, <3>3, FS_Singleton, FS_EmptySet
    <3>5. QED
      BY <3>4
  <2>3. QED
    BY <2>1, <2>2
<1>2. \A i, j \in DOMAIN waiting_list_ :
        waiting_list_[i] = waiting_list_[j] => i = j
  BY DEF EventInv, ListsInv, Distinct
<1>3. Listed \subseteq {thread[t].event : t \in {u \in Thread : Holding(u)}}
  BY DEF EventInv, ListsInv, Owns
<1>4. QED
  BY <1>1, <1>2, <1>3 DEF EventsAccounted, EventInv, ListsInv

\* TypeOK is invariant for any finite set of threads, however they share the parts
\* of waiters, signallers and destructor.
THEOREM CondVarTypeCorrect == Spec => []TypeOK
<1>1. EventInv => TypeOK
  BY DEF EventInv
<1>2. QED
  BY EventInvariant, <1>1, PTL

\* No event leaks and none is shared, for any number of threads: each is in the
\* free list once or with one thread, and there are no more events than threads.
THEOREM EventsAccountedHolds == Spec => []EventsAccounted
<1>1. EventInv => EventsAccounted
  BY Accounted
<1>2. QED
  BY EventInvariant, <1>1, PTL

-----------------------------------------------------------------------------
(* The signals in flight and the destructor.                               *)

\* Signal, Broadcast and the destructor take the events E off waiting_list_.
Takes(t, E) ==
  /\ E \subseteq Listed /\ Listed' = Listed \ E
  /\ ~Holding(t) /\ thread[t].handles = <<>>
  /\ Setting(t)' = E /\ Distinct(thread'[t].handles)
  /\ thread'[t].pc = "setting" /\ thread'[t].event = thread[t].event
  /\ \A u \in Thread : u # t => thread'[u] = thread[u]
  /\ UNCHANGED <<run_state_, user_lock_, signaled, timed_out, destroyed>>

LEMMA SignalTakes ==
  ASSUME EventInv, NEW t \in Thread, Signal(t)
  PROVE  \E e : Takes(t, {e})
<1> DEFINE e == Last(waiting_list_)
<1>1. waiting_list_ \in Seq(Event) /\ waiting_list_ # <<>> /\ Distinct(waiting_list_)
  BY DEF Signal, EventInv, TypeOK, ListsInv
<1>2. e \in Listed /\ Listed' = Listed \ {e}
  BY <1>1, FrontElements DEF Signal, Listed
<1>3. ~Holding(t) /\ thread[t].handles = <<>>
  BY DEF Signal, MayCall, At, Holding, EventInv, CallsInv
<1>4. /\ thread'[t].pc = "setting" /\ thread'[t].event = thread[t].event
      /\ thread'[t].handles = <<e>>
      /\ \A u \in Thread : u # t => thread'[u] = thread[u]
  BY DEF Signal, EventInv, TypeOK
<1>5. Setting(t)' = {e} /\ Distinct(thread'[t].handles)
  BY <1>4 DEF Setting, ToSet, Distinct
<1>6. Takes(t, {e})
  BY <1>2, <1>3, <1>4, <1>5 DEF Takes, Signal
<1>7. QED
  BY <1>6

LEMMA TakeAllTakes ==
  ASSUME EventInv, NEW t \in Thread, thread[t].pc \in {"out", "destroying"}, TakeAll(t)
  PROVE  Takes(t, Listed)
<1>1. Distinct(waiting_list_)
  BY DEF EventInv, ListsInv
<1>2. Listed' = {}
  BY DEF TakeAll, Listed, ToSet
<1>3. ~Holding(t) /\ thread[t].handles = <<>>
  BY DEF At, Holding, EventInv, CallsInv
<1>4. /\ thread'[t].pc = "setting" /\ thread'[t].event = thread[t].event
      /\ thread'[t].handles = waiting_list_
      /\ \A u \in Thread : u # t => thread'[u] = thread[u]
  BY DEF TakeAll, EventInv, TypeOK
<1>5. Setting(t)' = Listed
  BY <1>4 DEF Setting, Listed
<1>6. QED
  BY <1>1, <1>2, <1>3, <1>4, <1>5 DEF Takes, TakeAll

\* The first of the handles is set.
Sets(t, e) ==
  /\ Setting(t) = Setting(t)' \cup {e} /\ signaled' = signaled \cup {e}
  /\ Distinct(thread[t].handles) =>
       Distinct(thread'[t].handles) /\ Setting(t)' = Setting(t) \ {e}
  /\ thread[t].pc = "setting" /\ thread'[t].pc \in {"setting", AfterSetting}
  /\ thread'[t].event = thread[t].event
  /\ \A u \in Thread : u # t => thread'[u] = thread[u]
  /\ UNCHANGED <<run_state_, user_lock_, timed_out, destroyed>>
  /\ Listed' = Listed

LEMMA SetEventSets ==
  ASSUME EventInv, NEW t \in Thread, SetEvent(t)
  PROVE  \E e : Sets(t, e)
<1> DEFINE handles == thread[t].handles
           e == Head(handles)
<1>1. handles \in Seq(Event) /\ handles # <<>> /\ thread[t].pc = "setting"
  BY DEF SetEvent, At, EventInv, TypeOK, CallsInv
<1>2. /\ thread'[t].handles = Tail(handles) /\ thread'[t].event = thread[t].event
      /\ thread'[t].pc = IF Len(handles) = 1 THEN AfterSetting ELSE "setting"
      /\ \A u \in Thread : u # t => thread'[u] = thread[u]
  BY <1>1 DEF SetEvent, EventInv, TypeOK
<1>3. /\ Setting(t) = Setting(t)' \cup {e}
      /\ Distinct(handles) => Distinct(Tail(handles)) /\ Setting(t)' = Setting(t) \ {e}
  BY <1>1, <1>2, TailElements DEF Setting
<1>4. Sets(t, e)
  BY <1>1, <1>2, <1>3 DEF Sets, SetEvent, lists, Listed
<1>5. QED
  BY <1>4

LEMMA NextNoLostSignal ==
  ASSUME EventInv, NoLostSignal, [Next]_vars
  PROVE  NoLostSignal'
<1> DEFINE Covered(e) == \/ e \in Listed \/ e \in signaled
                         \/ \E u \in Thread : e \in Setting(u)
<1>1. NoLostSignal <=> \A u \in Thread : Asleep(u) => Covered(thread[u].event)
  BY DEF NoLostSignal, Asleep, Setting
<1>2. SUFFICES ASSUME NEW u \in Thread, Asleep(u)'
               PROVE  Covered(thread[u].event)'
  BY DEF NoLostSignal, Asleep, Setting
<1>3. CASE UNCHANGED vars
  BY <1>1, <1>2, <1>3 DEF vars, lists, Asleep, Listed, Setting
<1>4. ASSUME NEW t \in Thread, NEW pc \in PC, Moves(t, pc), UNCHANGED <<lists, signaled>>,
             pc \in {"releasing", "waiting"} => Asleep(t)
      PROVE  Covered(thread[u].event)'
  <2>1. /\ \A v \in Thread : /\ thread'[v].event = thread[v].event
                             /\ Setting(v)' = Setting(v)
                             /\ Asleep(v)' => Asleep(v)
    BY <1>4 DEF Moves, Asleep, Setting
  <2>2. Listed' = Listed /\ signaled' = signaled
    BY <1>4 DEF lists, Listed
  <2>3. QED
    BY <1>1, <1>2, <2>1, <2>2
<1>5. ASSUME NEW t \in Thread, Acquire(t) \/ Release(t) PROVE Covered(thread[u].event)'
  BY <1>1, <1>2, <1>5 DEF Acquire, Release, lists, Asleep, Listed, Setting
<1>6. ASSUME NEW t \in Thread, EnterWait(t) PROVE Covered(thread[u].event)'
  <2>1. PICK e : Enters(t, e)
    BY <1>6, EnterWaitEnters
  <2>2. /\ Listed' = Listed \cup {e} /\ thread'[t].event = e
        /\ \A v \in Thread : v # t => thread'[v] = thread[v]
        /\ \A v \in Thread : Setting(v)' = Setting(v)
        /\ signaled' = signaled
    BY <1>6, <2>1 DEF Enters, Setting, EnterWait, EnterWaitAnyway
  <2>3. QED
    BY <1>1, <1>2, <2>2 DEF Asleep
<1>7. ASSUME NEW t \in Thread, ReleaseUserLock(t) PROVE Covered(thread[u].event)'
  BY <1>4, <1>7, GoesMoves DEF ReleaseUserLock, EventInv, PC, At, Asleep
<1>8. ASSUME NEW t \in Thread, WaitReturns(t) PROVE Covered(thread[u].event)'
  <2>1. Moves(t, "woken") /\ Holding(t)
    BY <1>8, GoesMoves DEF WaitReturns, EventInv, PC, At, Holding
  <2>2. /\ u # t /\ Asleep(u) /\ thread'[u].event = thread[u].event
        /\ \A v \in Thread : Setting(v)' = Setting(v)
    BY <1>2, <2>1 DEF Moves, Asleep, Setting
  <2>3. thread[u].event # thread[t].event
    BY <2>1, <2>2 DEF EventInv, OwnersInv, Owns, Holding, Asleep
  <2>4. Listed' = Listed /\ signaled' = signaled \ {thread[t].event}
    BY <1>8 DEF WaitReturns, lists, Listed
  <2>5. QED
    BY <1>1, <2>2, <2>3, <2>4
<1>9. ASSUME NEW t \in Thread, WaitTimesOut(t) PROVE Covered(thread[u].event)'
  BY <1>4, <1>9, GoesMoves DEF WaitTimesOut, EventInv, PC, At
<1>10. ASSUME NEW t \in Thread, RecycleEvent(t) PROVE Covered(thread[u].event)'
  <2>1. PICK e : Leaves(t, e)
    BY <1>10, RecycleEventLeaves
  <2>2. /\ Listed' = Listed \ {e} /\ Owns(t, e)
        /\ \A v \in Thread : v # t => thread'[v] = thread[v]
        /\ \A v \in Thread : Setting(v)' = Setting(v)
        /\ signaled' = signaled /\ thread'[t].pc = "relocking"
    BY <1>10, <2>1 DEF Leaves, Setting, RecycleEvent
  <2>3. u # t /\ Asleep(u) /\ thread'[u].event = thread[u].event
    BY <1>2, <2>2 DEF Asleep
  <2>4. thread[u].event # e
    BY <2>2, <2>3 DEF EventInv, OwnersInv, Owns, Holding, Asleep
  <2>5. QED
    BY <1>1, <2>2, <2>3, <2>4
<1>11. ASSUME NEW t \in Thread, ReacquireUserLock(t) PROVE Covered(thread[u].event)'
  BY <1>4, <1>11, GoesMoves DEF ReacquireUserLock, EventInv, PC
<1>12. ASSUME NEW t \in Thread, NEW E, Takes(t, E) PROVE Covered(thread[u].event)'
  <2>1. /\ Setting(t)' = E /\ Setting(t) = {} /\ Listed' = Listed \ E
        /\ \A v \in Thread : v # t => Setting(v)' = Setting(v)
        /\ Asleep(u) /\ thread'[u].event = thread[u].event
        /\ signaled' = signaled
    BY <1>2, <1>12 DEF Takes, Setting, Asleep, ToSet
  <2>2. QED
    BY <1>1, <2>1
<1>13. ASSUME NEW t \in Thread, Wakes(t) PROVE Covered(thread[u].event)'
  <2>1. CASE Signal(t)
    BY <1>12, <2>1, SignalTakes
  <2>2. CASE Broadcast(t)
    BY <1>12, <2>2, TakeAllTakes DEF Broadcast, MayCall, At
  <2>3. CASE SetEvent(t)
    <3>1. PICK e : Sets(t, e)
      BY <2>3, SetEventSets
    <3>2. /\ Setting(t) = Setting(t)' \cup {e} /\ signaled' = signaled \cup {e}
          /\ \A v \in Thread : v # t => Setting(v)' = Setting(v)
          /\ Asleep(u) /\ thread'[u].event = thread[u].event
          /\ Listed' = Listed
      BY <1>2, <3>1 DEF Sets, Setting, Asleep, AfterSetting
    <3>3. QED
      BY <1>1, <3>2
  <2>4. QED
    BY <1>13, <2>1, <2>2, <2>3 DEF Wakes
<1>14. ASSUME NEW t \in Thread, Destructor(t) PROVE Covered(thread[u].event)'
  <2>1. CASE Destroy(t)
    <3>1. CASE UNCHANGED thread
      BY <1>1, <1>2, <2>1, <3>1 DEF Destroy, lists, Asleep, Listed, Setting
    <3>2. CASE Goes(t, "destroying")
      BY <1>4, <2>1, <3>2, GoesMoves DEF Destroy, EventInv, PC
    <3>3. QED
      BY <2>1, <3>1, <3>2 DEF Destroy
  <2>2. CASE DestroyBroadcasts(t)
    <3>1. CASE TakeAll(t)
      BY <1>12, <2>2, <3>1, TakeAllTakes DEF DestroyBroadcasts, At
    <3>2. CASE DestroyJustSleeps(t)
      BY <1>4, <3>2, GoesMoves DEF DestroyJustSleeps, EventInv, PC
    <3>3. QED
      BY <2>2, <3>1, <3>2 DEF DestroyBroadcasts
  <2>3. CASE DestroyEnds(t)
    BY <1>4, <2>3, GoesMoves DEF DestroyEnds, EventInv, PC
  <2>4. QED
    BY <1>14, <2>1, <2>2, <2>3 DEF Destructor
<1>15. QED
  BY <1>3, <1>5, <1>6, <1>7, <1>8, <1>9, <1>10, <1>11, <1>13, <1>14 DEF Next, TimedWait

\* A step of a call that goes on while the destructor may run: nobody comes into
\* the destructor, nothing is put on waiting_list_.
LEMMA QuietDestructor ==
  ASSUME EventInv, DestructorInv, NEW t \in Thread,
         UNCHANGED <<run_state_, destroyed>>, Listed' \subseteq Listed,
         \A u \in Thread : u # t => thread'[u] = thread[u],
         thread'[t].pc \in {"out", "relocking"} \/ ~destroyed,
         thread'[t].pc \in {"destroying", "sleeping", "setting"} => thread'[t].pc = thread[t].pc,
         At(t, "destroying") => At(t, "destroying")'
  PROVE  DestructorInv'
<1>1. \A u \in Thread : /\ InDestructor(u)' => InDestructor(u)
                        /\ At(u, "destroying") => At(u, "destroying")'
                        /\ thread'[u].pc \in {"destroying", "sleeping"} =>
                             thread'[u].pc = thread[u].pc
                        /\ thread'[u].pc = thread[u].pc \/ u = t
  BY DEF InDestructor, At
<1>2. QED
  BY <1>1 DEF DestructorInv

LEMMA NextDestructorInv ==
  ASSUME EventInv, NoLostSignal, DestructorInv, [Next]_vars
  PROVE  DestructorInv'
<1>1. CASE UNCHANGED vars
  BY <1>1 DEF vars, DestructorInv, InDestructor, Listed, At
<1>2. ASSUME NEW t \in Thread, Acquire(t) \/ Release(t) PROVE DestructorInv'
  BY <1>2 DEF Acquire, Release, lists, DestructorInv, InDestructor, Listed, At
<1>3. ASSUME NEW t \in Thread, EnterWait(t) PROVE DestructorInv'
  <2>1. PICK e : Enters(t, e)
    BY <1>3, EnterWaitEnters
  <2>2. run_state_ = "RUNNING" /\ run_state_' = "RUNNING" /\ destroyed' = destroyed
    BY <1>3 DEF EnterWait, EnterWaitAnyway
  <2>3. /\ thread'[t].pc = "releasing"
        /\ \A u \in Thread : u # t => thread'[u] = thread[u]
    BY <2>1 DEF Enters
  <2>4. QED
    BY <2>2, <2>3 DEF DestructorInv
<1>4. ASSUME NEW t \in Thread, NEW pc \in {"waiting", "woken", "out"}, Moves(t, pc),
             thread[t].pc \notin {"destroying", "sleeping", "setting"},
             pc = "out" \/ Holding(t),
             UNCHANGED <<run_state_, destroyed>>, UNCHANGED lists
      PROVE  DestructorInv'
  <2>1. Listed' = Listed
    BY <1>4 DEF lists, Listed
  <2>2. pc = "out" \/ ~destroyed
    BY <1>4 DEF Holding, DestructorInv
  <2>3. QED
    BY <1>4, <2>1, <2>2, QuietDestructor DEF Moves, At
<1>5. ASSUME NEW t \in Thread, ReleaseUserLock(t) PROVE DestructorInv'
  BY <1>4, <1>5, GoesMoves DEF ReleaseUserLock, EventInv, PC, At, Holding
<1>6. ASSUME NEW t \in Thread, WaitReturns(t) \/ WaitTimesOut(t) PROVE DestructorInv'
  BY <1>4, <1>6, GoesMoves DEF WaitReturns, WaitTimesOut, EventInv, PC, At, Holding
<1>7. ASSUME NEW t \in Thread, RecycleEvent(t) PROVE DestructorInv'
  <2>1. Leaves(t, thread[t].event)
    BY <1>7, RecycleEventLeaves
  <2>2. /\ Listed' \subseteq Listed /\ thread'[t].pc = "relocking"
        /\ \A u \in Thread : u # t => thread'[u] = thread[u]
        /\ thread[t].pc = "woken" /\ UNCHANGED <<run_state_, destroyed>>
    BY <1>7, <2>1 DEF Leaves, RecycleEvent, At
  <2>3. QED
    BY <2>2, QuietDestructor DEF At
<1>8. ASSUME NEW t \in Thread, ReacquireUserLock(t) PROVE DestructorInv'
  BY <1>4, <1>8, GoesMoves DEF ReacquireUserLock, EventInv, PC, At
<1>9. ASSUME NEW t \in Thread, NEW E, Takes(t, E), run_state_ = "RUNNING"
      PROVE  DestructorInv'
  BY <1>9 DEF Takes, DestructorInv
<1>10. ASSUME NEW t \in Thread, Wakes(t) PROVE DestructorInv'
  <2>1. CASE Signal(t)
    BY <1>9, <2>1, SignalTakes DEF Signal, MayCall
  <2>2. CASE Broadcast(t)
    BY <1>9, <2>2, TakeAllTakes DEF Broadcast, MayCall, At
  <2>3. CASE SetEvent(t)
    <3>1. PICK e : Sets(t, e)
      BY <2>3, SetEventSets
    <3>2. /\ thread[t].pc = "setting" /\ thread'[t].pc \in {"setting", AfterSetting}
          /\ \A u \in Thread : u # t => thread'[u] = thread[u]
          /\ UNCHANGED <<run_state_, destroyed>> /\ Listed' = Listed
      BY <3>1 DEF Sets
    <3>3. CASE run_state_ = "RUNNING"
      BY <3>2, <3>3 DEF DestructorInv, AfterSetting
    <3>4. CASE run_state_ = "SHUTDOWN"
      <4>1. thread'[t].pc \in {"setting", "sleeping"} /\ ~destroyed
        BY <3>2, <3>4 DEF AfterSetting, DestructorInv
      <4>2. \A u \in Thread : /\ InDestructor(u)' <=> InDestructor(u)
                              /\ At(u, "destroying")' <=> At(u, "destroying")
        BY <3>2, <4>1 DEF InDestructor, At
      <4>3. QED
        BY <3>2, <3>4, <4>1, <4>2 DEF DestructorInv
    <3>5. QED
      BY <3>3, <3>4 DEF EventInv, TypeOK
  <2>4. QED
    BY <1>10, <2>1, <2>2, <2>3 DEF Wakes
<1>11. ASSUME NEW t \in Thread, Destroy(t) PROVE DestructorInv'
  <2>1. /\ run_state_ = "RUNNING" /\ run_state_' = "SHUTDOWN" /\ Listed' = Listed
        /\ thread[t].pc = "out" /\ \A u \in Thread : thread[u].pc # "setting"
    BY <1>11 DEF Destroy, MayCall, lists, Listed, At
  <2>2. \A u \in Thread : ~InDestructor(u)
    BY <2>1 DEF DestructorInv, InDestructor
  <2>3. ~destroyed
    BY <2>1 DEF DestructorInv
  <2>4. CASE recycling_list_size_ = allocation_counter_
    <3>1. thread' = thread
      BY <1>11, <2>4 DEF Destroy
    <3>2. \A u \in Thread : ~Holding(u)
      BY <2>4, FullMeansFree
    <3>3. Listed = {}
      BY <3>2 DEF EventInv, ListsInv, Owns
    <3>4. \A u \in Thread : thread[u].pc \in {"out", "relocking"}
      BY <2>2, <3>2 DEF InDestructor, Holding, EventInv, TypeOK, PC
    <3>5. QED
      BY <2>1, <2>2, <3>1, <3>3, <3>4 DEF DestructorInv, InDestructor
  <2>5. CASE recycling_list_size_ # allocation_counter_
    <3>1. Moves(t, "destroying") /\ destroyed' = destroyed
      BY <1>11, <2>5, GoesMoves DEF Destroy, EventInv, PC
    <3>2. \A u \in Thread : InDestructor(u)' => u = t
      BY <2>2, <3>1 DEF Moves, InDestructor
    <3>3. At(t, "destroying")'
      BY <3>1 DEF Moves, At
    <3>4. QED
      BY <2>1, <2>3, <3>1, <3>2, <3>3 DEF DestructorInv
  <2>6. QED
    BY <2>4, <2>5
<1>12. ASSUME NEW t \in Thread, DestroyBroadcasts(t) PROVE DestructorInv'
  <2>1. thread[t].pc = "destroying" /\ run_state_ = "SHUTDOWN" /\ ~destroyed
    BY <1>12 DEF DestroyBroadcasts, At, DestructorInv
  <2>2. /\ Listed' = {} /\ thread'[t].pc \in {"setting", "sleeping"}
        /\ \A u \in Thread : u # t => thread'[u] = thread[u]
        /\ UNCHANGED <<run_state_, destroyed>>
    <3>1. CASE TakeAll(t)
      <4>1. Takes(t, Listed)
        BY <2>1, <3>1, TakeAllTakes
      <4>2. QED
        BY <4>1 DEF Takes
    <3>2. CASE waiting_list_ = <<>> /\ DestroyJustSleeps(t)
      <4>1. Moves(t, "sleeping")
        BY <3>2, GoesMoves DEF DestroyJustSleeps, EventInv, PC
      <4>2. Listed' = {}
        BY <3>2 DEF DestroyJustSleeps, lists, Listed, ToSet
      <4>3. QED
        BY <3>2, <4>1, <4>2 DEF Moves, DestroyJustSleeps
    <3>3. QED
      BY <1>12, <3>1, <3>2 DEF DestroyBroadcasts
  <2>3. \A u \in Thread : InDestructor(u)' <=> InDestructor(u)
    BY <2>1, <2>2 DEF InDestructor
  <2>4. QED
    BY <2>1, <2>2, <2>3 DEF DestructorInv
<1>13. ASSUME NEW t \in Thread, DestroyEnds(t) PROVE DestructorInv'
  <2>1. /\ Moves(t, "out") /\ thread[t].pc = "sleeping" /\ run_state_ = "SHUTDOWN"
        /\ run_state_' = run_state_ /\ Listed' = Listed
        /\ \A u \in Thread : ~CanLeave(u)
    BY <1>13, GoesMoves DEF DestroyEnds, EventInv, PC, At, DestructorInv, lists, Listed
  <2>2. \A u \in Thread : InDestructor(u) => u = t
    BY <2>1 DEF DestructorInv, InDestructor
  <2>3. Listed = {}
    BY <2>1, <2>2 DEF DestructorInv, InDestructor, At
  <2>4. \A u \in Thread : Setting(u) = {}
    <3>1. \A u \in Thread : thread[u].handles = <<>>
      BY <2>1, <2>2 DEF InDestructor, EventInv, CallsInv, At
    <3>2. QED
      BY <3>1 DEF Setting, ToSet
  <2>5. \A u \in Thread : ~Asleep(u)
    BY <2>1, <2>3, <2>4 DEF CanLeave, At, Asleep, NoLostSignal, Setting
  <2>6. \A u \in Thread : ~InDestructor(u)' /\ thread'[u].pc \in {"out", "relocking"}
    <3>1. \A u \in Thread : u # t => thread[u].pc \in {"out", "relocking"}
      BY <2>1, <2>2, <2>5 DEF InDestructor, Asleep, CanLeave, EventInv, TypeOK, PC
    <3>2. QED
      BY <2>1, <3>1 DEF Moves, InDestructor
  <2>7. QED
    BY <2>1, <2>3, <2>6 DEF DestructorInv
<1>14. QED
  BY <1>1, <1>2, <1>3, <1>5, <1>6, <1>7, <1>8, <1>10, <1>11, <1>12, <1>13
     DEF Next, TimedWait, Destructor

LEMMA CondVarInvariant == Spec => []CondVarInv
<1>1. Init => CondVarInv
  <2>1. Init => NoLostSignal
    BY DEF Init, NoLostSignal, Outside
  <2>2. Init => DestructorInv
    BY DEF Init, DestructorInv, InDestructor, Outside
  <2>3. QED
    BY InitEventInv, <2>1, <2>2 DEF CondVarInv
<1>2. CondVarInv /\ [Next]_vars => CondVarInv'
  BY NextEventInv, NextNoLostSignal, NextDestructorInv DEF CondVarInv
<1>3. QED
  BY <1>1, <1>2, PTL DEF Spec

\* For any number of threads, an event that leaves waiting_list_ before its
\* thread is woken is set or is in the hands of a thread that is about to set it.
THEOREM NoLostSignalHolds == Spec => []NoLostSignal
<1>1. CondVarInv => NoLostSignal
  BY DEF CondVarInv
<1>2. QED
  BY CondVarInvariant, <1>1, PTL

\* For any number of threads, a destructor that has slept until nobody could move
\* leaves no thread inside a wait and no event behind.
THEOREM DestroyedAloneHolds == Spec => []DestroyedAlone
<1>1. CondVarInv => DestroyedAlone
  BY FullMeansFree DEF CondVarInv, DestructorInv, DestroyedAlone, Holding
<1>2. QED
  BY CondVarInvariant, <1>1, PTL

-----------------------------------------------------------------------------
(* Where nothing times out, a signal reaches the thread it was sent to.    *)

\* The steps that neither choose an event, nor consume the choice, nor give an
\* event to a thread.
LEMMA QuietChosen ==
  ASSUME EventInv, ChosenInv, timed_out' = timed_out, Listed' = Listed, signaled' = signaled,
         \A u \in Thread : /\ thread'[u].event = thread[u].event
                           /\ thread'[u].handles = thread[u].handles
                           /\ Asleep(u) => Asleep(u)'
  PROVE  ChosenInv'
<1>1. \A u \in Thread : /\ Setting(u)' = Setting(u)
                        /\ \A e : Asleep(u) /\ Owns(u, e) => Asleep(u)' /\ Owns(u, e)'
  BY DEF Setting, Owns, Holding, Asleep
<1>2. Chosen' = Chosen
  BY <1>1 DEF Chosen
<1>3. QED
  BY <1>1, <1>2 DEF ChosenInv

LEMMA MovesChosen ==
  ASSUME EventInv, ChosenInv, NEW t \in Thread, NEW pc \in PC, Goes(t, pc),
         UNCHANGED <<lists, signaled, timed_out>>,
         Asleep(t) => pc \in {"releasing", "waiting"}
  PROVE  ChosenInv'
<1>1. Moves(t, pc)
  BY GoesMoves DEF EventInv
<1>2. \A u \in Thread : /\ thread'[u].event = thread[u].event
                        /\ thread'[u].handles = thread[u].handles
                        /\ Asleep(u) => Asleep(u)'
  BY <1>1 DEF Moves, Asleep
<1>3. Listed' = Listed
  BY DEF lists, Listed
<1>4. QED
  BY <1>2, <1>3, QuietChosen

LEMMA TakesChosen ==
  ASSUME EventInv, ChosenInv, NEW t \in Thread, NEW E, Takes(t, E)
  PROVE  ChosenInv'
<1> SUFFICES ASSUME ~timed_out
             PROVE  ChosenInv'
  BY DEF Takes, ChosenInv
<1>1. /\ \A u \in Thread : u # t => /\ thread'[u] = thread[u]
                                    /\ Setting(u)' = Setting(u)
      /\ Setting(t) = {} /\ Setting(t)' = E /\ Distinct(thread'[t].handles)
      /\ E \subseteq Listed /\ Listed' = Listed \ E /\ signaled' = signaled
  BY DEF Takes, Setting, ToSet
<1>2. \A u \in Thread : \A e : Asleep(u) /\ Owns(u, e) => Asleep(u)' /\ Owns(u, e)'
  BY DEF Takes, Asleep, Owns, Holding
<1>3. Chosen' = Chosen \cup E
  BY <1>1 DEF Chosen
<1>4. Chosen \cap E = {}
  BY <1>1 DEF ChosenInv
<1>5. \A e \in (Chosen \cup Listed)' : \E u \in Thread : (Asleep(u) /\ Owns(u, e))'
  BY <1>1, <1>2, <1>3 DEF ChosenInv
<1>6. \A u \in Thread : u # t => Setting(u) \subseteq Chosen
  BY DEF Chosen
<1>7. \A u \in Thread : Distinct(thread'[u].handles) /\ (Setting(u) \cap signaled)' = {}
  BY <1>1, <1>4 DEF ChosenInv, Chosen
<1>8. \A u, v \in Thread : (Setting(u) \cap Setting(v))' # {} => u = v
  BY <1>1, <1>4, <1>6 DEF ChosenInv
<1>9. (Chosen \cap Listed)' = {}
  BY <1>1, <1>3 DEF ChosenInv
<1>10. QED
  BY <1>5, <1>7, <1>8, <1>9 DEF ChosenInv

LEMMA NextChosenInv ==
  ASSUME EventInv, ChosenInv, [Next]_vars
  PROVE  ChosenInv'
<1>1. CASE UNCHANGED vars
  BY <1>1, QuietChosen DEF vars, lists, Listed, Asleep
<1>2. ASSUME NEW t \in Thread, Acquire(t) \/ Release(t) PROVE ChosenInv'
  BY <1>2, QuietChosen DEF Acquire, Release, lists, Listed, Asleep
<1>3. ASSUME NEW t \in Thread, EnterWait(t) PROVE ChosenInv'
  <2> SUFFICES ASSUME ~timed_out, timed_out' = timed_out
               PROVE  ChosenInv'
    BY <1>3 DEF EnterWait, EnterWaitAnyway, ChosenInv
  <2>1. PICK e : Enters(t, e)
    BY <1>3, EnterWaitEnters
  <2>2. /\ \A u \in Thread : u # t => thread'[u] = thread[u]
        /\ thread'[t].pc = "releasing" /\ thread'[t].event = e
        /\ thread'[t].handles = thread[t].handles
        /\ \A u \in Thread : thread[u].event # e
        /\ ~Holding(t) /\ Listed' = Listed \cup {e} /\ signaled' = signaled
    BY <1>3, <2>1 DEF Enters, EventGot, EnterWait, EnterWaitAnyway
  <2>3. \A u \in Thread : \A x : Asleep(u) /\ Owns(u, x) => Asleep(u)' /\ Owns(u, x)'
    BY <2>2 DEF Asleep, Owns, Holding
  <2>4. Asleep(t)' /\ Owns(t, e)'
    BY <2>2 DEF Asleep, Owns, Holding
  <2>5. \A u \in Thread : thread'[u].handles = thread[u].handles /\ Setting(u)' = Setting(u)
    BY <2>2 DEF Setting
  <2>6. Chosen' = Chosen
    BY <2>2, <2>5 DEF Chosen
  <2>7. e \notin Chosen
    BY <2>2 DEF ChosenInv, Owns
  <2>8. QED
    BY <2>2, <2>3, <2>4, <2>5, <2>6, <2>7 DEF ChosenInv
<1>4. ASSUME NEW t \in Thread, ReleaseUserLock(t) PROVE ChosenInv'
  BY <1>4, MovesChosen DEF ReleaseUserLock, PC
<1>5. ASSUME NEW t \in Thread, WaitReturns(t) PROVE ChosenInv'
  <2> DEFINE e == thread[t].event
  <2> SUFFICES ASSUME ~timed_out, timed_out' = timed_out
               PROVE  ChosenInv'
    BY <1>5 DEF WaitReturns, ChosenInv
  <2>1. /\ Moves(t, "woken") /\ Listed' = Listed /\ signaled' = signaled \ {e}
        /\ e \in signaled /\ Owns(t, e)
    BY <1>5, GoesMoves DEF WaitReturns, EventInv, PC, lists, Listed, At, Owns, Holding
  <2>2. \A u \in Thread : thread'[u].handles = thread[u].handles /\ Setting(u)' = Setting(u)
    BY <2>1 DEF Moves, Setting
  <2>3. e \in Chosen /\ e \notin Listed /\ \A u \in Thread : e \notin Setting(u)
    BY <2>1 DEF Chosen, ChosenInv
  <2>4. Chosen' = Chosen \ {e}
    BY <2>1, <2>2, <2>3 DEF Chosen
  <2>5. \A u \in Thread : \A x : Asleep(u) /\ Owns(u, x) /\ x # e => Asleep(u)' /\ Owns(u, x)'
    BY <2>1 DEF Moves, Asleep, Owns, Holding
  <2> HIDE DEF e
  <2>6. QED
    BY <2>1, <2>2, <2>3, <2>4, <2>5 DEF ChosenInv
<1>6. ASSUME NEW t \in Thread, WaitTimesOut(t) PROVE ChosenInv'
  BY <1>6 DEF WaitTimesOut, ChosenInv
<1>7. ASSUME NEW t \in Thread, RecycleEvent(t) PROVE ChosenInv'
  <2> SUFFICES ASSUME ~timed_out, timed_out' = timed_out
               PROVE  ChosenInv'
    BY <1>7 DEF RecycleEvent, ChosenInv
  <2>1. PICK e : Leaves(t, e)
    BY <1>7, RecycleEventLeaves
  <2>2. /\ \A u \in Thread : u # t => thread'[u] = thread[u]
        /\ thread'[t].handles = thread[t].handles
        /\ Owns(t, e) /\ ~Asleep(t) /\ Listed' = Listed \ {e} /\ signaled' = signaled
    BY <1>7, <2>1 DEF Leaves, RecycleEvent, At, Asleep
  <2>3. \A u \in Thread : thread'[u].handles = thread[u].handles /\ Setting(u)' = Setting(u)
    BY <2>2 DEF Setting
  <2>4. Chosen' = Chosen
    BY <2>2, <2>3 DEF Chosen
  <2>5. \A u \in Thread : \A x : Asleep(u) /\ Owns(u, x) => Asleep(u)' /\ Owns(u, x)'
    BY <2>2 DEF Asleep, Owns, Holding
  <2>6. QED
    BY <2>2, <2>3, <2>4, <2>5 DEF ChosenInv
<1>8. ASSUME NEW t \in Thread, ReacquireUserLock(t) PROVE ChosenInv'
  BY <1>8, MovesChosen DEF ReacquireUserLock, PC, At, Asleep
<1>9. ASSUME NEW t \in Thread, SetEvent(t) PROVE ChosenInv'
  <2>1. PICK e : Sets(t, e)
    BY <1>9, SetEventSets
  <2> SUFFICES ASSUME ~timed_out, timed_out' = timed_out
               PROVE  ChosenInv'
    BY <2>1 DEF Sets, ChosenInv
  <2>2. Distinct(thread[t].handles)
    BY DEF ChosenInv
  <2>3. /\ \A u \in Thread : u # t => /\ thread'[u] = thread[u]
                                      /\ Setting(u)' = Setting(u)
        /\ e \in Setting(t) /\ Setting(t)' = Setting(t) \ {e}
        /\ Distinct(thread'[t].handles)
        /\ signaled' = signaled \cup {e} /\ Listed' = Listed
    BY <2>1, <2>2 DEF Sets, Setting
  <2>4. \A u \in Thread : \A x : Asleep(u) /\ Owns(u, x) => Asleep(u)' /\ Owns(u, x)'
    BY <2>1 DEF Sets, Asleep, Owns, Holding
  <2>5. Chosen' = Chosen
    BY <2>3 DEF Chosen
  <2>6. \A u \in Thread : u # t => e \notin Setting(u)
    BY <2>3 DEF ChosenInv
  <2>7. \A u \in Thread : Distinct(thread'[u].handles) /\ (Setting(u) \cap signaled)' = {}
    BY <2>3, <2>6 DEF ChosenInv
  <2>8. \A u, v \in Thread : (Setting(u) \cap Setting(v))' # {} => u = v
    BY <2>3 DEF ChosenInv
  <2>9. QED
    BY <2>3, <2>4, <2>5, <2>7, <2>8 DEF ChosenInv
<1>10. ASSUME NEW t \in Thread, Wakes(t) PROVE ChosenInv'
  BY <1>9, <1>10, TakesChosen, SignalTakes, TakeAllTakes DEF Wakes, Broadcast, MayCall, At
<1>11. ASSUME NEW t \in Thread, Destructor(t) PROVE ChosenInv'
  <2>1. CASE Destroy(t)
    <3>1. CASE UNCHANGED thread
      BY <2>1, <3>1, QuietChosen DEF Destroy, lists, Listed, Asleep
    <3>2. CASE Goes(t, "destroying")
      BY <2>1, <3>2, MovesChosen DEF Destroy, MayCall, At, PC, Asleep
    <3>3. QED
      BY <2>1, <3>1, <3>2 DEF Destroy
  <2>2. CASE DestroyBroadcasts(t)
    <3>1. CASE TakeAll(t)
      BY <2>2, <3>1, TakesChosen, TakeAllTakes DEF DestroyBroadcasts, At
    <3>2. CASE DestroyJustSleeps(t)
      BY <3>2, MovesChosen DEF DestroyJustSleeps, PC, At, Asleep
    <3>3. QED
      BY <2>2, <3>1, <3>2 DEF DestroyBroadcasts
  <2>3. CASE DestroyEnds(t)
    BY <2>3, MovesChosen DEF DestroyEnds, PC, At, Asleep
  <2>4. QED
    BY <1>11, <2>1, <2>2, <2>3 DEF Destructor
<1>12. QED
  BY <1>1, <1>2, <1>3, <1>4, <1>5, <1>6, <1>7, <1>8, <1>10, <1>11 DEF Next, TimedWait

\* For any number of threads, where no wait was ever ended by its time limit no
\* thread wakes whose event was not chosen by Signal, Broadcast or the destructor.
THEOREM NoSpuriousWakeupHolds == Spec => NoSpuriousWakeup
<1>1. Init => ChosenInv
  <2> SUFFICES ASSUME Init PROVE ChosenInv
    OBVIOUS
  <2>1. \A t \in Thread : thread[t].handles = <<>>
    BY DEF Init, Outside
  <2>2. \A t \in Thread : Setting(t) = {} /\ Distinct(thread[t].handles)
    BY <2>1 DEF Setting, ToSet, Distinct
  <2>3. Listed = {} /\ signaled = {}
    BY DEF Init, Listed, ToSet
  <2>4. QED
    BY <2>2, <2>3 DEF ChosenInv, Chosen
<1>2. EventInv /\ ChosenInv /\ [Next]_vars => ChosenInv'
  BY NextChosenInv
<1>3. EventInv /\ ChosenInv =>
        \A t \in Thread : WaitReturns(t) /\ thread[t].event \in Listed => timed_out
  BY DEF WaitReturns, ChosenInv, Chosen
<1>4. QED
  BY EventInvariant, <1>1, <1>2, <1>3, PTL DEF Spec, NoSpuriousWakeup

-----------------------------------------------------------------------------
(* Every step is one of ConditionVariable's, or none.                      *)

Holder == IF user_lock_ # NoThread /\ At(user_lock_, "releasing")
          THEN NoThread ELSE user_lock_
Blocked == {t \in Thread : Holding(t) /\ thread[t].event \in Listed}
Revived == {t \in Thread : Holding(t) /\ thread[t].event \notin Listed}
Returning == {t \in Thread : At(t, "relocking")}

\* The threads that wait, and for what, are the same.
SameWaits ==
  \A u \in Thread : /\ Holding(u)' <=> Holding(u)
                    /\ Holding(u) => (thread[u].event \in Listed)' <=> thread[u].event \in Listed
                    /\ At(u, "relocking")' <=> At(u, "relocking")

LEMMA SameSets ==
  ASSUME SameWaits
  PROVE  UNCHANGED <<Blocked, Revived, Returning>>
  BY DEF SameWaits, Blocked, Revived, Returning

LEMMA SameHolder ==
  ASSUME UNCHANGED user_lock_, user_lock_ \in Thread \cup {NoThread},
         \A u \in Thread : At(u, "releasing")' <=> At(u, "releasing")
  PROVE  UNCHANGED Holder
  BY ThreadAssumption DEF Holder

LEMMA Stutters ==
  ASSUME UNCHANGED <<Holder, Blocked, Revived, Returning, run_state_>>
  PROVE  UNCHANGED Abstract!vars
  BY DEF Abstract!vars, Holder, Blocked, Revived, Returning

LEMMA TakesRevives ==
  ASSUME EventInv, NEW t \in Thread, thread[t].pc \in {"out", "destroying"}, NEW E, Takes(t, E)
  PROVE  /\ Blocked' = {u \in Blocked : thread[u].event \notin E}
         /\ Revived' = Revived \cup {u \in Blocked : thread[u].event \in E}
         /\ UNCHANGED <<Holder, Returning, run_state_>>
<1>1. \A u \in Thread : /\ Holding(u)' <=> Holding(u)
                        /\ thread'[u].event = thread[u].event
                        /\ At(u, "relocking")' <=> At(u, "relocking")
                        /\ At(u, "releasing")' <=> At(u, "releasing")
  BY DEF Takes, Holding, At
<1>2. Listed' = Listed \ E /\ E \subseteq Listed /\ UNCHANGED <<user_lock_, run_state_>>
  BY DEF Takes
<1>3. UNCHANGED <<Holder, Returning>>
  BY <1>1, <1>2, SameHolder DEF Returning, EventInv, TypeOK
<1>4. QED
  BY <1>1, <1>2, <1>3 DEF Blocked, Revived

LEMMA BroadcastRevives ==
  ASSUME EventInv, NEW t \in Thread, thread[t].pc \in {"out", "destroying"}, TakeAll(t)
  PROVE  Abstract!Broadcast
<1>1. Takes(t, Listed)
  BY TakeAllTakes
<1>2. /\ Blocked' = {} /\ Revived' = Revived \cup Blocked
      /\ UNCHANGED <<Holder, Returning, run_state_>>
  BY <1>1, TakesRevives DEF Blocked
<1>3. Blocked # {}
  <2>1. waiting_list_ \in Seq(Event) /\ waiting_list_ # <<>>
    BY DEF TakeAll, EventInv, TypeOK
  <2>2. Head(waiting_list_) \in Listed
    BY <2>1, TailElements DEF Listed
  <2>3. QED
    BY <2>2 DEF EventInv, ListsInv, Owns, Blocked
<1>4. QED
  BY <1>2, <1>3 DEF Abstract!Broadcast, Holder, Blocked, Revived, Returning

LEMMA NextImplements ==
  ASSUME CondVarInv, [Next]_vars
  PROVE  [Abstract!Next]_(Abstract!vars)
<1> USE DEF CondVarInv
<1>0. user_lock_ \in Thread \cup {NoThread} /\ NoThread \notin Thread
  BY ThreadAssumption DEF EventInv, TypeOK
<1>1. CASE UNCHANGED vars
  BY <1>1 DEF vars, lists, Abstract!vars, At, Holding, Listed
\* A thread moves, without beginning or ending a wait.
<1>2. ASSUME NEW t \in Thread, NEW pc \in PC, Goes(t, pc), UNCHANGED <<lists, user_lock_, run_state_>>,
             Holding(t) <=> pc \in {"releasing", "waiting", "woken"},
             thread[t].pc \notin {"relocking", "releasing"},
             pc \notin {"relocking", "releasing"}
      PROVE  UNCHANGED Abstract!vars
  <2>1. Moves(t, pc)
    BY <1>2, GoesMoves DEF EventInv
  <2>2. Listed' = Listed
    BY <1>2 DEF lists, Listed
  <2>3. SameWaits
    BY <1>2, <2>1, <2>2 DEF Moves, SameWaits, Holding, At
  <2>4. UNCHANGED Holder
    BY <1>0, <1>2, <2>1, SameHolder DEF Moves, At
  <2>5. QED
    BY <1>2, <2>3, <2>4, SameSets, Stutters
<1>3. ASSUME NEW t \in Thread, Acquire(t) PROVE Abstract!Acquire(t)
  <2>1. UNCHANGED <<thread, run_state_>> /\ Listed' = Listed /\ user_lock_ = NoThread
        /\ user_lock_' = t /\ thread[t].pc = "out"
    BY <1>3 DEF Acquire, lists, Listed, At
  <2>2. UNCHANGED <<Blocked, Revived, Returning>>
    BY <2>1 DEF Blocked, Revived, Returning, Holding, At
  <2>3. Holder = NoThread /\ Holder' = t
    BY <2>1, <1>0 DEF Holder, At
  <2>4. t \notin Blocked \cup Revived \cup Returning
    BY <2>1 DEF Blocked, Revived, Returning, Holding, At
  <2>5. QED
    BY <2>1, <2>2, <2>3, <2>4 DEF Abstract!Acquire, Abstract!Inside, Holder, Blocked, Revived, Returning
<1>4. ASSUME NEW t \in Thread, Release(t) PROVE Abstract!Release(t)
  <2>1. UNCHANGED <<thread, run_state_>> /\ Listed' = Listed /\ user_lock_ = t
        /\ user_lock_' = NoThread /\ thread[t].pc = "out"
    BY <1>4 DEF Release, lists, Listed, At
  <2>2. UNCHANGED <<Blocked, Revived, Returning>>
    BY <2>1 DEF Blocked, Revived, Returning, Holding, At
  <2>3. Holder = t /\ Holder' = NoThread
    BY <2>1, <1>0 DEF Holder, At
  <2>4. QED
    BY <2>1, <2>2, <2>3 DEF Abstract!Release, Holder, Blocked, Revived, Returning
<1>5. ASSUME NEW t \in Thread, EnterWait(t) PROVE Abstract!Wait(t)
  <2>1. PICK e : Enters(t, e)
    BY <1>5, EnterWaitEnters
  <2>2. /\ \A u \in Thread : u # t => thread'[u] = thread[u] /\ (Holding(u)' <=> Holding(u))
        /\ thread'[t].pc = "releasing" /\ thread'[t].event = e
        /\ \A u \in Thread : thread[u].event # e
        /\ ~Holding(t) /\ Holding(t)' /\ Listed' = Listed \cup {e}
    BY <2>1 DEF Enters, EventGot
  <2>3. user_lock_ = t /\ user_lock_' = t /\ run_state_ = "RUNNING" /\ run_state_' = "RUNNING"
        /\ thread[t].pc = "out"
    BY <1>5 DEF EnterWait, EnterWaitAnyway, At
  <2>4. Holder = t /\ Holder' = NoThread
    BY <1>0, <2>2, <2>3 DEF Holder, At
  <2>5. Blocked' = Blocked \cup {t}
    BY <2>2 DEF Blocked
  <2>6. Revived' = Revived
    BY <2>2 DEF Revived
  <2>7. Returning' = Returning
    BY <2>2, <2>3 DEF Returning, At
  <2>8. QED
    BY <2>3, <2>4, <2>5, <2>6, <2>7 DEF Abstract!Wait, Holder, Blocked, Revived, Returning
<1>6. ASSUME NEW t \in Thread, ReleaseUserLock(t) PROVE UNCHANGED Abstract!vars
  <2>1. Moves(t, "waiting") /\ thread[t].pc = "releasing" /\ user_lock_ = t
    BY <1>6, GoesMoves DEF ReleaseUserLock, At, PC, EventInv, CallsInv
  <2>2. Listed' = Listed /\ user_lock_' = NoThread /\ run_state_' = run_state_
    BY <1>6 DEF ReleaseUserLock, lists, Listed
  <2>3. SameWaits
    BY <2>1, <2>2 DEF Moves, SameWaits, Holding, At
  <2>4. Holder = NoThread /\ Holder' = NoThread
    BY <1>0, <2>1, <2>2 DEF Holder, At
  <2>5. QED
    BY <2>2, <2>3, <2>4, SameSets, Stutters
<1>7. ASSUME NEW t \in Thread, WaitReturns(t) \/ WaitTimesOut(t)
      PROVE  UNCHANGED Abstract!vars
  BY <1>2, <1>7 DEF WaitReturns, WaitTimesOut, At, Holding, PC
<1>8. ASSUME NEW t \in Thread, RecycleEvent(t)
      PROVE  Abstract!GiveUp(t) \/ Abstract!Resume(t)
  <2>1. PICK e : Leaves(t, e)
    BY <1>8, RecycleEventLeaves
  <2>2. /\ \A u \in Thread : u # t => thread'[u] = thread[u] /\ (Holding(u)' <=> Holding(u))
        /\ thread'[t].pc = "relocking" /\ ~Holding(t)'
        /\ Owns(t, e) /\ Listed' = Listed \ {e}
    BY <2>1 DEF Leaves
  <2>3. \A u \in Thread : u # t /\ Holding(u) => thread[u].event # e
    BY <2>2 DEF EventInv, OwnersInv, Owns
  <2>4. Holding(t) /\ thread[t].event = e
    BY <2>2 DEF Owns
  <2>5. Blocked' = Blocked \ {t} /\ Revived' = Revived \ {t}
    BY <2>2, <2>3 DEF Blocked, Revived
  <2>6. Returning' = Returning \cup {t}
    BY <2>2 DEF Returning, At
  <2>7. UNCHANGED run_state_ /\ UNCHANGED Holder
    <3>1. UNCHANGED <<run_state_, user_lock_>> /\ thread[t].pc = "woken"
      BY <1>8 DEF RecycleEvent, At
    <3>2. QED
      BY <1>0, <2>2, <3>1, SameHolder DEF At
  <2>8. CASE e \in Listed
    <3>1. t \in Blocked /\ t \notin Revived
      BY <2>4, <2>8 DEF Blocked, Revived
    <3>2. QED
      BY <2>5, <2>6, <2>7, <3>1 DEF Abstract!GiveUp, Holder, Blocked, Revived, Returning
  <2>9. CASE e \notin Listed
    <3>1. t \in Revived /\ t \notin Blocked
      BY <2>4, <2>9 DEF Blocked, Revived
    <3>2. QED
      BY <2>5, <2>6, <2>7, <3>1 DEF Abstract!Resume, Holder, Blocked, Revived, Returning
  <2>10. QED
    BY <2>8, <2>9
<1>9. ASSUME NEW t \in Thread, ReacquireUserLock(t) PROVE Abstract!Reacquire(t)
  <2>1. Moves(t, "out") /\ thread[t].pc = "relocking"
    BY <1>9, GoesMoves DEF ReacquireUserLock, At, PC, EventInv
  <2>2. Listed' = Listed /\ user_lock_ = NoThread /\ user_lock_' = t /\ run_state_' = run_state_
    BY <1>9 DEF ReacquireUserLock, lists, Listed
  <2>3. UNCHANGED <<Blocked, Revived>>
    BY <2>1, <2>2 DEF Moves, Blocked, Revived, Holding
  <2>4. t \in Returning /\ Returning' = Returning \ {t}
    BY <2>1 DEF Moves, Returning, At
  <2>5. Holder = NoThread /\ Holder' = t
    BY <1>0, <2>1, <2>2 DEF Holder, At, Moves
  <2>6. QED
    BY <2>2, <2>3, <2>4, <2>5 DEF Abstract!Reacquire, Holder, Blocked, Revived, Returning
<1>10. ASSUME NEW t \in Thread, Signal(t) PROVE Abstract!Signal
  <2>1. PICK e : Takes(t, {e})
    BY <1>10, SignalTakes
  <2>2. thread[t].pc = "out"
    BY <1>10 DEF Signal, MayCall, At
  <2>3. PICK u \in Thread : Owns(u, e)
    BY <2>1 DEF Takes, EventInv, ListsInv
  <2>4. {v \in Blocked : thread[v].event \in {e}} = {u}
    BY <2>1, <2>3 DEF Takes, Blocked, EventInv, OwnersInv, Owns
  <2>5. /\ u \in Blocked /\ Blocked' = Blocked \ {u} /\ Revived' = Revived \cup {u}
        /\ UNCHANGED <<Holder, Returning, run_state_>>
    BY <2>1, <2>2, <2>4, TakesRevives
  <2>6. QED
    BY <2>5 DEF Abstract!Signal, Holder, Blocked, Revived, Returning
<1>11. ASSUME NEW t \in Thread, SetEvent(t) PROVE UNCHANGED Abstract!vars
  <2>1. PICK e : Sets(t, e)
    BY <1>11, SetEventSets
  <2>2. SameWaits
    BY <2>1 DEF Sets, AfterSetting, SameWaits, Holding, At
  <2>3. UNCHANGED Holder /\ UNCHANGED run_state_
    BY <1>0, <2>1, SameHolder DEF Sets, AfterSetting, At
  <2>4. QED
    BY <2>2, <2>3, SameSets, Stutters
<1>12. ASSUME NEW t \in Thread, Destroy(t) PROVE Abstract!Close
  <2>1. /\ run_state_ = "RUNNING" /\ run_state_' = "SHUTDOWN" /\ thread[t].pc = "out"
        /\ UNCHANGED user_lock_ /\ Listed' = Listed
    BY <1>12 DEF Destroy, MayCall, At, lists, Listed
  <2>2. \A u \in Thread : /\ thread'[u].event = thread[u].event
                          /\ Holding(u)' <=> Holding(u)
                          /\ At(u, "relocking")' <=> At(u, "relocking")
                          /\ At(u, "releasing")' <=> At(u, "releasing")
    <3>1. CASE UNCHANGED thread
      BY <3>1 DEF Holding, At
    <3>2. CASE Goes(t, "destroying")
      <4>1. Moves(t, "destroying")
        BY <3>2, GoesMoves DEF PC, EventInv
      <4>2. QED
        BY <2>1, <4>1 DEF Moves, Holding, At
    <3>3. QED
      BY <1>12, <3>1, <3>2 DEF Destroy
  <2>3. UNCHANGED <<Holder, Blocked, Revived, Returning>>
    BY <1>0, <2>1, <2>2, SameHolder, SameSets DEF SameWaits
  <2>4. QED
    BY <2>1, <2>3 DEF Abstract!Close, Holder, Blocked, Revived, Returning
<1>13. ASSUME NEW t \in Thread, DestroyBroadcasts(t)
       PROVE  Abstract!Broadcast \/ UNCHANGED Abstract!vars
  <2>1. CASE TakeAll(t)
    BY <1>13, <2>1, BroadcastRevives DEF DestroyBroadcasts, At
  <2>2. CASE DestroyJustSleeps(t)
    BY <1>2, <2>2 DEF DestroyJustSleeps, At, Holding, PC
  <2>3. QED
    BY <1>13, <2>1, <2>2 DEF DestroyBroadcasts
<1>14. ASSUME NEW t \in Thread, DestroyEnds(t) PROVE UNCHANGED Abstract!vars
  BY <1>2, <1>14 DEF DestroyEnds, At, Holding, PC
<1>15. ASSUME NEW t \in Thread, Broadcast(t) PROVE Abstract!Broadcast
  BY <1>15, BroadcastRevives DEF Broadcast, MayCall, At
<1>16. QED
  BY <1>1, <1>3, <1>4, <1>5, <1>6, <1>7, <1>8, <1>9, <1>10, <1>11, <1>12, <1>13, <1>14, <1>15
     DEF Next, TimedWait, Wakes, Destructor, Abstract!Next

\* Step by step TimedWait, Signal, Broadcast and the destructor do what
\* condition_variable.h says of Wait, Signal and Broadcast, for any number of
\* threads: what Abstract!Spec asks of the steps, without its fairness.
THEOREM StepsImplementConditionVariable ==
  Spec => Abstract!Init /\ [][Abstract!Next]_(Abstract!vars)
<1>1. Init => Abstract!Init
  <2> SUFFICES ASSUME Init PROVE Abstract!Init
    OBVIOUS
  <2>1. \A t \in Thread : ~Holding(t) /\ ~At(t, "relocking")
    BY DEF Init, Holding, At, Outside
  <2>2. QED
    BY <2>1 DEF Init, Abstract!Init
<1>2. CondVarInv /\ [Next]_vars => [Abstract!Next]_(Abstract!vars)
  BY NextImplements
<1>3. QED
  BY CondVarInvariant, <1>1, <1>2, PTL DEF Spec
=============================================================================
