------------------------ MODULE MessageLoopTaskProofs ------------------------
(***************************************************************************)
(* Where a posted task is, for every number of posting threads, tasks and  *)
(* nested loops: in one place at a time, gone when the loop is, and never  *)
(* left behind by a wait without a limit; and MessageLoop implements       *)
(* SequencedTaskRunner, for as many tasks as the sequence numbers of the   *)
(* delayed work queue can tell apart.                                      *)
(***************************************************************************)
EXTENDS MCMessageLoop, MessageLoopProofs, ListLemmas

USE DepthAssumption

-----------------------------------------------------------------------------
(* Each task is in one place.                                              *)

WorkTasks == ToSet(work_queue)
DeferredTasks == ToSet(deferred_queue)
DelayedTasks == {e.task : e \in delayed_work_queue}

\* The six sets divide all.
Divide(all, incoming, work, deferred, delayed, begun, gone) ==
  /\ all = incoming \cup work \cup deferred \cup delayed \cup begun \cup gone
  /\ incoming \cap (work \cup deferred \cup delayed \cup begun \cup gone) = {}
  /\ work \cap (deferred \cup delayed \cup begun \cup gone) = {}
  /\ deferred \cap (delayed \cup begun \cup gone) = {}
  /\ delayed \cap (begun \cup gone) = {}
  /\ begun \cap gone = {}

Divided ==
  Divide(Task, IncomingTasks, WorkTasks, DeferredTasks, DelayedTasks,
         StartedTasks, deleted)

\* No queue, and no history of starts, names a task twice.
NoneTwice ==
  /\ Distinct(incoming_queue) /\ Distinct(work_queue)
  /\ Distinct(deferred_queue) /\ Distinct(started)
  /\ \A e, f \in delayed_work_queue : e.task = f.task => e = f

PlacesInv == Divided /\ NoneTwice

LEMMA PushPlaces ==
  ASSUME TypeOK, PlacesInv, NEW task \in TaskType, Push(task)
  PROVE  /\ Distinct(incoming_queue')
         /\ IncomingTasks' = IncomingTasks \cup {Len(log) + 1}
         /\ Task' = Task \cup {Len(log) + 1}
         /\ Len(log) + 1 \notin Task
<1>1. log \in Seq(TaskType) /\ incoming_queue \in Seq(Task)
      /\ Distinct(incoming_queue)
  BY DEF TypeOK, PlacesInv, NoneTwice
<1>2. /\ Task' = Task \cup {Len(log) + 1} /\ Len(log) + 1 \notin Task
  BY <1>1, PushTypes DEF Task
<1>3. incoming_queue \in Seq(Task') /\ Len(log) + 1 \in Task'
  BY <1>1, <1>2
<1>4. Len(log) + 1 \notin ToSet(incoming_queue)
  BY <1>1, <1>2 DEF ToSet
<1>5. incoming_queue' = Append(incoming_queue, Len(log) + 1)
  BY DEF Push
<1>6. /\ ToSet(incoming_queue') = ToSet(incoming_queue) \cup {Len(log) + 1}
      /\ Distinct(incoming_queue')
  BY <1>1, <1>3, <1>4, <1>5, AppendElements
<1>7. QED
  BY <1>2, <1>6 DEF IncomingTasks, ToSet

\* A post adds its task to incoming_queue_ and touches no other place.
LEMMA PostKeepsPlaces ==
  ASSUME TypeOK, PlacesInv, NEW task \in TaskType, Push(task),
         UNCHANGED <<queues, started, deleted>>
  PROVE  PlacesInv'
<1>1. /\ WorkTasks' = WorkTasks /\ DeferredTasks' = DeferredTasks
      /\ DelayedTasks' = DelayedTasks /\ StartedTasks' = StartedTasks
      /\ deleted' = deleted
  BY DEF queues, WorkTasks, DeferredTasks, DelayedTasks, StartedTasks
<1>2. NoneTwice'
  BY PushPlaces DEF queues, PlacesInv, NoneTwice
<1>3. Divided'
  BY <1>1, PushPlaces DEF PlacesInv, Divided, Divide
<1>4. QED
  BY <1>2, <1>3 DEF PlacesInv

LEMMA SamePlaces ==
  ASSUME PlacesInv, log' = log,
         UNCHANGED <<incoming_queue, queues, started, deleted>>
  PROVE  PlacesInv'
BY DEF PlacesInv, Divided, NoneTwice, Task, IncomingTasks, WorkTasks,
       DeferredTasks, DelayedTasks, StartedTasks, queues

\* Off the queue a task is on, and onto its next place.
LEMMA WorkLeaves ==
  ASSUME TypeOK, PlacesInv, TakesOldest
  PROVE  /\ Head(work_queue) \in WorkTasks /\ Head(work_queue) \in Task
         /\ WorkTasks' = WorkTasks \ {Head(work_queue)}
         /\ Distinct(work_queue')
<1>1. work_queue \in Seq(Task) /\ work_queue # <<>> /\ Distinct(work_queue)
  BY DEF TypeOK, PlacesInv, NoneTwice, TakesOldest
<1>2. QED
  BY <1>1, TailElements DEF WorkTasks, TakesOldest

LEMMA DelayedLeaves ==
  ASSUME TypeOK, PlacesInv, NEW e \in delayed_work_queue, TakesDue(e)
  PROVE  /\ e.task \in DelayedTasks /\ e.task \in Task
         /\ DelayedTasks' = DelayedTasks \ {e.task}
         /\ \A f, g \in delayed_work_queue' : f.task = g.task => f = g
<1>1. delayed_work_queue' = delayed_work_queue \ {e}
  BY DEF TakesDue
<1>2. e.task \in Task
  BY DEF TypeOK
<1>3. QED
  BY <1>1, <1>2 DEF PlacesInv, NoneTwice, DelayedTasks

LEMMA DeferredLeaves ==
  ASSUME TypeOK, PlacesInv, deferred_queue # <<>>,
         deferred_queue' = Tail(deferred_queue)
  PROVE  /\ Head(deferred_queue) \in DeferredTasks
         /\ Head(deferred_queue) \in Task
         /\ DeferredTasks' = DeferredTasks \ {Head(deferred_queue)}
         /\ Distinct(deferred_queue')
<1>1. deferred_queue \in Seq(Task) /\ Distinct(deferred_queue)
  BY DEF TypeOK, PlacesInv, NoneTwice
<1>2. QED
  BY <1>1, TailElements DEF DeferredTasks

LEMMA Starts ==
  ASSUME TypeOK, PlacesInv, NEW t \in Task, t \notin StartedTasks, RunTask(t)
  PROVE  StartedTasks' = StartedTasks \cup {t} /\ Distinct(started')
<1>1. /\ started \in Seq(Task) /\ Distinct(started) /\ t \notin ToSet(started)
      /\ started' = Append(started, t)
  BY DEF TypeOK, PlacesInv, NoneTwice, StartedTasks, ToSet, RunTask
<1>2. QED
  BY <1>1, AppendElements DEF StartedTasks, ToSet

LEMMA Defers ==
  ASSUME TypeOK, PlacesInv, NEW t \in Task, t \notin DeferredTasks,
         deferred_queue' = Append(deferred_queue, t)
  PROVE  DeferredTasks' = DeferredTasks \cup {t} /\ Distinct(deferred_queue')
<1>1. deferred_queue \in Seq(Task) /\ Distinct(deferred_queue)
  BY DEF TypeOK, PlacesInv, NoneTwice
<1>2. QED
  BY <1>1, AppendElements DEF DeferredTasks

LEMMA Schedules ==
  ASSUME PlacesInv, NEW t, t \notin DelayedTasks, AddToDelayedWorkQueue(t)
  PROVE  /\ DelayedTasks' = DelayedTasks \cup {t}
         /\ \A f, g \in delayed_work_queue' : f.task = g.task => f = g
<1>1. delayed_work_queue' = delayed_work_queue \cup {Delayed(t)}
  BY DEF AddToDelayedWorkQueue
<1>2. Delayed(t).task = t
  BY DEF Delayed
<1>3. QED
  BY <1>1, <1>2 DEF PlacesInv, NoneTwice, DelayedTasks

LEMMA PumpPlaces ==
  ASSUME TypeOK, PlacesInv, Pump
  PROVE  PlacesInv'
<1> USE DEF elsewhere
<1>1. log' = log /\ deleted' = deleted
  BY DEF Pump, DoWorkNotAllowed, ReloadWorkQueue, DoWorkEmpty, DoWorkDelayed,
         DoWorkDefer, DoWorkRun, DoDelayedWorkNothing, DoDelayedWorkNotDue,
         DoDelayedWorkRun, DoDelayedWorkDefer, DoIdleWorkRun, DoIdleWorkQuit,
         DoIdleWorkBlock, WaitReturns, TakesOldest, TakesDue
<1>2. Task' = Task
  BY <1>1 DEF Task
<1>3. ASSUME incoming_queue' = incoming_queue
      PROVE  IncomingTasks' = IncomingTasks
  BY <1>3 DEF IncomingTasks
<1>4. ASSUME work_queue' = work_queue PROVE WorkTasks' = WorkTasks
  BY <1>4 DEF WorkTasks
<1>5. ASSUME deferred_queue' = deferred_queue
      PROVE  DeferredTasks' = DeferredTasks
  BY <1>5 DEF DeferredTasks
<1>6. ASSUME delayed_work_queue' = delayed_work_queue
      PROVE  DelayedTasks' = DelayedTasks
  BY <1>6 DEF DelayedTasks
<1>7. ASSUME started' = started PROVE StartedTasks' = StartedTasks
  BY <1>7 DEF StartedTasks
<1>8. CASE UNCHANGED <<incoming_queue, queues, started>>
  BY <1>1, <1>8, SamePlaces
<1>9. CASE ReloadWorkQueue
  <2>1. IncomingTasks' = WorkTasks /\ WorkTasks' = IncomingTasks
    BY <1>9 DEF ReloadWorkQueue, IncomingTasks, WorkTasks, ToSet
  <2>2. UNCHANGED <<deferred_queue, delayed_work_queue, started>>
    BY <1>9 DEF ReloadWorkQueue
  <2>3. Divided'
    BY <1>1, <1>2, <1>5, <1>6, <1>7, <2>1, <2>2 DEF PlacesInv, Divided, Divide
  <2>4. NoneTwice'
    BY <1>9, <2>2 DEF ReloadWorkQueue, PlacesInv, NoneTwice
  <2>5. QED
    BY <2>3, <2>4 DEF PlacesInv
<1>10. CASE DoWorkDelayed
  <2> DEFINE t == Head(work_queue)
  <2>1. /\ TakesOldest /\ AddToDelayedWorkQueue(t)
        /\ UNCHANGED <<incoming_queue, deferred_queue, started>>
    BY <1>10 DEF DoWorkDelayed, TakesOldest
  <2>2. t \in WorkTasks /\ WorkTasks' = WorkTasks \ {t} /\ Distinct(work_queue')
    BY <2>1, WorkLeaves
  <2> HIDE DEF t
  <2>3. t \notin DelayedTasks
    BY <2>2 DEF PlacesInv, Divided, Divide
  <2>4. /\ DelayedTasks' = DelayedTasks \cup {t}
        /\ \A f, g \in delayed_work_queue' : f.task = g.task => f = g
    BY <2>1, <2>3, Schedules
  <2>5. Divided'
    BY <1>1, <1>2, <1>3, <1>5, <1>7, <2>1, <2>2, <2>4
       DEF PlacesInv, Divided, Divide
  <2>6. NoneTwice'
    BY <2>1, <2>2, <2>4 DEF PlacesInv, NoneTwice
  <2>7. QED
    BY <2>5, <2>6 DEF PlacesInv
<1>11. CASE DoWorkDefer
  <2> DEFINE t == Head(work_queue)
  <2>1. /\ TakesOldest /\ deferred_queue' = Append(deferred_queue, t)
        /\ UNCHANGED <<incoming_queue, delayed_work_queue, started>>
    BY <1>11 DEF DoWorkDefer, TakesOldest
  <2>2. /\ t \in WorkTasks /\ t \in Task /\ WorkTasks' = WorkTasks \ {t}
        /\ Distinct(work_queue')
    BY <2>1, WorkLeaves
  <2> HIDE DEF t
  <2>3. t \notin DeferredTasks
    BY <2>2 DEF PlacesInv, Divided, Divide
  <2>4. DeferredTasks' = DeferredTasks \cup {t} /\ Distinct(deferred_queue')
    BY <2>1, <2>2, <2>3, Defers
  <2>5. Divided'
    BY <1>1, <1>2, <1>3, <1>6, <1>7, <2>1, <2>2, <2>4
       DEF PlacesInv, Divided, Divide
  <2>6. NoneTwice'
    BY <2>1, <2>2, <2>4 DEF PlacesInv, NoneTwice
  <2>7. QED
    BY <2>5, <2>6 DEF PlacesInv
<1>12. CASE DoWorkRun
  <2> DEFINE t == Head(work_queue)
  <2>1. /\ TakesOldest /\ RunTask(t)
        /\ UNCHANGED <<incoming_queue, delayed_work_queue, deferred_queue>>
    BY <1>12 DEF DoWorkRun, TakesOldest
  <2>2. /\ t \in WorkTasks /\ t \in Task /\ WorkTasks' = WorkTasks \ {t}
        /\ Distinct(work_queue')
    BY <2>1, WorkLeaves
  <2> HIDE DEF t
  <2>3. t \notin StartedTasks
    BY <2>2 DEF PlacesInv, Divided, Divide
  <2>4. StartedTasks' = StartedTasks \cup {t} /\ Distinct(started')
    BY <2>1, <2>2, <2>3, Starts
  <2>5. Divided'
    BY <1>1, <1>2, <1>3, <1>5, <1>6, <2>1, <2>2, <2>4
       DEF PlacesInv, Divided, Divide
  <2>6. NoneTwice'
    BY <2>1, <2>2, <2>4 DEF PlacesInv, NoneTwice
  <2>7. QED
    BY <2>5, <2>6 DEF PlacesInv
<1>13. CASE DoDelayedWorkRun
  <2>1. PICK e \in delayed_work_queue :
          TakesDue(e) /\ RunTask(e.task) /\ UNCHANGED deferred_queue
    BY <1>13 DEF DoDelayedWorkRun
  <2> DEFINE t == e.task
  <2>2. /\ t \in DelayedTasks /\ t \in Task
        /\ DelayedTasks' = DelayedTasks \ {t}
        /\ \A f, g \in delayed_work_queue' : f.task = g.task => f = g
    BY <2>1, DelayedLeaves
  <2>3. UNCHANGED <<incoming_queue, work_queue>> /\ RunTask(t)
    BY <2>1 DEF TakesDue
  <2> HIDE DEF t
  <2>4. t \notin StartedTasks
    BY <2>2 DEF PlacesInv, Divided, Divide
  <2>5. StartedTasks' = StartedTasks \cup {t} /\ Distinct(started')
    BY <2>2, <2>3, <2>4, Starts
  <2>6. Divided'
    BY <1>1, <1>2, <1>3, <1>4, <1>5, <2>1, <2>2, <2>3, <2>5
       DEF PlacesInv, Divided, Divide
  <2>7. NoneTwice'
    BY <2>1, <2>2, <2>3, <2>5 DEF PlacesInv, NoneTwice
  <2>8. QED
    BY <2>6, <2>7 DEF PlacesInv
<1>14. CASE DoDelayedWorkDefer
  <2>1. PICK e \in delayed_work_queue :
          /\ TakesDue(e) /\ UNCHANGED started
          /\ deferred_queue' = Append(deferred_queue, e.task)
    BY <1>14 DEF DoDelayedWorkDefer
  <2> DEFINE t == e.task
  <2>2. /\ t \in DelayedTasks /\ t \in Task
        /\ DelayedTasks' = DelayedTasks \ {t}
        /\ \A f, g \in delayed_work_queue' : f.task = g.task => f = g
    BY <2>1, DelayedLeaves
  <2>3. UNCHANGED <<incoming_queue, work_queue>>
        /\ deferred_queue' = Append(deferred_queue, t)
    BY <2>1 DEF TakesDue
  <2> HIDE DEF t
  <2>4. t \notin DeferredTasks
    BY <2>2 DEF PlacesInv, Divided, Divide
  <2>5. DeferredTasks' = DeferredTasks \cup {t} /\ Distinct(deferred_queue')
    BY <2>2, <2>3, <2>4, Defers
  <2>6. Divided'
    BY <1>1, <1>2, <1>3, <1>4, <1>7, <2>1, <2>2, <2>3, <2>5
       DEF PlacesInv, Divided, Divide
  <2>7. NoneTwice'
    BY <2>1, <2>2, <2>3, <2>5 DEF PlacesInv, NoneTwice
  <2>8. QED
    BY <2>6, <2>7 DEF PlacesInv
<1>15. CASE DoIdleWorkRun
  <2> DEFINE t == Head(deferred_queue)
  <2>1. /\ deferred_queue # <<>> /\ deferred_queue' = Tail(deferred_queue)
        /\ RunTask(t)
        /\ UNCHANGED <<incoming_queue, work_queue, delayed_work_queue>>
    BY <1>15 DEF DoIdleWorkRun, DeferredCanRun
  <2>2. /\ t \in DeferredTasks /\ t \in Task
        /\ DeferredTasks' = DeferredTasks \ {t} /\ Distinct(deferred_queue')
    BY <2>1, DeferredLeaves
  <2> HIDE DEF t
  <2>3. t \notin StartedTasks
    BY <2>2 DEF PlacesInv, Divided, Divide
  <2>4. StartedTasks' = StartedTasks \cup {t} /\ Distinct(started')
    BY <2>1, <2>2, <2>3, Starts
  <2>5. Divided'
    BY <1>1, <1>2, <1>3, <1>4, <1>6, <2>1, <2>2, <2>4
       DEF PlacesInv, Divided, Divide
  <2>6. NoneTwice'
    BY <2>1, <2>2, <2>4 DEF PlacesInv, NoneTwice
  <2>7. QED
    BY <2>5, <2>6 DEF PlacesInv
<1>16. QED
  BY <1>8, <1>9, <1>10, <1>11, <1>12, <1>13, <1>14, <1>15
     DEF Pump, DoWorkNotAllowed, DoWorkEmpty, DoDelayedWorkNothing,
         DoDelayedWorkNotDue, DoIdleWorkQuit, DoIdleWorkBlock, WaitReturns

\* DeletePendingTasks moves all of three queues to deleted; incoming_queue_ keeps
\* what it has, with the task a destructor may post.
LEMMA DeletePlaces ==
  ASSUME TypeOK, PlacesInv, DeletePendingTasks
  PROVE  PlacesInv'
<1>1. QueuedTasks = WorkTasks \cup DeferredTasks \cup DelayedTasks
  BY DEF QueuedTasks, WorkTasks, DeferredTasks, DelayedTasks, ToSet
<1>2. /\ deleted' = deleted \cup WorkTasks \cup DeferredTasks \cup DelayedTasks
      /\ StartedTasks' = StartedTasks
  BY <1>1 DEF DeletePendingTasks, StartedTasks
<1>3. /\ WorkTasks' = {} /\ DeferredTasks' = {} /\ DelayedTasks' = {}
      /\ Distinct(work_queue') /\ Distinct(deferred_queue')
  BY DEF DeletePendingTasks, WorkTasks, DeferredTasks, DelayedTasks, ToSet,
         Distinct
<1>4. CASE UNCHANGED <<incoming_queue, event, log>>
  <2>1. IncomingTasks' = IncomingTasks /\ Task' = Task
    BY <1>4 DEF IncomingTasks, Task
  <2>2. Divided'
    BY <1>2, <1>3, <2>1 DEF PlacesInv, Divided, Divide
  <2>3. NoneTwice'
    BY <1>3, <1>4 DEF PlacesInv, NoneTwice, DeletePendingTasks
  <2>4. QED
    BY <2>2, <2>3 DEF PlacesInv
<1>5. ASSUME NEW delay \in Delays, NEW nestable \in BOOLEAN,
             NEW closure \in Closures,
             AddToIncomingQueue(PendingTask(delay, nestable, closure))
      PROVE  PlacesInv'
  <2>1. PICK task \in TaskType : Push(task)
    BY <1>5, PendingTaskType DEF AddToIncomingQueue
  <2>2. Divided'
    BY <1>2, <1>3, <2>1, PushPlaces DEF PlacesInv, Divided, Divide
  <2>3. NoneTwice'
    BY <1>3, <2>1, PushPlaces DEF PlacesInv, NoneTwice, DeletePendingTasks
  <2>4. QED
    BY <2>2, <2>3 DEF PlacesInv
<1>6. QED
  BY <1>4, <1>5 DEF DeletePendingTasks

LEMMA DestroyPlaces ==
  ASSUME TypeOK, PlacesInv, Destroy
  PROVE  PlacesInv'
<1>1. CASE DestroyBegins \/ DestroyUnbinds
  BY <1>1, SamePlaces DEF DestroyBegins, DestroyUnbinds
<1>2. CASE DestroyDeletes \/ DestroyDeletesAgain
  BY <1>2, DeletePlaces DEF DestroyDeletes, DestroyDeletesAgain
<1>3. CASE DestroyReloads
  <2>1. /\ IncomingTasks' = WorkTasks /\ WorkTasks' = IncomingTasks
        /\ DeferredTasks' = DeferredTasks /\ DelayedTasks' = DelayedTasks
        /\ StartedTasks' = StartedTasks /\ Task' = Task /\ deleted' = deleted
    BY <1>3 DEF DestroyReloads, IncomingTasks, WorkTasks, DeferredTasks,
                DelayedTasks, StartedTasks, Task, ToSet
  <2>2. Divided'
    BY <2>1 DEF PlacesInv, Divided, Divide
  <2>3. NoneTwice'
    BY <1>3 DEF DestroyReloads, PlacesInv, NoneTwice
  <2>4. QED
    BY <2>2, <2>3 DEF PlacesInv
<1>4. CASE DestroyEnds
  <2>1. deleted' = deleted \cup IncomingTasks \cup WorkTasks \cup DeferredTasks
                           \cup DelayedTasks
    BY <1>4 DEF DestroyEnds, IncomingTasks, QueuedTasks, WorkTasks,
                DeferredTasks, DelayedTasks, ToSet
  <2>2. /\ IncomingTasks' = {} /\ WorkTasks' = {} /\ DeferredTasks' = {}
        /\ DelayedTasks' = {} /\ StartedTasks' = StartedTasks /\ Task' = Task
    BY <1>4 DEF DestroyEnds, IncomingTasks, WorkTasks, DeferredTasks,
                DelayedTasks, StartedTasks, Task, ToSet
  <2>3. Divided'
    BY <2>1, <2>2 DEF PlacesInv, Divided, Divide
  <2>4. NoneTwice'
    BY <1>4 DEF DestroyEnds, PlacesInv, NoneTwice, Distinct
  <2>5. QED
    BY <2>3, <2>4 DEF PlacesInv
<1>5. QED
  BY <1>1, <1>2, <1>3, <1>4 DEF Destroy

LEMMA PlacesInvariant == Spec => []PlacesInv
<1>1. Init => PlacesInv
  BY DEF Init, PlacesInv, Divided, Divide, NoneTwice, Distinct, Task,
         IncomingTasks, WorkTasks, DeferredTasks, DelayedTasks, StartedTasks,
         ToSet
<1>2. TypeOK /\ PlacesInv /\ [Next]_vars => PlacesInv'
  <2> SUFFICES ASSUME TypeOK, PlacesInv, [Next]_vars
               PROVE  PlacesInv'
    OBVIOUS
  <2>1. CASE RunTop
    BY <2>1, SamePlaces DEF RunTop, elsewhere
  <2>2. CASE Pump
    BY <2>2, PumpPlaces
  <2>3. CASE ThreadPosts
    <3>1. PICK task \in TaskType : Push(task)
      BY <2>3, PendingTaskType DEF ThreadPosts, AddToIncomingQueue
    <3>2. QED
      BY <2>3, <3>1, PostKeepsPlaces DEF ThreadPosts, inTask
  <2>4. CASE TaskQuits \/ TaskQuitsNow \/ TaskNests \/ TaskReturns
    BY <2>4, SamePlaces DEF TaskQuits, TaskQuitsNow, TaskNests, TaskReturns,
                            inTask
  <2>5. ASSUME NEW p \in Posters, Post(p)
        PROVE  PlacesInv'
    <3>1. UNCHANGED <<queues, started, deleted>>
      BY <2>5 DEF Post, ProxyPost, LoopPost, PostPushOnly, PostPushFirst,
                  PostScheduleWork, loopUnchanged
    <3>2. CASE PostPushOnly(p) \/ PostPushFirst(p)
      <4>1. poster[p].pc = "stamped" /\ Push(poster[p].task)
        BY <3>2 DEF PostPushOnly, PostPushFirst
      <4>2. poster[p].task \in TaskType
        BY <4>1 DEF TypeOK, PosterType
      <4>3. QED
        BY <3>1, <4>1, <4>2, PostKeepsPlaces
    <3>3. CASE UNCHANGED <<incoming_queue, log>>
      BY <3>1, <3>3, SamePlaces
    <3>4. QED
      BY <2>5, <3>2, <3>3 DEF Post, ProxyPost, LoopPost, PostScheduleWork
  <2>6. CASE Tick
    BY <2>6, SamePlaces DEF Tick
  <2>7. CASE Destroy
    BY <2>7, DestroyPlaces
  <2>8. CASE UNCHANGED vars
    BY <2>8, SamePlaces DEF vars
  <2>9. QED
    BY <2>1, <2>2, <2>3, <2>4, <2>5, <2>6, <2>7, <2>8
       DEF Next, RunNext, TaskBody
<1>3. QED
  BY <1>1, <1>2, TypeCorrect, PTL DEF Spec

LEMMA TaskCount ==
  ASSUME TypeOK
  PROVE  IsFiniteSet(Task) /\ Cardinality(Task) = Len(log) /\ Len(log) \in Nat
<1> DEFINE n == Len(log)
<1>1. n \in Nat
  BY DEF TypeOK
<1> HIDE DEF n
<1>2. IsFiniteSet(1 .. n) /\ Cardinality(1 .. n) = n
  BY <1>1, FS_Interval
<1>3. QED
  BY <1>1, <1>2 DEF n, Task

LEMMA DelayedCount ==
  ASSUME TypeOK, PlacesInv
  PROVE  /\ IsFiniteSet(DelayedTasks)
         /\ Cardinality(DelayedTasks) = Cardinality(delayed_work_queue)
<1> DEFINE f == [t \in DelayedTasks |->
                   CHOOSE e \in delayed_work_queue : e.task = t]
<1>1. \A t \in DelayedTasks : f[t] \in delayed_work_queue /\ f[t].task = t
  BY DEF DelayedTasks
<1>2. f \in [DelayedTasks -> delayed_work_queue]
  BY <1>1
<1>3. \A e \in delayed_work_queue : e.task \in DelayedTasks /\ f[e.task] = e
  BY <1>1 DEF DelayedTasks, PlacesInv, NoneTwice
<1> HIDE DEF f
<1>4. f \in Bijection(DelayedTasks, delayed_work_queue)
  BY <1>1, <1>2, <1>3 DEF Bijection, Injection, Surjection, IsInjective
<1>5. IsFiniteSet(DelayedTasks)
  <2>1. DelayedTasks \subseteq Task
    BY DEF PlacesInv, Divided, Divide
  <2>2. QED
    BY <2>1, TaskCount, FS_Subset
<1>6. QED
  BY <1>4, <1>5, FS_Bijection DEF ExistsBijection

\* No task is lost, run twice, or run and deleted, however many threads post,
\* however Run nests and whichever queues the task has been through.
THEOREM EachTaskOnceHolds == Spec => []EachTaskOnce
<1>1. TypeOK /\ PlacesInv => EachTaskOnce
  <2> SUFFICES ASSUME TypeOK, PlacesInv
               PROVE  EachTaskOnce
    OBVIOUS
  <2>1. QueuedTasks = WorkTasks \cup DeferredTasks \cup DelayedTasks
    BY DEF QueuedTasks, WorkTasks, DeferredTasks, DelayedTasks, ToSet
  <2>2. Task = IncomingTasks \cup QueuedTasks \cup StartedTasks \cup deleted
    BY <2>1 DEF PlacesInv, Divided, Divide
  <2>3. Len(log) \in Nat /\ Cardinality(Task) = Len(log) /\ IsFiniteSet(Task)
    BY TaskCount
  <2>4. /\ IsFiniteSet(IncomingTasks) /\ IsFiniteSet(WorkTasks)
        /\ IsFiniteSet(DeferredTasks) /\ IsFiniteSet(StartedTasks)
        /\ Cardinality(IncomingTasks) = Len(incoming_queue)
        /\ Cardinality(WorkTasks) = Len(work_queue)
        /\ Cardinality(DeferredTasks) = Len(deferred_queue)
        /\ Cardinality(StartedTasks) = Len(started)
    <3>1. /\ incoming_queue \in Seq(Task) /\ Distinct(incoming_queue)
          /\ work_queue \in Seq(Task) /\ Distinct(work_queue)
          /\ deferred_queue \in Seq(Task) /\ Distinct(deferred_queue)
          /\ started \in Seq(Task) /\ Distinct(started)
      BY DEF TypeOK, PlacesInv, NoneTwice
    <3>2. /\ IncomingTasks = ToSet(incoming_queue)
          /\ WorkTasks = ToSet(work_queue)
          /\ DeferredTasks = ToSet(deferred_queue)
          /\ StartedTasks = ToSet(started)
      BY DEF IncomingTasks, StartedTasks, WorkTasks, DeferredTasks, ToSet
    <3>3. QED
      BY <3>1, <3>2, DistinctLength
  <2>5. IsFiniteSet(deleted)
    BY <2>3, FS_Subset DEF TypeOK
  <2>6. /\ IsFiniteSet(DelayedTasks)
        /\ Cardinality(DelayedTasks) = Cardinality(delayed_work_queue)
    BY DelayedCount
  <2>7. ASSUME NEW S, NEW T, IsFiniteSet(S), IsFiniteSet(T), S \cap T = {}
        PROVE  /\ IsFiniteSet(S \cup T)
               /\ Cardinality(S \cup T) = Cardinality(S) + Cardinality(T)
    <3>1. /\ IsFiniteSet(S \cup T)
          /\ Cardinality(S \cup T) = Cardinality(S) + Cardinality(T) - 0
      BY <2>7, FS_Union, FS_EmptySet
    <3>2. Cardinality(S) \in Nat /\ Cardinality(T) \in Nat
      BY <2>7, FS_CardinalityType
    <3>3. QED
      BY <3>1, <3>2
  <2> DEFINE a == StartedTasks \cup deleted
             b == DelayedTasks \cup a
             c == DeferredTasks \cup b
             d == WorkTasks \cup c
  <2>7a. /\ StartedTasks \cap deleted = {} /\ DelayedTasks \cap a = {}
         /\ DeferredTasks \cap b = {} /\ WorkTasks \cap c = {}
    BY DEF PlacesInv, Divided, Divide
  <2>8. IsFiniteSet(a) /\ Cardinality(a) = Len(started) + Cardinality(deleted)
    BY <2>4, <2>5, <2>7, <2>7a
  <2>9. IsFiniteSet(b) /\ Cardinality(b)
          = Cardinality(delayed_work_queue) + Cardinality(a)
    BY <2>6, <2>7, <2>7a, <2>8
  <2>10. IsFiniteSet(c) /\ Cardinality(c) = Len(deferred_queue) + Cardinality(b)
    BY <2>4, <2>7, <2>7a, <2>9
  <2>11. IsFiniteSet(d) /\ Cardinality(d) = Len(work_queue) + Cardinality(c)
    BY <2>4, <2>7, <2>7a, <2>10
  <2>12. Task = IncomingTasks \cup d /\ IncomingTasks \cap d = {}
    BY DEF PlacesInv, Divided, Divide
  <2>13. Cardinality(Task) = Len(incoming_queue) + Cardinality(d)
    BY <2>4, <2>7, <2>11, <2>12
  <2>14. /\ Len(incoming_queue) \in Nat /\ Len(work_queue) \in Nat
         /\ Len(deferred_queue) \in Nat /\ Len(started) \in Nat
         /\ Cardinality(delayed_work_queue) \in Nat
         /\ Cardinality(deleted) \in Nat
    BY <2>5, <2>6, FS_CardinalityType DEF TypeOK
  <2>15. QED
    BY <2>2, <2>3, <2>8, <2>9, <2>10, <2>11, <2>13, <2>14 DEF EachTaskOnce
<1>2. QED
  BY <1>1, TypeCorrect, PlacesInvariant, PTL

-----------------------------------------------------------------------------
(* Nothing outlives the loop.                                              *)

\* Who still posts when: nobody posts on a loop that its owner has begun to
\* destroy, a post through the proxy holds its lock to the end, and the proxy is
\* unbound when nobody holds it.
LifecycleInv ==
  /\ lifecycle # "alive" => \A p \in LoopPosters : poster[p].pc # "stamped"
  /\ \A p \in ProxyPosters : poster[p].pc # "idle" <=> proxy_lock = p
  /\ lifecycle \in {"unbound", "dead"} => ~proxy_bound /\ proxy_lock = Nobody

EmptyWhenDead ==
  lifecycle = "dead" =>
    /\ incoming_queue = <<>> /\ work_queue = <<>>
    /\ deferred_queue = <<>> /\ delayed_work_queue = {}

GoneInv == LifecycleInv /\ EmptyWhenDead

LEMMA PostLifecycle ==
  ASSUME TypeOK, LifecycleInv, NEW p \in Posters, Post(p)
  PROVE  LifecycleInv'
<1> USE PostersAssumption
<1>1. lifecycle' = lifecycle /\ proxy_bound' = proxy_bound
  BY DEF Post, ProxyPost, LoopPost, PostPushOnly, PostPushFirst,
         PostScheduleWork, loopUnchanged, teardown, proxy
<1>2. \A q \in Posters \ {p} : poster'[q] = poster[q]
  BY DEF TypeOK, Post, ProxyPost, LoopPost, PostPushOnly, PostPushFirst,
         PostScheduleWork, PostReturns
<1>3. CASE PostPushOnly(p) \/ PostScheduleWork(p)
  <2>1. PostReturns(p) /\ poster[p].pc # "idle"
    BY <1>3 DEF PostPushOnly, PostScheduleWork
  <2>2. poster'[p].pc = "idle"
    BY <2>1 DEF TypeOK, PostReturns, NoPost
  <2>3. proxy_lock' = IF p \in ProxyPosters THEN Nobody ELSE proxy_lock
    BY <2>1 DEF PostReturns
  <2>4. p \in ProxyPosters => proxy_lock = p /\ p # Nobody
    BY <2>1 DEF LifecycleInv
  <2>5. QED
    BY <1>1, <1>2, <2>2, <2>3, <2>4 DEF LifecycleInv, Posters
<1>4. CASE PostPushFirst(p)
  <2>1. poster[p].pc = "stamped" /\ proxy_lock' = proxy_lock
    BY <1>4 DEF PostPushFirst, proxy
  <2>2. poster'[p].pc = "signal"
    <3>1. poster[p] \in [pc : {"stamped", "signal"}, task : TaskType]
      BY <2>1 DEF TypeOK, PosterType
    <3>2. poster'[p] = [poster[p] EXCEPT !.pc = "signal"]
      BY <1>4 DEF TypeOK, PostPushFirst
    <3>3. QED
      BY <3>1, <3>2
  <2>3. QED
    BY <1>1, <1>2, <2>1, <2>2 DEF LifecycleInv, Posters
<1>5. ASSUME NEW delay \in Delays, NEW nestable \in BOOLEAN,
             NEW closure \in Closures, LoopPost(p, delay, nestable, closure)
      PROVE  LifecycleInv'
  <2>1. /\ p \in LoopPosters /\ p \notin ProxyPosters /\ lifecycle = "alive"
        /\ proxy_lock' = proxy_lock
    BY <1>5 DEF LoopPost, proxy
  <2>2. QED
    BY <1>1, <1>2, <2>1 DEF LifecycleInv, Posters
<1>6. ASSUME NEW delay \in Delays, NEW nestable \in BOOLEAN,
             NEW closure \in Closures, ProxyPost(p, delay, nestable, closure)
      PROVE  LifecycleInv'
  <2>1. /\ p \in ProxyPosters /\ p \notin LoopPosters
        /\ proxy_lock = Nobody /\ proxy_bound /\ proxy_lock' = p
        /\ poster'[p].pc = "stamped"
    BY <1>6 DEF ProxyPost, TypeOK
  <2>2. \A q \in ProxyPosters \ {p} : poster'[q].pc = "idle" /\ proxy_lock' # q
    BY <1>2, <2>1 DEF LifecycleInv, Posters, TypeOK, PosterType
  <2>3. QED
    BY <1>1, <1>2, <2>1, <2>2 DEF LifecycleInv, Posters
<1>7. QED
  BY <1>3, <1>4, <1>5, <1>6 DEF Post

LEMMA GoneInvariant == Spec => []GoneInv
<1>1. Init => GoneInv
  BY PostersAssumption DEF Init, GoneInv, LifecycleInv, EmptyWhenDead, Posters,
                           NoPost
<1>2. TypeOK /\ ControlInv /\ GoneInv /\ [Next]_vars => GoneInv'
  <2> SUFFICES ASSUME TypeOK, ControlInv, GoneInv, [Next]_vars
               PROVE  GoneInv'
    OBVIOUS
  <2>1. ASSUME UNCHANGED <<poster, proxy, lifecycle>>
        PROVE  LifecycleInv'
    BY <2>1 DEF GoneInv, LifecycleInv, proxy
  <2>2. ASSUME lifecycle' # "dead"
        PROVE  EmptyWhenDead'
    BY <2>2 DEF EmptyWhenDead
  <2>3. CASE RunTop
    BY <2>1, <2>2, <2>3 DEF RunTop, elsewhere, teardown, GoneInv
  <2>4. CASE Pump
    <3>1. depth > 0 /\ UNCHANGED <<poster, proxy, lifecycle>>
      BY <2>4 DEF Pump, DoWorkNotAllowed, ReloadWorkQueue, DoWorkEmpty,
         DoWorkDelayed, DoWorkDefer, DoWorkRun, DoDelayedWorkNothing,
         DoDelayedWorkNotDue, DoDelayedWorkRun, DoDelayedWorkDefer,
         DoIdleWorkRun, DoIdleWorkQuit, DoIdleWorkBlock, WaitReturns, Calling,
         TakesOldest, TakesDue, elsewhere, teardown
    <3>2. lifecycle = "alive"
      BY <3>1 DEF TypeOK, ControlInv, DestroyedOutsideRun
    <3>3. QED
      BY <2>1, <2>2, <3>1, <3>2 DEF GoneInv
  <2>5. CASE TaskBody
    <3>1. UNCHANGED <<poster, proxy, lifecycle>>
          /\ (depth > 0 \/ lifecycle = "alive")
      BY <2>5 DEF TaskBody, ThreadPosts, TaskQuits, TaskQuitsNow, TaskNests,
                  TaskReturns, inTask, teardown, InTask
    <3>2. lifecycle = "alive"
      BY <3>1 DEF TypeOK, ControlInv, DestroyedOutsideRun
    <3>3. QED
      BY <2>1, <2>2, <3>1, <3>2 DEF GoneInv
  <2>6. ASSUME NEW p \in Posters, Post(p)
        PROVE  GoneInv'
    <3>1. LifecycleInv'
      BY <2>6, PostLifecycle DEF GoneInv
    <3>2. UNCHANGED <<work_queue, deferred_queue, delayed_work_queue, lifecycle>>
      BY <2>6 DEF Post, ProxyPost, LoopPost, PostPushOnly, PostPushFirst,
                  PostScheduleWork, loopUnchanged, queues, teardown
    <3>3. lifecycle = "dead" => poster[p].pc # "stamped"
      BY PostersAssumption DEF GoneInv, LifecycleInv, Posters
    <3>4. lifecycle = "dead" => incoming_queue' = incoming_queue
      BY <2>6, <3>3 DEF Post, ProxyPost, LoopPost, PostPushOnly, PostPushFirst,
                        PostScheduleWork
    <3>5. QED
      BY <3>1, <3>2, <3>4 DEF GoneInv, EmptyWhenDead
  <2>7. CASE Tick
    BY <2>1, <2>7 DEF Tick, teardown, queues, GoneInv, EmptyWhenDead
  <2>8. CASE Destroy
    <3>1. CASE DestroyBegins
      BY <2>2, <3>1 DEF DestroyBegins, proxy, GoneInv, LifecycleInv
    <3>2. CASE DestroyDeletes \/ DestroyDeletesAgain
      <4>1. /\ lifecycle # "alive" /\ lifecycle' \in {"delete", "reload", "unbind"}
            /\ UNCHANGED <<poster, proxy>>
        BY <3>2 DEF DestroyDeletes, DestroyDeletesAgain, DeletePendingTasks
      <4>2. QED
        BY <2>2, <4>1 DEF proxy, GoneInv, LifecycleInv
    <3>3. CASE DestroyReloads
      BY <2>2, <3>3 DEF DestroyReloads, proxy, GoneInv, LifecycleInv
    <3>4. CASE DestroyUnbinds
      BY <2>2, <3>4 DEF DestroyUnbinds, GoneInv, LifecycleInv
    <3>5. CASE DestroyEnds
      BY <3>5 DEF DestroyEnds, proxy, GoneInv, LifecycleInv, EmptyWhenDead
    <3>6. QED
      BY <2>8, <3>1, <3>2, <3>3, <3>4, <3>5 DEF Destroy
  <2>9. CASE UNCHANGED vars
    BY <2>1, <2>9 DEF vars, teardown, queues, GoneInv, EmptyWhenDead
  <2>10. QED
    BY <2>3, <2>4, <2>5, <2>6, <2>7, <2>8, <2>9 DEF Next, RunNext
<1>3. QED
  BY <1>1, <1>2, TypeCorrect, ControlInvariant, PTL DEF Spec

\* Once the loop is gone every task posted to it was run or deleted and none is
\* pushed any more, for any number of threads that post through the proxy and
\* however many tasks the deleted ones post.
THEOREM NothingOutlivesTheLoopHolds == Spec => []NothingOutlivesTheLoop
<1>1. PlacesInv /\ GoneInv => NothingOutlivesTheLoop
  BY DEF PlacesInv, Divided, Divide, GoneInv, EmptyWhenDead,
         NothingOutlivesTheLoop, IncomingTasks, WorkTasks, DeferredTasks,
         DelayedTasks, ToSet
<1>2. QED
  BY <1>1, PlacesInvariant, GoneInvariant, PTL

-----------------------------------------------------------------------------
(* What a step may do to the log and the clocks, and to the way to the wait. *)

LEMMA NextGrows ==
  ASSUME TypeOK, [Next]_vars
  PROVE  /\ log' = log \/ \E task \in TaskType : Push(task)
         /\ now' \in Nat /\ now <= now' /\ Len(log) <= Len(log')
         /\ \A t \in Task : t \in Task' /\ log'[t] = log[t]
<1>1. now \in Nat /\ Len(log) \in Nat
  BY DEF TypeOK
<1>2. log' = log \/ \E task \in TaskType : Push(task)
  <2>1. CASE RunTop \/ Pump \/ Tick \/ UNCHANGED vars
    BY <2>1 DEF RunTop, Tick, vars, Pump, DoWorkNotAllowed, ReloadWorkQueue,
       DoWorkEmpty, DoWorkDelayed, DoWorkDefer, DoWorkRun,
       DoDelayedWorkNothing, DoDelayedWorkNotDue, DoDelayedWorkRun,
       DoDelayedWorkDefer, DoIdleWorkRun, DoIdleWorkQuit, DoIdleWorkBlock,
       WaitReturns, TakesOldest, TakesDue, elsewhere
  <2>2. CASE TaskBody
    BY <2>2, PendingTaskType
       DEF TaskBody, ThreadPosts, TaskQuits, TaskQuitsNow, TaskNests,
           TaskReturns, AddToIncomingQueue
  <2>3. ASSUME NEW p \in Posters, Post(p)
        PROVE  log' = log \/ \E task \in TaskType : Push(task)
    <3>1. poster[p].pc = "stamped" => poster[p].task \in TaskType
      BY DEF TypeOK, PosterType
    <3>2. QED
      BY <2>3, <3>1 DEF Post, ProxyPost, LoopPost, PostPushOnly, PostPushFirst,
                        PostScheduleWork
  <2>4. CASE Destroy
    <3>1. ASSUME DeletePendingTasks
          PROVE  log' = log \/ \E task \in TaskType : Push(task)
      BY <3>1, PendingTaskType DEF DeletePendingTasks, AddToIncomingQueue
    <3>2. QED
      BY <2>4, <3>1 DEF Destroy, DestroyBegins, DestroyDeletes, DestroyReloads,
                        DestroyDeletesAgain, DestroyUnbinds, DestroyEnds
  <2>5. QED
    BY <2>1, <2>2, <2>3, <2>4 DEF Next, RunNext
<1>3. now' = now \/ now' = now + 1
  BY DEF vars, Next, RunNext, RunTop, Tick, Pump, DoWorkNotAllowed,
     ReloadWorkQueue, DoWorkEmpty, DoWorkDelayed, DoWorkDefer, DoWorkRun,
     DoDelayedWorkNothing, DoDelayedWorkNotDue, DoDelayedWorkRun,
     DoDelayedWorkDefer, DoIdleWorkRun, DoIdleWorkQuit, DoIdleWorkBlock,
     WaitReturns, TakesOldest, TakesDue, elsewhere, TaskBody, ThreadPosts,
     TaskQuits, TaskQuitsNow, TaskNests, TaskReturns, inTask, Post, ProxyPost,
     LoopPost, PostPushOnly, PostPushFirst, PostScheduleWork, loopUnchanged,
     Destroy, DestroyBegins, DestroyDeletes, DestroyReloads,
     DestroyDeletesAgain, DestroyUnbinds, DestroyEnds, DeletePendingTasks
<1>4. \A t \in Task : t \in Task' /\ log'[t] = log[t]
  BY <1>2, PushTypes DEF Task
<1>5. Len(log) <= Len(log')
  BY <1>1, <1>2, PushTypes
<1>6. QED
  BY <1>1, <1>2, <1>3, <1>4, <1>5

\* The top frame after a change of its pc, and after Run is entered.
LEMMA TopPc ==
  ASSUME TypeOK, depth > 0, NEW pc,
         frame' = [frame EXCEPT ![depth].pc = pc], UNCHANGED depth
  PROVE  /\ Top'.pc = pc /\ Top'.quit_received = Top.quit_received
         /\ Top'.quit_posted = Top.quit_posted
         /\ Top'.quit_time = Top.quit_time
<1>1. depth \in 1 .. MaxDepth
  BY DEF TypeOK
<1>2. frame[depth] \in FrameType
  BY <1>1 DEF TypeOK
<1>3. Top' = [frame[depth] EXCEPT !.pc = pc]
  BY <1>1 DEF TypeOK, Top
<1>4. QED
  BY <1>2, <1>3 DEF FrameType, Top

LEMMA EnteredTop ==
  ASSUME TypeOK, NEW quit, NEW allowed, EnterRun(quit, allowed)
  PROVE  Top'.pc = "DoWork"
<1>1. depth + 1 \in 1 .. MaxDepth /\ depth' = depth + 1
  BY DEF TypeOK, EnterRun
<1>2. Top' = NewFrame(quit, allowed)
  BY <1>1 DEF TypeOK, EnterRun, Top
<1>3. QED
  BY <1>2 DEF NewFrame

\* Where the pump goes on after a call that found nothing to run.
LEMMA ReturnsFalseNextCall ==
  ASSUME TypeOK, StackInv, depth > 0, log' = log, Top.task = 0, ReturnsFalse,
         Quiescent', Top.pc \in {"DoWork", "DoDelayedWork"}
  PROVE  /\ Top'.pc = IF Top.pc = "DoWork" THEN "DoDelayedWork" ELSE "DoIdleWork"
         /\ depth' = depth /\ Top'.quit_received = Top.quit_received
         /\ Top'.quit_posted = Top.quit_posted
         /\ Top'.quit_time = Top.quit_time
<1>1. CASE LeaveRun(nestable_tasks_allowed)
  <2>1. /\ depth = 1 => nestable_tasks_allowed
        /\ depth > 1 => ~nestable_tasks_allowed \/ Top.allowed
    BY DEF TypeOK, StackInv, AllowedByStack
  <2>2. QED
    BY <1>1, <2>1, LeaveRunControl DEF TypeOK
<1>2. CASE /\ frame' = [frame EXCEPT ![depth] =
                [@ EXCEPT !.pc = NextCall(FALSE), !.task = 0,
                          !.did_work = (FALSE /\ Top.pc = "DoWork")]]
           /\ UNCHANGED <<depth, keep_running>>
  <2>1. depth \in 1 .. MaxDepth /\ frame[depth] \in FrameType
    <3>1. depth \in 1 .. MaxDepth
      BY DEF TypeOK
    <3>2. QED
      BY <3>1 DEF TypeOK
  <2>2. Top' = [frame[depth] EXCEPT !.pc = NextCall(FALSE), !.task = 0,
                  !.did_work = (FALSE /\ Top.pc = "DoWork")]
    BY <1>2, <2>1 DEF TypeOK, Top
  <2>3. /\ Top'.pc = NextCall(FALSE)
        /\ Top'.quit_received = Top.quit_received
        /\ Top'.quit_posted = Top.quit_posted
        /\ Top'.quit_time = Top.quit_time
    BY <2>1, <2>2 DEF FrameType, Top
  <2>4. Top.pc = "DoDelayedWork" => ~Top.did_work
    BY ReturnsFalseControl
  <2>5. QED
    BY <1>2, <2>3, <2>4 DEF NextCall
<1>3. QED
  BY <1>1, <1>2 DEF ReturnsFalse, Returns

\* The pump is on its way to the wait after a step that finds nothing to run, and
\* after one of another thread; any other step leaves it with something to do.
LEMMA QuiescentSteps ==
  ASSUME TypeOK, ControlInv, [Next]_vars, Quiescent'
  PROVE  \/ DoWorkEmpty \/ DoDelayedWorkNothing \/ DoDelayedWorkNotDue
         \/ DoDelayedWorkDefer \/ DoIdleWorkBlock
         \/ /\ UNCHANGED <<queues, frame, depth, nestable_tasks_allowed,
                           delayed_work_time>>
            /\ \/ incoming_queue' = incoming_queue
               \/ \E task \in TaskType : Push(task)
<1>1. CASE Pump
  <2>1. /\ depth > 0 /\ Top.task = 0 /\ log' = log /\ StackInv
        /\ depth \in 1 .. MaxDepth
    BY <1>1
       DEF TypeOK, ControlInv, Pump, DoWorkNotAllowed, ReloadWorkQueue,
           DoWorkEmpty, DoWorkDelayed, DoWorkDefer, DoWorkRun,
           DoDelayedWorkNothing, DoDelayedWorkNotDue, DoDelayedWorkRun,
           DoDelayedWorkDefer, DoIdleWorkRun, DoIdleWorkQuit, DoIdleWorkBlock,
           WaitReturns, Calling, TakesOldest, TakesDue, elsewhere
  <2>2. ~DoWorkNotAllowed
    BY <2>1, ReturnsFalseControl DEF DoWorkNotAllowed
  <2>3. ~ReloadWorkQueue /\ ~DoWorkDelayed /\ ~DoWorkDefer
    BY DEF ReloadWorkQueue, DoWorkDelayed, DoWorkDefer, TakesOldest, Calling,
           Quiescent, Top
  <2>4. ASSUME NEW t \in Task, nestable_tasks_allowed, MayRunNow(t), RunTask(t),
               Top.pc \in {"DoWork", "DoDelayedWork", "DoIdleWork"}
        PROVE  FALSE
    BY <2>1, <2>4, RunTaskControl
  <2>5. ~DoWorkRun
    <3>1. DoWorkRun => Head(work_queue) \in Task
      BY DEF TypeOK, DoWorkRun, TakesOldest
    <3>2. QED
      BY <2>4, <3>1 DEF DoWorkRun, TakesOldest, Calling
  <2>6. ~DoDelayedWorkRun
    <3>1. \A e \in delayed_work_queue : e.task \in Task
      BY DEF TypeOK
    <3>2. QED
      BY <2>4, <3>1 DEF DoDelayedWorkRun, TakesDue, Calling
  <2>7. ~DoIdleWorkRun
    <3>1. DoIdleWorkRun => /\ Head(deferred_queue) \in Task
                           /\ depth = 1 /\ nestable_tasks_allowed
      BY <2>1 DEF TypeOK, DoIdleWorkRun, DeferredCanRun, StackInv,
                  AllowedByStack
    <3>2. QED
      BY <2>4, <3>1 DEF DoIdleWorkRun, Calling, MayRunNow
  <2>8. ~DoIdleWorkQuit
    <3>1. /\ depth = 1 => nestable_tasks_allowed
          /\ depth > 1 => ~nestable_tasks_allowed \/ Top.allowed
      BY <2>1 DEF StackInv, AllowedByStack
    <3>2. QED
      BY <2>1, <3>1, LeaveRunControl DEF DoIdleWorkQuit, TypeOK
  <2>9. ~WaitReturns
    <3>1. WaitReturns => Top'.pc = "DoWork"
      BY <2>1, TopPc DEF WaitReturns, PumpCalls
    <3>2. QED
      BY <3>1 DEF Quiescent
  <2>10. QED
    BY <1>1, <2>2, <2>3, <2>5, <2>6, <2>7, <2>8, <2>9 DEF Pump
<1>2. CASE TaskBody
  <2>1. ~TaskQuits
    <3>1. ASSUME TaskQuits
          PROVE  Top'.task = Top.task /\ Top.task # 0
      <4>1. depth \in 1 .. MaxDepth
        BY <3>1 DEF TypeOK, TaskQuits, InTask
      <4>2. frame[depth] \in FrameType
        BY <4>1 DEF TypeOK
      <4>3. Top' = [frame[depth] EXCEPT !.quit_received = TRUE,
                      !.quit_posted = Len(log), !.quit_time = now]
        BY <3>1, <4>1 DEF TypeOK, TaskQuits, Top
      <4>4. QED
        BY <3>1, <4>2, <4>3 DEF FrameType, Top, TaskQuits, InTask
    <3>2. QED
      BY <3>1 DEF Quiescent
  <2>2. ~TaskNests
    <3>1. ASSUME NEW quit \in BOOLEAN, NEW allowed \in BOOLEAN,
                 EnterRun(quit, allowed)
          PROVE  FALSE
      BY <3>1, EnteredTop DEF Quiescent
    <3>2. QED
      BY <3>1 DEF TaskNests
  <2>3. ~TaskReturns
    <3>1. ASSUME TaskReturns
          PROVE  depth > 0 /\ Top.task # 0 /\ log' = log /\ Returns(TRUE, TRUE)
      BY <3>1 DEF TaskReturns, InTask
    <3>2. ASSUME TaskReturns
          PROVE  depth > 1 => Top.allowed
      BY <3>1, <3>2
         DEF TypeOK, ControlInv, StackInv, ReentrancyProtected, Top
    <3>3. QED
      BY <3>1, <3>2, ReturnsControl DEF ControlInv
  <2>4. CASE ThreadPosts
    <3>1. \E task \in TaskType : Push(task)
      BY <2>4, PendingTaskType DEF ThreadPosts, AddToIncomingQueue
    <3>2. QED
      BY <2>4, <3>1 DEF ThreadPosts, inTask
  <2>5. CASE TaskQuitsNow
    BY <2>5 DEF TaskQuitsNow, inTask
  <2>6. QED
    BY <1>2, <2>1, <2>2, <2>3, <2>4, <2>5 DEF TaskBody
<1>3. ~RunTop
  <2>1. ASSUME NEW quit \in BOOLEAN, EnterRun(quit, FALSE)
        PROVE  FALSE
    BY <2>1, EnteredTop DEF Quiescent
  <2>2. QED
    BY <2>1 DEF RunTop
<1>4. ~Destroy
  <2>1. ASSUME Destroy
        PROVE  depth' = 0
    BY <2>1, DestroyControl
       DEF ControlInv, DestroyedOutsideRun, Destroy, DestroyBegins,
           DestroyDeletes, DestroyReloads, DestroyDeletesAgain, DestroyUnbinds,
           DestroyEnds
  <2>2. QED
    BY <2>1 DEF Quiescent
<1>5. CASE Tick \/ UNCHANGED vars
  BY <1>5 DEF Tick, vars, pump
<1>6. ASSUME NEW p \in Posters, Post(p)
      PROVE  /\ UNCHANGED <<queues, frame, depth, nestable_tasks_allowed,
                            delayed_work_time>>
             /\ \/ incoming_queue' = incoming_queue
                \/ \E task \in TaskType : Push(task)
  <2>1. poster[p].pc = "stamped" => poster[p].task \in TaskType
    BY DEF TypeOK, PosterType
  <2>2. QED
    BY <1>6, <2>1 DEF Post, ProxyPost, LoopPost, PostPushOnly, PostPushFirst,
                      PostScheduleWork, loopUnchanged
<1>7. QED
  BY <1>1, <1>2, <1>3, <1>4, <1>5, <1>6 DEF Next, RunNext

-----------------------------------------------------------------------------
(* The loop never oversleeps.                                              *)

\* On its way to the wait the pump has seen work_queue_ empty, and once it has
\* called DoDelayedWork, delayed_work_time_ is not later than any delayed task;
\* null it is only when there is none, and the wait without a limit relies on it.
SleepInv ==
  /\ \A e \in delayed_work_queue : RunTime(e.task) # 0
  /\ Quiescent =>
       /\ work_queue = <<>>
       /\ Top.pc # "DoDelayedWork" =>
            \A e \in delayed_work_queue :
              delayed_work_time \in 1 .. RunTime(e.task)
       /\ Top.pc = "Wait" => delayed_work_time = 0

\* The top of the delayed work queue is due first.
LEMMA TopIsFirst ==
  ASSUME TypeOK, SleepInv,
         NEW entries \in SUBSET delayed_work_queue, NEW e \in entries,
         IsTop(e, entries)
  PROVE  \A f \in entries : RunTime(e.task) \in 1 .. RunTime(f.task)
<1>1. \A f \in entries : f.task \in Task /\ RunTime(f.task) # 0
  BY DEF TypeOK, SleepInv
<1>2. \A f \in entries : RunTime(f.task) \in Nat \ {0}
  BY <1>1, RunTimeType
<1>3. \A f \in entries : ~(RunTime(f.task) < RunTime(e.task))
  BY DEF IsTop, Above
<1>4. QED
  BY <1>2, <1>3

\* The calls of DoDelayedWork that run nothing leave delayed_work_time_ at the time
\* of the next task, if there is one.
LEMMA DoDelayedWorkTime ==
  ASSUME TypeOK, SleepInv, Quiescent,
         \/ DoDelayedWorkNothing \/ DoDelayedWorkNotDue \/ DoDelayedWorkDefer
  PROVE  \A f \in delayed_work_queue' : delayed_work_time' \in 1 .. RunTime(f.task)
<1>1. CASE DoDelayedWorkNothing
  BY <1>1 DEF DoDelayedWorkNothing, Quiescent, queues
<1>2. CASE DoDelayedWorkNotDue
  <2>1. PICK e \in delayed_work_queue : /\ IsTop(e, delayed_work_queue)
                                        /\ delayed_work_time' = RunTime(e.task)
    BY <1>2 DEF DoDelayedWorkNotDue
  <2>2. QED
    BY <1>2, <2>1, TopIsFirst DEF DoDelayedWorkNotDue, queues
<1>3. CASE DoDelayedWorkDefer
  <2>1. PICK e \in delayed_work_queue : TakesDue(e)
    BY <1>3 DEF DoDelayedWorkDefer
  <2>2. delayed_work_queue' \subseteq delayed_work_queue
    BY <2>1 DEF TakesDue
  <2>3. \/ delayed_work_queue' = {}
        \/ \E f \in delayed_work_queue' :
             /\ IsTop(f, delayed_work_queue')
             /\ delayed_work_time' = RunTime(f.task)
    BY <2>1 DEF TakesDue
  <2>4. QED
    BY <2>2, <2>3, TopIsFirst
<1>4. QED
  BY <1>1, <1>2, <1>3

LEMMA NextDelayed ==
  ASSUME TypeOK, SleepInv, [Next]_vars
  PROVE  \A e \in delayed_work_queue' : RunTime(e.task)' # 0
<1>1. \A e \in delayed_work_queue : e.task \in Task
  BY DEF TypeOK
<1>2. \A e \in delayed_work_queue : RunTime(e.task)' # 0
  BY <1>1, NextGrows DEF SleepInv, RunTime
<1>3. CASE DoWorkDelayed
  <2>1. /\ delayed_work_queue'
              = delayed_work_queue \cup {Delayed(Head(work_queue))}
        /\ RunTime(Head(work_queue)) # 0 /\ log' = log
    BY <1>3 DEF DoWorkDelayed, AddToDelayedWorkQueue, TakesOldest, elsewhere
  <2>2. Delayed(Head(work_queue)).task = Head(work_queue)
    BY DEF Delayed
  <2>3. QED
    BY <1>2, <2>1, <2>2 DEF RunTime
<1>4. CASE delayed_work_queue' \subseteq delayed_work_queue
  BY <1>2, <1>4
<1>5. DoWorkDelayed \/ delayed_work_queue' \subseteq delayed_work_queue
  <2>1. CASE Pump
    BY <2>1
       DEF Pump, DoWorkNotAllowed, ReloadWorkQueue, DoWorkEmpty, DoWorkDefer,
           DoWorkRun, DoDelayedWorkNothing, DoDelayedWorkNotDue,
           DoDelayedWorkRun, DoDelayedWorkDefer, DoIdleWorkRun, DoIdleWorkQuit,
           DoIdleWorkBlock, WaitReturns, TakesDue, queues
  <2>2. CASE TaskBody
    BY <2>2 DEF TaskBody, ThreadPosts, TaskQuits, TaskQuitsNow, TaskNests,
                TaskReturns, inTask, queues
  <2>3. CASE Destroy
    BY <2>3 DEF Destroy, DestroyBegins, DestroyDeletes, DestroyReloads,
       DestroyDeletesAgain, DestroyUnbinds, DestroyEnds, DeletePendingTasks,
       queues
  <2>4. CASE RunTop \/ Tick \/ UNCHANGED vars
    BY <2>4 DEF RunTop, Tick, vars, queues
  <2>5. ASSUME NEW p \in Posters, Post(p)
        PROVE  delayed_work_queue' = delayed_work_queue
    BY <2>5 DEF Post, ProxyPost, LoopPost, PostPushOnly, PostPushFirst,
                PostScheduleWork, loopUnchanged, queues
  <2>6. QED
    BY <2>1, <2>2, <2>3, <2>4, <2>5 DEF Next, RunNext
<1>6. QED
  BY <1>3, <1>4, <1>5

LEMMA SleepInvariant == Spec => []SleepInv
<1>1. Init => SleepInv
  BY DEF Init, SleepInv, Quiescent
<1>2. TypeOK /\ ControlInv /\ SleepInv /\ [Next]_vars => SleepInv'
  <2> SUFFICES ASSUME TypeOK, ControlInv, SleepInv, [Next]_vars, Quiescent'
               PROVE  /\ work_queue' = <<>>
                      /\ Top'.pc # "DoDelayedWork" =>
                           \A e \in delayed_work_queue' :
                             delayed_work_time' \in 1 .. RunTime(e.task)'
                      /\ Top'.pc = "Wait" => delayed_work_time' = 0
    BY NextDelayed DEF SleepInv
  <2>1. \A e \in delayed_work_queue :
          e.task \in Task /\ RunTime(e.task)' = RunTime(e.task)
    BY NextGrows DEF TypeOK, RunTime
  <2>2. CASE DoWorkEmpty
    <3>1. /\ Top.pc = "DoWork" /\ depth > 0 /\ Top.task = 0
          /\ ReturnsFalse /\ log' = log
      BY <2>2 DEF DoWorkEmpty, Calling, elsewhere
    <3>2. Top'.pc = "DoDelayedWork"
      BY <3>1, ReturnsFalseNextCall DEF ControlInv
    <3>3. QED
      BY <2>2, <3>2 DEF DoWorkEmpty, queues
  <2>3. CASE DoDelayedWorkNothing \/ DoDelayedWorkNotDue \/ DoDelayedWorkDefer
    <3>1. /\ Top.pc = "DoDelayedWork" /\ depth > 0 /\ Top.task = 0
          /\ ReturnsFalse /\ log' = log /\ work_queue' = work_queue
          /\ delayed_work_queue' \subseteq delayed_work_queue
      BY <2>3 DEF DoDelayedWorkNothing, DoDelayedWorkNotDue,
                  DoDelayedWorkDefer, TakesDue, Calling, elsewhere, queues
    <3>2. Top'.pc = "DoIdleWork"
      BY <3>1, ReturnsFalseNextCall DEF ControlInv
    <3>3. Quiescent
      BY <3>1, ReturnsFalseControl DEF ControlInv, Quiescent
    <3>4. \A e \in delayed_work_queue' :
            delayed_work_time' \in 1 .. RunTime(e.task)
      BY <2>3, <3>3, DoDelayedWorkTime
    <3>5. QED
      BY <2>1, <3>1, <3>2, <3>3, <3>4 DEF SleepInv
  <2>4. CASE DoIdleWorkBlock
    <3>1. PICK pc \in {"Wait", "TimedWait", "DoWork"} :
            /\ frame' = [frame EXCEPT ![depth].pc = pc]
            /\ pc # "DoWork" => UNCHANGED delayed_work_time
            /\ pc = "Wait" => delayed_work_time = 0
      BY <2>4 DEF DoIdleWorkBlock
    <3>2. UNCHANGED <<depth, nestable_tasks_allowed, work_queue,
                      delayed_work_queue>>
          /\ depth > 0 /\ Top.pc = "DoIdleWork" /\ Top.task = 0
      BY <2>4 DEF DoIdleWorkBlock, Calling, queues
    <3>3. Top'.pc = pc
      BY <3>1, <3>2, TopPc
    <3>4. pc # "DoWork" /\ Quiescent
      BY <3>2, <3>3 DEF Quiescent
    <3>5. QED
      BY <2>1, <3>1, <3>2, <3>3, <3>4 DEF SleepInv
  <2>5. CASE UNCHANGED <<queues, frame, depth, nestable_tasks_allowed,
                         delayed_work_time>>
    <3>1. Quiescent /\ Top' = Top
      BY <2>5 DEF Quiescent, Top
    <3>2. QED
      BY <2>1, <2>5, <3>1 DEF SleepInv, queues
  <2>6. QED
    BY <2>2, <2>3, <2>4, <2>5, QuiescentSteps
<1>3. QED
  BY <1>1, <1>2, TypeCorrect, ControlInvariant, PTL DEF Spec

\* The loop never waits past a delayed task it holds, nor at all while
\* work_queue_ has one, however nested Runs have rewritten delayed_work_time_.
THEOREM NeverOversleepsHolds == Spec => []NeverOversleeps
<1>1. TypeOK /\ ControlInv /\ SleepInv => NeverOversleeps
  <2> SUFFICES ASSUME TypeOK, ControlInv, SleepInv, Waiting
               PROVE  /\ work_queue = <<>>
                      /\ \A e \in delayed_work_queue :
                           /\ Top.pc = "TimedWait"
                           /\ delayed_work_time <= RunTime(e.task)
    BY DEF NeverOversleeps
  <2>1. depth \in 1 .. MaxDepth /\ Top.task = 0
        /\ Top.pc \in {"Wait", "TimedWait"}
    BY DEF TypeOK, Waiting, Calling
  <2>2. ~Top.quit_received
    BY <2>1 DEF ControlInv, StackInv, WaitsWhenIdle, Top
  <2>3. Quiescent
    BY <2>1, <2>2 DEF ControlInv, StackInv, AllowedByStack, Quiescent
  <2>4. \A e \in delayed_work_queue : RunTime(e.task) \in Nat
    BY RunTimeType DEF TypeOK
  <2>5. QED
    BY <2>1, <2>3, <2>4 DEF SleepInv, TypeOK
<1>2. QED
  BY <1>1, TypeCorrect, ControlInvariant, SleepInvariant, PTL

-----------------------------------------------------------------------------
(* A Run that quits when idle has run what was pending.                    *)

\* Tasks are deleted with the loop only; nested loops defer the non-nestable ones.
KeptInv ==
  /\ lifecycle = "alive" => deleted = {}
  /\ \A t \in DeferredTasks : ~log[t].nestable

QuitStamps ==
  \A d \in 1 .. MaxDepth :
    frame[d].quit_posted <= Len(log) /\ frame[d].quit_time <= now

\* On its way to the wait a loop that was told to quit has taken all tasks posted
\* by then off incoming_queue_; an outermost one that has called DoDelayedWork has
\* no delayed task left that was due by then.
QuitInv ==
  Quiescent /\ Top.quit_received =>
    /\ \A t \in IncomingTasks : Top.quit_posted < t
    /\ depth = 1 /\ Top.pc = "DoIdleWork" =>
         \A e \in delayed_work_queue : Top.quit_time < RunTime(e.task)

DrainInv == KeptInv /\ QuitStamps /\ QuitInv

LEMMA NextKept ==
  ASSUME TypeOK, ControlInv, PlacesInv, KeptInv, [Next]_vars
  PROVE  KeptInv'
<1>1. \A t \in Task : log'[t] = log[t]
  BY NextGrows
<1>2. DeferredTasks \subseteq Task
  BY DEF PlacesInv, Divided, Divide
<1>3. ASSUME UNCHANGED <<lifecycle, deleted>>, DeferredTasks' \subseteq DeferredTasks
      PROVE  KeptInv'
  BY <1>1, <1>2, <1>3 DEF KeptInv
<1>4. ASSUME UNCHANGED <<lifecycle, deleted>>, NEW t \in Task, ~MayRunNow(t),
             t \notin DeferredTasks,
             deferred_queue' = Append(deferred_queue, t)
      PROVE  KeptInv'
  <2>1. DeferredTasks' = DeferredTasks \cup {t}
    BY <1>4, Defers
  <2>2. QED
    BY <1>1, <1>2, <1>4, <2>1 DEF KeptInv, MayRunNow
<1>5. ASSUME deferred_queue' = deferred_queue
      PROVE  DeferredTasks' \subseteq DeferredTasks
  BY <1>5 DEF DeferredTasks
<1>6. CASE Pump
  <2>1. UNCHANGED <<lifecycle, deleted>>
    BY <1>6 DEF Pump, DoWorkNotAllowed, ReloadWorkQueue, DoWorkEmpty,
       DoWorkDelayed, DoWorkDefer, DoWorkRun, DoDelayedWorkNothing,
       DoDelayedWorkNotDue, DoDelayedWorkRun, DoDelayedWorkDefer,
       DoIdleWorkRun, DoIdleWorkQuit, DoIdleWorkBlock, WaitReturns,
       TakesOldest, TakesDue, elsewhere, teardown
  <2>2. CASE DoWorkDefer
    <3>1. TakesOldest /\ ~MayRunNow(Head(work_queue))
          /\ deferred_queue' = Append(deferred_queue, Head(work_queue))
      BY <2>2 DEF DoWorkDefer
    <3>2. Head(work_queue) \in Task /\ Head(work_queue) \notin DeferredTasks
      BY <3>1, WorkLeaves DEF PlacesInv, Divided, Divide
    <3>3. QED
      BY <1>4, <2>1, <3>1, <3>2
  <2>3. CASE DoDelayedWorkDefer
    <3>1. PICK e \in delayed_work_queue :
            /\ TakesDue(e) /\ ~MayRunNow(e.task)
            /\ deferred_queue' = Append(deferred_queue, e.task)
      BY <2>3 DEF DoDelayedWorkDefer
    <3>2. e.task \in Task /\ e.task \notin DeferredTasks
      BY <3>1, DelayedLeaves DEF PlacesInv, Divided, Divide
    <3>3. QED
      BY <1>4, <2>1, <3>1, <3>2
  <2>4. CASE DoIdleWorkRun
    <3>1. deferred_queue # <<>> /\ deferred_queue' = Tail(deferred_queue)
      BY <2>4 DEF DoIdleWorkRun, DeferredCanRun
    <3>2. QED
      BY <1>3, <2>1, <3>1, DeferredLeaves
  <2>5. CASE deferred_queue' = deferred_queue
    BY <1>3, <1>5, <2>1, <2>5
  <2>6. QED
    BY <1>6, <2>2, <2>3, <2>4, <2>5
       DEF Pump, DoWorkNotAllowed, ReloadWorkQueue, DoWorkEmpty,
           DoWorkDelayed, DoWorkRun, DoDelayedWorkNothing,
           DoDelayedWorkNotDue, DoDelayedWorkRun, DoIdleWorkQuit,
           DoIdleWorkBlock, WaitReturns, queues
<1>7. CASE RunTop \/ TaskBody \/ Tick \/ UNCHANGED vars
  BY <1>3, <1>5, <1>7
     DEF RunTop, elsewhere, TaskBody, ThreadPosts, TaskQuits, TaskQuitsNow,
         TaskNests, TaskReturns, inTask, Tick, vars, queues, teardown
<1>8. ASSUME NEW p \in Posters, Post(p)
      PROVE  KeptInv'
  BY <1>3, <1>5, <1>8
     DEF Post, ProxyPost, LoopPost, PostPushOnly, PostPushFirst,
         PostScheduleWork, loopUnchanged, queues, teardown
<1>9. CASE Destroy
  <2>1. lifecycle' # "alive"
    BY <1>9 DEF Destroy, DestroyBegins, DestroyDeletes, DestroyReloads,
                DestroyDeletesAgain, DestroyUnbinds, DestroyEnds
  <2>2. deferred_queue' = deferred_queue \/ deferred_queue' = <<>>
    BY <1>9 DEF Destroy, DestroyBegins, DestroyDeletes, DestroyReloads,
         DestroyDeletesAgain, DestroyUnbinds, DestroyEnds, DeletePendingTasks,
         queues
  <2>3. DeferredTasks' \subseteq DeferredTasks
    BY <2>2 DEF DeferredTasks, ToSet
  <2>4. QED
    BY <1>1, <1>2, <2>1, <2>3 DEF KeptInv
<1>10. QED
  BY <1>6, <1>7, <1>8, <1>9 DEF Next, RunNext

LEMMA NextQuitStamps ==
  ASSUME TypeOK, QuitStamps, [Next]_vars
  PROVE  QuitStamps'
<1>1. /\ now \in Nat /\ now' \in Nat /\ now <= now'
      /\ Len(log) \in Nat /\ Len(log') \in Nat /\ Len(log) <= Len(log')
      /\ depth \in 0 .. MaxDepth /\ frame \in [1 .. MaxDepth -> FrameType]
  <2>1. log' \in Seq(TaskType)
    BY NextGrows, PushTypes DEF TypeOK
  <2>2. QED
    BY <2>1, NextGrows DEF TypeOK
<1>2. \A d \in 1 .. MaxDepth : /\ frame[d].quit_posted \in Nat
                               /\ frame[d].quit_time \in Nat
  BY <1>1 DEF FrameType
<1>3. CASE frame' = frame
  BY <1>1, <1>2, <1>3 DEF QuitStamps
<1>4. ASSUME NEW d \in 1 .. MaxDepth, NEW r, frame' = [frame EXCEPT ![d] = r],
             r.quit_posted \in 0 .. Len(log), r.quit_time \in 0 .. now
      PROVE  QuitStamps'
  BY <1>1, <1>2, <1>4 DEF QuitStamps
<1>5. ASSUME NEW d \in 1 .. MaxDepth, NEW r, frame' = [frame EXCEPT ![d] = r],
             r.quit_posted = frame[d].quit_posted,
             r.quit_time = frame[d].quit_time
      PROVE  QuitStamps'
  BY <1>1, <1>2, <1>5 DEF QuitStamps
<1>6. ASSUME NEW quit \in BOOLEAN, NEW allowed \in BOOLEAN,
             EnterRun(quit, allowed)
      PROVE  QuitStamps'
  <2>1. depth + 1 \in 1 .. MaxDepth
        /\ frame' = [frame EXCEPT ![depth + 1] = NewFrame(quit, allowed)]
    BY <1>1, <1>6 DEF EnterRun
  <2>2. /\ NewFrame(quit, allowed).quit_posted \in 0 .. Len(log)
        /\ NewFrame(quit, allowed).quit_time \in 0 .. now
    BY <1>1 DEF NewFrame
  <2>3. QED
    BY <1>4, <2>1, <2>2
<1>7. ASSUME depth > 0, NEW allowed, LeaveRun(allowed)
      PROVE  QuitStamps'
  <2>1. NoFrame.quit_posted \in 0 .. Len(log) /\ NoFrame.quit_time \in 0 .. now
    BY <1>1 DEF NoFrame
  <2>2. depth \in 1 .. MaxDepth /\ frame' = [frame EXCEPT ![depth] = NoFrame]
    BY <1>1, <1>7 DEF LeaveRun
  <2>3. QED
    BY <1>4, <2>1, <2>2
<1>8. ASSUME depth > 0, NEW did, NEW allowed, Returns(did, allowed)
      PROVE  QuitStamps'
  <2>1. CASE LeaveRun(allowed)
    BY <1>7, <1>8, <2>1
  <2>2. CASE frame' = [frame EXCEPT ![depth] =
               [@ EXCEPT !.pc = NextCall(did), !.task = 0,
                         !.did_work = (did /\ Top.pc = "DoWork")]]
    <3> DEFINE r == [frame[depth] EXCEPT !.pc = NextCall(did), !.task = 0,
                       !.did_work = (did /\ Top.pc = "DoWork")]
    <3>1. depth \in 1 .. MaxDepth /\ frame' = [frame EXCEPT ![depth] = r]
      BY <1>1, <1>8, <2>2
    <3>2. /\ r.quit_posted = frame[depth].quit_posted
          /\ r.quit_time = frame[depth].quit_time
      BY <1>1, <3>1 DEF FrameType
    <3> HIDE DEF r
    <3>3. QED
      BY <1>5, <3>1, <3>2
  <2>3. QED
    BY <1>8, <2>1, <2>2 DEF Returns
<1>9. ASSUME depth > 0, NEW t, RunTask(t)
      PROVE  QuitStamps'
  <2> DEFINE r == [frame[depth] EXCEPT !.task = t]
  <2>1. depth \in 1 .. MaxDepth /\ frame' = [frame EXCEPT ![depth] = r]
    BY <1>1, <1>9 DEF RunTask
  <2>2. /\ r.quit_posted = frame[depth].quit_posted
        /\ r.quit_time = frame[depth].quit_time
    BY <1>1, <2>1 DEF FrameType
  <2> HIDE DEF r
  <2>3. QED
    BY <1>5, <2>1, <2>2
<1>10. ASSUME depth > 0, NEW pc, frame' = [frame EXCEPT ![depth].pc = pc]
       PROVE  QuitStamps'
  <2> DEFINE r == [frame[depth] EXCEPT !.pc = pc]
  <2>1. depth \in 1 .. MaxDepth /\ frame' = [frame EXCEPT ![depth] = r]
    BY <1>1, <1>10
  <2>2. /\ r.quit_posted = frame[depth].quit_posted
        /\ r.quit_time = frame[depth].quit_time
    BY <1>1, <2>1 DEF FrameType
  <2> HIDE DEF r
  <2>3. QED
    BY <1>5, <2>1, <2>2
<1>11. CASE Pump
  <2>1. depth > 0
    BY <1>11 DEF Pump, DoWorkNotAllowed, ReloadWorkQueue, DoWorkEmpty,
       DoWorkDelayed, DoWorkDefer, DoWorkRun, DoDelayedWorkNothing,
       DoDelayedWorkNotDue, DoDelayedWorkRun, DoDelayedWorkDefer,
       DoIdleWorkRun, DoIdleWorkQuit, DoIdleWorkBlock, WaitReturns, Calling,
       TakesOldest, TakesDue
  <2>2. \/ frame' = frame
        \/ ReturnsFalse
        \/ LeaveRun(nestable_tasks_allowed)
        \/ \E t : RunTask(t)
        \/ \E pc : frame' = [frame EXCEPT ![depth].pc = pc]
    BY <1>11 DEF Pump, DoWorkNotAllowed, ReloadWorkQueue, DoWorkEmpty,
       DoWorkDelayed, DoWorkDefer, DoWorkRun, DoDelayedWorkNothing,
       DoDelayedWorkNotDue, DoDelayedWorkRun, DoDelayedWorkDefer,
       DoIdleWorkRun, DoIdleWorkQuit, DoIdleWorkBlock, WaitReturns
  <2>3. QED
    BY <1>3, <1>7, <1>8, <1>9, <1>10, <2>1, <2>2 DEF ReturnsFalse
<1>12. CASE TaskBody
  <2>1. CASE TaskQuits
    <3> DEFINE r == [frame[depth] EXCEPT !.quit_received = TRUE,
                       !.quit_posted = Len(log), !.quit_time = now]
    <3>1. depth \in 1 .. MaxDepth /\ frame' = [frame EXCEPT ![depth] = r]
      BY <1>1, <2>1 DEF TaskQuits, InTask
    <3>2. r.quit_posted \in 0 .. Len(log) /\ r.quit_time \in 0 .. now
      BY <1>1, <3>1 DEF FrameType
    <3> HIDE DEF r
    <3>3. QED
      BY <1>4, <3>1, <3>2
  <2>2. CASE TaskNests
    BY <1>6, <2>2 DEF TaskNests
  <2>3. CASE TaskReturns
    BY <1>8, <2>3 DEF TaskReturns, InTask
  <2>4. CASE ThreadPosts \/ TaskQuitsNow
    BY <1>3, <2>4 DEF ThreadPosts, TaskQuitsNow
  <2>5. QED
    BY <1>12, <2>1, <2>2, <2>3, <2>4 DEF TaskBody
<1>13. CASE RunTop
  BY <1>6, <1>13 DEF RunTop
<1>14. CASE Destroy \/ Tick \/ UNCHANGED vars
  BY <1>3, <1>14 DEF Destroy, DestroyBegins, DestroyDeletes, DestroyReloads,
     DestroyDeletesAgain, DestroyUnbinds, DestroyEnds, DeletePendingTasks,
     Tick, vars
<1>15. ASSUME NEW p \in Posters, Post(p)
       PROVE  QuitStamps'
  BY <1>3, <1>15 DEF Post, ProxyPost, LoopPost, PostPushOnly, PostPushFirst,
                     PostScheduleWork, loopUnchanged
<1>16. QED
  BY <1>11, <1>12, <1>13, <1>14, <1>15 DEF Next, RunNext

LEMMA NextQuit ==
  ASSUME TypeOK, ControlInv, PlacesInv, SleepInv, QuitStamps, QuitInv,
         [Next]_vars
  PROVE  QuitInv'
<1> SUFFICES ASSUME Quiescent', Top'.quit_received
             PROVE  /\ \A t \in IncomingTasks' : Top'.quit_posted < t
                    /\ depth' = 1 /\ Top'.pc = "DoIdleWork" =>
                         \A e \in delayed_work_queue' :
                           Top'.quit_time < RunTime(e.task)'
  BY DEF QuitInv
<1>1. \A e \in delayed_work_queue :
        e.task \in Task /\ RunTime(e.task)' = RunTime(e.task)
  BY NextGrows DEF TypeOK, RunTime
<1>2. CASE DoWorkEmpty
  <2>1. /\ Top.pc = "DoWork" /\ depth > 0 /\ Top.task = 0
        /\ ReturnsFalse /\ log' = log
    BY <1>2 DEF DoWorkEmpty, Calling, elsewhere
  <2>2. Top'.pc = "DoDelayedWork"
    BY <2>1, ReturnsFalseNextCall DEF ControlInv
  <2>3. IncomingTasks' = {}
    BY <1>2 DEF DoWorkEmpty, IncomingTasks
  <2>4. QED
    BY <2>2, <2>3
<1>3. CASE DoDelayedWorkNothing \/ DoDelayedWorkNotDue \/ DoDelayedWorkDefer
  <2>1. /\ Top.pc = "DoDelayedWork" /\ depth > 0 /\ Top.task = 0
        /\ ReturnsFalse /\ log' = log /\ incoming_queue' = incoming_queue
    BY <1>3 DEF DoDelayedWorkNothing, DoDelayedWorkNotDue,
                DoDelayedWorkDefer, TakesDue, Calling, elsewhere
  <2>2. /\ depth' = depth /\ Top'.quit_received = Top.quit_received
        /\ Top'.quit_posted = Top.quit_posted
        /\ Top'.quit_time = Top.quit_time
    BY <2>1, ReturnsFalseNextCall DEF ControlInv
  <2>3. Quiescent
    BY <2>1, ReturnsFalseControl DEF ControlInv, Quiescent
  <2>4. \A t \in IncomingTasks' : Top'.quit_posted < t
    BY <2>1, <2>2, <2>3 DEF QuitInv, IncomingTasks
  <2>5. ASSUME depth = 1
        PROVE  \A e \in delayed_work_queue' : Top'.quit_time < RunTime(e.task)'
    <3>1. CASE DoDelayedWorkNothing
      BY <2>3, <3>1 DEF DoDelayedWorkNothing, Quiescent, queues
    <3>2. CASE DoDelayedWorkNotDue
      <4>1. PICK e \in delayed_work_queue :
              /\ IsTop(e, delayed_work_queue)
              /\ recent_time' = ViewOfNow(e)
              /\ RunTime(e.task) > recent_time'
        BY <3>2 DEF DoDelayedWorkNotDue
      <4>2. RunTime(e.task) \in Nat /\ recent_time \in Nat /\ now \in Nat
        BY <1>1, RunTimeType DEF TypeOK
      <4>3. now < RunTime(e.task)
        BY <4>1, <4>2 DEF ViewOfNow
      <4>4. Top.quit_time \in Nat /\ Top.quit_time <= now
        <5>1. depth \in 1 .. MaxDepth
          BY <2>1 DEF TypeOK
        <5>2. QED
          BY <5>1 DEF TypeOK, QuitStamps, Top, FrameType
      <4>5. \A f \in delayed_work_queue :
              RunTime(f.task) \in Nat /\ RunTime(e.task) \in 1 .. RunTime(f.task)
        BY <1>1, <4>1, TopIsFirst, RunTimeType
      <4>6. delayed_work_queue' = delayed_work_queue
        BY <3>2 DEF DoDelayedWorkNotDue, queues
      <4>7. QED
        BY <1>1, <2>2, <4>2, <4>3, <4>4, <4>5, <4>6
    <3>3. ~DoDelayedWorkDefer
      BY <2>5 DEF DoDelayedWorkDefer, MayRunNow
    <3>4. QED
      BY <1>3, <3>1, <3>2, <3>3
  <2>6. QED
    BY <2>2, <2>4, <2>5
<1>4. CASE DoIdleWorkBlock
  <2>1. PICK pc \in {"Wait", "TimedWait", "DoWork"} :
          frame' = [frame EXCEPT ![depth].pc = pc]
    BY <1>4 DEF DoIdleWorkBlock
  <2>2. depth > 0 /\ depth' = depth /\ ~Top.quit_received
    BY <1>4 DEF DoIdleWorkBlock, Calling
  <2>3. QED
    BY <2>1, <2>2, TopPc
<1>5. CASE /\ UNCHANGED <<queues, frame, depth, nestable_tasks_allowed>>
           /\ \/ incoming_queue' = incoming_queue
              \/ \E task \in TaskType : Push(task)
  <2>1. Quiescent /\ Top' = Top /\ delayed_work_queue' = delayed_work_queue
    BY <1>5 DEF Quiescent, Top, queues
  <2>2. IncomingTasks' \subseteq IncomingTasks \cup {Len(log) + 1}
    BY <1>5, PushPlaces DEF IncomingTasks
  <2>3. Top.quit_posted < Len(log) + 1
    <3>1. depth \in 1 .. MaxDepth
      BY <2>1 DEF TypeOK, Quiescent
    <3>2. Top.quit_posted \in Nat /\ Top.quit_posted <= Len(log)
      BY <3>1 DEF TypeOK, FrameType, QuitStamps, Top
    <3>3. QED
      BY <3>2 DEF TypeOK
  <2>4. QED
    BY <1>1, <1>5, <2>1, <2>2, <2>3 DEF QuitInv
<1>6. QED
  BY <1>2, <1>3, <1>4, <1>5, QuiescentSteps

LEMMA DrainInvariant == Spec => []DrainInv
<1>1. Init => DrainInv
  BY DEF Init, DrainInv, KeptInv, QuitStamps, QuitInv, Quiescent, NoFrame,
         DeferredTasks, ToSet
<1>2. TypeOK /\ ControlInv /\ PlacesInv /\ SleepInv /\ DrainInv /\ [Next]_vars
        => DrainInv'
  BY NextKept, NextQuitStamps, NextQuit DEF DrainInv
<1>3. QED
  BY <1>1, <1>2, TypeCorrect, ControlInvariant, PlacesInvariant,
     SleepInvariant, PTL DEF Spec

\* The loop leaves Run from DoIdleWork in one way: told to quit, with no task left
\* that it could run there.
LEMMA LeavesByQuitting ==
  ASSUME TypeOK, LeavesIdle, [Next]_vars
  PROVE  DoIdleWorkQuit
<1>1. depth > 0 /\ Top.task = 0 /\ Top.pc = "DoIdleWork" /\ depth' < depth
      /\ depth \in Nat
  BY DEF LeavesIdle, Calling, TypeOK
<1>2. CASE Pump
  BY <1>1, <1>2
     DEF Pump, DoWorkNotAllowed, ReloadWorkQueue, DoWorkEmpty, DoWorkDelayed,
         DoWorkDefer, DoWorkRun, DoDelayedWorkNothing, DoDelayedWorkNotDue,
         DoDelayedWorkRun, DoDelayedWorkDefer, DoIdleWorkRun, DoIdleWorkBlock,
         WaitReturns, Calling, TakesOldest, TakesDue, RunTask
<1>3. CASE TaskBody
  BY <1>1, <1>3 DEF TaskBody, ThreadPosts, TaskQuits, TaskQuitsNow, TaskNests,
                    TaskReturns, InTask
<1>4. CASE RunTop \/ Tick \/ Destroy \/ UNCHANGED vars
  <2>1. ~RunTop
    <3>1. RunTop => depth = 0
      BY DEF RunTop
    <3>2. depth # 0
      BY <1>1
    <3>3. QED
      BY <3>1, <3>2
  <2>2. ~Tick /\ ~UNCHANGED vars
    BY <1>1 DEF Tick, vars
  <2>3. Destroy => depth' = depth
    BY DEF Destroy, DestroyBegins, DestroyDeletes, DestroyReloads,
           DestroyDeletesAgain, DestroyUnbinds, DestroyEnds, DeletePendingTasks
  <2>4. QED
    BY <1>1, <1>4, <2>1, <2>2, <2>3
<1>5. ASSUME NEW p \in Posters, Post(p)
      PROVE  FALSE
  BY <1>1, <1>5 DEF Post, ProxyPost, LoopPost, PostPushOnly, PostPushFirst,
                    PostScheduleWork, loopUnchanged
<1>6. QED
  BY <1>2, <1>3, <1>4, <1>5 DEF Next, RunNext

\* A Run that quits when idle has run every task that was posted and due when it
\* was told to quit: at depth 1 all of them, those nested loops deferred too, and
\* in a nested loop the nestable ones without a delay.
THEOREM QuitDrainsHolds == Spec => QuitDrains
<1>1. TypeOK /\ ControlInv /\ PlacesInv /\ SleepInv /\ DrainInv /\ [Next]_vars =>
        [LeavesIdle /\ nestable_tasks_allowed =>
           \A t \in Task :
             DueAtQuit(t) /\ (depth = 1 \/ (log[t].nestable /\ RunTime(t) = 0))
               => t \in StartedTasks]_vars
  <2> SUFFICES ASSUME TypeOK, ControlInv, PlacesInv, SleepInv, DrainInv,
                      [Next]_vars, LeavesIdle, nestable_tasks_allowed,
                      NEW t \in Task, DueAtQuit(t),
                      depth = 1 \/ (log[t].nestable /\ RunTime(t) = 0)
               PROVE  t \in StartedTasks
    OBVIOUS
  <2>1. DoIdleWorkQuit
    BY LeavesByQuitting
  <2>2. /\ depth \in 1 .. MaxDepth /\ Quiescent /\ Top.quit_received
        /\ Top.pc = "DoIdleWork" /\ ~DeferredCanRun
    BY <2>1 DEF TypeOK, DoIdleWorkQuit, Calling, Quiescent
  <2>3. Top.quit_posted \in Nat /\ Top.quit_time \in Nat /\ RunTime(t) \in Nat
    <3>1. frame[depth] \in FrameType
      BY <2>2 DEF TypeOK
    <3>2. QED
      BY <3>1, RunTimeType DEF FrameType, Top
  <2>4. t \notin deleted
    BY <2>2 DEF ControlInv, DestroyedOutsideRun, DrainInv, KeptInv
  <2>5. t \notin IncomingTasks
    BY <2>2, <2>3 DEF DrainInv, QuitInv, DueAtQuit, Task
  <2>6. t \notin WorkTasks
    BY <2>2 DEF SleepInv, WorkTasks, ToSet
  <2>7. t \notin DeferredTasks
    BY <2>2 DEF DeferredCanRun, DeferredTasks, ToSet, DrainInv, KeptInv
  <2>8. t \notin DelayedTasks
    BY <2>2, <2>3 DEF DelayedTasks, SleepInv, DrainInv, QuitInv, DueAtQuit
  <2>9. QED
    BY <2>4, <2>5, <2>6, <2>7, <2>8 DEF PlacesInv, Divided, Divide
<1>2. QED
  BY <1>1, TypeCorrect, ControlInvariant, PlacesInvariant, SleepInvariant,
     DrainInvariant, PTL DEF Spec, QuitDrains

-----------------------------------------------------------------------------
(* Lists of task numbers that rise.                                        *)

Increasing(list) == \A i, j \in DOMAIN list : i < j => list[i] < list[j]

LEMMA IncreasingTail ==
  ASSUME NEW list \in Seq(Nat), list # <<>>, Increasing(list)
  PROVE  /\ Increasing(Tail(list))
         /\ \A t \in ToSet(Tail(list)) : Head(list) < t
<1>1. /\ \A i \in DOMAIN Tail(list) : /\ i \in Nat /\ i + 1 \in DOMAIN list
                                      /\ Tail(list)[i] = list[i + 1]
                                      /\ 1 < i + 1
      /\ Head(list) = list[1] /\ 1 \in DOMAIN list
  OBVIOUS
<1>2. Increasing(Tail(list))
  <2>1. ASSUME NEW i \in DOMAIN Tail(list), NEW j \in DOMAIN Tail(list), i < j
        PROVE  Tail(list)[i] < Tail(list)[j]
    <3>1. i + 1 < j + 1
      BY <1>1, <2>1
    <3>2. QED
      BY <1>1, <3>1 DEF Increasing
  <2>2. QED
    BY <2>1 DEF Increasing
<1>3. QED
  BY <1>1, <1>2 DEF Increasing, ToSet

LEMMA IncreasingAppend ==
  ASSUME NEW list \in Seq(Nat), NEW n \in Nat, Increasing(list),
         \A t \in ToSet(list) : t < n
  PROVE  Increasing(Append(list, n))
<1>1. /\ DOMAIN list = 1 .. Len(list) /\ Len(list) \in Nat
      /\ DOMAIN Append(list, n) = 1 .. Len(list) + 1
      /\ Append(list, n)[Len(list) + 1] = n
      /\ \A i \in 1 .. Len(list) : /\ Append(list, n)[i] = list[i]
                                   /\ list[i] < n
  BY DEF ToSet
<1>2. ASSUME NEW i \in 1 .. Len(list) + 1, NEW j \in 1 .. Len(list) + 1, i < j
      PROVE  Append(list, n)[i] < Append(list, n)[j]
  <2>1. i \in 1 .. Len(list)
    BY <1>1, <1>2
  <2>2. CASE j \in 1 .. Len(list)
    BY <1>1, <1>2, <2>1, <2>2 DEF Increasing
  <2>3. CASE j = Len(list) + 1
    BY <1>1, <2>1, <2>3
  <2>4. QED
    BY <1>1, <2>2, <2>3
<1>3. QED
  BY <1>1, <1>2 DEF Increasing

-----------------------------------------------------------------------------
(* Sequence numbers.                                                       *)

\* How far n is ahead of m, when both roll over.
Ahead(m, n) == (n + SequenceModulus - m) % SequenceModulus

SequenceNum == 0 .. SequenceModulus - 1

LEMMA ModOnce ==
  ASSUME NEW modulus \in Nat \ {0}, NEW x \in Nat, x < 2 * modulus
  PROVE  x % modulus = IF x < modulus THEN x ELSE x - modulus
OBVIOUS

LEMMA AheadIs ==
  ASSUME NEW m \in SequenceNum, NEW n \in SequenceNum
  PROVE  Ahead(m, n) = IF n < m THEN n + SequenceModulus - m ELSE n - m
<1> DEFINE x == n + SequenceModulus - m
<1>1. /\ x \in Nat /\ x < 2 * SequenceModulus /\ (x < SequenceModulus <=> n < m)
      /\ x - SequenceModulus = n - m
  BY SequenceAssumption DEF SequenceNum
<1> HIDE DEF x
<1>2. x % SequenceModulus = IF x < SequenceModulus THEN x ELSE x - SequenceModulus
  BY <1>1, ModOnce, SequenceAssumption
<1>3. QED
  BY <1>1, <1>2 DEF Ahead, x

LEMMA NextIs ==
  ASSUME NEW n \in SequenceNum
  PROVE  (n + 1) % SequenceModulus
           = IF n + 1 = SequenceModulus THEN 0 ELSE n + 1
<1>1. n + 1 \in Nat /\ n + 1 <= SequenceModulus /\ n + 1 < 2 * SequenceModulus
  BY SequenceAssumption DEF SequenceNum
<1>2. QED
  BY <1>1, ModOnce, SequenceAssumption

\* The next number is ahead of all that were given by one more.
LEMMA AheadGrows ==
  ASSUME NEW m \in SequenceNum, NEW n \in SequenceNum,
         Ahead(m, n) < SequenceModulus - 1
  PROVE  /\ Ahead(m, (n + 1) % SequenceModulus) = Ahead(m, n) + 1
         /\ Ahead(n, (n + 1) % SequenceModulus) = IF SequenceModulus = 1 THEN 0 ELSE 1
<1>1. (n + 1) % SequenceModulus = IF n + 1 = SequenceModulus THEN 0 ELSE n + 1
  BY NextIs
<1> DEFINE k == (n + 1) % SequenceModulus
<1>2. k \in SequenceNum
  BY <1>1, SequenceAssumption DEF SequenceNum
<1>3. k = IF n + 1 = SequenceModulus THEN 0 ELSE n + 1
  BY <1>1
<1> HIDE DEF k
<1>4. /\ Ahead(m, k) = IF k < m THEN k + SequenceModulus - m ELSE k - m
      /\ Ahead(n, k) = IF k < n THEN k + SequenceModulus - n ELSE k - n
      /\ Ahead(m, n) = IF n < m THEN n + SequenceModulus - m ELSE n - m
  BY <1>2, AheadIs
<1>5. Ahead(m, k) = Ahead(m, n) + 1
  BY <1>3, <1>4, SequenceAssumption DEF SequenceNum
<1>6. Ahead(n, k) = IF SequenceModulus = 1 THEN 0 ELSE 1
  BY <1>3, <1>4, SequenceAssumption DEF SequenceNum
<1>7. QED
  BY <1>5, <1>6 DEF k

\* The code's comparison tells numbers that are close.
LEMMA AboveWhenAhead ==
  ASSUME NEW f, NEW e, RunTime(f.task) = RunTime(e.task),
         NEW n \in Nat, n <= MaxTasks,
         Ahead(f.sequence_num, e.sequence_num) \in 1 .. n
  PROVE  Above(f, e)
<1> DEFINE half == (SequenceModulus - 1) \div 2
<1>1. half \in Int /\ n <= half
  BY RollOverAssumption, TasksAssumption, SequenceAssumption
<1> HIDE DEF half
<1>2. Ahead(f.sequence_num, e.sequence_num) \in 1 .. half
  BY <1>1
<1>3. QED
  BY <1>2 DEF Above, Ahead, half

LEMMA MaxTasksFit == MaxTasks <= SequenceModulus - 1
<1> DEFINE m == SequenceModulus - 1
<1>1. m \in Nat
  BY SequenceAssumption
<1> HIDE DEF m
<1>2. m \div 2 <= m
  BY <1>1
<1>3. MaxTasks <= m \div 2 /\ m \div 2 \in Int
  BY <1>1, RollOverAssumption DEF m
<1>4. QED
  BY <1>1, <1>2, <1>3, TasksAssumption DEF m

-----------------------------------------------------------------------------
(* What PendingTask stamps: a delayed task is never due before one that was *)
(* posted before it with a delay that is not higher.                        *)

StampedInOrder(r, tasks, time) ==
  /\ r.delay \in Delays
  /\ r.seen <= Len(tasks)
  /\ r.delay = 0 <=> r.delayed_run_time = 0
  /\ r.delayed_run_time <= time + r.delay
  /\ \A u \in 1 .. r.seen :
       0 < tasks[u].delay /\ tasks[u].delay <= r.delay
         => tasks[u].delayed_run_time <= r.delayed_run_time

Stamped == {p \in Posters : poster[p].pc = "stamped"}

StampsInv ==
  /\ \A t \in Task : StampedInOrder(log[t], log, now) /\ log[t].seen < t
  /\ \A p \in Stamped : StampedInOrder(poster[p].task, log, now)

\* Every post that has begun fits into MaxTasks.
BoundInv == IsFiniteSet(Stamped) /\ Len(log) + Cardinality(Stamped) <= MaxTasks

LEMMA PendingTaskInOrder ==
  ASSUME TypeOK, StampsInv, NEW delay \in Delays, NEW nestable \in BOOLEAN,
         NEW closure \in Closures
  PROVE  /\ PendingTask(delay, nestable, closure) \in TaskType
         /\ StampedInOrder(PendingTask(delay, nestable, closure), log, now)
<1> DEFINE task == PendingTask(delay, nestable, closure)
<1>1. now \in Nat /\ delay \in Nat /\ Len(log) \in Nat /\ log \in Seq(TaskType)
  BY DelaysAssumption DEF TypeOK
<1>2. /\ task.delay = delay /\ task.seen = Len(log)
      /\ task.delayed_run_time = IF delay > 0 THEN now + delay ELSE 0
  BY DEF PendingTask, CalculateDelayedRuntime
<1>3. task \in TaskType
  BY <1>1 DEF PendingTask, CalculateDelayedRuntime, TaskType
<1> HIDE DEF task
<1>4. \A u \in Task : /\ RunTime(u) <= now + log[u].delay
                      /\ RunTime(u) \in Nat /\ log[u].delay \in Nat
  <2>1. \A u \in Task : log[u] \in TaskType
    BY <1>1 DEF Task
  <2>2. \A u \in Task : log[u].delayed_run_time <= now + log[u].delay
    BY DEF StampsInv, StampedInOrder
  <2>3. QED
    BY <2>1, <2>2 DEF TaskType, RunTime
<1>5. ASSUME NEW u \in 1 .. task.seen, 0 < log[u].delay, log[u].delay <= delay
      PROVE  log[u].delayed_run_time <= task.delayed_run_time
  <2>1. u \in Task
    BY <1>2 DEF Task
  <2>2. /\ RunTime(u) <= now + log[u].delay
        /\ RunTime(u) \in Nat /\ log[u].delay \in Nat
    BY <2>1, <1>4
  <2>3. task.delayed_run_time = now + delay
    BY <1>1, <1>2, <1>5, <2>2
  <2>4. QED
    BY <1>1, <1>5, <2>2, <2>3 DEF RunTime
<1>6. StampedInOrder(task, log, now)
  BY <1>1, <1>2, <1>5 DEF StampedInOrder
<1>7. QED
  BY <1>3, <1>6 DEF task

\* Only stamped tasks are pushed.
LEMMA NextStamps ==
  ASSUME TypeOK, StampsInv, [Next]_vars
  PROVE  /\ \/ log' = log
            \/ \E task \in TaskType : StampedInOrder(task, log, now) /\ Push(task)
         /\ \A p \in Stamped' :
              \/ p \in Stamped /\ poster'[p] = poster[p]
              \/ poster'[p].task \in TaskType /\ StampedInOrder(poster'[p].task, log, now)
<1>1. CASE UNCHANGED poster /\ UNCHANGED log
  BY <1>1 DEF Stamped
<1>2. ASSUME UNCHANGED poster, NEW delay \in Delays, NEW nestable \in BOOLEAN,
             NEW closure \in Closures,
             AddToIncomingQueue(PendingTask(delay, nestable, closure))
      PROVE  /\ \E task \in TaskType : StampedInOrder(task, log, now) /\ Push(task)
             /\ \A p \in Stamped' : p \in Stamped /\ poster'[p] = poster[p]
  BY <1>2, PendingTaskInOrder DEF AddToIncomingQueue, Stamped
<1>3. CASE RunTop \/ Pump \/ Tick \/ UNCHANGED vars
  <2>1. UNCHANGED poster /\ UNCHANGED log
    BY <1>3 DEF RunTop, Tick, vars, Pump, DoWorkNotAllowed, ReloadWorkQueue,
         DoWorkEmpty, DoWorkDelayed, DoWorkDefer, DoWorkRun,
         DoDelayedWorkNothing, DoDelayedWorkNotDue, DoDelayedWorkRun,
         DoDelayedWorkDefer, DoIdleWorkRun, DoIdleWorkQuit, DoIdleWorkBlock,
         WaitReturns, TakesOldest, TakesDue, elsewhere
  <2>2. QED
    BY <1>1, <2>1
<1>4. CASE ThreadPosts
  BY <1>2, <1>4 DEF ThreadPosts, inTask
<1>5. CASE TaskQuits \/ TaskQuitsNow \/ TaskNests \/ TaskReturns
  BY <1>1, <1>5 DEF TaskQuits, TaskQuitsNow, TaskNests, TaskReturns, inTask
<1>6. ASSUME NEW p \in Posters, NEW delay \in Delays, NEW nestable \in BOOLEAN,
             NEW closure \in Closures,
             \/ ProxyPost(p, delay, nestable, closure)
             \/ LoopPost(p, delay, nestable, closure)
      PROVE  /\ log' = log
             /\ \A q \in Stamped' :
                  \/ q \in Stamped /\ poster'[q] = poster[q]
                  \/ poster'[q].task \in TaskType /\ StampedInOrder(poster'[q].task, log, now)
  <2> DEFINE task == PendingTask(delay, nestable, closure)
  <2>1. /\ poster' = [poster EXCEPT ![p] = [pc |-> "stamped", task |-> task]]
        /\ log' = log
    BY <1>6 DEF ProxyPost, LoopPost
  <2>2. task \in TaskType /\ StampedInOrder(task, log, now)
    BY PendingTaskInOrder
  <2> HIDE DEF task
  <2>3. /\ poster'[p].task = task
        /\ \A q \in Posters \ {p} : poster'[q] = poster[q]
    BY <2>1 DEF TypeOK
  <2>4. QED
    BY <2>1, <2>2, <2>3 DEF Stamped
<1>7. ASSUME NEW p \in Posters, PostPushOnly(p) \/ PostPushFirst(p)
      PROVE  /\ \E task \in TaskType : StampedInOrder(task, log, now) /\ Push(task)
             /\ \A q \in Stamped' : q \in Stamped /\ poster'[q] = poster[q]
  <2>1. p \in Stamped /\ Push(poster[p].task)
    BY <1>7 DEF PostPushOnly, PostPushFirst, Stamped
  <2>2. poster[p].task \in TaskType
    BY <2>1 DEF TypeOK, PosterType, Stamped
  <2>3. StampedInOrder(poster[p].task, log, now)
    BY <2>1 DEF StampsInv
  <2>4. poster'[p].pc # "stamped" /\ \A q \in Posters \ {p} : poster'[q] = poster[q]
    <3>1. CASE PostPushOnly(p)
      BY <3>1 DEF PostPushOnly, PostReturns, NoPost, TypeOK
    <3>2. CASE PostPushFirst(p)
      <4>1. /\ poster' = [poster EXCEPT ![p].pc = "signal"]
            /\ poster \in [Posters -> PosterType] /\ poster[p] \in PosterType
        BY <3>2 DEF PostPushFirst, TypeOK
      <4>2. poster'[p] = [poster[p] EXCEPT !.pc = "signal"]
        BY <4>1
      <4>3. poster'[p].pc = "signal"
        BY <4>1, <4>2 DEF PosterType
      <4>4. QED
        BY <4>1, <4>3
    <3>3. QED
      BY <1>7, <3>1, <3>2
  <2>5. QED
    BY <2>1, <2>2, <2>3, <2>4 DEF Stamped
<1>8. ASSUME NEW p \in Posters, PostScheduleWork(p)
      PROVE  /\ log' = log
             /\ \A q \in Stamped' : q \in Stamped /\ poster'[q] = poster[q]
  <2>1. poster'[p].pc # "stamped" /\ \A q \in Posters \ {p} : poster'[q] = poster[q]
    BY <1>8 DEF PostScheduleWork, PostReturns, NoPost, TypeOK
  <2>2. QED
    BY <1>8, <2>1 DEF PostScheduleWork, Stamped
<1>9. CASE Destroy
  <2>1. CASE DestroyBegins \/ DestroyReloads \/ DestroyUnbinds \/ DestroyEnds
    BY <1>1, <2>1 DEF DestroyBegins, DestroyReloads, DestroyUnbinds, DestroyEnds
  <2>2. CASE DestroyDeletes \/ DestroyDeletesAgain
    <3>1. DeletePendingTasks
      BY <2>2 DEF DestroyDeletes, DestroyDeletesAgain
    <3>2. QED
      BY <1>1, <1>2, <3>1 DEF DeletePendingTasks
  <2>3. QED
    BY <1>9, <2>1, <2>2 DEF Destroy
<1>10. QED
  BY <1>3, <1>4, <1>5, <1>6, <1>7, <1>8, <1>9 DEF Next, RunNext, TaskBody, Post

\* A stamp stays in order as the log and the clock grow.
LEMMA StampsLast ==
  ASSUME TypeOK, [Next]_vars, NEW r \in TaskType, StampedInOrder(r, log, now)
  PROVE  StampedInOrder(r, log', now')
<1>1. /\ now \in Nat /\ now' \in Nat /\ now <= now'
      /\ Len(log) \in Nat /\ Len(log') \in Nat /\ Len(log) <= Len(log')
      /\ \A t \in Task : log'[t] = log[t]
      /\ r.seen \in Nat /\ r.delay \in Nat /\ r.delayed_run_time \in Nat
  <2>1. log' \in Seq(TaskType)
    BY NextGrows, PushTypes DEF TypeOK
  <2>2. QED
    BY <2>1, NextGrows DEF TypeOK, TaskType
<1>2. \A u \in 1 .. r.seen : u \in Task
  BY <1>1 DEF StampedInOrder, Task
<1>3. /\ r.delay \in Delays /\ r.seen <= Len(log')
      /\ r.delay = 0 <=> r.delayed_run_time = 0
      /\ r.delayed_run_time <= now' + r.delay
  BY <1>1 DEF StampedInOrder
<1>4. \A u \in 1 .. r.seen :
        0 < log'[u].delay /\ log'[u].delay <= r.delay
          => log'[u].delayed_run_time <= r.delayed_run_time
  BY <1>1, <1>2 DEF StampedInOrder
<1>5. QED
  BY <1>3, <1>4 DEF StampedInOrder

LEMMA NextStampsInv ==
  ASSUME TypeOK, StampsInv, [Next]_vars
  PROVE  StampsInv'
<1>1. \A t \in Task : log[t] \in TaskType /\ log'[t] = log[t]
  BY NextGrows DEF TypeOK, Task
<1>2. \A t \in Task : StampedInOrder(log'[t], log', now') /\ log'[t].seen < t
  BY <1>1, StampsLast DEF StampsInv
<1>3. \A t \in Task' : StampedInOrder(log'[t], log', now') /\ log'[t].seen < t
  <2>1. CASE log' = log
    BY <1>2, <2>1 DEF Task
  <2>2. ASSUME NEW task \in TaskType, StampedInOrder(task, log, now), Push(task)
        PROVE  \A t \in Task' : StampedInOrder(log'[t], log', now') /\ log'[t].seen < t
    <3>1. /\ Len(log) \in Nat /\ log' = Append(log, task)
          /\ log'[Len(log) + 1] = task /\ Len(log') = Len(log) + 1
      BY <2>2 DEF Push, TypeOK
    <3>2. StampedInOrder(task, log', now') /\ task.seen < Len(log) + 1
      BY <2>2, <3>1, StampsLast DEF StampedInOrder, TaskType
    <3>3. Task' = Task \cup {Len(log) + 1}
      BY <3>1 DEF Task
    <3>4. QED
      BY <1>2, <3>1, <3>2, <3>3
  <2>3. QED
    BY <2>1, <2>2, NextStamps
<1>4. \A p \in Stamped' : StampedInOrder(poster'[p].task, log', now')
  <2>1. \A p \in Stamped : /\ poster[p].task \in TaskType
                          /\ StampedInOrder(poster[p].task, log, now)
    BY DEF TypeOK, PosterType, Stamped, StampsInv
  <2>2. QED
    BY <2>1, NextStamps, StampsLast
<1>5. QED
  BY <1>3, <1>4 DEF StampsInv

LEMMA StampsInvariant == Spec => []StampsInv
<1>1. Init => StampsInv
  BY DEF Init, StampsInv, Stamped, Task, NoPost
<1>2. TypeOK /\ StampsInv /\ [Next]_vars => StampsInv'
  BY NextStampsInv
<1>3. QED
  BY <1>1, <1>2, TypeCorrect, PTL DEF Spec

LEMMA BoundInvariant == Spec => []BoundInv
<1>1. Init => BoundInv
  <2>1. ASSUME Init PROVE Stamped = {} /\ Len(log) = 0
    BY <2>1 DEF Init, Stamped, NoPost
  <2>2. QED
    BY <2>1, FS_EmptySet, TasksAssumption DEF BoundInv
<1>2. TypeOK /\ BoundInv /\ [Next]_vars => BoundInv'
  <2> SUFFICES ASSUME TypeOK, BoundInv, [Next]_vars
               PROVE  BoundInv'
    OBVIOUS
  <2>1. /\ Len(log) \in Nat /\ Cardinality(Stamped) \in Nat
        /\ poster \in [Posters -> PosterType] /\ MaxTasks \in Nat
    BY FS_CardinalityType, TasksAssumption DEF TypeOK, BoundInv
  <2>2. CASE UNCHANGED <<log, poster>>
    BY <2>2 DEF BoundInv, Stamped
  <2>3. ASSUME NEW task, UNCHANGED poster, AddToIncomingQueue(task),
               Len(log) + Cardinality({p \in Posters : poster[p].pc = "stamped"})
                 < MaxTasks
        PROVE  BoundInv'
    <3>1. Len(log') = Len(log) + 1 /\ Stamped' = Stamped
      BY <2>3 DEF AddToIncomingQueue, Push, Stamped, TypeOK
    <3>2. Len(log) + Cardinality(Stamped) < MaxTasks
      BY <2>3 DEF Stamped
    <3>3. QED
      BY <2>1, <3>1, <3>2 DEF BoundInv
  <2>4. CASE RunTop \/ Pump \/ Tick \/ UNCHANGED vars
    <3>1. UNCHANGED <<log, poster>>
      BY <2>4 DEF RunTop, Tick, vars, Pump, DoWorkNotAllowed, ReloadWorkQueue,
           DoWorkEmpty, DoWorkDelayed, DoWorkDefer, DoWorkRun,
           DoDelayedWorkNothing, DoDelayedWorkNotDue, DoDelayedWorkRun,
           DoDelayedWorkDefer, DoIdleWorkRun, DoIdleWorkQuit, DoIdleWorkBlock,
           WaitReturns, TakesOldest, TakesDue, elsewhere
    <3>2. QED
      BY <2>2, <3>1
  <2>5. CASE ThreadPosts
    BY <2>3, <2>5 DEF ThreadPosts, inTask, MayPost
  <2>6. CASE TaskQuits \/ TaskQuitsNow \/ TaskNests \/ TaskReturns
    BY <2>2, <2>6 DEF TaskQuits, TaskQuitsNow, TaskNests, TaskReturns, inTask
  <2>7. ASSUME NEW p \in Posters, NEW delay \in Delays, NEW nestable \in BOOLEAN,
               NEW closure \in Closures,
               \/ ProxyPost(p, delay, nestable, closure)
               \/ LoopPost(p, delay, nestable, closure)
        PROVE  BoundInv'
    <3>1. /\ log' = log /\ poster[p].pc = "idle"
          /\ Stamped' = Stamped \cup {p}
          /\ Len(log) + Cardinality(Stamped) < MaxTasks
      BY <2>1, <2>7 DEF ProxyPost, LoopPost, MayPost, Stamped
    <3>2. p \notin Stamped
      BY <3>1 DEF Stamped
    <3>3. /\ IsFiniteSet(Stamped')
          /\ Cardinality(Stamped') = Cardinality(Stamped) + 1
      BY <3>1, <3>2, FS_AddElement DEF BoundInv
    <3>4. QED
      BY <2>1, <3>1, <3>3 DEF BoundInv
  <2>8. ASSUME NEW p \in Posters, PostPushOnly(p) \/ PostPushFirst(p)
        PROVE  BoundInv'
    <3>1. /\ p \in Stamped /\ Len(log') = Len(log) + 1
          /\ \A q \in Posters \ {p} : poster'[q] = poster[q]
      BY <2>1, <2>8 DEF PostPushOnly, PostPushFirst, PostReturns, Push, Stamped,
                       TypeOK
    <3>2. poster'[p].pc # "stamped"
      <4>1. CASE PostPushOnly(p)
        BY <2>1, <4>1 DEF PostPushOnly, PostReturns, NoPost
      <4>2. CASE PostPushFirst(p)
        <5>1. poster'[p] = [poster[p] EXCEPT !.pc = "signal"]
          BY <2>1, <4>2 DEF PostPushFirst
        <5>2. poster[p] \in PosterType
          BY <2>1
        <5>3. poster'[p].pc = "signal"
          BY <5>1, <5>2 DEF PosterType
        <5>4. QED
          BY <5>3
      <4>3. QED
        BY <2>8, <4>1, <4>2
    <3>3. Stamped' = Stamped \ {p}
      BY <3>1, <3>2 DEF Stamped
    <3>4. /\ IsFiniteSet(Stamped')
          /\ Cardinality(Stamped') = Cardinality(Stamped) - 1
      BY <3>1, <3>3, FS_RemoveElement DEF BoundInv
    <3>5. QED
      BY <2>1, <3>1, <3>4 DEF BoundInv
  <2>9. ASSUME NEW p \in Posters, PostScheduleWork(p)
        PROVE  BoundInv'
    <3>1. /\ log' = log /\ poster[p].pc = "signal"
          /\ poster' = [poster EXCEPT ![p] = NoPost]
      BY <2>9 DEF PostScheduleWork, PostReturns
    <3>2. Stamped' = Stamped
      BY <2>1, <3>1 DEF Stamped, NoPost
    <3>3. QED
      BY <3>1, <3>2 DEF BoundInv
  <2>10. CASE Destroy
    <3>1. CASE DestroyBegins \/ DestroyReloads \/ DestroyUnbinds \/ DestroyEnds
      BY <2>2, <3>1 DEF DestroyBegins, DestroyReloads, DestroyUnbinds, DestroyEnds
    <3>2. CASE DestroyDeletes \/ DestroyDeletesAgain
      <4>1. DeletePendingTasks
        BY <3>2 DEF DestroyDeletes, DestroyDeletesAgain
      <4>2. QED
        BY <2>2, <2>3, <4>1 DEF DeletePendingTasks, MayPost
    <3>3. QED
      BY <2>10, <3>1, <3>2 DEF Destroy
  <2>11. QED
    BY <2>4, <2>5, <2>6, <2>7, <2>8, <2>9, <2>10 DEF Next, RunNext, TaskBody, Post
<1>3. QED
  BY <1>1, <1>2, TypeCorrect, PTL DEF Spec

-----------------------------------------------------------------------------
(* The inductive invariant behind the order of starts.  While the loop is    *)
(* kept, tasks leave incoming_queue_ and work_queue_ in posting order, the   *)
(* delayed tasks took their sequence numbers in that order too, and a task   *)
(* that nested loops deferred had nobody left to wait for.                   *)

QueuesInOrder ==
  /\ Increasing(work_queue) /\ Increasing(incoming_queue)
  /\ \A t \in Task, u \in IncomingTasks : t \notin IncomingTasks => t < u
  /\ \A t \in Task, u \in WorkTasks :
       t \notin IncomingTasks \cup WorkTasks => t < u

\* The tasks that may still take a sequence number, and the next to be posted.
Untaken == IncomingTasks \cup WorkTasks \cup {Len(log) + 1}

\* The numbers of two delayed tasks differ by no more than the tasks posted from
\* the one to the other.
NumbersInOrder ==
  /\ \A f, e \in delayed_work_queue : f.task < e.task =>
       Ahead(f.sequence_num, e.sequence_num) \in 1 .. e.task - f.task
  /\ \A f \in delayed_work_queue, t \in Untaken :
       Ahead(f.sequence_num, next_sequence_num) \in 1 .. t - f.task

\* The nestable tasks t must not overtake.
StartsBefore(t) ==
  {u \in 1 .. log[t].seen : log[u].nestable /\ log[u].delay <= log[t].delay}

DeferredInOrder == \A t \in DeferredTasks : StartsBefore(t) \subseteq StartedTasks

OrderInv ==
  lifecycle = "alive" => QueuesInOrder /\ NumbersInOrder /\ DeferredInOrder

\* What a step of a loop that is kept does to the queues.
LEMMA KeptSteps ==
  ASSUME TypeOK, [Next]_vars, lifecycle' = "alive"
  PROVE  /\ lifecycle = "alive"
         /\ \/ UNCHANGED <<incoming_queue, queues, next_sequence_num, log, started>>
            \/ /\ \E task \in TaskType : Push(task)
               /\ UNCHANGED <<queues, next_sequence_num, started>>
            \/ ReloadWorkQueue
            \/ DoWorkDelayed \/ DoWorkDefer \/ DoWorkRun
            \/ DoDelayedWorkRun \/ DoDelayedWorkDefer \/ DoIdleWorkRun
<1>1. CASE Destroy
  BY <1>1 DEF Destroy, DestroyBegins, DestroyDeletes, DestroyReloads,
              DestroyDeletesAgain, DestroyUnbinds, DestroyEnds
<1>2. CASE Pump
  <2>1. lifecycle' = lifecycle
    BY <1>2 DEF Pump, DoWorkNotAllowed, ReloadWorkQueue,
         DoWorkEmpty, DoWorkDelayed, DoWorkDefer, DoWorkRun,
         DoDelayedWorkNothing, DoDelayedWorkNotDue, DoDelayedWorkRun,
         DoDelayedWorkDefer, DoIdleWorkRun, DoIdleWorkQuit, DoIdleWorkBlock,
         WaitReturns, TakesOldest, TakesDue, elsewhere, teardown
  <2>2. \/ UNCHANGED <<incoming_queue, queues, next_sequence_num, log, started>>
        \/ ReloadWorkQueue
        \/ DoWorkDelayed \/ DoWorkDefer \/ DoWorkRun
        \/ DoDelayedWorkRun \/ DoDelayedWorkDefer \/ DoIdleWorkRun
    BY <1>2 DEF Pump, DoWorkNotAllowed, DoWorkEmpty, DoDelayedWorkNothing,
         DoDelayedWorkNotDue, DoIdleWorkQuit, DoIdleWorkBlock, WaitReturns,
         elsewhere
  <2>3. QED
    BY <2>1, <2>2
<1>3. CASE RunTop \/ TaskBody \/ (\E p \in Posters : Post(p)) \/ Tick \/ UNCHANGED vars
  <2>1. lifecycle' = lifecycle /\ UNCHANGED <<queues, next_sequence_num, started>>
    BY <1>3 DEF RunTop, elsewhere, TaskBody, ThreadPosts, TaskQuits, TaskQuitsNow,
         TaskNests, TaskReturns, inTask, Post, ProxyPost, LoopPost, PostPushOnly,
         PostPushFirst, PostScheduleWork, loopUnchanged, teardown, Tick, vars
  <2>2. \/ log' = log /\ incoming_queue' = incoming_queue
        \/ log' # log
    <3>1. CASE TaskBody
      <4>1. CASE ThreadPosts
        <5>1. \E task : log' = Append(log, task)
          BY <4>1 DEF ThreadPosts, AddToIncomingQueue, Push
        <5>2. QED
          BY <5>1 DEF TypeOK
      <4>2. QED
        BY <3>1, <4>1 DEF TaskBody, TaskQuits, TaskQuitsNow, TaskNests, TaskReturns
    <3>2. CASE \E p \in Posters : Post(p)
      BY <3>2 DEF Post, ProxyPost, LoopPost, PostPushOnly, PostPushFirst,
           PostScheduleWork, Push, TypeOK
    <3>3. CASE RunTop \/ Tick \/ UNCHANGED vars
      BY <3>3 DEF RunTop, Tick, vars, elsewhere
    <3>4. QED
      BY <1>3, <3>1, <3>2, <3>3
  <2>3. QED
    BY <2>1, <2>2, NextGrows
<1>4. QED
  BY <1>1, <1>2, <1>3 DEF Next, RunNext

\* Where a task is, and what that says of it.
LEMMA PlacesOfQueues ==
  ASSUME TypeOK, PlacesInv
  PROVE  /\ IncomingTasks \subseteq Task /\ WorkTasks \subseteq Task
         /\ DeferredTasks \subseteq Task /\ StartedTasks \subseteq Task
         /\ \A e \in delayed_work_queue :
              /\ e.task \in Task /\ e.task \notin IncomingTasks \cup WorkTasks
              /\ e.sequence_num \in SequenceNum
         /\ next_sequence_num \in SequenceNum
         /\ Len(log) \in Nat /\ Task = 1 .. Len(log)
<1>1. \A e \in delayed_work_queue : e.task \in DelayedTasks
  BY DEF DelayedTasks
<1>2. QED
  BY <1>1 DEF PlacesInv, Divided, Divide, TypeOK, SequenceNum, Task

\* The queues stay in order when the task of least number leaves work_queue_.
LEMMA WorkLeavesInOrder ==
  ASSUME TypeOK, PlacesInv, QueuesInOrder, TakesOldest
  PROVE  /\ QueuesInOrder'
         /\ \A t \in WorkTasks' \cup IncomingTasks' : Head(work_queue) < t
<1>1. /\ Head(work_queue) \in WorkTasks /\ Head(work_queue) \in Task
      /\ WorkTasks' = WorkTasks \ {Head(work_queue)}
      /\ work_queue' = Tail(work_queue) /\ work_queue # <<>>
      /\ incoming_queue' = incoming_queue /\ log' = log
  BY WorkLeaves DEF TakesOldest, elsewhere
<1>2. IncomingTasks' = IncomingTasks /\ Task' = Task
  BY <1>1 DEF IncomingTasks, Task
<1>3. work_queue \in Seq(Nat) /\ Task \subseteq Nat
  BY DEF TypeOK, Task
<1>4. /\ Increasing(work_queue')
      /\ \A t \in WorkTasks' : Head(work_queue) < t
  BY <1>1, <1>3, IncreasingTail DEF QueuesInOrder, WorkTasks
<1>5. Head(work_queue) \notin IncomingTasks
  BY <1>1 DEF PlacesInv, Divided, Divide
<1>6. \A t \in IncomingTasks' : Head(work_queue) < t
  BY <1>1, <1>2, <1>5 DEF QueuesInOrder
<1>7. QueuesInOrder'
  BY <1>1, <1>2, <1>4, <1>6 DEF QueuesInOrder
<1>8. QED
  BY <1>4, <1>6, <1>7

LEMMA NextQueues ==
  ASSUME TypeOK, PlacesInv, QueuesInOrder, [Next]_vars, lifecycle' = "alive"
  PROVE  QueuesInOrder'
<1>1. CASE UNCHANGED <<incoming_queue, work_queue, log>>
  BY <1>1 DEF QueuesInOrder, IncomingTasks, WorkTasks, Task
<1>2. ASSUME NEW task \in TaskType, Push(task), UNCHANGED work_queue
      PROVE  QueuesInOrder'
  <2>1. /\ Len(log) \in Nat /\ incoming_queue \in Seq(Nat)
        /\ incoming_queue' = Append(incoming_queue, Len(log) + 1)
        /\ \A t \in Task : t \in Nat /\ t < Len(log) + 1
    BY <1>2 DEF Push, TypeOK, Task
  <2>2. /\ IncomingTasks' = IncomingTasks \cup {Len(log) + 1}
        /\ Task' = Task \cup {Len(log) + 1}
    BY <1>2, PushPlaces
  <2>3. IncomingTasks \subseteq Task /\ WorkTasks \subseteq Task
    BY PlacesOfQueues
  <2>4. \A t \in ToSet(incoming_queue) : t < Len(log) + 1
    BY <2>1, <2>3 DEF IncomingTasks, ToSet
  <2>5. Increasing(incoming_queue')
    BY <2>1, <2>4, IncreasingAppend DEF QueuesInOrder
  <2>6. WorkTasks' = WorkTasks
    BY <1>2 DEF WorkTasks
  <2>7. \A t \in Task', u \in IncomingTasks' : t \notin IncomingTasks' => t < u
    BY <2>1, <2>2, <2>3 DEF QueuesInOrder
  <2>8. \A t \in Task', u \in WorkTasks' :
          t \notin IncomingTasks' \cup WorkTasks' => t < u
    BY <2>2, <2>6 DEF QueuesInOrder
  <2>9. QED
    BY <1>2, <2>5, <2>7, <2>8 DEF QueuesInOrder
<1>3. CASE ReloadWorkQueue
  <2>1. /\ work_queue' = incoming_queue /\ incoming_queue' = <<>> /\ log' = log
    BY <1>3 DEF ReloadWorkQueue, elsewhere
  <2>2. WorkTasks' = IncomingTasks /\ IncomingTasks' = {} /\ Task' = Task
    BY <2>1 DEF WorkTasks, IncomingTasks, ToSet, Task
  <2>3. QED
    BY <2>1, <2>2 DEF QueuesInOrder, Increasing
<1>4. CASE DoWorkDelayed \/ DoWorkDefer \/ DoWorkRun
  BY <1>4, WorkLeavesInOrder DEF DoWorkDelayed, DoWorkDefer, DoWorkRun
<1>5. CASE DoDelayedWorkRun \/ DoDelayedWorkDefer \/ DoIdleWorkRun
  BY <1>1, <1>5 DEF DoDelayedWorkRun, DoDelayedWorkDefer, TakesDue, DoIdleWorkRun,
                    elsewhere
<1>6. QED
  BY <1>1, <1>2, <1>3, <1>4, <1>5, KeptSteps DEF queues

\* The number a delayed task takes is ahead of all others, and the next one is
\* ahead of them by one more.
LEMMA NextNumber ==
  ASSUME TypeOK, PlacesInv, BoundInv, QueuesInOrder, NumbersInOrder, DoWorkDelayed
  PROVE  NumbersInOrder'
<1> DEFINE h == Head(work_queue)
           n == next_sequence_num
<1>1. /\ delayed_work_queue' = delayed_work_queue \cup {Delayed(h)}
      /\ n' = (n + 1) % SequenceModulus
      /\ TakesOldest
      /\ incoming_queue' = incoming_queue /\ log' = log
  BY DEF DoWorkDelayed, AddToDelayedWorkQueue, TakesOldest, elsewhere
<1>2. h \in WorkTasks /\ h \in Task /\ WorkTasks' = WorkTasks \ {h}
  BY <1>1, WorkLeaves
<1>3. \A t \in WorkTasks' \cup IncomingTasks' : h < t
  BY <1>1, WorkLeavesInOrder
<1>4. /\ Len(log) \in Nat /\ Task = 1 .. Len(log) /\ n \in SequenceNum
      /\ IncomingTasks' = IncomingTasks /\ IncomingTasks \subseteq Task
      /\ WorkTasks \subseteq Task
  BY <1>1, PlacesOfQueues DEF IncomingTasks
<1>5. Delayed(h).task = h /\ Delayed(h).sequence_num = n
  BY DEF Delayed
<1> HIDE DEF h, n
<1>6. \A t \in Untaken' : t \in Nat /\ h < t /\ t \in Untaken
  BY <1>1, <1>2, <1>3, <1>4 DEF Untaken
<1>7. \A f \in delayed_work_queue :
        /\ f.task \in Task /\ f.task < h /\ f.sequence_num \in SequenceNum
        /\ Ahead(f.sequence_num, n) \in 1 .. h - f.task
  BY <1>2, PlacesOfQueues DEF QueuesInOrder, NumbersInOrder, Untaken, n
<1>8. /\ MaxTasks \in Nat /\ Len(log) <= MaxTasks /\ 1 < SequenceModulus
      /\ MaxTasks <= SequenceModulus - 1 /\ SequenceModulus \in Nat
  <2>1. Cardinality(Stamped) \in Nat
    BY FS_CardinalityType DEF BoundInv
  <2>2. MaxTasks \in Nat /\ Len(log) <= MaxTasks /\ 1 <= Len(log)
    BY <1>2, <1>4, <2>1, TasksAssumption DEF BoundInv
  <2>3. QED
    BY <1>4, <2>2, MaxTasksFit, SequenceAssumption
<1>9. \A f \in delayed_work_queue :
        Ahead(f.sequence_num, n') = Ahead(f.sequence_num, n) + 1
  <2> TAKE f \in delayed_work_queue
  <2>1. Ahead(f.sequence_num, n) < SequenceModulus - 1
    BY <1>2, <1>4, <1>7, <1>8
  <2>2. QED
    BY <1>1, <1>4, <1>7, <2>1, AheadGrows
<1>10. Ahead(n, n') = 1
  <2>1. Ahead(n, n) = 0
    <3>1. Ahead(n, n) = n - n
      BY <1>4, AheadIs DEF SequenceNum
    <3>2. QED
      BY <1>4, <3>1 DEF SequenceNum
  <2>2. QED
    BY <1>1, <1>4, <1>8, <2>1, AheadGrows
<1>11. \A f, e \in delayed_work_queue' : f.task < e.task =>
         Ahead(f.sequence_num, e.sequence_num) \in 1 .. e.task - f.task
  <2> TAKE f, e \in delayed_work_queue'
  <2> HAVE f.task < e.task
  <2>1. CASE f \in delayed_work_queue /\ e \in delayed_work_queue
    BY <2>1 DEF NumbersInOrder
  <2>2. CASE f \in delayed_work_queue /\ e = Delayed(h)
    BY <1>5, <1>7, <2>2
  <2>3. CASE f = Delayed(h) /\ e \in delayed_work_queue
    BY <1>2, <1>4, <1>5, <1>7, <2>3
  <2>4. CASE f = Delayed(h) /\ e = Delayed(h)
    BY <1>2, <1>4, <1>5, <2>4
  <2>5. QED
    BY <1>1, <2>1, <2>2, <2>3, <2>4
<1>12. \A f \in delayed_work_queue', t \in Untaken' :
         Ahead(f.sequence_num, n') \in 1 .. t - f.task
  <2> TAKE f \in delayed_work_queue', t \in Untaken'
  <2>1. CASE f \in delayed_work_queue
    <3>1. /\ Ahead(f.sequence_num, n) \in 1 .. h - f.task
          /\ Ahead(f.sequence_num, n') = Ahead(f.sequence_num, n) + 1
          /\ h \in Nat /\ t \in Nat /\ h < t /\ f.task \in Nat
      BY <1>2, <1>4, <1>6, <1>7, <1>9, <2>1
    <3>2. QED
      BY <3>1
  <2>2. CASE f = Delayed(h)
    BY <1>2, <1>4, <1>5, <1>6, <1>10, <2>2
  <2>3. QED
    BY <1>1, <2>1, <2>2
<1>13. QED
  BY <1>11, <1>12 DEF NumbersInOrder, n

LEMMA NextNumbers ==
  ASSUME TypeOK, PlacesInv, BoundInv, QueuesInOrder, NumbersInOrder, [Next]_vars,
         lifecycle' = "alive"
  PROVE  NumbersInOrder'
<1>1. /\ Len(log) \in Nat /\ \A t \in Untaken : t \in Nat
      /\ \A f \in delayed_work_queue : f.task \in Nat
  BY PlacesOfQueues DEF Untaken
<1>2. ASSUME delayed_work_queue' \subseteq delayed_work_queue,
             UNCHANGED next_sequence_num,
             \A t \in Untaken' : t \in Nat /\ \E u \in Untaken : u <= t
      PROVE  NumbersInOrder'
  <2>1. ASSUME NEW f \in delayed_work_queue', NEW t \in Untaken'
        PROVE  Ahead(f.sequence_num, next_sequence_num') \in 1 .. t - f.task
    <3>1. PICK u \in Untaken : u <= t
      BY <1>2
    <3>2. Ahead(f.sequence_num, next_sequence_num) \in 1 .. u - f.task
      BY <1>2 DEF NumbersInOrder
    <3>3. u \in Nat /\ t \in Nat /\ f.task \in Nat
      BY <1>1, <1>2
    <3>4. QED
      BY <1>2, <3>1, <3>2, <3>3
  <2>2. QED
    BY <1>2, <2>1 DEF NumbersInOrder
<1>3. ASSUME Untaken' \subseteq Untaken
      PROVE  \A t \in Untaken' : t \in Nat /\ \E u \in Untaken : u <= t
  BY <1>1, <1>3
<1>4. CASE UNCHANGED <<incoming_queue, queues, next_sequence_num, log, started>>
  <2>1. Untaken' = Untaken
    BY <1>4 DEF Untaken, IncomingTasks, WorkTasks, queues
  <2>2. QED
    BY <1>2, <1>3, <1>4, <2>1 DEF queues
<1>5. ASSUME NEW task \in TaskType, Push(task), UNCHANGED <<queues, next_sequence_num>>
      PROVE  NumbersInOrder'
  <2>1. /\ IncomingTasks' = IncomingTasks \cup {Len(log) + 1}
        /\ WorkTasks' = WorkTasks /\ Len(log') = Len(log) + 1
    BY <1>1, <1>5, PushPlaces DEF queues, WorkTasks, Push, TypeOK
  <2>2. Untaken' = Untaken \cup {Len(log) + 2}
    BY <1>1, <2>1 DEF Untaken
  <2>3. \A t \in Untaken' : t \in Nat /\ \E u \in Untaken : u <= t
    <3>1. Len(log) + 1 \in Untaken /\ Len(log) + 1 <= Len(log) + 2
      BY <1>1 DEF Untaken
    <3>2. QED
      BY <1>1, <2>2, <3>1
  <2>4. QED
    BY <1>2, <1>5, <2>3 DEF queues
<1>6. CASE ReloadWorkQueue
  <2>1. /\ work_queue' = incoming_queue /\ incoming_queue' = work_queue
        /\ UNCHANGED <<log, delayed_work_queue, next_sequence_num>>
    BY <1>6 DEF ReloadWorkQueue, elsewhere
  <2>2. Untaken' \subseteq Untaken
    BY <2>1 DEF Untaken, IncomingTasks, WorkTasks, ToSet
  <2>3. QED
    BY <1>2, <1>3, <2>1, <2>2
<1>7. CASE DoWorkDelayed
  BY <1>7, NextNumber
<1>8. CASE DoWorkDefer \/ DoWorkRun
  <2>1. /\ WorkTasks' \subseteq WorkTasks
        /\ UNCHANGED <<log, incoming_queue, delayed_work_queue, next_sequence_num>>
    BY <1>8, WorkLeaves DEF DoWorkDefer, DoWorkRun, TakesOldest, elsewhere
  <2>2. Untaken' \subseteq Untaken
    BY <2>1 DEF Untaken, IncomingTasks
  <2>3. QED
    BY <1>2, <1>3, <2>1, <2>2
<1>9. CASE DoDelayedWorkRun \/ DoDelayedWorkDefer \/ DoIdleWorkRun
  <2>1. /\ UNCHANGED <<log, incoming_queue, work_queue, next_sequence_num>>
        /\ delayed_work_queue' \subseteq delayed_work_queue
    BY <1>9 DEF DoDelayedWorkRun, DoDelayedWorkDefer, TakesDue, DoIdleWorkRun,
                elsewhere
  <2>2. Untaken' \subseteq Untaken
    BY <2>1 DEF Untaken, IncomingTasks, WorkTasks
  <2>3. QED
    BY <1>2, <1>3, <2>1, <2>2
<1>10. QED
  BY <1>4, <1>5, <1>6, <1>7, <1>8, <1>9, KeptSteps

\* A task that an earlier, nestable one with no higher delay can still wait behind
\* is not taken: the earlier one is not among the tasks queued for the first time,
\* deferred or deleted.
LEMMA EarlierTasks ==
  ASSUME TypeOK, PlacesInv, KeptInv, StampsInv, QueuesInOrder, lifecycle = "alive",
         NEW t \in Task, t \notin IncomingTasks, NEW u \in StartsBefore(t),
         t \in WorkTasks => \A w \in WorkTasks : t <= w
  PROVE  /\ u \in Task /\ u < t /\ u \in 1 .. log[t].seen
         /\ log[u].delay <= log[t].delay
         /\ u \in DelayedTasks \cup StartedTasks
<1>1. /\ u \in 1 .. log[t].seen /\ log[u].nestable
      /\ log[u].delay <= log[t].delay
  BY DEF StartsBefore
<1>2. /\ Len(log) \in Nat /\ Task = 1 .. Len(log) /\ log[t].seen \in Nat
      /\ IncomingTasks \subseteq Task /\ WorkTasks \subseteq Task
  <2>1. log[t].seen \in Nat
    BY RunTimeType DEF TaskType
  <2>2. QED
    BY <2>1, PlacesOfQueues
<1>3. log[t].seen < t
  BY DEF StampsInv
<1>4. u \in Task /\ u < t
  BY <1>1, <1>2, <1>3
<1>5. u \notin IncomingTasks
  BY <1>2, <1>4 DEF QueuesInOrder
<1>6. u \notin WorkTasks
  <2>1. CASE t \in WorkTasks
    BY <1>2, <1>4, <2>1
  <2>2. CASE t \notin WorkTasks
    BY <1>2, <1>4, <2>2 DEF QueuesInOrder
  <2>3. QED
    BY <2>1, <2>2
<1>7. u \notin DeferredTasks /\ u \notin deleted
  BY <1>1 DEF KeptInv
<1>8. u \in DelayedTasks \cup StartedTasks
  BY <1>4, <1>5, <1>6, <1>7 DEF PlacesInv, Divided, Divide
<1>9. QED
  BY <1>1, <1>4, <1>8

\* A task has no delay exactly if it has no delayed_run_time.
LEMMA DelayIsRunTime ==
  ASSUME TypeOK, StampsInv, NEW t \in Task
  PROVE  /\ log[t].delay = 0 <=> RunTime(t) = 0
         /\ log[t].delay \in Nat /\ RunTime(t) \in Nat
<1>1. log[t] \in TaskType
  BY DEF TypeOK, Task
<1>2. QED
  BY <1>1 DEF StampsInv, StampedInOrder, RunTime, TaskType

\* The tasks before one that DoWork takes and that is not delayed have started.
LEMMA HeadReady ==
  ASSUME TypeOK, PlacesInv, SleepInv, KeptInv, StampsInv, QueuesInOrder,
         lifecycle = "alive", TakesOldest, RunTime(Head(work_queue)) = 0
  PROVE  StartsBefore(Head(work_queue)) \subseteq StartedTasks
<1> DEFINE h == Head(work_queue)
<1>1. h \in WorkTasks /\ h \in Task /\ RunTime(h) = 0
  BY WorkLeaves
<1>2. \A w \in WorkTasks : h <= w
  <2>1. WorkTasks' = WorkTasks \ {h} /\ \A w \in WorkTasks' : h < w
    BY WorkLeaves, WorkLeavesInOrder
  <2>2. h \in Nat /\ \A w \in WorkTasks : w \in Nat
    <3>1. WorkTasks \subseteq Task /\ \A t \in Task : t \in Nat
      BY PlacesOfQueues
    <3>2. QED
      BY <1>1, <3>1
  <2> HIDE DEF h
  <2>3. ASSUME NEW w \in WorkTasks
        PROVE  h <= w
    <3>1. w = h \/ w \in WorkTasks'
      BY <2>1
    <3>2. w = h \/ h < w
      BY <2>1, <3>1
    <3>3. QED
      BY <2>2, <3>2
  <2>4. QED
    BY <2>3
<1>3. h \notin IncomingTasks
  BY <1>1 DEF PlacesInv, Divided, Divide
<1> HIDE DEF h
<1>4. ASSUME NEW u \in StartsBefore(h)
      PROVE  u \in StartedTasks
  <2>1. /\ u \in Task /\ log[u].delay <= log[h].delay
        /\ u \in DelayedTasks \cup StartedTasks
    BY <1>1, <1>2, <1>3, EarlierTasks
  <2>2. RunTime(u) = 0
    BY <1>1, <2>1, DelayIsRunTime
  <2>3. u \notin DelayedTasks
    BY <2>2 DEF SleepInv, DelayedTasks
  <2>4. QED
    BY <2>1, <2>3
<1>5. QED
  BY <1>4 DEF h

\* The tasks before the top of the delayed work queue have started.
LEMMA DueReady ==
  ASSUME TypeOK, PlacesInv, BoundInv, SleepInv, KeptInv, StampsInv, QueuesInOrder,
         NumbersInOrder, lifecycle = "alive",
         NEW e \in delayed_work_queue, IsTop(e, delayed_work_queue)
  PROVE  StartsBefore(e.task) \subseteq StartedTasks
<1> DEFINE t == e.task
<1>1. t \in Task /\ t \notin IncomingTasks /\ t \notin WorkTasks
  BY PlacesOfQueues
<1> HIDE DEF t
<1>2. ASSUME NEW u \in StartsBefore(t), u \notin StartedTasks
      PROVE  FALSE
  <2>1. /\ u \in Task /\ u < t /\ u \in 1 .. log[t].seen
        /\ log[u].delay <= log[t].delay /\ u \in DelayedTasks
    BY <1>1, <1>2, EarlierTasks
  <2>2. PICK f \in delayed_work_queue : f.task = u
    BY <2>1 DEF DelayedTasks
  <2>3. RunTime(u) # 0
    BY <2>2 DEF SleepInv
  <2>4. 0 < log[u].delay
    BY <2>1, <2>3, DelayIsRunTime
  <2>5. RunTime(u) <= RunTime(t)
    BY <1>1, <2>1, <2>4 DEF StampsInv, StampedInOrder, RunTime
  <2>6. ~Above(f, e)
    BY <2>2 DEF IsTop
  <2>7. RunTime(u) = RunTime(t)
    <3>1. ~(RunTime(u) < RunTime(t))
      BY <2>2, <2>6 DEF Above, t
    <3>2. QED
      BY <1>1, <2>1, <2>5, <3>1, DelayIsRunTime
  <2>8. Ahead(f.sequence_num, e.sequence_num) \in 1 .. t - u
    BY <2>1, <2>2 DEF NumbersInOrder, t
  <2>9. t - u \in Nat /\ t - u <= MaxTasks
    <3>1. Len(log) \in Nat /\ t \in 1 .. Len(log) /\ u \in 1 .. Len(log)
      BY <1>1, <2>1, PlacesOfQueues
    <3>2. Cardinality(Stamped) \in Nat
      BY FS_CardinalityType DEF BoundInv
    <3>3. QED
      BY <2>1, <3>1, <3>2, TasksAssumption DEF BoundInv
  <2>10. Above(f, e)
    BY <2>2, <2>7, <2>8, <2>9, AboveWhenAhead DEF t
  <2>11. QED
    BY <2>6, <2>10
<1>3. QED
  BY <1>2 DEF t

\* A task's predecessors are told by the part of the log before it.
LEMMA StartsBeforeLast ==
  ASSUME TypeOK, PlacesInv, StampsInv, [Next]_vars, NEW t \in Task
  PROVE  StartsBefore(t)' = StartsBefore(t)
<1>1. log[t].seen \in Nat /\ log[t].seen < t /\ Task = 1 .. Len(log)
      /\ Len(log) \in Nat
  <2>1. log[t].seen \in Nat
    BY RunTimeType DEF TaskType
  <2>2. QED
    BY <2>1, PlacesOfQueues DEF StampsInv
<1>2. \A u \in 1 .. log[t].seen : u \in Task
  BY <1>1
<1>3. QED
  BY <1>2, NextGrows DEF StartsBefore

LEMMA NextDeferred ==
  ASSUME TypeOK, PlacesInv, BoundInv, SleepInv, KeptInv, StampsInv, QueuesInOrder,
         NumbersInOrder, DeferredInOrder, [Next]_vars, lifecycle' = "alive"
  PROVE  DeferredInOrder'
<1>1. lifecycle = "alive"
  BY KeptSteps
<1>2. ASSUME StartedTasks \subseteq StartedTasks',
             \A t \in DeferredTasks' \ DeferredTasks :
               t \in Task /\ StartsBefore(t) \subseteq StartedTasks
      PROVE  DeferredInOrder'
  <2>1. \A t \in DeferredTasks' :
          t \in Task /\ StartsBefore(t) \subseteq StartedTasks
    BY <1>2, PlacesOfQueues DEF DeferredInOrder
  <2>2. QED
    BY <1>2, <2>1, StartsBeforeLast DEF DeferredInOrder
<1>3. ASSUME UNCHANGED started
      PROVE  StartedTasks' = StartedTasks
  BY <1>3 DEF StartedTasks
<1>4. ASSUME NEW t \in Task, RunTask(t)
      PROVE  StartedTasks \subseteq StartedTasks'
  <2>1. started \in Seq(Task) /\ started' = Append(started, t)
    BY <1>4 DEF RunTask, TypeOK
  <2>2. StartedTasks' = StartedTasks \cup {t}
    BY <2>1, AppendElements DEF StartedTasks, ToSet
  <2>3. QED
    BY <2>2
<1>5. CASE UNCHANGED <<queues, started>>
  BY <1>2, <1>3, <1>5 DEF queues, DeferredTasks
<1>6. CASE ReloadWorkQueue \/ DoWorkDelayed
  BY <1>2, <1>3, <1>6
     DEF ReloadWorkQueue, DoWorkDelayed, DeferredTasks
<1>7. CASE DoWorkDefer
  <2>1. /\ TakesOldest /\ RunTime(Head(work_queue)) = 0 /\ started' = started
        /\ deferred_queue' = Append(deferred_queue, Head(work_queue))
    BY <1>7 DEF DoWorkDefer
  <2>2. Head(work_queue) \in WorkTasks /\ Head(work_queue) \in Task
    BY <2>1, WorkLeaves
  <2>3. Head(work_queue) \notin DeferredTasks
    BY <2>2 DEF PlacesInv, Divided, Divide
  <2>4. DeferredTasks' = DeferredTasks \cup {Head(work_queue)}
    BY <2>1, <2>2, <2>3, Defers
  <2>5. StartsBefore(Head(work_queue)) \subseteq StartedTasks
    BY <1>1, <2>1, HeadReady
  <2>6. QED
    BY <1>2, <1>3, <2>1, <2>2, <2>4, <2>5
<1>8. CASE DoWorkRun
  <2>1. /\ TakesOldest /\ RunTask(Head(work_queue))
        /\ deferred_queue' = deferred_queue
    BY <1>8 DEF DoWorkRun
  <2>2. Head(work_queue) \in Task
    BY <2>1, WorkLeaves
  <2>3. QED
    BY <1>2, <1>4, <2>1, <2>2 DEF DeferredTasks
<1>9. CASE DoDelayedWorkRun
  <2>1. PICK e \in delayed_work_queue :
          RunTask(e.task) /\ deferred_queue' = deferred_queue
    BY <1>9 DEF DoDelayedWorkRun
  <2>2. e.task \in Task
    BY PlacesOfQueues
  <2>3. QED
    BY <1>2, <1>4, <2>1, <2>2 DEF DeferredTasks
<1>10. CASE DoDelayedWorkDefer
  <2>1. PICK e \in delayed_work_queue :
          /\ TakesDue(e) /\ started' = started
          /\ deferred_queue' = Append(deferred_queue, e.task)
    BY <1>10 DEF DoDelayedWorkDefer
  <2>2. IsTop(e, delayed_work_queue)
    BY <2>1 DEF TakesDue
  <2>3. e.task \in DelayedTasks /\ e.task \in Task
    BY <2>1, DelayedLeaves
  <2>4. e.task \notin DeferredTasks
    BY <2>3 DEF PlacesInv, Divided, Divide
  <2>5. DeferredTasks' = DeferredTasks \cup {e.task}
    BY <2>1, <2>3, <2>4, Defers
  <2>6. StartsBefore(e.task) \subseteq StartedTasks
    BY <1>1, <2>2, DueReady
  <2>7. QED
    BY <1>2, <1>3, <2>1, <2>3, <2>5, <2>6
<1>11. CASE DoIdleWorkRun
  <2>1. /\ RunTask(Head(deferred_queue)) /\ deferred_queue # <<>>
        /\ deferred_queue' = Tail(deferred_queue)
    BY <1>11 DEF DoIdleWorkRun, DeferredCanRun
  <2>2. /\ Head(deferred_queue) \in Task
        /\ DeferredTasks' = DeferredTasks \ {Head(deferred_queue)}
    BY <2>1, DeferredLeaves
  <2>3. QED
    BY <1>2, <1>4, <2>1, <2>2
<1>12. QED
  BY <1>5, <1>6, <1>7, <1>8, <1>9, <1>10, <1>11, KeptSteps

LEMMA OrderInvariant == Spec => []OrderInv
<1>1. Init => OrderInv
  BY DEF Init, OrderInv, QueuesInOrder, NumbersInOrder, DeferredInOrder, Increasing,
         IncomingTasks, WorkTasks, DeferredTasks, ToSet
<1>2. TypeOK /\ PlacesInv /\ BoundInv /\ SleepInv /\ DrainInv /\ StampsInv
        /\ OrderInv /\ [Next]_vars => OrderInv'
  BY KeptSteps, NextQueues, NextNumbers, NextDeferred DEF OrderInv, DrainInv
<1>3. QED
  BY <1>1, <1>2, TypeCorrect, PlacesInvariant, BoundInvariant, SleepInvariant,
     DrainInvariant, StampsInvariant, PTL DEF Spec

-----------------------------------------------------------------------------
(* The refinement: what SequencedTaskRunner knows of the tasks posted ...   *)

LEMMA PostedSame ==
  ASSUME log' = log
  PROVE  PostedTasks' = PostedTasks
BY DEF PostedTasks, Task

LEMMA PostedLength ==
  ASSUME TypeOK
  PROVE  /\ Len(PostedTasks) = Len(log)
         /\ \A t \in Task : /\ PostedTasks[t].delay = log[t].delay
                            /\ PostedTasks[t].nestable = log[t].nestable
                            /\ PostedTasks[t].seen = log[t].seen
<1>1. Len(log) \in Nat
  BY DEF TypeOK
<1>2. PostedTasks \in Seq({PostedTasks[t] : t \in Task}) /\ DOMAIN PostedTasks = 1 .. Len(log)
  BY <1>1 DEF PostedTasks, Task
<1>3. QED
  BY <1>1, <1>2 DEF PostedTasks

LEMMA PostedGrows ==
  ASSUME TypeOK, NEW task \in TaskType, StampedInOrder(task, log, now), Push(task)
  PROVE  \E delay \in Delays, nestable \in BOOLEAN, seen \in 0 .. Len(PostedTasks) :
           PostedTasks' = Append(PostedTasks, [delay |-> delay, nestable |-> nestable,
                                               seen |-> seen])
<1> DEFINE r == [delay |-> task.delay, nestable |-> task.nestable, seen |-> task.seen]
<1>1. /\ Len(log) \in Nat /\ log' = Append(log, task)
      /\ Len(log') = Len(log) + 1 /\ log'[Len(log) + 1] = task
      /\ \A t \in 1 .. Len(log) : log'[t] = log[t]
  BY DEF Push, TypeOK
<1>2. /\ task.delay \in Delays /\ task.nestable \in BOOLEAN
      /\ task.seen \in 0 .. Len(log)
  BY <1>1 DEF StampedInOrder, TaskType
<1>3. Len(PostedTasks) = Len(log) /\ DOMAIN PostedTasks = 1 .. Len(log)
  BY PostedLength DEF PostedTasks, Task
<1>4. PostedTasks' = Append(PostedTasks, r)
  <2>1. /\ PostedTasks' = [t \in 1 .. Len(log) + 1 |->
                            [delay |-> log'[t].delay, nestable |-> log'[t].nestable,
                             seen |-> log'[t].seen]]
        /\ PostedTasks = [t \in 1 .. Len(log) |->
                            [delay |-> log[t].delay, nestable |-> log[t].nestable,
                             seen |-> log[t].seen]]
    BY <1>1 DEF PostedTasks, Task
  <2>2. Append(PostedTasks, r)
          = [t \in 1 .. Len(log) + 1 |-> IF t = Len(log) + 1 THEN r ELSE PostedTasks[t]]
    BY <1>1, <1>3
  <2>3. \A t \in 1 .. Len(log) + 1 :
          [delay |-> log'[t].delay, nestable |-> log'[t].nestable, seen |-> log'[t].seen]
            = IF t = Len(log) + 1 THEN r ELSE PostedTasks[t]
    BY <1>1, <2>1
  <2>4. QED
    BY <2>1, <2>2, <2>3
<1>5. QED
  BY <1>2, <1>3, <1>4

-----------------------------------------------------------------------------
(* ... and of those that run.                                              *)

LEMMA RunningLength ==
  ASSUME TypeOK
  PROVE  /\ RunningDepth \in Nat /\ Len(RunningTasks) = RunningDepth
         /\ RunningDepth = 0 <=> RunningTasks = <<>>
<1>1. depth \in Nat /\ (InTask => depth > 0)
  BY DEF TypeOK, InTask
<1>2. RunningDepth \in Nat
  BY <1>1 DEF RunningDepth
<1>3. RunningTasks \in Seq({frame[d].task : d \in 1 .. RunningDepth})
      /\ DOMAIN RunningTasks = 1 .. RunningDepth
  BY <1>2 DEF RunningTasks
<1>4. QED
  BY <1>2, <1>3

LEMMA RunningSame ==
  ASSUME RunningDepth' = RunningDepth,
         \A d \in 1 .. RunningDepth : frame'[d].task = frame[d].task
  PROVE  RunningTasks' = RunningTasks
BY DEF RunningTasks

\* The frame that is entered runs no task yet, and the one below it does.
LEMMA EnteredRunning ==
  ASSUME TypeOK, NEW quit \in BOOLEAN, NEW allowed \in BOOLEAN,
         EnterRun(quit, allowed), depth = 0 \/ InTask
  PROVE  RunningTasks' = RunningTasks
<1>1. /\ depth \in Nat /\ depth + 1 \in 1 .. MaxDepth /\ depth' = depth + 1
      /\ frame' = [frame EXCEPT ![depth + 1] = NewFrame(quit, allowed)]
  BY DepthAssumption DEF TypeOK, EnterRun
<1>2. Top' = NewFrame(quit, allowed)
      /\ \A d \in 1 .. depth : frame'[d] = frame[d]
  BY <1>1 DEF TypeOK, Top
<1>3. ~InTask'
  BY <1>2 DEF InTask, NewFrame
<1>4. RunningDepth' = depth /\ RunningDepth = depth
  BY <1>1, <1>3 DEF RunningDepth
<1>5. QED
  BY <1>2, <1>4, RunningSame

\* Run returns to the task that called it, or out of the loop.
LEMMA LeftRunning ==
  ASSUME TypeOK, StackInv, depth > 0, NEW allowed, LeaveRun(allowed)
  PROVE  /\ RunningDepth' = depth - 1
         /\ \A d \in 1 .. depth - 1 : frame'[d] = frame[d]
<1>1. /\ depth \in 1 .. MaxDepth /\ depth' = depth - 1
      /\ frame' = [frame EXCEPT ![depth] = NoFrame]
  BY DEF TypeOK, LeaveRun
<1>2. \A d \in 1 .. depth - 1 : frame'[d] = frame[d]
  BY <1>1 DEF TypeOK
<1>3. depth' > 0 => Top' = frame[depth - 1] /\ frame[depth - 1].task # 0
  BY <1>1, <1>2 DEF Top, StackInv, Suspended
<1>4. depth' > 0 => InTask'
  BY <1>3 DEF InTask
<1>5. depth' = 0 \/ InTask'
  BY <1>1, <1>4
<1>6. QED
  BY <1>1, <1>2, <1>5 DEF RunningDepth

\* A call of the delegate returns: no task runs in its frame any more.
LEMMA ReturnedRunning ==
  ASSUME TypeOK, StackInv, depth > 0, NEW did, NEW allowed, Returns(did, allowed)
  PROVE  /\ RunningDepth' = depth - 1
         /\ \A d \in 1 .. depth - 1 : frame'[d] = frame[d]
<1>1. CASE LeaveRun(allowed)
  BY <1>1, LeftRunning
<1>2. CASE keep_running
  <2>1. /\ depth \in 1 .. MaxDepth /\ depth' = depth
        /\ frame' = [frame EXCEPT ![depth] =
             [@ EXCEPT !.pc = NextCall(did), !.task = 0,
                       !.did_work = (did /\ Top.pc = "DoWork")]]
    BY <1>2 DEF TypeOK, Returns
  <2>2. /\ Top' = [frame[depth] EXCEPT !.pc = NextCall(did), !.task = 0,
                                      !.did_work = (did /\ Top.pc = "DoWork")]
        /\ \A d \in 1 .. depth - 1 : frame'[d] = frame[d]
    BY <2>1 DEF TypeOK, Top
  <2>3. Top'.task = 0
    <3>1. frame[depth] \in FrameType
      BY <2>1 DEF TypeOK
    <3>2. QED
      BY <2>2, <3>1 DEF FrameType
  <2>4. ~InTask'
    BY <2>3 DEF InTask
  <2>5. QED
    BY <2>1, <2>2, <2>4 DEF RunningDepth
<1>3. QED
  BY <1>1, <1>2 DEF Returns

LEMMA FalseRunning ==
  ASSUME TypeOK, StackInv, depth > 0, Top.task = 0, NEW allowed,
         Returns(FALSE, allowed) \/ LeaveRun(allowed)
  PROVE  RunningTasks' = RunningTasks
<1>1. RunningDepth = depth - 1
  BY DEF RunningDepth, InTask
<1>2. QED
  BY <1>1, ReturnedRunning, LeftRunning, RunningSame

LEMMA FinishRunning ==
  ASSUME TypeOK, StackInv, InTask, Returns(TRUE, TRUE)
  PROVE  /\ RunningTasks # <<>>
         /\ RunningTasks' = SubSeq(RunningTasks, 1, Len(RunningTasks) - 1)
<1>1. depth \in Nat \ {0} /\ RunningDepth = depth
  BY DEF TypeOK, InTask, RunningDepth
<1>2. /\ RunningDepth' = depth - 1
      /\ \A d \in 1 .. depth - 1 : frame'[d] = frame[d]
  <2>1. depth > 0
    BY <1>1
  <2>2. QED
    BY <2>1, ReturnedRunning
<1>3. Len(RunningTasks) = depth /\ RunningTasks # <<>>
  BY <1>1, RunningLength
<1>4. RunningTasks' = [d \in 1 .. depth - 1 |-> frame[d].task]
  BY <1>2 DEF RunningTasks
<1>5. SubSeq(RunningTasks, 1, depth - 1) = [d \in 1 .. depth - 1 |-> frame[d].task]
  BY <1>1 DEF RunningTasks
<1>6. QED
  BY <1>3, <1>4, <1>5

LEMMA BeginRunning ==
  ASSUME TypeOK, depth > 0, Top.task = 0, NEW t \in Task, RunTask(t)
  PROVE  /\ RunningTasks' = Append(RunningTasks, t)
         /\ RunningTasks # <<>> => depth # 1
<1>1. /\ depth \in 1 .. MaxDepth /\ depth' = depth /\ t # 0
      /\ frame' = [frame EXCEPT ![depth].task = t]
  BY DEF TypeOK, RunTask, Task
<1>2. /\ Top' = [frame[depth] EXCEPT !.task = t]
      /\ \A d \in 1 .. depth - 1 : frame'[d] = frame[d]
  BY <1>1 DEF TypeOK, Top
<1>3. Top'.task = t
  <2>1. frame[depth] \in FrameType
    BY <1>1 DEF TypeOK
  <2>2. QED
    BY <1>2, <2>1 DEF FrameType
<1>4. RunningDepth' = depth /\ RunningDepth = depth - 1
  BY <1>1, <1>3 DEF RunningDepth, InTask
<1>5. RunningTasks' = [d \in 1 .. depth |-> IF d = depth THEN t ELSE frame[d].task]
  BY <1>1, <1>2, <1>3, <1>4 DEF RunningTasks, Top
<1>6. RunningTasks = [d \in 1 .. depth - 1 |-> frame[d].task]
  BY <1>4 DEF RunningTasks
<1>7. Len(RunningTasks) = depth - 1 /\ (RunningTasks # <<>> => depth # 1)
  BY <1>1, <1>4, RunningLength
<1>8. QED
  BY <1>1, <1>5, <1>6, <1>7

-----------------------------------------------------------------------------
(* Each step is a step of SequencedTaskRunner or changes nothing it knows of. *)

LEMMA RunnerPosts ==
  ASSUME TypeOK, NEW task \in TaskType, StampedInOrder(task, log, now), Push(task),
         UNCHANGED <<RunningTasks, StartedTasks, deleted>>
  PROVE  Runner!Post
BY PostedGrows DEF Runner!Post

LEMMA RunnerBegins ==
  ASSUME TypeOK, PlacesInv, StampsInv, depth > 0, Top.task = 0, NEW t \in Task,
         t \notin StartedTasks \cup deleted, MayRunNow(t),
         StartsBefore(t) \subseteq StartedTasks,
         RunTask(t), log' = log, deleted' = deleted
  PROVE  \E u \in Runner!PostedTask : Runner!Begin(u)
<1>1. /\ Len(PostedTasks) = Len(log) /\ Len(log) \in Nat /\ Task = 1 .. Len(log)
      /\ \A u \in Task : /\ PostedTasks[u].delay = log[u].delay
                         /\ PostedTasks[u].nestable = log[u].nestable
                         /\ PostedTasks[u].seen = log[u].seen
  BY PostedLength, PlacesOfQueues
<1>2. \A u \in 1 .. log[t].seen : u \in Task
  <2>1. log[t].seen < t /\ log[t].seen \in Nat
    BY RunTimeType DEF StampsInv, TaskType
  <2>2. QED
    BY <1>1, <2>1
<1>3. Runner!StartsBefore(t) = StartsBefore(t)
  BY <1>1, <1>2 DEF Runner!StartsBefore, StartsBefore
<1>4. /\ RunningTasks' = Append(RunningTasks, t)
      /\ RunningTasks # <<>> => PostedTasks[t].nestable
  BY <1>1, BeginRunning DEF MayRunNow
<1>5. StartedTasks' = StartedTasks \cup {t}
  BY Starts
<1>6. PostedTasks' = PostedTasks
  BY PostedSame
<1>7. Runner!Begin(t)
  BY <1>3, <1>4, <1>5, <1>6 DEF Runner!Begin
<1>8. QED
  BY <1>1, <1>7 DEF Runner!PostedTask

LEMMA RunnerPump ==
  ASSUME TypeOK, ControlInv, PlacesInv, BoundInv, SleepInv, DrainInv, StampsInv,
         OrderInv, Pump
  PROVE  \/ \E t \in Runner!PostedTask : Runner!Begin(t)
         \/ UNCHANGED Runner!vars
<1>1. depth > 0 /\ Top.task = 0 /\ log' = log /\ deleted' = deleted
  BY DEF Pump, DoWorkNotAllowed, ReloadWorkQueue, DoWorkEmpty, DoWorkDelayed,
         DoWorkDefer, DoWorkRun, DoDelayedWorkNothing, DoDelayedWorkNotDue,
         DoDelayedWorkRun, DoDelayedWorkDefer, DoIdleWorkRun, DoIdleWorkQuit,
         DoIdleWorkBlock, WaitReturns, TakesOldest, TakesDue, elsewhere, Calling
<1>2. /\ StackInv /\ KeptInv /\ lifecycle = "alive" /\ deleted = {}
      /\ QueuesInOrder /\ NumbersInOrder /\ DeferredInOrder
  <2>1. lifecycle = "alive"
    BY <1>1 DEF ControlInv, DestroyedOutsideRun, TypeOK
  <2>2. QED
    BY <2>1 DEF ControlInv, DrainInv, KeptInv, OrderInv
<1>3. PostedTasks' = PostedTasks
  BY <1>1, PostedSame
<1>4. ASSUME UNCHANGED <<RunningTasks, started>>
      PROVE  UNCHANGED Runner!vars
  BY <1>1, <1>3, <1>4 DEF Runner!vars, StartedTasks
<1>5. ASSUME UNCHANGED <<frame, depth>>
      PROVE  UNCHANGED RunningTasks
  BY <1>5 DEF RunningTasks, RunningDepth, InTask, Top
<1>6. ASSUME NEW pc, frame' = [frame EXCEPT ![depth].pc = pc], depth' = depth
      PROVE  UNCHANGED RunningTasks
  <2>1. depth \in 1 .. MaxDepth /\ RunningDepth = depth - 1
    BY <1>1 DEF TypeOK, RunningDepth, InTask
  <2>2. frame[depth] \in FrameType
    BY <2>1 DEF TypeOK
  <2>3. /\ Top' = [frame[depth] EXCEPT !.pc = pc]
        /\ \A d \in 1 .. depth - 1 : frame'[d] = frame[d]
    BY <1>6, <2>1 DEF TypeOK, Top
  <2>4. Top'.task = 0
    BY <1>1, <2>2, <2>3 DEF FrameType, Top
  <2>5. RunningDepth' = depth - 1
    BY <1>1, <1>6, <2>4 DEF RunningDepth, InTask
  <2>6. QED
    BY <2>1, <2>3, <2>5, RunningSame
<1>7. CASE DoWorkNotAllowed \/ DoWorkEmpty \/ DoDelayedWorkNothing
           \/ DoDelayedWorkNotDue \/ DoDelayedWorkDefer \/ DoIdleWorkQuit
  <2>1. ReturnsFalse \/ LeaveRun(nestable_tasks_allowed)
    BY <1>7 DEF DoWorkNotAllowed, DoWorkEmpty, DoDelayedWorkNothing,
                DoDelayedWorkNotDue, DoDelayedWorkDefer, DoIdleWorkQuit
  <2>2. UNCHANGED RunningTasks
    BY <1>1, <1>2, <2>1, FalseRunning DEF ReturnsFalse
  <2>3. started' = started
    BY <1>7 DEF DoWorkNotAllowed, DoWorkEmpty, DoDelayedWorkNothing,
                DoDelayedWorkNotDue, DoDelayedWorkDefer, DoIdleWorkQuit
  <2>4. QED
    BY <1>4, <2>2, <2>3
<1>8. CASE ReloadWorkQueue \/ DoWorkDelayed \/ DoWorkDefer
  BY <1>4, <1>5, <1>8 DEF ReloadWorkQueue, DoWorkDelayed, DoWorkDefer
<1>9. CASE DoIdleWorkBlock \/ WaitReturns
  <2>1. (\E pc : frame' = [frame EXCEPT ![depth].pc = pc]) /\ depth' = depth
        /\ started' = started
    BY <1>9 DEF DoIdleWorkBlock, WaitReturns
  <2>2. QED
    BY <1>4, <1>6, <2>1
<1>10. CASE DoWorkRun
  <2> DEFINE h == Head(work_queue)
  <2>1. TakesOldest /\ RunTime(h) = 0 /\ MayRunNow(h) /\ RunTask(h)
    BY <1>10 DEF DoWorkRun
  <2>2. h \in WorkTasks /\ h \in Task
    BY <2>1, WorkLeaves
  <2>3. h \notin StartedTasks \cup deleted
    BY <2>2 DEF PlacesInv, Divided, Divide
  <2>4. StartsBefore(h) \subseteq StartedTasks
    BY <1>2, <2>1, HeadReady
  <2> HIDE DEF h
  <2>5. QED
    BY <1>1, <2>1, <2>2, <2>3, <2>4, RunnerBegins
<1>11. CASE DoDelayedWorkRun
  <2>1. PICK e \in delayed_work_queue :
          TakesDue(e) /\ MayRunNow(e.task) /\ RunTask(e.task)
    BY <1>11 DEF DoDelayedWorkRun
  <2> DEFINE t == e.task
  <2>2. t \in DelayedTasks /\ t \in Task
    BY <2>1, DelayedLeaves
  <2>3. t \notin StartedTasks \cup deleted
    BY <2>2 DEF PlacesInv, Divided, Divide
  <2>4. StartsBefore(t) \subseteq StartedTasks
    BY <1>2, <2>1, DueReady DEF TakesDue
  <2>5. MayRunNow(t) /\ RunTask(t)
    BY <2>1
  <2> HIDE DEF t
  <2>6. QED
    BY <1>1, <2>2, <2>3, <2>4, <2>5, RunnerBegins
<1>12. CASE DoIdleWorkRun
  <2> DEFINE h == Head(deferred_queue)
  <2>1. /\ depth = 1 /\ deferred_queue # <<>>
        /\ deferred_queue' = Tail(deferred_queue) /\ RunTask(h)
    BY <1>12 DEF DoIdleWorkRun, DeferredCanRun
  <2>2. h \in DeferredTasks /\ h \in Task
    BY <2>1, DeferredLeaves
  <2>3. h \notin StartedTasks \cup deleted
    BY <2>2 DEF PlacesInv, Divided, Divide
  <2>4. StartsBefore(h) \subseteq StartedTasks
    BY <1>2, <2>2 DEF DeferredInOrder
  <2> HIDE DEF h
  <2>5. QED
    BY <1>1, <2>1, <2>2, <2>3, <2>4, RunnerBegins DEF MayRunNow
<1>13. QED
  BY <1>7, <1>8, <1>9, <1>10, <1>11, <1>12 DEF Pump

LEMMA RunnerTaskBody ==
  ASSUME TypeOK, ControlInv, StampsInv, [Next]_vars, TaskBody
  PROVE  Runner!Post \/ Runner!Finish \/ UNCHANGED Runner!vars
<1>1. UNCHANGED <<started, deleted>> /\ UNCHANGED StartedTasks
  BY DEF TaskBody, ThreadPosts, TaskQuits, TaskQuitsNow, TaskNests, TaskReturns,
         inTask, StartedTasks
<1>2. ASSUME UNCHANGED RunningTasks, log' = log
      PROVE  UNCHANGED Runner!vars
  BY <1>1, <1>2, PostedSame DEF Runner!vars
<1>3. CASE ThreadPosts
  <2>1. PICK delay \in Delays, nestable \in BOOLEAN, closure \in Closures :
          Push(PendingTask(delay, nestable, closure))
    BY <1>3 DEF ThreadPosts, AddToIncomingQueue
  <2>2. UNCHANGED RunningTasks
    BY <1>3 DEF ThreadPosts, RunningTasks, RunningDepth, InTask, Top
  <2>3. QED
    BY <1>1, <2>1, <2>2, PendingTaskInOrder, RunnerPosts
<1>4. CASE TaskQuits
  <2>1. /\ depth \in 1 .. MaxDepth /\ InTask /\ depth' = depth /\ log' = log
        /\ frame' = [frame EXCEPT ![depth] =
             [@ EXCEPT !.quit_received = TRUE, !.quit_posted = Len(log),
                       !.quit_time = now]]
    BY <1>4 DEF TaskQuits, InTask, TypeOK
  <2>2. frame[depth] \in FrameType
    BY <2>1 DEF TypeOK
  <2>3. /\ frame'[depth] = [frame[depth] EXCEPT !.quit_received = TRUE,
                              !.quit_posted = Len(log), !.quit_time = now]
        /\ \A d \in 1 .. MaxDepth \ {depth} : frame'[d] = frame[d]
    BY <2>1 DEF TypeOK
  <2>4. frame'[depth].task = frame[depth].task
    BY <2>2, <2>3 DEF FrameType
  <2>5. RunningDepth' = depth /\ RunningDepth = depth
    BY <2>1, <2>4 DEF RunningDepth, InTask, Top
  <2>6. \A d \in 1 .. depth : frame'[d].task = frame[d].task
    <3>1. \A d \in 1 .. depth : d = depth \/ d \in 1 .. MaxDepth \ {depth}
      BY <2>1, DepthAssumption
    <3>2. QED
      BY <2>3, <2>4, <3>1
  <2>7. QED
    BY <1>2, <2>1, <2>5, <2>6, RunningSame
<1>5. CASE TaskQuitsNow
  BY <1>2, <1>5 DEF TaskQuitsNow, RunningTasks, RunningDepth, InTask, Top
<1>6. CASE TaskNests
  BY <1>2, <1>6, EnteredRunning DEF TaskNests
<1>7. CASE TaskReturns
  <2>1. /\ RunningTasks # <<>>
        /\ RunningTasks' = SubSeq(RunningTasks, 1, Len(RunningTasks) - 1)
    BY <1>7, FinishRunning DEF TaskReturns, ControlInv
  <2>2. PostedTasks' = PostedTasks
    BY <1>7, PostedSame DEF TaskReturns
  <2>3. QED
    BY <1>1, <2>1, <2>2 DEF Runner!Finish
<1>8. QED
  BY <1>3, <1>4, <1>5, <1>6, <1>7 DEF TaskBody

LEMMA RunnerDestroy ==
  ASSUME TypeOK, ControlInv, PlacesInv, StampsInv, [Next]_vars, Destroy
  PROVE  Runner!Drop \/ UNCHANGED Runner!vars
<1>1. depth = 0 /\ UNCHANGED <<frame, depth, started>>
  BY DEF Destroy, DestroyBegins, DestroyDeletes, DestroyReloads,
         DestroyDeletesAgain, DestroyUnbinds, DestroyEnds, DeletePendingTasks,
         ControlInv, DestroyedOutsideRun
<1>2. /\ RunningTasks = <<>> /\ UNCHANGED <<RunningTasks, StartedTasks>>
  <2>1. RunningDepth = 0
    BY <1>1 DEF RunningDepth
  <2>2. RunningTasks = <<>>
    BY <2>1, RunningLength
  <2>3. QED
    BY <1>1, <2>2 DEF RunningTasks, RunningDepth, InTask, Top, StartedTasks
<1>3. /\ QueuedTasks \subseteq Runner!PostedTask \ StartedTasks
      /\ IncomingTasks \subseteq Runner!PostedTask \ StartedTasks
  <2>1. QueuedTasks = WorkTasks \cup DeferredTasks \cup DelayedTasks
    BY DEF QueuedTasks, WorkTasks, DeferredTasks, DelayedTasks, ToSet
  <2>2. Runner!PostedTask = Task
    BY PostedLength DEF Runner!PostedTask, Task
  <2>3. QED
    BY <2>1, <2>2 DEF PlacesInv, Divided, Divide
<1>4. CASE DestroyBegins \/ DestroyReloads \/ DestroyUnbinds
  <2>1. log' = log /\ deleted' = deleted
    BY <1>4 DEF DestroyBegins, DestroyReloads, DestroyUnbinds
  <2>2. QED
    BY <1>2, <2>1, PostedSame DEF Runner!vars
<1>5. CASE DestroyEnds
  <2>1. log' = log /\ deleted' = deleted \cup (IncomingTasks \cup QueuedTasks)
    BY <1>5 DEF DestroyEnds, IncomingTasks
  <2>2. IncomingTasks \cup QueuedTasks \in SUBSET (Runner!PostedTask \ StartedTasks)
    BY <1>3
  <2>3. QED
    BY <1>2, <2>1, <2>2, PostedSame DEF Runner!Drop
<1>6. CASE DestroyDeletes \/ DestroyDeletesAgain
  <2>1. DeletePendingTasks
    BY <1>6 DEF DestroyDeletes, DestroyDeletesAgain
  <2>2. /\ deleted' = deleted \cup QueuedTasks
        /\ QueuedTasks \in SUBSET (Runner!PostedTask \ StartedTasks)
    BY <1>3, <2>1 DEF DeletePendingTasks
  <2>3. \/ log' = log
        \/ \E delay \in Delays, nestable \in BOOLEAN, closure \in Closures :
             Push(PendingTask(delay, nestable, closure))
    BY <2>1 DEF DeletePendingTasks, AddToIncomingQueue
  <2>4. \/ PostedTasks' = PostedTasks
        \/ \E delay \in Delays, nestable \in BOOLEAN, seen \in 0 .. Len(PostedTasks) :
             PostedTasks' = Append(PostedTasks, [delay |-> delay,
                                     nestable |-> nestable, seen |-> seen])
    BY <2>3, PostedSame, PendingTaskInOrder, PostedGrows
  <2>5. QED
    BY <1>2, <2>2, <2>4 DEF Runner!Drop
<1>7. QED
  BY <1>4, <1>5, <1>6 DEF Destroy

\* MessageLoop implements SequencedTaskRunner: no task of the loop runs twice, none
\* overtakes a nestable task posted before it with no higher delay, whichever of the
\* queues they pass through, no non-nestable task runs inside another, and none is
\* both run and deleted.
THEOREM ImplementsSequencedTaskRunnerHolds == Spec => ImplementsSequencedTaskRunner
<1>1. Init => Runner!Init
  <2> SUFFICES ASSUME Init
               PROVE  Runner!Init
    OBVIOUS
  <2>1. Task = {} /\ depth = 0 /\ StartedTasks = {} /\ deleted = {}
    BY DEF Init, Task, StartedTasks
  <2>2. RunningDepth = 0
    BY <2>1 DEF RunningDepth
  <2>3. PostedTasks = <<>> /\ RunningTasks = <<>>
    BY <2>1, <2>2 DEF PostedTasks, RunningTasks
  <2>4. QED
    BY <2>1, <2>3 DEF Runner!Init
<1>2. TypeOK /\ ControlInv /\ PlacesInv /\ BoundInv /\ SleepInv /\ DrainInv
        /\ StampsInv /\ OrderInv /\ [Next]_vars
          => [Runner!Next]_(Runner!vars)
  <2> SUFFICES ASSUME TypeOK, ControlInv, PlacesInv, BoundInv, SleepInv, DrainInv,
                      StampsInv, OrderInv, [Next]_vars
               PROVE  Runner!Next \/ UNCHANGED Runner!vars
    OBVIOUS
  <2>1. CASE RunTop
    <3>1. PICK all_pending \in BOOLEAN : EnterRun(all_pending, FALSE)
      BY <2>1 DEF RunTop
    <3>2. /\ depth = 0 /\ UNCHANGED <<started, log, deleted>>
      BY <2>1 DEF RunTop, elsewhere
    <3>3. UNCHANGED RunningTasks
      BY <3>1, <3>2, EnteredRunning
    <3>4. QED
      BY <3>2, <3>3, PostedSame DEF Runner!vars, StartedTasks
  <2>2. CASE Pump
    BY <2>2, RunnerPump DEF Runner!Next
  <2>3. CASE TaskBody
    BY <2>3, RunnerTaskBody DEF Runner!Next
  <2>4. CASE (\E p \in Posters : Post(p)) \/ Tick \/ UNCHANGED vars
    <3>1. UNCHANGED <<started, deleted, frame, depth>>
      BY <2>4 DEF Post, ProxyPost, LoopPost, PostPushOnly, PostPushFirst,
           PostScheduleWork, loopUnchanged, Tick, vars
    <3>2. UNCHANGED <<RunningTasks, StartedTasks, deleted>>
      BY <3>1 DEF RunningTasks, RunningDepth, InTask, Top, StartedTasks
    <3>3. CASE log' = log
      BY <3>2, <3>3, PostedSame DEF Runner!vars
    <3>4. CASE \E task \in TaskType : StampedInOrder(task, log, now) /\ Push(task)
      BY <3>2, <3>4, RunnerPosts DEF Runner!Next
    <3>5. QED
      BY <3>3, <3>4, NextStamps
  <2>5. CASE Destroy
    BY <2>5, RunnerDestroy DEF Runner!Next
  <2>6. QED
    BY <2>1, <2>2, <2>3, <2>4, <2>5 DEF Next, RunNext
<1>3. QED
  BY <1>1, <1>2, TypeCorrect, ControlInvariant, PlacesInvariant, BoundInvariant,
     SleepInvariant, DrainInvariant, StampsInvariant, OrderInvariant, PTL
     DEF Spec, ImplementsSequencedTaskRunner, Runner!Spec

=============================================================================
