-------------------------- MODULE MessageLoopProofs --------------------------
(***************************************************************************)
(* What holds of MessageLoop for every number of posting threads, tasks,   *)
(* nested loops and delays.                                                *)
(***************************************************************************)
EXTENDS MessageLoop, FiniteSetTheorems, TLAPS

USE DepthAssumption, TasksAssumption, TimeAssumption, LimitAssumption,
    SequenceAssumption, DelaysAssumption

-----------------------------------------------------------------------------
(* Pieces of the type invariant.                                           *)

\* A new posting keeps the tasks there were and adds one.
LEMMA PushTypes ==
  ASSUME TypeOK, NEW task \in TaskType, Push(task)
  PROVE  /\ log' \in Seq(TaskType) /\ Task \subseteq Task'
         /\ Len(log') = Len(log) + 1
         /\ \A t \in Task : log'[t] = log[t]
         /\ incoming_queue' \in Seq(Task')
<1>1. log \in Seq(TaskType) /\ incoming_queue \in Seq(Task)
  BY DEF TypeOK
<1>2. log' \in Seq(TaskType) /\ Len(log') = Len(log) + 1
      /\ \A t \in Task : log'[t] = log[t]
  BY <1>1 DEF Push, Task
<1>3. Task \subseteq Task' /\ Len(log) + 1 \in Task'
  BY <1>1, <1>2 DEF Task
<1>4. incoming_queue \in Seq(Task')
  BY <1>1, <1>3
<1>5. incoming_queue' = Append(incoming_queue, Len(log) + 1)
  BY DEF Push
<1>6. incoming_queue' \in Seq(Task')
  BY <1>3, <1>4, <1>5
<1>7. QED
  BY <1>2, <1>3, <1>6

LEMMA PendingTaskType ==
  ASSUME TypeOK, NEW delay \in Delays, NEW nestable \in BOOLEAN,
         NEW closure \in Closures
  PROVE  PendingTask(delay, nestable, closure) \in TaskType
BY DEF TypeOK, PendingTask, TaskType, CalculateDelayedRuntime

LEMMA NewFrameType ==
  ASSUME TypeOK, NEW quit \in BOOLEAN, NEW allowed \in BOOLEAN
  PROVE  NewFrame(quit, allowed) \in FrameType /\ NoFrame \in FrameType
BY DEF TypeOK, NewFrame, NoFrame, FrameType, PumpCalls


\* The frames, and what Run's control flow keeps with them.
StackTypes ==
  /\ depth \in 0 .. MaxDepth
  /\ frame \in [1 .. MaxDepth -> FrameType]
  /\ keep_running \in BOOLEAN
  /\ nestable_tasks_allowed \in BOOLEAN

LEMMA LeaveRunTypes ==
  ASSUME TypeOK, depth > 0, log' = log, NEW allowed \in BOOLEAN,
         LeaveRun(allowed)
  PROVE  StackTypes'
<1>1. depth \in 1 .. MaxDepth /\ FrameType' = FrameType
  BY DEF TypeOK, FrameType, Task
<1>2. NoFrame \in FrameType
  BY NewFrameType
<1>3. frame' \in [1 .. MaxDepth -> FrameType]
  BY <1>1, <1>2 DEF TypeOK, LeaveRun
<1>4. depth' \in 0 .. MaxDepth
  BY <1>1 DEF LeaveRun
<1>5. QED
  BY <1>1, <1>3, <1>4 DEF StackTypes, LeaveRun

LEMMA ReturnsTypes ==
  ASSUME TypeOK, depth > 0, log' = log, NEW did \in BOOLEAN,
         NEW allowed \in BOOLEAN, Returns(did, allowed)
  PROVE  StackTypes'
<1>1. CASE LeaveRun(allowed)
  BY <1>1, LeaveRunTypes
<1>2. CASE /\ frame' = [frame EXCEPT ![depth] =
                [@ EXCEPT !.pc = NextCall(did), !.task = 0,
                          !.did_work = (did /\ Top.pc = "DoWork")]]
           /\ nestable_tasks_allowed' = allowed
           /\ UNCHANGED <<depth, keep_running>>
  <2>1. depth \in 1 .. MaxDepth /\ FrameType' = FrameType
    BY DEF TypeOK, FrameType, Task
  <2>2. frame[depth] \in FrameType
    BY <2>1 DEF TypeOK
  <2>3. NextCall(did) \in PumpCalls
    BY DEF NextCall, PumpCalls
  <2>4. [frame[depth] EXCEPT !.pc = NextCall(did), !.task = 0,
           !.did_work = (did /\ Top.pc = "DoWork")] \in FrameType
    BY <2>2, <2>3 DEF FrameType
  <2>5. frame' \in [1 .. MaxDepth -> FrameType]
    BY <1>2, <2>1, <2>4 DEF TypeOK
  <2>6. QED
    BY <1>2, <2>1, <2>5 DEF StackTypes, TypeOK
<1>3. QED
  BY <1>1, <1>2 DEF Returns

LEMMA RunTaskTypes ==
  ASSUME TypeOK, depth > 0, log' = log, NEW t \in Task, RunTask(t)
  PROVE  StackTypes' /\ started' \in Seq(Task')
<1>1. depth \in 1 .. MaxDepth /\ FrameType' = FrameType /\ Task' = Task
  BY DEF TypeOK, FrameType, Task
<1>2. [frame[depth] EXCEPT !.task = t] \in FrameType
  <2>1. frame[depth] \in FrameType
    BY <1>1 DEF TypeOK
  <2>2. QED
    BY <2>1 DEF FrameType
<1>3. frame' \in [1 .. MaxDepth -> FrameType]
  BY <1>1, <1>2 DEF TypeOK, RunTask
<1>4. started' \in Seq(Task)
  BY DEF TypeOK, RunTask
<1>5. QED
  BY <1>1, <1>3, <1>4 DEF StackTypes, TypeOK, RunTask

LEMMA SetTopPcTypes ==
  ASSUME TypeOK, depth > 0, log' = log, NEW pc \in PumpCalls,
         frame' = [frame EXCEPT ![depth].pc = pc]
  PROVE  frame' \in [1 .. MaxDepth -> FrameType']
<1>1. depth \in 1 .. MaxDepth /\ FrameType' = FrameType
  BY DEF TypeOK, FrameType, Task
<1>2. [frame[depth] EXCEPT !.pc = pc] \in FrameType
  <2>1. frame[depth] \in FrameType
    BY <1>1 DEF TypeOK
  <2>2. QED
    BY <2>1 DEF FrameType
<1>3. QED
  BY <1>1, <1>2 DEF TypeOK

LEMMA EnterRunTypes ==
  ASSUME TypeOK, log' = log, NEW quit \in BOOLEAN, NEW allowed \in BOOLEAN,
         EnterRun(quit, allowed)
  PROVE  depth' \in 0 .. MaxDepth /\ frame' \in [1 .. MaxDepth -> FrameType']
<1>1. depth + 1 \in 1 .. MaxDepth /\ FrameType' = FrameType
  BY DEF TypeOK, EnterRun, FrameType, Task
<1>2. NewFrame(quit, allowed) \in FrameType
  BY NewFrameType
<1>3. QED
  BY <1>1, <1>2 DEF TypeOK, EnterRun

\* What names tasks keeps its type when one more has been posted.
LEMMA GrowTypes ==
  ASSUME TypeOK, NEW task \in TaskType, Push(task)
  PROVE  /\ frame \in [1 .. MaxDepth -> FrameType']
         /\ work_queue \in Seq(Task') /\ deferred_queue \in Seq(Task')
         /\ started \in Seq(Task') /\ deleted \subseteq Task'
         /\ delayed_work_queue \subseteq
              [task : Task', sequence_num : 0 .. SequenceModulus - 1]
         /\ QueuedTasks \subseteq Task'
<1>1. Task \subseteq Task'
  BY PushTypes
<1>2. FrameType \subseteq FrameType'
  <2>1. \A f \in FrameType : f \in FrameType'
    BY <1>1 DEF FrameType
  <2>2. QED
    BY <2>1
<1>3. frame \in [1 .. MaxDepth -> FrameType']
  BY <1>2 DEF TypeOK
<1>4. work_queue \in Seq(Task') /\ deferred_queue \in Seq(Task')
      /\ started \in Seq(Task')
  BY <1>1 DEF TypeOK
<1>5. \A e \in delayed_work_queue :
        e \in [task : Task', sequence_num : 0 .. SequenceModulus - 1]
  BY <1>1 DEF TypeOK
<1>6. QueuedTasks \subseteq Task
  BY DEF TypeOK, QueuedTasks
<1>7. QED
  BY <1>1, <1>3, <1>4, <1>5, <1>6 DEF TypeOK

LEMMA PostTypes ==
  ASSUME TypeOK, NEW p \in Posters, Post(p)
  PROVE  TypeOK'
<1>1. /\ \A task \in TaskType : \A pc \in {"stamped", "signal"} :
           [pc |-> pc, task |-> task] \in PosterType
      /\ NoPost \in PosterType
  BY DEF PosterType, NoPost
<1>2. ASSUME NEW delay \in Delays, NEW nestable \in BOOLEAN,
             NEW closure \in Closures,
             \/ ProxyPost(p, delay, nestable, closure)
             \/ LoopPost(p, delay, nestable, closure)
      PROVE  TypeOK'
  <2>1. PendingTask(delay, nestable, closure) \in TaskType
    BY PendingTaskType
  <2>2. poster' \in [Posters -> PosterType]
    BY <1>1, <1>2, <2>1 DEF TypeOK, ProxyPost, LoopPost
  <2>3. proxy_lock' \in Posters \cup {Nobody}
    BY <1>2 DEF TypeOK, ProxyPost, LoopPost, proxy
  <2>4. UNCHANGED <<incoming_queue, event, proxy_bound, log>> /\ loopUnchanged
    BY <1>2 DEF ProxyPost, LoopPost, proxy
  <2>5. QED
    BY <2>2, <2>3, <2>4
       DEF TypeOK, loopUnchanged, queues, teardown, FrameType, Task, PosterType
<1>3. ASSUME poster[p].pc \in {"stamped", "signal"}
      PROVE  poster[p].task \in TaskType
  BY <1>3 DEF TypeOK, PosterType
<1>4. ASSUME PostReturns(p)
      PROVE  /\ poster' \in [Posters -> PosterType]
             /\ proxy_lock' \in Posters \cup {Nobody}
  BY <1>1, <1>4 DEF TypeOK, PostReturns
<1>5. ASSUME NEW task \in TaskType, Push(task), loopUnchanged,
             poster' \in [Posters -> PosterType],
             proxy_lock' \in Posters \cup {Nobody},
             UNCHANGED <<event, proxy_bound>>
      PROVE  TypeOK'
  <2>1. PosterType' = PosterType
    BY DEF PosterType
  <2>2. QED
    BY <1>5, <2>1, PushTypes, GrowTypes
       DEF TypeOK, loopUnchanged, queues, teardown
<1>6. CASE PostPushOnly(p)
  BY <1>3, <1>4, <1>5, <1>6 DEF PostPushOnly
<1>7. CASE PostPushFirst(p)
  <2>1. [poster[p] EXCEPT !.pc = "signal"] \in PosterType
    <3>1. poster[p] \in [pc : {"stamped", "signal"}, task : TaskType]
      BY <1>7 DEF TypeOK, PosterType, PostPushFirst
    <3>2. QED
      BY <3>1 DEF PosterType
  <2>2. poster' \in [Posters -> PosterType]
    BY <1>7, <2>1 DEF TypeOK, PostPushFirst
  <2>3. QED
    BY <1>3, <1>5, <1>7, <2>2 DEF TypeOK, PostPushFirst, proxy
<1>8. CASE PostScheduleWork(p)
  <2>1. PosterType' = PosterType /\ FrameType' = FrameType /\ Task' = Task
    BY <1>8 DEF PosterType, FrameType, Task, PostScheduleWork
  <2>2. QED
    BY <1>4, <1>8, <2>1
       DEF TypeOK, PostScheduleWork, loopUnchanged, queues, teardown
<1>9. QED
  BY <1>2, <1>6, <1>7, <1>8 DEF Post

\* TypeOK of what a step leaves alone, when nothing is posted.
LEMMA NoPostTypes ==
  ASSUME TypeOK, log' = log
  PROVE  Task' = Task /\ FrameType' = FrameType /\ PosterType' = PosterType
BY DEF FrameType, PosterType, Task

LEMMA DelayedQueueTypes ==
  ASSUME TypeOK, log' = log, NEW t \in Task, AddToDelayedWorkQueue(t)
  PROVE  /\ delayed_work_queue' \subseteq
              [task : Task, sequence_num : 0 .. SequenceModulus - 1]
         /\ next_sequence_num' \in 0 .. SequenceModulus - 1
BY DEF TypeOK, AddToDelayedWorkQueue, Delayed

LEMMA RunTimeType ==
  ASSUME TypeOK, NEW t \in Task
  PROVE  RunTime(t) \in Nat /\ log[t].nestable \in BOOLEAN
         /\ log[t] \in TaskType
<1>1. log[t] \in TaskType
  BY DEF TypeOK, Task
<1>2. QED
  BY <1>1 DEF RunTime, TaskType

LEMMA PumpTypes ==
  ASSUME TypeOK, Pump
  PROVE  TypeOK'
<1> USE NoPostTypes DEF elsewhere, proxy, teardown, queues, pump
<1>1. depth > 0 /\ log' = log
  BY DEF Pump, DoWorkNotAllowed, ReloadWorkQueue, DoWorkEmpty, DoWorkDelayed,
         DoWorkDefer, DoWorkRun, DoDelayedWorkNothing, DoDelayedWorkNotDue,
         DoDelayedWorkRun, DoDelayedWorkDefer, DoIdleWorkRun, DoIdleWorkQuit,
         DoIdleWorkBlock, WaitReturns, Calling, TakesOldest, TakesDue
<1>2. ASSUME ReturnsFalse
      PROVE  StackTypes'
  BY <1>1, <1>2, ReturnsTypes DEF ReturnsFalse, TypeOK
<1>3. ASSUME TakesOldest
      PROVE  /\ Head(work_queue) \in Task
             /\ work_queue' \in Seq(Task)
  BY <1>3 DEF TakesOldest, TypeOK
<1>4. ASSUME NEW e \in delayed_work_queue, TakesDue(e)
      PROVE  /\ e.task \in Task
             /\ recent_time' \in Nat
             /\ delayed_work_time' \in Nat
             /\ delayed_work_queue' \subseteq
                  [task : Task, sequence_num : 0 .. SequenceModulus - 1]
  <2>1. \A f \in delayed_work_queue : f.task \in Task
    BY DEF TypeOK
  <2>2. recent_time' \in Nat
    BY <1>4 DEF TakesDue, ViewOfNow, TypeOK
  <2>3. delayed_work_queue' \subseteq delayed_work_queue
    BY <1>4 DEF TakesDue
  <2>4. delayed_work_time' \in Nat
    <3>1. CASE UNCHANGED delayed_work_time
      BY <3>1 DEF TypeOK
    <3>2. ASSUME NEW f \in delayed_work_queue', delayed_work_time' = RunTime(f.task)
          PROVE  delayed_work_time' \in Nat
      BY <3>2, <2>1, <2>3, RunTimeType
    <3>3. QED
      BY <1>4, <3>1, <3>2 DEF TakesDue
  <2>5. QED
    BY <2>1, <2>2, <2>3, <2>4 DEF TypeOK
<1>5. CASE DoWorkNotAllowed
  BY <1>1, <1>2, <1>5 DEF TypeOK, DoWorkNotAllowed, StackTypes
<1>6. CASE ReloadWorkQueue
  BY <1>1, <1>6 DEF TypeOK, ReloadWorkQueue
<1>7. CASE DoWorkEmpty
  BY <1>1, <1>2, <1>7 DEF TypeOK, DoWorkEmpty, StackTypes
<1>8. CASE DoWorkDelayed
  <2> DEFINE t == Head(work_queue)
  <2>1. t \in Task /\ work_queue' \in Seq(Task) /\ TakesOldest
    BY <1>3, <1>8 DEF DoWorkDelayed
  <2>2. RunTime(t) \in Nat
    BY <2>1, RunTimeType
  <2>3. delayed_work_time' \in {RunTime(t), delayed_work_time}
    BY <1>8 DEF DoWorkDelayed
  <2>4. delayed_work_time' \in Nat
    BY <2>2, <2>3 DEF TypeOK
  <2>5. AddToDelayedWorkQueue(t)
    BY <1>8 DEF DoWorkDelayed
  <2>6. QED
    BY <1>1, <1>8, <2>1, <2>4, <2>5, DelayedQueueTypes
       DEF TypeOK, DoWorkDelayed, TakesOldest
<1>9. CASE DoWorkDefer
  BY <1>1, <1>3, <1>9 DEF TypeOK, DoWorkDefer, TakesOldest
<1>10. CASE DoWorkRun
  BY <1>1, <1>3, <1>10, RunTaskTypes
     DEF TypeOK, DoWorkRun, TakesOldest, StackTypes
<1>11. CASE DoDelayedWorkNothing
  BY <1>1, <1>2, <1>11 DEF TypeOK, DoDelayedWorkNothing, StackTypes
<1>12. CASE DoDelayedWorkNotDue
  <2>1. PICK e \in delayed_work_queue :
          recent_time' = ViewOfNow(e) /\ delayed_work_time' = RunTime(e.task)
    BY <1>12 DEF DoDelayedWorkNotDue
  <2>2. e.task \in Task
    BY DEF TypeOK
  <2>3. recent_time' \in Nat /\ delayed_work_time' \in Nat
    BY <2>1, <2>2, RunTimeType DEF ViewOfNow, TypeOK
  <2>4. QED
    BY <1>1, <1>2, <1>12, <2>3 DEF TypeOK, DoDelayedWorkNotDue, StackTypes
<1>13. CASE DoDelayedWorkRun
  <2>1. PICK e \in delayed_work_queue :
          TakesDue(e) /\ RunTask(e.task) /\ UNCHANGED deferred_queue
    BY <1>13 DEF DoDelayedWorkRun
  <2>2. QED
    BY <1>1, <1>4, <2>1, RunTaskTypes DEF TypeOK, TakesDue, StackTypes
<1>14. CASE DoDelayedWorkDefer
  <2>1. PICK e \in delayed_work_queue :
          /\ TakesDue(e) /\ ReturnsFalse /\ UNCHANGED started
          /\ deferred_queue' = Append(deferred_queue, e.task)
    BY <1>14 DEF DoDelayedWorkDefer
  <2>2. deferred_queue' \in Seq(Task)
    BY <1>4, <2>1 DEF TypeOK
  <2>3. QED
    BY <1>1, <1>2, <1>4, <2>1, <2>2 DEF TypeOK, TakesDue, StackTypes
<1>15. CASE DoIdleWorkRun
  <2>1. Head(deferred_queue) \in Task /\ deferred_queue' \in Seq(Task)
    BY <1>15 DEF TypeOK, DoIdleWorkRun, DeferredCanRun
  <2>2. QED
    BY <1>1, <1>15, <2>1, RunTaskTypes DEF TypeOK, DoIdleWorkRun, StackTypes
<1>16. CASE DoIdleWorkQuit
  BY <1>1, <1>16, LeaveRunTypes DEF TypeOK, DoIdleWorkQuit, StackTypes
<1>17. CASE DoIdleWorkBlock
  <2>1. frame' \in [1 .. MaxDepth -> FrameType']
    BY <1>1, <1>17, SetTopPcTypes DEF DoIdleWorkBlock, PumpCalls
  <2>2. delayed_work_time' \in Nat
    BY <1>17 DEF TypeOK, DoIdleWorkBlock
  <2>3. QED
    BY <1>1, <1>17, <2>1, <2>2 DEF TypeOK, DoIdleWorkBlock
<1>18. CASE WaitReturns
  <2>1. frame' \in [1 .. MaxDepth -> FrameType']
    BY <1>1, <1>18, SetTopPcTypes DEF WaitReturns, PumpCalls
  <2>2. QED
    BY <1>1, <1>18, <2>1 DEF TypeOK, WaitReturns
<1>19. QED
  BY <1>5, <1>6, <1>7, <1>8, <1>9, <1>10, <1>11, <1>12, <1>13, <1>14, <1>15,
     <1>16, <1>17, <1>18 DEF Pump

LEMMA TaskBodyTypes ==
  ASSUME TypeOK, TaskBody
  PROVE  TypeOK'
<1> USE NoPostTypes DEF inTask, proxy, teardown, queues, pump
<1>1. CASE ThreadPosts
  <2>1. PICK task \in TaskType : AddToIncomingQueue(task)
    BY <1>1, PendingTaskType DEF ThreadPosts
  <2>2. QED
    BY <1>1, <2>1, PushTypes, GrowTypes
       DEF TypeOK, ThreadPosts, AddToIncomingQueue, PosterType
<1>2. CASE TaskQuits
  <2>1. depth \in 1 .. MaxDepth
    BY <1>2 DEF TypeOK, TaskQuits, InTask
  <2>2. frame[depth] \in FrameType /\ Len(log) \in Nat /\ now \in Nat
    BY <2>1 DEF TypeOK
  <2>3. [frame[depth] EXCEPT !.quit_received = TRUE,
           !.quit_posted = Len(log), !.quit_time = now] \in FrameType
    BY <2>2 DEF FrameType
  <2>4. QED
    BY <1>2, <2>1, <2>3 DEF TypeOK, TaskQuits
<1>3. CASE TaskQuitsNow
  BY <1>3 DEF TypeOK, TaskQuitsNow
<1>4. CASE TaskNests
  BY <1>4, EnterRunTypes DEF TypeOK, TaskNests
<1>5. CASE TaskReturns
  BY <1>5, ReturnsTypes DEF TypeOK, TaskReturns, InTask, StackTypes
<1>6. QED
  BY <1>1, <1>2, <1>3, <1>4, <1>5 DEF TaskBody

LEMMA QueuedTasksType ==
  ASSUME TypeOK
  PROVE  QueuedTasks \subseteq Task
<1>1. /\ work_queue \in Seq(Task) /\ deferred_queue \in Seq(Task)
      /\ \A e \in delayed_work_queue : e.task \in Task
  BY DEF TypeOK
<1>2. /\ \A i \in DOMAIN work_queue : work_queue[i] \in Task
      /\ \A i \in DOMAIN deferred_queue : deferred_queue[i] \in Task
  BY <1>1
<1>3. QED
  BY <1>1, <1>2 DEF QueuedTasks

LEMMA DestroyTypes ==
  ASSUME TypeOK, Destroy
  PROVE  TypeOK'
<1> USE NoPostTypes DEF proxy, teardown, queues, pump
<1>1. QueuedTasks \subseteq Task
  BY QueuedTasksType
<1>2. ASSUME DeletePendingTasks,
             lifecycle' \in {"delete", "reload", "unbind"},
             purges' \in 0 .. PurgeLimit
      PROVE  TypeOK'
  <2>1. next_sequence_num' \in 0 .. SequenceModulus - 1
    <3>1. \A n : n = Cardinality({i \in DOMAIN work_queue :
                                    RunTime(work_queue[i]) # 0})
                 /\ n \in Nat
                 => (next_sequence_num + n) % SequenceModulus
                      \in 0 .. SequenceModulus - 1
      BY DEF TypeOK
    <3>2. Cardinality({i \in DOMAIN work_queue : RunTime(work_queue[i]) # 0})
            \in Nat
      <4>1. DOMAIN work_queue = 1 .. Len(work_queue) /\ Len(work_queue) \in Nat
        BY DEF TypeOK
      <4>2. IsFiniteSet(1 .. Len(work_queue))
        BY <4>1, FS_Interval
      <4>3. IsFiniteSet({i \in DOMAIN work_queue : RunTime(work_queue[i]) # 0})
        BY <4>1, <4>2, FS_Subset
      <4>4. QED
        BY <4>3, FS_CardinalityType
    <3>3. QED
      BY <1>2, <3>1, <3>2 DEF DeletePendingTasks
  <2>2. CASE UNCHANGED <<incoming_queue, event, log>>
    BY <1>1, <1>2, <2>1, <2>2 DEF TypeOK, DeletePendingTasks
  <2>3. ASSUME NEW delay \in Delays, NEW nestable \in BOOLEAN,
               NEW closure \in Closures,
               AddToIncomingQueue(PendingTask(delay, nestable, closure))
        PROVE  TypeOK'
    <3>1. PendingTask(delay, nestable, closure) \in TaskType
      BY PendingTaskType
    <3>2. QED
      BY <1>2, <2>1, <2>3, <3>1, PushTypes, GrowTypes
         DEF TypeOK, DeletePendingTasks, AddToIncomingQueue, PosterType
  <2>4. QED
    BY <1>2, <2>2, <2>3 DEF DeletePendingTasks
<1>3. CASE DestroyBegins
  BY <1>3 DEF TypeOK, DestroyBegins
<1>4. CASE DestroyDeletes
  BY <1>2, <1>4 DEF TypeOK, DestroyDeletes
<1>5. CASE DestroyReloads
  BY <1>5 DEF TypeOK, DestroyReloads
<1>6. CASE DestroyDeletesAgain
  <2>1. DeletePendingTasks /\ lifecycle' \in {"delete", "reload", "unbind"}
    BY <1>6 DEF DestroyDeletesAgain
  <2>2. purges' \in 0 .. PurgeLimit
    BY <1>6 DEF TypeOK, DestroyDeletesAgain
  <2>3. QED
    BY <1>2, <2>1, <2>2
<1>7. CASE DestroyUnbinds
  BY <1>7 DEF TypeOK, DestroyUnbinds
<1>8. CASE DestroyEnds
  <2>1. IncomingTasks \subseteq Task
    BY DEF TypeOK, IncomingTasks
  <2>2. deleted' \subseteq Task /\ <<>> \in Seq(Task)
    BY <1>1, <1>8, <2>1 DEF TypeOK, DestroyEnds, IncomingTasks
  <2>3. Task' = Task /\ FrameType' = FrameType /\ PosterType' = PosterType
    BY <1>8 DEF DestroyEnds
  <2>4. QED
    BY <1>8, <2>2, <2>3 DEF TypeOK, DestroyEnds
<1>9. QED
  BY <1>3, <1>4, <1>5, <1>6, <1>7, <1>8 DEF Destroy

-----------------------------------------------------------------------------
\* Every queue and every frame names tasks that were posted, for any number of
\* tasks, posting threads and nested loops.
THEOREM TypeCorrect == Spec => []TypeOK
<1>1. Init => TypeOK
  <2> SUFFICES ASSUME Init
               PROVE  TypeOK
    OBVIOUS
  <2>1. NoPost \in PosterType /\ NoFrame \in FrameType
    BY DEF NoPost, PosterType, NoFrame, FrameType, PumpCalls
  <2>2. /\ log \in Seq(TaskType) /\ deleted \subseteq Task
        /\ incoming_queue \in Seq(Task) /\ work_queue \in Seq(Task)
        /\ deferred_queue \in Seq(Task) /\ started \in Seq(Task)
    BY DEF Init
  <2>3. frame \in [1 .. MaxDepth -> FrameType]
    BY <2>1 DEF Init
  <2>4. poster \in [Posters -> PosterType]
    BY <2>1 DEF Init
  <2>5. /\ next_sequence_num \in 0 .. SequenceModulus - 1
        /\ depth \in 0 .. MaxDepth /\ purges \in 0 .. PurgeLimit
    BY DEF Init
  <2>6. QED
    BY <2>2, <2>3, <2>4, <2>5 DEF Init, TypeOK
<1>2. TypeOK /\ [Next]_vars => TypeOK'
  <2> SUFFICES ASSUME TypeOK, [Next]_vars
               PROVE  TypeOK'
    OBVIOUS
  <2>1. CASE RunTop
    BY <2>1, NoPostTypes, EnterRunTypes
       DEF TypeOK, RunTop, elsewhere, proxy, teardown, queues, pump
  <2>2. CASE Pump
    BY <2>2, PumpTypes
  <2>3. CASE TaskBody
    BY <2>3, TaskBodyTypes
  <2>4. CASE \E p \in Posters : Post(p)
    BY <2>4, PostTypes
  <2>5. CASE Tick
    BY <2>5, NoPostTypes DEF TypeOK, Tick, proxy, teardown, queues, pump
  <2>6. CASE Destroy
    BY <2>6, DestroyTypes
  <2>7. CASE UNCHANGED vars
    BY <2>7, NoPostTypes DEF TypeOK, vars, proxy, teardown, queues, pump
  <2>8. QED
    BY <2>1, <2>2, <2>3, <2>4, <2>5, <2>6, <2>7 DEF Next, RunNext
<1>3. QED
  BY <1>1, <1>2, PTL DEF Spec

-----------------------------------------------------------------------------
(* The inductive invariant behind NoLostWakeup and ReentrancyProtected: what *)
(* the frames on the stack say about nestable_tasks_allowed_, and what the   *)
(* pump has already seen when it is on its way to its wait.                  *)

\* Only the top frame makes a call; below it every frame runs a task.
Suspended == \A d \in 1 .. depth - 1 : frame[d].task # 0

\* A frame waits only when it runs no task and was not told to quit.
WaitsWhenIdle ==
  \A d \in 1 .. depth :
    frame[d].pc \in {"Wait", "TimedWait"} =>
      frame[d].task = 0 /\ ~frame[d].quit_received

\* nestable_tasks_allowed_ as a function of the stack: false while a task runs,
\* true in an outermost loop between tasks, and in a nested loop between tasks
\* true under a ScopedNestableTaskAllower only; without one the loop is one
\* that quits when idle.
AllowedByStack ==
  /\ depth = 0 \/ (depth = 1 /\ Top.task = 0) => nestable_tasks_allowed
  /\ depth > 0 => ~frame[1].allowed
  /\ InTask => ~nestable_tasks_allowed
  /\ depth > 1 /\ Top.task = 0 =>
       IF nestable_tasks_allowed THEN Top.allowed ELSE Top.quit_received

DestroyedOutsideRun == lifecycle # "alive" => depth = 0

WakeupPending ==
  incoming_queue = <<>> \/ event \/ \E p \in Posters : poster[p].pc = "signal"

\* The pump found incoming_queue_ empty and has run nothing since.
Quiescent ==
  /\ depth > 0 /\ Top.task = 0 /\ nestable_tasks_allowed
  /\ \/ Top.pc \in {"DoIdleWork", "Wait", "TimedWait"}
     \/ Top.pc = "DoDelayedWork" /\ ~Top.did_work

StackInv == Suspended /\ WaitsWhenIdle /\ AllowedByStack /\ ReentrancyProtected

ControlInv == StackInv /\ DestroyedOutsideRun /\ (Quiescent => WakeupPending)

\* Run returns: the task below, if there is one, goes on with nestable tasks
\* disallowed.
LEMMA LeaveRunControl ==
  ASSUME TypeOK, StackInv, depth > 0, log' = log, NEW allowed \in BOOLEAN,
         LeaveRun(allowed),
         depth = 1 => allowed, depth > 1 => ~allowed \/ Top.allowed
  PROVE  StackInv' /\ ~Quiescent'
<1>1. depth \in 1 .. MaxDepth /\ depth' = depth - 1
  BY DEF TypeOK, LeaveRun
<1>2. \A d \in 1 .. depth' : frame'[d] = frame[d] /\ frame[d].task # 0
  BY <1>1 DEF TypeOK, LeaveRun, StackInv, Suspended
<1>3. Suspended' /\ WaitsWhenIdle' /\ ReentrancyProtected'
  BY <1>1, <1>2
     DEF StackInv, Suspended, WaitsWhenIdle, ReentrancyProtected
<1>4. depth' > 0 => Top'.task # 0 /\ ~nestable_tasks_allowed'
  <2>1. depth' > 0 => frame'[depth'].task # 0
    BY <1>1, <1>2
  <2>2. depth' > 0 => ~(allowed /\ ~Top.allowed)
    BY <1>1
  <2>3. nestable_tasks_allowed' = (allowed /\ ~Top.allowed)
    BY DEF LeaveRun
  <2>4. Top' = frame'[depth']
    BY DEF Top
  <2>5. QED
    BY <2>1, <2>2, <2>3, <2>4
<1>5. depth' = 0 => nestable_tasks_allowed'
  BY <1>1 DEF LeaveRun, StackInv, AllowedByStack, Top
<1>6. depth' > 0 => ~frame'[1].allowed
  BY <1>1, <1>2 DEF StackInv, AllowedByStack
<1>7. QED
  BY <1>1, <1>3, <1>4, <1>5, <1>6
     DEF StackInv, AllowedByStack, InTask, Quiescent, Top

\* The pump's next call, after a call that ran a task or found nothing to run.
LEMMA ReturnsControl ==
  ASSUME TypeOK, StackInv, depth > 0, log' = log, NEW did \in BOOLEAN,
         NEW allowed \in BOOLEAN, Returns(did, allowed),
         depth = 1 => allowed,
         depth > 1 => IF allowed THEN Top.allowed ELSE Top.quit_received
  PROVE  /\ StackInv'
         /\ Quiescent' => ~did /\ allowed /\
              (Top.pc = "DoDelayedWork" => ~Top.did_work)
<1>1. CASE LeaveRun(allowed)
  BY <1>1, LeaveRunControl
<1>2. CASE /\ frame' = [frame EXCEPT ![depth] =
                [@ EXCEPT !.pc = NextCall(did), !.task = 0,
                          !.did_work = (did /\ Top.pc = "DoWork")]]
           /\ nestable_tasks_allowed' = allowed
           /\ UNCHANGED <<depth, keep_running>>
  <2>1. depth \in 1 .. MaxDepth /\ depth' = depth
    BY <1>2 DEF TypeOK
  <2>2. \A d \in 1 .. depth - 1 : frame'[d] = frame[d]
    BY <1>2, <2>1 DEF TypeOK
  <2>3. frame[depth] \in FrameType
    BY <2>1 DEF TypeOK
  <2>4. frame'[depth] =
          [frame[depth] EXCEPT !.pc = NextCall(did), !.task = 0,
             !.did_work = (did /\ Top.pc = "DoWork")]
    BY <1>2, <2>1 DEF TypeOK
  <2>5. /\ frame'[depth].pc = NextCall(did) /\ frame'[depth].task = 0
        /\ frame'[depth].did_work = (did /\ Top.pc = "DoWork")
        /\ frame'[depth].quit_received = frame[depth].quit_received
        /\ frame'[depth].allowed = frame[depth].allowed
    BY <2>3, <2>4 DEF FrameType
  <2>6. NextCall(did) \in {"DoWork", "DoDelayedWork", "DoIdleWork"}
    BY DEF NextCall
  <2>7. Suspended' /\ WaitsWhenIdle' /\ ReentrancyProtected'
    BY <2>1, <2>2, <2>5, <2>6
       DEF StackInv, Suspended, WaitsWhenIdle, ReentrancyProtected
  <2>8. AllowedByStack'
    <3>1. Top' = frame'[depth] /\ nestable_tasks_allowed' = allowed
      BY <1>2, <2>1 DEF Top
    <3>2. frame'[1].allowed = frame[1].allowed
      BY <2>1, <2>2, <2>5
    <3>3. QED
      BY <2>1, <2>5, <3>1, <3>2 DEF StackInv, AllowedByStack, InTask, Top
  <2>9. Quiescent' => ~did /\ allowed /\
          (Top.pc = "DoDelayedWork" => ~Top.did_work)
    <3>1. Top' = frame'[depth] /\ nestable_tasks_allowed' = allowed
      BY <1>2, <2>1 DEF Top
    <3>2. Quiescent' => /\ allowed
                        /\ \/ NextCall(did) = "DoIdleWork"
                           \/ /\ NextCall(did) = "DoDelayedWork"
                              /\ ~(did /\ Top.pc = "DoWork")
      BY <2>5, <2>6, <3>1 DEF Quiescent
    <3>3. NextCall(did) = "DoIdleWork" =>
            Top.pc = "DoDelayedWork" /\ ~did /\ ~Top.did_work
      BY DEF NextCall
    <3>4. NextCall(did) = "DoDelayedWork" => Top.pc = "DoWork"
      BY DEF NextCall
    <3>5. QED
      BY <3>2, <3>3, <3>4
  <2>10. QED
    BY <2>7, <2>8, <2>9 DEF StackInv
<1>3. QED
  BY <1>1, <1>2 DEF Returns

LEMMA ReturnsFalseControl ==
  ASSUME TypeOK, StackInv, depth > 0, log' = log, Top.task = 0, ReturnsFalse
  PROVE  /\ StackInv'
         /\ Quiescent' => nestable_tasks_allowed /\
              (Top.pc = "DoDelayedWork" => ~Top.did_work)
<1>1. nestable_tasks_allowed \in BOOLEAN /\ depth \in Nat
  BY DEF TypeOK
<1>2. depth = 1 => nestable_tasks_allowed
  BY <1>1 DEF StackInv, AllowedByStack
<1>3. depth > 1 =>
        IF nestable_tasks_allowed THEN Top.allowed ELSE Top.quit_received
  BY <1>1 DEF StackInv, AllowedByStack
<1>4. QED
  BY <1>1, <1>2, <1>3, ReturnsControl DEF ReturnsFalse

\* A task starts: it is the outermost one, or nested under an allower.
LEMMA RunTaskControl ==
  ASSUME TypeOK, StackInv, depth > 0, log' = log, Top.task = 0,
         nestable_tasks_allowed, NEW t \in Task,
         Top.pc \in {"DoWork", "DoDelayedWork", "DoIdleWork"},
         MayRunNow(t), RunTask(t)
  PROVE  StackInv' /\ ~Quiescent'
<1>1. /\ depth \in 1 .. MaxDepth /\ depth' = depth /\ t # 0
      /\ frame \in [1 .. MaxDepth -> FrameType]
      /\ frame' = [frame EXCEPT ![depth].task = t]
  <2>1. depth \in 0 .. MaxDepth /\ frame \in [1 .. MaxDepth -> FrameType]
    BY DEF TypeOK
  <2>2. depth' = depth /\ frame' = [frame EXCEPT ![depth].task = t]
    BY DEF RunTask
  <2>3. t # 0
    BY DEF Task
  <2>4. QED
    BY <2>1, <2>2, <2>3
<1>2. \A d \in 1 .. depth - 1 : frame'[d] = frame[d]
  BY <1>1
<1>3. frame[depth] \in FrameType
  BY <1>1
<1>4. frame'[depth] = [frame[depth] EXCEPT !.task = t]
  BY <1>1
<1>5. /\ frame'[depth].task = t
      /\ frame'[depth].pc = frame[depth].pc
      /\ frame'[depth].allowed = frame[depth].allowed
  BY <1>3, <1>4 DEF FrameType
<1>6. Suspended' /\ WaitsWhenIdle'
  <2>1. Suspended'
    BY <1>1, <1>2 DEF StackInv, Suspended
  <2>2. \A d \in 1 .. depth - 1 :
          frame[d].pc \in {"Wait", "TimedWait"} =>
            frame[d].task = 0 /\ ~frame[d].quit_received
    BY <1>1 DEF StackInv, WaitsWhenIdle
  <2>3. frame'[depth].pc \notin {"Wait", "TimedWait"}
    BY <1>5 DEF Top
  <2>4. \A d \in 1 .. depth : d \in 1 .. depth - 1 \/ d = depth
    BY <1>1
  <2>5. WaitsWhenIdle'
    BY <1>1, <1>2, <2>2, <2>3, <2>4 DEF WaitsWhenIdle
  <2>6. QED
    BY <2>1, <2>5
<1>7. AllowedByStack'
  BY <1>1, <1>2, <1>5 DEF StackInv, AllowedByStack, RunTask, InTask, Top
<1>8. ReentrancyProtected'
  BY <1>1, <1>2, <1>5
     DEF StackInv, AllowedByStack, ReentrancyProtected, MayRunNow, Top
<1>9. QED
  BY <1>1, <1>5, <1>6, <1>7, <1>8 DEF StackInv, Quiescent, Top

\* Posting touches no frame, and what was posted before stays as it was.
LEMMA StackUnchanged ==
  ASSUME TypeOK, StackInv, UNCHANGED <<frame, depth, nestable_tasks_allowed>>,
         log' = log \/ \E task \in TaskType : Push(task)
  PROVE  StackInv' /\ Quiescent' = Quiescent
<1>1. \A t \in Task : log'[t] = log[t]
  BY PushTypes
<1>2. \A d \in 2 .. depth : frame[d].task # 0 => frame[d].task \in Task
  <2>1. \A d \in 1 .. depth : frame[d] \in FrameType
    BY DEF TypeOK
  <2>2. depth \in Nat
    BY DEF TypeOK
  <2>3. QED
    BY <2>1, <2>2 DEF FrameType
<1>3. ReentrancyProtected'
  BY <1>1, <1>2 DEF StackInv, ReentrancyProtected
<1>4. Suspended' /\ WaitsWhenIdle' /\ AllowedByStack'
  BY DEF StackInv, Suspended, WaitsWhenIdle, AllowedByStack, Top, InTask
<1>5. QED
  BY <1>3, <1>4 DEF StackInv, Quiescent, Top

LEMMA PostControl ==
  ASSUME TypeOK, ControlInv, NEW p \in Posters, Post(p)
  PROVE  ControlInv'
<1>1. UNCHANGED <<frame, depth, nestable_tasks_allowed, lifecycle>>
  BY DEF Post, ProxyPost, LoopPost, PostPushOnly, PostPushFirst,
         PostScheduleWork, loopUnchanged, teardown
<1>2. ASSUME poster[p].pc = "stamped"
      PROVE  poster[p].task \in TaskType
  BY <1>2 DEF TypeOK, PosterType
<1>3. log' = log \/ \E task \in TaskType : Push(task)
  BY <1>2 DEF Post, ProxyPost, LoopPost, PostPushOnly, PostPushFirst,
              PostScheduleWork
<1>4. StackInv' /\ Quiescent' = Quiescent /\ DestroyedOutsideRun'
  BY <1>1, <1>3, StackUnchanged DEF ControlInv, DestroyedOutsideRun
<1>5. ASSUME poster[p].pc # "signal", UNCHANGED event,
             \A q \in Posters \ {p} : poster'[q] = poster[q],
             event \/ \E q \in Posters : poster[q].pc = "signal"
      PROVE  WakeupPending'
  BY <1>5 DEF WakeupPending
<1>6. \A q \in Posters \ {p} : poster'[q] = poster[q]
  BY DEF TypeOK, Post, ProxyPost, LoopPost, PostPushOnly, PostPushFirst,
         PostScheduleWork, PostReturns
<1>7. ASSUME WakeupPending
      PROVE  WakeupPending'
  <2>1. ASSUME poster[p].pc = "idle", UNCHANGED <<incoming_queue, event>>
        PROVE  WakeupPending'
    BY <1>6, <1>7, <2>1 DEF WakeupPending
  <2>2. CASE PostPushOnly(p)
    BY <1>5, <1>6, <1>7, <2>2 DEF PostPushOnly, WakeupPending
  <2>3. CASE PostPushFirst(p)
    <3>1. poster'[p].pc = "signal"
      <4>1. poster[p] \in [pc : {"stamped", "signal"}, task : TaskType]
        BY <2>3 DEF TypeOK, PosterType, PostPushFirst
      <4>2. poster'[p] = [poster[p] EXCEPT !.pc = "signal"]
        BY <2>3 DEF TypeOK, PostPushFirst
      <4>3. QED
        BY <4>1, <4>2
    <3>2. QED
      BY <3>1 DEF WakeupPending
  <2>4. CASE PostScheduleWork(p)
    BY <2>4 DEF PostScheduleWork, WakeupPending
  <2>5. QED
    BY <2>1, <2>2, <2>3, <2>4 DEF Post, ProxyPost, LoopPost
<1>8. QED
  BY <1>4, <1>7 DEF ControlInv

LEMMA TaskBodyControl ==
  ASSUME TypeOK, ControlInv, TaskBody
  PROVE  ControlInv'
<1>1. lifecycle' = lifecycle
  BY DEF TaskBody, ThreadPosts, TaskQuits, TaskQuitsNow, TaskNests,
         TaskReturns, inTask, teardown
<1>2. CASE ThreadPosts
  <2>1. \E task \in TaskType : Push(task)
    BY <1>2, PendingTaskType DEF ThreadPosts, AddToIncomingQueue
  <2>2. StackInv' /\ Quiescent' = Quiescent
    BY <1>2, <2>1, StackUnchanged DEF ControlInv, ThreadPosts
  <2>3. ~Quiescent
    BY <1>2 DEF ThreadPosts, InTask, Quiescent
  <2>4. QED
    BY <1>1, <1>2, <2>2, <2>3 DEF ControlInv, DestroyedOutsideRun, ThreadPosts
<1>3. CASE TaskQuits
  <2>1. depth \in 1 .. MaxDepth /\ depth' = depth
        /\ nestable_tasks_allowed' = nestable_tasks_allowed /\ log' = log
    BY <1>3 DEF TypeOK, TaskQuits, InTask
  <2>2. \A d \in 1 .. depth - 1 : frame'[d] = frame[d]
    BY <1>3, <2>1 DEF TypeOK, TaskQuits
  <2>3. frame[depth] \in FrameType
    BY <2>1 DEF TypeOK
  <2>4. frame'[depth] = [frame[depth] EXCEPT !.quit_received = TRUE,
                           !.quit_posted = Len(log), !.quit_time = now]
    BY <1>3, <2>1 DEF TypeOK, TaskQuits
  <2>5. /\ frame'[depth].pc = frame[depth].pc
        /\ frame'[depth].task = frame[depth].task
        /\ frame'[depth].allowed = frame[depth].allowed
        /\ frame[depth].task # 0
    BY <1>3, <2>3, <2>4 DEF FrameType, TaskQuits, InTask, Top
  <2>6. Suspended' /\ WaitsWhenIdle' /\ ReentrancyProtected'
    BY <2>1, <2>2, <2>5
       DEF ControlInv, StackInv, Suspended, WaitsWhenIdle, ReentrancyProtected
  <2>7. AllowedByStack'
    BY <2>1, <2>2, <2>5 DEF ControlInv, StackInv, AllowedByStack, InTask, Top
  <2>8. QED
    BY <1>1, <2>1, <2>5, <2>6, <2>7
       DEF ControlInv, StackInv, DestroyedOutsideRun, Quiescent, Top
<1>4. CASE TaskQuitsNow
  <2>1. StackInv' /\ Quiescent' = Quiescent /\ ~Quiescent
    BY <1>4, StackUnchanged DEF ControlInv, TaskQuitsNow, Quiescent, InTask
  <2>2. QED
    BY <1>1, <1>4, <2>1 DEF ControlInv, DestroyedOutsideRun, TaskQuitsNow
<1>5. CASE TaskNests
  <2>1. PICK all_pending \in BOOLEAN, allowed \in BOOLEAN :
          /\ all_pending \/ allowed
          /\ EnterRun(all_pending, allowed)
          /\ nestable_tasks_allowed' = allowed
    <3>1. ~nestable_tasks_allowed
      BY <1>5 DEF ControlInv, StackInv, AllowedByStack, TaskNests
    <3>2. QED
      BY <1>5, <3>1 DEF TaskNests
  <2>2. depth \in 1 .. MaxDepth /\ depth' = depth + 1 /\ depth' \in 1 .. MaxDepth
    BY <1>5, <2>1 DEF TypeOK, TaskNests, InTask, EnterRun
  <2>3. \A d \in 1 .. depth : frame'[d] = frame[d]
    BY <2>1, <2>2 DEF TypeOK, EnterRun
  <2>4. frame'[depth + 1] = NewFrame(all_pending, allowed)
    BY <2>1, <2>2 DEF TypeOK, EnterRun
  <2>5. /\ frame'[depth + 1].pc = "DoWork" /\ frame'[depth + 1].task = 0
        /\ frame'[depth + 1].allowed = allowed
        /\ frame'[depth + 1].quit_received = all_pending
    BY <2>4 DEF NewFrame
  <2>6. frame[depth].task # 0 /\ log' = log
    BY <1>5 DEF TaskNests, InTask, Top
  <2>7. Suspended' /\ WaitsWhenIdle' /\ ReentrancyProtected'
    BY <2>2, <2>3, <2>5, <2>6
       DEF ControlInv, StackInv, Suspended, WaitsWhenIdle, ReentrancyProtected
  <2>8. AllowedByStack'
    BY <2>1, <2>2, <2>3, <2>5
       DEF ControlInv, StackInv, AllowedByStack, InTask, Top
  <2>9. QED
    BY <1>1, <2>2, <2>5, <2>7, <2>8
       DEF ControlInv, StackInv, DestroyedOutsideRun, Quiescent, Top
<1>6. CASE TaskReturns
  <2>1. depth > 0 /\ Top.task # 0 /\ log' = log /\ Returns(TRUE, TRUE)
    BY <1>6 DEF TaskReturns, InTask
  <2>2. depth > 1 => Top.allowed
    BY <2>1 DEF TypeOK, ControlInv, StackInv, ReentrancyProtected, Top
  <2>3. StackInv' /\ ~Quiescent'
    BY <2>1, <2>2, ReturnsControl DEF ControlInv
  <2>4. lifecycle = "alive"
    BY <2>1 DEF TypeOK, ControlInv, DestroyedOutsideRun
  <2>5. QED
    BY <1>1, <2>3, <2>4 DEF ControlInv, DestroyedOutsideRun
<1>7. QED
  BY <1>2, <1>3, <1>4, <1>5, <1>6 DEF TaskBody

LEMMA PumpControl ==
  ASSUME TypeOK, ControlInv, Pump
  PROVE  ControlInv'
<1> USE DEF elsewhere, teardown
<1>1. depth > 0 /\ Top.task = 0 /\ log' = log /\ UNCHANGED <<lifecycle, poster>>
  BY DEF Pump, DoWorkNotAllowed, ReloadWorkQueue, DoWorkEmpty, DoWorkDelayed,
         DoWorkDefer, DoWorkRun, DoDelayedWorkNothing, DoDelayedWorkNotDue,
         DoDelayedWorkRun, DoDelayedWorkDefer, DoIdleWorkRun, DoIdleWorkQuit,
         DoIdleWorkBlock, WaitReturns, Calling, TakesOldest, TakesDue
<1>2. DestroyedOutsideRun'
  BY <1>1 DEF TypeOK, ControlInv, DestroyedOutsideRun
<1>3. ASSUME StackInv', ~Quiescent'
      PROVE  ControlInv'
  BY <1>2, <1>3 DEF ControlInv
<1>4. ASSUME StackInv', Quiescent' => Quiescent,
             UNCHANGED <<incoming_queue, event>>
      PROVE  ControlInv'
  BY <1>1, <1>2, <1>4 DEF ControlInv, WakeupPending
<1>5. ASSUME ReturnsFalse
      PROVE  /\ StackInv'
             /\ Quiescent' => nestable_tasks_allowed /\
                  (Top.pc = "DoDelayedWork" => ~Top.did_work)
  BY <1>1, <1>5, ReturnsFalseControl DEF ControlInv
<1>6. ASSUME Top.pc = "DoWork", UNCHANGED <<frame, depth, nestable_tasks_allowed>>
      PROVE  ControlInv'
  <2>1. StackInv' /\ Quiescent' = Quiescent
    BY <1>1, <1>6, StackUnchanged DEF ControlInv
  <2>2. ~Quiescent
    BY <1>6 DEF Quiescent
  <2>3. QED
    BY <1>3, <2>1, <2>2
<1>7. ASSUME NEW t \in Task, nestable_tasks_allowed, MayRunNow(t), RunTask(t),
             Top.pc \in {"DoWork", "DoDelayedWork", "DoIdleWork"}
      PROVE  ControlInv'
  BY <1>1, <1>3, <1>7, RunTaskControl DEF ControlInv
<1>8. CASE DoWorkNotAllowed
  BY <1>3, <1>5, <1>8 DEF DoWorkNotAllowed
<1>9. CASE ReloadWorkQueue
  BY <1>6, <1>9 DEF ReloadWorkQueue, Calling
<1>10. CASE DoWorkEmpty
  BY <1>2, <1>5, <1>10 DEF DoWorkEmpty, ControlInv, WakeupPending
<1>11. CASE DoWorkDelayed
  BY <1>6, <1>11 DEF DoWorkDelayed, TakesOldest, Calling
<1>12. CASE DoWorkDefer
  BY <1>6, <1>12 DEF DoWorkDefer, TakesOldest, Calling
<1>13. CASE DoWorkRun
  <2>1. Head(work_queue) \in Task
    BY <1>13 DEF TypeOK, DoWorkRun, TakesOldest
  <2>2. QED
    BY <1>7, <1>13, <2>1 DEF DoWorkRun, TakesOldest, Calling
<1>14. ASSUME Top.pc = "DoDelayedWork", ReturnsFalse,
              UNCHANGED <<incoming_queue, event>>
       PROVE  ControlInv'
  BY <1>1, <1>4, <1>5, <1>14 DEF Quiescent
<1>15. CASE DoDelayedWorkNothing
  BY <1>14, <1>15 DEF DoDelayedWorkNothing, Calling
<1>16. CASE DoDelayedWorkNotDue
  BY <1>14, <1>16 DEF DoDelayedWorkNotDue, Calling
<1>17. CASE DoDelayedWorkRun
  <2>1. PICK e \in delayed_work_queue :
          TakesDue(e) /\ MayRunNow(e.task) /\ RunTask(e.task)
    BY <1>17 DEF DoDelayedWorkRun
  <2>2. e.task \in Task
    BY DEF TypeOK
  <2>3. QED
    BY <1>7, <2>1, <2>2 DEF TakesDue, Calling
<1>18. CASE DoDelayedWorkDefer
  BY <1>14, <1>18 DEF DoDelayedWorkDefer, TakesDue, Calling
<1>19. CASE DoIdleWorkRun
  <2>1. Head(deferred_queue) \in Task /\ depth = 1 /\ nestable_tasks_allowed
    BY <1>1, <1>19 DEF TypeOK, DoIdleWorkRun, DeferredCanRun, ControlInv,
                       StackInv, AllowedByStack
  <2>2. QED
    BY <1>7, <1>19, <2>1 DEF DoIdleWorkRun, Calling, MayRunNow
<1>20. CASE DoIdleWorkQuit
  <2>1. /\ depth = 1 => nestable_tasks_allowed
        /\ depth > 1 => ~nestable_tasks_allowed \/ Top.allowed
    BY <1>1 DEF TypeOK, ControlInv, StackInv, AllowedByStack
  <2>2. QED
    BY <1>1, <1>3, <1>20, <2>1, LeaveRunControl
       DEF DoIdleWorkQuit, ControlInv, TypeOK
<1>21. ASSUME NEW pc \in PumpCalls, frame' = [frame EXCEPT ![depth].pc = pc],
              UNCHANGED <<depth, nestable_tasks_allowed>>,
              pc \in {"Wait", "TimedWait"} => ~Top.quit_received
       PROVE  StackInv' /\ Top'.pc = pc /\ Top'.task = 0
  <2>1. depth \in 1 .. MaxDepth
    BY <1>1 DEF TypeOK
  <2>2. \A d \in 1 .. depth - 1 : frame'[d] = frame[d]
    BY <1>21, <2>1 DEF TypeOK
  <2>3. frame[depth] \in FrameType
    BY <2>1 DEF TypeOK
  <2>4. frame'[depth] = [frame[depth] EXCEPT !.pc = pc]
    BY <1>21, <2>1 DEF TypeOK
  <2>5. /\ frame'[depth].pc = pc
        /\ frame'[depth].task = 0 /\ frame[depth].task = 0
        /\ frame'[depth].allowed = frame[depth].allowed
        /\ frame'[depth].quit_received = frame[depth].quit_received
    BY <1>1, <2>3, <2>4 DEF FrameType, Top
  <2>6. Suspended' /\ WaitsWhenIdle' /\ ReentrancyProtected'
    BY <1>1, <1>21, <2>1, <2>2, <2>5
       DEF ControlInv, StackInv, Suspended, WaitsWhenIdle, ReentrancyProtected,
           Top
  <2>7. AllowedByStack'
    BY <1>21, <2>1, <2>2, <2>5
       DEF ControlInv, StackInv, AllowedByStack, InTask, Top
  <2>8. QED
    BY <1>21, <2>5, <2>6, <2>7 DEF StackInv, Top
<1>22. CASE DoIdleWorkBlock
  <2>1. PICK pc \in {"Wait", "TimedWait", "DoWork"} :
          frame' = [frame EXCEPT ![depth].pc = pc]
    BY <1>22 DEF DoIdleWorkBlock
  <2>2. UNCHANGED <<depth, nestable_tasks_allowed, incoming_queue, event>>
        /\ ~Top.quit_received /\ Top.pc = "DoIdleWork"
    BY <1>22 DEF DoIdleWorkBlock, Calling
  <2>3. StackInv'
    BY <1>21, <2>1, <2>2 DEF PumpCalls
  <2>4. Quiescent' => Quiescent
    BY <1>1, <2>2 DEF Quiescent
  <2>5. QED
    BY <1>4, <2>2, <2>3, <2>4
<1>23. CASE WaitReturns
  <2>1. StackInv' /\ Top'.pc = "DoWork"
    BY <1>21, <1>23 DEF WaitReturns, PumpCalls
  <2>2. QED
    BY <1>3, <2>1 DEF Quiescent
<1>24. QED
  BY <1>8, <1>9, <1>10, <1>11, <1>12, <1>13, <1>15, <1>16, <1>17, <1>18,
     <1>19, <1>20, <1>22, <1>23 DEF Pump

LEMMA DestroyControl ==
  ASSUME TypeOK, ControlInv, Destroy
  PROVE  ControlInv'
<1>1. depth = 0 /\ UNCHANGED <<frame, depth, nestable_tasks_allowed>>
  BY DEF ControlInv, DestroyedOutsideRun, Destroy, DestroyBegins,
         DestroyDeletes, DestroyReloads, DestroyDeletesAgain, DestroyUnbinds,
         DestroyEnds, DeletePendingTasks
<1>2. nestable_tasks_allowed
  BY <1>1 DEF ControlInv, StackInv, AllowedByStack
<1>3. QED
  BY <1>1, <1>2 DEF ControlInv, StackInv, Suspended, WaitsWhenIdle,
     AllowedByStack, ReentrancyProtected, DestroyedOutsideRun, Quiescent,
     InTask, Top

-----------------------------------------------------------------------------
LEMMA ControlInvariant == Spec => []ControlInv
<1>1. Init => ControlInv
  BY DEF Init, ControlInv, StackInv, Suspended, WaitsWhenIdle, AllowedByStack,
         ReentrancyProtected, DestroyedOutsideRun, Quiescent, InTask, Top
<1>2. TypeOK /\ ControlInv /\ [Next]_vars => ControlInv'
  <2> SUFFICES ASSUME TypeOK, ControlInv, [Next]_vars
               PROVE  ControlInv'
    OBVIOUS
  <2>1. CASE RunTop
    <3>1. PICK quit \in BOOLEAN : EnterRun(quit, FALSE)
      BY <2>1 DEF RunTop
    <3>2. depth = 0 /\ depth' = 1 /\ lifecycle' = "alive"
          /\ nestable_tasks_allowed'
      BY <2>1, <3>1 DEF RunTop, EnterRun, elsewhere, teardown, ControlInv,
                        StackInv, AllowedByStack
    <3>3. frame'[1] = NewFrame(quit, FALSE)
      <4>1. 1 \in 1 .. MaxDepth
        OBVIOUS
      <4>2. frame' = [frame EXCEPT ![1] = NewFrame(quit, FALSE)]
        BY <3>1, <3>2 DEF EnterRun
      <4>3. QED
        BY <4>1, <4>2 DEF TypeOK
    <3>4. /\ frame'[1].pc = "DoWork" /\ frame'[1].task = 0
          /\ frame'[1].allowed = FALSE
      BY <3>3 DEF NewFrame
    <3>5. QED
      BY <3>2, <3>4 DEF ControlInv, StackInv, Suspended, WaitsWhenIdle,
         AllowedByStack, ReentrancyProtected, DestroyedOutsideRun, Quiescent,
         InTask, Top
  <2>2. CASE Pump
    BY <2>2, PumpControl
  <2>3. CASE TaskBody
    BY <2>3, TaskBodyControl
  <2>4. CASE \E p \in Posters : Post(p)
    BY <2>4, PostControl
  <2>5. CASE Tick
    BY <2>5, StackUnchanged
       DEF ControlInv, Tick, teardown, pump, DestroyedOutsideRun, WakeupPending
  <2>6. CASE Destroy
    BY <2>6, DestroyControl
  <2>7. CASE UNCHANGED vars
    BY <2>7, StackUnchanged
       DEF ControlInv, vars, teardown, pump, DestroyedOutsideRun, WakeupPending
  <2>8. QED
    BY <2>1, <2>2, <2>3, <2>4, <2>5, <2>6, <2>7 DEF Next, RunNext
<1>3. QED
  BY <1>1, <1>2, TypeCorrect, PTL DEF Spec

\* However many threads post and however Run nests, quits or the loop is torn
\* down, the loop's thread never waits on a task that nobody will wake it for.
THEOREM NoLostWakeupHolds == Spec => []NoLostWakeup
<1>1. TypeOK /\ ControlInv => NoLostWakeup
  <2> SUFFICES ASSUME TypeOK, ControlInv, Waiting
               PROVE  WakeupPending
    BY DEF NoLostWakeup, WakeupPending
  <2>1. depth \in 1 .. MaxDepth /\ Top.task = 0
        /\ Top.pc \in {"Wait", "TimedWait"}
    BY DEF TypeOK, Waiting, Calling
  <2>2. ~Top.quit_received
    BY <2>1 DEF ControlInv, StackInv, WaitsWhenIdle, Top
  <2>3. nestable_tasks_allowed
    BY <2>1, <2>2 DEF ControlInv, StackInv, AllowedByStack
  <2>4. QED
    BY <2>1, <2>3 DEF ControlInv, Quiescent
<1>2. QED
  BY <1>1, TypeCorrect, ControlInvariant, PTL

\* While a task runs, another one runs only in a loop that was nested under an
\* allower, and a non-nestable one never does: at any depth of nesting.
THEOREM ReentrancyProtectedHolds == Spec => []ReentrancyProtected
<1>1. ControlInv => ReentrancyProtected
  BY DEF ControlInv, StackInv
<1>2. QED
  BY <1>1, ControlInvariant, PTL

-----------------------------------------------------------------------------
(* The clocks: the cached time never runs ahead of the real one, and a task  *)
(* that nested loops deferred was due when it was deferred.                  *)

ClockInv ==
  /\ recent_time <= now
  /\ \A i \in DOMAIN deferred_queue : RunTime(deferred_queue[i]) <= now

\* The task a step starts is due.
StartsDue == started' # started => RunTime(started'[Len(started')]) <= now

LEMMA TakesDueIsDue ==
  ASSUME TypeOK, ClockInv, NEW e \in delayed_work_queue, TakesDue(e)
  PROVE  RunTime(e.task) <= now /\ recent_time' <= now /\ e.task \in Task
<1>1. e.task \in Task
  BY DEF TypeOK
<1>2. RunTime(e.task) \in Nat /\ recent_time \in Nat /\ now \in Nat
  BY <1>1, RunTimeType DEF TypeOK
<1>3. recent_time' <= now /\ recent_time' \in Nat
  BY <1>2 DEF TakesDue, ViewOfNow, ClockInv
<1>4. RunTime(e.task) <= recent_time'
  BY DEF TakesDue
<1>5. QED
  BY <1>1, <1>2, <1>3, <1>4

\* Appending a due task to the deferred ones keeps all of them due.
LEMMA DeferDue ==
  ASSUME TypeOK, ClockInv, log' = log, now' = now, recent_time' <= now,
         NEW t \in Task, RunTime(t) <= now,
         deferred_queue' = Append(deferred_queue, t)
  PROVE  ClockInv'
<1>1. deferred_queue \in Seq(Task)
  BY DEF TypeOK
<1>2. /\ DOMAIN deferred_queue = 1 .. Len(deferred_queue)
      /\ DOMAIN deferred_queue' = 1 .. Len(deferred_queue) + 1
      /\ Len(deferred_queue) \in Nat
  BY <1>1
<1>3. /\ deferred_queue'[Len(deferred_queue) + 1] = t
      /\ \A i \in 1 .. Len(deferred_queue) :
           deferred_queue'[i] = deferred_queue[i]
  BY <1>1, <1>2
<1>4. \A i \in 1 .. Len(deferred_queue) + 1 :
        i \in 1 .. Len(deferred_queue) \/ i = Len(deferred_queue) + 1
  BY <1>2
<1>5. \A i \in DOMAIN deferred_queue' : RunTime(deferred_queue'[i]) <= now
  BY <1>2, <1>3, <1>4 DEF ClockInv
<1>6. QED
  BY <1>5 DEF ClockInv, RunTime

LEMMA StartedIsLast ==
  ASSUME TypeOK, NEW t \in Task, started' = Append(started, t), log' = log
  PROVE  started'[Len(started')] = t
BY DEF TypeOK

\* Where neither the clocks, the deferred tasks nor the history of starts move.
LEMMA ClockUnchanged ==
  ASSUME TypeOK, ClockInv, UNCHANGED <<recent_time, started>>, now <= now',
         now' \in Nat, deferred_queue' = deferred_queue \/ deferred_queue' = <<>>,
         log' = log \/ \E task \in TaskType : Push(task)
  PROVE  ClockInv' /\ StartsDue
<1>1. \A t \in Task : log'[t] = log[t]
  BY PushTypes
<1>2. deferred_queue \in Seq(Task) /\ now \in Nat /\ recent_time \in Nat
  BY DEF TypeOK
<1>3. \A i \in DOMAIN deferred_queue : deferred_queue[i] \in Task
  BY <1>2
<1>4. \A i \in DOMAIN deferred_queue : RunTime(deferred_queue[i]) <= now'
  BY <1>2, <1>3, RunTimeType DEF ClockInv
<1>5. \A i \in DOMAIN deferred_queue' :
        log'[deferred_queue'[i]].delayed_run_time <= now'
  BY <1>1, <1>3, <1>4 DEF RunTime
<1>6. QED
  BY <1>2, <1>5 DEF ClockInv, StartsDue, RunTime

LEMMA PumpClock ==
  ASSUME TypeOK, ClockInv, Pump
  PROVE  ClockInv' /\ StartsDue
<1> USE DEF elsewhere, queues
<1>1. log' = log /\ now' = now /\ now \in Nat /\ recent_time \in Nat
  BY DEF TypeOK, Pump, DoWorkNotAllowed, ReloadWorkQueue, DoWorkEmpty,
         DoWorkDelayed, DoWorkDefer, DoWorkRun, DoDelayedWorkNothing,
         DoDelayedWorkNotDue, DoDelayedWorkRun, DoDelayedWorkDefer,
         DoIdleWorkRun, DoIdleWorkQuit, DoIdleWorkBlock, WaitReturns,
         TakesOldest, TakesDue
<1>2. ASSUME UNCHANGED <<deferred_queue, started>>, recent_time' <= now
      PROVE  ClockInv' /\ StartsDue
  BY <1>1, <1>2 DEF ClockInv, StartsDue, RunTime
<1>3. ASSUME NEW t \in Task, RunTime(t) <= now, RunTask(t), recent_time' <= now,
             deferred_queue' = deferred_queue
      PROVE  ClockInv' /\ StartsDue
  <2>1. started'[Len(started')] = t
    BY <1>1, <1>3, StartedIsLast DEF RunTask
  <2>2. QED
    BY <1>1, <1>3, <2>1 DEF ClockInv, StartsDue, RunTime
<1>4. CASE DoWorkNotAllowed \/ ReloadWorkQueue \/ DoWorkEmpty
           \/ DoIdleWorkQuit \/ DoIdleWorkBlock \/ WaitReturns
  BY <1>1, <1>2, <1>4 DEF DoWorkNotAllowed, ReloadWorkQueue, DoWorkEmpty,
     DoIdleWorkQuit, DoIdleWorkBlock, WaitReturns, ClockInv
<1>5. CASE DoWorkDelayed
  BY <1>2, <1>5 DEF DoWorkDelayed, TakesOldest, ClockInv
<1>6. CASE DoWorkDefer
  <2>1. Head(work_queue) \in Task
    BY <1>6 DEF TypeOK, DoWorkDefer, TakesOldest
  <2>2. RunTime(Head(work_queue)) = 0 /\ recent_time' <= now
        /\ deferred_queue' = Append(deferred_queue, Head(work_queue))
        /\ started' = started
    BY <1>6 DEF DoWorkDefer, TakesOldest, ClockInv
  <2>3. QED
    BY <1>1, <2>1, <2>2, DeferDue DEF StartsDue
<1>7. CASE DoWorkRun
  <2>1. Head(work_queue) \in Task
    BY <1>7 DEF TypeOK, DoWorkRun, TakesOldest
  <2>2. QED
    BY <1>1, <1>3, <1>7, <2>1 DEF DoWorkRun, TakesOldest, ClockInv
<1>8. CASE DoDelayedWorkNothing
  BY <1>1, <1>2, <1>8 DEF DoDelayedWorkNothing
<1>9. CASE DoDelayedWorkNotDue
  <2>1. recent_time' <= now
    BY <1>1, <1>9 DEF DoDelayedWorkNotDue, ViewOfNow, ClockInv
  <2>2. QED
    BY <1>2, <1>9, <2>1 DEF DoDelayedWorkNotDue
<1>10. CASE DoDelayedWorkRun
  <2>1. PICK e \in delayed_work_queue :
          TakesDue(e) /\ RunTask(e.task) /\ UNCHANGED deferred_queue
    BY <1>10 DEF DoDelayedWorkRun
  <2>2. QED
    BY <1>3, <2>1, TakesDueIsDue
<1>11. CASE DoDelayedWorkDefer
  <2>1. PICK e \in delayed_work_queue :
          /\ TakesDue(e) /\ started' = started
          /\ deferred_queue' = Append(deferred_queue, e.task)
    BY <1>11 DEF DoDelayedWorkDefer
  <2>2. ClockInv'
    BY <1>1, <2>1, TakesDueIsDue, DeferDue
  <2>3. QED
    BY <2>1, <2>2 DEF StartsDue
<1>12. CASE DoIdleWorkRun
  <2>1. deferred_queue \in Seq(Task) /\ deferred_queue # <<>>
        /\ recent_time' = recent_time
    BY <1>12 DEF TypeOK, DoIdleWorkRun, DeferredCanRun
  <2>2. Head(deferred_queue) \in Task
        /\ RunTime(Head(deferred_queue)) <= now
    BY <2>1 DEF ClockInv
  <2>3. started' = Append(started, Head(deferred_queue))
        /\ deferred_queue' = Tail(deferred_queue)
    BY <1>12 DEF DoIdleWorkRun, RunTask
  <2>4. \A i \in DOMAIN deferred_queue' :
          i + 1 \in DOMAIN deferred_queue
          /\ deferred_queue'[i] = deferred_queue[i + 1]
    BY <2>1, <2>3
  <2>5. ClockInv'
    BY <1>1, <2>1, <2>4 DEF ClockInv, RunTime
  <2>6. StartsDue
    BY <1>1, <2>2, <2>3, StartedIsLast DEF StartsDue, RunTime
  <2>7. QED
    BY <2>5, <2>6
<1>13. QED
  BY <1>4, <1>5, <1>6, <1>7, <1>8, <1>9, <1>10, <1>11, <1>12 DEF Pump

LEMMA NextClock ==
  ASSUME TypeOK, ClockInv, [Next]_vars
  PROVE  ClockInv' /\ StartsDue
<1>1. now \in Nat /\ recent_time \in Nat
  BY DEF TypeOK
<1>2. CASE RunTop
  BY <1>1, <1>2, ClockUnchanged DEF RunTop, elsewhere, queues
<1>3. CASE Pump
  BY <1>3, PumpClock
<1>4. CASE TaskBody
  <2>1. UNCHANGED <<recent_time, started, now, deferred_queue>>
    BY <1>4 DEF TaskBody, ThreadPosts, TaskQuits, TaskQuitsNow, TaskNests,
                TaskReturns, inTask, queues
  <2>2. log' = log \/ \E task \in TaskType : Push(task)
    BY <1>4, PendingTaskType
       DEF TaskBody, ThreadPosts, TaskQuits, TaskQuitsNow, TaskNests,
           TaskReturns, AddToIncomingQueue
  <2>3. QED
    BY <1>1, <2>1, <2>2, ClockUnchanged
<1>5. ASSUME NEW p \in Posters, Post(p)
      PROVE  ClockInv' /\ StartsDue
  <2>1. UNCHANGED <<recent_time, started, now, deferred_queue>>
    BY <1>5 DEF Post, ProxyPost, LoopPost, PostPushOnly, PostPushFirst,
                PostScheduleWork, loopUnchanged, queues
  <2>2. ASSUME poster[p].pc = "stamped"
        PROVE  poster[p].task \in TaskType
    BY <2>2 DEF TypeOK, PosterType
  <2>3. log' = log \/ \E task \in TaskType : Push(task)
    BY <1>5, <2>2 DEF Post, ProxyPost, LoopPost, PostPushOnly, PostPushFirst,
                      PostScheduleWork
  <2>4. QED
    BY <1>1, <2>1, <2>3, ClockUnchanged
<1>6. CASE Tick
  BY <1>1, <1>6, ClockUnchanged DEF Tick, queues
<1>7. CASE Destroy
  <2>1. UNCHANGED <<recent_time, started, now>>
        /\ (deferred_queue' = deferred_queue \/ deferred_queue' = <<>>)
    BY <1>7 DEF Destroy, DestroyBegins, DestroyDeletes, DestroyReloads,
         DestroyDeletesAgain, DestroyUnbinds, DestroyEnds, DeletePendingTasks,
         queues
  <2>2. ASSUME DeletePendingTasks
        PROVE  log' = log \/ \E task \in TaskType : Push(task)
    BY <2>2, PendingTaskType DEF DeletePendingTasks, AddToIncomingQueue
  <2>3. log' = log \/ \E task \in TaskType : Push(task)
    BY <1>7, <2>2 DEF Destroy, DestroyBegins, DestroyDeletes, DestroyReloads,
         DestroyDeletesAgain, DestroyUnbinds, DestroyEnds
  <2>4. QED
    BY <1>1, <2>1, <2>3, ClockUnchanged
<1>8. CASE UNCHANGED vars
  BY <1>1, <1>8, ClockUnchanged DEF vars, queues
<1>9. QED
  BY <1>2, <1>3, <1>4, <1>5, <1>6, <1>7, <1>8 DEF Next, RunNext

\* No task starts before its time, however often nested loops reset the cached
\* clock and whether it starts from the delayed or from the deferred queue.
THEOREM NeverEarlyHolds == Spec => NeverEarly
<1>1. Init => ClockInv
  BY DEF Init, ClockInv
<1>2. TypeOK /\ ClockInv /\ [Next]_vars => ClockInv'
  BY NextClock
<1>3. TypeOK /\ ClockInv /\ [Next]_vars =>
        [started' # started => RunTime(started'[Len(started')]) <= now]_vars
  BY NextClock DEF StartsDue
<1>4. QED
  BY <1>1, <1>2, <1>3, TypeCorrect, PTL DEF Spec, NeverEarly
=============================================================================
