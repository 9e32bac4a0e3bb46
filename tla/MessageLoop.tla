----------------------------- MODULE MessageLoop -----------------------------
(***************************************************************************)
(* base::MessageLoop (TYPE_DEFAULT) with the MessagePumpDefault it runs on *)
(* and the MessageLoopProxyImpl other threads post through.                *)
(*                                                                         *)
(* A task is its number in posting order: the order in which the pushes    *)
(* onto incoming_queue_ took their lock.  log[t] holds what PendingTask    *)
(* records of it, and the queues hold task numbers.  The loop's thread is  *)
(* a stack of frames, one for each MessageLoop::Run on the C++ stack; the  *)
(* top frame is the one that executes.  Time is a counter and 0 is the     *)
(* null TimeTicks.                                                         *)
(***************************************************************************)
EXTENDS Naturals, Sequences, FiniteSets

CONSTANTS
  LoopPosters,      \* other threads that post to the MessageLoop itself
  ProxyPosters,     \* other threads that post through its MessageLoopProxy
  Closures,         \* what a task's closure can be told apart by (Equals)
  Delays,           \* the delays tasks are posted with
  MaxTasks,         \* bound: tasks posted in a behaviour
  MaxDepth,         \* bound: nested invocations of Run
  MaxTime,          \* bound: the last instant of the clock
  SequenceModulus,  \* number of values of an int (2^32 in the code)
  FirstSequenceNum, \* next_sequence_num_ when the behaviour begins: 0 for a
                    \* new loop, more for one that has run delayed tasks
  PurgeLimit        \* iterations ~MessageLoop allows itself (100 in the code)

Nobody == "nobody"

ASSUME PostersAssumption ==
  /\ LoopPosters \cap ProxyPosters = {}
  /\ Nobody \notin ProxyPosters
ASSUME DelaysAssumption == Delays \subseteq Nat
ASSUME DepthAssumption == MaxDepth \in Nat \ {0}
ASSUME TasksAssumption == MaxTasks \in Nat
ASSUME TimeAssumption == MaxTime \in Nat \ {0}
ASSUME LimitAssumption == PurgeLimit \in Nat \ {0}
ASSUME SequenceAssumption ==
  /\ SequenceModulus \in Nat \ {0}
  /\ FirstSequenceNum \in 0 .. SequenceModulus - 1

VARIABLES
  incoming_queue, work_queue, delayed_work_queue, deferred_queue,
  nestable_tasks_allowed, recent_time, next_sequence_num,  \* MessageLoop
  frame, depth,                               \* the stack of AutoRunStates
  keep_running, event, delayed_work_time,     \* MessagePumpDefault
  proxy_bound, proxy_lock,                    \* MessageLoopProxyImpl
  lifecycle, purges,                          \* ~MessageLoop
  poster,                                     \* the posting threads
  now,                                        \* TimeTicks::Now()
  log, started, deleted                       \* history

queues   == <<work_queue, delayed_work_queue, deferred_queue>>
pump     == <<keep_running, event, delayed_work_time>>
proxy    == <<proxy_bound, proxy_lock>>
teardown == <<lifecycle, purges>>
vars == <<incoming_queue, queues, nestable_tasks_allowed, recent_time,
          next_sequence_num, frame, depth, pump, proxy, teardown, poster,
          now, log, started, deleted>>

Task == 1 .. Len(log)
Posters == LoopPosters \cup ProxyPosters

(***************************************************************************)
(* The frame of one Run: the call the pump is making on its delegate (pc), *)
(* the did_work it has gathered, the task that call is running (0: none),  *)
(* AutoRunState's quit_received, and whether the Run was entered under a   *)
(* ScopedNestableTaskAllower.  quit_posted and quit_time are history: how  *)
(* many tasks had been posted, and the time, when it was told to quit.     *)
(***************************************************************************)
PumpCalls == {"DoWork", "DoDelayedWork", "DoIdleWork", "Wait", "TimedWait"}

NewFrame(quit, allowed) ==
  [pc |-> "DoWork", did_work |-> FALSE, task |-> 0, quit_received |-> quit,
   allowed |-> allowed,
   quit_posted |-> IF quit THEN Len(log) ELSE 0,
   quit_time |-> IF quit THEN now ELSE 0]

NoFrame ==
  [pc |-> "DoWork", did_work |-> FALSE, task |-> 0, quit_received |-> FALSE,
   allowed |-> FALSE, quit_posted |-> 0, quit_time |-> 0]

NoPost == [pc |-> "idle", task |-> <<>>]

Top == frame[depth]
Calling(pc) == depth > 0 /\ Top.task = 0 /\ Top.pc = pc
InTask == depth > 0 /\ Top.task # 0

Init ==
  /\ incoming_queue = <<>> /\ work_queue = <<>>
  /\ delayed_work_queue = {} /\ deferred_queue = <<>>
  /\ nestable_tasks_allowed = TRUE
  /\ recent_time = 0
  /\ next_sequence_num = FirstSequenceNum
  /\ frame = [d \in 1 .. MaxDepth |-> NoFrame]
  /\ depth = 0
  /\ keep_running = TRUE /\ event = FALSE /\ delayed_work_time = 0
  /\ proxy_bound = TRUE /\ proxy_lock = Nobody
  /\ lifecycle = "alive" /\ purges = 0
  /\ poster = [p \in Posters |-> NoPost]
  /\ now = 1
  /\ log = <<>> /\ started = <<>> /\ deleted = {}

-----------------------------------------------------------------------------
(* The delayed work queue: a priority queue of tasks that each took a      *)
(* sequence number when they were moved into it.                           *)

RunTime(t) == log[t].delayed_run_time

\* Mutant of Above: sequence numbers compared as they are, without roll-over.
AboveNoRollOver(f, e) ==
  \/ RunTime(f.task) < RunTime(e.task)
  \/ RunTime(f.task) = RunTime(e.task) /\ f.sequence_num < e.sequence_num

\* PendingTask::operator<, inverted so that f is above e: the int difference
\* of the sequence numbers decides a tie and rolls over with them.
Above(f, e) ==
  \/ RunTime(f.task) < RunTime(e.task)
  \/ /\ RunTime(f.task) = RunTime(e.task)
     /\ (e.sequence_num + SequenceModulus - f.sequence_num) % SequenceModulus
          \in 1 .. (SequenceModulus - 1) \div 2

IsTop(e, entries) == e \in entries /\ \A f \in entries : ~Above(f, e)

Delayed(t) == [task |-> t, sequence_num |-> next_sequence_num]

\* Mutant of AddToDelayedWorkQueue: the sequence number outgrows its type.
AddToDelayedWorkQueueWider(t) ==
  /\ delayed_work_queue' = delayed_work_queue \cup {Delayed(t)}
  /\ next_sequence_num' = next_sequence_num + 1

AddToDelayedWorkQueue(t) ==
  /\ delayed_work_queue' = delayed_work_queue \cup {Delayed(t)}
  /\ next_sequence_num' = (next_sequence_num + 1) % SequenceModulus

-----------------------------------------------------------------------------
(* Posting.                                                                *)

CalculateDelayedRuntime(delay) == IF delay > 0 THEN now + delay ELSE 0

\* seen is history: the tasks whose posting was over when this one began.  The
\* closures of delayed tasks are the only ones that are ever compared.
PendingTask(delay, nestable, closure) ==
  [delayed_run_time |-> CalculateDelayedRuntime(delay), nestable |-> nestable,
   closure |-> IF delay > 0 THEN closure ELSE CHOOSE c \in Closures : TRUE,
   delay |-> delay, seen |-> Len(log)]

\* The bounds: every post that has begun fits into MaxTasks, and a delayed
\* task is due before the clock stops.
MayPost(delay) ==
  /\ Len(log) + Cardinality({p \in Posters : poster[p].pc = "stamped"})
       < MaxTasks
  /\ now + delay <= MaxTime

\* The part of AddToIncomingQueue under incoming_queue_lock_.
Push(task) ==
  /\ log' = Append(log, task)
  /\ incoming_queue' = Append(incoming_queue, Len(log) + 1)

\* AddToIncomingQueue called on the loop's own thread, which cannot be
\* waiting: the push and the ScheduleWork after it are one step.
AddToIncomingQueue(task) ==
  /\ Push(task)
  /\ event' = (event \/ incoming_queue = <<>>)

loopUnchanged ==
  UNCHANGED <<queues, nestable_tasks_allowed, recent_time, next_sequence_num,
              frame, depth, keep_running, delayed_work_time, teardown, now,
              started, deleted>>

\* PostTaskHelper takes message_loop_lock_ for the whole call and posts only
\* while the proxy is bound; unbound, it returns false and nothing changes.
ProxyPost(p, delay, nestable, closure) ==
  /\ p \in ProxyPosters
  /\ poster[p].pc = "idle" /\ MayPost(delay)
  /\ proxy_lock = Nobody /\ proxy_bound
  /\ proxy_lock' = p
  /\ poster' = [poster EXCEPT ![p] =
       [pc |-> "stamped", task |-> PendingTask(delay, nestable, closure)]]
  /\ UNCHANGED <<incoming_queue, event, proxy_bound, log>> /\ loopUnchanged

\* PostTask and its variants on the MessageLoop itself: its owner keeps the
\* loop alive until the push.
LoopPost(p, delay, nestable, closure) ==
  /\ p \in LoopPosters
  /\ poster[p].pc = "idle" /\ MayPost(delay)
  /\ lifecycle = "alive"
  /\ poster' = [poster EXCEPT ![p] =
       [pc |-> "stamped", task |-> PendingTask(delay, nestable, closure)]]
  /\ UNCHANGED <<incoming_queue, event, proxy, log>> /\ loopUnchanged

\* The post returns: the proxy's AutoLock goes out of scope.
PostReturns(p) ==
  /\ poster' = [poster EXCEPT ![p] = NoPost]
  /\ proxy_lock' = IF p \in ProxyPosters THEN Nobody ELSE proxy_lock

\* The queue was not empty: someone else should have started the pump.
PostPushOnly(p) ==
  /\ poster[p].pc = "stamped" /\ incoming_queue # <<>>
  /\ Push(poster[p].task)
  /\ PostReturns(p)
  /\ UNCHANGED <<event, proxy_bound>> /\ loopUnchanged

\* The queue was empty: ScheduleWork is due, after the lock is released.
PostPushFirst(p) ==
  /\ poster[p].pc = "stamped" /\ incoming_queue = <<>>
  /\ Push(poster[p].task)
  /\ poster' = [poster EXCEPT ![p].pc = "signal"]
  /\ UNCHANGED <<event, proxy>> /\ loopUnchanged

PostScheduleWork(p) ==
  /\ poster[p].pc = "signal"
  /\ event' = TRUE
  /\ PostReturns(p)
  /\ UNCHANGED <<incoming_queue, proxy_bound, log>> /\ loopUnchanged

Post(p) ==
  \/ \E delay \in Delays, nestable \in BOOLEAN, closure \in Closures :
       \/ ProxyPost(p, delay, nestable, closure)
       \/ LoopPost(p, delay, nestable, closure)
  \/ PostPushOnly(p)
  \/ PostPushFirst(p)
  \/ PostScheduleWork(p)

-----------------------------------------------------------------------------
(* Run, RunAllPending and the way back to MessagePumpDefault::Run.         *)

EnterRun(quit, allowed) ==
  /\ depth < MaxDepth
  /\ depth' = depth + 1
  /\ frame' = [frame EXCEPT ![depth + 1] = NewFrame(quit, allowed)]

\* Mutant of LeaveRun: nobody restores nestable_tasks_allowed_.
LeaveRunStillAllowed(allowed) ==
  /\ frame' = [frame EXCEPT ![depth] = NoFrame]
  /\ depth' = depth - 1
  /\ keep_running' = TRUE
  /\ nestable_tasks_allowed' = allowed

\* MessagePumpDefault::Run breaks out of its loop, AutoRunState pops, and a
\* ScopedNestableTaskAllower around the call restores the FALSE it found.
LeaveRun(allowed) ==
  /\ frame' = [frame EXCEPT ![depth] = NoFrame]
  /\ depth' = depth - 1
  /\ keep_running' = TRUE
  /\ nestable_tasks_allowed' = (allowed /\ ~Top.allowed)

\* The delegate's method returns did, and the pump goes on to its next call
\* unless QuitNow cleared keep_running.
NextCall(did) ==
  CASE Top.pc = "DoWork" -> "DoDelayedWork"
    [] Top.pc = "DoDelayedWork" /\ ~did /\ ~Top.did_work -> "DoIdleWork"
    [] OTHER -> "DoWork"

Returns(did, allowed) ==
  \/ /\ ~keep_running
     /\ LeaveRun(allowed)
  \/ /\ keep_running
     /\ frame' = [frame EXCEPT ![depth] =
          [@ EXCEPT !.pc = NextCall(did), !.task = 0,
                    !.did_work = (did /\ Top.pc = "DoWork")]]
     /\ nestable_tasks_allowed' = allowed
     /\ UNCHANGED <<depth, keep_running>>

ReturnsFalse == Returns(FALSE, nestable_tasks_allowed)

\* RunTask, up to the call of the task.
RunTask(t) ==
  /\ nestable_tasks_allowed' = FALSE
  /\ frame' = [frame EXCEPT ![depth].task = t]
  /\ started' = Append(started, t)
  /\ UNCHANGED <<depth, keep_running>>

MayRunNow(t) == log[t].nestable \/ depth = 1

elsewhere == UNCHANGED <<proxy, teardown, poster, now, log, deleted>>

\* The thread's own code calls Run or RunAllPending.
RunTop ==
  /\ depth = 0 /\ lifecycle = "alive"
  /\ \E all_pending \in BOOLEAN : EnterRun(all_pending, FALSE)
  /\ UNCHANGED <<incoming_queue, queues, nestable_tasks_allowed, recent_time,
                 next_sequence_num, pump, started>>
  /\ elsewhere

-----------------------------------------------------------------------------
(* DoWork.                                                                 *)

DoWorkNotAllowed ==
  /\ Calling("DoWork") /\ ~nestable_tasks_allowed
  /\ ReturnsFalse
  /\ UNCHANGED <<incoming_queue, queues, recent_time, next_sequence_num,
                 event, delayed_work_time, started>>
  /\ elsewhere

\* Swaps the two queues, the emptied work_queue_ against what has come in.
ReloadWorkQueue ==
  /\ Calling("DoWork") /\ nestable_tasks_allowed
  /\ work_queue = <<>> /\ incoming_queue # <<>>
  /\ work_queue' = incoming_queue /\ incoming_queue' = work_queue
  /\ UNCHANGED <<delayed_work_queue, deferred_queue, nestable_tasks_allowed,
                 recent_time, next_sequence_num, frame, depth, pump, started>>
  /\ elsewhere

DoWorkEmpty ==
  /\ Calling("DoWork") /\ nestable_tasks_allowed
  /\ work_queue = <<>> /\ incoming_queue = <<>>
  /\ ReturnsFalse
  /\ UNCHANGED <<incoming_queue, queues, recent_time, next_sequence_num,
                 event, delayed_work_time, started>>
  /\ elsewhere

\* DoWork takes the oldest task of work_queue_.
TakesOldest ==
  /\ Calling("DoWork") /\ nestable_tasks_allowed
  /\ work_queue # <<>>
  /\ work_queue' = Tail(work_queue)
  /\ UNCHANGED <<incoming_queue, recent_time, event>>
  /\ elsewhere

\* A delayed task moves on; the pump is told when the top of the queue has
\* this task's closure, which is how the code asks whether it is the top.
DoWorkDelayed ==
  /\ TakesOldest
  /\ LET t == Head(work_queue) IN
       /\ RunTime(t) # 0
       /\ AddToDelayedWorkQueue(t)
       /\ \E e \in delayed_work_queue' :
            /\ IsTop(e, delayed_work_queue')
            /\ delayed_work_time' =
                 IF log[e.task].closure = log[t].closure
                   THEN RunTime(t) ELSE delayed_work_time
  /\ UNCHANGED <<deferred_queue, nestable_tasks_allowed, frame, depth,
                 keep_running, started>>

\* Mutant of DoWorkDefer: a task that cannot run in a nested loop is dropped.
DoWorkDrop ==
  /\ TakesOldest
  /\ RunTime(Head(work_queue)) = 0 /\ ~MayRunNow(Head(work_queue))
  /\ UNCHANGED <<delayed_work_queue, deferred_queue, nestable_tasks_allowed,
                 next_sequence_num, frame, depth, keep_running,
                 delayed_work_time, started>>

DoWorkDefer ==
  /\ TakesOldest
  /\ LET t == Head(work_queue) IN
       /\ RunTime(t) = 0 /\ ~MayRunNow(t)
       /\ deferred_queue' = Append(deferred_queue, t)
  /\ UNCHANGED <<delayed_work_queue, nestable_tasks_allowed,
                 next_sequence_num, frame, depth, keep_running,
                 delayed_work_time, started>>

DoWorkRun ==
  /\ TakesOldest
  /\ LET t == Head(work_queue) IN
       /\ RunTime(t) = 0 /\ MayRunNow(t)
       /\ RunTask(t)
  /\ UNCHANGED <<delayed_work_queue, deferred_queue, next_sequence_num,
                 delayed_work_time>>

-----------------------------------------------------------------------------
(* DoDelayedWork.  recent_time is the cached clock: it is read again only  *)
(* when the top of the queue is later than it.                             *)

DoDelayedWorkNothing ==
  /\ Calling("DoDelayedWork")
  /\ ~nestable_tasks_allowed \/ delayed_work_queue = {}
  /\ recent_time' = 0 /\ delayed_work_time' = 0
  /\ ReturnsFalse
  /\ UNCHANGED <<incoming_queue, queues, next_sequence_num, event, started>>
  /\ elsewhere

ViewOfNow(e) == IF RunTime(e.task) > recent_time THEN now ELSE recent_time

\* Mutant of DoDelayedWorkNotDue: the pump's time is left to ScheduleDelayedWork.
DoDelayedWorkNotDueKeepsTime ==
  /\ Calling("DoDelayedWork") /\ nestable_tasks_allowed
  /\ \E e \in delayed_work_queue :
       /\ IsTop(e, delayed_work_queue)
       /\ recent_time' = ViewOfNow(e)
       /\ RunTime(e.task) > recent_time'
  /\ ReturnsFalse
  /\ UNCHANGED <<incoming_queue, queues, next_sequence_num, event, started,
                 delayed_work_time>>
  /\ elsewhere

DoDelayedWorkNotDue ==
  /\ Calling("DoDelayedWork") /\ nestable_tasks_allowed
  /\ \E e \in delayed_work_queue :
       /\ IsTop(e, delayed_work_queue)
       /\ recent_time' = ViewOfNow(e)
       /\ RunTime(e.task) > recent_time'
       /\ delayed_work_time' = RunTime(e.task)
  /\ ReturnsFalse
  /\ UNCHANGED <<incoming_queue, queues, next_sequence_num, event, started>>
  /\ elsewhere

\* Mutant of TakesDue: a task due at the next instant counts as due.
TakesAlmostDue(e) ==
  /\ Calling("DoDelayedWork") /\ nestable_tasks_allowed
  /\ IsTop(e, delayed_work_queue)
  /\ recent_time' = ViewOfNow(e)
  /\ RunTime(e.task) <= recent_time' + 1
  /\ delayed_work_queue' = delayed_work_queue \ {e}
  /\ UNCHANGED <<incoming_queue, work_queue, next_sequence_num, event,
                 delayed_work_time>>
  /\ elsewhere

\* The top task e is due: it is popped and the pump's time becomes that of
\* the next one, if there is a next one.
TakesDue(e) ==
  /\ Calling("DoDelayedWork") /\ nestable_tasks_allowed
  /\ IsTop(e, delayed_work_queue)
  /\ recent_time' = ViewOfNow(e)
  /\ RunTime(e.task) <= recent_time'
  /\ delayed_work_queue' = delayed_work_queue \ {e}
  /\ \/ delayed_work_queue' = {} /\ UNCHANGED delayed_work_time
     \/ \E f \in delayed_work_queue' :
          /\ IsTop(f, delayed_work_queue')
          /\ delayed_work_time' = RunTime(f.task)
  /\ UNCHANGED <<incoming_queue, work_queue, next_sequence_num, event>>
  /\ elsewhere

DoDelayedWorkRun ==
  \E e \in delayed_work_queue :
    /\ TakesDue(e)
    /\ MayRunNow(e.task)
    /\ RunTask(e.task)
    /\ UNCHANGED deferred_queue

DoDelayedWorkDefer ==
  \E e \in delayed_work_queue :
    /\ TakesDue(e)
    /\ ~MayRunNow(e.task)
    /\ deferred_queue' = Append(deferred_queue, e.task)
    /\ ReturnsFalse
    /\ UNCHANGED started

-----------------------------------------------------------------------------
(* DoIdleWork, with ProcessNextDelayedNonNestableTask, and the pump's      *)
(* decision how to wait after it.                                          *)

DeferredCanRun == depth = 1 /\ deferred_queue # <<>>

\* Mutant of DoIdleWorkRun: the deferred task is run but not popped.
DoIdleWorkRunNoPop ==
  /\ Calling("DoIdleWork") /\ DeferredCanRun
  /\ RunTask(Head(deferred_queue))
  /\ UNCHANGED <<incoming_queue, queues, recent_time, next_sequence_num,
                 event, delayed_work_time>>
  /\ elsewhere

DoIdleWorkRun ==
  /\ Calling("DoIdleWork") /\ DeferredCanRun
  /\ deferred_queue' = Tail(deferred_queue)
  /\ RunTask(Head(deferred_queue))
  /\ UNCHANGED <<incoming_queue, work_queue, delayed_work_queue, recent_time,
                 next_sequence_num, event, delayed_work_time>>
  /\ elsewhere

\* Mutant of DoIdleWorkQuit: quit before the deferred tasks have run.
DoIdleWorkQuitFirst ==
  /\ Calling("DoIdleWork") /\ Top.quit_received
  /\ LeaveRun(nestable_tasks_allowed)
  /\ UNCHANGED <<incoming_queue, queues, recent_time, next_sequence_num,
                 event, delayed_work_time, started>>
  /\ elsewhere

DoIdleWorkQuit ==
  /\ Calling("DoIdleWork") /\ ~DeferredCanRun /\ Top.quit_received
  /\ LeaveRun(nestable_tasks_allowed)
  /\ UNCHANGED <<incoming_queue, queues, recent_time, next_sequence_num,
                 event, delayed_work_time, started>>
  /\ elsewhere

\* Mutants of DoIdleWorkBlock: the event is reset before the wait; the wait has
\* no limit although a delayed task is scheduled.
DoIdleWorkBlockResets ==
  /\ Calling("DoIdleWork") /\ ~DeferredCanRun /\ ~Top.quit_received
  /\ frame' = [frame EXCEPT ![depth].pc =
       IF delayed_work_time = 0 THEN "Wait" ELSE "TimedWait"]
  /\ event' = FALSE
  /\ UNCHANGED <<incoming_queue, queues, nestable_tasks_allowed, recent_time,
                 next_sequence_num, depth, keep_running, delayed_work_time,
                 started>>
  /\ elsewhere

DoIdleWorkBlockForEver ==
  /\ Calling("DoIdleWork") /\ ~DeferredCanRun /\ ~Top.quit_received
  /\ frame' = [frame EXCEPT ![depth].pc = "Wait"]
  /\ UNCHANGED <<incoming_queue, queues, nestable_tasks_allowed, recent_time,
                 next_sequence_num, depth, pump, started>>
  /\ elsewhere

DoIdleWorkBlock ==
  /\ Calling("DoIdleWork") /\ ~DeferredCanRun /\ ~Top.quit_received
  /\ \/ /\ delayed_work_time = 0
        /\ frame' = [frame EXCEPT ![depth].pc = "Wait"]
        /\ UNCHANGED delayed_work_time
     \/ /\ delayed_work_time > now
        /\ frame' = [frame EXCEPT ![depth].pc = "TimedWait"]
        /\ UNCHANGED delayed_work_time
     \/ /\ delayed_work_time \in 1 .. now
        /\ frame' = [frame EXCEPT ![depth].pc = "DoWork"]
        /\ delayed_work_time' = 0
  /\ UNCHANGED <<incoming_queue, queues, nestable_tasks_allowed, recent_time,
                 next_sequence_num, depth, keep_running, event, started>>
  /\ elsewhere

\* event_ is auto-reset: the wait that it ends consumes it.
WaitReturns ==
  /\ Calling("Wait") \/ Calling("TimedWait")
  /\ \/ event /\ event' = FALSE
     \/ Top.pc = "TimedWait" /\ now >= delayed_work_time /\ UNCHANGED event
  /\ frame' = [frame EXCEPT ![depth].pc = "DoWork"]
  /\ UNCHANGED <<incoming_queue, queues, nestable_tasks_allowed, recent_time,
                 next_sequence_num, depth, keep_running, delayed_work_time,
                 started>>
  /\ elsewhere

Pump ==
  \/ DoWorkNotAllowed \/ ReloadWorkQueue \/ DoWorkEmpty
  \/ DoWorkDelayed \/ DoWorkDefer \/ DoWorkRun
  \/ DoDelayedWorkNothing \/ DoDelayedWorkNotDue
  \/ DoDelayedWorkRun \/ DoDelayedWorkDefer
  \/ DoIdleWorkRun \/ DoIdleWorkQuit \/ DoIdleWorkBlock
  \/ WaitReturns

-----------------------------------------------------------------------------
(* What the task on top of the stack may do.                               *)

inTask == UNCHANGED <<queues, recent_time, next_sequence_num,
                      delayed_work_time, proxy, teardown, poster, now,
                      started, deleted>>

\* PostTask and its variants, called by the task, or by the thread before it
\* calls Run.
ThreadPosts ==
  /\ InTask \/ (depth = 0 /\ lifecycle = "alive")
  /\ \E delay \in Delays, nestable \in BOOLEAN, closure \in Closures :
       /\ MayPost(delay)
       /\ AddToIncomingQueue(PendingTask(delay, nestable, closure))
  /\ UNCHANGED <<nestable_tasks_allowed, frame, depth, keep_running>>
  /\ inTask

\* Quit: the innermost Run is to return once it is idle.
TaskQuits ==
  /\ InTask /\ ~Top.quit_received
  /\ frame' = [frame EXCEPT ![depth] =
       [@ EXCEPT !.quit_received = TRUE, !.quit_posted = Len(log),
                 !.quit_time = now]]
  /\ UNCHANGED <<incoming_queue, nestable_tasks_allowed, depth, keep_running,
                 event, log>>
  /\ inTask

\* QuitNow: the innermost Run is to return once the task does.
TaskQuitsNow ==
  /\ InTask
  /\ keep_running' = FALSE
  /\ UNCHANGED <<incoming_queue, nestable_tasks_allowed, frame, depth, event,
                 log>>
  /\ inTask

\* The task runs a nested loop.  MessagePumpDefault::Run demands keep_running_;
\* a nested Run that could neither run a task nor quit would block for ever,
\* and its caller opens a ScopedNestableTaskAllower around it, whose
\* SetNestableTasksAllowed(true) starts the pump.
TaskNests ==
  /\ InTask /\ keep_running
  /\ \E all_pending, allowed \in BOOLEAN :
       /\ all_pending \/ allowed
       /\ EnterRun(all_pending, allowed)
       /\ nestable_tasks_allowed' = (nestable_tasks_allowed \/ allowed)
       /\ event' = (event \/ allowed)
  /\ UNCHANGED <<incoming_queue, keep_running, log>>
  /\ inTask

\* The task returns; RunTask allows nestable tasks again.
TaskReturns ==
  /\ InTask
  /\ Returns(TRUE, TRUE)
  /\ UNCHANGED <<incoming_queue, event, log>>
  /\ inTask

TaskBody ==
  ThreadPosts \/ TaskQuits \/ TaskQuitsNow \/ TaskNests \/ TaskReturns

-----------------------------------------------------------------------------
(* ~MessageLoop.                                                           *)

\* Mutant of DestroyBegins: a task destroys the loop that runs it.
DestroyBeginsInTask ==
  /\ lifecycle = "alive"
  /\ \A p \in LoopPosters : poster[p].pc # "stamped"
  /\ lifecycle' = "delete" /\ purges' = 1
  /\ UNCHANGED <<incoming_queue, queues, nestable_tasks_allowed, recent_time,
                 next_sequence_num, frame, depth, pump, proxy, poster, now,
                 log, started, deleted>>

DestroyBegins ==
  /\ depth = 0 /\ lifecycle = "alive"
  /\ \A p \in LoopPosters : poster[p].pc # "stamped"
  /\ lifecycle' = "delete" /\ purges' = 1
  /\ UNCHANGED <<incoming_queue, queues, nestable_tasks_allowed, recent_time,
                 next_sequence_num, frame, depth, pump, proxy, poster, now,
                 log, started, deleted>>

QueuedTasks ==
  {work_queue[i] : i \in DOMAIN work_queue}
  \cup {deferred_queue[i] : i \in DOMAIN deferred_queue}
  \cup {e.task : e \in delayed_work_queue}

\* DeletePendingTasks; a deleted task's destructor may post one task more.
DeletePendingTasks ==
  /\ deleted' = deleted \cup QueuedTasks
  /\ work_queue' = <<>> /\ deferred_queue' = <<>> /\ delayed_work_queue' = {}
  /\ next_sequence_num' =
       (next_sequence_num
        + Cardinality({i \in DOMAIN work_queue : RunTime(work_queue[i]) # 0}))
       % SequenceModulus
  /\ \/ UNCHANGED <<incoming_queue, event, log>>
     \/ /\ QueuedTasks # {}
        /\ \E delay \in Delays, nestable \in BOOLEAN, closure \in Closures :
             /\ MayPost(delay)
             /\ AddToIncomingQueue(PendingTask(delay, nestable, closure))
  /\ UNCHANGED <<nestable_tasks_allowed, recent_time, frame, depth,
                 keep_running, delayed_work_time, proxy, poster, now, started>>

DestroyDeletes ==
  /\ lifecycle = "delete"
  /\ DeletePendingTasks
  /\ lifecycle' = "reload" /\ UNCHANGED purges

DestroyReloads ==
  /\ lifecycle = "reload"
  /\ work_queue' = incoming_queue /\ incoming_queue' = work_queue
  /\ lifecycle' = "redelete" /\ UNCHANGED purges
  /\ UNCHANGED <<delayed_work_queue, deferred_queue, nestable_tasks_allowed,
                 recent_time, next_sequence_num, frame, depth, pump, proxy,
                 poster, now, log, started, deleted>>

\* did_work is what the second DeletePendingTasks found.
DestroyDeletesAgain ==
  /\ lifecycle = "redelete"
  /\ DeletePendingTasks
  /\ \/ /\ QueuedTasks # {} /\ purges < PurgeLimit
        /\ lifecycle' = "delete" /\ purges' = purges + 1
     \/ /\ QueuedTasks = {} \/ purges = PurgeLimit
        /\ lifecycle' = "unbind" /\ UNCHANGED purges

\* Mutant of DestroyUnbinds: the proxy is unbound without its lock.
DestroyUnbindsUnlocked ==
  /\ lifecycle = "unbind"
  /\ proxy_bound' = FALSE
  /\ lifecycle' = "unbound"
  /\ UNCHANGED <<incoming_queue, queues, nestable_tasks_allowed, recent_time,
                 next_sequence_num, frame, depth, pump, proxy_lock, purges,
                 poster, now, log, started, deleted>>

\* MessageLoopProxyImpl::WillDestroyCurrentMessageLoop.
DestroyUnbinds ==
  /\ lifecycle = "unbind" /\ proxy_lock = Nobody
  /\ proxy_bound' = FALSE
  /\ lifecycle' = "unbound"
  /\ UNCHANGED <<incoming_queue, queues, nestable_tasks_allowed, recent_time,
                 next_sequence_num, frame, depth, pump, proxy_lock, purges,
                 poster, now, log, started, deleted>>

\* The members are destroyed, incoming_queue_ with what is still in it.
DestroyEnds ==
  /\ lifecycle = "unbound"
  /\ deleted' = deleted \cup {incoming_queue[i] : i \in DOMAIN incoming_queue}
                        \cup QueuedTasks
  /\ incoming_queue' = <<>>
  /\ work_queue' = <<>> /\ deferred_queue' = <<>> /\ delayed_work_queue' = {}
  /\ lifecycle' = "dead"
  /\ UNCHANGED <<nestable_tasks_allowed, recent_time, next_sequence_num,
                 frame, depth, pump, proxy, purges, poster, now, log, started>>

Destroy ==
  \/ DestroyBegins \/ DestroyDeletes \/ DestroyReloads
  \/ DestroyDeletesAgain \/ DestroyUnbinds \/ DestroyEnds

Tick ==
  /\ now < MaxTime
  /\ now' = now + 1
  /\ UNCHANGED <<incoming_queue, queues, nestable_tasks_allowed, recent_time,
                 next_sequence_num, frame, depth, pump, proxy, teardown,
                 poster, log, started, deleted>>

-----------------------------------------------------------------------------
\* The loop's thread and the posters, while the loop is kept.
RunNext ==
  \/ RunTop \/ Pump \/ TaskBody
  \/ \E p \in Posters : Post(p)
  \/ Tick

Next == RunNext \/ Destroy

Spec == Init /\ [][Next]_vars

\* A thread that can take a step of the library's code eventually does; a
\* post that has begun goes on; tasks return; the clock advances.  Nobody
\* has to begin a post, call Run, nest, quit or destroy the loop.
Fairness ==
  /\ WF_vars(Pump)
  /\ SF_vars(TaskReturns)
  /\ \A p \in Posters :
       WF_vars(PostPushOnly(p) \/ PostPushFirst(p) \/ PostScheduleWork(p))
  /\ WF_vars(Tick)

RunSpec == Init /\ [][RunNext]_vars

LiveSpec == Spec /\ Fairness

-----------------------------------------------------------------------------
(* Properties.                                                             *)

TaskType ==
  [delayed_run_time : Nat, nestable : BOOLEAN, closure : Closures,
   delay : Nat, seen : Nat]

FrameType ==
  [pc : PumpCalls, did_work : BOOLEAN, task : {0} \cup Task,
   quit_received : BOOLEAN, allowed : BOOLEAN, quit_posted : Nat,
   quit_time : Nat]

PosterType ==
  [pc : {"idle"}, task : {<<>>}]
  \cup [pc : {"stamped", "signal"}, task : TaskType]

\* The type invariant: every queue and every frame names tasks that were posted.
TypeOK ==
  /\ log \in Seq(TaskType)
  /\ incoming_queue \in Seq(Task)
  /\ work_queue \in Seq(Task)
  /\ deferred_queue \in Seq(Task)
  /\ delayed_work_queue \subseteq
       [task : Task, sequence_num : 0 .. SequenceModulus - 1]
  /\ nestable_tasks_allowed \in BOOLEAN
  /\ recent_time \in Nat
  /\ next_sequence_num \in 0 .. SequenceModulus - 1
  /\ depth \in 0 .. MaxDepth
  /\ frame \in [1 .. MaxDepth -> FrameType]
  /\ keep_running \in BOOLEAN /\ event \in BOOLEAN
  /\ delayed_work_time \in Nat
  /\ proxy_bound \in BOOLEAN /\ proxy_lock \in Posters \cup {Nobody}
  /\ lifecycle \in {"alive", "delete", "reload", "redelete", "unbind",
                    "unbound", "dead"}
  /\ purges \in 0 .. PurgeLimit
  /\ poster \in [Posters -> PosterType]
  /\ now \in Nat
  /\ started \in Seq(Task)
  /\ deleted \subseteq Task

Waiting == Calling("Wait") \/ Calling("TimedWait")

\* The loop never sleeps on a task without a wake-up on its way: when it waits
\* and incoming_queue_ is not empty, the event is set or the thread that found
\* the queue empty has still to call ScheduleWork (AddToIncomingQueue signals
\* for the first push only, after it has let go of the lock).
NoLostWakeup ==
  Waiting =>
    \/ incoming_queue = <<>>
    \/ event
    \/ \E p \in Posters : poster[p].pc = "signal"

\* The loop never oversleeps: it waits without a limit only when no delayed
\* task is left, and with a limit that is not later than any of them, although
\* delayed_work_time_ is written by DoWork, DoDelayedWork and the pump of
\* every nested Run.
NeverOversleeps ==
  Waiting =>
    /\ work_queue = <<>>
    /\ \A e \in delayed_work_queue :
         Top.pc = "TimedWait" /\ delayed_work_time <= RunTime(e.task)

StartedTasks == {started[i] : i \in DOMAIN started}
IncomingTasks == {incoming_queue[i] : i \in DOMAIN incoming_queue}

\* No task is lost, run twice, or run and deleted: each posted task is in one
\* place of one queue, or has been started once, or was deleted.
EachTaskOnce ==
  /\ Task = IncomingTasks \cup QueuedTasks \cup StartedTasks \cup deleted
  /\ Len(log) = Len(incoming_queue) + Len(work_queue) + Len(deferred_queue)
                + Cardinality(delayed_work_queue) + Len(started)
                + Cardinality(deleted)

PostedAfter(t2, t1) == t1 <= log[t2].seen

\* If t2 has started then t1 started before it.
StartsFirst(t1, t2) ==
  \A j \in DOMAIN started :
    started[j] = t2 => \E i \in 1 .. j - 1 : started[i] = t1

\* The order of starts as sequenced_task_runner.h promises it: T2 starts after T1
\* if T2 is posted after T1, has an equal or higher delay, and T2 is non-nestable
\* or T1 is nestable.  (For a nestable T1 see ImplementsSequencedTaskRunner.)
SequencedTaskRunnerOrder ==
  \A t1, t2 \in Task :
    /\ PostedAfter(t2, t1)
    /\ log[t2].delay >= log[t1].delay
    /\ ~log[t2].nestable \/ log[t1].nestable
   => StartsFirst(t1, t2)

\* Task reentrancy protection (message_loop.h): while a task is running another
\* one runs only in a loop nested under a ScopedNestableTaskAllower, and never
\* a non-nestable one, whichever of the three queues it comes from.
ReentrancyProtected ==
  \A d \in 2 .. depth :
    frame[d].task # 0 => frame[d].allowed /\ log[frame[d].task].nestable

\* No delayed task starts before its time, although DoDelayedWork trusts the
\* cached recent_time_ while nested loops reset it.
NeverEarly ==
  [][started' # started =>
       RunTime(started'[Len(started')]) <= now]_vars

\* The loop leaves Run because it is idle and was told to quit.
LeavesIdle == Calling("DoIdleWork") /\ depth' < depth

DueAtQuit(t) == t <= Top.quit_posted /\ RunTime(t) <= Top.quit_time

\* A Run that quits when idle has run the work that was pending when it was told
\* to: every task posted and due by then, and at depth 1 the non-nestable ones
\* deferred by nested loops too.  In a nested loop the delayed ones are excepted.
QuitDrains ==
  [][LeavesIdle /\ nestable_tasks_allowed =>
       \A t \in Task :
         DueAtQuit(t) /\ (depth = 1 \/ (log[t].nestable /\ RunTime(t) = 0))
           => t \in StartedTasks]_vars

\* RunAllPending (and Quit) as message_loop.h documents them: Run returns as soon
\* as all items that can be run are taken care of, in a nested loop as well.
QuitDrainsAllRunnable ==
  [][LeavesIdle /\ nestable_tasks_allowed =>
       \A t \in Task :
         DueAtQuit(t) /\ (depth = 1 \/ log[t].nestable) => t \in StartedTasks]_vars

\* ~MessageLoop leaves nothing behind: once the loop is gone every task posted to
\* it was run or deleted, and nothing is pushed onto it any more, although other
\* threads post through the proxy all along and deleted tasks post new ones.
NothingOutlivesTheLoop ==
  lifecycle = "dead" =>
    /\ incoming_queue = <<>>
    /\ Task \subseteq StartedTasks \cup deleted

\* A posted task is started in the end, if Run does not return first: a nestable
\* one even in a loop that stays nested, a delayed one once its time has come.
NestableEventuallyRuns ==
  \A t \in 1 .. MaxTasks :
    t \in Task /\ log[t].nestable ~> t \in StartedTasks \/ depth = 0

\* A non-nestable task that nested loops defer is started in the end, if Run does
\* not return first and the nested loops do.
NonNestableEventuallyRuns ==
  []<>(depth <= 1) =>
    \A t \in 1 .. MaxTasks :
      t \in Task ~> t \in StartedTasks \/ depth = 0
=============================================================================
