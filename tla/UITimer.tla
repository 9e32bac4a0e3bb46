------------------------------- MODULE UITimer -------------------------------
(***************************************************************************)
(* A base::Timer on a thread with a MessagePumpForUI: the timer's          *)
(* scheduled tasks are the loop's delayed tasks, its user starts, resets,  *)
(* stops and deletes it in tasks and handlers, those that run in nested    *)
(* and modal loops too.                                                    *)
(***************************************************************************)
EXTENDS MessagePumpForUI

CONSTANTS Delays, TaskIds

ASSUME TimerAssumption == Delays \subseteq Nat /\ TaskIds \subseteq Nat \ {0}

VARIABLES is_repeating_, is_running_, delay_, scheduled_task_,
          scheduled_run_time_, desired_run_time_, asked

T == INSTANCE Timer

timervars == <<is_repeating_, is_running_, delay_, scheduled_task_,
               scheduled_run_time_, desired_run_time_, asked>>
allvars == <<vars, timervars>>

InitAll == Init /\ T!Init

Entries(queue) == {queue[i] : i \in DOMAIN queue}

Pending == Entries(incoming_queue_) \cup Entries(work_queue_) \cup Entries(delayed_work_queue_)

\* The scheduled tasks not yet deleted: those in the loop's queues, and the one
\* that is about to run.
InUse == {task.id : task \in Pending} \cup {stack[i].task : i \in DOMAIN stack}

Free == TaskIds \ InUse
NewTask == CHOOSE id \in Free : \A other \in Free : id <= other

\* PostDelayedTask: without a delay the task has no time.
PostsScheduledTask(posts) ==
  IF posts
  THEN AddToIncomingQueue([id   |-> scheduled_task_',
                           time |-> IF scheduled_run_time_' > now
                                    THEN scheduled_run_time_' ELSE Null])
  ELSE UNCHANGED <<incoming_queue_, have_work_, messages>>

PumpRest == <<delayed_work_time_, wm_timer, work_queue_, delayed_work_queue_,
              nestable_tasks_allowed_, poster, now, timer_dropped>>

\* The user's calls.  A repeating timer without a delay is left out: its tasks
\* follow each other without an end.
UserCalls ==
  /\ InBody
  /\ \/ /\ Free # {}
        /\ \/ \E delay \in Delays : /\ now + delay <= MaxTime
                                    /\ delay > 0 \/ ~is_repeating_
                                    /\ T!Start(NewTask, delay, now)
           \/ now + delay_ <= MaxTime /\ T!Reset(NewTask, now)
     \/ T!Stop
     \/ T!StopAndAbandon
  /\ PostsScheduledTask(scheduled_task_' \notin {0, scheduled_task_})
  /\ UNCHANGED <<PumpRest, stack>>

\* The loop runs a scheduled task; one that it posts may take its number over.
TaskRuns ==
  /\ In("body", "begin")
  /\ T!RunScheduledTask(Top.task, Top.task, now)
  /\ PostsScheduledTask(scheduled_task_ = Top.task /\ scheduled_task_' # 0)
  /\ stack' = Becomes([Top EXCEPT !.pc = "in", !.task = 0])
  /\ UNCHANGED PumpRest

Environment == MessageArrives \/ Tick \/ \E p \in Posters : Poster(p)

Next ==
  \/ (Pump \/ Client \/ Environment) /\ UNCHANGED timervars
  \/ UserCalls
  \/ TaskRuns

Spec == InitAll /\ [][Next]_allvars

----------------------------------------------------------------------------

TypeOK ==
  /\ have_work_ \in {0, 1}
  /\ delayed_work_time_ \in {Null} \cup 0 .. 2 * MaxTime
  /\ wm_timer \in {Null} \cup 0 .. 2 * MaxTime + UserTimerMinimum
  /\ messages \in Seq({"work", "other"})
  /\ \A task \in Pending : task.id \in TaskIds \/ task = Plain
  /\ \A task \in Entries(delayed_work_queue_) : task.time \in 1 .. 2 * MaxTime
  /\ nestable_tasks_allowed_ \in BOOLEAN
  /\ poster \in [Posters -> {"idle", "exchange", "post"}]
  /\ now \in 0 .. MaxTime
  /\ is_running_ \in BOOLEAN /\ scheduled_task_ \in TaskIds \cup {0}

\* At most one kMsgHaveWork is ever pending (message_pump_win.h), and have_work_
\* is 1 exactly while it is in the queue, about to be posted, or taken from the
\* queue by a call that will clear the flag.
WorkMessageAccounted ==
  Cardinality({i \in DOMAIN messages : messages[i] = "work"})
  + Cardinality({p \in Posters : poster[p] = "post"})
  + Cardinality({i \in DOMAIN stack : \/ stack[i].pc \in {"replace", "clear"}})
  = have_work_

\* A running timer has its task on its way, in one of the loop's queues or about
\* to run, and the task comes at the desired time or before it.
Arriving == Pending \cup {[id |-> stack[i].task, time |-> Null] : i \in DOMAIN stack}

TimerHasTask ==
  /\ is_running_ => \E task \in Arriving : /\ task.id = scheduled_task_
                                           /\ task.time <= desired_run_time_
  /\ is_running_ => scheduled_task_ # 0

\* The user's task runs only while the timer runs, and not before its delay is
\* over, counted from the last Start, Reset or repetition.
NeverFiresEarly ==
  [][TaskRuns /\ T!RunsUserTask(Top.task, Top.task, now) => is_running_ /\ now >= asked]_allvars

\* A kMsgHaveWork is in the queue or on its way.
WorkSignalled == have_work_ = 1 \/ \E p \in Posters : poster[p] # "idle"

\* When Run goes to sleep, a task that waits has a message that will wake it, and
\* the sleep is no longer than until the first delayed task is due.
RunWakesInTime ==
  InRun("wait") =>
    /\ incoming_queue_ \o work_queue_ # <<>> => WorkSignalled
    /\ delayed_work_queue_ # <<>> =>
         delayed_work_time_ \in 0 .. Head(delayed_work_queue_).time

\* A modal loop that lets tasks run.
ServesTasks == In("native", "pump") /\ nestable_tasks_allowed_ /\ Running

\* A task that waits in such a loop has a kMsgHaveWork on its way; except where a
\* message taken directly by Run opened the loop.  This is claimed of two loops on
\* top of each other (MaxLoops = 2); the README says how a third one breaks it.
DirectFromRun == Len(stack) >= 3 /\ stack[Len(stack) - 1].pc = "handler" /\ stack[Len(stack) - 2].kind = "run"

ModalLoopServesTasks ==
  ServesTasks /\ incoming_queue_ \o work_queue_ # <<>> =>
    \/ WorkSignalled
    \/ DirectFromRun

LaterOf(a, b) == IF a >= b THEN a ELSE b

ModalLoopServesTimers ==
  ServesTasks /\ delayed_work_queue_ # <<>> =>
    \/ wm_timer # Null /\ wm_timer <= LaterOf(Head(delayed_work_queue_).time, now + UserTimerMinimum)
    \/ timer_dropped
    \/ \E i \in DOMAIN stack : stack[i].kind = "timer"
=============================================================================
