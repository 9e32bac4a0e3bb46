--------------------------- MODULE MessagePumpForUI ---------------------------
(***************************************************************************)
(* base::MessagePumpForUI under its MessageLoop: one loop over Windows     *)
(* messages, tasks and delayed tasks, and a native modal loop (a dialog, a *)
(* menu) that a task or a window's handler may open on top of it, knows    *)
(* nothing of tasks and only dispatches messages.  Tasks run there because *)
(* of kMsgHaveWork, which ScheduleWork posts, and WM_TIMER.                *)
(*                                                                         *)
(* The thread is the stack of the calls it is in.  Of the MessageLoop the  *)
(* part is kept that the pump calls and that calls the pump.               *)
(***************************************************************************)
EXTENDS Integers, Sequences, FiniteSets, SequencesExt

CONSTANTS
  Posters,           \* the threads that post tasks
  UserTimerMinimum,  \* the least delay of SetTimer
  MaxTasks, MaxOther, MaxLoops, MaxTime   \* bounds

ASSUME PumpAssumption ==
  /\ IsFiniteSet(Posters)
  /\ UserTimerMinimum \in Nat
  /\ {MaxTasks, MaxOther, MaxLoops, MaxTime} \subseteq Nat

VARIABLES
  have_work_,
  delayed_work_time_,
  messages,            \* the posted messages of the thread's queue
  wm_timer,            \* when WM_TIMER is due
  incoming_queue_, work_queue_, delayed_work_queue_,
  nestable_tasks_allowed_,
  stack,
  poster,              \* what is left to do of each poster's PostTask
  now,
  timer_dropped        \* history: the last WM_TIMER came to nothing

pump == <<have_work_, delayed_work_time_, messages, wm_timer>>
queues == <<incoming_queue_, work_queue_, delayed_work_queue_>>
vars == <<pump, queues, nestable_tasks_allowed_, stack, poster, now, timer_dropped>>

Null == -1   \* a null TimeTicks, a timer that is not set

Plain == [id |-> 0, time |-> Null]

Init ==
  /\ have_work_ = 0 /\ delayed_work_time_ = Null
  /\ messages = <<>> /\ wm_timer = Null
  /\ incoming_queue_ = <<>> /\ work_queue_ = <<>> /\ delayed_work_queue_ = <<>>
  /\ nestable_tasks_allowed_ = TRUE
  /\ stack = <<>>
  /\ poster = [p \in Posters |-> "idle"]
  /\ now = 0
  /\ timer_dropped = FALSE

----------------------------------------------------------------------------
(* The stack.  run: DoRunLoop with its RunState; work: HandleWorkMessage;  *)
(* timer: HandleTimerMessage; body: a task (its id in task) or a window's  *)
(* handler; native: a modal loop.  more: more_work_is_plausible, or what   *)
(* DoWork returned; msg: the replacement message; old: what a              *)
(* ScopedNestableTaskAllower around the loop will restore.                 *)

Frame(kind, pc) == [kind |-> kind, pc |-> pc, more |-> FALSE, quit |-> FALSE,
                    msg |-> "none", task |-> 0, old |-> "none"]

Body(id) == [Frame("body", IF id = 0 THEN "in" ELSE "begin") EXCEPT !.task = id]
Handler == Frame("body", "handler")

Top == Last(stack)
In(kind, pc) == stack # <<>> /\ Top.kind = kind /\ Top.pc = pc
InRun(pc) == In("run", pc)
InBody == In("body", "in") \/ In("body", "handler")

\* state_ is not NULL, and the index of its frame.
Running == \E i \in DOMAIN stack : stack[i].kind = "run"
state_ == CHOOSE i \in DOMAIN stack :
  stack[i].kind = "run" /\ \A j \in DOMAIN stack : stack[j].kind = "run" => j <= i

Loops == Cardinality({i \in DOMAIN stack : stack[i].kind \in {"run", "native"}})

Becomes(frame) == Append(Front(stack), frame)
Calls(frame, callee) == stack' = Becomes(frame) \o <<callee>>
Goes(pc) == stack' = Becomes([Top EXCEPT !.pc = pc])
Returns == stack' = Front(stack)

----------------------------------------------------------------------------
(* ScheduleWork and ScheduleDelayedWork.                                   *)

\* Mutant: counts instead of exchanging.
ScheduleWorkCounts ==
  /\ have_work_' = have_work_ + 1
  /\ messages' = IF have_work_ = 0 THEN Append(messages, "work") ELSE messages

\* On the pump's own thread nobody can tell the exchange from the post.
ScheduleWork ==
  /\ have_work_' = 1
  /\ messages' = IF have_work_ = 0 THEN Append(messages, "work") ELSE messages

SetTimer(time) ==
  /\ wm_timer' = IF time - now < UserTimerMinimum THEN now + UserTimerMinimum ELSE time
  /\ timer_dropped' = FALSE

ScheduleDelayedWork(time) == delayed_work_time_' = time /\ SetTimer(time)

\* MessageLoop::AddToIncomingQueue on the loop's thread.
AddToIncomingQueue(task) ==
  /\ incoming_queue_' = Append(incoming_queue_, task)
  /\ IF incoming_queue_ = <<>> THEN ScheduleWork ELSE UNCHANGED <<have_work_, messages>>

\* On another thread: the push, the exchange and the post.
PosterPushes(p) ==
  /\ poster[p] = "idle"
  /\ Len(incoming_queue_) + Len(work_queue_) < MaxTasks
  /\ incoming_queue_' = Append(incoming_queue_, Plain)
  /\ poster' = [poster EXCEPT ![p] = IF incoming_queue_ = <<>> THEN "exchange" ELSE @]
  /\ UNCHANGED <<pump, work_queue_, delayed_work_queue_, nestable_tasks_allowed_,
                 stack, now, timer_dropped>>

PosterExchanges(p) ==
  /\ poster[p] = "exchange"
  /\ have_work_' = 1
  /\ poster' = [poster EXCEPT ![p] = IF have_work_ = 0 THEN "post" ELSE "idle"]
  /\ UNCHANGED <<delayed_work_time_, messages, wm_timer, queues,
                 nestable_tasks_allowed_, stack, now, timer_dropped>>

PosterPosts(p) ==
  /\ poster[p] = "post"
  /\ messages' = Append(messages, "work")
  /\ poster' = [poster EXCEPT ![p] = "idle"]
  /\ UNCHANGED <<have_work_, delayed_work_time_, wm_timer, queues,
                 nestable_tasks_allowed_, stack, now, timer_dropped>>

Poster(p) == PosterPushes(p) \/ PosterExchanges(p) \/ PosterPosts(p)

MessageArrives ==
  /\ Cardinality({i \in DOMAIN messages : messages[i] = "other"}) < MaxOther
  /\ messages' = Append(messages, "other")
  /\ UNCHANGED <<have_work_, delayed_work_time_, wm_timer, queues,
                 nestable_tasks_allowed_, stack, poster, now, timer_dropped>>

Tick ==
  /\ now < MaxTime
  /\ now' = now + 1
  /\ UNCHANGED <<pump, queues, nestable_tasks_allowed_, stack, poster, timer_dropped>>

----------------------------------------------------------------------------
(* Peeking and dispatching.  Windows makes up a WM_TIMER when nothing is   *)
(* posted; whoever takes it kills the timer before the next peek.          *)

TimerElapsed == wm_timer # Null /\ now >= wm_timer

NextMessage == CASE messages # <<>> -> Head(messages)
                 [] messages = <<>> /\ TimerElapsed -> "timer"
                 [] OTHER -> "none"

TakeMessage == messages' = IF messages = <<>> THEN <<>> ELSE Tail(messages)

\* The window procedure that msg is for, called from frame.
Dispatch(frame, msg) ==
  Calls(frame, CASE msg = "work" -> Frame("work", "replace")
                 [] msg = "timer" -> Frame("timer", "kill")
                 [] OTHER -> Handler)

ProcessNextWindowsMessage ==
  /\ InRun("next")
  /\ TakeMessage
  /\ CASE NextMessage = "none" -> stack' = Becomes([Top EXCEPT !.pc = "work", !.more = FALSE])
       [] NextMessage = "work" -> Goes("replace")
       [] OTHER -> Dispatch([Top EXCEPT !.pc = "work", !.more = TRUE], NextMessage)
  /\ UNCHANGED <<have_work_, delayed_work_time_, wm_timer, queues,
                 nestable_tasks_allowed_, poster, now, timer_dropped>>

\* ProcessPumpReplacementMessage, for the loop and for HandleWorkMessage: take
\* another message while have_work_ keeps kMsgHaveWork out of the queue ...
PeekReplacement ==
  /\ InRun("replace") \/ (In("work", "replace") /\ Running)
  /\ TakeMessage
  /\ stack' = Becomes([Top EXCEPT !.pc = "clear", !.msg = NextMessage])
  /\ UNCHANGED <<have_work_, delayed_work_time_, wm_timer, queues,
                 nestable_tasks_allowed_, poster, now, timer_dropped>>

\* ... then clear it, and ask for another time slice before dispatching.
DispatchReplacement ==
  /\ InRun("clear") \/ In("work", "clear")
  /\ LET done == [Top EXCEPT !.pc = "work", !.msg = "none",
                             !.more = Top.kind = "run" /\ Top.msg # "none"]
     IN IF Top.msg = "none"
        THEN stack' = Becomes(done) /\ have_work_' = 0 /\ UNCHANGED messages
        ELSE /\ Dispatch(done, Top.msg)
             /\ have_work_' = 1 /\ messages' = Append(messages, "work")
  /\ UNCHANGED <<delayed_work_time_, wm_timer, queues, nestable_tasks_allowed_,
                 poster, now, timer_dropped>>

\* Mutant: forgets to clear have_work_ outside Run.
WorkOutsideRunKeepsFlag ==
  /\ In("work", "replace") /\ ~Running
  /\ Returns
  /\ UNCHANGED <<pump, queues, nestable_tasks_allowed_, poster, now, timer_dropped>>

\* HandleWorkMessage outside Run.
WorkOutsideRun ==
  /\ In("work", "replace") /\ ~Running
  /\ have_work_' = 0
  /\ Returns
  /\ UNCHANGED <<delayed_work_time_, messages, wm_timer, queues,
                 nestable_tasks_allowed_, poster, now, timer_dropped>>

----------------------------------------------------------------------------
(* MessageLoop::DoWork, called by the loop and by HandleWorkMessage; it    *)
(* returns to the pc "worked".                                             *)

CallsDoWork == (InRun("work") /\ ~Top.quit) \/ In("work", "work")

DoWorkNothing ==
  /\ CallsDoWork
  /\ ~nestable_tasks_allowed_ \/ (work_queue_ = <<>> /\ incoming_queue_ = <<>>)
  /\ Goes("worked")
  /\ UNCHANGED <<pump, queues, nestable_tasks_allowed_, poster, now, timer_dropped>>

ReloadWorkQueue ==
  /\ CallsDoWork /\ nestable_tasks_allowed_
  /\ work_queue_ = <<>> /\ incoming_queue_ # <<>>
  /\ work_queue_' = incoming_queue_ /\ incoming_queue_' = <<>>
  /\ UNCHANGED <<pump, delayed_work_queue_, nestable_tasks_allowed_, stack,
                 poster, now, timer_dropped>>

\* A priority queue by time, the first come first among equals.
Insert(queue, task) ==
  LET k == Cardinality({i \in DOMAIN queue : queue[i].time <= task.time})
  IN InsertAt(queue, k + 1, task)

DoWorkDelayed ==
  /\ CallsDoWork /\ nestable_tasks_allowed_
  /\ work_queue_ # <<>> /\ Head(work_queue_).time # Null
  /\ work_queue_' = Tail(work_queue_)
  /\ delayed_work_queue_' = Insert(delayed_work_queue_, Head(work_queue_))
  /\ IF Head(delayed_work_queue_') = Head(work_queue_)
     THEN ScheduleDelayedWork(Head(work_queue_).time)
     ELSE UNCHANGED <<delayed_work_time_, wm_timer, timer_dropped>>
  /\ UNCHANGED <<have_work_, messages, incoming_queue_, nestable_tasks_allowed_,
                 stack, poster, now>>

\* RunTask: no other task meanwhile, unless the task allows it.
RunTask(frame, task) ==
  /\ Calls(frame, Body(task.id))
  /\ nestable_tasks_allowed_' = FALSE

DoWorkRun ==
  /\ CallsDoWork /\ nestable_tasks_allowed_
  /\ work_queue_ # <<>> /\ Head(work_queue_).time = Null
  /\ work_queue_' = Tail(work_queue_)
  /\ RunTask([Top EXCEPT !.pc = "worked", !.more = TRUE], Head(work_queue_))
  /\ UNCHANGED <<pump, incoming_queue_, delayed_work_queue_, poster, now, timer_dropped>>

\* The rest of HandleWorkMessage.
WorkMessageHandled ==
  /\ In("work", "worked")
  /\ IF Top.more THEN ScheduleWork ELSE UNCHANGED <<have_work_, messages>>
  /\ Returns
  /\ UNCHANGED <<delayed_work_time_, wm_timer, queues, nestable_tasks_allowed_,
                 poster, now, timer_dropped>>

----------------------------------------------------------------------------
(* MessageLoop::DoDelayedWork, called by the loop and by                   *)
(* HandleTimerMessage; it returns to the pc "delayed".                     *)

CallsDoDelayedWork == (InRun("worked") /\ ~Top.quit) \/ In("timer", "fire")

\* Mutant: = for |=, what DoWork returned is lost.
DoDelayedWorkNothingOverwrites ==
  /\ CallsDoDelayedWork
  /\ ~nestable_tasks_allowed_ \/ delayed_work_queue_ = <<>>
  /\ delayed_work_time_' = Null
  /\ timer_dropped' = (timer_dropped \/ (Top.kind = "timer" /\ delayed_work_queue_ # <<>>))
  /\ stack' = Becomes([Top EXCEPT !.pc = "delayed", !.more = FALSE])
  /\ UNCHANGED <<have_work_, messages, wm_timer, queues, nestable_tasks_allowed_,
                 poster, now>>

DoDelayedWorkNothing ==
  /\ CallsDoDelayedWork
  /\ ~nestable_tasks_allowed_ \/ delayed_work_queue_ = <<>>
  /\ delayed_work_time_' = Null
  /\ timer_dropped' = (timer_dropped \/ (Top.kind = "timer" /\ delayed_work_queue_ # <<>>))
  /\ Goes("delayed")
  /\ UNCHANGED <<have_work_, messages, wm_timer, queues, nestable_tasks_allowed_,
                 poster, now>>

DoDelayedWorkNotDue ==
  /\ CallsDoDelayedWork /\ nestable_tasks_allowed_
  /\ delayed_work_queue_ # <<>> /\ Head(delayed_work_queue_).time > now
  /\ delayed_work_time_' = Head(delayed_work_queue_).time
  /\ Goes("delayed")
  /\ UNCHANGED <<have_work_, messages, wm_timer, queues, nestable_tasks_allowed_,
                 poster, now, timer_dropped>>

\* The next time is told before the task is run, and only if there is one.
DoDelayedWorkRun ==
  /\ CallsDoDelayedWork /\ nestable_tasks_allowed_
  /\ delayed_work_queue_ # <<>> /\ Head(delayed_work_queue_).time <= now
  /\ delayed_work_queue_' = Tail(delayed_work_queue_)
  /\ delayed_work_time_' = IF Len(delayed_work_queue_) = 1 THEN delayed_work_time_
                           ELSE delayed_work_queue_[2].time
  /\ RunTask([Top EXCEPT !.pc = "delayed", !.more = TRUE], Head(delayed_work_queue_))
  /\ UNCHANGED <<have_work_, messages, wm_timer, incoming_queue_, work_queue_,
                 poster, now, timer_dropped>>

\* HandleTimerMessage: outside Run the delayed work is left to the next Run.
KillTimer ==
  /\ In("timer", "kill")
  /\ wm_timer' = Null
  /\ IF Running THEN Goes("fire") ELSE Returns
  /\ timer_dropped' = (timer_dropped \/ ~Running)
  /\ UNCHANGED <<have_work_, delayed_work_time_, messages, queues,
                 nestable_tasks_allowed_, poster, now>>

\* Mutant: does not set the timer for the next task.
TimerMessageHandledOnce ==
  /\ In("timer", "delayed")
  /\ Returns
  /\ UNCHANGED <<pump, queues, nestable_tasks_allowed_, poster, now, timer_dropped>>

TimerMessageHandled ==
  /\ In("timer", "delayed")
  /\ IF delayed_work_time_ # Null THEN ScheduleDelayedWork(delayed_work_time_)
     ELSE UNCHANGED <<delayed_work_time_, wm_timer, timer_dropped>>
  /\ Returns
  /\ UNCHANGED <<have_work_, messages, queues, nestable_tasks_allowed_, poster, now>>

----------------------------------------------------------------------------
(* The rest of DoRunLoop.                                                  *)

Continues == CASE Top.quit -> "quit" [] ~Top.quit /\ Top.more -> "next" [] OTHER -> "wait"

\* DoIdleWork finds nothing to do here: no task is deferred, none quits so.
DelayedWorkDone ==
  /\ InRun("delayed")
  /\ wm_timer' = IF Top.more /\ delayed_work_time_ = Null THEN Null ELSE wm_timer
  /\ Goes(Continues)
  /\ UNCHANGED <<have_work_, delayed_work_time_, messages, queues,
                 nestable_tasks_allowed_, poster, now, timer_dropped>>

WaitForWork ==
  /\ InRun("wait")
  /\ \/ NextMessage # "none"
     \/ delayed_work_time_ # Null /\ now >= delayed_work_time_
  /\ Goes("next")
  /\ UNCHANGED <<pump, queues, nestable_tasks_allowed_, poster, now, timer_dropped>>

\* The end of a ScopedNestableTaskAllower around a loop.
Restored(old) == nestable_tasks_allowed_' = IF old = "none" THEN nestable_tasks_allowed_
                                            ELSE old = "allowed"

RunEnds ==
  /\ stack # <<>> /\ Top.kind = "run" /\ Top.quit
  /\ Top.pc \in {"work", "worked", "quit"}
  /\ Returns
  /\ Restored(Top.old)
  /\ UNCHANGED <<pump, queues, poster, now, timer_dropped>>

----------------------------------------------------------------------------
(* What a task or a handler does, and a thread outside Run.                *)

\* Mutant: leaves the pump to whoever posts next.
AllowNestableTasksSilently ==
  /\ nestable_tasks_allowed_' = TRUE
  /\ UNCHANGED <<have_work_, messages>>

\* SetNestableTasksAllowed(TRUE) starts the native pump.
AllowNestableTasks ==
  /\ nestable_tasks_allowed_' = TRUE
  /\ IF nestable_tasks_allowed_ THEN UNCHANGED <<have_work_, messages>> ELSE ScheduleWork

WasAllowed == IF nestable_tasks_allowed_ THEN "allowed" ELSE "not"

OpensLoop(frame) == stack' = Append(stack, frame)

\* Run, nested in a task under a ScopedNestableTaskAllower.
RunBegins ==
  /\ stack = <<>> \/ (InBody /\ Loops < MaxLoops)
  /\ AllowNestableTasks
  /\ OpensLoop([Frame("run", "next") EXCEPT !.old = WasAllowed])
  /\ UNCHANGED <<delayed_work_time_, wm_timer, queues, poster, now, timer_dropped>>

ModalLoopBegins ==
  /\ stack = <<>> \/ (InBody /\ Loops < MaxLoops)
  /\ \/ /\ OpensLoop(Frame("native", "pump"))
        /\ UNCHANGED <<have_work_, messages, nestable_tasks_allowed_>>
     \/ /\ AllowNestableTasks
        /\ OpensLoop([Frame("native", "pump") EXCEPT !.old = WasAllowed])
  /\ UNCHANGED <<delayed_work_time_, wm_timer, queues, poster, now, timer_dropped>>

ModalLoopDispatches ==
  /\ In("native", "pump") /\ NextMessage # "none"
  /\ TakeMessage
  /\ Dispatch(Top, NextMessage)
  /\ UNCHANGED <<have_work_, delayed_work_time_, wm_timer, queues,
                 nestable_tasks_allowed_, poster, now, timer_dropped>>

ModalLoopEnds ==
  /\ In("native", "pump")
  /\ Returns
  /\ Restored(Top.old)
  /\ UNCHANGED <<pump, queues, poster, now, timer_dropped>>

\* QuitNow: Quit() of the pump for the innermost Run.
QuitsNow ==
  /\ InBody /\ Running /\ ~stack[state_].quit
  /\ stack' = [stack EXCEPT ![state_].quit = TRUE]
  /\ UNCHANGED <<pump, queues, nestable_tasks_allowed_, poster, now, timer_dropped>>

BodyReturns ==
  /\ InBody
  /\ Returns
  /\ nestable_tasks_allowed_' = (nestable_tasks_allowed_ \/ Top.pc = "in")
  /\ UNCHANGED <<pump, queues, poster, now, timer_dropped>>

----------------------------------------------------------------------------

DoRunLoop == ProcessNextWindowsMessage \/ DelayedWorkDone \/ WaitForWork \/ RunEnds
DoWork == DoWorkNothing \/ ReloadWorkQueue \/ DoWorkDelayed \/ DoWorkRun
DoDelayedWork == DoDelayedWorkNothing \/ DoDelayedWorkNotDue \/ DoDelayedWorkRun
HandleWorkMessage == \/ PeekReplacement \/ DispatchReplacement \/ WorkOutsideRun
                     \/ WorkMessageHandled
HandleTimerMessage == KillTimer \/ TimerMessageHandled

\* What the thread does without being asked.
Pump == DoRunLoop \/ DoWork \/ DoDelayedWork \/ HandleWorkMessage
        \/ HandleTimerMessage \/ ModalLoopDispatches

Client == RunBegins \/ ModalLoopBegins \/ ModalLoopEnds \/ QuitsNow \/ BodyReturns
=============================================================================
