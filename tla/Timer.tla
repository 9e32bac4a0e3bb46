-------------------------------- MODULE Timer --------------------------------
(***************************************************************************)
(* base::Timer: a task that is to run after a delay, once or again and     *)
(* again, on top of the delayed tasks of a task runner, which cannot be    *)
(* taken back.  A task that comes too early or for nothing is left in the  *)
(* runner; when it runs it posts the rest of the time, or does nothing.    *)
(*                                                                         *)
(* A BaseTimerTaskInternal is a number; its timer_ is this timer as long   *)
(* as scheduled_task_ names it.  Posting is left to the module that has    *)
(* the runner.                                                             *)
(***************************************************************************)
EXTENDS Integers

CONSTANTS
  Delays,    \* that Start is called with
  TaskIds    \* the scheduled tasks

NoTask == -1   \* the delay_ of a timer without a user's task

VARIABLES
  is_repeating_, is_running_, delay_,
  scheduled_task_,       \* 0 for NULL
  scheduled_run_time_, desired_run_time_,
  asked                  \* history: when the user's task was asked to run

timer == <<is_repeating_, is_running_, delay_, scheduled_task_,
           scheduled_run_time_, desired_run_time_, asked>>

Init ==
  /\ is_repeating_ \in BOOLEAN /\ is_running_ = FALSE
  /\ delay_ = NoTask
  /\ scheduled_task_ = 0
  /\ scheduled_run_time_ = 0 /\ desired_run_time_ = 0 /\ asked = 0

\* id: a task that is nowhere yet.
PostNewScheduledTask(id, delay, now) ==
  /\ is_running_' = TRUE
  /\ scheduled_task_' = id
  /\ scheduled_run_time_' = now + delay
  /\ desired_run_time_' = now + delay

Reuse ==
  /\ is_running_' = TRUE
  /\ UNCHANGED <<scheduled_task_, scheduled_run_time_>>

\* Mutant: uses whatever task is scheduled.
ResetToReuses(id, delay, now) ==
  /\ asked' = now + delay
  /\ IF scheduled_task_ # 0
     THEN Reuse /\ desired_run_time_' = now + delay
     ELSE PostNewScheduledTask(id, delay, now)

\* The scheduled task is used again if it comes before the new time; if not it
\* is abandoned.
ResetTo(id, delay, now) ==
  /\ asked' = now + delay
  /\ IF scheduled_task_ # 0 /\ now + delay > scheduled_run_time_
     THEN Reuse /\ desired_run_time_' = now + delay
     ELSE PostNewScheduledTask(id, delay, now)

Start(id, delay, now) ==
  /\ delay_' = delay
  /\ ResetTo(id, delay, now)
  /\ UNCHANGED is_repeating_

Reset(id, now) ==
  /\ delay_ # NoTask
  /\ ResetTo(id, delay_, now)
  /\ UNCHANGED <<is_repeating_, delay_>>

\* The scheduled task stays where it is.
Stop ==
  /\ is_running_' = FALSE
  /\ UNCHANGED <<is_repeating_, delay_, scheduled_task_, scheduled_run_time_,
                 desired_run_time_, asked>>

\* The destructor, and another timer in its place.
StopAndAbandon ==
  /\ is_running_' = FALSE
  /\ scheduled_task_' = 0
  /\ delay_' = NoTask /\ scheduled_run_time_' = 0 /\ desired_run_time_' = 0 /\ asked' = 0
  /\ UNCHANGED is_repeating_

\* BaseTimerTaskInternal::Run(task) and RunScheduledTask, by what comes of it:
\* nothing ...
RunsForNothing(task) ==
  \/ scheduled_task_ # task /\ UNCHANGED timer
  \/ /\ scheduled_task_ = task /\ ~is_running_
     /\ scheduled_task_' = 0
     /\ UNCHANGED <<is_repeating_, is_running_, delay_, scheduled_run_time_,
                    desired_run_time_, asked>>

\* Mutant: never looks at the new time.
TooEarlyNever(now) == FALSE

\* ... another task for the rest of the time ...
TooEarly(now) == desired_run_time_ > scheduled_run_time_ /\ desired_run_time_ > now

RunsTooEarly(task, id, now) ==
  /\ scheduled_task_ = task /\ is_running_ /\ TooEarly(now)
  /\ PostNewScheduledTask(id, desired_run_time_ - now, now)
  /\ UNCHANGED <<is_repeating_, delay_, asked>>

\* ... or the user's task, after the timer was stopped or started again.
RunsUserTask(task, id, now) ==
  /\ scheduled_task_ = task /\ is_running_ /\ ~TooEarly(now)
  /\ IF is_repeating_
     THEN PostNewScheduledTask(id, delay_, now) /\ asked' = now + delay_
     ELSE /\ is_running_' = FALSE /\ scheduled_task_' = 0
          /\ UNCHANGED <<scheduled_run_time_, desired_run_time_, asked>>
  /\ UNCHANGED <<is_repeating_, delay_>>

RunScheduledTask(task, id, now) ==
  RunsForNothing(task) \/ RunsTooEarly(task, id, now) \/ RunsUserTask(task, id, now)
=============================================================================
