# WTL-DUI in TLA+

WTL-DUI takes Chromium's `base/` and `ui/` of 2012 as a Direct-UI framework for
Windows. This directory keeps specifications of the parts of it that are hard to
get right and hard to test, the TLC runs that check them and the proofs that
TLAPS checks. Every definition is translated from the code; `PROJECT.json` maps
each one to its lines, lists the runs, the deviations found, the hazards the
properties are for, and the theorems.

## Inventory

The code's own logic is in `base/` (tasks, loops, threads, timers, observers)
and `ui/` (views, focus, controls, animation, compositor). `skia/`,
`third_party/`, `tools/`, `build/` and `demo/` are vendored, generated or
examples.

| Component | State | Operations | Interacts with | What makes it correct |
|---|---|---|---|---|
| `MessageLoop` (`message_loop.cc`) | `incoming_queue_` (locked), `work_queue_`, `delayed_work_queue_`, `deferred_non_nestable_work_queue_`, `nestable_tasks_allowed_`, `recent_time_`, `next_sequence_num_`, the stack of `RunState`s | `PostTask` & co., `Run`, `RunAllPending`, `Quit`, `QuitNow`, `DoWork`, `DoDelayedWork`, `DoIdleWork`, destructor | its pump (as delegate), posting threads, the tasks | each task once; order; no task inside another unless allowed; no wake-up lost; delayed tasks neither early nor forgotten; nothing left after the destructor |
| `MessagePumpDefault` | `keep_running_`, `event_`, `delayed_work_time_` | `Run`, `Quit`, `ScheduleWork`, `ScheduleDelayedWork` | the loop | sleeps only when there is nothing to do, never past a due task |
| `MessageLoopProxyImpl` | `target_message_loop_` under `message_loop_lock_` | `PostTaskHelper`, `WillDestroyCurrentMessageLoop` | loop, posting threads | a post sees a live loop for all of the call or returns false |
| `SequencedTaskRunner` | an interface | post, nestable or not | every task runner | order and mutual exclusion of its tasks |
| `SequencedWorkerPool` | `pending_tasks_`, `current_sequences_`, `threads_`, three counters, `thread_being_created_`, `shutdown_called_`, three condition variables, one lock | `PostTask`, `ThreadLoop`, `GetWork`, `Shutdown`, `FlushForTesting` | its threads, posters, its owner | one task of a sequence at a time and in order; blockers done at shutdown; no thread leaked; no task waits without need |
| `MessagePumpWin` | `have_work_`, `delayed_work_time_`, the WM_TIMER, `RunState`; completed I/O | `ScheduleWork`, `ScheduleDelayedWork`, `HandleWorkMessage`, `HandleTimerMessage`, `WaitForIOCompletion` | the loop, Windows' queues | no lost `kMsgHaveWork`, no lost timer, no completion lost or doubled |
| `Thread`, post-and-reply | `message_loop_`, `stopping_`, `started_`; the relay | `Start`, `StopSoon`, `Stop`, `ThreadMain` | two loops | stops once; the reply comes back or the relay is deleted |
| `Timer` | `scheduled_task_`, `scheduled_run_time_`, `desired_run_time_`, `is_running_` | `Start`, `Stop`, `Reset`, `RunScheduledTask` | a loop's delayed tasks | fires once per start, never early |
| `WinXPCondVar`, `WaitableEvent` | waiting and recycling lists | `Wait`, `TimedWait`, `Signal`, `Broadcast` | locks | a signal reaches a waiter that was there |
| observer lists, weak pointers | lists with holes, notify depth | add, remove, notify | everything in `ui/` | nobody removed is notified, nobody kept is skipped |
| `FocusManager`, `ViewStorage` | focused view, stored ids | set, store, restore, advance focus | views, listeners, widgets | one focused view; a removed view is never restored |
| `TextfieldViewsModel` | text, cursor, composition, edit history | insert, delete, replace, undo, redo | the text field | undo and redo walk one line of texts |
| menus, tree, table, animation, gestures, layout, graphics, resources | see `components` in `PROJECT.json` | | | |

Hard behaviours, and where: posts racing a loop that goes to sleep or is being
destroyed; nested loops inside tasks, with one flag and one pump for all of them;
the cached clock; sequence numbers that roll over; worker threads woken by single
signals; a thread promised under a lock and created outside it; shutdown over
tasks of three kinds; events set after they may have changed hands; one message
and one timer that must keep coming while a native loop knows nothing of tasks;
edits that are merged after they were made. `PROJECT.json` lists each at its line, with the properties
that would show it going wrong, or a note where none does yet.

## Plan

1. `MessageLoop` with `MessagePumpDefault` and the proxy; `SequencedTaskRunner`,
   the abstract specification of every task runner. *Done.*
2. `SequencedWorkerPool`: each of its sequences implements `SequencedTaskRunner`.
   *Done.*
3. `MessagePumpForUI`, with the part of the `MessageLoop` that it calls: the
   `have_work_` handshake, the one WM_TIMER, native modal loops. `Timer` on top of
   it, in one run. *Done.*
4. `TextfieldViewsModel`: the edit history with its merges, shown to implement
   `UndoHistory`, a row of texts. *Done.*
5. `WinXPCondVar`, shown to implement `ConditionVariable` (what
   `SequencedWorkerPool` takes for granted). *Done.*
6. Left: `ObserverList`, `FocusManager` with `ViewStorage`, `Thread` with the
   post-and-reply relay, `MessagePumpForIO`, `MenuController`.

Theorems: every safety property of the loop, the pool, the condition variable, the pump,
the timer and the text field's history, the two refinements of `SequencedTaskRunner`,
that of `UndoHistory`, and the steps of that of `ConditionVariable` (*done*). Left:
the components of item 6.

Modules take their bounds as `CONSTANTS` with named assumptions, have one action
per operation, and none uses a `RECURSIVE` operator, so that all can be proved
about. `MC*` modules hold refinement mappings; the `.cfg` files hold the bounds.

## MessageLoop

A task is its number in posting order (the order in which the pushes took
`incoming_queue_lock_`); `log[t]` is its `PendingTask`. The queues hold numbers.
The loop's thread is a stack `frame[1..depth]`, one frame per `MessageLoop::Run`
on the C++ stack. A frame's `pc` is the call that the pump is making on its
delegate, or the wait; its `task` is the task that call is running; the rest are
`did_work`, `quit_received` and whether a `ScopedNestableTaskAllower` is open
around the `Run`. Only the top frame moves.

| Code | Model |
|---|---|
| `AddToIncomingQueue` on another thread | `LoopPost` or `ProxyPost` (time is read, the proxy's lock is taken), then `PostPushOnly` or `PostPushFirst` and `PostScheduleWork`: the push and the signal are separate steps |
| the same on the loop's thread | `AddToIncomingQueue`, one step: the loop is not waiting then |
| `DoWork` | `DoWorkNotAllowed`, `ReloadWorkQueue`, `DoWorkEmpty`, `DoWorkDelayed`, `DoWorkDefer`, `DoWorkRun`: one per way through it |
| `DoDelayedWork` | `DoDelayedWorkNothing`, `...NotDue`, `...Run`, `...Defer` |
| `DoIdleWork` and the pump's wait | `DoIdleWorkRun`, `DoIdleWorkQuit`, `DoIdleWorkBlock`, `WaitReturns` |
| a task's body | `ThreadPosts`, `TaskQuits`, `TaskQuitsNow`, `TaskNests`, `TaskReturns` in any order |
| `~MessageLoop` | `DestroyBegins` ... `DestroyEnds`; what a deleted task's destructor posts is part of `DeletePendingTasks` |
| `TimeTicks::Now` | `now`, advanced by `Tick` between any two steps |

`seen`, `quit_posted`, `quit_time`, `started` and `deleted` are history for the
properties. A delayed task's run time is a number and a tie is decided by the
sequence numbers' difference modulo `SequenceModulus` (2^32 in the code), signed
as the code's `int` is. Closures are told apart only by `Equals`, which
the code asks of delayed tasks alone.

What the code asks of its callers is taken as given: a thread that posts to the
`MessageLoop` itself keeps it alive until its push is over; `QuitNow` is not
followed by a nested `Run` in the same task (the pump's `DCHECK`); a nested `Run`
that could neither run a task nor quit is not started, as it would never return.

### Properties

* `EachTaskOnce`: a posted task is in one place of one queue, started once, or
  deleted. `ImplementsSequencedTaskRunner`: every step of the loop is one of
  `SequencedTaskRunner` or changes nothing it knows of, so nestable tasks are never
  overtaken, whichever queues the tasks pass through.
* `NoLostWakeup`, `NeverOversleeps`: the wait is entered only with a signal on its
  way for what is in `incoming_queue_`, and with a limit no later than the first
  delayed task.
* `ReentrancyProtected`, `NeverEarly`, `QuitDrains`, `NothingOutlivesTheLoop`.
* `NestableEventuallyRuns`, `NonNestableEventuallyRuns`: liveness.

### Where the code and its documentation differ

* `SequencedTaskRunnerOrder` (run `order`): a non-nestable task deferred in a
  nested loop runs after later non-nestable tasks, since the outer loop's `DoWork`
  goes before its `DoIdleWork`. `sequenced_task_runner.h` promises FIFO.
  What does hold is what `SequencedTaskRunner` with `NonNestableInOrder = FALSE` says.
* `QuitDrainsAllRunnable` (run `drain`): `RunAllPending` in a nested loop leaves a
  due delayed task behind one that cannot be run there. `QuitDrains` states what holds.

## SequencedWorkerPool

Tasks are numbered by their `push_back` under `lock_`, and `pending_tasks` is the set
of the numbers in the list, which is only appended to and erased from. What the code
does between taking and releasing the lock is one step where nobody can tell; a worker
that goes on to `GetWork` holds `lock` from one step to the next, as in the code, and
every step that takes the lock waits for it to be free. `worker[w].pc` is the
place in `ThreadLoop`, `poster[p]` the part of `PostTask` that is left to do
outside the lock (a signal, or a thread to be created; a worker that promised a
thread in `WillRunWorkerTask` has it there too), `owner` the thread in `Shutdown`
or `FlushForTesting`. Condition variables are taken as what they promise: a signal
wakes one thread that is waiting at that moment, any one, or nobody. Signals
without work (`SignalHasWorkForTesting`) may come at any time.

The code tells `BLOCK_SHUTDOWN` from the rest and never `CONTINUE_ON_SHUTDOWN` from
`SKIP_ON_SHUTDOWN`, so the runs use two of the three. Nobody flushes a pool that is
shut down: threads that have left never count as waiting again.

* `ImplementsSequencedTaskRunner`: for each token, the tasks posted with it form a
  `SequencedTaskRunner` in strict order (`NonNestableInOrder = TRUE`). The runner of
  one sequence sees all tasks of the pool, those of other sequences as tasks with
  a delay that never pass, so that task numbers need no translation.
* `ShutdownWaitsForBlockers`, `NoThreadLeaked`: what holds when `Shutdown` returns.
* `DeletedInSequence`: shutdown deletes no task while an earlier one of its
  sequence is running. (A later one may: the deletion is outside the lock and the
  sequence is not marked as in use for it.)
* `WorkConserving`: a runnable task waits only while a worker or a thread in the
  making is on its way to `GetWork`, or a poster on its way to signal, or all
  `max_threads_` are busy. It holds without counting the signal after
  `WillRunWorkerTask`, which bears out the code's remark that it is not required.
* `FlushMeansDone`, `TasksFinish`, `OwnerReturns`, `WorkersEnd`.

Two runs show the code at odds with what it says: `pool_lock`
(`DeletedOutsideLock`, dropped tasks deleted under the lock when the worker leaves)
and `pool_skip` (`SkipInProgressCompletes`, `Shutdown` does not wait for a
`SKIP_ON_SHUTDOWN` task in progress).

## WinXPCondVar

`ConditionVariable` is what `condition_variable.h` promises: `Wait` gives up the lock
and starts to wait in one step, `Signal` revives one waiter, `Broadcast` all, a
revived thread comes back with the lock; a wait may also end without a reason.
`WinXPCondVar` is how that is made from auto-reset events on Windows XP.

`thread[t]` is where a thread is: in `TimedWait` (`releasing` the user's lock,
`waiting` for its event, `woken`, `relocking`), in `Signal` or `Broadcast` (`setting`
the events in `handles`, one step each), or in the destructor. What is done under
`internal_lock_` is one step. Events are numbered as they are allocated; the sets of
the two lists and `recycling_list_size_` are the code's.

* `ImplementsConditionVariable` (`MCWinXPCondVar`): a thread waits, for `ConditionVariable`,
  from the moment its event is on `waiting_list_` and is revived when it is taken
  off. In between it may be holding the user's lock, have timed out, or have its event
  handed to another thread.
* `NoLostSignal`: a thread whose event was taken is about to be woken, however
  often events change hands before they are set. `NoSpuriousWakeup`: without time
  limits no thread wakes unchosen. With them it may: a waiter that times out
  between the taking and the setting of its event leaves the event set for whoever
  gets it next (the code's FAQ 3 and 4 say so).
* `EventsAccounted`: no event leaks or is in two places, and there are no more
  events than threads. `DestroyedAlone`: when the destructor frees them nobody uses one.

Taken as given: `Sleep(10)` is long enough for every thread that can move to leave
`TimedWait`; nobody is in `Signal` or `Broadcast` when the destructor begins. The
conversion of `max_time` to milliseconds is left out, as a limit may pass at any time.

## MessagePumpForUI and Timer

One thread runs window messages, tasks and delayed tasks. `MessagePumpForUI` models
it as the stack of the calls it is in: `run` is `DoRunLoop` with its `RunState`, `work`
and `timer` are `HandleWorkMessage` and `HandleTimerMessage`, `body` a task or a window's
handler, `native` a modal loop of the system (a message box, a menu), which
dispatches messages and knows nothing of tasks. A body may open either kind
of loop, with or without letting tasks run in it, and tell the innermost `Run` to quit.

| Code | Model |
|---|---|
| `ScheduleWork` on another thread | `PosterPushes`, `PosterExchanges`, `PosterPosts`: the push, the exchange of `have_work_`, the message |
| `DoRunLoop` | `ProcessNextWindowsMessage`, `DoWork`, `DoDelayedWork`, `DelayedWorkDone`, `WaitForWork`, `RunEnds` |
| `ProcessPumpReplacementMessage` | `PeekReplacement`, `DispatchReplacement`: posters come in between |
| `HandleWorkMessage` | `WorkOutsideRun`, or the two above, `DoWork` and `WorkMessageHandled` |
| `HandleTimerMessage` | `KillTimer`, `DoDelayedWork`, `TimerMessageHandled` |
| Windows' queue | `messages`, and a WM_TIMER made up when nothing is posted and `wm_timer` has passed |

Of `MessageLoop` there is what this needs: the incoming, work and delayed queues
and `nestable_tasks_allowed_`; `DoIdleWork` has nothing to do, since no task is deferred
and none quits by it. `Timer` has `Start`, `Stop`, `Reset` and what a `BaseTimerTaskInternal` does
when it runs; `UITimer` posts those to the loop and lets bodies call the timer.

* `WorkMessageAccounted`: at most one `kMsgHaveWork` is ever pending, and `have_work_` is 1
  exactly while it is in the queue, about to be posted, or taken by a call that
  will clear the flag.
* `RunWakesInTime`: when `Run` sleeps, a task that waits has a message on its way
  and the sleep ends no later than the first delayed task is due.
* `ModalLoopServesTasks`, `ModalLoopServesTimers`: in a native loop that lets tasks run,
  a waiting task has a `kMsgHaveWork` on its way, and a delayed one the WM_TIMER in time.
  Each has exceptions that the code has, and that the model found:
  - A modal loop opened by the handler of a message that `Run` took directly from
    the queue (`DirectFromRun`) may start with tasks waiting and no `kMsgHaveWork`: `Run`
    was going to call `DoWork` itself, and `ScopedNestableTaskAllower` sends no message
    where tasks are allowed already. If the tasks are in `incoming_queue_`, later
    posts send none either. `message_pump_win.h:110-113` says the pump is restarted when
    tasks are queued.
  - A WM_TIMER that is handled while tasks are not allowed, or outside `Run`, is
    killed and not set again (`timer_dropped`): `DoDelayedWork` makes the time null.
  - While a delayed task runs from `HandleTimerMessage` the timer is not set: that
    comes after the task, which may have opened a modal loop.

  `ModalLoopServesTasks` is claimed of two loops on top of each other, a `Run` with a
  modal loop or another `Run` in it (`MaxLoops = 2`). With a third one TLC finds tasks that
  wait in a modal loop with no `kMsgHaveWork`, in three ways: the gap of
  `DirectFromRun` goes on in a modal loop that a handler of that modal loop opens; a delayed
  task run by `HandleTimerMessage` opens a modal loop where tasks are not allowed,
  which uses up the `kMsgHaveWork`, and nobody posts another when it ends
  (`message_pump_win.cc:292-316`; `RunTask` sets `nestable_tasks_allowed_` back without
  `ScheduleWork`); and a nested `Run` that is quit leaves the rest of `work_queue_`
  to the modal loop below it. In each the tasks wait until that modal loop ends.
* `TimerHasTask`, `NeverFiresEarly`: a running timer has its scheduled task in the loop,
  due when it wants it or before, and the user's task never runs early or after
  `Stop`, in whatever order `Start`, `Reset`, `Stop` and abandoning come, within bodies of
  nested loops too.

Left out: sent messages, WM_QUIT, dispatchers, observers and message filters,
`os_modal_loop`, `PumpOutPendingPaintMessages`, the wait for mouse input; deferred
tasks; `recent_time_` (a task is due when its time has come; see `MessageLoop` for the
cache); rounding to milliseconds; two readings of the clock within one call agree.
`DispatchReplacement` clears `have_work_` and, in the same step, posts the message that
comes after: in between a poster could post it instead, which comes to the same.
`retain_user_task_` is true, and a repeating timer has a delay.

## TextfieldViewsModel

`UndoHistory` is a row of texts with a place in it: undo and redo move the place, a
change forgets what lies ahead and adds a text or alters the one at the place, and
nothing else ever changes a text. The code keeps no texts but edits, each with what
it takes out and puts in and where, and alters the last edit when it merges.
`TextsOf` is the row that undoing and redoing these edits would give.

`model` is the field: text, selection (its end is the cursor), composition, edits and
how many are done. Each method of the class is an action; the actions share the
class's own helpers under their names. A text is a sequence of characters which the
code never looks at, so that each call brings new ones: one that lands in the wrong
place, or is cut instead of another, is seen.

* `ImplementsUndoHistory` (`MCTextfieldViewsModel`): for any sequence of calls, with merged
  edits, replaced texts and compositions that are confirmed, cancelled or overtaken by
  an undo or a drop, the texts that undo and redo give are those of an `UndoHistory`.
* `EditsFit`: every edit finds what it is to take out: `Edit::Undo` and `Redo` cut by position
  and length without looking.
* `DropsInsert` is what the header says of `DeleteSelectionAndInsertTextAt`, and it is
  violated. `OnPerformDrop` takes what is selected before the place off the position
  (`DropPosition`). When the selection is in a composition the method first cancels all
  of that, and the position may lie past the text that is left: with "ab" composed, "a"
  selected and dropped behind "b", it is 1 in an empty text. The edit is recorded, then
  `ModifyText` calls `text.insert`, which throws `out_of_range`. Nothing in `src/ui` or `src/base`
  catches that, so that the program ends; the model stops there (`thrown`), and the two
  properties above promise nothing of the step and the state that it leaves.
* `TypeOK` is of interest here: `MergeReplace` leaves the position of the cursor after
  redo as it was before the merge, and only `RenderText` keeps it in the text.

Cursors are not part of what `UndoHistory` promises: redo puts the cursor where the edit
left it, which after `Append` and after merged replacements is not where the user had it.
Left out: word breaks, graphemes and directions (any selection may be made), obscured
text, the clipboard, drawing; an empty text that is dropped. `Undo` and `Redo` during a composition cancel it, as a
release build does.

## Runs and bounds

| Run | Bounds | Why they are enough to be of interest |
|---|---|---|
| `nested` | 3 tasks, 2 closures, delays 0 and 1, 2 nested Runs, clock to 3, sequence numbers starting at 7 of 8 | two tasks can be ordered by any pair of queues with a third one that nests, posts or quits; the roll-over happens with the second delayed task; delayed tasks are equal or not |
| `destroy` | 2 posting threads (loop, proxy), 2 tasks, 2 nested Runs, clock to 2, purge limit 2 | a push races every step of going to sleep and of the destructor; a deleted task posts another, and the limit is reached; as large as the temporal check allows |
| `order`, `drain` | as `nested`, 1 closure | |
| `pool` | 3 threads, 3 tasks, tokens 0 (none) and 1, two behaviours, an outside poster | one thread runs, one waits, one is being created; tasks post tasks |
| `pool_live` | 2 threads, otherwise as `pool` | the temporal check |
| `pool_lock`, `pool_skip` | as `pool_live` | |
| `condvar` | 2 threads that wait, 3 that signal, broadcast and destroy, one of them both | an event is taken by one signaller, times out, is recycled to the other waiter and taken by the second signaller before the first has set it |
| `ui_timer` | 1 poster, 1 plain task and 2 scheduled ones, 1 window message at a time, 2 loops on top of each other, clock to 1, delays 0 and 1 | a loop in a task or handler of a loop, of either kind; a scheduled task abandoned and one reused for a later time |
| `textfield` | texts up to 2 characters, 2 edits, 5 calls | insert, merge, undo, redo and a composition in one run; an edit merged into one that was merged; a drop of a part of a composition; longer histories repeat what two edits do to each other |
| `textfield_drop` | as `textfield`, 4 calls | a composition of two characters with one of them selected |

`CHECK_DEADLOCK FALSE` everywhere but in `ui_timer`, whose thread can always go on: the
other systems may stop, with the last task run, the loop destroyed, the bounds
reached, the pool shut down or every thread waiting on a condition variable. That
nothing stops too early is what the liveness properties say. Symmetry is not used: posting threads differ in kind and
workers are numbered.

## Fairness

`MessageLoop!Fairness`: the loop's thread and a post that has begun go on (they are
running threads and wait for nothing but the modelled event and lock); tasks
return, strongly, since other steps of a task come between; the clock goes on.
Nobody is obliged to post, quit, nest, call `Run` or destroy the loop; both
properties excuse tasks from running once `Run` has returned. `NonNestableEventuallyRuns` assumes in its statement that nested
loops return infinitely often.

`SequencedWorkerPool!Fairness`: strong for workers and the owner, because each of
their steps may need the lock, which others take and release in between; a lock
that starves a thread for ever would be the operating system's fault. Tasks
return. Nobody is obliged to post, flush or shut down.

`WinXPCondVar!Fairness`: weak for each step of a thread inside a call, which runs or
waits for an event that stays set; strong for getting back the user's lock, which
others take and release. Nobody need signal, and no limit need pass. It is there for the
fairness of `ConditionVariable`, which the refinement checks: a revived thread returns.

`UITimer` and `TextfieldViewsModel` state safety only. What the pump must do in the end
is said by the messages and timers that must be on their way (`RunWakesInTime`,
`ModalLoopServesTasks`, `ModalLoopServesTimers`, `TimerHasTask`); the state space is too
large for a temporal check in reasonable time.

## Proofs

`MessageLoopProofs` proves of `MessageLoop`, for all constants that meet its
assumptions (any number of posters, tasks, nested Runs, delays, any modulus):

* `TypeCorrect`: `Spec => []TypeOK`. `TypeOK` is inductive as it stands; the proof
  has one lemma per part of `Next` and lemmas for the pieces of state they share.
* `NoLostWakeupHolds` and `ReentrancyProtectedHolds` from the invariant `ControlInv`.
  `NoLostWakeup` is not inductive: the pump has looked at the queue long before it
  waits. `Quiescent => WakeupPending` says it from the moment `DoWork` has found
  both queues empty and returns false, and needs `StackInv`: every frame below the
  top is in a task (`Suspended`), a frame that waits was not told to quit
  (`WaitsWhenIdle`), and `nestable_tasks_allowed_` is what the stack says it is
  (`AllowedByStack`): a loop that waits is one in which `DoWork` did look.
  `ReentrancyProtected` is part of `StackInv`, as the flag alone says nothing of
  the tasks of the frames below.
* `NeverEarlyHolds`: from `ClockInv`: `recent_time_` never runs ahead of the clock,
  and a deferred task was due when it was deferred.

`SequencedWorkerPoolProofs` proves of `SequencedWorkerPool`, for any number of
threads, posters, tasks and sequences, from the invariant `PoolInv`:

* `PoolTypeCorrect`: `Spec => []TypeOK`. Unlike the loop's it is not inductive: that
  a counter stays within its bounds follows only from what it counts.
* `ShutdownWaitsForBlockersHolds`: `Shutdown` looks at two counters, and the property
  speaks of tasks. `CountsMatch` says that the counters are the numbers of the
  waiting workers, the workers with a blocking task and the blocking tasks in the
  list; `TasksPlaced` that a task is in the list, with a worker, finished or
  dropped, and no blocking one dropped; `StaysShutDown` that the condition which
  `Shutdown` saw stays true, as no task is accepted and no thread promised after it.
* `NoThreadLeakedHolds`: `OneThreadAtATime` says that `thread_being_created_` covers a
  thread from the promise under the lock, through its creation without it, until
  it has put itself on `threads_`, that there is one such thread at most, and that
  it gets the next number.

`MessageLoopTaskProofs` goes on with the tasks of the loop, for any number of posters,
tasks, nested Runs and delays:

* `EachTaskOnceHolds` from `PlacesInv`: the incoming queue, the work queue, the deferred
  queue, the delayed queue, the started and the deleted tasks divide the posted ones
  among them (`Divided`), and no list names one twice (`NoneTwice`). The property counts, the
  invariant speaks of sets; `ListLemmas` goes between them.
* `NothingOutlivesTheLoopHolds` from `GoneInv`: who may still post in which part of the
  destructor. A post through the proxy holds the proxy's lock to its end, so that
  `WillDestroyCurrentMessageLoop` waits for it.
* `NeverOversleepsHolds` from `SleepInv`: what the pump knows of the queues from the
  moment `DoWork` returned false, step by step up to the wait.
* `QuitDrainsHolds` from `DrainInv`: what a `Run` that was told to quit has already
  taken off `incoming_queue_`, and off the delayed queue.

It also proves `ImplementsSequencedTaskRunnerHolds`: the initial states
and every step of the loop map to those of `SequencedTaskRunner`. `StampsInv` says that
posts with the same or a higher delay that begin later have later run times (the
post reads the clock before it takes the lock), `BoundInv` that the bound on tasks
leaves room for each post that has begun, and `OrderInv` that tasks leave the queues in posting order,
that the sequence numbers of delayed tasks are ordered as the tasks, and that a
deferred task has nobody left to wait for. It relies on `RollOverAssumption`
(`MCMessageLoop`): there are fewer tasks than an `int` has positive values, since the code
orders two sequence numbers by the sign of their difference. More delayed tasks with
one run time than that (2^31) the code does not order.

`SequencedWorkerPoolTaskProofs` goes on with the tasks of the pool, for any number of
threads, posters, tasks and sequences:

* `DeletedInSequenceHolds` and `ImplementsSequencedTaskRunnerHolds` from `TaskInv`, which adds
  to `PoolInv` that no two workers have one task, that `current_sequences_` names the
  sequences of the tasks the workers have, each for one worker, and that all that was before
  a task in its sequence is done with once the task leaves the list. `GetWork`
  keeps it because it takes the first task that it may run: that there is a first one is the least-element lemma,
  from `WellFoundedInduction`.
* `FlushMeansDoneHolds`: `DropsInShutdown` (only shutdown drops tasks and lets workers leave), and that
  as many waiting threads as threads are all of them.
* `WorkConservingHolds` from `HelpInv`: while a thread sleeps, there is for each task that
  could be taken now another worker, or thread with a signal to send, on its way
  (`HelpCounted`: only `GetWork` makes fewer tasks takeable, and each post and each
  finished task makes one more at most); when no thread sleeps one is promised, or
  somebody is about to look (`ThreadPromised`), and the promise is kept.

`WinXPCondVarProofs` proves of `WinXPCondVar`, for any finite set of threads:

* `CondVarTypeCorrect` and `EventsAccountedHolds` from `EventInv`: an event is free or has
  one owner, one on `waiting_list_` has an owner, handles are held only while they are set.
* `NoLostSignalHolds` and `DestroyedAloneHolds` from `CondVarInv`: `NoLostSignal` is
  inductive with it, and `DestructorInv` says that the destructor is one thread that
  empties `waiting_list_` before it sleeps and lets nobody in any more.
* `NoSpuriousWakeupHolds` from `ChosenInv`: while no limit has passed an event is
  chosen once, and for a thread that still sleeps.
* `StepsImplementConditionVariable`: every step is one of `ConditionVariable` or changes
  nothing it knows of.

`UITimerProofs` proves of `UITimer`, for any finite set of posting threads, any
number of tasks, of loops on top of each other (two in `ModalLoopServesTasksHolds`), and
any delays:

* `UITimerTypeCorrect` from the nine parts of `IInv` together: that the delay of a running timer
  is known and its times are in bounds depends on what the tasks that run can be.
* `WorkMessageAccountedHolds` from `WorkInv`, a sum: the `kMsgHaveWork` in the queue, the
  posters about to post one and the calls that have taken one make `have_work_`. It
  needs `FramesInv`: a call that is about to dispatch a replacement message does not hold
  another `kMsgHaveWork`.
* `RunWakesInTimeHolds` from `RestInv`: from the moment `DoWork` returned false `work_queue_` is
  empty and what others post is announced, and from `DoDelayedWork` on
  `delayed_work_time_` is that of the first delayed task. Both rest on `NestInv` (a `Run` whose
  frame is on top has tasks allowed; the flag is what the frames of the stack make of
  it) and on `LowerInv` (a `Run` that has called another loop finds that it has
  more to do when that returns, and looks again).
* `TimerHasTaskHolds` and `NeverFiresEarlyHolds` from `OnceInv` (a scheduled task is held
  once, in one of three queues or by one frame), `ScheduledInv` (the timer's task is held with
  `scheduled_run_time_`, or without a time once that has passed) and `RunningInv`. A
  step moves tasks between four lists; the proof counts their entries (`Queued`,
  `Stacked`) and says for each kind of step what it does to the sum.
* `ModalLoopServesTimersHolds` from `ServedInv`, which speaks of all loops, those too that
  let no task run. The delayed queue stays in the order of time (`InsertSorts`: a task goes
  behind the last one that is not later). `delayed_work_time_` is then the time of its first
  task, unless a WM_TIMER that was handled where no task may run made it null; and the
  timer is set for that time or an earlier one, unless its message is being handled.
* `ModalLoopServesTasksHolds` assumes `MaxLoops <= 2`: with three loops the property fails in the ways
  told above, and its proof has to know that there is no third. `ShapeInv` says which
  frame may stand on which: one loop at the bottom, one more at most, and what each
  calls. `TasksInv` is about a modal loop that a task opened: it starts with tasks not
  allowed, so that allowing them (`AllowNestableTasks`) posts a `kMsgHaveWork`, and from
  then on either the tasks that wait are signalled or a `HandleWorkMessage` on top of
  the loop has yet to look at them. A modal loop that no task opened, and that a `Run`
  is below, was opened by a message: this is `DirectFromRun`.

`TextfieldViewsModelProofs` proves of `TextfieldViewsModel`, for texts and histories of
any length and any row of calls:

* `TypeOKHolds`, `EditsFitHolds` and `ImplementsUndoHistoryHolds` from `HInv`. The row of texts of
  which `HInv` speaks is there until a drop throws; what that leaves is still of its types
  (`DropThrows`), and every drop that has room is a step of the history, over a
  composition or not (`DropOutcome`). `TextsOf` unwinds the
  whole list of edits, and no induction over the list is to be had here. `HInv` does without:
  there is a row of texts such that each edit leads from one to the next and back
  (`Links`), and the one at `current_edit_` is the text of the field. A method keeps this by
  naming the row it leaves: that of before, cut off at the place and with the new text
  after it, or with the text at the place altered (`MergedLinks`, `MergedReplaceLinks`: that the edit that was altered
  still leads to it). Any such row is the one `TextsOf` unwinds (`HistoryIsTextsOf`), since a first
  place where they differ contradicts `Links` at the place before: the least-element
  lemma of `ListLemmas`.
* The steps of `UndoHistory` are then read off the rows: no method changes a text at another place.

The proofs found three assumptions that the modules had not stated: `Nobody` is no
poster (`PostersAssumption`), `RollOverAssumption`, and the posters of the pump are finitely
many (`PumpAssumption`).

Only model-checked:

* all liveness (`NestableEventuallyRuns`, `NonNestableEventuallyRuns`, `TasksFinish`,
  `OwnerReturns`, `WorkersEnd`) and the fairness that `ImplementsConditionVariable`
  asks for: out of reach of this prover, as is `ENABLED`;
* the five properties that runs show violated.

## Not modelled

Observers and destruction observers, exception filters, task annotations,
histograms, tracing, high resolution timers, `os_modal_loop_`; the table of token
names, the deferred deletion of the pool and the join in its destructor; and the
components with status `not_modelled` in `PROJECT.json`, with the reasons there. What
the later sections leave out of their components is said in them. Most of the
source is out of scope by its nature: drawing, layout, resources, wrappers of the
Windows API and tests have no protocol to check.
