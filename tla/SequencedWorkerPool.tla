------------------------- MODULE SequencedWorkerPool -------------------------
(***************************************************************************)
(* base::SequencedWorkerPool: worker threads that share one list of        *)
(* pending tasks, in which the tasks of one sequence token run one by one, *)
(* in order, and whose Shutdown waits for the tasks that block it.         *)
(*                                                                         *)
(* A task is its number in posting order (the order of the push_backs onto *)
(* pending_tasks_ under lock_) and log[t] is the SequencedTask.  The list  *)
(* is the set of the numbers in it: the code only appends to it and erases *)
(* from it, so that its order is the order of the numbers.  What the       *)
(* code does between taking and releasing lock_ is one step where nobody   *)
(* else can see the difference; a worker that goes on to GetWork keeps the *)
(* lock from one step to the next.                                         *)
(***************************************************************************)
EXTENDS Naturals, Sequences, FiniteSets

CONSTANTS
  Posters,     \* threads outside the pool that post to it
  Tokens,      \* sequence tokens; 0 is no token
  Behaviors,   \* the WorkerShutdown values tasks are posted with
  MaxThreads,  \* max_threads_
  MaxTasks     \* bound: tasks posted in a behaviour

WorkerShutdown == {"CONTINUE_ON_SHUTDOWN", "SKIP_ON_SHUTDOWN", "BLOCK_SHUTDOWN"}

\* Workers are numbered in the order they are created; 0 is none of them.
Worker == 1 .. MaxThreads
Nobody == 0

ASSUME PostersAssumption == Posters \cap Worker = {}
ASSUME TokensAssumption == Tokens \subseteq Nat
ASSUME BehaviorsAssumption == Behaviors \subseteq WorkerShutdown
ASSUME ThreadsAssumption == MaxThreads \in Nat \ {0}
ASSUME TasksAssumption == MaxTasks \in Nat

VARIABLES
  lock,                                     \* lock_: the worker that has it
  pending_tasks, current_sequences, threads,
  thread_being_created, waiting_thread_count,
  blocking_shutdown_thread_count, blocking_shutdown_pending_task_count,
  shutdown_called,
  worker,                                   \* the workers' ThreadLoops
  poster,                                   \* calls of PostTask under way
  owner,                                    \* the thread the pool belongs to
  log, begun, finished, dropped             \* history

counts == <<waiting_thread_count, blocking_shutdown_thread_count,
            blocking_shutdown_pending_task_count>>
underLock == <<lock, pending_tasks, current_sequences, threads,
               thread_being_created, counts, shutdown_called>>
history == <<log, begun, finished, dropped>>
vars == <<underLock, worker, poster, owner, history>>

Task == 1 .. Len(log)
Caller == Posters \cup Worker
Blocks(t) == log[t].shutdown_behavior = "BLOCK_SHUTDOWN"
Token(t) == log[t].sequence_token_id

\* A worker: where it is in ThreadLoop, the task it took (0: none) and its
\* delete_these_outside_lock.
NoWorker == [pc |-> "none", task |-> 0, delete_these |-> {}]

Init ==
  /\ lock = Nobody
  /\ pending_tasks = {} /\ current_sequences = {} /\ threads = {}
  /\ thread_being_created = FALSE /\ waiting_thread_count = 0
  /\ blocking_shutdown_thread_count = 0
  /\ blocking_shutdown_pending_task_count = 0
  /\ shutdown_called = FALSE
  /\ worker = [w \in Worker |-> NoWorker]
  /\ poster = [p \in Caller |-> "idle"]
  /\ owner = "idle"
  /\ log = <<>> /\ begun = {} /\ finished = {} /\ dropped = {}

-----------------------------------------------------------------------------
(* Condition variables and the predicates the code tests under the lock.   *)

\* has_work_cv_.Signal(): one waiting worker is woken, if there is one.
SignalHasWork(workers) ==
  LET waiting == {w \in Worker : workers[w].pc = "waiting"} IN
    IF waiting = {} THEN {workers}
    ELSE {[workers EXCEPT ![w].pc = "woken"] : w \in waiting}

IsSequenceTokenRunnable(token, sequences) == token = 0 \/ token \notin sequences

\* The owner has returned from the wait it is in, on either of its variables.
Woken(waits, woken) == IF owner = waits THEN woken ELSE owner

\* Mutant of CanShutdown: tasks that are running are forgotten.
CanShutdownWhileRunning ==
  ~thread_being_created /\ blocking_shutdown_pending_task_count = 0

\* Mutant of CanShutdown: the thread that is being created is forgotten.
CanShutdownWhileCreating ==
  /\ blocking_shutdown_thread_count = 0
  /\ blocking_shutdown_pending_task_count = 0

CanShutdown ==
  /\ ~thread_being_created
  /\ blocking_shutdown_thread_count = 0
  /\ blocking_shutdown_pending_task_count = 0

\* Mutant of IsIdle: tasks that are running are forgotten.
IsIdleWhileRunning(waiting) == pending_tasks = {}

IsIdle(waiting) == pending_tasks = {} /\ waiting = Cardinality(threads)

\* No thread is free, one more may be made, and it would find a task to run.
HelpfulThread(tasks, sequences) ==
  /\ ~shutdown_called /\ ~thread_being_created
  /\ Cardinality(threads) < MaxThreads /\ waiting_thread_count = 0
  /\ \E t \in tasks : IsSequenceTokenRunnable(log'[t].sequence_token_id,
                                                     sequences)

\* A thread is promised: p is to create it once it has let go of the lock.
PrepareToStartAdditionalThreadIfHelpful(p, otherwise) ==
  LET helpful == HelpfulThread(pending_tasks', current_sequences') IN
    /\ thread_being_created' = (thread_being_created \/ helpful)
    /\ poster' = [poster EXCEPT ![p] = IF helpful THEN "create" ELSE otherwise]

-----------------------------------------------------------------------------
(* Posting, from any thread: from a task too, which runs on a worker.      *)

MayPost(p) == poster[p] = "idle" /\ (p \in Worker => worker[p].pc = "running")

\* PostTask under the lock.  Once shutdown_called_ is set it returns false.
PostTask(p, token, behavior) ==
  /\ lock = Nobody /\ MayPost(p) /\ ~shutdown_called
  /\ Len(log) < MaxTasks
  /\ log' = Append(log, [sequence_token_id |-> token,
                         shutdown_behavior |-> behavior])
  /\ pending_tasks' = pending_tasks \cup {Len(log) + 1}
  /\ blocking_shutdown_pending_task_count' =
       blocking_shutdown_pending_task_count
       + IF behavior = "BLOCK_SHUTDOWN" THEN 1 ELSE 0
  /\ UNCHANGED current_sequences
  /\ PrepareToStartAdditionalThreadIfHelpful(p, "signal")
  /\ UNCHANGED <<lock, threads, waiting_thread_count,
                 blocking_shutdown_thread_count, shutdown_called, worker,
                 owner, begun, finished, dropped>>

\* Mutant of PostSignals: nobody is told of the task.
PostSignalsNobody(p) ==
  /\ poster[p] = "signal"
  /\ poster' = [poster EXCEPT ![p] = "idle"]
  /\ UNCHANGED <<underLock, worker, owner, history>>

\* The rest of PostTask, outside the lock, when no thread is to be created.
PostSignals(p) ==
  /\ poster[p] = "signal"
  /\ worker' \in SignalHasWork(worker)
  /\ poster' = [poster EXCEPT ![p] = "idle"]
  /\ UNCHANGED <<underLock, owner, history>>

\* Called outside the lock: by PostTask, and by ThreadLoop after its signal.
FinishStartingAdditionalThread(p) ==
  /\ poster[p] = "create"
  /\ p \in Worker => worker[p].pc # "claimed"
  /\ poster' = [poster EXCEPT ![p] = "idle"]
  /\ worker' = [worker EXCEPT ![Cardinality(threads) + 1].pc = "created"]
  /\ UNCHANGED <<underLock, owner, history>>

Post(p) ==
  \/ \E token \in Tokens, behavior \in Behaviors : PostTask(p, token, behavior)
  \/ PostSignals(p)
  \/ FinishStartingAdditionalThread(p)

-----------------------------------------------------------------------------
(* GetWork: the first task in the list whose sequence is not in use, past  *)
(* those that shutdown drops.  The worker w holds the lock.                *)

InGetWork(w) == lock = w /\ worker[w].pc = "getwork"

IsRunnable(t) == IsSequenceTokenRunnable(Token(t), current_sequences)

\* Mutant of IsDiscarded: shutdown drops tasks that are not runnable too.
IsDiscardedAnyway(t) == shutdown_called /\ ~Blocks(t)

IsDiscarded(t) == IsRunnable(t) /\ shutdown_called /\ ~Blocks(t)

\* Mutant of Finds: any task will do.
FindsAny == {t \in pending_tasks : IsRunnable(t) /\ ~IsDiscarded(t)}

\* What GetWork finds: the first task it can take, or none.
Finds ==
  {t \in pending_tasks :
     /\ IsRunnable(t) /\ ~IsDiscarded(t)
     /\ \A u \in pending_tasks : u < t => ~IsRunnable(u) \/ IsDiscarded(u)}

Discarded == {t \in pending_tasks : IsDiscarded(t)}

\* Mutant of WillRunWorkerTask: no thread is made for the tasks behind t.
WillRunWorkerTaskAlone(w, t) ==
  /\ current_sequences' = current_sequences \cup ({Token(t)} \ {0})
  /\ blocking_shutdown_thread_count' =
       blocking_shutdown_thread_count + IF Blocks(t) THEN 1 ELSE 0
  /\ UNCHANGED <<thread_being_created, poster>>

WillRunWorkerTask(w, t) ==
  /\ current_sequences' = current_sequences \cup ({Token(t)} \ {0})
  /\ blocking_shutdown_thread_count' =
       blocking_shutdown_thread_count + IF Blocks(t) THEN 1 ELSE 0
  /\ PrepareToStartAdditionalThreadIfHelpful(w, "idle")

\* A worker takes a task: GetWork, WillRunWorkerTask, and the lock is let go.
TakeWork(w) ==
  /\ InGetWork(w)
  /\ UNCHANGED log
  /\ \E t \in Finds :
       LET discarded == {u \in Discarded : u < t} IN
         /\ pending_tasks' = pending_tasks \ (discarded \cup {t})
         /\ dropped' = dropped \cup discarded
         /\ blocking_shutdown_pending_task_count' =
              blocking_shutdown_pending_task_count - IF Blocks(t) THEN 1 ELSE 0
         /\ WillRunWorkerTask(w, t)
         /\ worker' = [worker EXCEPT ![w] =
              [pc |-> "claimed", task |-> t, delete_these |-> discarded]]
  /\ lock' = Nobody
  /\ UNCHANGED <<threads, waiting_thread_count, shutdown_called, owner, begun,
                 finished>>

\* Before shutdown a worker that finds nothing waits for work.
WaitForWork(w) ==
  /\ InGetWork(w) /\ Finds = {} /\ ~shutdown_called
  /\ waiting_thread_count' = waiting_thread_count + 1
  /\ owner' = IF IsIdle(waiting_thread_count + 1)
                THEN Woken("flushWait", "flushWoken") ELSE owner
  /\ worker' = [worker EXCEPT ![w].pc = "waiting"]
  /\ lock' = Nobody
  /\ UNCHANGED <<pending_tasks, current_sequences, threads,
                 thread_being_created, blocking_shutdown_thread_count,
                 blocking_shutdown_pending_task_count, shutdown_called,
                 poster, history>>

\* After shutdown it leaves the loop, with what GetWork discarded.
LeaveLoop(w) ==
  /\ InGetWork(w) /\ Finds = {} /\ shutdown_called
  /\ pending_tasks' = pending_tasks \ Discarded
  /\ dropped' = dropped \cup Discarded
  /\ worker' = [worker EXCEPT ![w] =
       [@ EXCEPT !.pc = "leaving", !.delete_these = Discarded]]
  /\ UNCHANGED <<lock, current_sequences, threads, thread_being_created,
                 counts, shutdown_called, poster, owner, log, begun, finished>>

-----------------------------------------------------------------------------
(* ThreadLoop.                                                             *)

\* The new thread takes the lock and puts itself on the list.
EnterLoop(w) ==
  /\ worker[w].pc = "created" /\ lock = Nobody
  /\ lock' = w
  /\ thread_being_created' = FALSE
  /\ threads' = threads \cup {w}
  /\ worker' = [worker EXCEPT ![w].pc = "getwork"]
  /\ UNCHANGED <<pending_tasks, current_sequences, counts, shutdown_called,
                 poster, owner, history>>

\* Outside the lock: wake another worker, and delete what was discarded.
SignalAndDelete(w) ==
  /\ worker[w].pc = "claimed"
  /\ worker' \in SignalHasWork(
       [worker EXCEPT ![w] = [@ EXCEPT !.pc = "begin", !.delete_these = {}]])
  /\ UNCHANGED <<underLock, poster, owner, history>>

\* The task begins, once the thread that was promised is created.
RunTask(w) ==
  /\ worker[w].pc = "begin" /\ poster[w] = "idle"
  /\ worker' = [worker EXCEPT ![w].pc = "running"]
  /\ begun' = begun \cup {worker[w].task}
  /\ UNCHANGED <<underLock, poster, owner, log, finished, dropped>>

\* The task returns and the worker takes the lock again: DidRunWorkerTask.
DidRunWorkerTask(w) ==
  /\ worker[w].pc = "running" /\ poster[w] = "idle" /\ lock = Nobody
  /\ LET t == worker[w].task IN
       /\ finished' = finished \cup {t}
       /\ blocking_shutdown_thread_count' =
            blocking_shutdown_thread_count - IF Blocks(t) THEN 1 ELSE 0
       /\ current_sequences' = current_sequences \ {Token(t)}
  /\ worker' = [worker EXCEPT ![w] = [@ EXCEPT !.pc = "getwork", !.task = 0]]
  /\ lock' = w
  /\ UNCHANGED <<pending_tasks, threads, thread_being_created,
                 waiting_thread_count, blocking_shutdown_pending_task_count,
                 shutdown_called, poster, owner, log, begun, dropped>>

\* Mutant of WaitReturns: the thread is still counted as waiting.
WaitReturnsStillCounted(w) ==
  /\ worker[w].pc = "woken" /\ lock = Nobody
  /\ lock' = w
  /\ worker' = [worker EXCEPT ![w].pc = "getwork"]
  /\ UNCHANGED <<pending_tasks, current_sequences, threads,
                 thread_being_created, counts, shutdown_called, poster, owner,
                 history>>

\* has_work_cv_.Wait() returns with the lock.
WaitReturns(w) ==
  /\ worker[w].pc = "woken" /\ lock = Nobody
  /\ lock' = w
  /\ waiting_thread_count' = waiting_thread_count - 1
  /\ worker' = [worker EXCEPT ![w].pc = "getwork"]
  /\ UNCHANGED <<pending_tasks, current_sequences, threads,
                 thread_being_created, blocking_shutdown_thread_count,
                 blocking_shutdown_pending_task_count, shutdown_called,
                 poster, owner, history>>

\* The locals of the loop body go first, the lock after them.
LeaveScopes(w) ==
  \/ /\ worker[w].pc = "leaving" /\ worker[w].delete_these # {}
     /\ worker' = [worker EXCEPT ![w].delete_these = {}]
     /\ UNCHANGED <<underLock, poster, owner, history>>
  \/ /\ worker[w].pc = "leaving" /\ worker[w].delete_these = {}
     /\ worker' = [worker EXCEPT ![w].pc = "exiting"]
     /\ lock' = Nobody
     /\ UNCHANGED <<pending_tasks, current_sequences, threads,
                    thread_being_created, counts, shutdown_called, poster,
                    owner, history>>

\* Mutant of SignalNextWorker: the signal is not passed on.
SignalNobody(w) ==
  /\ worker[w].pc = "exiting"
  /\ worker' = [worker EXCEPT ![w].pc = "signalled"]
  /\ UNCHANGED <<underLock, poster, owner, history>>

\* The next worker is to notice the shutdown too.
SignalNextWorker(w) ==
  /\ worker[w].pc = "exiting"
  /\ worker' \in SignalHasWork([worker EXCEPT ![w].pc = "signalled"])
  /\ UNCHANGED <<underLock, poster, owner, history>>

\* Mutant of SignalCanShutdown: the thread just ends.
EndSilently(w) ==
  /\ worker[w].pc = "signalled"
  /\ worker' = [worker EXCEPT ![w].pc = "gone"]
  /\ UNCHANGED <<underLock, poster, owner, history>>

\* can_shutdown_cv_.Signal(), and the thread ends.
SignalCanShutdown(w) ==
  /\ worker[w].pc = "signalled"
  /\ worker' = [worker EXCEPT ![w].pc = "gone"]
  /\ owner' = Woken("shutdownWait", "shutdownWoken")
  /\ UNCHANGED <<underLock, poster, history>>

ThreadLoop(w) ==
  \/ EnterLoop(w) \/ TakeWork(w) \/ WaitForWork(w) \/ LeaveLoop(w)
  \/ SignalAndDelete(w) \/ RunTask(w) \/ DidRunWorkerTask(w)
  \/ WaitReturns(w) \/ LeaveScopes(w)
  \/ SignalNextWorker(w) \/ SignalCanShutdown(w)

-----------------------------------------------------------------------------
(* FlushForTesting and Shutdown, on the thread the pool was made on.       *)

\* The lock is only held for the test; the wait lets go of it.  Nobody flushes
\* a pool that is shut down: the threads that have left would never be idle.
FlushForTesting ==
  /\ owner = "idle" /\ lock = Nobody /\ ~shutdown_called
  /\ ~IsIdle(waiting_thread_count)
  /\ owner' = "flushWait"
  /\ UNCHANGED <<underLock, worker, poster, history>>

FlushWakes ==
  /\ owner = "flushWoken" /\ lock = Nobody
  /\ owner' = IF IsIdle(waiting_thread_count) THEN "idle" ELSE "flushWait"
  /\ UNCHANGED <<underLock, worker, poster, history>>

\* The first block of Shutdown, signal included; a second call returns at once.
Shutdown ==
  /\ owner = "idle" /\ lock = Nobody /\ ~shutdown_called
  /\ shutdown_called' = TRUE
  /\ worker' \in SignalHasWork(worker)
  /\ owner' = IF CanShutdown THEN "shutdownReturned" ELSE "shutdownCalled"
  /\ UNCHANGED <<lock, pending_tasks, current_sequences, threads,
                 thread_being_created, counts, poster, history>>

\* Its second block: the test before the wait, and after it.
ShutdownWaits ==
  /\ owner \in {"shutdownCalled", "shutdownWoken"} /\ lock = Nobody
  /\ owner' = IF CanShutdown THEN "shutdownReturned" ELSE "shutdownWait"
  /\ UNCHANGED <<underLock, worker, poster, history>>

\* A signal without work behind it, from any thread.
SignalHasWorkForTesting ==
  /\ worker' \in SignalHasWork(worker)
  /\ UNCHANGED <<underLock, poster, owner, history>>

OwnerGoesOn == FlushWakes \/ ShutdownWaits

-----------------------------------------------------------------------------
Next ==
  \/ \E p \in Caller : Post(p)
  \/ \E w \in Worker : ThreadLoop(w)
  \/ FlushForTesting \/ Shutdown \/ OwnerGoesOn
  \/ SignalHasWorkForTesting

Spec == Init /\ [][Next]_vars

\* Locks are handed out so that nobody waits for one for ever; tasks return.
\* Nobody has to post, to flush or to shut down.
Fairness ==
  /\ \A w \in Worker : SF_vars(ThreadLoop(w))
  /\ \A p \in Caller :
       WF_vars(PostSignals(p) \/ FinishStartingAdditionalThread(p))
  /\ SF_vars(OwnerGoesOn)

LiveSpec == Spec /\ Fairness

-----------------------------------------------------------------------------
(* Properties.                                                             *)

WorkerPc ==
  {"none", "created", "getwork", "claimed", "begin", "running", "waiting",
   "woken", "leaving", "exiting", "signalled", "gone"}

TaskType == [sequence_token_id : Tokens, shutdown_behavior : Behaviors]

WorkerType ==
  [pc : WorkerPc, task : {0} \cup Task, delete_these : SUBSET Task]

\* The type invariant: lists and workers name tasks that were posted.
TypeOK ==
  /\ lock \in Worker \cup {Nobody}
  /\ log \in Seq(TaskType)
  /\ pending_tasks \subseteq Task
  /\ current_sequences \subseteq Tokens \ {0}
  /\ threads \subseteq Worker
  /\ thread_being_created \in BOOLEAN
  /\ waiting_thread_count \in 0 .. MaxThreads
  /\ blocking_shutdown_thread_count \in 0 .. MaxThreads
  /\ blocking_shutdown_pending_task_count \in Nat
  /\ shutdown_called \in BOOLEAN
  /\ worker \in [Worker -> WorkerType]
  /\ poster \in [Caller -> {"idle", "signal", "create"}]
  /\ owner \in {"idle", "flushWait", "flushWoken", "shutdownCalled",
                "shutdownWait", "shutdownWoken", "shutdownReturned"}
  /\ begun \subseteq Task /\ finished \subseteq Task /\ dropped \subseteq Task

InProgress == begun \ finished

\* Shutdown returns only when the tasks that block it have run to completion,
\* and stays right: none of them is pending, taken or running any more.
ShutdownWaitsForBlockers ==
  owner = "shutdownReturned" => \A t \in Task : Blocks(t) => t \in finished

\* No thread is leaked (PrepareToStartAdditionalThreadIfHelpful): once Shutdown has
\* returned every thread that was ever made is on threads_, to be joined, and none
\* is being made, although posts and workers promise and create threads without
\* the lock.
NoThreadLeaked ==
  owner = "shutdownReturned" =>
    /\ \A w \in Worker : worker[w].pc # "none" => w \in threads
    /\ \A p \in Caller : poster[p] # "create"

\* A task that shutdown drops is not deleted while an earlier one of its sequence
\* is running, which might still use what the closure holds.
DeletedInSequence ==
  \A w \in Worker : \A t \in worker[w].delete_these : \A u \in InProgress :
    u < t /\ Token(u) = Token(t) => Token(t) = 0

\* Somebody is on the way to GetWork, or on the way to fetch somebody who is.
HelpOnItsWay ==
  \/ \E w \in Worker : worker[w].pc \in {"created", "woken", "getwork"}
  \/ \E p \in Caller : poster[p] # "idle"

\* No task waits for a running one without need: while a task could run, either
\* help is on its way or every thread there may be is busy.
WorkConserving ==
  (\E t \in pending_tasks : IsRunnable(t)) /\ ~shutdown_called =>
    \/ HelpOnItsWay
    \/ \A w \in Worker : worker[w].task # 0

\* FlushForTesting returns when every task posted so far has run to completion.
FlushMeansDone ==
  [][owner = "flushWoken" /\ owner' = "idle" => Task \subseteq finished]_vars

\* Every task is run to completion in the end, or dropped by the shutdown.
TasksFinish ==
  \A t \in 1 .. MaxTasks : t \in Task ~> t \in finished \cup dropped

\* Shutdown and FlushForTesting return, whatever the workers are about to do, and
\* whatever signals without work there are.
OwnerReturns ==
  owner \notin {"idle", "shutdownReturned"} ~> owner \in {"idle", "shutdownReturned"}

\* After a shutdown every worker ends, so that ~Inner can join them: one signal
\* reaches them all because each passes it on.
WorkersEnd ==
  shutdown_called ~> \A w \in Worker : worker[w].pc \in {"none", "gone"}

\* delete_these_outside_lock is emptied when nobody holds the lock, as GetWork and
\* ThreadLoop say it must be for closures whose destructors post work.
DeletedOutsideLock ==
  \A w \in Worker : lock = w /\ worker[w].pc = "leaving" =>
    worker[w].delete_these = {}

\* A SKIP_ON_SHUTDOWN task that is in progress at shutdown is completed, as the
\* enumeration says: Shutdown joins with it.
SkipInProgressCompletes ==
  owner = "shutdownReturned" =>
    \A t \in InProgress : log[t].shutdown_behavior # "SKIP_ON_SHUTDOWN"
=============================================================================
