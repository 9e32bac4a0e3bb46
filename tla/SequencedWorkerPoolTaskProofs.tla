-------------------- MODULE SequencedWorkerPoolTaskProofs --------------------
(***************************************************************************)
(* What becomes of the tasks of SequencedWorkerPool: those of one sequence *)
(* run one by one, in order, a flush returns when all of them have run,    *)
(* and no thread sleeps while a task waits for one.                        *)
(***************************************************************************)
EXTENDS MCSequencedWorkerPool, SequencedWorkerPoolProofs, WellFoundedInduction

-----------------------------------------------------------------------------
(* The inductive invariants.                                               *)

\* A task is in one place at a time, and one worker has it at most.
TasksApart ==
  /\ pending_tasks \cap (begun \cup dropped) = {} /\ dropped \cap begun = {}
  /\ finished \subseteq begun
  /\ \A w \in Worker : worker[w].task # 0 =>
       /\ worker[w].task \notin pending_tasks \cup finished \cup dropped
       /\ worker[w].task \in begun <=> worker[w].pc = "running"
  /\ \A v, w \in Worker :
       worker[v].task # 0 /\ worker[v].task = worker[w].task => v = w
  /\ \A t \in InProgress : \E w \in Worker : worker[w].task = t
  /\ \A w \in Worker : worker[w].delete_these \subseteq dropped

\* current_sequences_ keeps the sequence of a task that was taken to itself.
SequencesInUse ==
  \A w \in Worker : worker[w].task # 0 /\ Token(worker[w].task) # 0 =>
    /\ Token(worker[w].task) \in current_sequences
    /\ \A v \in Worker :
         worker[v].task # 0 /\ Token(worker[v].task) = Token(worker[w].task) => v = w

\* Whatever left the list, all that was before it in its sequence is done with.
InSequence ==
  \A t \in Task \ pending_tasks : \A u \in Task :
    u < t /\ Token(u) = Token(t) /\ Token(t) # 0 => u \in finished \cup dropped

TaskInv == PoolInv /\ TasksApart /\ SequencesInUse /\ InSequence

\* Only shutdown drops tasks, and lets workers leave.
DropsInShutdown ==
  /\ shutdown_called <=> owner \in InShutdown
  /\ ~shutdown_called => dropped = {}
  /\ \A w \in Worker :
       worker[w].pc \in {"leaving", "exiting", "signalled", "gone"} => shutdown_called

-----------------------------------------------------------------------------
(* The list, and what GetWork finds in it.                                 *)

LEMMA LeastElement ==
  ASSUME NEW S, \A n \in S : n \in Nat, NEW e \in S
  PROVE  \E n \in S : \A m \in S : ~(m < n)
<1> DEFINE R == OpToRel(<, Nat)
<1>1. \A x, y \in Nat : <<x, y>> \in R <=> x < y
  BY DEF OpToRel
<1>2. IsWellFoundedOn(R, Nat)
  BY NatLessThanWellFounded
<1>3. S \subseteq Nat /\ S # {}
  OBVIOUS
<1> HIDE DEF R
<1>4. \E x \in S : \A y \in S : ~(<<y, x>> \in R)
  BY <1>2, <1>3, WFMin
<1>5. QED
  BY <1>1, <1>3, <1>4

\* GetWork passes over a task only if it is not runnable or to be dropped.
LEMMA FindsIfThereIs ==
  ASSUME TypeOK, Finds = {}, NEW t \in pending_tasks, IsRunnable(t)
  PROVE  IsDiscarded(t)
<1> SUFFICES ASSUME ~IsDiscarded(t) PROVE FALSE
  OBVIOUS
<1> DEFINE free == {u \in pending_tasks : IsRunnable(u) /\ ~IsDiscarded(u)}
<1>1. (\A n \in free : n \in Nat) /\ t \in free
  BY DEF TypeOK, Task
<1>2. PICK n \in free : \A m \in free : ~(m < n)
  <2> HIDE DEF free
  <2>1. QED
    BY <1>1, LeastElement
<1>3. n \in Finds
  BY <1>2 DEF Finds
<1>4. QED
  BY <1>3

-----------------------------------------------------------------------------
(* Steps.                                                                  *)

\* Nothing happens to a task, but that some of those dropped are deleted.
Unnoticed ==
  /\ UNCHANGED <<log, pending_tasks, current_sequences, begun, finished, dropped>>
  /\ \A w \in Worker : /\ worker'[w].task = worker[w].task
                       /\ worker'[w].delete_these \subseteq worker[w].delete_these
                       /\ worker'[w].pc = "running" <=> worker[w].pc = "running"

LEMMA WorkerAfter ==
  ASSUME TypeOK, NEW w \in Worker, NEW pc, worker' = [worker EXCEPT ![w].pc = pc]
  PROVE  /\ worker'[w].pc = pc /\ worker'[w].task = worker[w].task
         /\ worker'[w].delete_these = worker[w].delete_these
         /\ \A v \in Worker : v # w => worker'[v] = worker[v]
<1>1. worker \in [Worker -> WorkerType] /\ worker[w] \in WorkerType
  BY DEF TypeOK
<1>2. worker' = [worker EXCEPT ![w] = [worker[w] EXCEPT !.pc = pc]]
  BY <1>1
<1>3. /\ [worker[w] EXCEPT !.pc = pc].pc = pc
      /\ [worker[w] EXCEPT !.pc = pc].task = worker[w].task
      /\ [worker[w] EXCEPT !.pc = pc].delete_these = worker[w].delete_these
  BY <1>1 DEF WorkerType
<1>4. QED
  BY <1>1, <1>2, <1>3

\* A signal wakes one worker that waits, or nobody does.
LEMMA SignalWakesOne ==
  ASSUME NEW before \in [Worker -> WorkerType], NEW after \in SignalHasWork(before)
  PROVE  \/ after = before /\ \A v \in Worker : before[v].pc # "waiting"
         \/ \E v \in Worker :
              /\ before[v].pc = "waiting" /\ after[v].pc = "woken"
              /\ after[v].task = before[v].task
              /\ after[v].delete_these = before[v].delete_these
              /\ \A u \in Worker : u # v => after[u] = before[u]
<1>1. CASE \A v \in Worker : before[v].pc # "waiting"
  BY <1>1 DEF SignalHasWork
<1>2. CASE \E v \in Worker : before[v].pc = "waiting"
  <2>1. PICK v \in Worker : /\ before[v].pc = "waiting"
                            /\ after = [before EXCEPT ![v].pc = "woken"]
    BY <1>2 DEF SignalHasWork
  <2>2. after = [before EXCEPT ![v] = [before[v] EXCEPT !.pc = "woken"]]
    BY <2>1
  <2>3. /\ [before[v] EXCEPT !.pc = "woken"].pc = "woken"
        /\ [before[v] EXCEPT !.pc = "woken"].task = before[v].task
        /\ [before[v] EXCEPT !.pc = "woken"].delete_these = before[v].delete_these
    BY DEF WorkerType
  <2>4. QED
    BY <2>1, <2>2, <2>3
<1>3. QED
  BY <1>1, <1>2

LEMMA SignalUnnoticed ==
  ASSUME TypeOK, worker' \in SignalHasWork(worker),
         UNCHANGED <<log, pending_tasks, current_sequences, begun, finished, dropped>>
  PROVE  Unnoticed
<1>1. worker \in [Worker -> WorkerType]
  BY DEF TypeOK
<1>2. QED
  BY <1>1, SignalWakesOne DEF Unnoticed

\* The same, when a worker moves on first.
LEMMA MoveAndSignalUnnoticed ==
  ASSUME TypeOK, NEW w \in Worker, NEW moved \in [Worker -> WorkerType],
         moved[w].task = worker[w].task, moved[w].pc # "running",
         worker[w].pc # "running",
         moved[w].delete_these \subseteq worker[w].delete_these,
         \A v \in Worker : v # w => moved[v] = worker[v],
         worker' \in SignalHasWork(moved),
         UNCHANGED <<log, pending_tasks, current_sequences, begun, finished, dropped>>
  PROVE  Unnoticed
BY SignalWakesOne DEF Unnoticed

LEMMA PcUnnoticed ==
  ASSUME TypeOK, NEW w \in Worker, NEW pc, worker' = [worker EXCEPT ![w].pc = pc],
         pc # "running", worker[w].pc # "running",
         UNCHANGED <<log, pending_tasks, current_sequences, begun, finished, dropped>>
  PROVE  Unnoticed
BY WorkerAfter DEF Unnoticed

-----------------------------------------------------------------------------
(* The steps that nothing is noticed of.                                   *)

LEMMA PosterUnnoticed ==
  ASSUME PoolInv, NEW p \in Caller, PostSignals(p) \/ FinishStartingAdditionalThread(p)
  PROVE  Unnoticed
<1>1. TypeOK
  BY DEF PoolInv
<1>2. UNCHANGED <<log, pending_tasks, current_sequences, begun, finished, dropped>>
  BY DEF PostSignals, FinishStartingAdditionalThread, underLock, history
<1>3. CASE PostSignals(p)
  BY <1>1, <1>2, <1>3, SignalUnnoticed DEF PostSignals
<1>4. CASE FinishStartingAdditionalThread(p)
  <2>1. /\ NextThread \in Worker /\ worker[NextThread].pc # "running"
        /\ worker' = [worker EXCEPT ![NextThread].pc = "created"]
    <3>1. /\ NextThread \in Worker
          /\ worker' = [worker EXCEPT ![NextThread].pc = "created"]
      BY <1>4 DEF FinishStartingAdditionalThread, PoolInv, OneThreadAtATime, NextThread
    <3>2. NextThread \notin threads
      <4>1. Cardinality(threads) \in Nat
        BY <1>1, WorkersFinite DEF TypeOK
      <4>2. QED
        BY <4>1 DEF PoolInv, OneThreadAtATime, NextThread
    <3>3. QED
      BY <3>1, <3>2 DEF PoolInv, OneThreadAtATime
  <2>2. QED
    BY <1>1, <1>2, <2>1, PcUnnoticed
<1>5. QED
  BY <1>3, <1>4

LEMMA WorkerUnnoticed ==
  ASSUME PoolInv, NEW w \in Worker,
         \/ EnterLoop(w) \/ WaitForWork(w) \/ SignalAndDelete(w) \/ WaitReturns(w)
         \/ LeaveScopes(w) \/ SignalNextWorker(w) \/ SignalCanShutdown(w)
  PROVE  Unnoticed
<1>1. TypeOK
  BY DEF PoolInv
<1>2. worker \in [Worker -> WorkerType] /\ worker[w] \in WorkerType
  BY <1>1 DEF TypeOK
<1>3. UNCHANGED <<log, pending_tasks, current_sequences, begun, finished, dropped>>
  BY DEF EnterLoop, WaitForWork, SignalAndDelete, WaitReturns, LeaveScopes,
         SignalNextWorker, SignalCanShutdown, underLock, history
<1>4. CASE EnterLoop(w) \/ WaitForWork(w) \/ WaitReturns(w) \/ SignalCanShutdown(w)
  BY <1>1, <1>3, <1>4, PcUnnoticed
     DEF EnterLoop, WaitForWork, InGetWork, WaitReturns, SignalCanShutdown
<1>5. CASE LeaveScopes(w)
  <2>1. CASE worker[w].delete_these # {}
    <3>1. worker' = [worker EXCEPT ![w].delete_these = {}]
      BY <1>5, <2>1 DEF LeaveScopes
    <3>2. worker' = [worker EXCEPT ![w] = [worker[w] EXCEPT !.delete_these = {}]]
      BY <3>1, <1>2
    <3>3. /\ [worker[w] EXCEPT !.delete_these = {}].pc = worker[w].pc
          /\ [worker[w] EXCEPT !.delete_these = {}].task = worker[w].task
          /\ [worker[w] EXCEPT !.delete_these = {}].delete_these = {}
      BY <1>2 DEF WorkerType
    <3>4. /\ worker'[w].pc = worker[w].pc /\ worker'[w].task = worker[w].task
          /\ worker'[w].delete_these = {}
          /\ \A v \in Worker : v # w => worker'[v] = worker[v]
      BY <1>2, <3>2, <3>3
    <3>5. QED
      BY <1>3, <3>4 DEF Unnoticed
  <2>2. CASE worker[w].delete_these = {}
    BY <1>1, <1>3, <1>5, <2>2, PcUnnoticed DEF LeaveScopes
  <2>3. QED
    BY <2>1, <2>2
<1>6. CASE SignalAndDelete(w)
  <2> DEFINE state == [worker[w] EXCEPT !.pc = "begin", !.delete_these = {}]
             moved == [worker EXCEPT ![w] = state]
  <2>1. /\ state \in WorkerType /\ state.pc = "begin"
        /\ state.task = worker[w].task /\ state.delete_these = {}
    BY <1>2 DEF WorkerType, WorkerPc
  <2>2. worker' \in SignalHasWork(moved) /\ worker[w].pc = "claimed"
    BY <1>6 DEF SignalAndDelete
  <2> HIDE DEF state
  <2>3. /\ moved \in [Worker -> WorkerType] /\ moved[w] = state
        /\ \A v \in Worker : v # w => moved[v] = worker[v]
    BY <1>2, <2>1
  <2> HIDE DEF moved
  <2>4. QED
    BY <1>1, <1>3, <2>1, <2>2, <2>3, MoveAndSignalUnnoticed
<1>7. CASE SignalNextWorker(w)
  <2> DEFINE state == [worker[w] EXCEPT !.pc = "signalled"]
             moved == [worker EXCEPT ![w] = state]
  <2>1. /\ state \in WorkerType /\ state.pc = "signalled"
        /\ state.task = worker[w].task /\ state.delete_these = worker[w].delete_these
    BY <1>2 DEF WorkerType, WorkerPc
  <2>2. worker' \in SignalHasWork(moved) /\ worker[w].pc = "exiting"
    <3>1. moved = [worker EXCEPT ![w].pc = "signalled"]
      BY <1>2
    <3>2. QED
      BY <1>7, <3>1 DEF SignalNextWorker
  <2> HIDE DEF state
  <2>3. /\ moved \in [Worker -> WorkerType] /\ moved[w] = state
        /\ \A v \in Worker : v # w => moved[v] = worker[v]
    BY <1>2, <2>1
  <2> HIDE DEF moved
  <2>4. QED
    BY <1>1, <1>3, <2>1, <2>2, <2>3, MoveAndSignalUnnoticed
<1>8. QED
  BY <1>4, <1>5, <1>6, <1>7

LEMMA OwnerUnnoticed ==
  ASSUME PoolInv,
         \/ FlushForTesting \/ Shutdown \/ OwnerGoesOn \/ SignalHasWorkForTesting
         \/ UNCHANGED vars
  PROVE  Unnoticed
<1>1. TypeOK
  BY DEF PoolInv
<1>2. UNCHANGED <<log, pending_tasks, current_sequences, begun, finished, dropped>>
  BY DEF FlushForTesting, Shutdown, OwnerGoesOn, FlushWakes, ShutdownWaits,
         SignalHasWorkForTesting, vars, underLock, history
<1>3. worker' = worker \/ worker' \in SignalHasWork(worker)
  BY DEF FlushForTesting, Shutdown, OwnerGoesOn, FlushWakes, ShutdownWaits,
         SignalHasWorkForTesting, vars
<1>4. QED
  BY <1>1, <1>2, <1>3, SignalUnnoticed DEF Unnoticed


-----------------------------------------------------------------------------
(* The tasks, step by step.                                                *)

LEMMA InitTaskInv == Init => TaskInv /\ DropsInShutdown
<1> SUFFICES ASSUME Init PROVE TaskInv /\ DropsInShutdown
  OBVIOUS
<1>1. PoolInv
  BY InitPoolInv
<1>2. Task = {} /\ \A w \in Worker : worker[w] = NoWorker
  BY DEF Init, Task
<1>3. TasksApart
  BY <1>2 DEF Init, TasksApart, InProgress, NoWorker
<1>4. SequencesInUse /\ InSequence
  BY <1>2 DEF SequencesInUse, InSequence, NoWorker
<1>5. DropsInShutdown
  BY <1>2 DEF Init, DropsInShutdown, InShutdown, NoWorker
<1>6. QED
  BY <1>1, <1>3, <1>4, <1>5 DEF TaskInv

LEMMA UnnoticedInv ==
  ASSUME TaskInv, Unnoticed
  PROVE  TasksApart' /\ SequencesInUse' /\ InSequence'
<1>1. TasksApart /\ SequencesInUse /\ InSequence
  BY DEF TaskInv
<1>2. TasksApart'
  BY <1>1 DEF TasksApart, Unnoticed, InProgress
<1>3. SequencesInUse'
  BY <1>1 DEF SequencesInUse, Unnoticed, Token
<1>4. InSequence'
  BY <1>1 DEF InSequence, Unnoticed, Token, Task
<1>5. QED
  BY <1>2, <1>3, <1>4

\* A post makes the task that all others come before.
LEMMA PostTaskEffect ==
  ASSUME PoolInv, NEW p \in Caller, NEW token \in Tokens, NEW behavior \in Behaviors,
         PostTask(p, token, behavior), NEW n, n = Len(log)
  PROVE  /\ n \in Nat /\ Task = 1 .. n /\ Task' = 1 .. n + 1
         /\ pending_tasks' = pending_tasks \cup {n + 1}
         /\ Token(n + 1)' = token /\ (\A t \in Task : Token(t)' = Token(t))
         /\ UNCHANGED <<current_sequences, worker, begun, finished, dropped>>
<1>1. log \in Seq(TaskType) /\ TypeOK
  BY DEF PoolInv, TypeOK
<1> DEFINE task == [sequence_token_id |-> token, shutdown_behavior |-> behavior]
<1>2. task \in TaskType /\ task.sequence_token_id = token
  BY DEF TaskType
<1>3. log' = Append(log, task) /\ pending_tasks' = pending_tasks \cup {n + 1}
      /\ UNCHANGED <<current_sequences, worker, begun, finished, dropped>>
  BY DEF PostTask
<1> HIDE DEF task
<1>4. /\ n \in Nat /\ Len(log') = n + 1 /\ log'[n + 1] = task
      /\ \A t \in 1 .. n : log'[t] = log[t]
  BY <1>1, <1>2, <1>3
<1>5. QED
  BY <1>2, <1>3, <1>4 DEF Task, Token

LEMMA PostTaskTaskInv ==
  ASSUME TaskInv, NEW p \in Caller, NEW token \in Tokens, NEW behavior \in Behaviors,
         PostTask(p, token, behavior)
  PROVE  TasksApart' /\ SequencesInUse' /\ InSequence'
<1> DEFINE n == Len(log)
<1>0. PoolInv /\ TypeOK /\ TasksApart /\ SequencesInUse /\ InSequence
  BY DEF TaskInv, PoolInv
<1>1. /\ n \in Nat /\ Task = 1 .. n /\ Task' = 1 .. n + 1
      /\ pending_tasks' = pending_tasks \cup {n + 1}
      /\ \A t \in Task : Token(t)' = Token(t)
      /\ UNCHANGED <<current_sequences, worker, begun, finished, dropped>>
  BY <1>0, PostTaskEffect
<1>2. n + 1 \notin Task
  BY <1>1
<1>3. /\ begun \subseteq Task /\ finished \subseteq Task /\ dropped \subseteq Task
      /\ \A w \in Worker : worker[w].task \in Task \cup {0}
  BY <1>0 DEF TypeOK, WorkerType
<1> HIDE DEF n
<1>4. TasksApart'
  BY <1>0, <1>1, <1>2, <1>3 DEF TasksApart, InProgress
<1>5. SequencesInUse'
  <2>1. \A w \in Worker : worker[w].task # 0 =>
          Token(worker[w].task)' = Token(worker[w].task)
    BY <1>1, <1>3
  <2>2. QED
    BY <1>0, <1>1, <2>1 DEF SequencesInUse
<1>6. InSequence'
  BY <1>0, <1>1 DEF InSequence
<1>7. QED
  BY <1>4, <1>5, <1>6

\* What is before a runnable task in its sequence is runnable or done with.
LEMMA BeforeRunnable ==
  ASSUME TaskInv, NEW t \in pending_tasks, IsRunnable(t), NEW u \in Task,
         Token(u) = Token(t), Token(t) # 0
  PROVE  /\ IsRunnable(u)
         /\ u \in pending_tasks \cup finished \cup dropped
         /\ \A w \in Worker : worker[w].task # u
<1>1. Token(t) \notin current_sequences
  BY DEF IsRunnable, IsSequenceTokenRunnable
<1>2. u # 0
  BY DEF Task
<1>3. \A w \in Worker : worker[w].task # u
  BY <1>1, <1>2 DEF TaskInv, SequencesInUse
<1>4. u \in pending_tasks \cup finished \cup dropped
  BY <1>3 DEF TaskInv, PoolInv, TasksPlaced
<1>5. QED
  BY <1>3, <1>4 DEF IsRunnable, IsSequenceTokenRunnable

LEMMA TakeWorkEffect ==
  ASSUME PoolInv, NEW w \in Worker, TakeWork(w)
  PROVE  \E t \in Finds :
           LET discarded == {u \in Discarded : u < t} IN
             /\ worker[w].task = 0 /\ t \in pending_tasks /\ t # 0
             /\ pending_tasks' = pending_tasks \ (discarded \cup {t})
             /\ dropped' = dropped \cup discarded
             /\ current_sequences' = current_sequences \cup ({Token(t)} \ {0})
             /\ worker'[w].pc = "claimed" /\ worker'[w].task = t
             /\ worker'[w].delete_these = discarded
             /\ \A v \in Worker : v # w => worker'[v] = worker[v]
             /\ UNCHANGED <<log, begun, finished, shutdown_called, owner>>
<1>1. TypeOK
  BY DEF PoolInv
<1>2. worker[w].task = 0
  BY DEF PoolInv, TasksPlaced, TakeWork, InGetWork
<1>3. PICK t \in Finds :
        LET discarded == {u \in Discarded : u < t} IN
          /\ pending_tasks' = pending_tasks \ (discarded \cup {t})
          /\ dropped' = dropped \cup discarded
          /\ WillRunWorkerTask(w, t)
          /\ worker' = [worker EXCEPT ![w] =
               [pc |-> "claimed", task |-> t, delete_these |-> discarded]]
  BY DEF TakeWork
<1>4. t \in pending_tasks /\ t # 0 /\ worker \in [Worker -> WorkerType]
  BY <1>1 DEF Finds, TypeOK, Task
<1>5. UNCHANGED <<log, begun, finished, shutdown_called, owner>>
  BY DEF TakeWork
<1>6. current_sequences' = current_sequences \cup ({Token(t)} \ {0})
  BY <1>3 DEF WillRunWorkerTask
<1> DEFINE state == [pc |-> "claimed", task |-> t,
                     delete_these |-> {u \in Discarded : u < t}]
<1>7. /\ worker'[w] = state
      /\ \A v \in Worker : v # w => worker'[v] = worker[v]
  BY <1>3, <1>4
<1>8. QED
  BY <1>2, <1>3, <1>4, <1>5, <1>6, <1>7

\* What is dropped is runnable: nobody has a task of its sequence.
DropsRunnable(tasks) ==
  /\ tasks \subseteq pending_tasks /\ \A t \in tasks : IsRunnable(t)
  /\ pending_tasks' \subseteq pending_tasks \ tasks
  /\ dropped' = dropped \cup tasks
  /\ UNCHANGED <<log, begun, finished>>

\* In front of what GetWork finds there is only what it discards.
LEMMA FirstIsFound ==
  ASSUME TypeOK, NEW t \in Finds, NEW u \in pending_tasks, u < t, IsRunnable(u)
  PROVE  u \in Discarded
BY DEF Finds, Discarded

LEMMA TakeWorkTaskInv ==
  ASSUME TaskInv, NEW w \in Worker, TakeWork(w)
  PROVE  /\ TasksApart' /\ SequencesInUse' /\ InSequence'
         /\ \E tasks \in SUBSET Discarded : DropsRunnable(tasks)
<1>0. PoolInv /\ TypeOK /\ TasksApart /\ SequencesInUse /\ InSequence
  BY DEF TaskInv, PoolInv
<1>1. PICK t \in Finds :
        LET discarded == {u \in Discarded : u < t} IN
          /\ worker[w].task = 0 /\ t \in pending_tasks /\ t # 0
          /\ pending_tasks' = pending_tasks \ (discarded \cup {t})
          /\ dropped' = dropped \cup discarded
          /\ current_sequences' = current_sequences \cup ({Token(t)} \ {0})
          /\ worker'[w].pc = "claimed" /\ worker'[w].task = t
          /\ worker'[w].delete_these = discarded
          /\ \A v \in Worker : v # w => worker'[v] = worker[v]
          /\ UNCHANGED <<log, begun, finished, shutdown_called, owner>>
  BY <1>0, TakeWorkEffect
<1> DEFINE discarded == {u \in Discarded : u < t}
<1>2. /\ worker[w].task = 0 /\ t \in pending_tasks /\ t # 0
      /\ pending_tasks' = pending_tasks \ (discarded \cup {t})
      /\ dropped' = dropped \cup discarded
      /\ current_sequences' = current_sequences \cup ({Token(t)} \ {0})
      /\ worker'[w].pc = "claimed" /\ worker'[w].task = t
      /\ worker'[w].delete_these = discarded
      /\ \A v \in Worker : v # w => worker'[v] = worker[v]
      /\ UNCHANGED <<log, begun, finished>>
  BY <1>1
<1>3. /\ IsRunnable(t) /\ t \in Task /\ t \notin Discarded
      /\ discarded \in SUBSET Discarded /\ t \notin discarded
      /\ discarded \subseteq pending_tasks /\ pending_tasks \subseteq Task
      /\ \A x \in discarded : IsRunnable(x) /\ x < t
      /\ \A u \in pending_tasks : u < t /\ IsRunnable(u) => u \in discarded
  BY <1>0, <1>2 DEF Finds, Discarded, IsDiscarded, TypeOK
<1> HIDE DEF discarded
<1>4. DropsRunnable(discarded)
  BY <1>2, <1>3 DEF DropsRunnable
<1>5. TasksApart'
  <2>1. \A v \in Worker : worker[v].task # t /\ worker[v].task \notin discarded
    <3>1. 0 \notin Task
      BY DEF Task
    <3>2. QED
      BY <1>0, <1>2, <1>3, <3>1 DEF TasksApart
  <2>2. \A v \in Worker : worker'[v].task # 0 =>
          /\ worker'[v].task \notin pending_tasks' \cup finished' \cup dropped'
          /\ worker'[v].task \in begun' <=> worker'[v].pc = "running"
    <3>1. t \notin begun \cup finished \cup dropped
      BY <1>0, <1>2 DEF TasksApart
    <3>2. QED
      BY <1>0, <1>2, <1>3, <2>1, <3>1 DEF TasksApart
  <2>3. \A u, v \in Worker :
          worker'[u].task # 0 /\ worker'[u].task = worker'[v].task => u = v
    BY <1>0, <1>2, <2>1 DEF TasksApart
  <2>4. \A x \in InProgress' : \E v \in Worker : worker'[v].task = x
    <3>1. InProgress' = InProgress /\ 0 \notin InProgress
      BY <1>0, <1>2 DEF InProgress, TypeOK, Task
    <3>2. QED
      BY <1>0, <1>2, <3>1 DEF TasksApart
  <2>5. \A v \in Worker : worker'[v].delete_these \subseteq dropped'
    BY <1>0, <1>2 DEF TasksApart
  <2>6. /\ pending_tasks' \cap (begun' \cup dropped') = {}
        /\ dropped' \cap begun' = {} /\ finished' \subseteq begun'
    BY <1>0, <1>2, <1>3 DEF TasksApart
  <2>7. QED
    BY <2>2, <2>3, <2>4, <2>5, <2>6 DEF TasksApart
<1>6. SequencesInUse'
  <2>1. \A x : Token(x)' = Token(x)
    BY <1>2 DEF Token
  <2>2. \A v \in Worker : worker[v].task # 0 /\ Token(t) # 0 =>
          Token(worker[v].task) # Token(t)
    BY <1>0, <1>3 DEF SequencesInUse, IsRunnable, IsSequenceTokenRunnable
  <2>3. QED
    BY <1>0, <1>2, <2>1, <2>2 DEF SequencesInUse
<1>7. InSequence'
  <2>1. Task' = Task /\ \A x : Token(x)' = Token(x)
    BY <1>2 DEF Token, Task
  <2>2. ASSUME NEW x \in discarded \cup {t}, NEW u \in Task, u < x,
               Token(u) = Token(x), Token(x) # 0
        PROVE  u \in finished \cup dropped'
    <3>1. x \in pending_tasks /\ IsRunnable(x)
      BY <1>2, <1>3
    <3>2. IsRunnable(u) /\ u \in pending_tasks \cup finished \cup dropped
      BY <2>2, <3>1, BeforeRunnable
    <3>3. u < t
      <4>1. x = t \/ x < t
        BY <1>3
      <4>2. u \in Nat /\ x \in Nat /\ t \in Nat
        BY <1>3, <3>1 DEF Task
      <4>3. QED
        BY <2>2, <4>1, <4>2
    <3>4. QED
      BY <1>2, <1>3, <3>2, <3>3
  <2>3. \A x \in Task \ pending_tasks : \A u \in Task :
          u < x /\ Token(u) = Token(x) /\ Token(x) # 0 => u \in finished \cup dropped'
    BY <1>0, <1>2 DEF InSequence
  <2>4. Task \ pending_tasks' = (Task \ pending_tasks) \cup (discarded \cup {t})
    BY <1>2, <1>3
  <2>5. \A x \in Task \ pending_tasks' : \A u \in Task :
          u < x /\ Token(u) = Token(x) /\ Token(x) # 0 => u \in finished \cup dropped'
    BY <2>2, <2>3, <2>4
  <2>6. QED
    BY <1>2, <2>1, <2>5 DEF InSequence
<1>8. QED
  BY <1>3, <1>4, <1>5, <1>6, <1>7

LEMMA LeaveLoopTaskInv ==
  ASSUME TaskInv, NEW w \in Worker, LeaveLoop(w)
  PROVE  TasksApart' /\ SequencesInUse' /\ InSequence' /\ DropsRunnable(Discarded)
<1>0. PoolInv /\ TypeOK /\ TasksApart /\ SequencesInUse /\ InSequence
  BY DEF TaskInv, PoolInv
<1>1. /\ Finds = {} /\ worker[w].pc = "getwork"
      /\ pending_tasks' = pending_tasks \ Discarded
      /\ dropped' = dropped \cup Discarded
      /\ UNCHANGED <<log, begun, finished, current_sequences>>
  BY DEF LeaveLoop, InGetWork
<1>2. /\ worker'[w].pc = "leaving" /\ worker'[w].task = worker[w].task
      /\ worker'[w].delete_these = Discarded
      /\ \A v \in Worker : v # w => worker'[v] = worker[v]
  <2> DEFINE state == [worker[w] EXCEPT !.pc = "leaving", !.delete_these = Discarded]
  <2>1. worker \in [Worker -> WorkerType] /\ worker[w] \in WorkerType
    BY <1>0 DEF TypeOK
  <2>2. /\ state.pc = "leaving" /\ state.task = worker[w].task
        /\ state.delete_these = Discarded
    BY <2>1 DEF WorkerType
  <2>3. worker' = [worker EXCEPT ![w] = state]
    BY DEF LeaveLoop
  <2> HIDE DEF state
  <2>4. QED
    BY <2>1, <2>2, <2>3
<1>3. Discarded \subseteq pending_tasks /\ \A x \in Discarded : IsRunnable(x)
  BY DEF Discarded, IsDiscarded
<1>4. DropsRunnable(Discarded)
  BY <1>1, <1>3 DEF DropsRunnable
<1>5. TasksApart'
  BY <1>0, <1>1, <1>2, <1>3 DEF TasksApart, InProgress
<1>6. SequencesInUse'
  BY <1>0, <1>1, <1>2 DEF SequencesInUse, Token
<1>7. InSequence'
  <2>1. ASSUME NEW x \in Discarded, NEW u \in Task, u < x,
               Token(u) = Token(x), Token(x) # 0
        PROVE  u \in finished \cup dropped'
    <3>1. IsRunnable(u) /\ u \in pending_tasks \cup finished \cup dropped
      BY <1>3, <2>1, BeforeRunnable
    <3>2. u \in pending_tasks => u \in Discarded
      BY <1>0, <1>1, <3>1, FindsIfThereIs DEF Discarded
    <3>3. QED
      BY <1>1, <3>1, <3>2
  <2>2. Task' = Task /\ \A x : Token(x)' = Token(x)
    BY <1>1 DEF Token, Task
  <2>3. \A x \in Task \ pending_tasks : \A u \in Task :
          u < x /\ Token(u) = Token(x) /\ Token(x) # 0 => u \in finished \cup dropped'
    BY <1>0, <1>1 DEF InSequence
  <2>4. \A x \in Task \ pending_tasks' : x \in Task \ pending_tasks \/ x \in Discarded
    BY <1>1
  <2>5. \A x \in Task \ pending_tasks' : \A u \in Task :
          u < x /\ Token(u) = Token(x) /\ Token(x) # 0 => u \in finished \cup dropped'
    BY <2>1, <2>3, <2>4
  <2>6. QED
    BY <1>1, <2>2, <2>5 DEF InSequence
<1>8. QED
  BY <1>4, <1>5, <1>6, <1>7

\* The task that begins is the one that was taken, for the first time.
LEMMA RunTaskEffect ==
  ASSUME TaskInv, NEW w \in Worker, RunTask(w), NEW t, t = worker[w].task
  PROVE  /\ t \in Task /\ t # 0 /\ t \notin begun \cup pending_tasks \cup dropped
         /\ begun' = begun \cup {t} /\ worker'[w].pc = "running"
         /\ worker'[w].task = t /\ worker'[w].delete_these = worker[w].delete_these
         /\ \A v \in Worker : v # w => worker'[v] = worker[v]
         /\ UNCHANGED <<log, pending_tasks, current_sequences, finished, dropped>>
<1>1. TypeOK /\ TasksPlaced /\ TasksApart
  BY DEF TaskInv, PoolInv
<1>2. worker[w].pc = "begin" /\ worker[w] \in WorkerType
  BY <1>1 DEF RunTask, TypeOK
<1>3. t \in Task /\ t # 0 /\ t \notin begun \cup pending_tasks \cup dropped
  BY <1>1, <1>2 DEF TasksPlaced, TasksApart, WorkerType
<1>4. worker' = [worker EXCEPT ![w].pc = "running"]
  BY DEF RunTask
<1>5. UNCHANGED <<log, pending_tasks, current_sequences, finished, dropped>>
      /\ begun' = begun \cup {t}
  BY DEF RunTask, underLock
<1>6. QED
  BY <1>1, <1>3, <1>4, <1>5, WorkerAfter

LEMMA RunTaskTaskInv ==
  ASSUME TaskInv, NEW w \in Worker, RunTask(w)
  PROVE  TasksApart' /\ SequencesInUse' /\ InSequence'
<1> DEFINE t == worker[w].task
<1>0. TasksApart /\ SequencesInUse /\ InSequence
  BY DEF TaskInv
<1>1. /\ t \in Task /\ t # 0 /\ t \notin begun \cup pending_tasks \cup dropped
      /\ begun' = begun \cup {t} /\ worker'[w].pc = "running"
      /\ worker'[w].task = t /\ worker'[w].delete_these = worker[w].delete_these
      /\ \A v \in Worker : v # w => worker'[v] = worker[v]
      /\ UNCHANGED <<log, pending_tasks, current_sequences, finished, dropped>>
  BY RunTaskEffect
<1>2. \A v \in Worker : worker'[v].task = worker[v].task
  BY <1>1
<1>3. TasksApart'
  BY <1>0, <1>1, <1>2 DEF TasksApart, InProgress
<1>4. SequencesInUse'
  BY <1>0, <1>1, <1>2 DEF SequencesInUse, Token
<1>5. InSequence'
  BY <1>0, <1>1 DEF InSequence, Token, Task
<1>6. QED
  BY <1>3, <1>4, <1>5

LEMMA DidRunWorkerTaskEffect ==
  ASSUME TaskInv, NEW w \in Worker, DidRunWorkerTask(w), NEW t, t = worker[w].task
  PROVE  /\ t \in InProgress /\ t # 0 /\ finished' = finished \cup {t}
         /\ current_sequences' = current_sequences \ {Token(t)}
         /\ worker'[w].pc = "getwork" /\ worker'[w].task = 0
         /\ worker'[w].delete_these = worker[w].delete_these
         /\ \A v \in Worker : v # w => worker'[v] = worker[v]
         /\ UNCHANGED <<log, pending_tasks, begun, dropped>>
<1>1. TypeOK /\ TasksPlaced /\ TasksApart
  BY DEF TaskInv, PoolInv
<1>2. /\ worker[w].pc = "running" /\ worker[w] \in WorkerType
      /\ worker \in [Worker -> WorkerType]
  BY <1>1 DEF DidRunWorkerTask, TypeOK
<1>3. t \in InProgress /\ t # 0
  BY <1>1, <1>2 DEF TasksPlaced, TasksApart, InProgress
<1> DEFINE state == [worker[w] EXCEPT !.pc = "getwork", !.task = 0]
<1>4. /\ state.pc = "getwork" /\ state.task = 0
      /\ state.delete_these = worker[w].delete_these
  BY <1>2 DEF WorkerType
<1>5. worker' = [worker EXCEPT ![w] = state]
  BY DEF DidRunWorkerTask
<1>6. /\ finished' = finished \cup {t}
      /\ current_sequences' = current_sequences \ {Token(t)}
      /\ UNCHANGED <<log, pending_tasks, begun, dropped>>
  BY DEF DidRunWorkerTask
<1> HIDE DEF state
<1>7. QED
  BY <1>2, <1>3, <1>4, <1>5, <1>6

LEMMA DidRunWorkerTaskTaskInv ==
  ASSUME TaskInv, NEW w \in Worker, DidRunWorkerTask(w)
  PROVE  TasksApart' /\ SequencesInUse' /\ InSequence'
<1> DEFINE t == worker[w].task
<1>0. TasksApart /\ SequencesInUse /\ InSequence
  BY DEF TaskInv
<1>1. /\ t \in InProgress /\ t # 0 /\ finished' = finished \cup {t}
      /\ current_sequences' = current_sequences \ {Token(t)}
      /\ worker'[w].pc = "getwork" /\ worker'[w].task = 0
      /\ worker'[w].delete_these = worker[w].delete_these
      /\ \A v \in Worker : v # w => worker'[v] = worker[v]
      /\ UNCHANGED <<log, pending_tasks, begun, dropped>>
  BY DidRunWorkerTaskEffect
<1>2. \A v \in Worker : v # w /\ worker[v].task # 0 => worker[v].task # t
  BY <1>0, <1>1 DEF TasksApart
<1>3. TasksApart'
  <2>1. InProgress' = InProgress \ {t}
    BY <1>1 DEF InProgress
  <2>2. \A v \in Worker : worker'[v].task # 0 =>
          v # w /\ worker'[v] = worker[v] /\ worker[v].task # t
    BY <1>1, <1>2
  <2>3. \A v \in Worker : worker'[v].delete_these = worker[v].delete_these
    BY <1>1
  <2>4. t \in begun
    BY <1>1 DEF InProgress
  <2>5. \A x \in InProgress' : \E v \in Worker : worker'[v].task = x
    BY <1>0, <1>1, <2>1 DEF TasksApart
  <2>6. QED
    BY <1>0, <1>1, <2>2, <2>3, <2>4, <2>5 DEF TasksApart
<1>4. SequencesInUse'
  <2>1. \A v \in Worker : worker'[v].task # 0 =>
          v # w /\ worker'[v] = worker[v]
    BY <1>1
  <2>2. \A v \in Worker : v # w /\ worker[v].task # 0 /\ Token(worker[v].task) # 0 =>
          Token(worker[v].task) # Token(t)
    BY <1>0, <1>1 DEF SequencesInUse
  <2>3. \A x : Token(x)' = Token(x)
    BY <1>1 DEF Token
  <2>4. QED
    BY <1>0, <1>1, <2>1, <2>2, <2>3 DEF SequencesInUse
<1>5. InSequence'
  BY <1>0, <1>1 DEF InSequence, Token, Task
<1>6. QED
  BY <1>3, <1>4, <1>5

\* What a step of the pool is to the tasks.
LEMMA StepsOfTasks ==
  ASSUME PoolInv, [Next]_vars
  PROVE  \/ Unnoticed
         \/ \E p \in Caller, token \in Tokens, behavior \in Behaviors :
              PostTask(p, token, behavior)
         \/ \E w \in Worker : \/ TakeWork(w) \/ LeaveLoop(w) \/ RunTask(w)
                              \/ DidRunWorkerTask(w)
<1>1. ASSUME NEW p \in Caller, Post(p)
      PROVE  \/ Unnoticed
             \/ \E token \in Tokens, behavior \in Behaviors : PostTask(p, token, behavior)
  BY <1>1, PosterUnnoticed DEF Post
<1>2. ASSUME NEW w \in Worker, ThreadLoop(w)
      PROVE  \/ Unnoticed \/ TakeWork(w) \/ LeaveLoop(w) \/ RunTask(w)
             \/ DidRunWorkerTask(w)
  BY <1>2, WorkerUnnoticed DEF ThreadLoop
<1>3. CASE \/ FlushForTesting \/ Shutdown \/ OwnerGoesOn \/ SignalHasWorkForTesting
           \/ UNCHANGED vars
  BY <1>3, OwnerUnnoticed
<1>4. QED
  BY <1>1, <1>2, <1>3 DEF Next

LEMMA NextTaskInv == TaskInv /\ [Next]_vars => TaskInv'
<1> SUFFICES ASSUME TaskInv, [Next]_vars PROVE TaskInv'
  OBVIOUS
<1>1. PoolInv /\ PoolInv'
  BY NextPoolInv DEF TaskInv
<1>2. TasksApart' /\ SequencesInUse' /\ InSequence'
  BY <1>1, StepsOfTasks, UnnoticedInv, PostTaskTaskInv, TakeWorkTaskInv,
     LeaveLoopTaskInv, RunTaskTaskInv, DidRunWorkerTaskTaskInv
<1>3. QED
  BY <1>1, <1>2 DEF TaskInv

\* Every task is in one place, and the sequences keep their order.
THEOREM TaskInvariant == Spec => []TaskInv
<1>1. Init => TaskInv
  BY InitTaskInv
<1>2. QED
  BY <1>1, NextTaskInv, PTL DEF Spec

\* A task that was dropped is not deleted while an earlier one of its sequence is
\* running (GetWork's delete_these_outside_lock), for any number of threads.
THEOREM DeletedInSequenceHolds == Spec => []DeletedInSequence
<1>1. ASSUME TaskInv PROVE DeletedInSequence
  <2> SUFFICES ASSUME NEW w \in Worker, NEW t \in worker[w].delete_these,
                      NEW u \in InProgress, u < t, Token(u) = Token(t), Token(t) # 0
               PROVE  FALSE
    BY DEF DeletedInSequence
  <2>1. TypeOK /\ TasksApart /\ InSequence
    BY <1>1 DEF TaskInv, PoolInv
  <2>2. t \in dropped /\ t \in Task \ pending_tasks /\ u \in Task
    BY <2>1 DEF TasksApart, TypeOK, InProgress
  <2>3. u \in finished \cup dropped
    BY <2>1, <2>2 DEF InSequence
  <2>4. QED
    BY <2>1, <2>3 DEF InProgress, TasksApart
<1>2. QED
  BY <1>1, TaskInvariant, PTL

-----------------------------------------------------------------------------
(* Where the workers go.                                                   *)

Moves(w, pc) ==
  worker'[w].pc = pc /\ \A v \in Worker : v # w => worker'[v].pc = worker[v].pc

\* A worker moves on, and one that waits may be woken.
MovesAndWakes(w, pc) ==
  /\ worker'[w].pc = pc
  /\ \A v \in Worker : v # w =>
       \/ worker'[v].pc = worker[v].pc
       \/ worker[v].pc = "waiting" /\ worker'[v].pc = "woken"

LEMMA WorkerPcs ==
  ASSUME TaskInv, NEW w \in Worker
  PROVE  /\ EnterLoop(w) => Moves(w, "getwork")
         /\ WaitForWork(w) => Moves(w, "waiting")
         /\ WaitReturns(w) => Moves(w, "getwork")
         /\ SignalCanShutdown(w) => Moves(w, "gone")
         /\ TakeWork(w) => Moves(w, "claimed")
         /\ LeaveLoop(w) => Moves(w, "leaving")
         /\ RunTask(w) => Moves(w, "running")
         /\ DidRunWorkerTask(w) => Moves(w, "getwork")
         /\ LeaveScopes(w) => Moves(w, "leaving") \/ Moves(w, "exiting")
<1>1. TypeOK /\ PoolInv
  BY DEF TaskInv, PoolInv
<1>2. worker \in [Worker -> WorkerType] /\ worker[w] \in WorkerType
  BY <1>1 DEF TypeOK
<1>3. /\ EnterLoop(w) => Moves(w, "getwork")
      /\ WaitForWork(w) => Moves(w, "waiting")
      /\ WaitReturns(w) => Moves(w, "getwork")
      /\ SignalCanShutdown(w) => Moves(w, "gone")
      /\ RunTask(w) => Moves(w, "running")
  BY <1>1, WorkerAfter
     DEF EnterLoop, WaitForWork, WaitReturns, SignalCanShutdown, RunTask, Moves
<1>4. TakeWork(w) => Moves(w, "claimed")
  BY <1>1, TakeWorkEffect DEF Moves
<1>5. DidRunWorkerTask(w) => Moves(w, "getwork")
  BY DidRunWorkerTaskEffect DEF Moves
<1>6. LeaveLoop(w) => Moves(w, "leaving")
  <2> DEFINE state == [worker[w] EXCEPT !.pc = "leaving", !.delete_these = Discarded]
  <2>1. state.pc = "leaving"
    BY <1>2 DEF WorkerType
  <2>2. LeaveLoop(w) => worker' = [worker EXCEPT ![w] = state]
    BY DEF LeaveLoop
  <2> HIDE DEF state
  <2>3. QED
    BY <1>2, <2>1, <2>2 DEF Moves
<1>7. LeaveScopes(w) => Moves(w, "leaving") \/ Moves(w, "exiting")
  <2>1. CASE worker[w].pc = "leaving" /\ worker' = [worker EXCEPT ![w].delete_these = {}]
    <3>1. worker' = [worker EXCEPT ![w] = [worker[w] EXCEPT !.delete_these = {}]]
      BY <1>2, <2>1
    <3>2. [worker[w] EXCEPT !.delete_these = {}].pc = worker[w].pc
      BY <1>2 DEF WorkerType
    <3>3. QED
      BY <1>2, <2>1, <3>1, <3>2 DEF Moves
  <2>2. CASE worker' = [worker EXCEPT ![w].pc = "exiting"]
    BY <1>1, <2>2, WorkerAfter DEF Moves
  <2>3. QED
    BY <2>1, <2>2 DEF LeaveScopes
<1>8. QED
  BY <1>3, <1>4, <1>5, <1>6, <1>7

\* The steps that signal has_work_cv_.
LEMMA SignalPcs ==
  ASSUME TypeOK, NEW w \in Worker
  PROVE  /\ worker' \in SignalHasWork(worker) => MovesAndWakes(w, worker'[w].pc)
         /\ worker' \in SignalHasWork(worker) /\ worker'[w].pc # worker[w].pc =>
              worker[w].pc = "waiting" /\ worker'[w].pc = "woken"
         /\ SignalAndDelete(w) => MovesAndWakes(w, "begin")
         /\ SignalNextWorker(w) => MovesAndWakes(w, "signalled")
<1>1. worker \in [Worker -> WorkerType] /\ worker[w] \in WorkerType
  BY DEF TypeOK
<1>2. /\ worker' \in SignalHasWork(worker) => MovesAndWakes(w, worker'[w].pc)
      /\ worker' \in SignalHasWork(worker) /\ worker'[w].pc # worker[w].pc =>
           worker[w].pc = "waiting" /\ worker'[w].pc = "woken"
  BY <1>1, SignalHasWorkWakes DEF MovesAndWakes
<1>3. ASSUME NEW moved \in [Worker -> WorkerType], NEW pc, moved[w].pc = pc,
             pc # "waiting", \A v \in Worker : v # w => moved[v] = worker[v],
             worker' \in SignalHasWork(moved)
      PROVE  MovesAndWakes(w, pc)
  BY <1>3, SignalHasWorkWakes DEF MovesAndWakes
<1>4. SignalAndDelete(w) => MovesAndWakes(w, "begin")
  <2> DEFINE state == [worker[w] EXCEPT !.pc = "begin", !.delete_these = {}]
             moved == [worker EXCEPT ![w] = state]
  <2>1. state \in WorkerType /\ state.pc = "begin"
    BY <1>1 DEF WorkerType, WorkerPc
  <2>2. SignalAndDelete(w) => worker' \in SignalHasWork(moved)
    BY DEF SignalAndDelete
  <2> HIDE DEF state
  <2>3. /\ moved \in [Worker -> WorkerType] /\ moved[w] = state
        /\ \A v \in Worker : v # w => moved[v] = worker[v]
    BY <1>1, <2>1
  <2> HIDE DEF moved
  <2>4. QED
    BY <1>3, <2>1, <2>2, <2>3
<1>5. SignalNextWorker(w) => MovesAndWakes(w, "signalled")
  <2> DEFINE state == [worker[w] EXCEPT !.pc = "signalled"]
             moved == [worker EXCEPT ![w] = state]
  <2>1. state \in WorkerType /\ state.pc = "signalled"
    BY <1>1 DEF WorkerType, WorkerPc
  <2>2. SignalNextWorker(w) => worker' \in SignalHasWork(moved)
    <3>1. moved = [worker EXCEPT ![w].pc = "signalled"]
      BY <1>1
    <3>2. QED
      BY <3>1 DEF SignalNextWorker
  <2> HIDE DEF state
  <2>3. /\ moved \in [Worker -> WorkerType] /\ moved[w] = state
        /\ \A v \in Worker : v # w => moved[v] = worker[v]
    BY <1>1, <2>1
  <2> HIDE DEF moved
  <2>4. QED
    BY <1>3, <2>1, <2>2, <2>3
<1>6. QED
  BY <1>2, <1>4, <1>5

LEMMA FinishStartingPcs ==
  ASSUME TaskInv, NEW p \in Caller, FinishStartingAdditionalThread(p)
  PROVE  /\ NextThread \in Worker /\ worker[NextThread].pc = "none"
         /\ Moves(NextThread, "created")
<1>1. TypeOK /\ OneThreadAtATime /\ poster[p] = "create"
  BY DEF TaskInv, PoolInv, FinishStartingAdditionalThread
<1>2. NextThread \in Worker /\ worker[NextThread].pc # "created"
  BY <1>1 DEF OneThreadAtATime
<1>3. NextThread \notin threads
  <2>1. Cardinality(threads) \in Nat
    BY <1>1, WorkersFinite DEF TypeOK
  <2>2. QED
    BY <1>1, <2>1 DEF OneThreadAtATime, NextThread
<1>4. worker[NextThread].pc = "none"
  BY <1>1, <1>2, <1>3 DEF OneThreadAtATime
<1>5. worker' = [worker EXCEPT ![NextThread].pc = "created"]
  BY DEF FinishStartingAdditionalThread, NextThread
<1>6. QED
  BY <1>1, <1>2, <1>4, <1>5, WorkerAfter DEF Moves

-----------------------------------------------------------------------------
(* Dropping, and flushing.                                                 *)

Left == {"leaving", "exiting", "signalled", "gone"}

\* Most steps let nobody leave who had not left and drop nothing.
LEMMA NothingDropped ==
  ASSUME DropsInShutdown, UNCHANGED dropped,
         \A w \in Worker : worker'[w].pc \in Left => worker[w].pc \in Left,
         shutdown_called => shutdown_called',
         shutdown_called' <=> owner' \in InShutdown
  PROVE  DropsInShutdown'
BY DEF DropsInShutdown, Left

LEMMA NextDropsInShutdown ==
  ASSUME TaskInv, DropsInShutdown, [Next]_vars
  PROVE  DropsInShutdown'
<1>0. TypeOK /\ PoolInv /\ (shutdown_called <=> owner \in InShutdown)
  BY DEF TaskInv, PoolInv, DropsInShutdown
<1>1. CASE \/ \E p \in Caller : PostSignals(p)
           \/ FlushForTesting \/ Shutdown \/ OwnerGoesOn
           \/ SignalHasWorkForTesting \/ UNCHANGED vars
  <2>1. worker' = worker \/ worker' \in SignalHasWork(worker)
    BY <1>1 DEF PostSignals, FlushForTesting, Shutdown, OwnerGoesOn, FlushWakes,
                ShutdownWaits, SignalHasWorkForTesting, vars
  <2>2. \A w \in Worker : worker'[w].pc \in Left => worker[w].pc \in Left
    BY <1>0, <2>1, SignalPcs DEF Left
  <2>3. /\ dropped' = dropped /\ (shutdown_called => shutdown_called')
        /\ shutdown_called' <=> owner' \in InShutdown
    BY <1>0, <1>1
       DEF PostSignals, FlushForTesting, Shutdown, OwnerGoesOn, FlushWakes,
           ShutdownWaits, SignalHasWorkForTesting, vars, underLock, history, InShutdown
  <2>4. QED
    BY <2>2, <2>3, NothingDropped
<1>2. ASSUME NEW p \in Caller,
             \/ \E token \in Tokens, behavior \in Behaviors : PostTask(p, token, behavior)
             \/ FinishStartingAdditionalThread(p)
      PROVE  DropsInShutdown'
  <2>1. \A w \in Worker : worker'[w].pc \in Left => worker[w].pc \in Left
    <3>1. CASE FinishStartingAdditionalThread(p)
      BY <3>1, FinishStartingPcs DEF Moves, Left
    <3>2. CASE ~FinishStartingAdditionalThread(p)
      BY <1>2, <3>2 DEF PostTask
    <3>3. QED
      BY <3>1, <3>2
  <2>2. UNCHANGED <<dropped, shutdown_called, owner>>
    BY <1>2 DEF PostTask, FinishStartingAdditionalThread, underLock, history
  <2>3. QED
    BY <1>0, <2>1, <2>2, NothingDropped
<1>3. ASSUME NEW w \in Worker,
             \/ EnterLoop(w) \/ WaitForWork(w) \/ WaitReturns(w) \/ SignalCanShutdown(w)
             \/ RunTask(w) \/ DidRunWorkerTask(w) \/ LeaveScopes(w)
             \/ SignalAndDelete(w) \/ SignalNextWorker(w)
      PROVE  DropsInShutdown'
  <2>1. \/ Moves(w, "getwork") \/ Moves(w, "waiting") \/ Moves(w, "running")
        \/ worker[w].pc \in Left /\ (Moves(w, "leaving") \/ Moves(w, "exiting"))
        \/ worker[w].pc \in Left /\ Moves(w, "gone")
        \/ MovesAndWakes(w, "begin")
        \/ worker[w].pc \in Left /\ MovesAndWakes(w, "signalled")
    BY <1>0, <1>3, WorkerPcs, SignalPcs
       DEF SignalCanShutdown, LeaveScopes, SignalNextWorker, Left
  <2>2. \A v \in Worker : worker'[v].pc \in Left => worker[v].pc \in Left
    BY <2>1 DEF Moves, MovesAndWakes, Left
  <2>3. UNCHANGED <<dropped, shutdown_called>>
    BY <1>3 DEF EnterLoop, WaitForWork, WaitReturns, SignalCanShutdown, RunTask,
                DidRunWorkerTask, LeaveScopes, SignalAndDelete, SignalNextWorker,
                underLock, history
  <2>4. owner' \in InShutdown <=> owner \in InShutdown
    BY <1>3 DEF EnterLoop, WaitForWork, WaitReturns, SignalCanShutdown, RunTask,
                DidRunWorkerTask, LeaveScopes, SignalAndDelete, SignalNextWorker,
                Woken, InShutdown
  <2>5. QED
    BY <1>0, <2>2, <2>3, <2>4, NothingDropped
<1>4. ASSUME NEW w \in Worker, TakeWork(w)
      PROVE  DropsInShutdown'
  <2>1. PICK t \in Finds :
          /\ dropped' = dropped \cup {u \in Discarded : u < t}
          /\ UNCHANGED <<shutdown_called, owner>>
    BY <1>0, <1>4, TakeWorkEffect
  <2>2. ~shutdown_called => Discarded = {}
    BY DEF Discarded, IsDiscarded
  <2>3. Moves(w, "claimed")
    BY <1>4, WorkerPcs
  <2>4. QED
    BY <2>1, <2>2, <2>3 DEF DropsInShutdown, Moves
<1>5. ASSUME NEW w \in Worker, LeaveLoop(w)
      PROVE  DropsInShutdown'
  <2>1. shutdown_called /\ shutdown_called' /\ UNCHANGED owner
    BY <1>5 DEF LeaveLoop
  <2>2. QED
    BY <1>0, <2>1 DEF DropsInShutdown
<1>6. QED
  BY <1>1, <1>2, <1>3, <1>4, <1>5 DEF Next, Post, ThreadLoop

\* Only shutdown drops tasks and lets workers leave.
THEOREM DropsInShutdownInvariant == Spec => []DropsInShutdown
<1>1. Init => DropsInShutdown
  BY InitTaskInv
<1>2. TaskInv /\ DropsInShutdown /\ [Next]_vars => DropsInShutdown'
  BY NextDropsInShutdown
<1>3. QED
  BY <1>1, <1>2, TaskInvariant, PTL DEF Spec

\* A pool in which every thread waits has run what was posted to it.
LEMMA IdleMeansDone ==
  ASSUME TaskInv, DropsInShutdown, ~shutdown_called, IsIdle(waiting_thread_count)
  PROVE  Task \subseteq finished
<1>1. /\ TypeOK /\ CountsMatch /\ OneThreadAtATime /\ TasksPlaced
      /\ pending_tasks = {} /\ Cardinality(Waiting) = Cardinality(threads)
  BY DEF TaskInv, PoolInv, IsIdle, CountsMatch
<1>2. Waiting \subseteq threads /\ IsFiniteSet(threads)
  <2>1. Waiting \subseteq threads
    BY <1>1 DEF Waiting, OneThreadAtATime
  <2>2. QED
    BY <1>1, <2>1, WorkersFinite DEF TypeOK
<1>3. Waiting = threads
  BY <1>1, <1>2, FS_Subset
<1>4. \A w \in Worker : worker[w].task = 0
  BY <1>1, <1>3 DEF OneThreadAtATime, TasksPlaced, Waiting
<1>5. dropped = {}
  BY DEF DropsInShutdown
<1>6. 0 \notin Task
  BY DEF Task
<1>7. QED
  BY <1>1, <1>4, <1>5, <1>6 DEF TasksPlaced

\* Only FlushWakes returns from a flush, and only from an idle pool.
LEMMA FlushReturnsIdle ==
  ASSUME [Next]_vars, owner = "flushWoken", owner' = "idle"
  PROVE  IsIdle(waiting_thread_count)
<1>1. CASE FlushForTesting \/ Shutdown \/ OwnerGoesOn \/ SignalHasWorkForTesting
           \/ UNCHANGED vars
  BY <1>1 DEF FlushForTesting, Shutdown, OwnerGoesOn, FlushWakes, ShutdownWaits,
              SignalHasWorkForTesting, vars
<1>2. ASSUME NEW p \in Caller, Post(p)
      PROVE  UNCHANGED owner
  BY <1>2 DEF Post, PostTask, PostSignals, FinishStartingAdditionalThread
<1>3. ASSUME NEW w \in Worker, ThreadLoop(w)
      PROVE  owner' \in {owner, "flushWoken", "shutdownWoken"}
  BY <1>3 DEF ThreadLoop, EnterLoop, TakeWork, WaitForWork, LeaveLoop,
              SignalAndDelete, RunTask, DidRunWorkerTask, WaitReturns, LeaveScopes,
              SignalNextWorker, SignalCanShutdown, Woken
<1>4. QED
  BY <1>1, <1>2, <1>3 DEF Next

\* FlushForTesting returns when every task posted so far has run to completion: the
\* threads it counts are all the threads there are.
THEOREM FlushMeansDoneHolds == Spec => FlushMeansDone
<1>1. ASSUME TaskInv, DropsInShutdown, [Next]_vars, owner = "flushWoken", owner' = "idle"
      PROVE  Task \subseteq finished
  <2>1. ~shutdown_called
    BY <1>1 DEF DropsInShutdown, InShutdown
  <2>2. QED
    BY <1>1, <2>1, FlushReturnsIdle, IdleMeansDone
<1>2. TaskInv /\ DropsInShutdown /\ [Next]_vars =>
        [owner = "flushWoken" /\ owner' = "idle" => Task \subseteq finished]_vars
  BY <1>1
<1>3. QED
  BY <1>2, TaskInvariant, DropsInShutdownInvariant, PTL DEF Spec, FlushMeansDone

-----------------------------------------------------------------------------
(* The runner of a sequence.                                               *)

LEMMA InitRunner == ASSUME Init, NEW s PROVE Runner(s)!Init
<1>1. Task = {} /\ begun = {} /\ finished = {} /\ dropped = {}
  BY DEF Init, Task
<1>2. PostedTasks(s) = <<>> /\ RunningTasks(s) = <<>>
  BY <1>1 DEF PostedTasks, RunningTasks, Running, InProgress
<1>3. QED
  BY <1>1, <1>2 DEF Runner!Init

\* What the runner of s sees of a log that stays as it is.
LEMMA SameLog ==
  ASSUME UNCHANGED log, NEW s
  PROVE  Sequence(s)' = Sequence(s) /\ PostedTasks(s)' = PostedTasks(s)
<1>1. Task' = Task /\ \A t : Token(t)' = Token(t)
  BY DEF Task, Token
<1>2. Sequence(s)' = Sequence(s)
  BY <1>1 DEF Sequence
<1>3. QED
  BY <1>1, <1>2 DEF PostedTasks

LEMMA SameRunning ==
  ASSUME NEW s, Running(s)' = Running(s)
  PROVE  RunningTasks(s)' = RunningTasks(s)
BY DEF RunningTasks

LEMMA OneElement == ASSUME NEW e PROVE {e} # {} /\ (CHOOSE x \in {e} : TRUE) = e
OBVIOUS

\* One task of a sequence is in progress at most.
LEMMA RunningAlone ==
  ASSUME TaskInv, NEW w \in Worker, NEW s, s # 0, NEW t, t = worker[w].task,
         t # 0, t \in Sequence(s), NEW u \in InProgress, u \in Sequence(s)
  PROVE  u = t
<1>1. TasksApart /\ SequencesInUse /\ u # 0
  BY DEF TaskInv, Sequence, Task
<1>2. PICK v \in Worker : worker[v].task = u
  BY <1>1 DEF TasksApart
<1>3. Token(u) = s /\ Token(t) = s
  BY DEF Sequence
<1>4. QED
  BY <1>1, <1>2, <1>3 DEF SequencesInUse

LEMMA RunnablesRunNothing ==
  ASSUME TaskInv, NEW s, s # 0, NEW t \in pending_tasks, IsRunnable(t), t \in Sequence(s)
  PROVE  InProgress \cap Sequence(s) = {}
<1>1. TasksApart /\ Token(t) = s
  BY DEF TaskInv, Sequence
<1>2. ASSUME NEW u \in InProgress \cap Sequence(s) PROVE FALSE
  <2>1. u \in Task /\ Token(u) = Token(t) /\ Token(t) # 0
    BY <1>1 DEF Sequence
  <2>2. \A w \in Worker : worker[w].task # u
    BY <2>1, BeforeRunnable
  <2>3. QED
    BY <1>1, <2>2 DEF TasksApart
<1>3. QED
  BY <1>2

LEMMA StutterRunner ==
  ASSUME NEW s, UNCHANGED log,
         InProgress' \cap Sequence(s) = InProgress \cap Sequence(s),
         begun' \cap Sequence(s) = begun \cap Sequence(s),
         dropped' \cap Sequence(s) = dropped \cap Sequence(s)
  PROVE  UNCHANGED Runner(s)!vars
<1>1. Sequence(s)' = Sequence(s) /\ PostedTasks(s)' = PostedTasks(s)
  BY SameLog
<1>2. Running(s)' = Running(s)
  BY <1>1 DEF Running
<1>3. QED
  BY <1>1, <1>2, SameRunning DEF Runner!vars

\* A post is one for every runner, though a task of another sequence is never due.
LEMMA PostRunner ==
  ASSUME TaskInv, NEW p \in Caller, NEW token \in Tokens, NEW behavior \in Behaviors,
         PostTask(p, token, behavior), NEW s
  PROVE  Runner(s)!Post
<1>0. PICK n : n = Len(log)
  OBVIOUS
<1> DEFINE delay == IF token = s THEN 0 ELSE 1
           entry == [delay |-> delay, nestable |-> FALSE, seen |-> n]
<1>1. /\ n \in Nat /\ Task = 1 .. n /\ Task' = 1 .. n + 1
      /\ Token(n + 1)' = token /\ (\A t \in Task : Token(t)' = Token(t))
      /\ UNCHANGED <<worker, begun, finished, dropped>>
  <2>1. PoolInv
    BY DEF TaskInv
  <2>2. QED
    BY <1>0, <2>1, PostTaskEffect
<1>2. begun \subseteq Task /\ dropped \subseteq Task /\ finished \subseteq Task
  BY DEF TaskInv, PoolInv, TypeOK
<1>3. /\ \A t \in Task : t \in Sequence(s)' <=> t \in Sequence(s)
      /\ n + 1 \in Sequence(s)' <=> token = s
      /\ Sequence(s)' \subseteq Task \cup {n + 1} /\ Sequence(s) \subseteq Task
  <2>1. Task' = Task \cup {n + 1}
    BY <1>1
  <2>2. /\ Sequence(s) = {t \in Task : Token(t) = s}
        /\ Sequence(s)' = {t \in Task' : Token(t)' = s}
    BY DEF Sequence
  <2>3. QED
    BY <1>1, <2>1, <2>2
<1>4. begun' \cap Sequence(s)' = begun \cap Sequence(s)
      /\ dropped' \cap Sequence(s)' = dropped \cap Sequence(s)
      /\ InProgress' \cap Sequence(s)' = InProgress \cap Sequence(s)
  <2>1. n + 1 \notin Task
    BY <1>1
  <2>2. QED
    BY <1>1, <1>2, <1>3, <2>1 DEF InProgress
<1>5. RunningTasks(s)' = RunningTasks(s)
  BY <1>4, SameRunning DEF Running
<1>6. PostedTasks(s)' = Append(PostedTasks(s), entry)
  <2> DEFINE Known(t) == [delay |-> IF t \in Sequence(s) THEN 0 ELSE 1,
                          nestable |-> FALSE, seen |-> t - 1]
             list == [t \in 1 .. n |-> Known(t)]
             Entry == [delay : {0, 1}, nestable : BOOLEAN, seen : Int]
  <2>1. PostedTasks(s) = list
    BY <1>1 DEF PostedTasks
  <2>2. \A t \in 1 .. n : Known(t) \in Entry
    OBVIOUS
  <2>3. entry \in Entry
    BY <1>1
  <2>4. PostedTasks(s)' = [t \in 1 .. n + 1 |-> IF t = n + 1 THEN entry ELSE Known(t)]
    <3>1. PostedTasks(s)' = [t \in 1 .. n + 1 |->
            [delay |-> IF t \in Sequence(s)' THEN 0 ELSE 1, nestable |-> FALSE, seen |-> t - 1]]
      BY <1>1 DEF PostedTasks
    <3>2. ASSUME NEW t \in 1 .. n + 1
          PROVE  [delay |-> IF t \in Sequence(s)' THEN 0 ELSE 1,
                  nestable |-> FALSE, seen |-> t - 1] =
                 (IF t = n + 1 THEN entry ELSE Known(t))
      <4>1. CASE t = n + 1
        <5>1. (IF t \in Sequence(s)' THEN 0 ELSE 1) = delay /\ t - 1 = n
          BY <1>1, <1>3, <4>1
        <5> HIDE DEF delay
        <5>2. QED
          BY <4>1, <5>1
      <4>2. CASE t # n + 1
        BY <1>1, <1>3, <4>2
      <4>3. QED
        BY <4>1, <4>2
    <3>3. QED
      BY <3>1, <3>2
  <2> HIDE DEF Known, Entry, entry
  <2>5. list \in Seq(Entry) /\ Len(list) = n
    BY <1>1, <2>2
  <2>6. Append(list, entry) = [t \in 1 .. n + 1 |-> IF t = n + 1 THEN entry ELSE Known(t)]
    BY <1>1, <2>3, <2>5
  <2>7. QED
    BY <2>1, <2>4, <2>6
<1>7. Len(PostedTasks(s)) = n
  BY <1>1 DEF PostedTasks
<1>8. delay \in {0, 1} /\ FALSE \in BOOLEAN /\ n \in 0 .. Len(PostedTasks(s))
  BY <1>1, <1>7
<1> HIDE DEF delay
<1>9. QED
  BY <1>4, <1>5, <1>6, <1>8 DEF Runner!Post

\* Dropping is for a time at which no task of the sequence is in progress.
LEMMA DropRunner ==
  ASSUME TaskInv, NEW tasks, DropsRunnable(tasks), NEW s, s # 0
  PROVE  Runner(s)!Drop \/ UNCHANGED Runner(s)!vars
<1>1. /\ tasks \subseteq pending_tasks /\ \A t \in tasks : IsRunnable(t)
      /\ dropped' = dropped \cup tasks /\ UNCHANGED <<log, begun, finished>>
  BY DEF DropsRunnable
<1>2. TypeOK /\ TasksApart
  BY DEF TaskInv, PoolInv
<1>3. /\ Sequence(s)' = Sequence(s) /\ PostedTasks(s)' = PostedTasks(s)
      /\ InProgress' = InProgress
  BY <1>1, SameLog DEF InProgress
<1>4. CASE tasks \cap Sequence(s) = {}
  <2>1. dropped' \cap Sequence(s) = dropped \cap Sequence(s)
    BY <1>1, <1>4
  <2>2. QED
    BY <1>1, <1>3, <2>1, StutterRunner
<1>5. ASSUME NEW t \in tasks \cap Sequence(s)
      PROVE  Runner(s)!Drop
  <2> DEFINE mine == tasks \cap Sequence(s)
  <2>1. RunningTasks(s) = <<>> /\ RunningTasks(s)' = RunningTasks(s)
    <3>1. InProgress \cap Sequence(s) = {}
      BY <1>1, <1>5, RunnablesRunNothing
    <3>2. QED
      BY <1>3, <3>1 DEF RunningTasks, Running
  <2>2. (dropped \cap Sequence(s))' = (dropped \cap Sequence(s)) \cup mine
    BY <1>1, <1>3
  <2>3. (begun \cap Sequence(s))' = begun \cap Sequence(s)
    BY <1>1, <1>3
  <2>4. mine \in SUBSET (Runner(s)!PostedTask \ (begun \cap Sequence(s)))
    <3>1. PICK n \in Nat : Task = 1 .. n
      BY <1>2 DEF TypeOK, Task
    <3>2. Runner(s)!PostedTask = Task
      BY <3>1 DEF Runner!PostedTask, PostedTasks
    <3>3. QED
      BY <1>1, <1>2, <3>2 DEF TasksApart, TypeOK
  <2> HIDE DEF mine
  <2>5. QED
    BY <1>3, <2>1, <2>2, <2>3, <2>4 DEF Runner!Drop
<1>6. QED
  BY <1>4, <1>5

LEMMA BeginRunner ==
  ASSUME TaskInv, NEW w \in Worker, RunTask(w), NEW s, s # 0
  PROVE  (\E t \in Runner(s)!PostedTask : Runner(s)!Begin(t)) \/ UNCHANGED Runner(s)!vars
<1> DEFINE t == worker[w].task
<1>1. /\ t \in Task /\ t # 0 /\ t \notin begun \cup pending_tasks \cup dropped
      /\ begun' = begun \cup {t}
      /\ UNCHANGED <<log, finished, dropped>>
  BY RunTaskEffect
<1>2. TypeOK /\ TasksApart /\ InSequence
  BY DEF TaskInv, PoolInv
<1>3. Sequence(s)' = Sequence(s) /\ PostedTasks(s)' = PostedTasks(s)
  BY <1>1, SameLog
<1>4. InProgress' = InProgress \cup {t} /\ t \notin InProgress
  BY <1>1, <1>2 DEF InProgress, TasksApart
<1>5. CASE t \notin Sequence(s)
  <2>1. /\ InProgress' \cap Sequence(s) = InProgress \cap Sequence(s)
        /\ begun' \cap Sequence(s) = begun \cap Sequence(s)
        /\ dropped' \cap Sequence(s) = dropped \cap Sequence(s)
    BY <1>1, <1>4, <1>5
  <2>2. QED
    BY <1>1, <2>1, StutterRunner
<1>6. CASE t \in Sequence(s)
  <2>1. InProgress \cap Sequence(s) = {}
    BY <1>1, <1>4, <1>6, RunningAlone
  <2>2. RunningTasks(s) = <<>> /\ RunningTasks(s)' = <<t>>
    <3>1. Running(s) = {} /\ Running(s)' = {t}
      BY <1>3, <1>4, <1>6, <2>1 DEF Running
    <3>2. QED
      BY <3>1, OneElement DEF RunningTasks
  <2>3. PICK n \in Nat : Task = 1 .. n
    BY <1>2 DEF TypeOK, Task
  <2>4. /\ Runner(s)!PostedTask = Task
        /\ \A u \in Task : PostedTasks(s)[u].seen = u - 1
        /\ \A u \in Task : PostedTasks(s)[u].delay = IF u \in Sequence(s) THEN 0 ELSE 1
    BY <2>3 DEF Runner!PostedTask, PostedTasks
  <2>5. ASSUME NEW u \in Runner(s)!StartsBefore(t)
        PROVE  u \in (begun \cap Sequence(s)) \cup (dropped \cap Sequence(s))
    <3>1. u \in 1 .. PostedTasks(s)[t].seen
          /\ PostedTasks(s)[u].delay <= PostedTasks(s)[t].delay
      BY <2>5 DEF Runner!StartsBefore
    <3>2. u \in 1 .. t - 1 /\ t \in 1 .. n
      BY <1>1, <2>3, <2>4, <3>1
    <3>3. u \in Task /\ u < t
      BY <2>3, <3>2
    <3>4. u \in Sequence(s)
      <4>1. PostedTasks(s)[t].delay = 0
        BY <1>1, <1>6, <2>4
      <4>2. PostedTasks(s)[u].delay = IF u \in Sequence(s) THEN 0 ELSE 1
        BY <2>4, <3>3
      <4>3. PostedTasks(s)[u].delay <= 0
        BY <3>1, <4>1
      <4>4. QED
        BY <4>2, <4>3
    <3>5. u \in finished \cup dropped
      BY <1>1, <1>2, <1>6, <3>3, <3>4 DEF InSequence, Sequence
    <3>6. QED
      BY <1>2, <3>4, <3>5 DEF TasksApart
  <2>6. Runner(s)!Begin(t)
    <3>1. t \notin (begun \cap Sequence(s)) \cup (dropped \cap Sequence(s))
      BY <1>1
    <3>2. RunningTasks(s)' = Append(RunningTasks(s), t)
      BY <2>2
    <3>3. /\ (begun \cap Sequence(s))' = (begun \cap Sequence(s)) \cup {t}
          /\ (dropped \cap Sequence(s))' = dropped \cap Sequence(s)
      BY <1>1, <1>3, <1>6
    <3> HIDE DEF t
    <3>4. QED
      BY <1>3, <2>2, <2>5, <3>1, <3>2, <3>3 DEF Runner!Begin
  <2>7. QED
    BY <1>1, <2>4, <2>6
<1>7. QED
  BY <1>5, <1>6

LEMMA FinishRunner ==
  ASSUME TaskInv, NEW w \in Worker, DidRunWorkerTask(w), NEW s, s # 0
  PROVE  Runner(s)!Finish \/ UNCHANGED Runner(s)!vars
<1> DEFINE t == worker[w].task
<1>1. /\ t \in InProgress /\ t # 0 /\ finished' = finished \cup {t}
      /\ UNCHANGED <<log, begun, dropped>>
  BY DidRunWorkerTaskEffect
<1>2. Sequence(s)' = Sequence(s) /\ PostedTasks(s)' = PostedTasks(s)
  BY <1>1, SameLog
<1>3. InProgress' = InProgress \ {t}
  BY <1>1 DEF InProgress
<1>4. CASE t \notin Sequence(s)
  <2>1. /\ InProgress' \cap Sequence(s) = InProgress \cap Sequence(s)
        /\ begun' \cap Sequence(s) = begun \cap Sequence(s)
        /\ dropped' \cap Sequence(s) = dropped \cap Sequence(s)
    BY <1>1, <1>3, <1>4
  <2>2. QED
    BY <1>1, <2>1, StutterRunner
<1>5. CASE t \in Sequence(s)
  <2>1. InProgress \cap Sequence(s) = {t}
    BY <1>1, <1>5, RunningAlone
  <2>2. RunningTasks(s) = <<t>> /\ RunningTasks(s)' = <<>>
    <3>1. Running(s) = {t} /\ Running(s)' = {}
      BY <1>2, <1>3, <2>1 DEF Running
    <3>2. QED
      BY <3>1, OneElement DEF RunningTasks
  <2>3. SubSeq(<<t>>, 1, Len(<<t>>) - 1) = <<>> /\ <<t>> # <<>>
    OBVIOUS
  <2>4. (begun \cap Sequence(s))' = begun \cap Sequence(s)
        /\ (dropped \cap Sequence(s))' = dropped \cap Sequence(s)
    BY <1>1, <1>2
  <2> HIDE DEF t
  <2>5. QED
    BY <1>2, <2>2, <2>3, <2>4 DEF Runner!Finish
<1>6. QED
  BY <1>4, <1>5

LEMMA StepsOfRunner ==
  ASSUME TaskInv, [Next]_vars, NEW s, s # 0
  PROVE  Runner(s)!Next \/ UNCHANGED Runner(s)!vars
<1>1. CASE Unnoticed
  BY <1>1, StutterRunner DEF Unnoticed, InProgress
<1>2. ASSUME NEW p \in Caller, NEW token \in Tokens, NEW behavior \in Behaviors,
             PostTask(p, token, behavior)
      PROVE  Runner(s)!Next
  BY <1>2, PostRunner DEF Runner!Next
<1>3. ASSUME NEW w \in Worker, TakeWork(w) \/ LeaveLoop(w)
      PROVE  Runner(s)!Next \/ UNCHANGED Runner(s)!vars
  BY <1>3, TakeWorkTaskInv, LeaveLoopTaskInv, DropRunner DEF Runner!Next
<1>4. ASSUME NEW w \in Worker, RunTask(w)
      PROVE  Runner(s)!Next \/ UNCHANGED Runner(s)!vars
  BY <1>4, BeginRunner DEF Runner!Next
<1>5. ASSUME NEW w \in Worker, DidRunWorkerTask(w)
      PROVE  Runner(s)!Next \/ UNCHANGED Runner(s)!vars
  BY <1>5, FinishRunner DEF Runner!Next
<1>6. QED
  BY <1>1, <1>2, <1>3, <1>4, <1>5, StepsOfTasks DEF TaskInv

\* Every sequence of the pool is a SequencedTaskRunner: whatever the workers do, its
\* tasks start once, one at a time and in the order they were posted.
THEOREM ImplementsSequencedTaskRunnerHolds == Spec => ImplementsSequencedTaskRunner
<1>1. Init => \A s \in Tokens \ {0} : Runner(s)!Init
  BY InitRunner
<1>2. TaskInv /\ [Next]_vars =>
        [\A s \in Tokens \ {0} : Runner(s)!Next \/ UNCHANGED Runner(s)!vars]_vars
  BY StepsOfRunner
<1>3. QED
  BY <1>1, <1>2, TaskInvariant, PTL DEF Spec, ImplementsSequencedTaskRunner

-----------------------------------------------------------------------------
(* Help for the tasks that wait.                                           *)

\* The tasks that would be taken, each by another thread, if threads came now.
Takeable ==
  {t \in pending_tasks :
     /\ IsRunnable(t)
     /\ Token(t) # 0 => \A u \in pending_tasks : u < t => Token(u) # Token(t)}

HelpingWorkers == {w \in Worker : worker[w].pc \in {"created", "woken", "getwork"}}
HelpingCallers == {p \in Caller : poster[p] # "idle"}
SomeoneWaits == \E w \in Worker : worker[w].pc = "waiting"

\* While a thread sleeps, somebody is on the way for every task that could be taken.
HelpCounted ==
  /\ IsFiniteSet(HelpingCallers)
  /\ ~shutdown_called /\ SomeoneWaits =>
       Cardinality(Takeable) <= Cardinality(HelpingWorkers) + Cardinality(HelpingCallers)

\* When no thread sleeps, one more is promised or somebody is about to look.
ThreadPromised ==
  /\ ~shutdown_called /\ Takeable # {} /\ waiting_thread_count = 0
  /\ Cardinality(threads) < MaxThreads
  => thread_being_created \/ \E w \in Worker : worker[w].pc = "getwork"

PromiseKept ==
  thread_being_created =>
    \/ \E p \in Caller : poster[p] = "create"
    \/ \E w \in Worker : worker[w].pc = "created"

\* The lock is with whoever looks; only who has a task posts and signals.
LookersLocked ==
  \A w \in Worker :
    /\ worker[w].pc \in {"getwork", "leaving"} => lock = w
    /\ poster[w] # "idle" => worker[w].pc \in {"claimed", "begin", "running"}

HelpInv == HelpCounted /\ ThreadPromised /\ PromiseKept /\ LookersLocked

LEMMA TakeableFinite ==
  ASSUME TypeOK
  PROVE  IsFiniteSet(Takeable)
<1>1. PICK n \in Nat : Task = 1 .. n
  BY DEF TypeOK, Task
<1>2. IsFiniteSet(Task)
  BY <1>1, FS_Interval
<1>3. Takeable \in SUBSET Task
  BY DEF TypeOK, Takeable
<1>4. QED
  BY <1>2, <1>3, FS_Subset

\* Only GetWork makes fewer tasks takeable: each post and each finished task makes
\* one more.
LEMMA TakeableStays ==
  ASSUME UNCHANGED <<log, pending_tasks, current_sequences>>
  PROVE  Takeable' = Takeable
<1>1. \A t : Token(t)' = Token(t)
  BY DEF Token
<1>2. \A t : IsRunnable(t)' <=> IsRunnable(t)
  BY <1>1 DEF IsRunnable, IsSequenceTokenRunnable
<1>3. QED
  BY <1>1, <1>2 DEF Takeable

LEMMA TakeableAfterPost ==
  ASSUME TaskInv, NEW p \in Caller, NEW token \in Tokens, NEW behavior \in Behaviors,
         PostTask(p, token, behavior)
  PROVE  \E t : Takeable' \subseteq Takeable \cup {t}
<1>0. PICK n : n = Len(log)
  OBVIOUS
<1>1. PoolInv /\ pending_tasks \subseteq Task
  BY DEF TaskInv, PoolInv, TypeOK
<1>2. /\ n \in Nat /\ Task = 1 .. n
      /\ pending_tasks' = pending_tasks \cup {n + 1}
      /\ \A t \in Task : Token(t)' = Token(t)
      /\ UNCHANGED current_sequences
  BY <1>0, <1>1, PostTaskEffect
<1>3. \A t \in Task : IsRunnable(t)' <=> IsRunnable(t)
  BY <1>2 DEF IsRunnable, IsSequenceTokenRunnable
<1>4. ASSUME NEW t \in Takeable', t # n + 1 PROVE t \in Takeable
  BY <1>1, <1>2, <1>3, <1>4 DEF Takeable
<1>5. Takeable' \subseteq Takeable \cup {n + 1}
  BY <1>4
<1>6. QED
  BY <1>5

LEMMA TakeableAfterTaking ==
  ASSUME TaskInv, ~shutdown_called, NEW w \in Worker, TakeWork(w)
  PROVE  \E t \in Takeable : Takeable' \subseteq Takeable \ {t}
<1>1. PoolInv /\ TypeOK /\ Discarded = {}
  BY DEF TaskInv, PoolInv, Discarded, IsDiscarded
<1>2. PICK t \in Finds :
        /\ pending_tasks' = pending_tasks \ {t}
        /\ current_sequences' = current_sequences \cup ({Token(t)} \ {0})
        /\ UNCHANGED log
  BY <1>1, TakeWorkEffect
<1>3. t \in pending_tasks /\ IsRunnable(t)
      /\ \A u \in pending_tasks : u < t => ~IsRunnable(u)
  BY <1>1 DEF Finds, Discarded
<1>4. t \in Takeable
  BY <1>3 DEF Takeable, IsRunnable, IsSequenceTokenRunnable
<1>5. \A x : Token(x)' = Token(x)
  BY <1>2 DEF Token
<1>6. ASSUME NEW x \in Takeable' PROVE x \in Takeable \ {t}
  <2>1. x \in pending_tasks /\ x # t /\ IsRunnable(x)'
    BY <1>2 DEF Takeable
  <2>2. IsRunnable(x) /\ (Token(x) # 0 => Token(x) # Token(t))
    BY <1>2, <1>5, <2>1 DEF IsRunnable, IsSequenceTokenRunnable
  <2>3. Token(x) # 0 => \A u \in pending_tasks' : u < x => Token(u) # Token(x)
    BY <1>5 DEF Takeable
  <2>4. QED
    BY <1>2, <2>1, <2>2, <2>3 DEF Takeable
<1>7. QED
  BY <1>4, <1>6

LEMMA TakeableAfterTask ==
  ASSUME TaskInv, NEW w \in Worker, DidRunWorkerTask(w)
  PROVE  \E x : Takeable' \subseteq Takeable \cup {x}
<1> DEFINE t == worker[w].task
<1>1. UNCHANGED <<log, pending_tasks>> /\ current_sequences' = current_sequences \ {Token(t)}
  BY DidRunWorkerTaskEffect
<1>2. PICK token : token = Token(t)
  OBVIOUS
<1> HIDE DEF t
<1>3. \A x : Token(x)' = Token(x)
  BY <1>1 DEF Token
<1>4. pending_tasks \subseteq Nat
  BY DEF TaskInv, PoolInv, TypeOK, Task
<1>5. \A x \in Takeable' : x \in pending_tasks
        /\ (Token(x) # 0 => \A u \in pending_tasks : u < x => Token(u) # Token(x))
  BY <1>1, <1>3 DEF Takeable
<1>6. ASSUME NEW x \in Takeable' PROVE x \in Takeable \/ (token # 0 /\ Token(x) = token)
  <2>1. IsRunnable(x)'
    BY DEF Takeable
  <2>2. Token(x)' = 0 \/ Token(x)' \notin current_sequences'
    BY <2>1 DEF IsRunnable, IsSequenceTokenRunnable
  <2>3. Token(x) = 0 \/ Token(x) \notin current_sequences \/ Token(x) = token
    BY <1>1, <1>2, <1>3, <2>2
  <2>4. IsRunnable(x) \/ (token # 0 /\ Token(x) = token)
    BY <2>3 DEF IsRunnable, IsSequenceTokenRunnable
  <2>5. QED
    BY <1>5, <2>4 DEF Takeable
<1>7. ASSUME NEW x \in Takeable', NEW y \in Takeable',
             Token(x) = token, Token(y) = token, token # 0
      PROVE  x = y
  <2>1. ~(x < y) /\ ~(y < x) /\ x \in Nat /\ y \in Nat
    BY <1>4, <1>5, <1>7
  <2>2. QED
    BY <2>1
<1>8. CASE \E x \in Takeable' : token # 0 /\ Token(x) = token
  BY <1>6, <1>7, <1>8
<1>9. CASE ~\E x \in Takeable' : token # 0 /\ Token(x) = token
  BY <1>6, <1>9
<1>10. QED
  BY <1>8, <1>9

\* A task is takeable as soon as one is runnable.
LEMMA TakeableIfRunnable ==
  ASSUME TypeOK, NEW t \in pending_tasks, IsRunnable(t)
  PROVE  Takeable # {}
<1> DEFINE runnable == {u \in pending_tasks : IsRunnable(u)}
<1>1. (\A n \in runnable : n \in Nat) /\ t \in runnable
  BY DEF TypeOK, Task
<1>2. PICK n \in runnable : \A m \in runnable : ~(m < n)
  <2> HIDE DEF runnable
  <2>1. QED
    BY <1>1, LeastElement
<1>3. n \in Takeable
  BY <1>2 DEF Takeable, IsRunnable, IsSequenceTokenRunnable
<1>4. QED
  BY <1>3

-----------------------------------------------------------------------------
(* Counting the help.                                                      *)

LEMMA CountAtMostOneMore ==
  ASSUME NEW S, IsFiniteSet(S), NEW x, NEW T, T \subseteq S \cup {x}
  PROVE  IsFiniteSet(T) /\ Cardinality(T) <= Cardinality(S) + 1
         /\ Cardinality(S) \in Nat /\ Cardinality(T) \in Nat
<1>1. IsFiniteSet(S \cup {x}) /\ Cardinality(S) \in Nat
      /\ Cardinality(S \cup {x}) <= Cardinality(S) + 1
  <2>1. Cardinality(S) \in Nat
    BY FS_CardinalityType
  <2>2. QED
    BY <2>1, FS_AddElement
<1>2. IsFiniteSet(T) /\ Cardinality(T) <= Cardinality(S \cup {x})
  BY <1>1, FS_Subset
<1>3. Cardinality(T) \in Nat /\ Cardinality(S \cup {x}) \in Nat
  BY <1>1, <1>2, FS_CardinalityType
<1>4. QED
  BY <1>1, <1>2, <1>3

LEMMA CountNoMore ==
  ASSUME NEW S, IsFiniteSet(S), NEW T, T \subseteq S
  PROVE  IsFiniteSet(T) /\ Cardinality(T) <= Cardinality(S)
         /\ Cardinality(S) \in Nat /\ Cardinality(T) \in Nat
BY FS_Subset, FS_CardinalityType

\* Nothing more to take, and no help lost.
LEMMA HelpStays ==
  ASSUME HelpCounted, IsFiniteSet(Takeable), Takeable' \subseteq Takeable,
         HelpingWorkers \subseteq HelpingWorkers', HelpingCallers \subseteq HelpingCallers',
         IsFiniteSet(HelpingCallers'),
         ~shutdown_called, SomeoneWaits' => SomeoneWaits
  PROVE  HelpCounted'
<1>1. Cardinality(Takeable') <= Cardinality(Takeable) /\ Cardinality(Takeable) \in Nat
      /\ Cardinality(Takeable') \in Nat
  BY CountNoMore
<1>2. IsFiniteSet(HelpingWorkers')
  <2>1. HelpingWorkers' \in SUBSET Worker
    BY DEF HelpingWorkers
  <2>2. QED
    BY <2>1, WorkersFinite
<1>3. Cardinality(HelpingWorkers) <= Cardinality(HelpingWorkers')
      /\ Cardinality(HelpingWorkers) \in Nat /\ Cardinality(HelpingWorkers') \in Nat
  BY <1>2, CountNoMore
<1>4. Cardinality(HelpingCallers) <= Cardinality(HelpingCallers')
      /\ Cardinality(HelpingCallers) \in Nat /\ Cardinality(HelpingCallers') \in Nat
  BY CountNoMore
<1>5. QED
  BY <1>1, <1>3, <1>4 DEF HelpCounted

\* One more to take, and one more who comes.
LEMMA HelpGrows ==
  ASSUME HelpCounted, IsFiniteSet(Takeable), NEW t, Takeable' \subseteq Takeable \cup {t},
         ~shutdown_called, SomeoneWaits' => SomeoneWaits,
         \/ \E p : p \notin HelpingCallers /\ HelpingCallers' = HelpingCallers \cup {p}
                 /\ HelpingWorkers' = HelpingWorkers
         \/ \E w : w \notin HelpingWorkers /\ HelpingWorkers' = HelpingWorkers \cup {w}
                 /\ HelpingCallers' = HelpingCallers
  PROVE  HelpCounted'
<1>1. Cardinality(Takeable') <= Cardinality(Takeable) + 1 /\ Cardinality(Takeable) \in Nat
      /\ Cardinality(Takeable') \in Nat
  BY CountAtMostOneMore
<1>2. IsFiniteSet(HelpingWorkers) /\ IsFiniteSet(HelpingCallers)
  <2>1. HelpingWorkers \in SUBSET Worker
    BY DEF HelpingWorkers
  <2>2. QED
    BY <2>1, WorkersFinite DEF HelpCounted
<1>3. Cardinality(HelpingWorkers) \in Nat /\ Cardinality(HelpingCallers) \in Nat
  BY <1>2, FS_CardinalityType
<1>4. /\ IsFiniteSet(HelpingCallers')
      /\ Cardinality(HelpingWorkers') + Cardinality(HelpingCallers') =
           Cardinality(HelpingWorkers) + Cardinality(HelpingCallers) + 1
  <2>1. ASSUME NEW p, p \notin HelpingCallers, HelpingCallers' = HelpingCallers \cup {p},
               HelpingWorkers' = HelpingWorkers
        PROVE  /\ IsFiniteSet(HelpingCallers')
               /\ Cardinality(HelpingWorkers') + Cardinality(HelpingCallers') =
                    Cardinality(HelpingWorkers) + Cardinality(HelpingCallers) + 1
    <3>1. IsFiniteSet(HelpingCallers')
          /\ Cardinality(HelpingCallers') = Cardinality(HelpingCallers) + 1
      BY <1>2, <2>1, CountAdd
    <3>2. QED
      BY <1>3, <2>1, <3>1
  <2>2. ASSUME NEW w, w \notin HelpingWorkers, HelpingWorkers' = HelpingWorkers \cup {w},
               HelpingCallers' = HelpingCallers
        PROVE  /\ IsFiniteSet(HelpingCallers')
               /\ Cardinality(HelpingWorkers') + Cardinality(HelpingCallers') =
                    Cardinality(HelpingWorkers) + Cardinality(HelpingCallers) + 1
    <3>1. Cardinality(HelpingWorkers') = Cardinality(HelpingWorkers) + 1
      BY <1>2, <2>2, CountAdd
    <3>2. QED
      BY <1>2, <1>3, <2>2, <3>1
  <2>3. QED
    BY <2>1, <2>2
<1>5. QED
  BY <1>1, <1>3, <1>4 DEF HelpCounted

\* Who went for help hands over to the thread it woke or made.
LEMMA HelpHandedOver ==
  ASSUME HelpCounted, Takeable' = Takeable, ~shutdown_called,
         SomeoneWaits' => SomeoneWaits,
         NEW p \in HelpingCallers, HelpingCallers' = HelpingCallers \ {p},
         SomeoneWaits' =>
           \E w : w \notin HelpingWorkers /\ HelpingWorkers' = HelpingWorkers \cup {w}
  PROVE  HelpCounted'
<1>1. IsFiniteSet(HelpingWorkers) /\ IsFiniteSet(HelpingCallers)
  <2>1. HelpingWorkers \in SUBSET Worker
    BY DEF HelpingWorkers
  <2>2. QED
    BY <2>1, WorkersFinite DEF HelpCounted
<1>2. Cardinality(HelpingWorkers) \in Nat
  BY <1>1, FS_CardinalityType
<1>3. IsFiniteSet(HelpingCallers')
  BY <1>1, FS_RemoveElement
<1>4. Cardinality(HelpingCallers) \in Nat
      /\ Cardinality(HelpingCallers') = Cardinality(HelpingCallers) - 1
  BY <1>1, CountRemove
<1>5. ASSUME SomeoneWaits' PROVE Cardinality(HelpingWorkers') = Cardinality(HelpingWorkers) + 1
  BY <1>1, <1>5, CountAdd
<1>6. QED
  BY <1>2, <1>3, <1>4, <1>5 DEF HelpCounted

\* Who has come takes one.
LEMMA HelpUsed ==
  ASSUME HelpCounted, IsFiniteSet(Takeable), NEW t \in Takeable,
         Takeable' \subseteq Takeable \ {t}, ~shutdown_called,
         SomeoneWaits' => SomeoneWaits,
         NEW w \in HelpingWorkers, HelpingWorkers' = HelpingWorkers \ {w},
         HelpingCallers \subseteq HelpingCallers', IsFiniteSet(HelpingCallers')
  PROVE  HelpCounted'
<1>1. IsFiniteSet(HelpingWorkers)
  <2>1. HelpingWorkers \in SUBSET Worker
    BY DEF HelpingWorkers
  <2>2. QED
    BY <2>1, WorkersFinite
<1>2. Cardinality(HelpingWorkers) \in Nat
      /\ Cardinality(HelpingWorkers') = Cardinality(HelpingWorkers) - 1
  BY <1>1, CountRemove
<1>3. Cardinality(HelpingCallers) <= Cardinality(HelpingCallers')
      /\ Cardinality(HelpingCallers) \in Nat /\ Cardinality(HelpingCallers') \in Nat
  BY CountNoMore
<1>4. /\ Cardinality(Takeable) \in Nat /\ IsFiniteSet(Takeable \ {t})
      /\ Cardinality(Takeable \ {t}) = Cardinality(Takeable) - 1
  BY CountRemove, FS_RemoveElement
<1>5. Cardinality(Takeable') <= Cardinality(Takeable \ {t}) /\ Cardinality(Takeable') \in Nat
  BY <1>4, CountNoMore
<1>6. QED
  BY <1>2, <1>3, <1>4, <1>5 DEF HelpCounted

-----------------------------------------------------------------------------
(* The help, step by step.                                                 *)

LEMMA InitHelpInv == Init => HelpInv
<1> SUFFICES ASSUME Init PROVE HelpInv
  OBVIOUS
<1>1. /\ \A w \in Worker : worker[w].pc = "none"
      /\ \A p \in Caller : poster[p] = "idle"
      /\ thread_being_created = FALSE /\ pending_tasks = {}
  BY DEF Init, NoWorker
<1>2. HelpCounted
  <2>1. HelpingCallers = {} /\ ~SomeoneWaits
    BY <1>1 DEF HelpingCallers, SomeoneWaits
  <2>2. QED
    BY <2>1, FS_EmptySet DEF HelpCounted
<1>3. ThreadPromised /\ PromiseKept
  BY <1>1 DEF ThreadPromised, PromiseKept, Takeable
<1>4. LookersLocked
  <2>1. Worker \subseteq Caller
    BY DEF Caller
  <2>2. QED
    BY <1>1, <2>1 DEF LookersLocked
<1>5. QED
  BY <1>2, <1>3, <1>4 DEF HelpInv

\* A worker stays where it is, is woken, or goes on with its task or its leaving.
Onward(a, b) ==
  \/ a = b
  \/ a = "waiting" /\ b = "woken"
  \/ a \in {"claimed", "begin", "running"} /\ b \in {"claimed", "begin", "running"}
  \/ a \in {"exiting", "signalled", "gone"} /\ b \in {"exiting", "signalled", "gone"}

LEMMA OnwardHelpInv ==
  ASSUME TaskInv, HelpInv, IsFiniteSet(Takeable), Takeable' = Takeable,
         UNCHANGED <<lock, thread_being_created, threads, waiting_thread_count, poster>>,
         shutdown_called => shutdown_called',
         \A w \in Worker : Onward(worker[w].pc, worker'[w].pc)
  PROVE  HelpInv'
<1>1. HelpCounted /\ ThreadPromised /\ PromiseKept /\ LookersLocked
  BY DEF HelpInv
<1>2. /\ HelpingCallers' = HelpingCallers /\ HelpingWorkers \subseteq HelpingWorkers'
      /\ SomeoneWaits' => SomeoneWaits
  BY DEF HelpingCallers, HelpingWorkers, SomeoneWaits, Onward
<1>3. HelpCounted'
  <2>1. CASE shutdown_called
    BY <1>1, <1>2, <2>1 DEF HelpCounted
  <2>2. CASE ~shutdown_called
    <3>1. IsFiniteSet(HelpingCallers') /\ HelpingCallers \subseteq HelpingCallers'
          /\ Takeable' \subseteq Takeable
      BY <1>1, <1>2 DEF HelpCounted
    <3>2. QED
      BY <1>1, <1>2, <2>2, <3>1, HelpStays
  <2>3. QED
    BY <2>1, <2>2
<1>4. ThreadPromised' /\ PromiseKept'
  BY <1>1 DEF ThreadPromised, PromiseKept, Onward
<1>5. LookersLocked'
  BY <1>1 DEF LookersLocked, Onward
<1>6. QED
  BY <1>3, <1>4, <1>5 DEF HelpInv

\* What PrepareToStartAdditionalThreadIfHelpful promises, and whom it tells.
LEMMA PrepareEffect ==
  ASSUME TypeOK, NEW p \in Caller, NEW otherwise,
         PrepareToStartAdditionalThreadIfHelpful(p, otherwise)
  PROVE  /\ poster'[p] \in {"create", otherwise}
         /\ \A q \in Caller : q # p => poster'[q] = poster[q]
         /\ thread_being_created => thread_being_created'
         /\ thread_being_created' => thread_being_created \/ poster'[p] = "create"
         /\ (/\ ~shutdown_called /\ Takeable' # {} /\ waiting_thread_count = 0
             /\ Cardinality(threads) < MaxThreads) => thread_being_created'
<1> DEFINE helpful == HelpfulThread(pending_tasks', current_sequences')
<1>1. /\ thread_being_created' = (thread_being_created \/ helpful)
      /\ poster' = [poster EXCEPT ![p] = IF helpful THEN "create" ELSE otherwise]
  BY DEF PrepareToStartAdditionalThreadIfHelpful
<1>2. Takeable' # {} =>
        \E t \in pending_tasks' :
          IsSequenceTokenRunnable(log'[t].sequence_token_id, current_sequences')
  BY DEF Takeable, IsRunnable, Token
<1>3. (/\ ~shutdown_called /\ Takeable' # {} /\ waiting_thread_count = 0
       /\ Cardinality(threads) < MaxThreads /\ ~thread_being_created) => helpful
  BY <1>2 DEF HelpfulThread
<1>4. poster \in [Caller -> {"idle", "signal", "create"}] /\ thread_being_created \in BOOLEAN
  BY DEF TypeOK
<1> HIDE DEF helpful
<1>5. /\ poster'[p] = IF helpful THEN "create" ELSE otherwise
      /\ \A q \in Caller : q # p => poster'[q] = poster[q]
  BY <1>1, <1>4
<1>6. QED
  BY <1>1, <1>3, <1>5

LEMMA PostTaskHelpInv ==
  ASSUME TaskInv, HelpInv, NEW p \in Caller, NEW token \in Tokens,
         NEW behavior \in Behaviors, PostTask(p, token, behavior)
  PROVE  HelpInv'
<1>1. /\ HelpCounted /\ ThreadPromised /\ PromiseKept /\ LookersLocked /\ TypeOK
  BY DEF HelpInv, TaskInv, PoolInv
<1>2. /\ PrepareToStartAdditionalThreadIfHelpful(p, "signal")
      /\ ~shutdown_called /\ poster[p] = "idle" /\ (p \in Worker => worker[p].pc = "running")
      /\ UNCHANGED <<lock, threads, waiting_thread_count, shutdown_called, worker>>
  BY DEF PostTask, MayPost
<1>3. /\ poster'[p] \in {"create", "signal"}
      /\ \A q \in Caller : q # p => poster'[q] = poster[q]
      /\ thread_being_created' => thread_being_created \/ poster'[p] = "create"
      /\ (/\ ~shutdown_called /\ Takeable' # {} /\ waiting_thread_count = 0
          /\ Cardinality(threads) < MaxThreads) => thread_being_created'
  BY <1>1, <1>2, PrepareEffect
<1>4. HelpCounted'
  <2>1. IsFiniteSet(Takeable) /\ \E t : Takeable' \subseteq Takeable \cup {t}
    BY <1>1, TakeableFinite, TakeableAfterPost
  <2>2. p \notin HelpingCallers /\ HelpingCallers' = HelpingCallers \cup {p}
    BY <1>2, <1>3 DEF HelpingCallers
  <2>3. HelpingWorkers' = HelpingWorkers /\ SomeoneWaits' = SomeoneWaits
    BY <1>2 DEF HelpingWorkers, SomeoneWaits
  <2>4. QED
    BY <1>1, <1>2, <2>1, <2>2, <2>3, HelpGrows
<1>5. ThreadPromised'
  BY <1>2, <1>3 DEF ThreadPromised
<1>6. PromiseKept'
  BY <1>1, <1>2, <1>3 DEF PromiseKept
<1>7. LookersLocked'
  <2>1. Worker \subseteq Caller
    BY DEF Caller
  <2>2. QED
    BY <1>1, <1>2, <1>3, <2>1 DEF LookersLocked
<1>8. QED
  BY <1>4, <1>5, <1>6, <1>7 DEF HelpInv

LEMMA PosterHelpInv ==
  ASSUME TaskInv, HelpInv, NEW p \in Caller,
         PostSignals(p) \/ FinishStartingAdditionalThread(p)
  PROVE  HelpInv'
<1>1. /\ HelpCounted /\ ThreadPromised /\ PromiseKept /\ LookersLocked
      /\ TypeOK /\ OneThreadAtATime /\ PoolInv
  BY DEF HelpInv, TaskInv, PoolInv
<1>2. /\ poster[p] # "idle" /\ poster'[p] = "idle"
      /\ \A q \in Caller : q # p => poster'[q] = poster[q]
      /\ UNCHANGED <<lock, threads, waiting_thread_count, thread_being_created,
                     shutdown_called>>
  BY <1>1 DEF PostSignals, FinishStartingAdditionalThread, TypeOK, underLock, counts
<1>3. p \in HelpingCallers /\ HelpingCallers' = HelpingCallers \ {p}
  BY <1>2 DEF HelpingCallers
<1>4. IsFiniteSet(HelpingCallers')
  BY <1>1, <1>3, FS_RemoveElement DEF HelpCounted
<1>5. ~shutdown_called => IsFiniteSet(Takeable) /\ Takeable' = Takeable
  BY <1>1, PosterUnnoticed, TakeableFinite, TakeableStays DEF Unnoticed
<1>6. Worker \subseteq Caller
  BY DEF Caller
<1>7. CASE PostSignals(p)
  <2>1. worker' \in SignalHasWork(worker) /\ worker \in [Worker -> WorkerType]
        /\ poster[p] = "signal"
    BY <1>1, <1>7 DEF PostSignals, TypeOK
  <2>2. \/ worker' = worker /\ \A v \in Worker : worker[v].pc # "waiting"
        \/ \E v \in Worker : /\ worker[v].pc = "waiting" /\ worker'[v].pc = "woken"
                             /\ \A u \in Worker : u # v => worker'[u] = worker[u]
    BY <2>1, SignalWakesOne
  <2>3. \A v \in Worker : \/ worker'[v].pc = worker[v].pc
                          \/ worker[v].pc = "waiting" /\ worker'[v].pc = "woken"
    BY <2>1, SignalHasWorkWakes
  <2>4. /\ SomeoneWaits' => SomeoneWaits
        /\ SomeoneWaits' =>
             \E w : w \notin HelpingWorkers /\ HelpingWorkers' = HelpingWorkers \cup {w}
    <3>1. CASE worker' = worker /\ \A v \in Worker : worker[v].pc # "waiting"
      BY <3>1 DEF SomeoneWaits
    <3>2. ASSUME NEW v \in Worker, worker[v].pc = "waiting", worker'[v].pc = "woken",
                 \A u \in Worker : u # v => worker'[u] = worker[u]
          PROVE  /\ SomeoneWaits
                 /\ v \notin HelpingWorkers /\ HelpingWorkers' = HelpingWorkers \cup {v}
      BY <3>2 DEF SomeoneWaits, HelpingWorkers
    <3>3. QED
      BY <2>2, <3>1, <3>2
  <2>5. HelpCounted'
    <3>1. CASE shutdown_called
      BY <1>2, <1>4, <3>1 DEF HelpCounted
    <3>2. CASE ~shutdown_called
      BY <1>1, <1>3, <1>5, <2>4, <3>2, HelpHandedOver
    <3>3. QED
      BY <3>1, <3>2
  <2>6. ThreadPromised'
    BY <1>1, <1>2, <1>5, <2>3 DEF ThreadPromised
  <2>7. PromiseKept'
    BY <1>1, <1>2, <2>1, <2>3 DEF PromiseKept
  <2>8. LookersLocked'
    BY <1>1, <1>2, <1>6, <2>3 DEF LookersLocked
  <2>9. QED
    BY <2>5, <2>6, <2>7, <2>8 DEF HelpInv
<1>8. CASE FinishStartingAdditionalThread(p)
  <2>1. /\ NextThread \in Worker /\ worker[NextThread].pc = "none"
        /\ worker'[NextThread].pc = "created"
        /\ \A v \in Worker : v # NextThread => worker'[v].pc = worker[v].pc
    BY <1>8, FinishStartingPcs DEF Moves
  <2>2. PICK n \in Worker : n = NextThread
    BY <2>1
  <2>3. /\ worker[n].pc = "none" /\ worker'[n].pc = "created"
        /\ \A v \in Worker : v # n => worker'[v].pc = worker[v].pc
    BY <2>1, <2>2
  <2>4. /\ SomeoneWaits' => SomeoneWaits
        /\ n \notin HelpingWorkers /\ HelpingWorkers' = HelpingWorkers \cup {n}
    BY <2>3 DEF SomeoneWaits, HelpingWorkers
  <2>5. HelpCounted'
    <3>1. CASE shutdown_called
      BY <1>2, <1>4, <3>1 DEF HelpCounted
    <3>2. CASE ~shutdown_called
      BY <1>1, <1>3, <1>5, <2>4, <3>2, HelpHandedOver
    <3>3. QED
      BY <3>1, <3>2
  <2>6. ThreadPromised'
    BY <1>1, <1>2, <1>5, <2>3 DEF ThreadPromised
  <2>7. PromiseKept'
    BY <2>3 DEF PromiseKept
  <2>8. LookersLocked'
    BY <1>1, <1>2, <1>6, <2>3 DEF LookersLocked
  <2>9. QED
    BY <2>5, <2>6, <2>7, <2>8 DEF HelpInv
<1>9. QED
  BY <1>7, <1>8

LEMMA TakeWorkHelpInv ==
  ASSUME TaskInv, HelpInv, NEW w \in Worker, TakeWork(w)
  PROVE  HelpInv'
<1>1. /\ HelpCounted /\ ThreadPromised /\ PromiseKept /\ LookersLocked /\ TypeOK
  BY DEF HelpInv, TaskInv, PoolInv
<1>2. /\ worker[w].pc = "getwork" /\ lock = w /\ lock' = Nobody
      /\ PrepareToStartAdditionalThreadIfHelpful(w, "idle")
      /\ UNCHANGED <<threads, waiting_thread_count, shutdown_called>>
  BY DEF TakeWork, InGetWork, WillRunWorkerTask
<1>3. w \in Caller /\ Worker \subseteq Caller
  BY DEF Caller
<1>4. /\ poster'[w] \in {"create", "idle"}
      /\ \A q \in Caller : q # w => poster'[q] = poster[q]
      /\ thread_being_created' => thread_being_created \/ poster'[w] = "create"
      /\ (/\ ~shutdown_called /\ Takeable' # {} /\ waiting_thread_count = 0
          /\ Cardinality(threads) < MaxThreads) => thread_being_created'
  BY <1>1, <1>2, <1>3, PrepareEffect
<1>5. worker'[w].pc = "claimed" /\ \A v \in Worker : v # w => worker'[v].pc = worker[v].pc
  BY WorkerPcs DEF Moves
<1>6. poster[w] = "idle"
  BY <1>1, <1>2 DEF LookersLocked
<1>7. HelpingCallers \subseteq HelpingCallers' /\ IsFiniteSet(HelpingCallers')
  <2>1. HelpingCallers' = HelpingCallers \/ HelpingCallers' = HelpingCallers \cup {w}
    BY <1>3, <1>4, <1>6 DEF HelpingCallers
  <2>2. QED
    BY <1>1, <2>1, FS_AddElement DEF HelpCounted
<1>8. HelpCounted'
  <2>1. CASE shutdown_called
    BY <1>2, <1>7, <2>1 DEF HelpCounted
  <2>2. CASE ~shutdown_called
    <3>1. IsFiniteSet(Takeable) /\ \E t \in Takeable : Takeable' \subseteq Takeable \ {t}
      BY <1>1, <2>2, TakeableFinite, TakeableAfterTaking
    <3>2. /\ w \in HelpingWorkers /\ HelpingWorkers' = HelpingWorkers \ {w}
          /\ SomeoneWaits' => SomeoneWaits
      BY <1>2, <1>5 DEF HelpingWorkers, SomeoneWaits
    <3>3. QED
      BY <1>1, <1>7, <2>2, <3>1, <3>2, HelpUsed
  <2>3. QED
    BY <2>1, <2>2
<1>9. ThreadPromised'
  BY <1>2, <1>4 DEF ThreadPromised
<1>10. PromiseKept'
  BY <1>1, <1>2, <1>3, <1>4, <1>5, <1>6 DEF PromiseKept
<1>11. LookersLocked'
  BY <1>1, <1>2, <1>3, <1>4, <1>5 DEF LookersLocked
<1>12. QED
  BY <1>8, <1>9, <1>10, <1>11 DEF HelpInv

\* A thread goes to sleep only if there is nothing it could take.
LEMMA WaitForWorkHelpInv ==
  ASSUME TaskInv, HelpInv, NEW w \in Worker, WaitForWork(w)
  PROVE  HelpInv'
<1>1. /\ HelpCounted /\ PromiseKept /\ LookersLocked /\ TypeOK /\ PoolInv
  BY DEF HelpInv, TaskInv, PoolInv
<1>2. /\ worker[w].pc = "getwork" /\ lock = w /\ lock' = Nobody /\ Finds = {}
      /\ ~shutdown_called
      /\ UNCHANGED <<pending_tasks, thread_being_created, poster>>
  BY DEF WaitForWork, InGetWork
<1>3. worker'[w].pc = "waiting" /\ \A v \in Worker : v # w => worker'[v].pc = worker[v].pc
  BY WorkerPcs DEF Moves
<1>4. Takeable' = {}
  <2>1. Takeable = {}
    BY <1>1, <1>2, FindsIfThereIs DEF Takeable, IsDiscarded
  <2>2. QED
    BY <1>1, <2>1, WorkerUnnoticed, TakeableStays DEF Unnoticed
<1>5. HelpCounted'
  <2>1. HelpingCallers' = HelpingCallers /\ IsFiniteSet(HelpingCallers)
    BY <1>1, <1>2 DEF HelpingCallers, HelpCounted
  <2>2. Cardinality(HelpingCallers) \in Nat
    BY <2>1, FS_CardinalityType
  <2>3. Cardinality(HelpingWorkers') \in Nat
    <3>1. HelpingWorkers' \in SUBSET Worker
      BY DEF HelpingWorkers
    <3>2. QED
      BY <3>1, WorkersFinite
  <2>4. Cardinality(Takeable') = 0
    BY <1>4, FS_EmptySet
  <2>5. QED
    BY <2>1, <2>2, <2>3, <2>4 DEF HelpCounted
<1>6. ThreadPromised'
  BY <1>4 DEF ThreadPromised
<1>7. PromiseKept'
  BY <1>1, <1>2, <1>3 DEF PromiseKept
<1>8. LookersLocked'
  BY <1>1, <1>2, <1>3 DEF LookersLocked
<1>9. QED
  BY <1>5, <1>6, <1>7, <1>8 DEF HelpInv

\* Who takes the lock to look for work.
LEMMA LookerHelpInv ==
  ASSUME TaskInv, HelpInv, NEW w \in Worker,
         EnterLoop(w) \/ WaitReturns(w) \/ DidRunWorkerTask(w)
  PROVE  HelpInv'
<1>1. /\ HelpCounted /\ PromiseKept /\ LookersLocked /\ TypeOK /\ PoolInv
  BY DEF HelpInv, TaskInv, PoolInv
<1>2. /\ lock = Nobody /\ lock' = w /\ UNCHANGED <<poster, shutdown_called>>
      /\ worker[w].pc \in {"created", "woken", "running"}
      /\ worker[w].pc = "running" => poster[w] = "idle"
  BY DEF EnterLoop, WaitReturns, DidRunWorkerTask
<1>3. worker'[w].pc = "getwork" /\ \A v \in Worker : v # w => worker'[v].pc = worker[v].pc
  BY WorkerPcs DEF Moves
<1>4. poster[w] = "idle"
  BY <1>1, <1>2 DEF LookersLocked
<1>5. /\ HelpingCallers' = HelpingCallers /\ IsFiniteSet(HelpingCallers')
      /\ SomeoneWaits' => SomeoneWaits
  <2>1. HelpingCallers' = HelpingCallers
    BY <1>2 DEF HelpingCallers
  <2>2. QED
    BY <1>1, <1>3, <2>1 DEF HelpCounted, SomeoneWaits
<1>6. HelpCounted'
  <2>1. CASE shutdown_called
    BY <1>2, <1>5, <2>1 DEF HelpCounted
  <2>2. CASE ~shutdown_called /\ DidRunWorkerTask(w)
    <3>1. IsFiniteSet(Takeable) /\ \E t : Takeable' \subseteq Takeable \cup {t}
      BY <1>1, <2>2, TakeableFinite, TakeableAfterTask
    <3>2. w \notin HelpingWorkers /\ HelpingWorkers' = HelpingWorkers \cup {w}
      BY <1>3, <2>2 DEF HelpingWorkers, DidRunWorkerTask
    <3>3. QED
      BY <1>1, <1>5, <2>2, <3>1, <3>2, HelpGrows
  <2>3. CASE ~shutdown_called /\ (EnterLoop(w) \/ WaitReturns(w))
    <3>1. IsFiniteSet(Takeable) /\ Takeable' \subseteq Takeable
      BY <1>1, <2>3, WorkerUnnoticed, TakeableFinite, TakeableStays DEF Unnoticed
    <3>2. HelpingWorkers \subseteq HelpingWorkers' /\ HelpingCallers \subseteq HelpingCallers'
      BY <1>3, <1>5 DEF HelpingWorkers
    <3>3. QED
      BY <1>1, <1>5, <2>3, <3>1, <3>2, HelpStays
  <2>4. QED
    BY <2>1, <2>2, <2>3
<1>7. ThreadPromised'
  BY <1>3 DEF ThreadPromised
<1>8. PromiseKept'
  <2>1. CASE EnterLoop(w)
    BY <2>1 DEF EnterLoop, PromiseKept
  <2>2. CASE WaitReturns(w) \/ DidRunWorkerTask(w)
    <3>1. UNCHANGED thread_being_created /\ worker[w].pc # "created"
      BY <2>2 DEF WaitReturns, DidRunWorkerTask
    <3>2. QED
      BY <1>1, <1>2, <1>3, <3>1 DEF PromiseKept
  <2>3. QED
    BY <2>1, <2>2
<1>9. LookersLocked'
  <2>1. Nobody \notin Worker
    BY DEF Nobody, Worker
  <2>2. QED
    BY <1>1, <1>2, <1>3, <1>4, <2>1 DEF LookersLocked
<1>10. QED
  BY <1>6, <1>7, <1>8, <1>9 DEF HelpInv

\* Who leaves the loop does so in shutdown.
LEMMA LeaverHelpInv ==
  ASSUME TaskInv, DropsInShutdown, HelpInv, NEW w \in Worker,
         LeaveLoop(w) \/ LeaveScopes(w)
  PROVE  HelpInv'
<1>1. /\ HelpCounted /\ PromiseKept /\ LookersLocked
  BY DEF HelpInv
<1>2. shutdown_called /\ shutdown_called'
  BY DEF LeaveLoop, LeaveScopes, underLock, DropsInShutdown
<1>3. /\ worker[w].pc \in {"getwork", "leaving"} /\ lock = w
      /\ UNCHANGED <<poster, thread_being_created>>
  BY <1>1 DEF LeaveLoop, InGetWork, LeaveScopes, underLock, LookersLocked
<1>4. /\ \A v \in Worker : v # w => worker'[v].pc = worker[v].pc
      /\ worker'[w].pc \in {"leaving", "exiting"}
  BY WorkerPcs DEF Moves
<1>5. worker'[w].pc = "leaving" => lock' = w
  <2>1. CASE LeaveLoop(w)
    BY <1>3, <2>1 DEF LeaveLoop
  <2>2. CASE LeaveScopes(w) /\ worker[w].delete_these # {}
    BY <1>3, <2>2 DEF LeaveScopes, underLock
  <2>3. CASE LeaveScopes(w) /\ worker[w].delete_these = {}
    <3>1. worker' = [worker EXCEPT ![w].pc = "exiting"] /\ TypeOK
      BY <2>3 DEF LeaveScopes, TaskInv, PoolInv
    <3>2. worker'[w].pc = "exiting"
      BY <3>1, WorkerAfter
    <3>3. QED
      BY <3>2
  <2>4. QED
    BY <2>1, <2>2, <2>3
<1>6. HelpCounted'
  <2>1. HelpingCallers' = HelpingCallers
    BY <1>3 DEF HelpingCallers
  <2>2. QED
    BY <1>1, <1>2, <2>1 DEF HelpCounted
<1>7. ThreadPromised'
  BY <1>2 DEF ThreadPromised
<1>8. PromiseKept'
  BY <1>1, <1>3, <1>4 DEF PromiseKept
<1>9. LookersLocked'
  BY <1>1, <1>3, <1>4, <1>5 DEF LookersLocked
<1>10. QED
  BY <1>6, <1>7, <1>8, <1>9 DEF HelpInv

\* The remaining steps.
LEMMA OthersHelpInv ==
  ASSUME TaskInv, HelpInv,
         \/ \E w \in Worker : \/ SignalAndDelete(w) \/ RunTask(w)
                              \/ SignalNextWorker(w) \/ SignalCanShutdown(w)
         \/ FlushForTesting \/ Shutdown \/ OwnerGoesOn \/ SignalHasWorkForTesting
         \/ UNCHANGED vars
  PROVE  HelpInv'
<1>1. PoolInv /\ TypeOK
  BY DEF TaskInv, PoolInv
<1>2. /\ UNCHANGED <<lock, thread_being_created, threads, waiting_thread_count, poster>>
      /\ shutdown_called => shutdown_called'
  <2>1. ASSUME NEW w \in Worker, \/ SignalAndDelete(w) \/ RunTask(w)
                                 \/ SignalNextWorker(w) \/ SignalCanShutdown(w)
        PROVE  UNCHANGED <<underLock, poster>>
    BY <2>1 DEF SignalAndDelete, RunTask, SignalNextWorker, SignalCanShutdown
  <2>2. CASE \/ FlushForTesting \/ OwnerGoesOn \/ SignalHasWorkForTesting
             \/ UNCHANGED vars
    BY <2>2 DEF FlushForTesting, OwnerGoesOn, FlushWakes, ShutdownWaits,
                SignalHasWorkForTesting, vars, underLock, counts
  <2>3. CASE Shutdown
    BY <2>3 DEF Shutdown, counts
  <2>4. QED
    BY <2>1, <2>2, <2>3 DEF underLock, counts
<1>3. IsFiniteSet(Takeable) /\ Takeable' = Takeable
  <2>1. UNCHANGED <<log, pending_tasks, current_sequences>>
    BY DEF SignalAndDelete, RunTask, SignalNextWorker, SignalCanShutdown, FlushForTesting,
           Shutdown, OwnerGoesOn, FlushWakes, ShutdownWaits, SignalHasWorkForTesting,
           vars, underLock, history
  <2>2. QED
    BY <1>1, <2>1, TakeableFinite, TakeableStays
<1>4. \A v \in Worker : Onward(worker[v].pc, worker'[v].pc)
  <2>1. ASSUME NEW w \in Worker, \/ SignalAndDelete(w) \/ RunTask(w)
                                 \/ SignalNextWorker(w) \/ SignalCanShutdown(w)
        PROVE  \A v \in Worker : Onward(worker[v].pc, worker'[v].pc)
    <3>1. \/ worker[w].pc = "claimed" /\ MovesAndWakes(w, "begin")
          \/ worker[w].pc = "begin" /\ Moves(w, "running")
          \/ worker[w].pc = "exiting" /\ MovesAndWakes(w, "signalled")
          \/ worker[w].pc = "signalled" /\ Moves(w, "gone")
      BY <1>1, <2>1, WorkerPcs, SignalPcs
         DEF SignalAndDelete, RunTask, SignalNextWorker, SignalCanShutdown
    <3>2. Onward(worker[w].pc, worker'[w].pc)
      BY <3>1 DEF Moves, MovesAndWakes, Onward
    <3>3. \A v \in Worker : v # w => Onward(worker[v].pc, worker'[v].pc)
      BY <3>1 DEF Moves, MovesAndWakes, Onward
    <3>4. QED
      BY <3>2, <3>3
  <2>2. CASE \/ FlushForTesting \/ Shutdown \/ OwnerGoesOn \/ SignalHasWorkForTesting
             \/ UNCHANGED vars
    <3>1. worker' = worker \/ worker' \in SignalHasWork(worker)
      BY <2>2 DEF FlushForTesting, Shutdown, OwnerGoesOn, FlushWakes, ShutdownWaits,
                  SignalHasWorkForTesting, vars
    <3>2. QED
      BY <1>1, <3>1, SignalPcs DEF Onward
  <2>3. QED
    BY <2>1, <2>2
<1>5. QED
  BY <1>2, <1>3, <1>4, OnwardHelpInv

LEMMA NextHelpInv ==
  ASSUME TaskInv, DropsInShutdown, HelpInv, [Next]_vars
  PROVE  HelpInv'
<1>1. ASSUME NEW p \in Caller, Post(p)
      PROVE  HelpInv'
  BY <1>1, PostTaskHelpInv, PosterHelpInv DEF Post
<1>2. ASSUME NEW w \in Worker, ThreadLoop(w)
      PROVE  HelpInv'
  BY <1>2, TakeWorkHelpInv, WaitForWorkHelpInv, LookerHelpInv, LeaverHelpInv,
     OthersHelpInv DEF ThreadLoop
<1>3. CASE \/ FlushForTesting \/ Shutdown \/ OwnerGoesOn \/ SignalHasWorkForTesting
           \/ UNCHANGED vars
  BY <1>3, OthersHelpInv
<1>4. QED
  BY <1>1, <1>2, <1>3 DEF Next

\* The pool is work-conserving: no task that could run is left to sleeping threads or
\* to a thread that is not made, for any number of threads, posters and sequences.
THEOREM WorkConservingHolds == Spec => []WorkConserving
<1>1. ASSUME TaskInv, DropsInShutdown, HelpInv PROVE WorkConserving
  <2> SUFFICES ASSUME NEW t \in pending_tasks, IsRunnable(t), ~shutdown_called,
                      ~HelpOnItsWay
               PROVE  \A w \in Worker : worker[w].task # 0
    BY DEF WorkConserving
  <2>1. /\ TypeOK /\ CountsMatch /\ OneThreadAtATime /\ TasksPlaced
        /\ HelpCounted /\ ThreadPromised /\ PromiseKept
    BY <1>1 DEF TaskInv, PoolInv, HelpInv
  <2>2. HelpingWorkers = {} /\ HelpingCallers = {}
    BY DEF HelpOnItsWay, HelpingWorkers, HelpingCallers
  <2>3. Takeable # {}
    BY <2>1, TakeableIfRunnable
  <2>4. ~SomeoneWaits
    <3>1. IsFiniteSet(Takeable)
      BY <2>1, TakeableFinite
    <3>2. Cardinality(Takeable) # 0 /\ Cardinality(Takeable) \in Nat
      BY <2>3, <3>1, FS_EmptySet, FS_CardinalityType
    <3>3. Cardinality(HelpingWorkers) = 0 /\ Cardinality(HelpingCallers) = 0
      BY <2>2, FS_EmptySet
    <3>4. QED
      BY <2>1, <3>2, <3>3 DEF HelpCounted
  <2>5. \A w \in Worker : worker[w].pc \notin {"created", "woken", "getwork", "waiting"}
    BY <2>2, <2>4 DEF HelpingWorkers, SomeoneWaits
  <2>6. waiting_thread_count = 0
    <3>1. Waiting = {}
      BY <2>5 DEF Waiting
    <3>2. QED
      BY <2>1, <3>1, FS_EmptySet DEF CountsMatch
  <2>7. ~thread_being_created
    BY <2>1, <2>2, <2>5 DEF PromiseKept, HelpingCallers
  <2>8. threads = Worker
    <3>1. ~(Cardinality(threads) < MaxThreads)
      BY <2>1, <2>3, <2>5, <2>6, <2>7 DEF ThreadPromised
    <3>2. threads \in SUBSET Worker /\ Cardinality(threads) \in 0 .. MaxThreads
      BY <2>1, WorkersFinite DEF TypeOK
    <3>3. Cardinality(threads) = Cardinality(Worker)
      BY <3>1, <3>2, WorkersFinite
    <3>4. QED
      BY <3>2, <3>3, WorkersFinite, FS_Subset
  <2>9. \A w \in Worker : worker[w].pc \notin {"leaving", "exiting", "signalled", "gone"}
    BY <1>1 DEF DropsInShutdown
  <2>10. \A w \in Worker : worker[w].pc \in WorkerPc /\ worker[w].pc # "none"
    BY <2>1, <2>8 DEF TypeOK, WorkerType, OneThreadAtATime
  <2>11. QED
    BY <2>1, <2>5, <2>9, <2>10 DEF WorkerPc, TasksPlaced
<1>2. TaskInv /\ DropsInShutdown /\ HelpInv /\ [Next]_vars => HelpInv'
  BY NextHelpInv
<1>3. QED
  BY <1>1, <1>2, InitHelpInv, TaskInvariant, DropsInShutdownInvariant, PTL DEF Spec

=============================================================================
