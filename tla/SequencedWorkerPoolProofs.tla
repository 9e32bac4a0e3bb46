---------------------- MODULE SequencedWorkerPoolProofs ----------------------
(***************************************************************************)
(* What holds of SequencedWorkerPool for every number of threads, posters, *)
(* tasks and sequences.                                                    *)
(***************************************************************************)
EXTENDS SequencedWorkerPool, FiniteSetTheorems, TLAPS

USE PostersAssumption, TokensAssumption, BehaviorsAssumption,
    ThreadsAssumption, TasksAssumption

-----------------------------------------------------------------------------
(* The inductive invariant: what the counters count, where the threads and   *)
(* the tasks are.                                                            *)

Waiting == {w \in Worker : worker[w].pc \in {"waiting", "woken"}}
Blocking == {w \in Worker : worker[w].task # 0 /\ Blocks(worker[w].task)}
BlockingPending == {t \in pending_tasks : Blocks(t)}

\* The counters that Shutdown, FlushForTesting and the creation of threads
\* decide on.
CountsMatch ==
  /\ waiting_thread_count = Cardinality(Waiting)
  /\ blocking_shutdown_thread_count = Cardinality(Blocking)
  /\ blocking_shutdown_pending_task_count = Cardinality(BlockingPending)

NextThread == Cardinality(threads) + 1

\* thread_being_created_ covers a thread from the promise until it is on
\* threads_, and there is one such thread at most.
OneThreadAtATime ==
  /\ threads = 1 .. Cardinality(threads)
  /\ \A w \in Worker : w \in threads <=> worker[w].pc \notin {"none", "created"}
  /\ \A w \in Worker : worker[w].pc = "created" =>
       thread_being_created /\ w = NextThread
  /\ \A p \in Caller : poster[p] = "create" =>
       /\ thread_being_created /\ NextThread \in Worker
       /\ \A w \in Worker : worker[w].pc # "created"
  /\ \A p, q \in Caller : poster[p] = "create" /\ poster[q] = "create" => p = q

\* A task is in the list, with a worker, finished or dropped; none that blocks
\* shutdown is dropped.
TasksPlaced ==
  /\ \A w \in Worker :
       worker[w].task # 0 <=> worker[w].pc \in {"claimed", "begin", "running"}
  /\ \A t \in Task :
       \/ t \in pending_tasks \cup finished \cup dropped
       \/ \E w \in Worker : worker[w].task = t
  /\ \A t \in dropped : ~Blocks(t)

InShutdown == {"shutdownCalled", "shutdownWait", "shutdownWoken", "shutdownReturned"}

\* Once Shutdown has returned the condition it waited for stays true.
StaysShutDown ==
  /\ owner \in InShutdown => shutdown_called
  /\ owner = "shutdownReturned" => CanShutdown

PoolInv ==
  TypeOK /\ CountsMatch /\ OneThreadAtATime /\ TasksPlaced /\ StaysShutDown

-----------------------------------------------------------------------------
(* Counting.                                                               *)

LEMMA CountAdd ==
  ASSUME NEW S, IsFiniteSet(S), NEW x, x \notin S
  PROVE  /\ IsFiniteSet(S \cup {x})
         /\ Cardinality(S \cup {x}) = Cardinality(S) + 1
  BY FS_AddElement

LEMMA CountRemove ==
  ASSUME NEW S, IsFiniteSet(S), NEW x \in S
  PROVE  /\ Cardinality(S) \in Nat /\ Cardinality(S) > 0
         /\ Cardinality(S \ {x}) = Cardinality(S) - 1
<1>1. Cardinality(S) \in Nat /\ Cardinality(S \ {x}) \in Nat
  BY FS_RemoveElement, FS_CardinalityType
<1>2. Cardinality(S \ {x}) = Cardinality(S) - 1
  BY FS_RemoveElement
<1>3. QED
  BY <1>1, <1>2

LEMMA WorkersFinite ==
  /\ IsFiniteSet(Worker) /\ Cardinality(Worker) = MaxThreads
  /\ \A S \in SUBSET Worker :
       /\ IsFiniteSet(S) /\ Cardinality(S) \in 0 .. MaxThreads
<1>1. IsFiniteSet(Worker) /\ Cardinality(Worker) = MaxThreads
  BY FS_Interval DEF Worker
<1>2. ASSUME NEW S \in SUBSET Worker
      PROVE  IsFiniteSet(S) /\ Cardinality(S) \in 0 .. MaxThreads
  <2>1. IsFiniteSet(S) /\ Cardinality(S) <= MaxThreads
    BY <1>1, FS_Subset
  <2>2. Cardinality(S) \in Nat
    BY <2>1, FS_CardinalityType
  <2>3. QED
    BY <2>1, <2>2
<1>3. QED
  BY <1>1, <1>2

LEMMA PendingFinite ==
  ASSUME TypeOK
  PROVE  IsFiniteSet(BlockingPending) /\ Cardinality(BlockingPending) \in Nat
<1>1. IsFiniteSet(Task)
  BY FS_Interval DEF TypeOK, Task
<1>2. BlockingPending \subseteq Task
  BY DEF TypeOK, BlockingPending
<1>3. QED
  BY <1>1, <1>2, FS_Subset, FS_CardinalityType

\* The bounds of the counters follow from what they count.
LEMMA CountTypes ==
  ASSUME TypeOK, CountsMatch
  PROVE  /\ Waiting \in SUBSET Worker /\ Blocking \in SUBSET Worker
         /\ IsFiniteSet(Waiting) /\ IsFiniteSet(Blocking)
         /\ Cardinality(Waiting) \in 0 .. MaxThreads
         /\ Cardinality(Blocking) \in 0 .. MaxThreads
<1>1. Waiting \in SUBSET Worker /\ Blocking \in SUBSET Worker
  BY DEF Waiting, Blocking
<1>2. QED
  BY <1>1, WorkersFinite

-----------------------------------------------------------------------------
(* Signals.                                                                *)

\* has_work_cv_.Signal() touches nothing but the pc of a waiting worker.
LEMMA SignalHasWorkWakes ==
  ASSUME NEW before \in [Worker -> WorkerType],
         NEW after \in SignalHasWork(before)
  PROVE  /\ after \in [Worker -> WorkerType]
         /\ \A w \in Worker :
              /\ after[w].task = before[w].task
              /\ \/ after[w].pc = before[w].pc
                 \/ before[w].pc = "waiting" /\ after[w].pc = "woken"
<1>1. CASE after = before
  BY <1>1
<1>2. CASE \E v \in Worker : /\ before[v].pc = "waiting"
                             /\ after = [before EXCEPT ![v].pc = "woken"]
  <2>1. PICK v \in Worker : /\ before[v].pc = "waiting"
                            /\ after = [before EXCEPT ![v].pc = "woken"]
    BY <1>2
  <2>2. before[v] \in WorkerType
    OBVIOUS
  <2>3. "woken" \in WorkerPc
    BY DEF WorkerPc
  <2>4. [before[v] EXCEPT !.pc = "woken"] \in WorkerType
    BY <2>2, <2>3 DEF WorkerType
  <2>5. after = [before EXCEPT ![v] = [before[v] EXCEPT !.pc = "woken"]]
    BY <2>1
  <2>6. after \in [Worker -> WorkerType]
    BY <2>4, <2>5
  <2>7. ASSUME NEW w \in Worker
        PROVE  /\ after[w].task = before[w].task
               /\ \/ after[w].pc = before[w].pc
                  \/ before[w].pc = "waiting" /\ after[w].pc = "woken"
    <3>1. CASE w = v
      BY <2>1, <2>2, <2>5, <3>1 DEF WorkerType
    <3>2. CASE w # v
      BY <2>5, <3>2
    <3>3. QED
      BY <3>1, <3>2
  <2>8. QED
    BY <2>6, <2>7
<1>3. QED
  BY <1>1, <1>2 DEF SignalHasWork

-----------------------------------------------------------------------------
(* Steps that only move workers within a stage of ThreadLoop.              *)

SameStage(a, b) ==
  /\ a = "none" <=> b = "none"
  /\ a = "created" <=> b = "created"
  /\ a \in {"waiting", "woken"} <=> b \in {"waiting", "woken"}
  /\ a \in {"claimed", "begin", "running"} <=> b \in {"claimed", "begin", "running"}

\* Such a step, of any worker, changes nothing that is counted or placed.
LEMMA SameStageStep ==
  ASSUME PoolInv,
         UNCHANGED <<pending_tasks, threads, thread_being_created, counts, log,
                     finished, dropped>>,
         \A w \in Worker : /\ worker'[w].task = worker[w].task
                           /\ SameStage(worker[w].pc, worker'[w].pc),
         \A p \in Caller : poster'[p] = "create" => poster[p] = "create"
  PROVE  CountsMatch' /\ OneThreadAtATime' /\ TasksPlaced'
<1> USE DEF PoolInv
<1>1. Waiting' = Waiting /\ Blocking' = Blocking
      /\ BlockingPending' = BlockingPending
  BY DEF Waiting, Blocking, BlockingPending, Blocks, SameStage
<1>2. CountsMatch'
  BY <1>1 DEF CountsMatch, counts
<1>3. OneThreadAtATime'
  BY DEF OneThreadAtATime, NextThread, SameStage
<1>4. TasksPlaced'
  <2>1. Task' = Task /\ (\A t : Blocks(t)' = Blocks(t))
    BY DEF Task, Blocks
  <2>2. QED
    BY <2>1 DEF TasksPlaced, SameStage
<1>5. QED
  BY <1>2, <1>3, <1>4

\* The rest of the invariant for a step of one worker that needs no lock.
LEMMA WorkerMoves ==
  ASSUME PoolInv, NEW w \in Worker, NEW pc \in WorkerPc, NEW tasks \in SUBSET Task,
         worker' = [worker EXCEPT ![w] = [@ EXCEPT !.pc = pc, !.delete_these = tasks]],
         SameStage(worker[w].pc, pc),
         UNCHANGED log
  PROVE  /\ worker' \in [Worker -> WorkerType']
         /\ \A v \in Worker : /\ worker'[v].task = worker[v].task
                              /\ SameStage(worker[v].pc, worker'[v].pc)
<1>1. worker \in [Worker -> WorkerType] /\ Task' = Task
  BY DEF PoolInv, TypeOK, Task
<1>2. worker[w] \in WorkerType /\ WorkerType' = WorkerType
  BY <1>1 DEF WorkerType
<1>3. [worker[w] EXCEPT !.pc = pc, !.delete_these = tasks] \in WorkerType
  BY <1>2 DEF WorkerType
<1>4. worker' = [worker EXCEPT ![w] =
                   [worker[w] EXCEPT !.pc = pc, !.delete_these = tasks]]
  OBVIOUS
<1>5. worker' \in [Worker -> WorkerType]
  BY <1>1, <1>3, <1>4
<1>6. worker'[w].task = worker[w].task /\ worker'[w].pc = pc
  BY <1>1, <1>2, <1>4 DEF WorkerType
<1>7. \A v \in Worker : v # w => worker'[v] = worker[v]
  BY <1>1, <1>4
<1>8. ASSUME NEW v \in Worker
      PROVE  /\ worker'[v].task = worker[v].task
             /\ SameStage(worker[v].pc, worker'[v].pc)
  <2>1. CASE v = w
    BY <1>6, <2>1
  <2>2. CASE v # w
    BY <1>7, <2>2 DEF SameStage
  <2>3. QED
    BY <2>1, <2>2
<1>9. QED
  BY <1>2, <1>5, <1>8

LEMMA SignalMoves ==
  ASSUME PoolInv, worker' \in SignalHasWork(worker), UNCHANGED log
  PROVE  /\ worker' \in [Worker -> WorkerType']
         /\ \A v \in Worker : /\ worker'[v].task = worker[v].task
                              /\ SameStage(worker[v].pc, worker'[v].pc)
<1>1. worker \in [Worker -> WorkerType] /\ WorkerType' = WorkerType
  BY DEF PoolInv, TypeOK, WorkerType, Task
<1>2. /\ worker' \in [Worker -> WorkerType]
      /\ \A v \in Worker :
           /\ worker'[v].task = worker[v].task
           /\ \/ worker'[v].pc = worker[v].pc
              \/ worker[v].pc = "waiting" /\ worker'[v].pc = "woken"
  BY <1>1, SignalHasWorkWakes
<1>3. QED
  BY <1>1, <1>2 DEF SameStage

\* A worker moves on and signals.
LEMMA WorkerMovesAndSignals ==
  ASSUME PoolInv, NEW w \in Worker, NEW pc \in WorkerPc, NEW tasks \in SUBSET Task,
         NEW moved,
         moved = [worker EXCEPT ![w] = [@ EXCEPT !.pc = pc, !.delete_these = tasks]],
         worker' \in SignalHasWork(moved),
         SameStage(worker[w].pc, pc), pc # "waiting", UNCHANGED log
  PROVE  /\ worker' \in [Worker -> WorkerType']
         /\ \A v \in Worker : /\ worker'[v].task = worker[v].task
                              /\ SameStage(worker[v].pc, worker'[v].pc)
<1>1. worker \in [Worker -> WorkerType] /\ WorkerType' = WorkerType
  BY DEF PoolInv, TypeOK, WorkerType, Task
<1>2. [worker[w] EXCEPT !.pc = pc, !.delete_these = tasks] \in WorkerType
  BY <1>1 DEF WorkerType
<1>3. /\ moved \in [Worker -> WorkerType]
      /\ moved[w] = [worker[w] EXCEPT !.pc = pc, !.delete_these = tasks]
      /\ \A v \in Worker : v # w => moved[v] = worker[v]
  BY <1>1, <1>2
<1>4. moved[w].task = worker[w].task /\ moved[w].pc = pc
  BY <1>1, <1>3 DEF WorkerType
<1>5. /\ worker' \in [Worker -> WorkerType]
      /\ \A v \in Worker :
           /\ worker'[v].task = moved[v].task
           /\ \/ worker'[v].pc = moved[v].pc
              \/ moved[v].pc = "waiting" /\ worker'[v].pc = "woken"
  BY <1>3, SignalHasWorkWakes
<1>6. ASSUME NEW v \in Worker
      PROVE  /\ worker'[v].task = worker[v].task
             /\ SameStage(worker[v].pc, worker'[v].pc)
  <2>1. CASE v = w
    BY <1>4, <1>5, <2>1
  <2>2. CASE v # w
    BY <1>3, <1>5, <2>2 DEF SameStage
  <2>3. QED
    BY <2>1, <2>2
<1>7. QED
  BY <1>1, <1>5, <1>6

-----------------------------------------------------------------------------
(* The initial state.                                                      *)

LEMMA InitPoolInv == Init => PoolInv
<1> SUFFICES ASSUME Init PROVE PoolInv
  OBVIOUS
<1>1. Task = {} /\ Len(log) = 0
  BY DEF Init, Task
<1>2. worker \in [Worker -> WorkerType]
  <2>1. NoWorker \in WorkerType
    BY DEF NoWorker, WorkerType, WorkerPc
  <2>2. QED
    BY <2>1 DEF Init
<1>3. TypeOK
  <2>1. log \in Seq(TaskType)
    BY DEF Init
  <2>2. poster \in [Caller -> {"idle", "signal", "create"}]
    BY DEF Init
  <2>3. /\ lock \in Worker \cup {Nobody}
        /\ pending_tasks \subseteq Task /\ begun \subseteq Task
        /\ finished \subseteq Task /\ dropped \subseteq Task
        /\ current_sequences \subseteq Tokens \ {0} /\ threads \subseteq Worker
    BY DEF Init
  <2>4. 0 \in 0 .. MaxThreads /\ 0 \in Nat
    OBVIOUS
  <2>5. /\ waiting_thread_count \in 0 .. MaxThreads
        /\ blocking_shutdown_thread_count \in 0 .. MaxThreads
        /\ blocking_shutdown_pending_task_count \in Nat
    BY <2>4 DEF Init
  <2>6. /\ thread_being_created \in BOOLEAN /\ shutdown_called \in BOOLEAN
        /\ owner \in {"idle", "flushWait", "flushWoken", "shutdownCalled",
                      "shutdownWait", "shutdownWoken", "shutdownReturned"}
    BY DEF Init
  <2>7. QED
    BY <1>2, <2>1, <2>2, <2>3, <2>5, <2>6, Zenon DEF TypeOK
<1>4. CountsMatch
  <2>1. Waiting = {} /\ Blocking = {} /\ BlockingPending = {}
    BY DEF Init, Waiting, Blocking, BlockingPending, NoWorker
  <2>2. QED
    BY <2>1, FS_EmptySet DEF Init, CountsMatch
<1>5. OneThreadAtATime
  <2>1. Cardinality(threads) = 0
    BY FS_EmptySet DEF Init
  <2>2. threads = 1 .. Cardinality(threads)
    BY <2>1 DEF Init
  <2>3. \A w \in Worker : worker[w].pc = "none"
    BY DEF Init, NoWorker
  <2>4. \A p \in Caller : poster[p] = "idle"
    BY DEF Init
  <2>5. QED
    BY <2>2, <2>3, <2>4 DEF Init, OneThreadAtATime
<1>6. TasksPlaced
  BY <1>1 DEF Init, TasksPlaced, NoWorker
<1>7. StaysShutDown
  BY DEF Init, StaysShutDown, InShutdown
<1>8. QED
  BY <1>3, <1>4, <1>5, <1>6, <1>7 DEF PoolInv

-----------------------------------------------------------------------------
(* The promise of a thread.                                                *)

\* PrepareToStartAdditionalThreadIfHelpful promises a thread only when none is
\* being made, and none at all once shutdown was called.
LEMMA PrepareKeepsOneThread ==
  ASSUME PoolInv, NEW p \in Caller, NEW otherwise \in {"idle", "signal"},
         PrepareToStartAdditionalThreadIfHelpful(p, otherwise),
         UNCHANGED threads,
         \A w \in Worker :
           /\ worker'[w].pc = "created" <=> worker[w].pc = "created"
           /\ worker'[w].pc = "none" <=> worker[w].pc = "none"
  PROVE  /\ OneThreadAtATime'
         /\ poster' \in [Caller -> {"idle", "signal", "create"}]
         /\ thread_being_created' \in BOOLEAN
         /\ shutdown_called => thread_being_created' = thread_being_created
<1> DEFINE helpful == HelpfulThread(pending_tasks', current_sequences')
<1>1. /\ thread_being_created' = (thread_being_created \/ helpful)
      /\ poster' = [poster EXCEPT ![p] = IF helpful THEN "create" ELSE otherwise]
  BY DEF PrepareToStartAdditionalThreadIfHelpful
<1>2. helpful => /\ ~shutdown_called /\ ~thread_being_created
                 /\ Cardinality(threads) < MaxThreads
  BY DEF HelpfulThread
<1> HIDE DEF helpful
<1>3. TypeOK /\ OneThreadAtATime
  BY DEF PoolInv
<1>4. /\ thread_being_created \in BOOLEAN /\ threads \subseteq Worker
      /\ poster \in [Caller -> {"idle", "signal", "create"}]
  BY <1>3 DEF TypeOK
<1>5. poster' \in [Caller -> {"idle", "signal", "create"}]
  BY <1>1, <1>4
<1>6. thread_being_created' \in BOOLEAN
  <2>1. CASE helpful
    BY <1>1, <2>1
  <2>2. CASE ~helpful
    BY <1>1, <1>4, <2>2
  <2>3. QED
    BY <2>1, <2>2
<1>7. shutdown_called => thread_being_created' = thread_being_created
  BY <1>1, <1>2, <1>4, <1>6
<1>8. OneThreadAtATime'
  <2>1. NextThread' = NextThread
    BY DEF NextThread
  <2>2. /\ threads' = 1 .. Cardinality(threads')
        /\ \A w \in Worker : w \in threads' <=> worker'[w].pc \notin {"none", "created"}
    BY <1>3 DEF OneThreadAtATime
  <2>3. \A w \in Worker : worker'[w].pc = "created" =>
          thread_being_created' /\ w = NextThread'
    BY <1>1, <1>3, <2>1 DEF OneThreadAtATime
  <2>4. ASSUME NEW q \in Caller, poster'[q] = "create"
        PROVE  \/ ~helpful /\ poster[q] = "create" /\ q # p
               \/ helpful /\ q = p
    <3>1. CASE q = p
      BY <1>1, <1>4, <2>4, <3>1
    <3>2. CASE q # p
      <4>1. poster[q] = "create"
        BY <1>1, <1>4, <2>4, <3>2
      <4>2. thread_being_created
        BY <1>3, <4>1 DEF OneThreadAtATime
      <4>3. QED
        BY <1>2, <3>2, <4>1, <4>2
    <3>3. QED
      BY <3>1, <3>2
  <2>5. ASSUME NEW q \in Caller, poster'[q] = "create"
        PROVE  /\ thread_being_created' /\ NextThread' \in Worker
               /\ \A w \in Worker : worker'[w].pc # "created"
    <3>1. CASE ~helpful
      BY <1>1, <1>3, <2>1, <2>4, <2>5, <3>1 DEF OneThreadAtATime
    <3>2. CASE helpful
      <4>1. Cardinality(threads) \in Nat
        BY <1>4, WorkersFinite
      <4>2. NextThread \in Worker
        BY <1>2, <3>2, <4>1 DEF NextThread, Worker
      <4>3. \A w \in Worker : worker[w].pc # "created"
        BY <1>2, <1>3, <3>2 DEF OneThreadAtATime
      <4>4. QED
        BY <1>1, <2>1, <3>2, <4>2, <4>3
    <3>3. QED
      BY <3>1, <3>2
  <2>6. ASSUME NEW q \in Caller, NEW r \in Caller,
               poster'[q] = "create", poster'[r] = "create"
        PROVE  q = r
    BY <1>3, <2>4, <2>6 DEF OneThreadAtATime
  <2>7. QED
    BY <2>2, <2>3, <2>5, <2>6 DEF OneThreadAtATime
<1>9. QED
  BY <1>5, <1>6, <1>7, <1>8

-----------------------------------------------------------------------------
(* Steps that leave the counted and the placed alone.                      *)

OwnerStates ==
  {"idle", "flushWait", "flushWoken", "shutdownCalled", "shutdownWait",
   "shutdownWoken", "shutdownReturned"}

LEMMA QuietStep ==
  ASSUME PoolInv,
         UNCHANGED <<pending_tasks, current_sequences, threads,
                     thread_being_created, counts, log, finished, dropped>>,
         worker' \in [Worker -> WorkerType'],
         \A w \in Worker : /\ worker'[w].task = worker[w].task
                           /\ SameStage(worker[w].pc, worker'[w].pc),
         \/ UNCHANGED poster
         \/ \E p \in Caller : poster' = [poster EXCEPT ![p] = "idle"],
         lock' \in Worker \cup {Nobody}, shutdown_called' \in BOOLEAN,
         owner' \in OwnerStates, begun' \subseteq Task,
         owner' \in InShutdown => shutdown_called',
         owner' = "shutdownReturned" => CanShutdown
  PROVE  PoolInv'
<1>1. TypeOK
  BY DEF PoolInv
<1>2. Task' = Task
  BY DEF Task
<1>3. poster' \in [Caller -> {"idle", "signal", "create"}]
  BY <1>1 DEF TypeOK
<1>4. \A p \in Caller : poster'[p] = "create" => poster[p] = "create"
  BY <1>1 DEF TypeOK
<1>5. TypeOK'
  BY <1>1, <1>2, <1>3 DEF TypeOK, OwnerStates, counts
<1>6. CountsMatch' /\ OneThreadAtATime' /\ TasksPlaced'
  BY <1>4, SameStageStep
<1>7. StaysShutDown'
  BY DEF StaysShutDown, CanShutdown, counts
<1>8. QED
  BY <1>5, <1>6, <1>7 DEF PoolInv

\* Poster and worker steps outside the lock, and the two that let go of it.
LEMMA PostSignalsInv ==
  ASSUME PoolInv, NEW p \in Caller, PostSignals(p)
  PROVE  PoolInv'
<1>1. /\ worker' \in [Worker -> WorkerType']
      /\ \A v \in Worker : /\ worker'[v].task = worker[v].task
                           /\ SameStage(worker[v].pc, worker'[v].pc)
  BY SignalMoves DEF PostSignals, history
<1>2. TypeOK /\ StaysShutDown
  BY DEF PoolInv
<1>3. QED
  BY <1>1, <1>2, QuietStep
     DEF PostSignals, underLock, history, TypeOK, StaysShutDown, OwnerStates

LEMMA SignalHasWorkForTestingInv ==
  ASSUME PoolInv, SignalHasWorkForTesting
  PROVE  PoolInv'
<1>1. /\ worker' \in [Worker -> WorkerType']
      /\ \A v \in Worker : /\ worker'[v].task = worker[v].task
                           /\ SameStage(worker[v].pc, worker'[v].pc)
  BY SignalMoves DEF SignalHasWorkForTesting, history
<1>2. TypeOK /\ StaysShutDown
  BY DEF PoolInv
<1>3. QED
  BY <1>1, <1>2, QuietStep
     DEF SignalHasWorkForTesting, underLock, history, TypeOK, StaysShutDown,
         OwnerStates

LEMMA ShutdownInv ==
  ASSUME PoolInv, Shutdown
  PROVE  PoolInv'
<1>1. /\ worker' \in [Worker -> WorkerType']
      /\ \A v \in Worker : /\ worker'[v].task = worker[v].task
                           /\ SameStage(worker[v].pc, worker'[v].pc)
  BY SignalMoves DEF Shutdown, history
<1>2. TypeOK
  BY DEF PoolInv
<1>3. /\ owner' \in OwnerStates /\ shutdown_called' = TRUE
      /\ owner' = "shutdownReturned" => CanShutdown
  BY DEF Shutdown, OwnerStates
<1>4. QED
  BY <1>1, <1>2, <1>3, QuietStep DEF Shutdown, history, TypeOK

LEMMA OwnerInv ==
  ASSUME PoolInv, FlushForTesting \/ FlushWakes \/ ShutdownWaits
  PROVE  PoolInv'
<1>1. TypeOK /\ StaysShutDown
  BY DEF PoolInv
<1>2. UNCHANGED <<underLock, worker, poster, history>>
  BY DEF FlushForTesting, FlushWakes, ShutdownWaits
<1>3. /\ worker' \in [Worker -> WorkerType']
      /\ \A v \in Worker : /\ worker'[v].task = worker[v].task
                           /\ SameStage(worker[v].pc, worker'[v].pc)
  BY <1>1, <1>2 DEF TypeOK, WorkerType, Task, SameStage, history
<1>4. /\ owner' \in OwnerStates
      /\ owner' \in InShutdown => owner \in InShutdown
      /\ owner' = "shutdownReturned" => CanShutdown
  BY DEF FlushForTesting, FlushWakes, ShutdownWaits, OwnerStates, InShutdown
<1>5. QED
  BY <1>1, <1>2, <1>3, <1>4, QuietStep
     DEF underLock, history, TypeOK, StaysShutDown

LEMMA MovesPc ==
  ASSUME TypeOK, NEW w \in Worker, NEW pc
  PROVE  /\ worker[w].delete_these \in SUBSET Task
         /\ [worker EXCEPT ![w].pc = pc] =
              [worker EXCEPT ![w] =
                 [@ EXCEPT !.pc = pc, !.delete_these = worker[w].delete_these]]
<1>1. worker \in [Worker -> WorkerType] /\ worker[w] \in WorkerType
  BY DEF TypeOK
<1>2. /\ worker[w].delete_these \in SUBSET Task
      /\ [worker[w] EXCEPT !.pc = pc] =
           [worker[w] EXCEPT !.pc = pc, !.delete_these = worker[w].delete_these]
  BY <1>1 DEF WorkerType
<1>3. QED
  BY <1>1, <1>2

LEMMA RunTaskInv ==
  ASSUME PoolInv, NEW w \in Worker, RunTask(w)
  PROVE  PoolInv'
<1>1. TypeOK /\ StaysShutDown /\ TasksPlaced
  BY DEF PoolInv
<1>2. SameStage(worker[w].pc, "running") /\ "running" \in WorkerPc
  BY DEF RunTask, SameStage, WorkerPc
<1>3. UNCHANGED log /\ worker' = [worker EXCEPT ![w].pc = "running"]
  BY DEF RunTask
<1>4. /\ worker' \in [Worker -> WorkerType']
      /\ \A v \in Worker : /\ worker'[v].task = worker[v].task
                           /\ SameStage(worker[v].pc, worker'[v].pc)
  BY <1>1, <1>2, <1>3, MovesPc, WorkerMoves
<1>5. begun' \subseteq Task
  <2>1. worker[w].task \in {0} \cup Task
    BY <1>1 DEF TypeOK, WorkerType
  <2>2. worker[w].task # 0
    BY <1>1 DEF TasksPlaced, RunTask
  <2>3. QED
    BY <1>1, <2>1, <2>2 DEF TypeOK, RunTask
<1>6. QED
  BY <1>1, <1>4, <1>5, QuietStep
     DEF RunTask, underLock, TypeOK, StaysShutDown, OwnerStates

LEMMA LeaveScopesInv ==
  ASSUME PoolInv, NEW w \in Worker, LeaveScopes(w)
  PROVE  PoolInv'
<1>1. TypeOK /\ StaysShutDown
  BY DEF PoolInv
<1>2. PICK pc \in {"leaving", "exiting"}, tasks \in SUBSET Task :
        worker' = [worker EXCEPT ![w] =
                     [@ EXCEPT !.pc = pc, !.delete_these = tasks]]
  <2>1. CASE worker[w].delete_these # {}
    <3>1. worker[w].pc = "leaving" /\ worker' = [worker EXCEPT ![w].delete_these = {}]
      BY <2>1 DEF LeaveScopes
    <3>2. worker \in [Worker -> WorkerType] /\ worker[w] \in WorkerType
      BY <1>1 DEF TypeOK
    <3>3. [worker[w] EXCEPT !.delete_these = {}] =
            [worker[w] EXCEPT !.pc = "leaving", !.delete_these = {}]
      BY <3>1, <3>2 DEF WorkerType
    <3>4. worker' = [worker EXCEPT ![w] =
                       [@ EXCEPT !.pc = "leaving", !.delete_these = {}]]
      BY <3>1, <3>2, <3>3
    <3>5. QED
      BY <3>4
  <2>2. CASE worker[w].delete_these = {}
    BY <1>1, <2>2, MovesPc DEF LeaveScopes
  <2>3. QED
    BY <2>1, <2>2
<1>3. SameStage(worker[w].pc, pc) /\ pc \in WorkerPc /\ log' = log
  BY DEF LeaveScopes, SameStage, WorkerPc, history
<1>4. /\ worker' \in [Worker -> WorkerType']
      /\ \A v \in Worker : /\ worker'[v].task = worker[v].task
                           /\ SameStage(worker[v].pc, worker'[v].pc)
  BY <1>2, <1>3, WorkerMoves
<1>5. QED
  BY <1>1, <1>4, QuietStep
     DEF LeaveScopes, underLock, history, TypeOK, StaysShutDown, OwnerStates

LEMMA SignalCanShutdownInv ==
  ASSUME PoolInv, NEW w \in Worker, SignalCanShutdown(w)
  PROVE  PoolInv'
<1>1. TypeOK /\ StaysShutDown
  BY DEF PoolInv
<1>2. SameStage(worker[w].pc, "gone") /\ "gone" \in WorkerPc /\ log' = log
      /\ worker' = [worker EXCEPT ![w].pc = "gone"]
  BY DEF SignalCanShutdown, SameStage, WorkerPc, history
<1>3. /\ worker' \in [Worker -> WorkerType']
      /\ \A v \in Worker : /\ worker'[v].task = worker[v].task
                           /\ SameStage(worker[v].pc, worker'[v].pc)
  BY <1>1, <1>2, MovesPc, WorkerMoves
<1>4. /\ owner' \in OwnerStates
      /\ owner' \in InShutdown => owner \in InShutdown
      /\ owner' = "shutdownReturned" => owner = "shutdownReturned"
  BY <1>1 DEF SignalCanShutdown, Woken, TypeOK, OwnerStates, InShutdown
<1>5. QED
  BY <1>1, <1>3, <1>4, QuietStep
     DEF SignalCanShutdown, underLock, history, TypeOK, StaysShutDown

\* The two steps that signal has_work_cv_ as the worker moves on.
LEMMA WorkerSignalsInv ==
  ASSUME PoolInv, NEW w \in Worker, SignalAndDelete(w) \/ SignalNextWorker(w)
  PROVE  PoolInv'
<1>1. TypeOK /\ StaysShutDown
  BY DEF PoolInv
<1>2. PICK pc \in {"begin", "signalled"}, tasks \in SUBSET Task :
        /\ SameStage(worker[w].pc, pc)
        /\ worker' \in SignalHasWork(
             [worker EXCEPT ![w] = [@ EXCEPT !.pc = pc, !.delete_these = tasks]])
  <2>1. CASE SignalAndDelete(w)
    BY <2>1 DEF SignalAndDelete, SameStage
  <2>2. CASE SignalNextWorker(w)
    <3>1. SameStage(worker[w].pc, "signalled")
          /\ worker' \in SignalHasWork([worker EXCEPT ![w].pc = "signalled"])
      BY <2>2 DEF SignalNextWorker, SameStage
    <3>2. /\ worker[w].delete_these \in SUBSET Task
          /\ [worker EXCEPT ![w].pc = "signalled"] =
               [worker EXCEPT ![w] = [@ EXCEPT !.pc = "signalled",
                  !.delete_these = worker[w].delete_these]]
      BY <1>1, MovesPc
    <3>3. worker' \in SignalHasWork(
            [worker EXCEPT ![w] = [@ EXCEPT !.pc = "signalled",
               !.delete_these = worker[w].delete_these]])
      BY <3>1, <3>2
    <3>4. QED
      BY <3>1, <3>2, <3>3
  <2>3. QED
    BY <2>1, <2>2
<1>3. UNCHANGED <<underLock, poster, owner, history>>
  BY DEF SignalAndDelete, SignalNextWorker
<1>4. /\ worker' \in [Worker -> WorkerType']
      /\ \A v \in Worker : /\ worker'[v].task = worker[v].task
                           /\ SameStage(worker[v].pc, worker'[v].pc)
  <2>1. pc \in WorkerPc /\ pc # "waiting" /\ log' = log
    BY <1>3 DEF WorkerPc, history
  <2>2. QED
    BY <1>2, <2>1, WorkerMovesAndSignals
<1>5. QED
  BY <1>1, <1>3, <1>4, QuietStep
     DEF underLock, history, TypeOK, StaysShutDown, OwnerStates

-----------------------------------------------------------------------------
(* Steps that count.                                                       *)

\* One worker changes, the tasks do not.
LEMMA OneWorkerChanges ==
  ASSUME TypeOK, NEW w \in Worker, NEW state \in WorkerType, UNCHANGED log,
         worker' = [worker EXCEPT ![w] = state]
  PROVE  /\ worker' \in [Worker -> WorkerType'] /\ worker'[w] = state
         /\ \A v \in Worker : v # w => worker'[v] = worker[v]
         /\ Task' = Task /\ (\A t : Blocks(t)' = Blocks(t))
BY DEF TypeOK, WorkerType, Task, Blocks

LEMMA PcChange ==
  ASSUME TypeOK, NEW w \in Worker, NEW pc \in WorkerPc, UNCHANGED log,
         worker' = [worker EXCEPT ![w].pc = pc]
  PROVE  /\ worker' \in [Worker -> WorkerType']
         /\ worker'[w].pc = pc /\ worker'[w].task = worker[w].task
         /\ \A v \in Worker : v # w => worker'[v] = worker[v]
<1>1. worker \in [Worker -> WorkerType] /\ worker[w] \in WorkerType
  BY DEF TypeOK
<1>2. [worker[w] EXCEPT !.pc = pc] \in WorkerType
  BY <1>1 DEF WorkerType
<1>3. worker' = [worker EXCEPT ![w] = [worker[w] EXCEPT !.pc = pc]]
  BY <1>1
<1>4. /\ [worker[w] EXCEPT !.pc = pc].pc = pc
      /\ [worker[w] EXCEPT !.pc = pc].task = worker[w].task
  BY <1>1 DEF WorkerType
<1>5. QED
  BY <1>2, <1>3, <1>4, OneWorkerChanges

\* A worker that waits, and one that no longer does, are counted at once.
LEMMA WaitForWorkInv ==
  ASSUME PoolInv, NEW w \in Worker, WaitForWork(w)
  PROVE  PoolInv'
<1>1. TypeOK /\ CountsMatch /\ OneThreadAtATime /\ TasksPlaced /\ StaysShutDown
  BY DEF PoolInv
<1>2. worker[w].pc = "getwork" /\ ~shutdown_called
      /\ UNCHANGED <<pending_tasks, current_sequences, threads,
                     thread_being_created, blocking_shutdown_thread_count,
                     blocking_shutdown_pending_task_count, shutdown_called,
                     poster, log, begun, finished, dropped>>
  BY DEF WaitForWork, InGetWork, history
<1>3. /\ worker' \in [Worker -> WorkerType']
      /\ worker'[w].pc = "waiting" /\ worker'[w].task = worker[w].task
      /\ \A v \in Worker : v # w => worker'[v] = worker[v]
  <2>1. "waiting" \in WorkerPc
    BY DEF WorkerPc
  <2>2. QED
    BY <1>1, <1>2, <2>1, PcChange DEF WaitForWork
<1>4. /\ Task' = Task /\ (\A t : Blocks(t)' = Blocks(t))
  BY <1>2 DEF Task, Blocks
<1>5. /\ waiting_thread_count' = Cardinality(Waiting')
      /\ Cardinality(Waiting') \in 0 .. MaxThreads
  <2>1. Waiting' = Waiting \cup {w} /\ w \notin Waiting
    BY <1>2, <1>3 DEF Waiting
  <2>2. Waiting' \in SUBSET Worker /\ IsFiniteSet(Waiting)
    BY <1>1, <2>1, CountTypes
  <2>3. QED
    BY <1>1, <2>1, <2>2, CountAdd, WorkersFinite DEF CountsMatch, WaitForWork
<1>6. Blocking' = Blocking /\ BlockingPending' = BlockingPending
  BY <1>2, <1>3, <1>4 DEF Blocking, BlockingPending
<1>7. CountsMatch'
  BY <1>1, <1>2, <1>5, <1>6 DEF CountsMatch
<1>8. /\ owner' \in OwnerStates
      /\ owner' \notin InShutdown
  BY <1>1, <1>2
     DEF WaitForWork, Woken, TypeOK, OwnerStates, InShutdown, StaysShutDown
<1>9. TypeOK'
  <2>1. lock' \in Worker \cup {Nobody}
    BY DEF WaitForWork
  <2>2. QED
    BY <1>1, <1>2, <1>3, <1>4, <1>5, <1>8, <2>1 DEF TypeOK, OwnerStates
<1>10. OneThreadAtATime'
  BY <1>1, <1>2, <1>3 DEF OneThreadAtATime, NextThread
<1>11. TasksPlaced'
  BY <1>1, <1>2, <1>3, <1>4 DEF TasksPlaced
<1>12. StaysShutDown'
  BY <1>8 DEF StaysShutDown, InShutdown
<1>13. QED
  BY <1>7, <1>9, <1>10, <1>11, <1>12 DEF PoolInv

LEMMA WaitReturnsInv ==
  ASSUME PoolInv, NEW w \in Worker, WaitReturns(w)
  PROVE  PoolInv'
<1>1. TypeOK /\ CountsMatch /\ OneThreadAtATime /\ TasksPlaced /\ StaysShutDown
  BY DEF PoolInv
<1>2. worker[w].pc = "woken"
      /\ UNCHANGED <<pending_tasks, current_sequences, threads,
                     thread_being_created, blocking_shutdown_thread_count,
                     blocking_shutdown_pending_task_count, shutdown_called,
                     poster, owner, log, begun, finished, dropped>>
  BY DEF WaitReturns, history
<1>3. /\ worker' \in [Worker -> WorkerType']
      /\ worker'[w].pc = "getwork" /\ worker'[w].task = worker[w].task
      /\ \A v \in Worker : v # w => worker'[v] = worker[v]
  <2>1. "getwork" \in WorkerPc
    BY DEF WorkerPc
  <2>2. QED
    BY <1>1, <1>2, <2>1, PcChange DEF WaitReturns
<1>4. /\ Task' = Task /\ (\A t : Blocks(t)' = Blocks(t))
  BY <1>2 DEF Task, Blocks
<1>5. /\ waiting_thread_count' = Cardinality(Waiting')
      /\ Cardinality(Waiting') \in 0 .. MaxThreads
  <2>1. Waiting' = Waiting \ {w} /\ w \in Waiting
    BY <1>2, <1>3 DEF Waiting
  <2>2. Waiting' \in SUBSET Worker /\ IsFiniteSet(Waiting)
    BY <1>1, <2>1, CountTypes
  <2>3. QED
    BY <1>1, <2>1, <2>2, CountRemove, WorkersFinite DEF CountsMatch, WaitReturns
<1>6. Blocking' = Blocking /\ BlockingPending' = BlockingPending
  BY <1>2, <1>3, <1>4 DEF Blocking, BlockingPending
<1>7. CountsMatch'
  BY <1>1, <1>2, <1>5, <1>6 DEF CountsMatch
<1>8. TypeOK'
  <2>1. lock' \in Worker \cup {Nobody}
    BY DEF WaitReturns
  <2>2. QED
    BY <1>1, <1>2, <1>3, <1>4, <1>5, <2>1 DEF TypeOK
<1>9. OneThreadAtATime'
  BY <1>1, <1>2, <1>3 DEF OneThreadAtATime, NextThread
<1>10. TasksPlaced'
  BY <1>1, <1>2, <1>3, <1>4 DEF TasksPlaced
<1>11. StaysShutDown'
  BY <1>1, <1>2 DEF StaysShutDown, InShutdown, CanShutdown
<1>12. QED
  BY <1>7, <1>8, <1>9, <1>10, <1>11 DEF PoolInv

\* A thread is created for the poster that was promised it.
LEMMA FinishStartingInv ==
  ASSUME PoolInv, NEW p \in Caller, FinishStartingAdditionalThread(p)
  PROVE  PoolInv'
<1>1. TypeOK /\ CountsMatch /\ OneThreadAtATime /\ TasksPlaced /\ StaysShutDown
  BY DEF PoolInv
<1>2. /\ poster[p] = "create" /\ poster' = [poster EXCEPT ![p] = "idle"]
      /\ worker' = [worker EXCEPT ![NextThread].pc = "created"]
      /\ UNCHANGED <<underLock, owner, history>>
  BY DEF FinishStartingAdditionalThread, NextThread
<1>3. UNCHANGED <<lock, pending_tasks, current_sequences, threads,
                  thread_being_created, counts, shutdown_called, owner, log,
                  begun, finished, dropped>>
  BY <1>2 DEF underLock, history
<1>4. /\ NextThread \in Worker /\ thread_being_created
      /\ \A v \in Worker : worker[v].pc # "created"
      /\ \A q \in Caller : poster[q] = "create" => q = p
  BY <1>1, <1>2 DEF OneThreadAtATime
<1>5. worker[NextThread].pc = "none"
  <2>1. Cardinality(threads) \in Nat
    BY <1>1, WorkersFinite DEF TypeOK
  <2>2. NextThread \notin threads
    BY <1>1, <2>1 DEF OneThreadAtATime, NextThread
  <2>3. QED
    BY <1>1, <1>4, <2>2 DEF OneThreadAtATime
<1>6. /\ worker' \in [Worker -> WorkerType']
      /\ worker'[NextThread].pc = "created"
      /\ worker'[NextThread].task = worker[NextThread].task
      /\ \A v \in Worker : v # NextThread => worker'[v] = worker[v]
  <2>1. "created" \in WorkerPc
    BY DEF WorkerPc
  <2>2. QED
    BY <1>1, <1>2, <1>3, <1>4, <2>1, PcChange
<1>7. /\ Task' = Task /\ (\A t : Blocks(t)' = Blocks(t))
  BY <1>3 DEF Task, Blocks
<1>8. Waiting' = Waiting /\ Blocking' = Blocking /\ BlockingPending' = BlockingPending
  BY <1>3, <1>5, <1>6, <1>7 DEF Waiting, Blocking, BlockingPending
<1>9. CountsMatch'
  BY <1>1, <1>3, <1>8 DEF CountsMatch, counts
<1>10. \A q \in Caller : poster'[q] \in {"idle", "signal"}
  BY <1>1, <1>2, <1>4 DEF TypeOK
<1>11. TypeOK'
  <2>1. poster' \in [Caller -> {"idle", "signal", "create"}]
    BY <1>1, <1>2 DEF TypeOK
  <2>2. QED
    BY <1>1, <1>3, <1>6, <1>7, <2>1 DEF TypeOK, counts
<1>12. OneThreadAtATime'
  BY <1>1, <1>3, <1>4, <1>5, <1>6, <1>10 DEF OneThreadAtATime, NextThread
<1>13. TasksPlaced'
  BY <1>1, <1>3, <1>5, <1>6, <1>7 DEF TasksPlaced
<1>14. StaysShutDown'
  BY <1>1, <1>3 DEF StaysShutDown, InShutdown, CanShutdown, counts
<1>15. QED
  BY <1>9, <1>11, <1>12, <1>13, <1>14 DEF PoolInv

\* The new thread puts itself on threads_, as the next one.
LEMMA EnterLoopInv ==
  ASSUME PoolInv, NEW w \in Worker, EnterLoop(w)
  PROVE  PoolInv'
<1>1. TypeOK /\ CountsMatch /\ OneThreadAtATime /\ TasksPlaced /\ StaysShutDown
  BY DEF PoolInv
<1>2. /\ worker[w].pc = "created" /\ lock' = w /\ thread_being_created' = FALSE
      /\ threads' = threads \cup {w}
      /\ worker' = [worker EXCEPT ![w].pc = "getwork"]
      /\ UNCHANGED <<pending_tasks, current_sequences, counts, shutdown_called,
                     poster, owner, log, begun, finished, dropped>>
  BY DEF EnterLoop, history
<1>3. w = NextThread /\ (\A p \in Caller : poster[p] # "create")
      /\ (\A v \in Worker : worker[v].pc = "created" => v = w)
  BY <1>1, <1>2 DEF OneThreadAtATime
<1>4. /\ worker' \in [Worker -> WorkerType']
      /\ worker'[w].pc = "getwork" /\ worker'[w].task = worker[w].task
      /\ \A v \in Worker : v # w => worker'[v] = worker[v]
  <2>1. "getwork" \in WorkerPc
    BY DEF WorkerPc
  <2>2. QED
    BY <1>1, <1>2, <2>1, PcChange
<1>5. /\ Task' = Task /\ (\A t : Blocks(t)' = Blocks(t))
  BY <1>2 DEF Task, Blocks
<1>6. Waiting' = Waiting /\ Blocking' = Blocking /\ BlockingPending' = BlockingPending
  BY <1>2, <1>4, <1>5 DEF Waiting, Blocking, BlockingPending
<1>7. CountsMatch'
  BY <1>1, <1>2, <1>6 DEF CountsMatch, counts
<1>8. TypeOK'
  BY <1>1, <1>2, <1>4, <1>5 DEF TypeOK, counts
<1>9. threads' = 1 .. Cardinality(threads')
  <2>1. IsFiniteSet(threads) /\ Cardinality(threads) \in Nat
    BY <1>1, WorkersFinite DEF TypeOK
  <2>2. w \notin threads
    BY <1>1, <1>2 DEF OneThreadAtATime
  <2>3. Cardinality(threads') = Cardinality(threads) + 1
    BY <1>2, <2>1, <2>2, CountAdd
  <2>4. threads = 1 .. Cardinality(threads) /\ w = Cardinality(threads) + 1
    BY <1>1, <1>3 DEF OneThreadAtATime, NextThread
  <2>5. threads' = (1 .. Cardinality(threads)) \cup {Cardinality(threads) + 1}
    BY <1>2, <2>4
  <2>6. QED
    BY <2>1, <2>3, <2>5
<1>10. OneThreadAtATime'
  <2>1. \A v \in Worker : v \in threads' <=> worker'[v].pc \notin {"none", "created"}
    BY <1>1, <1>2, <1>4 DEF OneThreadAtATime
  <2>2. \A v \in Worker : worker'[v].pc # "created"
    BY <1>3, <1>4
  <2>3. QED
    BY <1>2, <1>3, <1>9, <2>1, <2>2 DEF OneThreadAtATime
<1>11. TasksPlaced'
  BY <1>1, <1>2, <1>4, <1>5 DEF TasksPlaced
<1>12. StaysShutDown'
  BY <1>1, <1>2 DEF StaysShutDown, InShutdown, CanShutdown, counts
<1>13. QED
  BY <1>7, <1>8, <1>10, <1>11, <1>12 DEF PoolInv

\* What a leaving worker discards did not block shutdown.
LEMMA LeaveLoopInv ==
  ASSUME PoolInv, NEW w \in Worker, LeaveLoop(w)
  PROVE  PoolInv'
<1>1. TypeOK /\ CountsMatch /\ OneThreadAtATime /\ TasksPlaced /\ StaysShutDown
  BY DEF PoolInv
<1>2. /\ worker[w].pc = "getwork"
      /\ pending_tasks' = pending_tasks \ Discarded
      /\ dropped' = dropped \cup Discarded
      /\ worker' = [worker EXCEPT ![w] =
            [@ EXCEPT !.pc = "leaving", !.delete_these = Discarded]]
      /\ UNCHANGED <<lock, current_sequences, threads, thread_being_created,
                     counts, shutdown_called, poster, owner, log, begun, finished>>
  BY DEF LeaveLoop, InGetWork
<1>3. Discarded \subseteq Task /\ (\A t \in Discarded : ~Blocks(t))
  BY <1>1 DEF Discarded, IsDiscarded, TypeOK
<1> DEFINE state == [worker[w] EXCEPT !.pc = "leaving", !.delete_these = Discarded]
<1>4. state \in WorkerType /\ state.pc = "leaving" /\ state.task = worker[w].task
  <2>1. worker[w] \in WorkerType
    BY <1>1 DEF TypeOK
  <2>2. QED
    BY <1>3, <2>1 DEF WorkerType, WorkerPc
<1>5. worker' = [worker EXCEPT ![w] = state]
  BY <1>2
<1> HIDE DEF state
<1>6. /\ worker' \in [Worker -> WorkerType'] /\ worker'[w] = state
      /\ \A v \in Worker : v # w => worker'[v] = worker[v]
      /\ Task' = Task /\ (\A t : Blocks(t)' = Blocks(t))
  BY <1>1, <1>2, <1>4, <1>5, OneWorkerChanges
<1>7. Waiting' = Waiting /\ Blocking' = Blocking
  BY <1>2, <1>4, <1>6 DEF Waiting, Blocking
<1>8. BlockingPending' = BlockingPending
  BY <1>2, <1>3, <1>6 DEF BlockingPending
<1>9. CountsMatch'
  BY <1>1, <1>2, <1>7, <1>8 DEF CountsMatch, counts
<1>10. TypeOK'
  BY <1>1, <1>2, <1>3, <1>6 DEF TypeOK, counts
<1>11. OneThreadAtATime'
  BY <1>1, <1>2, <1>4, <1>6 DEF OneThreadAtATime, NextThread
<1>12. TasksPlaced'
  <2>1. \A v \in Worker : worker'[v].task = worker[v].task
    BY <1>4, <1>6
  <2>2. \A v \in Worker :
          worker'[v].task # 0 <=> worker'[v].pc \in {"claimed", "begin", "running"}
    BY <1>1, <1>2, <1>4, <1>6 DEF TasksPlaced
  <2>3. pending_tasks \subseteq pending_tasks' \cup dropped'
    BY <1>2
  <2>4. QED
    BY <1>1, <1>2, <1>3, <1>6, <2>1, <2>2, <2>3 DEF TasksPlaced
<1>13. StaysShutDown'
  BY <1>1, <1>2 DEF StaysShutDown, InShutdown, CanShutdown, counts
<1>14. QED
  BY <1>9, <1>10, <1>11, <1>12, <1>13 DEF PoolInv

\* The task of a worker that runs one was posted.
LEMMA WorkersTask ==
  ASSUME PoolInv, NEW w \in Worker, worker[w].pc \in {"claimed", "begin", "running"}
  PROVE  worker[w].task \in Task /\ worker[w].task # 0
<1>1. worker[w] \in WorkerType
  BY DEF PoolInv, TypeOK
<1>2. worker[w].task # 0
  BY DEF PoolInv, TasksPlaced
<1>3. QED
  BY <1>1, <1>2 DEF WorkerType

\* The task is finished as its worker stops being counted.
LEMMA DidRunWorkerTaskInv ==
  ASSUME PoolInv, NEW w \in Worker, DidRunWorkerTask(w)
  PROVE  PoolInv'
<1> DEFINE t == worker[w].task
           state == [worker[w] EXCEPT !.pc = "getwork", !.task = 0]
<1>1. TypeOK /\ CountsMatch /\ OneThreadAtATime /\ TasksPlaced /\ StaysShutDown
  BY DEF PoolInv
<1>2. /\ worker[w].pc = "running" /\ lock' = w
      /\ finished' = finished \cup {t}
      /\ blocking_shutdown_thread_count' =
           blocking_shutdown_thread_count - IF Blocks(t) THEN 1 ELSE 0
      /\ current_sequences' = current_sequences \ {Token(t)}
      /\ worker' = [worker EXCEPT ![w] = state]
      /\ UNCHANGED <<pending_tasks, threads, thread_being_created,
                     waiting_thread_count, blocking_shutdown_pending_task_count,
                     shutdown_called, poster, owner, log, begun, dropped>>
  BY DEF DidRunWorkerTask
<1>3. t \in Task /\ t # 0
  BY <1>2, WorkersTask
<1>4. state \in WorkerType /\ state.pc = "getwork" /\ state.task = 0
  <2>1. worker[w] \in WorkerType
    BY <1>1 DEF TypeOK
  <2>2. QED
    BY <2>1 DEF WorkerType, WorkerPc
<1> HIDE DEF state
<1>5. /\ worker' \in [Worker -> WorkerType'] /\ worker'[w] = state
      /\ \A v \in Worker : v # w => worker'[v] = worker[v]
      /\ Task' = Task /\ (\A u : Blocks(u)' = Blocks(u))
  BY <1>1, <1>2, <1>4, OneWorkerChanges
<1>6. Waiting' = Waiting /\ BlockingPending' = BlockingPending
  BY <1>2, <1>4, <1>5 DEF Waiting, BlockingPending
<1>7. /\ blocking_shutdown_thread_count' = Cardinality(Blocking')
      /\ Cardinality(Blocking') \in 0 .. MaxThreads
      /\ ~Blocks(t) => blocking_shutdown_thread_count' = blocking_shutdown_thread_count
  <2>1. IsFiniteSet(Blocking) /\ Cardinality(Blocking) \in 0 .. MaxThreads
    BY <1>1, CountTypes
  <2>2. Cardinality(Blocking') \in 0 .. MaxThreads
    BY WorkersFinite DEF Blocking
  <2>3. CASE Blocks(t)
    <3>1. Blocking' = Blocking \ {w} /\ w \in Blocking
      BY <1>3, <1>4, <1>5, <2>3 DEF Blocking
    <3>2. QED
      BY <1>1, <1>2, <2>1, <2>2, <2>3, <3>1, CountRemove DEF CountsMatch
  <2>4. CASE ~Blocks(t)
    <3>1. Blocking' = Blocking
      BY <1>3, <1>4, <1>5, <2>4 DEF Blocking
    <3>2. QED
      BY <1>1, <1>2, <2>1, <2>4, <3>1 DEF CountsMatch
  <2>5. QED
    BY <2>3, <2>4
<1>8. CountsMatch'
  BY <1>1, <1>2, <1>6, <1>7 DEF CountsMatch
<1>9. TypeOK'
  BY <1>1, <1>2, <1>3, <1>5, <1>7 DEF TypeOK
<1>10. OneThreadAtATime'
  BY <1>1, <1>2, <1>4, <1>5 DEF OneThreadAtATime, NextThread
<1>11. TasksPlaced'
  <2>1. \A v \in Worker :
          worker'[v].task # 0 <=> worker'[v].pc \in {"claimed", "begin", "running"}
    BY <1>1, <1>4, <1>5 DEF TasksPlaced
  <2>2. ASSUME NEW u \in Task
        PROVE  \/ u \in pending_tasks' \cup finished' \cup dropped'
               \/ \E v \in Worker : worker'[v].task = u
    <3>1. CASE u = t
      BY <1>2, <3>1
    <3>2. CASE u # t
      BY <1>1, <1>2, <1>5, <3>2 DEF TasksPlaced
    <3>3. QED
      BY <3>1, <3>2
  <2>3. QED
    BY <1>1, <1>2, <1>5, <2>1, <2>2 DEF TasksPlaced
<1>12. StaysShutDown'
  <2>1. CASE owner = "shutdownReturned"
    <3>1. blocking_shutdown_thread_count = 0
      BY <1>1, <2>1 DEF StaysShutDown, CanShutdown
    <3>2. ~Blocks(t)
      <4>1. SUFFICES ASSUME Blocks(t) PROVE FALSE
        OBVIOUS
      <4>2. w \in Blocking /\ IsFiniteSet(Blocking)
        BY <1>1, <1>3, <4>1, CountTypes DEF Blocking
      <4>3. Cardinality(Blocking) > 0
        BY <4>2, CountRemove
      <4>4. QED
        BY <1>1, <3>1, <4>3 DEF CountsMatch
    <3>3. blocking_shutdown_thread_count' = 0
      BY <1>7, <3>1, <3>2
    <3>4. QED
      BY <1>1, <1>2, <2>1, <3>3 DEF StaysShutDown, InShutdown, CanShutdown
  <2>2. CASE owner # "shutdownReturned"
    BY <1>1, <1>2, <2>2 DEF StaysShutDown, InShutdown
  <2>3. QED
    BY <2>1, <2>2
<1>13. QED
  BY <1>8, <1>9, <1>10, <1>11, <1>12 DEF PoolInv

\* A task that is taken is counted with its worker instead of with the list.
LEMMA TakeWorkInv ==
  ASSUME PoolInv, NEW w \in Worker, TakeWork(w)
  PROVE  PoolInv'
<1>1. TypeOK /\ CountsMatch /\ OneThreadAtATime /\ TasksPlaced /\ StaysShutDown
  BY DEF PoolInv
<1>2. PICK t \in Finds :
        LET discarded == {u \in Discarded : u < t} IN
          /\ pending_tasks' = pending_tasks \ (discarded \cup {t})
          /\ dropped' = dropped \cup discarded
          /\ blocking_shutdown_pending_task_count' =
               blocking_shutdown_pending_task_count - IF Blocks(t) THEN 1 ELSE 0
          /\ WillRunWorkerTask(w, t)
          /\ worker' = [worker EXCEPT ![w] =
               [pc |-> "claimed", task |-> t, delete_these |-> discarded]]
  BY DEF TakeWork
<1> DEFINE discarded == {u \in Discarded : u < t}
           state == [pc |-> "claimed", task |-> t, delete_these |-> discarded]
<1>3. /\ worker[w].pc = "getwork" /\ lock' = Nobody
      /\ pending_tasks' = pending_tasks \ (discarded \cup {t})
      /\ dropped' = dropped \cup discarded
      /\ blocking_shutdown_pending_task_count' =
           blocking_shutdown_pending_task_count - IF Blocks(t) THEN 1 ELSE 0
      /\ worker' = [worker EXCEPT ![w] = state]
      /\ UNCHANGED <<threads, waiting_thread_count, shutdown_called, owner, log,
                     begun, finished>>
  BY <1>2 DEF TakeWork, InGetWork
<1>4. /\ current_sequences' = current_sequences \cup ({Token(t)} \ {0})
      /\ blocking_shutdown_thread_count' =
           blocking_shutdown_thread_count + IF Blocks(t) THEN 1 ELSE 0
      /\ PrepareToStartAdditionalThreadIfHelpful(w, "idle")
  BY <1>2 DEF WillRunWorkerTask
<1>5. t \in pending_tasks /\ t \in Task /\ t # 0
  BY <1>1 DEF Finds, TypeOK, Task
<1>6. discarded \subseteq Task /\ (\A u \in discarded : ~Blocks(u))
  BY <1>1 DEF Discarded, IsDiscarded, TypeOK
<1>7. state \in WorkerType /\ state.pc = "claimed" /\ state.task = t
  BY <1>5, <1>6 DEF WorkerType, WorkerPc
<1> HIDE DEF state, discarded
<1>8. /\ worker' \in [Worker -> WorkerType'] /\ worker'[w] = state
      /\ \A v \in Worker : v # w => worker'[v] = worker[v]
      /\ Task' = Task /\ (\A u : Blocks(u)' = Blocks(u))
  BY <1>1, <1>3, <1>7, OneWorkerChanges
<1>9. w \in Caller /\ worker[w].task = 0
  BY <1>1, <1>3 DEF Caller, TasksPlaced
<1>10. /\ OneThreadAtATime'
       /\ poster' \in [Caller -> {"idle", "signal", "create"}]
       /\ thread_being_created' \in BOOLEAN
       /\ shutdown_called => thread_being_created' = thread_being_created
  <2>1. \A v \in Worker :
          /\ worker'[v].pc = "created" <=> worker[v].pc = "created"
          /\ worker'[v].pc = "none" <=> worker[v].pc = "none"
    BY <1>3, <1>7, <1>8
  <2>2. QED
    BY <1>3, <1>4, <1>9, <2>1, PrepareKeepsOneThread
<1>11. Waiting' = Waiting
  BY <1>3, <1>7, <1>8 DEF Waiting
<1>12. /\ blocking_shutdown_thread_count' = Cardinality(Blocking')
       /\ Cardinality(Blocking') \in 0 .. MaxThreads
       /\ ~Blocks(t) => blocking_shutdown_thread_count' = blocking_shutdown_thread_count
  <2>1. IsFiniteSet(Blocking) /\ w \notin Blocking
        /\ Cardinality(Blocking) \in 0 .. MaxThreads
    BY <1>1, <1>9, CountTypes DEF Blocking
  <2>2. Cardinality(Blocking') \in 0 .. MaxThreads
    BY WorkersFinite DEF Blocking
  <2>3. CASE Blocks(t)
    <3>1. Blocking' = Blocking \cup {w}
      BY <1>5, <1>7, <1>8, <2>3 DEF Blocking
    <3>2. QED
      BY <1>1, <1>4, <2>1, <2>2, <2>3, <3>1, CountAdd DEF CountsMatch
  <2>4. CASE ~Blocks(t)
    <3>1. Blocking' = Blocking
      BY <1>7, <1>8, <1>9, <2>4 DEF Blocking
    <3>2. QED
      BY <1>1, <1>4, <2>1, <2>4, <3>1 DEF CountsMatch
  <2>5. QED
    BY <2>3, <2>4
<1>13. /\ blocking_shutdown_pending_task_count' = Cardinality(BlockingPending')
       /\ Cardinality(BlockingPending') \in Nat
       /\ Blocks(t) => blocking_shutdown_pending_task_count # 0
       /\ ~Blocks(t) => blocking_shutdown_pending_task_count' =
                           blocking_shutdown_pending_task_count
  <2>1. IsFiniteSet(BlockingPending) /\ Cardinality(BlockingPending) \in Nat
    BY <1>1, PendingFinite
  <2>2. BlockingPending' = BlockingPending \ {t}
    BY <1>3, <1>6, <1>8 DEF BlockingPending
  <2>3. CASE Blocks(t)
    <3>1. t \in BlockingPending
      BY <1>5, <2>3 DEF BlockingPending
    <3>2. QED
      BY <1>1, <1>3, <2>1, <2>2, <2>3, <3>1, CountRemove DEF CountsMatch
  <2>4. CASE ~Blocks(t)
    <3>1. BlockingPending' = BlockingPending
      BY <2>2, <2>4 DEF BlockingPending
    <3>2. QED
      BY <1>1, <1>3, <2>1, <2>4, <3>1 DEF CountsMatch
  <2>5. QED
    BY <2>3, <2>4
<1>14. CountsMatch'
  BY <1>1, <1>3, <1>11, <1>12, <1>13 DEF CountsMatch
<1>15. TypeOK'
  <2>1. Token(t) \in Tokens
    <3>1. log[t] \in TaskType
      BY <1>1, <1>5 DEF TypeOK, Task
    <3>2. QED
      BY <3>1 DEF TaskType, Token
  <2>2. current_sequences' \subseteq Tokens \ {0}
    BY <1>1, <1>4, <2>1 DEF TypeOK
  <2>3. QED
    BY <1>1, <1>3, <1>6, <1>8, <1>10, <1>12, <1>13, <2>2 DEF TypeOK
<1>16. TasksPlaced'
  <2>1. \A v \in Worker :
          worker'[v].task # 0 <=> worker'[v].pc \in {"claimed", "begin", "running"}
    BY <1>1, <1>5, <1>7, <1>8 DEF TasksPlaced
  <2>2. ASSUME NEW u \in Task
        PROVE  \/ u \in pending_tasks' \cup finished' \cup dropped'
               \/ \E v \in Worker : worker'[v].task = u
    <3>1. CASE u = t
      BY <1>7, <1>8, <3>1
    <3>2. CASE \E v \in Worker : worker[v].task = u
      <4>1. PICK v \in Worker : worker[v].task = u
        BY <3>2
      <4>2. v # w
        BY <1>9, <4>1 DEF Task
      <4>3. QED
        BY <1>8, <4>1, <4>2
    <3>3. CASE u # t /\ u \in pending_tasks \cup finished \cup dropped
      BY <1>3, <3>3
    <3>4. QED
      BY <1>1, <3>1, <3>2, <3>3 DEF TasksPlaced
  <2>3. \A u \in dropped' : ~Blocks(u)'
    BY <1>1, <1>3, <1>6, <1>8 DEF TasksPlaced
  <2>4. QED
    BY <1>8, <2>1, <2>2, <2>3 DEF TasksPlaced
<1>17. StaysShutDown'
  <2>1. CASE owner = "shutdownReturned"
    <3>1. shutdown_called /\ CanShutdown
      BY <1>1, <2>1 DEF StaysShutDown, InShutdown
    <3>2. ~Blocks(t)
      BY <1>13, <3>1 DEF CanShutdown
    <3>3. /\ blocking_shutdown_pending_task_count' = 0
          /\ blocking_shutdown_thread_count' = 0
      BY <1>12, <1>13, <3>1, <3>2 DEF CanShutdown
    <3>4. QED
      BY <1>3, <1>10, <3>1, <3>3 DEF StaysShutDown, CanShutdown
  <2>2. CASE owner # "shutdownReturned"
    BY <1>1, <1>3, <2>2 DEF StaysShutDown, InShutdown
  <2>3. QED
    BY <2>1, <2>2
<1>18. QED
  BY <1>10, <1>14, <1>15, <1>16, <1>17 DEF PoolInv

\* A task that is posted is in the list, and counted if it blocks shutdown.
LEMMA PostTaskInv ==
  ASSUME PoolInv, NEW p \in Caller, NEW token \in Tokens, NEW behavior \in Behaviors,
         PostTask(p, token, behavior)
  PROVE  PoolInv'
<1> DEFINE task == [sequence_token_id |-> token, shutdown_behavior |-> behavior]
<1>1. TypeOK /\ CountsMatch /\ OneThreadAtATime /\ TasksPlaced /\ StaysShutDown
  BY DEF PoolInv
<1>0. PICK n \in Nat : n = Len(log)
  BY <1>1 DEF TypeOK
<1>2. /\ ~shutdown_called /\ log' = Append(log, task)
      /\ pending_tasks' = pending_tasks \cup {n + 1}
      /\ blocking_shutdown_pending_task_count' =
           blocking_shutdown_pending_task_count
           + IF behavior = "BLOCK_SHUTDOWN" THEN 1 ELSE 0
      /\ PrepareToStartAdditionalThreadIfHelpful(p, "signal")
      /\ UNCHANGED <<lock, current_sequences, threads, waiting_thread_count,
                     blocking_shutdown_thread_count, shutdown_called, worker,
                     owner, begun, finished, dropped>>
  BY <1>0 DEF PostTask
<1>3. /\ log' \in Seq(TaskType) /\ Len(log') = n + 1
      /\ log'[n + 1] = task /\ (\A t \in Task : log'[t] = log[t])
  <2>1. task \in TaskType
    BY DEF TaskType
  <2>2. log \in Seq(TaskType)
    BY <1>1 DEF TypeOK
  <2> HIDE DEF task
  <2>3. QED
    BY <1>0, <1>2, <2>1, <2>2 DEF Task
<1>4. /\ Task' = Task \cup {n + 1} /\ n + 1 \notin Task
      /\ \A t \in Task : Blocks(t)' = Blocks(t)
      /\ Blocks(n + 1)' <=> behavior = "BLOCK_SHUTDOWN"
  <2>1. Task' = Task \cup {n + 1} /\ n + 1 \notin Task
    BY <1>0, <1>3 DEF Task
  <2>2. task.shutdown_behavior = behavior
    OBVIOUS
  <2>3. QED
    BY <1>3, <2>1, <2>2 DEF Blocks
<1> HIDE DEF task
<1>5. /\ OneThreadAtATime'
      /\ poster' \in [Caller -> {"idle", "signal", "create"}]
      /\ thread_being_created' \in BOOLEAN
  BY <1>1, <1>2, PrepareKeepsOneThread
<1>6. worker' \in [Worker -> WorkerType']
  <2>1. WorkerType \subseteq WorkerType'
    BY <1>4 DEF WorkerType
  <2>2. QED
    BY <1>1, <1>2, <2>1 DEF TypeOK
<1>7. \A w \in Worker : worker[w].task \in {0} \cup Task
  BY <1>1 DEF TypeOK, WorkerType
<1>8. Waiting' = Waiting /\ Blocking' = Blocking
  BY <1>2, <1>4, <1>7 DEF Waiting, Blocking
<1>9. /\ blocking_shutdown_pending_task_count' = Cardinality(BlockingPending')
      /\ Cardinality(BlockingPending') \in Nat
  <2>1. IsFiniteSet(BlockingPending) /\ Cardinality(BlockingPending) \in Nat
    BY <1>1, PendingFinite
  <2>2. pending_tasks \subseteq Task
    BY <1>1 DEF TypeOK
  <2>3. CASE behavior = "BLOCK_SHUTDOWN"
    <3>1. /\ BlockingPending' = BlockingPending \cup {n + 1}
          /\ n + 1 \notin BlockingPending
      BY <1>2, <1>4, <2>2, <2>3 DEF BlockingPending
    <3>2. QED
      BY <1>1, <1>2, <2>1, <2>3, <3>1, CountAdd DEF CountsMatch
  <2>4. CASE behavior # "BLOCK_SHUTDOWN"
    <3>1. BlockingPending' = BlockingPending
      BY <1>2, <1>4, <2>2, <2>4 DEF BlockingPending
    <3>2. QED
      BY <1>1, <1>2, <2>1, <2>4, <3>1 DEF CountsMatch
  <2>5. QED
    BY <2>3, <2>4
<1>10. CountsMatch'
  BY <1>1, <1>2, <1>8, <1>9 DEF CountsMatch
<1>11. TypeOK'
  BY <1>1, <1>2, <1>3, <1>4, <1>5, <1>6, <1>9 DEF TypeOK
<1>12. TasksPlaced'
  <2>1. dropped \subseteq Task
    BY <1>1 DEF TypeOK
  <2>2. QED
    BY <1>1, <1>2, <1>4, <2>1 DEF TasksPlaced
<1>13. StaysShutDown'
  BY <1>1, <1>2 DEF StaysShutDown, InShutdown
<1>14. QED
  BY <1>5, <1>10, <1>11, <1>12, <1>13 DEF PoolInv

-----------------------------------------------------------------------------
(* Every step, and the theorems.                                           *)

LEMMA NextPoolInv == PoolInv /\ [Next]_vars => PoolInv'
<1> SUFFICES ASSUME PoolInv, [Next]_vars PROVE PoolInv'
  OBVIOUS
<1>1. ASSUME NEW p \in Caller, Post(p)
      PROVE  PoolInv'
  BY <1>1, PostTaskInv, PostSignalsInv, FinishStartingInv DEF Post
<1>2. ASSUME NEW w \in Worker, ThreadLoop(w)
      PROVE  PoolInv'
  BY <1>2, EnterLoopInv, TakeWorkInv, WaitForWorkInv, LeaveLoopInv,
     WorkerSignalsInv, RunTaskInv, DidRunWorkerTaskInv, WaitReturnsInv,
     LeaveScopesInv, SignalCanShutdownInv DEF ThreadLoop
<1>3. CASE FlushForTesting \/ OwnerGoesOn
  BY <1>3, OwnerInv DEF OwnerGoesOn
<1>4. CASE Shutdown
  BY <1>4, ShutdownInv
<1>5. CASE SignalHasWorkForTesting
  BY <1>5, SignalHasWorkForTestingInv
<1>6. CASE UNCHANGED vars
  <2>1. UNCHANGED <<lock, pending_tasks, current_sequences, threads,
                    thread_being_created, counts, shutdown_called, worker,
                    poster, owner, log, begun, finished, dropped>>
    BY <1>6 DEF vars, underLock, history
  <2>2. TypeOK /\ StaysShutDown
    BY DEF PoolInv
  <2>3. /\ worker' \in [Worker -> WorkerType']
        /\ \A v \in Worker : /\ worker'[v].task = worker[v].task
                             /\ SameStage(worker[v].pc, worker'[v].pc)
    BY <2>1, <2>2 DEF TypeOK, WorkerType, Task, SameStage
  <2>4. QED
    BY <2>1, <2>2, <2>3, QuietStep DEF TypeOK, StaysShutDown, OwnerStates
<1>7. QED
  BY <1>1, <1>2, <1>3, <1>4, <1>5, <1>6 DEF Next

\* The counters, the threads and the tasks agree in every reachable state.
THEOREM PoolInvariant == Spec => []PoolInv
<1>1. Init => PoolInv
  BY InitPoolInv
<1>2. PoolInv /\ [Next]_vars => PoolInv'
  BY NextPoolInv
<1>3. QED
  BY <1>1, <1>2, PTL DEF Spec

\* Type correctness, the bounds of the counters that Shutdown decides on included.
THEOREM PoolTypeCorrect == Spec => []TypeOK
<1>1. PoolInv => TypeOK
  BY DEF PoolInv
<1>2. QED
  BY <1>1, PoolInvariant, PTL

\* Shutdown waits for every task that blocks it: when it has returned each of them
\* has run to completion, however many threads, posters and tasks there are.
THEOREM ShutdownWaitsForBlockersHolds == Spec => []ShutdownWaitsForBlockers
<1>1. ASSUME PoolInv PROVE ShutdownWaitsForBlockers
  <2> SUFFICES ASSUME owner = "shutdownReturned", NEW t \in Task, Blocks(t)
               PROVE  t \in finished
    BY DEF ShutdownWaitsForBlockers
  <2>1. TypeOK /\ CountsMatch /\ CanShutdown
    BY <1>1 DEF PoolInv, StaysShutDown
  <2>2. IsFiniteSet(Blocking) /\ IsFiniteSet(BlockingPending)
    BY <2>1, CountTypes, PendingFinite
  <2>3. Cardinality(Blocking) = 0 /\ Cardinality(BlockingPending) = 0
    BY <2>1 DEF CountsMatch, CanShutdown
  <2>4. Blocking = {} /\ BlockingPending = {}
    BY <2>2, <2>3, FS_EmptySet
  <2>5. t # 0 /\ (\A w \in Worker : worker[w].task # t)
    BY <2>4 DEF Blocking, Task
  <2>6. t \notin pending_tasks
    BY <2>4 DEF BlockingPending
  <2>7. QED
    BY <1>1, <2>5, <2>6 DEF PoolInv, TasksPlaced
<1>2. QED
  BY <1>1, PoolInvariant, PTL

\* No thread is leaked: when Shutdown has returned every thread that was created is
\* on threads_, where ~Inner joins it, and none is about to be created.
THEOREM NoThreadLeakedHolds == Spec => []NoThreadLeaked
<1>1. ASSUME PoolInv PROVE NoThreadLeaked
  <2> SUFFICES ASSUME owner = "shutdownReturned"
               PROVE  /\ \A w \in Worker : worker[w].pc # "none" => w \in threads
                      /\ \A p \in Caller : poster[p] # "create"
    BY DEF NoThreadLeaked
  <2>1. ~thread_being_created /\ OneThreadAtATime
    BY <1>1 DEF PoolInv, StaysShutDown, CanShutdown
  <2>2. QED
    BY <2>1 DEF OneThreadAtATime
<1>2. QED
  BY <1>1, PoolInvariant, PTL

=============================================================================
