------------------------- MODULE SequencedTaskRunner -------------------------
(***************************************************************************)
(* What base::SequencedTaskRunner promises, whatever queues a task goes    *)
(* through, on whichever thread: a task starts at most once, after the     *)
(* tasks that were posted before it with no higher delay, and inside       *)
(* another task only if it is nestable.  Time and threads are left out.    *)
(* A runner with nested loops keeps the order for nestable tasks only; the *)
(* constant says which kind a runner is.                                   *)
(***************************************************************************)
EXTENDS Naturals, Sequences

CONSTANTS
  Delays,
  NonNestableInOrder  \* nobody overtakes a non-nestable task either

VARIABLES
  posted,   \* the tasks in posting order: [delay, nestable, seen]
  running,  \* the stack of tasks that have begun and not finished
  begun,    \* the tasks that have begun
  dropped   \* the tasks deleted without having been run

vars == <<posted, running, begun, dropped>>

PostedTask == 1 .. Len(posted)

Init == posted = <<>> /\ running = <<>> /\ begun = {} /\ dropped = {}

\* seen: how many tasks had been posted when this post began; two posts that
\* overlap are not ordered by it.
Post ==
  /\ \E delay \in Delays, nestable \in BOOLEAN, seen \in 0 .. Len(posted) :
       posted' = Append(posted, [delay |-> delay, nestable |-> nestable,
                                 seen |-> seen])
  /\ UNCHANGED <<running, begun, dropped>>

\* The tasks t must not overtake.
StartsBefore(t) ==
  {u \in 1 .. posted[t].seen :
     /\ NonNestableInOrder \/ posted[u].nestable
     /\ posted[u].delay <= posted[t].delay}

Begin(t) ==
  /\ t \notin begun \cup dropped
  /\ StartsBefore(t) \subseteq begun \cup dropped
  /\ running # <<>> => posted[t].nestable
  /\ running' = Append(running, t)
  /\ begun' = begun \cup {t}
  /\ UNCHANGED <<posted, dropped>>

Finish ==
  /\ running # <<>>
  /\ running' = SubSeq(running, 1, Len(running) - 1)
  /\ UNCHANGED <<posted, begun, dropped>>

\* The runner goes away between tasks; a task that is deleted may post another.
Drop ==
  /\ running = <<>>
  /\ \E tasks \in SUBSET (PostedTask \ begun) : dropped' = dropped \cup tasks
  /\ \/ UNCHANGED posted
     \/ \E delay \in Delays, nestable \in BOOLEAN, seen \in 0 .. Len(posted) :
          posted' = Append(posted, [delay |-> delay, nestable |-> nestable,
                                    seen |-> seen])
  /\ UNCHANGED <<running, begun>>

Next == Post \/ (\E t \in PostedTask : Begin(t)) \/ Finish \/ Drop

Spec == Init /\ [][Next]_vars
=============================================================================
