------------------------ MODULE MCSequencedWorkerPool ------------------------
(***************************************************************************)
(* SequencedWorkerPool for model checking, and the refinement mapping      *)
(* under which the tasks of one sequence token have a SequencedTaskRunner  *)
(* of their own.                                                           *)
(***************************************************************************)
EXTENDS SequencedWorkerPool

Sequence(s) == {t \in Task : Token(t) = s}

\* What the runner of a sequence knows of the tasks: its own, in the order they
\* were posted; those of others are to it like tasks that are never due.
PostedTasks(s) ==
  [t \in Task |-> [delay |-> IF t \in Sequence(s) THEN 0 ELSE 1,
                  nestable |-> FALSE, seen |-> t - 1]]

Running(s) == InProgress \cap Sequence(s)
RunningTasks(s) ==
  IF Running(s) = {} THEN <<>> ELSE <<CHOOSE t \in Running(s) : TRUE>>

\* SequencedWorkerPoolSequencedTaskRunner: it takes no delay, and no thread of
\* the pool nests loops in which another task of the pool could run.
Runner(s) == INSTANCE SequencedTaskRunner WITH
  Delays <- {0, 1},
  NonNestableInOrder <- TRUE,
  posted <- PostedTasks(s),
  running <- RunningTasks(s),
  begun <- begun \cap Sequence(s),
  dropped <- dropped \cap Sequence(s)

\* The tasks of one sequence run one at a time, in the order they were posted,
\* each at most once, and shutdown drops them only between two of them, although
\* any worker takes any of them from a list shared with all other sequences.
\* (Runner(s)!Spec for every token s, written as one formula.)
ImplementsSequencedTaskRunner ==
  /\ \A s \in Tokens \ {0} : Runner(s)!Init
  /\ [][\A s \in Tokens \ {0} :
          Runner(s)!Next \/ UNCHANGED Runner(s)!vars]_vars
=============================================================================
