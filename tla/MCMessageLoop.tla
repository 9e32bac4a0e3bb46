---------------------------- MODULE MCMessageLoop ----------------------------
(***************************************************************************)
(* MessageLoop for model checking, and the refinement mapping under which  *)
(* it implements SequencedTaskRunner.                                      *)
(***************************************************************************)
EXTENDS MessageLoop

\* The order of two sequence numbers is told by the sign of their difference, as an
\* int: no more tasks than an int has positive values.
ASSUME RollOverAssumption == MaxTasks <= (SequenceModulus - 1) \div 2

\* What the abstract runner knows of a posted task.
PostedTasks ==
  [t \in Task |-> [delay |-> log[t].delay, nestable |-> log[t].nestable,
                  seen |-> log[t].seen]]

\* The tasks on the stack: one for each frame, but for a top frame between tasks.
RunningDepth == IF depth = 0 \/ InTask THEN depth ELSE depth - 1
RunningTasks == [d \in 1 .. RunningDepth |-> frame[d].task]

Runner == INSTANCE SequencedTaskRunner WITH
  NonNestableInOrder <- FALSE,
  posted <- PostedTasks,
  running <- RunningTasks,
  begun <- StartedTasks,
  dropped <- deleted

\* Every step of the loop, of its nested loops and of its destruction is a step
\* of SequencedTaskRunner or changes nothing it knows of: no task runs twice,
\* none overtakes a nestable task posted before it with no higher delay,
\* whichever of the four queues they pass through, no non-nestable task runs
\* inside another, and none is both run and deleted.
ImplementsSequencedTaskRunner == Runner!Spec
=============================================================================
