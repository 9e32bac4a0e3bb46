---------------------------- MODULE MCWinXPCondVar ----------------------------
(***************************************************************************)
(* WinXPCondVar for model checking, and the mapping under which it is a    *)
(* ConditionVariable.  A thread is chosen when its event leaves            *)
(* waiting_list_, and has committed to wait when the event entered it,     *)
(* although it still holds the user's lock then (FAQ 6).  A thread whose   *)
(* time limit has passed but whose event is still listed is one that waits *)
(* and can use up a Signal (FAQ 3).                                        *)
(***************************************************************************)
EXTENDS WinXPCondVar

Abstract == INSTANCE ConditionVariable WITH
  holder <- IF user_lock_ # NoThread /\ At(user_lock_, "releasing")
            THEN NoThread ELSE user_lock_,
  blocked <- {t \in Thread : Holding(t) /\ thread[t].event \in Listed},
  revived <- {t \in Thread : Holding(t) /\ thread[t].event \notin Listed},
  returning <- {t \in Thread : At(t, "relocking")},
  closing <- run_state_ = "SHUTDOWN"

\* TimedWait, Signal and Broadcast behave as condition_variable.h says: Wait is
\* atomic, Signal revives one waiter if there is one, Broadcast every thread that
\* waited before it, and a revived thread returns.
ImplementsConditionVariable == Abstract!Spec
=============================================================================
