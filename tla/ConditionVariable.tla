-------------------------- MODULE ConditionVariable --------------------------
(***************************************************************************)
(* What base::ConditionVariable promises (condition_variable.h): Wait()    *)
(* gives up the user's lock and starts to sleep in one step, Signal()      *)
(* revives one waiting thread and Broadcast() all, and a revived thread    *)
(* comes back with the lock.  A wait may also end for no reason.           *)
(***************************************************************************)
EXTENDS Naturals

CONSTANTS Thread, NoThread

VARIABLES
  holder,     \* who has the user's lock
  blocked,    \* the threads that wait
  revived,    \* those chosen by Signal() or Broadcast()
  returning,  \* those that only need the lock to return from Wait()
  closing     \* the destructor has begun: nobody waits any more

vars == <<holder, blocked, revived, returning, closing>>

Inside == blocked \cup revived \cup returning

Init ==
  /\ holder = NoThread
  /\ blocked = {} /\ revived = {} /\ returning = {}
  /\ closing = FALSE

Acquire(t) ==
  /\ holder = NoThread /\ t \notin Inside
  /\ holder' = t
  /\ UNCHANGED <<blocked, revived, returning, closing>>

Release(t) ==
  /\ holder = t
  /\ holder' = NoThread
  /\ UNCHANGED <<blocked, revived, returning, closing>>

Wait(t) ==
  /\ holder = t /\ ~closing
  /\ holder' = NoThread
  /\ blocked' = blocked \cup {t}
  /\ UNCHANGED <<revived, returning, closing>>

Signal ==
  /\ \E t \in blocked : blocked' = blocked \ {t} /\ revived' = revived \cup {t}
  /\ UNCHANGED <<holder, returning, closing>>

Broadcast ==
  /\ blocked # {}
  /\ blocked' = {} /\ revived' = revived \cup blocked
  /\ UNCHANGED <<holder, returning, closing>>

\* A time-out, or a spurious wake-up.
GiveUp(t) ==
  /\ t \in blocked
  /\ blocked' = blocked \ {t} /\ returning' = returning \cup {t}
  /\ UNCHANGED <<holder, revived, closing>>

Resume(t) ==
  /\ t \in revived
  /\ revived' = revived \ {t} /\ returning' = returning \cup {t}
  /\ UNCHANGED <<holder, blocked, closing>>

Reacquire(t) ==
  /\ t \in returning /\ holder = NoThread
  /\ holder' = t
  /\ returning' = returning \ {t}
  /\ UNCHANGED <<blocked, revived, closing>>

Close == ~closing /\ closing' = TRUE /\ UNCHANGED <<holder, blocked, revived, returning>>

Next ==
  \/ Signal \/ Broadcast \/ Close
  \/ \E t \in Thread : \/ Acquire(t) \/ Release(t) \/ Wait(t)
                       \/ GiveUp(t) \/ Resume(t) \/ Reacquire(t)

Fairness ==
  /\ WF_vars(closing /\ Broadcast)
  /\ \A t \in Thread : WF_vars(Resume(t)) /\ SF_vars(Reacquire(t))

Spec == Init /\ [][Next]_vars /\ Fairness
=============================================================================
