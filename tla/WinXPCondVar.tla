----------------------------- MODULE WinXPCondVar -----------------------------
(***************************************************************************)
(* base::ConditionVariable on Windows XP: every thread that waits has an   *)
(* auto-reset event to itself, taken from recycling_list_ or made anew and *)
(* put on waiting_list_.  Signal and Broadcast take events off the list    *)
(* under internal_lock_ and set them after they have let go of it, when    *)
(* the event may already serve another wait.                               *)
(*                                                                         *)
(* A step is what one thread does under internal_lock_, or one call of the *)
(* operating system.  Events are numbered as they are allocated.           *)
(***************************************************************************)
EXTENDS Integers, Sequences, FiniteSets, SequencesExt

CONSTANTS
  Waiters,   \* the threads that wait
  Callers,   \* those that call Signal, Broadcast and the destructor
  NoThread

Thread == Waiters \cup Callers

ASSUME ThreadAssumption == IsFiniteSet(Thread) /\ NoThread \notin Thread

VARIABLES
  run_state_,            \* "RUNNING" or "SHUTDOWN"
  user_lock_,            \* the thread that holds it
  waiting_list_,
  recycling_list_,
  recycling_list_size_,
  allocation_counter_,
  signaled,              \* the events that are set
  thread,                \* what each thread is doing
  timed_out,             \* has any wait ended by its time limit?
  destroyed

vars == <<run_state_, user_lock_, waiting_list_, recycling_list_,
          recycling_list_size_, allocation_counter_, signaled, thread,
          timed_out, destroyed>>

lists == <<waiting_list_, recycling_list_, recycling_list_size_,
           allocation_counter_>>

\* pc: the place in TimedWait, Signal, Broadcast or the destructor; event:
\* TimedWait's waiting_event (0 outside); timed: its max_time is not INFINITE;
\* handles: those which Signal or Broadcast has still to set.
PC == {"out", "releasing", "waiting", "woken", "relocking", "setting",
       "destroying", "sleeping"}

Outside == [pc |-> "out", event |-> 0, timed |-> FALSE, handles |-> <<>>]

Init ==
  /\ run_state_ = "RUNNING" /\ user_lock_ = NoThread
  /\ waiting_list_ = <<>> /\ recycling_list_ = <<>>
  /\ recycling_list_size_ = 0 /\ allocation_counter_ = 0
  /\ signaled = {}
  /\ thread = [t \in Thread |-> Outside]
  /\ timed_out = FALSE /\ destroyed = FALSE

At(t, pc) == thread[t].pc = pc

Goes(t, pc) == thread' = [thread EXCEPT ![t].pc = pc]

\* Event::Extract: does nothing to an element that is in no list.
Extract(list, e) ==
  IF \E i \in DOMAIN list : list[i] = e
  THEN RemoveAt(list, CHOOSE i \in DOMAIN list : list[i] = e)
  ELSE list

----------------------------------------------------------------------------
(* The user's lock.                                                        *)

Acquire(t) ==
  /\ t \in Waiters /\ At(t, "out") /\ user_lock_ = NoThread
  /\ user_lock_' = t
  /\ UNCHANGED <<run_state_, lists, signaled, thread, timed_out, destroyed>>

Release(t) ==
  /\ At(t, "out") /\ user_lock_ = t
  /\ user_lock_' = NoThread
  /\ UNCHANGED <<run_state_, lists, signaled, thread, timed_out, destroyed>>

----------------------------------------------------------------------------
(* Wait and TimedWait.                                                     *)

\* Mutant: forgets to count the event.
NewEventUncounted ==
  /\ recycling_list_size_ = 0
  /\ waiting_list_' = Append(waiting_list_, allocation_counter_ + 1)
  /\ UNCHANGED <<recycling_list_, recycling_list_size_, allocation_counter_>>

NewEvent ==
  /\ recycling_list_size_ = 0
  /\ allocation_counter_' = allocation_counter_ + 1
  /\ waiting_list_' = Append(waiting_list_, allocation_counter_')
  /\ UNCHANGED <<recycling_list_, recycling_list_size_>>

RecycledEvent ==
  /\ recycling_list_size_ # 0
  /\ recycling_list_' = Tail(recycling_list_)
  /\ recycling_list_size_' = recycling_list_size_ - 1
  /\ waiting_list_' = Append(waiting_list_, Head(recycling_list_))
  /\ UNCHANGED allocation_counter_

GetEventForWaiting == NewEvent \/ RecycledEvent

\* The wait begins; as a mutant of EnterWait, without the test for SHUTDOWN.
EnterWaitAnyway(t) ==
  /\ At(t, "out") /\ user_lock_ = t /\ ~destroyed
  /\ GetEventForWaiting
  /\ \E timed \in BOOLEAN :
       thread' = [thread EXCEPT ![t] =
         [Outside EXCEPT !.pc = "releasing", !.timed = timed,
                         !.event = Last(waiting_list_')]]
  /\ UNCHANGED <<run_state_, user_lock_, signaled, timed_out, destroyed>>

\* A wait that is too late for a condition variable in destruction returns.
EnterWait(t) == run_state_ = "RUNNING" /\ EnterWaitAnyway(t)

\* Mutant: the event is reset before the wait, with the signal it may have got.
ReleaseUserLockResets(t) ==
  /\ At(t, "releasing")
  /\ user_lock_' = NoThread
  /\ signaled' = signaled \ {thread[t].event}
  /\ Goes(t, "waiting")
  /\ UNCHANGED <<run_state_, lists, timed_out, destroyed>>

ReleaseUserLock(t) ==
  /\ At(t, "releasing")
  /\ user_lock_' = NoThread
  /\ Goes(t, "waiting")
  /\ UNCHANGED <<run_state_, lists, signaled, timed_out, destroyed>>

\* WaitForSingleObject takes the signal as it returns.
WaitReturns(t) ==
  /\ At(t, "waiting") /\ thread[t].event \in signaled
  /\ signaled' = signaled \ {thread[t].event}
  /\ Goes(t, "woken")
  /\ UNCHANGED <<run_state_, user_lock_, lists, timed_out, destroyed>>

WaitTimesOut(t) ==
  /\ At(t, "waiting") /\ thread[t].timed /\ thread[t].event \notin signaled
  /\ timed_out' = TRUE
  /\ Goes(t, "woken")
  /\ UNCHANGED <<run_state_, user_lock_, lists, signaled, destroyed>>

\* Mutant: leaves the event on waiting_list_, for a wait that timed out.
RecycleEventInPlace(t) ==
  /\ At(t, "woken")
  /\ recycling_list_' = Append(recycling_list_, thread[t].event)
  /\ recycling_list_size_' = recycling_list_size_ + 1
  /\ thread' = [thread EXCEPT ![t] = [Outside EXCEPT !.pc = "relocking"]]
  /\ UNCHANGED <<run_state_, user_lock_, waiting_list_, allocation_counter_,
                 signaled, timed_out, destroyed>>

RecycleEvent(t) ==
  /\ At(t, "woken")
  /\ waiting_list_' = Extract(waiting_list_, thread[t].event)
  /\ recycling_list_' = Append(recycling_list_, thread[t].event)
  /\ recycling_list_size_' = recycling_list_size_ + 1
  /\ thread' = [thread EXCEPT ![t] = [Outside EXCEPT !.pc = "relocking"]]
  /\ UNCHANGED <<run_state_, user_lock_, allocation_counter_, signaled,
                 timed_out, destroyed>>

ReacquireUserLock(t) ==
  /\ At(t, "relocking") /\ user_lock_ = NoThread
  /\ user_lock_' = t
  /\ Goes(t, "out")
  /\ UNCHANGED <<run_state_, lists, signaled, timed_out, destroyed>>

----------------------------------------------------------------------------
(* Signal and Broadcast.  Their callers keep the object alive meanwhile.   *)

MayCall(t) == t \in Callers /\ At(t, "out") /\ run_state_ = "RUNNING"

\* Mutant: takes the event without removing it.
SignalKeepsListed(t) ==
  /\ MayCall(t) /\ waiting_list_ # <<>>
  /\ thread' = [thread EXCEPT ![t].pc = "setting",
                              ![t].handles = <<Last(waiting_list_)>>]
  /\ UNCHANGED <<run_state_, user_lock_, lists, signaled, timed_out, destroyed>>

\* The thread that went to sleep most recently is chosen.
Signal(t) ==
  /\ MayCall(t) /\ waiting_list_ # <<>>
  /\ waiting_list_' = Front(waiting_list_)
  /\ thread' = [thread EXCEPT ![t].pc = "setting",
                              ![t].handles = <<Last(waiting_list_)>>]
  /\ UNCHANGED <<run_state_, user_lock_, recycling_list_, recycling_list_size_,
                 allocation_counter_, signaled, timed_out, destroyed>>

\* The handles are stacked from the back of the list: its front is set first.
TakeAll(t) ==
  /\ waiting_list_ # <<>>
  /\ waiting_list_' = <<>>
  /\ thread' = [thread EXCEPT ![t].pc = "setting", ![t].handles = waiting_list_]
  /\ UNCHANGED <<run_state_, user_lock_, recycling_list_, recycling_list_size_,
                 allocation_counter_, signaled, timed_out, destroyed>>

Broadcast(t) == MayCall(t) /\ TakeAll(t)

AfterSetting == IF run_state_ = "SHUTDOWN" THEN "sleeping" ELSE "out"

SetEvent(t) ==
  /\ At(t, "setting")
  /\ signaled' = signaled \cup {Head(thread[t].handles)}
  /\ thread' = [thread EXCEPT
       ![t].handles = Tail(@),
       ![t].pc = IF Len(thread[t].handles) = 1 THEN AfterSetting ELSE @]
  /\ UNCHANGED <<run_state_, user_lock_, lists, timed_out, destroyed>>

----------------------------------------------------------------------------
(* The destructor.  The contract is that nobody is inside any call; being   *)
(* in TimedWait is forgiven.  Sleep(10) is taken as long enough for every   *)
(* thread that can move to get out, and for nothing else.                  *)

Destroy(t) ==
  /\ MayCall(t) /\ \A u \in Thread : ~At(u, "setting")
  /\ run_state_' = "SHUTDOWN"
  /\ IF recycling_list_size_ = allocation_counter_
     THEN destroyed' = TRUE /\ UNCHANGED thread
     ELSE UNCHANGED destroyed /\ Goes(t, "destroying")
  /\ UNCHANGED <<user_lock_, lists, signaled, timed_out>>

\* Nobody is listed; as a mutant of DestroyBroadcasts, nobody is ever woken.
DestroyJustSleeps(t) ==
  /\ At(t, "destroying")
  /\ Goes(t, "sleeping")
  /\ UNCHANGED <<run_state_, user_lock_, lists, signaled, timed_out, destroyed>>

DestroyBroadcasts(t) ==
  /\ At(t, "destroying")
  /\ TakeAll(t) \/ (waiting_list_ = <<>> /\ DestroyJustSleeps(t))

CanLeave(t) == \/ thread[t].pc \in {"releasing", "woken"}
               \/ At(t, "waiting") /\ thread[t].event \in signaled

DestroyEnds(t) ==
  /\ At(t, "sleeping") /\ \A u \in Thread : ~CanLeave(u)
  /\ destroyed' = TRUE
  /\ Goes(t, "out")
  /\ UNCHANGED <<run_state_, user_lock_, lists, signaled, timed_out>>

----------------------------------------------------------------------------

TimedWait(t) == \/ EnterWait(t) \/ ReleaseUserLock(t) \/ WaitReturns(t)
                \/ WaitTimesOut(t) \/ RecycleEvent(t) \/ ReacquireUserLock(t)

Wakes(t) == Signal(t) \/ Broadcast(t) \/ SetEvent(t)

Destructor(t) == Destroy(t) \/ DestroyBroadcasts(t) \/ DestroyEnds(t)

Next == \E t \in Thread : \/ Acquire(t) \/ Release(t)
                           \/ TimedWait(t) \/ Wakes(t) \/ Destructor(t)

\* A thread inside a call goes on, unless it is blocked; the user's lock
\* starves nobody.  Nobody need release it, call anything or destroy anything,
\* and no time limit need ever end a wait.
Fairness == \A t \in Thread :
  /\ WF_vars(ReleaseUserLock(t)) /\ WF_vars(WaitReturns(t))
  /\ WF_vars(RecycleEvent(t)) /\ SF_vars(ReacquireUserLock(t))
  /\ WF_vars(SetEvent(t)) /\ WF_vars(DestroyBroadcasts(t) \/ DestroyEnds(t))

Spec == Init /\ [][Next]_vars /\ Fairness

----------------------------------------------------------------------------
(* Properties.                                                             *)

Event == 1 .. allocation_counter_
Listed == ToSet(waiting_list_)
Holding(t) == thread[t].pc \in {"releasing", "waiting", "woken"}

TypeOK ==
  /\ run_state_ \in {"RUNNING", "SHUTDOWN"}
  /\ user_lock_ \in Thread \cup {NoThread}
  /\ allocation_counter_ \in Nat /\ recycling_list_size_ \in Nat
  /\ waiting_list_ \in Seq(Event) /\ recycling_list_ \in Seq(Event)
  /\ signaled \subseteq Event
  /\ thread \in [Thread -> [pc : PC, event : Event \cup {0}, timed : BOOLEAN,
                            handles : Seq(Event)]]
  /\ timed_out \in BOOLEAN /\ destroyed \in BOOLEAN

\* Every event ever allocated is in the free list or with exactly one thread
\* (FAQ 12: none of those taken off waiting_list_ leaks), waiting_list_ holds
\* only events of threads that wait, the free list is as long as its size says,
\* and there are never more events than threads (GetEventForWaiting's comment).
EventsAccounted ==
  /\ recycling_list_size_ = Len(recycling_list_)
  /\ \A e \in Event :
       Cardinality({i \in DOMAIN recycling_list_ : recycling_list_[i] = e})
         + Cardinality({t \in Thread : Holding(t) /\ thread[t].event = e}) = 1
  /\ \A i, j \in DOMAIN waiting_list_ :
       waiting_list_[i] = waiting_list_[j] => i = j
  /\ Listed \subseteq {thread[t].event : t \in {u \in Thread : Holding(u)}}
  /\ allocation_counter_ <= Cardinality(Thread)

\* A thread whose event was taken off waiting_list_ is about to be woken: its
\* event is set or another thread is on its way to set it, however often events
\* change hands between the taking and the setting.
NoLostSignal ==
  \A t \in Thread : thread[t].pc \in {"releasing", "waiting"} =>
    \/ thread[t].event \in Listed
    \/ thread[t].event \in signaled
    \/ \E u \in Thread : thread[t].event \in ToSet(thread[u].handles)

\* Spurious wake-ups come from time limits only (FAQ 3 and 4): where no wait was
\* ever ended by one, a thread wakes only after its event was chosen.
NoSpuriousWakeup ==
  [][\A t \in Thread : WaitReturns(t) /\ thread[t].event \in Listed => timed_out]_vars

\* When a hasty destructor has slept every thread is out of TimedWait or waits
\* for nothing but the user's lock, and every event is there to be deleted (the
\* destructor's last comment and last DCHECK).
DestroyedAlone ==
  destroyed => /\ \A t \in Thread : thread[t].pc \in {"out", "relocking"}
               /\ recycling_list_size_ = allocation_counter_
=============================================================================
