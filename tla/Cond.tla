------------------------------- MODULE Cond -------------------------------
(***************************************************************************)
(* libs/sync/mutex.cpp and cond.cpp: a mutex of lv2 on a pthread mutex and *)
(* a condition variable made of two lists of thread ids, waiters and next, *)
(* under waitersMutex.  A signal moves an id from waiters to next and      *)
(* wakes every sleeper; the one that finds its id in next returns.         *)
(*                                                                         *)
(* sys_cond_wait is five steps, for other threads run between them: the id *)
(* is queued, the mutex released, waitersMutex taken (and given back by    *)
(* the sleep), next searched after each wake-up, the mutex taken again.    *)
(* A call that blocks on the mutex is one step, taken when it gets it.     *)
(***************************************************************************)
EXTENDS Naturals, Sequences, FiniteSets, SequencesExt

CONSTANTS
  Threads,
  TimedLocks,    \* the threads that lock the mutex with a timeout, too
  TimedWaits,    \* the threads that wait with a timeout, too
  MaxDepth,      \* how often a thread may hold a recursive mutex
  Null

ASSUME CondAssumption ==
  /\ TimedLocks \subseteq Threads /\ TimedWaits \subseteq Threads
  /\ MaxDepth \in Nat \ {0}
  /\ Null \notin Threads

VARIABLES
  recursive,     \* the type of the mutex: PTHREAD_MUTEX_RECURSIVE, or else
                 \* PTHREAD_MUTEX_ERRORCHECK; sys_mutex_create sets it for good
  owner, depth,  \* of the pthread mutex; depth is 0 when it is free
  waiters, next, \* cv_info_t::waiters and next
  pc,            \* [Threads -> "run" or a step of sys_cond_wait]
  timed,         \* the threads whose wait has a timeout
  held,          \* [Threads -> Nat]: how deep a waiter held the mutex at its call
  gaveUp,        \* [Threads -> Nat]: how many waits of the thread have timed out
  ret            \* [Threads -> the value that the thread's last call returned]

mutex == <<recursive, owner, depth>>
lists == <<waiters, next>>
vars == <<mutex, lists, pc, timed, held, gaveUp, ret>>

Init ==
  /\ recursive \in BOOLEAN
  /\ owner = Null /\ depth = 0
  /\ waiters = << >> /\ next = << >>
  /\ pc = [t \in Threads |-> "run"]
  /\ timed = {}
  /\ held = [t \in Threads |-> 0]
  /\ gaveUp = [t \in Threads |-> 0]
  /\ ret = [t \in Threads |-> "CELL_OK"]

returns(t, value) == ret' = [ret EXCEPT ![t] = value]
-----------------------------------------------------------------------------
(* The pthread mutex: pthread_mutex_lock by a thread that may have it, and *)
(* pthread_mutex_unlock by its owner.                                      *)
pthread_lock(t) == owner' = t /\ depth' = depth + 1 /\ UNCHANGED recursive

pthread_unlock ==
  /\ depth' = depth - 1
  /\ owner' = IF depth = 1 THEN Null ELSE owner
  /\ UNCHANGED recursive

mayLock(t) == owner = Null \/ (owner = t /\ recursive)
-----------------------------------------------------------------------------
(* sys_mutex_lock, sys_mutex_trylock and sys_mutex_unlock.                 *)

sys_mutex_lock(t) ==
  /\ pc[t] = "run" /\ owner \in {Null, t}
  /\ IF mayLock(t)
     THEN depth < MaxDepth /\ pthread_lock(t) /\ returns(t, "CELL_OK")
     ELSE returns(t, "CELL_EDEADLK") /\ UNCHANGED mutex
  /\ UNCHANGED <<lists, pc, timed, held, gaveUp>>

\* With a timeout, and asked by the owner of a mutex that is not recursive, it
\* fails assert(ret == 0 || ret == ETIMEDOUT), and the emulator ends.
sys_mutex_lock_timed(t) ==
  /\ t \in TimedLocks /\ pc[t] = "run"
  /\ \/ /\ mayLock(t) /\ depth < MaxDepth
        /\ pthread_lock(t) /\ returns(t, "CELL_OK")
     \/ /\ owner \notin {Null, t}
        /\ returns(t, "CELL_ETIMEDOUT") /\ UNCHANGED mutex
  /\ UNCHANGED <<lists, pc, timed, held, gaveUp>>

\* PthreadMutexInfo::attr is never set, so that type() is not recursive and
\* a mutex that cannot be had is EDEADLK, whoever has it.
sys_mutex_trylock(t) ==
  /\ pc[t] = "run"
  /\ IF mayLock(t)
     THEN depth < MaxDepth /\ pthread_lock(t) /\ returns(t, "CELL_OK")
     ELSE returns(t, "CELL_EDEADLK") /\ UNCHANGED mutex
  /\ UNCHANGED <<lists, pc, timed, held, gaveUp>>

sys_mutex_unlock(t) ==
  /\ pc[t] = "run"
  /\ IF owner = t
     THEN pthread_unlock /\ returns(t, "CELL_OK")
     ELSE returns(t, "CELL_EPERM") /\ UNCHANGED mutex
  /\ UNCHANGED <<lists, pc, timed, held, gaveUp>>
-----------------------------------------------------------------------------
(* sys_cond_wait.                                                          *)

wait_push(t, hasTimeout) ==
  /\ pc[t] = "run" /\ (hasTimeout => t \in TimedWaits)
  /\ waiters' = Append(waiters, t)
  /\ timed' = IF hasTimeout THEN timed \cup {t} ELSE timed \ {t}
  /\ held' = [held EXCEPT ![t] = IF owner = t THEN depth ELSE 0]
  /\ pc' = [pc EXCEPT ![t] = "pushed"]
  /\ UNCHANGED <<mutex, next, gaveUp, ret>>

\* pthread_mutex_lock_on_exit: EPERM of the unlock is not looked at.
wait_unlock(t) ==
  /\ pc[t] = "pushed"
  /\ IF owner = t THEN pthread_unlock ELSE UNCHANGED mutex
  /\ pc' = [pc EXCEPT ![t] = "unlocked"]
  /\ UNCHANGED <<lists, timed, held, gaveUp, ret>>

\* Mutant: the search leaves the id in next.
checkKeeps(t) ==
  IF Contains(next, t)
  THEN pc' = [pc EXCEPT ![t] = "relock"] /\ returns(t, "CELL_OK") /\ UNCHANGED next
  ELSE pc' = [pc EXCEPT ![t] = "asleep"] /\ UNCHANGED <<next, ret>>

\* check, and the sleep when it fails.
check(t) ==
  IF Contains(next, t)
  THEN /\ next' = RemoveFirst(next, t)
       /\ pc' = [pc EXCEPT ![t] = "relock"]
       /\ returns(t, "CELL_OK")
  ELSE pc' = [pc EXCEPT ![t] = "asleep"] /\ UNCHANGED <<next, ret>>

\* Mutant: a wait without a timeout sleeps first, too.
wait_enterBlind(t) ==
  /\ pc[t] = "unlocked"
  /\ pc' = [pc EXCEPT ![t] = "asleep"]
  /\ UNCHANGED <<mutex, lists, timed, held, gaveUp, ret>>

\* A wait with a timeout sleeps before it looks.
wait_enter(t) ==
  /\ pc[t] = "unlocked"
  /\ IF t \in timed THEN pc' = [pc EXCEPT ![t] = "asleep"] /\ UNCHANGED <<next, ret>>
     ELSE check(t)
  /\ UNCHANGED <<mutex, waiters, timed, held, gaveUp>>

wait_check(t) ==
  /\ pc[t] = "awake" /\ check(t)
  /\ UNCHANGED <<mutex, waiters, timed, held, gaveUp>>

\* A timeout leaves the id where it is.
wait_timeout(t) ==
  /\ pc[t] = "asleep" /\ t \in timed
  /\ pc' = [pc EXCEPT ![t] = "relock"]
  /\ returns(t, "CELL_ETIMEDOUT")
  /\ gaveUp' = [gaveUp EXCEPT ![t] = @ + 1]
  /\ UNCHANGED <<mutex, lists, timed, held>>

\* Mutant: a wait that timed out returns without the mutex.
wait_relockNot(t) ==
  /\ pc[t] = "relock"
  /\ IF ret[t] = "CELL_OK" THEN mayLock(t) /\ pthread_lock(t) ELSE UNCHANGED mutex
  /\ pc' = [pc EXCEPT ![t] = "run"]
  /\ UNCHANGED <<lists, timed, held, gaveUp, ret>>

wait_relock(t) ==
  /\ pc[t] = "relock" /\ mayLock(t) /\ pthread_lock(t)
  /\ pc' = [pc EXCEPT ![t] = "run"]
  /\ UNCHANGED <<lists, timed, held, gaveUp, ret>>

\* A spurious wake-up of the condition variable.
spurious(t) ==
  /\ pc[t] = "asleep" /\ pc' = [pc EXCEPT ![t] = "awake"]
  /\ UNCHANGED <<mutex, lists, timed, held, gaveUp, ret>>
-----------------------------------------------------------------------------
(* The signals, of any thread, with the mutex or without.                  *)

notify_all == [t \in Threads |-> IF pc[t] = "asleep" THEN "awake" ELSE pc[t]]

\* Mutant: the signalled thread stays among the waiters.
sys_cond_signalKeeps(s) ==
  /\ pc[s] = "run"
  /\ IF waiters = << >> THEN UNCHANGED <<lists, pc>>
     ELSE /\ next' = Append(next, Head(waiters))
          /\ pc' = notify_all /\ UNCHANGED waiters
  /\ returns(s, "CELL_OK")
  /\ UNCHANGED <<mutex, timed, held, gaveUp>>

sys_cond_signal(s) ==
  /\ pc[s] = "run"
  /\ IF waiters = << >> THEN UNCHANGED <<lists, pc>>
     ELSE /\ next' = Append(next, Head(waiters))
          /\ waiters' = Tail(waiters)
          /\ pc' = notify_all
  /\ returns(s, "CELL_OK")
  /\ UNCHANGED <<mutex, timed, held, gaveUp>>

sys_cond_signal_all(s) ==
  /\ pc[s] = "run"
  /\ next' = next \o waiters
  /\ waiters' = << >>
  /\ pc' = notify_all
  /\ returns(s, "CELL_OK")
  /\ UNCHANGED <<mutex, timed, held, gaveUp>>

sys_cond_signal_to(s, t) ==
  /\ pc[s] = "run"
  /\ IF Contains(waiters, t)
     THEN /\ next' = Append(next, t)
          /\ waiters' = RemoveFirst(waiters, t)
          /\ pc' = notify_all
          /\ returns(s, "CELL_OK")
     ELSE returns(s, "CELL_EPERM") /\ UNCHANGED <<lists, pc>>
  /\ UNCHANGED <<mutex, timed, held, gaveUp>>
-----------------------------------------------------------------------------
\* What the program calls, and what goes on inside sys_cond_wait.
Call(t) ==
  \/ sys_mutex_lock(t) \/ sys_mutex_lock_timed(t) \/ sys_mutex_trylock(t) \/ sys_mutex_unlock(t)
  \/ \E hasTimeout \in BOOLEAN : wait_push(t, hasTimeout)
  \/ sys_cond_signal(t) \/ sys_cond_signal_all(t)
  \/ \E u \in Threads : sys_cond_signal_to(t, u)

Inside(t) == wait_unlock(t) \/ wait_enter(t) \/ wait_check(t) \/ wait_relock(t)

Next == \E t \in Threads : Call(t) \/ Inside(t) \/ wait_timeout(t) \/ spurious(t)

\* A thread inside sys_cond_wait runs on, but for the mutex, which the program
\* may keep.
Fairness ==
  \A t \in Threads : WF_vars(wait_unlock(t) \/ wait_enter(t) \/ wait_check(t))

Spec == Init /\ [][Next]_vars
FairSpec == Spec /\ Fairness
-----------------------------------------------------------------------------
(* Correctness.                                                            *)

\* Every variable holds what its declaration says.
TypeOK ==
  /\ recursive \in BOOLEAN
  /\ owner \in Threads \cup {Null} /\ depth \in Nat /\ (depth = 0 <=> owner = Null)
  /\ waiters \in Seq(Threads) /\ next \in Seq(Threads)
  /\ pc \in [Threads -> {"run", "pushed", "unlocked", "asleep", "awake", "relock"}]
  /\ timed \subseteq TimedWaits
  /\ held \in [Threads -> Nat]
  /\ gaveUp \in [Threads -> Nat]
  /\ ret \in [Threads -> {"CELL_OK", "CELL_EDEADLK", "CELL_ETIMEDOUT", "CELL_EPERM"}]

\* At how many places of a list an id is.
times(list, t) == Cardinality({i \in 1 .. Len(list) : list[i] = t})

waits(t) == pc[t] \in {"pushed", "unlocked", "asleep", "awake"}

\* A thread that has begun to wait can be signalled from the moment before it
\* releases the mutex until it returns: its id is in waiters or in next.
\* Behaviour: waiters.push_back precedes pthread_mutex_unlock in sys_cond_wait.
Registered == \A t \in Threads : waits(t) => Contains(waiters \o next, t)

\* The two lists hold the id of a thread once while it waits and once for each
\* wait of its that timed out: a thread takes no signal that no wait of its asked
\* for, and an id that a timeout left behind is there for good, for when a signal
\* or a later wait of the thread takes it, the id of that wait stays.
\* Behaviour: wait_timeout erases nothing; the three signals and check move and
\* erase one id of a thread each.
ListsAreTheWaiters ==
  \A t \in Threads :
    times(waiters, t) + times(next, t) = gaveUp[t] + (IF waits(t) THEN 1 ELSE 0)

\* No thread that waits without timeouts sleeps when it has been signalled.
\* Behaviour: an untimed wait searches next before its first sleep, under the
\* mutex that signal takes.
NoLostSignal == \A t \in Threads \ TimedWaits : pc[t] = "asleep" => ~Contains(next, t)

\* A thread returns from sys_cond_wait with the mutex as deep as it had it,
\* whether it was signalled or timed out, and whoever took the mutex between.
\* Behaviour: ~pthread_mutex_lock_on_exit.
ReturnsWithMutex ==
  [][\A t \in Threads :
       pc[t] # "run" /\ pc'[t] = "run" /\ held[t] > 0
         => owner' = t /\ depth' = held[t]]_vars

\* A thread that waits without timeouts and is signalled leaves the condition
\* variable.
\* Behaviour: notify_all, and the loop of sys_cond_wait.
SignalledLeaves == \A t \in Threads \ TimedWaits : Contains(next, t) ~> ~Contains(next, t)

\* A waiter that has been signalled does not return ETIMEDOUT.
\* Behaviour: tests/RunnerTests.cpp expects "test_all: ok=4 timeout=0" of four
\* timed waiters and one signal_all.
SignalledNotTimedOut ==
  [][\A t \in Threads :
       pc[t] = "asleep" /\ pc'[t] = "relock" /\ Contains(next, t) => ret'[t] = "CELL_OK"]_vars
=============================================================================
