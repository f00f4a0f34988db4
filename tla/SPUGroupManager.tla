-------------------------- MODULE SPUGroupManager --------------------------
(***************************************************************************)
(* SPU thread groups: SPUGroupManager.cpp, which shares the SPUs out among *)
(* the groups, the life of an SPUThread as far as the manager sees it, and *)
(* the system calls of sysSpu.cpp that drive them.                         *)
(*                                                                         *)
(* Each group is owned by one PPU thread, which creates it, fills it,      *)
(* starts it, joins it and destroys it in that order; any other PPU thread *)
(* may suspend and resume it at any time.  The lists of the manager        *)
(* (vectors and a set of pointers) are sets of groups; an EMU_ASSERT on    *)
(* them is a guard, since the emulator ends where it fails.  The manager's *)
(* mutex is held over several steps by start alone; every other critical   *)
(* section is one step, possible when the mutex is free.  Exit statuses    *)
(* are left out: only the causes decide anything.                          *)
(***************************************************************************)
EXTENDS Integers, Sequences, FiniteSets, FiniteSetsExt, Functions

CONSTANTS
  Groups,
  Members,         \* [Groups -> the threads that sys_spu_thread_initialize puts in]
  RawThreads,      \* raw SPU threads, which belong to no group
  Rank,            \* [Groups -> Nat]: the order of PriorityComparer, first to run first
  NSpus,           \* 6 in the code
  MayFault,        \* the threads that may hit an illegal instruction or a failure
  Null, Garbage    \* values of the pointer SPUThread::_group

GroupThreads == UNION {Members[g] : g \in Groups}
Threads == GroupThreads \cup RawThreads
Causes  == {"Exit", "GroupExit", "StillRunning"}

ASSUME GroupsAssumption ==
  /\ IsFiniteSet(Groups) /\ Null \notin Groups /\ Garbage \notin Groups
  /\ NSpus \in Nat
  /\ Rank \in [Groups -> Nat \ {0}]
  /\ \A g, h \in Groups : Rank[g] = Rank[h] => g = h
  /\ \A g \in Groups : IsFiniteSet(Members[g])
  /\ \A g, h \in Groups : g # h => Members[g] \cap Members[h] = {}
  /\ GroupThreads \cap RawThreads = {}
  /\ MayFault \subseteq Threads

VARIABLES
  initialized, ready, running, suspended,   \* the lists of the manager
  mutex,       \* SPUGroupManager::_mutex: Null, or the group whose start holds it
  threads,     \* [Groups -> Seq(Threads)], ThreadGroup::threads
  causes,      \* [Threads -> Causes], ThreadGroup::causes
  group,       \* [Threads -> Groups, Null or Garbage], SPUThread::_group
  flag,        \* [Threads -> BOOLEAN], SPUThread::_suspended
  needsJoin,   \* [Threads -> BOOLEAN], SPUThread::_needsJoin
  cause,       \* [Threads -> Causes], SPUThread::_cause
  tpc,         \* where each SPU thread is in SPUThread::loop
  opc, at,     \* where the owner of each group is, and its loop index
  seen,        \* the causes that the owner's join has collected
  result       \* the cause the owner's last join returned

lists   == <<initialized, ready, running, suspended>>
spu     == <<group, flag, needsJoin, cause, tpc>>
owner   == <<opc, at, seen, result>>
vars    == <<lists, mutex, threads, causes, spu, owner>>

Init ==
  /\ initialized = {} /\ ready = {} /\ running = {} /\ suspended = {}
  /\ mutex = Null
  /\ threads = [g \in Groups |-> << >>]
  /\ causes = [t \in Threads |-> "Exit"]
  /\ \E x \in {Null, Garbage} : group = [t \in Threads |-> x]
  /\ flag = [t \in Threads |-> FALSE]
  /\ needsJoin = [t \in Threads |-> FALSE]
  /\ cause = [t \in Threads |-> "StillRunning"]
  /\ tpc = [t \in Threads |-> "none"]
  /\ opc = [g \in Groups |-> "none"]
  /\ at = [g \in Groups |-> 1]
  /\ seen = [g \in Groups |-> {}]
  /\ result = [g \in Groups |-> Null]
-----------------------------------------------------------------------------
(* dispatch: the groups that want to run, in the order of their rank, get  *)
(* the SPUs that are left.                                                 *)

size(g) == Len(threads[g])

\* How many SPUs the groups of S take: no thread is in two of them, or twice in one.
spus(S) == Cardinality(UNION {Range(threads[g]) : g \in S})

MaxRank == Max({Rank[g] : g \in Groups} \cup {0})

\* left[n]: the SPUs left when the groups of S of rank up to n have been served.
spusLeft(S) ==
  LET left[n \in 0 .. MaxRank] ==
        IF n = 0 THEN NSpus
        ELSE left[n - 1] - spus({g \in S : Rank[g] = n /\ size(g) <= left[n - 1]})
  IN left

dispatched(S) == {g \in S : size(g) <= spusLeft(S)[Rank[g] - 1]}

\* Mutant: a group that loses its SPUs is not suspended.
DispatchNoSuspend(S, f) ==
  /\ running' = dispatched(S)
  /\ ready' = S \ dispatched(S)
  /\ flag' = [t \in Threads |-> f[t] /\ ~\E g \in dispatched(S) : t \in Range(threads[g])]

\* The lists and the suspension flags after dispatch, called with the groups S
\* in _ready and _running and the flags f.
Dispatch(S, f) ==
  /\ running' = dispatched(S)
  /\ ready' = S \ dispatched(S)
  /\ flag' = [t \in Threads |->
                IF \E g \in S : t \in Range(threads[g])
                THEN \E g \in S \ dispatched(S) : t \in Range(threads[g])
                ELSE f[t]]

anyRunning(g, c) == \E t \in Range(threads[g]) : c[t] = "StillRunning"
anyStopped(g)    == \E t \in Range(threads[g]) : causes[t] # "StillRunning"
-----------------------------------------------------------------------------
(* The owner of a group.                                                   *)

OwnerAt(g, from, to) == opc[g] = from /\ opc' = [opc EXCEPT ![g] = to]

\* sys_spu_thread_group_create, and SPUGroupManager::add.
Create(g) ==
  /\ OwnerAt(g, "none", "idle")
  /\ mutex = Null
  /\ initialized' = initialized \cup {g}
  /\ threads' = [threads EXCEPT ![g] = << >>]
  /\ UNCHANGED <<ready, running, suspended, mutex, causes, spu, at, seen, result>>

\* sys_spu_thread_initialize.
Initialize(g, t) ==
  /\ opc[g] = "idle"
  /\ t \in Members[g] \ Range(threads[g])
  /\ threads' = [threads EXCEPT ![g] = Append(@, t)]
  /\ group' = [group EXCEPT ![t] = g]
  /\ UNCHANGED <<lists, mutex, causes, flag, needsJoin, cause, tpc, owner>>

\* sys_spu_thread_group_start of a group that is complete: the threads are
\* made to run one after the other, with the mutex held.
Start(g) ==
  /\ OwnerAt(g, "idle", "start")
  /\ Range(threads[g]) = Members[g] /\ Members[g] # {}
  /\ mutex = Null /\ mutex' = g
  /\ at' = [at EXCEPT ![g] = 1]
  /\ UNCHANGED <<lists, threads, causes, spu, seen, result>>

\* SPUThread::run(true): the host thread exists before it is marked suspended...
StartThread(g) ==
  /\ OwnerAt(g, "start", "run") /\ at[g] <= Len(threads[g])
  /\ LET t == threads[g][at[g]]
     IN /\ causes' = [causes EXCEPT ![t] = "StillRunning"]
        /\ tpc' = [tpc EXCEPT ![t] = "created"]
  /\ UNCHANGED <<lists, mutex, threads, group, flag, needsJoin, cause, at, seen, result>>

StartSuspended(g) ==
  /\ OwnerAt(g, "run", "handshake")
  /\ flag' = [flag EXCEPT ![threads[g][at[g]]] = TRUE]
  /\ UNCHANGED <<lists, mutex, threads, causes, group, needsJoin, cause, tpc, at, seen, result>>

\* ... and run returns when the thread has signalled that it exists.
StartHandshake(g) ==
  /\ OwnerAt(g, "handshake", "start")
  /\ LET t == threads[g][at[g]]
     IN /\ tpc[t] # "created"
        /\ needsJoin' = [needsJoin EXCEPT ![t] = TRUE]
  /\ at' = [at EXCEPT ![g] = @ + 1]
  /\ UNCHANGED <<lists, mutex, threads, causes, group, flag, cause, tpc, seen, result>>

Started(g) ==
  /\ OwnerAt(g, "start", "started") /\ at[g] > Len(threads[g])
  /\ initialized' = initialized \ {g}
  /\ Dispatch(ready \cup running \cup {g}, flag)
  /\ mutex' = Null
  /\ UNCHANGED <<suspended, threads, causes, group, needsJoin, cause, tpc, at, seen, result>>

\* Mutant: what the last join collected is not forgotten.
JoinKept(g) ==
  /\ OwnerAt(g, "started", "join")
  /\ at' = [at EXCEPT ![g] = 1]
  /\ UNCHANGED <<lists, mutex, threads, causes, spu, seen, result>>

\* sys_spu_thread_group_join: the threads are joined in their order...
Join(g) ==
  /\ OwnerAt(g, "started", "join")
  /\ at' = [at EXCEPT ![g] = 1]
  /\ seen' = [seen EXCEPT ![g] = {}]
  /\ UNCHANGED <<lists, mutex, threads, causes, spu, result>>

JoinThread(g) ==
  /\ opc[g] = "join" /\ at[g] <= Len(threads[g])
  /\ LET t == threads[g][at[g]]
     IN /\ tpc[t] = "ended"
        /\ tpc' = [tpc EXCEPT ![t] = "none"]
        /\ needsJoin' = [needsJoin EXCEPT ![t] = FALSE]
        /\ seen' = [seen EXCEPT ![g] = @ \cup {cause[t]}]
  /\ at' = [at EXCEPT ![g] = @ + 1]
  /\ UNCHANGED <<lists, mutex, threads, causes, group, flag, cause, opc, result>>

\* ... and what they exited with is summed up.
JoinReturn(g) ==
  /\ OwnerAt(g, "join", "idle") /\ at[g] > Len(threads[g])
  /\ mutex = Null /\ g \in initialized
  /\ result' = [result EXCEPT ![g] =
                  IF "GroupExit" \in seen[g] THEN "GROUP_EXIT"
                  ELSE IF seen[g] \subseteq {"Exit"} THEN "ALL_THREADS_EXIT" ELSE "0"]
  /\ UNCHANGED <<lists, mutex, threads, causes, spu, at, seen>>

\* sys_spu_thread_group_destroy.
Destroy(g) ==
  /\ OwnerAt(g, "idle", "none")
  /\ mutex = Null
  /\ initialized' = initialized \ {g}
  /\ result' = [result EXCEPT ![g] = Null]
  /\ UNCHANGED <<ready, running, suspended, mutex, threads, causes, spu, at, seen>>
-----------------------------------------------------------------------------
(* Any PPU thread.                                                         *)

\* Mutant: the SPUs of the suspended group are not given to another.
SuspendNoDispatch(g) ==
  /\ opc[g] # "none" /\ mutex = Null
  /\ g \in ready \cup running /\ ~anyStopped(g)
  /\ suspended' = suspended \cup {g}
  /\ running' = running \ {g} /\ ready' = ready \ {g}
  /\ flag' = [t \in Threads |-> flag[t] \/ (g \in running /\ t \in Range(threads[g]))]
  /\ UNCHANGED <<initialized, mutex, threads, causes, group, needsJoin, cause, tpc, owner>>

\* sys_spu_thread_group_suspend: nothing happens to a group that is not
\* started (CELL_ESTAT), is suspended, or has a thread that has stopped.
Suspend(g) ==
  /\ opc[g] # "none" /\ mutex = Null
  /\ g \in ready \cup running /\ ~anyStopped(g)
  /\ suspended' = suspended \cup {g}
  /\ Dispatch((ready \cup running) \ {g},
              [t \in Threads |-> flag[t] \/ (g \in running /\ t \in Range(threads[g]))])
  /\ UNCHANGED <<initialized, mutex, threads, causes, group, needsJoin, cause, tpc, owner>>

\* sys_spu_thread_group_resume: nothing happens to a group that is not suspended.
Resume(g) ==
  /\ opc[g] # "none" /\ mutex = Null
  /\ g \in suspended
  /\ suspended' = suspended \ {g}
  /\ Dispatch(ready \cup running \cup {g}, flag)
  /\ UNCHANGED <<initialized, mutex, threads, causes, group, needsJoin, cause, tpc, owner>>

\* A raw SPU is started by a write to SPU_RunCntl, and joined by
\* sys_raw_spu_destroy when it has ended; one that has not ended within the
\* 200 ms of tryJoin is left as it is, which is no step here.
RawRun(t) ==
  /\ tpc[t] = "none" /\ ~needsJoin[t]
  /\ tpc' = [tpc EXCEPT ![t] = "created"]
  /\ flag' = [flag EXCEPT ![t] = FALSE]
  /\ needsJoin' = [needsJoin EXCEPT ![t] = TRUE]
  /\ UNCHANGED <<lists, mutex, threads, causes, group, cause, owner>>

RawJoin(t) ==
  /\ tpc[t] = "ended"
  /\ tpc' = [tpc EXCEPT ![t] = "none"]
  /\ needsJoin' = [needsJoin EXCEPT ![t] = FALSE]
  /\ UNCHANGED <<lists, mutex, threads, causes, group, flag, cause, owner>>
-----------------------------------------------------------------------------
(* An SPU thread, from the start of SPUThread::loop to its end.            *)

ThreadAt(t, from, to) == tpc[t] = from /\ tpc' = [tpc EXCEPT ![t] = to]

\* event->signal().
Signal(t) ==
  /\ ThreadAt(t, "created", "signalled")
  /\ UNCHANGED <<lists, mutex, threads, causes, group, flag, needsJoin, cause, owner>>

\* waitSuspended, before the first instruction and, while the thread runs, at
\* the end of each DisableSuspend scope: a channel operation or an interrupt.
WaitSuspended(t) ==
  /\ ThreadAt(t, "signalled", IF flag[t] THEN "waiting" ELSE "running")
  /\ UNCHANGED <<lists, mutex, threads, causes, group, flag, needsJoin, cause, owner>>

SuspensionPoint(t) ==
  /\ flag[t] /\ ThreadAt(t, "running", "waiting")
  /\ UNCHANGED <<lists, mutex, threads, causes, group, flag, needsJoin, cause, owner>>

Resumed(t) ==
  /\ ~flag[t] /\ ThreadAt(t, "waiting", "running")
  /\ UNCHANGED <<lists, mutex, threads, causes, group, flag, needsJoin, cause, owner>>

\* The stop instructions of a group exit and of a thread exit; an endless loop
\* counts as a thread exit.  (SPUThreadFinishedException, which the loop catches
\* as well, is thrown nowhere.)
Stop(t, c) ==
  /\ ThreadAt(t, "running", "stopping")
  /\ cause' = [cause EXCEPT ![t] = c]
  /\ UNCHANGED <<lists, mutex, threads, causes, group, flag, needsJoin, owner>>

\* Mutant: the group is moved when its first thread stops.
NotifyFirst(t) ==
  /\ ThreadAt(t, "stopping", "finishing") /\ mutex = Null /\ group[t] \in Groups
  /\ LET g == group[t]
     IN /\ causes' = [causes EXCEPT ![t] = cause[t]]
        /\ initialized' = initialized \cup {g}
        /\ suspended' = suspended \ {g}
        /\ Dispatch((ready \cup running) \ {g}, flag)
  /\ UNCHANGED <<mutex, threads, group, needsJoin, cause, owner>>

\* Mutant: a group is looked for among the running ones only.
NotifyRunningOnly(t) ==
  /\ ThreadAt(t, "stopping", "finishing") /\ mutex = Null /\ group[t] \in Groups
  /\ LET g == group[t]
         c == [causes EXCEPT ![t] = cause[t]]
     IN /\ causes' = c
        /\ IF anyRunning(g, c)
           THEN UNCHANGED <<lists, flag>>
           ELSE /\ initialized' = initialized \cup {g}
                /\ UNCHANGED suspended
                /\ Dispatch(ready \cup (running \ {g}), flag)
  /\ UNCHANGED <<mutex, threads, group, needsJoin, cause, owner>>

\* Mutant: the SPUs of a group that has ended are not given to another.
NotifyNoDispatch(t) ==
  /\ ThreadAt(t, "stopping", "finishing") /\ mutex = Null /\ group[t] \in Groups
  /\ LET g == group[t]
         c == [causes EXCEPT ![t] = cause[t]]
     IN /\ causes' = c
        /\ IF anyRunning(g, c)
           THEN UNCHANGED lists
           ELSE /\ g \in ready \cup running \cup suspended
                /\ initialized' = initialized \cup {g}
                /\ suspended' = suspended \ {g}
                /\ ready' = ready \ {g} /\ running' = running \ {g}
  /\ UNCHANGED <<mutex, threads, group, flag, needsJoin, cause, owner>>

\* SPUGroupManager::notifyThreadStopped: with its last thread a group leaves
\* the list it is in, and the SPUs are given away.
NotifyStopped(t) ==
  /\ ThreadAt(t, "stopping", "finishing") /\ mutex = Null /\ group[t] \in Groups
  /\ LET g == group[t]
         c == [causes EXCEPT ![t] = cause[t]]
     IN /\ causes' = c
        /\ IF anyRunning(g, c)
           THEN UNCHANGED <<lists, flag>>
           ELSE /\ g \in ready \cup running \cup suspended
                /\ initialized' = initialized \cup {g}
                /\ suspended' = suspended \ {g}
                /\ Dispatch((ready \cup running) \ {g}, flag)
  /\ UNCHANGED <<mutex, threads, group, needsJoin, cause, owner>>

\* The same for a thread without a group; a pointer that was never set is
\* followed to wherever it leads, and the emulator crashes.
NotifyStoppedRaw(t) ==
  /\ mutex = Null /\ group[t] \notin Groups
  /\ ThreadAt(t, "stopping", IF group[t] = Null THEN "finishing" ELSE "crashed")
  /\ UNCHANGED <<lists, mutex, threads, causes, group, flag, needsJoin, cause, owner>>

\* An illegal instruction, a failure or another stop code ends the loop, and
\* the manager is not told.
Fault(t) ==
  /\ t \in MayFault /\ ThreadAt(t, "running", "finishing")
  /\ UNCHANGED <<lists, mutex, threads, causes, group, flag, needsJoin, cause, owner>>

Finish(t) ==
  /\ ThreadAt(t, "finishing", "ended")
  /\ UNCHANGED <<lists, mutex, threads, causes, group, flag, needsJoin, cause, owner>>
-----------------------------------------------------------------------------
OwnerCall(g) == Create(g) \/ (\E t \in Members[g] : Initialize(g, t)) \/ Start(g) \/ Join(g) \/ Destroy(g)

OwnerStep(g) == StartThread(g) \/ StartSuspended(g) \/ StartHandshake(g) \/ Started(g)
                \/ JoinThread(g) \/ JoinReturn(g)

ThreadStep(t) ==
  \/ Signal(t) \/ WaitSuspended(t) \/ SuspensionPoint(t) \/ Resumed(t)
  \/ \E c \in {"Exit", "GroupExit"} : Stop(t, c)
  \/ NotifyStopped(t) \/ NotifyStoppedRaw(t) \/ Fault(t) \/ Finish(t)

Next ==
  \/ \E g \in Groups : OwnerCall(g) \/ OwnerStep(g) \/ Suspend(g) \/ Resume(g)
  \/ \E t \in RawThreads : RawRun(t) \/ RawJoin(t)
  \/ \E t \in Threads : ThreadStep(t)

Spec == Init /\ [][Next]_vars
-----------------------------------------------------------------------------
(* Correctness.                                                            *)

\* Every variable holds what its declaration says.
TypeOK ==
  /\ initialized \subseteq Groups /\ ready \subseteq Groups
  /\ running \subseteq Groups /\ suspended \subseteq Groups
  /\ mutex \in Groups \cup {Null}
  /\ threads \in [Groups -> Seq(GroupThreads)]
  /\ causes \in [Threads -> Causes]
  /\ group \in [Threads -> Groups \cup {Null, Garbage}]
  /\ flag \in [Threads -> BOOLEAN]
  /\ needsJoin \in [Threads -> BOOLEAN]
  /\ cause \in [Threads -> Causes]
  /\ tpc \in [Threads -> {"none", "created", "signalled", "waiting", "running",
                          "stopping", "finishing", "ended", "crashed"}]
  /\ opc \in [Groups -> {"none", "idle", "start", "run", "handshake", "started", "join"}]
  /\ at \in [Groups -> Nat]
  /\ seen \in [Groups -> SUBSET Causes]
  /\ result \in [Groups -> {Null, "GROUP_EXIT", "ALL_THREADS_EXIT", "0"}]

\* A group that exists is in exactly one list, so that find and erase on the
\* vectors mean what they say, and a destroyed group is in none (no list keeps
\* a pointer to it).  Behaviour: every move between the four lists.
OneList ==
  /\ initialized \cup ready \cup running \cup suspended = {g \in Groups : opc[g] # "none"}
  /\ initialized \cap (ready \cup running \cup suspended) = {}
  /\ ready \cap (running \cup suspended) = {}
  /\ running \cap suspended = {}

\* The groups that run fit on the SPUs, and a group is kept waiting only by
\* groups that go before it.  Behaviour: dispatch, and that every operation
\* that changes the lists ends with it.
SpusShared ==
  /\ spus(running) <= NSpus
  /\ \A g \in ready : spus({h \in running : Rank[h] < Rank[g]}) + size(g) > NSpus

\* The threads of a started group are told to run exactly when the group is
\* running.  Behaviour: the suspend and resume calls of dispatch and suspend,
\* and the suspended start of SPUThread::run.
FlagsFollowLists ==
  \A g \in Groups : \A t \in Range(threads[g]) :
    /\ g \in running => ~flag[t]
    /\ g \in ready \cup suspended => flag[t]

\* A thread of the group ended without telling the manager.
faulted(g) ==
  \E t \in Range(threads[g]) \cap MayFault :
    tpc[t] \in {"finishing", "ended", "none"} /\ causes[t] = "StillRunning"

\* No assertion of the manager and of SPUThread::run fails: a group is started,
\* joined and destroyed where it is expected, a thread that stops finds its
\* group in play (even a thread that ran before its group was dispatched), and
\* no thread is run twice without a join.  A fault fails the assertion at the
\* end of join, and that in the group of the thread that faulted alone.
AssertionsHold ==
  /\ \A g \in Groups :
       /\ opc[g] \in {"idle", "start", "run", "handshake"} => g \in initialized
       /\ opc[g] = "join" /\ at[g] > Len(threads[g]) => g \in initialized \/ faulted(g)
       /\ opc[g] = "start" /\ at[g] <= Len(threads[g]) => ~needsJoin[threads[g][at[g]]]
  /\ \A t \in Threads :
       tpc[t] = "stopping" /\ group[t] \in Groups /\ mutex = Null
         => group[t] \in ready \cup running \cup suspended

\* What join returns is what the group's threads told the manager, and a group
\* one of whose threads did not tell gets no answer.  Behaviour: join reads the
\* causes that the threads left, long after they told notifyThreadStopped.
JoinAgrees ==
  \A g \in Groups :
    opc[g] = "idle" /\ result[g] # Null =>
      /\ result[g] = "GROUP_EXIT" <=> \E t \in Range(threads[g]) : causes[t] = "GroupExit"
      /\ ~anyRunning(g, causes)

\* A raw thread that stops tells the manager that it has no group, which is
\* how notifyThreadStopped knows one ("raw thread").
RawThreadHasNoGroup == \A t \in RawThreads : tpc[t] = "stopping" => group[t] = Null
-----------------------------------------------------------------------------
(* The inductive invariant behind OneList and FlagsFollowLists.            *)

\* The owner finds its group where start and destroy look for it, start holds
\* the mutex, and a group has only its own threads.
OwnerPlaced ==
  \A g \in Groups :
    /\ opc[g] \in {"idle", "start", "run", "handshake"} => g \in initialized
    /\ opc[g] \in {"start", "run", "handshake"} => mutex = g
    /\ opc[g] \in {"run", "handshake"} => at[g] \in DOMAIN threads[g]
    /\ at[g] >= 1
    /\ Range(threads[g]) \subseteq Members[g]

Inv == TypeOK /\ OneList /\ FlagsFollowLists /\ OwnerPlaced
=============================================================================
