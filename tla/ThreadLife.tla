----------------------------- MODULE ThreadLife -----------------------------
(***************************************************************************)
(* Process.cpp, ppu/PPUThread.cpp and the thread calls of libs/sys.cpp:    *)
(* the life of the PPU threads of a process, from sys_ppu_thread_create to *)
(* the removal of the PPUThread object by Process::run.                    *)
(*                                                                         *)
(* A thread tells Process::run of what happens to it through an event      *)
(* queue of one place, and waits until its event has been taken, which is  *)
(* before it is handled.  Process::run gives most events to its caller,    *)
(* who calls it again; it removes a thread that has been joined and ends   *)
(* the process.  SPU threads and interrupt threads are left out.           *)
(***************************************************************************)
EXTENDS Naturals, Sequences, FiniteSets, Functions

CONSTANTS
  Objects,       \* the PPUThread objects, in the order of their creation or not
  Primary,       \* the one of the primary thread
  None           \* no event, or no thread

ASSUME LifeAssumption == Primary \in Objects

VARIABLES
  object,        \* [Objects -> "unborn", "alive" or "removed"], Process::_threads
  ids,           \* the ids in use and their objects, Process::_threadIds
  idOf,          \* [Objects -> PPUThread::_id]
  at,            \* [Objects -> what the thread is at]; the name of an event where
                 \* it is about to send it
  sent,          \* [Objects -> BOOLEAN]: the thread waits for its event to be taken
  graceful,      \* PPUThread::_threadFinishedGracefully
  target,        \* [Objects -> the object that the thread joins]
  joinRet,       \* [Objects -> what its last join gave]
  eventQueue,    \* Process::_eventQueue
  handling,      \* the event that Process::run has taken
  finished,      \* Process::_processFinished
  ended,         \* Process::run has returned for good, or called exit
  failed,        \* an assert has failed
  handles,       \* the ids that the program has not joined, each with its thread
  means          \* [Objects -> the thread that the program joins]

objects == <<object, ids, idOf>>
loop == <<eventQueue, handling, finished, ended>>
program == <<handles, means>>
lifeVars == <<objects, at, sent, graceful, target, joinRet, loop, failed, program>>

Events == {"Started", "Failure", "Finished", "Joined", "ProcessFinished"}
ThreadEvents == [event : Events, thread : Objects \cup {None}, sender : Objects]

LifeInit ==
  /\ object = [o \in Objects |-> IF o = Primary THEN "alive" ELSE "unborn"]
  /\ ids = [i \in {1} |-> Primary] /\ idOf = [o \in Objects |-> 1]
  /\ at = [o \in Objects |-> IF o = Primary THEN "Started" ELSE "unborn"]
  /\ sent = [o \in Objects |-> FALSE]
  /\ graceful = [o \in Objects |-> o = Primary]
  /\ target = [o \in Objects |-> None]
  /\ joinRet = [o \in Objects |-> "none"]
  /\ eventQueue = << >> /\ handling = None
  /\ finished = FALSE /\ ended = "no" /\ failed = FALSE
  /\ handles = {} /\ means = target

goes(t, where) == at' = [at EXCEPT ![t] = where]
inProgram(t) == ended = "no" /\ at[t] = "run"
-----------------------------------------------------------------------------
(* Thread calls of the program.                                            *)

\* IDMap::create: an id that was given back is used before a new one.
isFree(i) == i \notin DOMAIN ids /\ \A j \in 1 .. i - 1 : j \in DOMAIN ids

sys_ppu_thread_create(t, o) ==
  /\ inProgram(t) /\ object[o] = "unborn"
  /\ object' = [object EXCEPT ![o] = "alive"]
  /\ goes(o, "created")
  /\ \E i \in 1 .. Cardinality(DOMAIN ids) + 1 :
       /\ isFree(i)
       /\ ids' = [j \in DOMAIN ids \cup {i} |-> IF j = i THEN o ELSE ids[j]]
       /\ idOf' = [idOf EXCEPT ![o] = i]
       /\ handles' = handles \cup {[id |-> i, thread |-> o]}
  /\ UNCHANGED <<sent, graceful, target, joinRet, loop, failed, means>>

\* run() returns when the new thread has set _running.
sys_ppu_thread_start(t, id) ==
  /\ inProgram(t) /\ id \in DOMAIN ids /\ at[ids[id]] = "created"
  /\ goes(ids[id], "Started")
  /\ UNCHANGED <<objects, sent, graceful, target, joinRet, loop, failed, program>>

\* A program joins a thread once, and after it has started it.
sys_ppu_thread_join(t, h) ==
  /\ inProgram(t) /\ h.thread # t /\ (h.id \in DOMAIN ids => at[ids[h.id]] # "created")
  /\ handles' = handles \ {h} /\ means' = [means EXCEPT ![t] = h.thread]
  /\ IF h.id \in DOMAIN ids
     THEN target' = [target EXCEPT ![t] = ids[h.id]] /\ goes(t, "join") /\ UNCHANGED failed
     ELSE failed' = TRUE /\ UNCHANGED <<target, at>>
  /\ UNCHANGED <<objects, sent, graceful, joinRet, loop>>

sys_ppu_thread_exit(t) ==
  /\ inProgram(t) /\ goes(t, "Finished")
  /\ graceful' = [graceful EXCEPT ![t] = TRUE]
  /\ UNCHANGED <<objects, sent, target, joinRet, loop, failed, program>>

sys_process_exit(t) ==
  /\ inProgram(t) /\ goes(t, "ProcessFinished")
  /\ UNCHANGED <<objects, sent, graceful, target, joinRet, loop, failed, program>>

\* Any other exception.
fault(t) ==
  /\ inProgram(t) /\ goes(t, "Failure")
  /\ UNCHANGED <<objects, sent, graceful, target, joinRet, loop, failed, program>>
-----------------------------------------------------------------------------
(* Inside of a thread: ppuThreadEventHandler, the end of loop(), join().   *)

send(t) ==
  /\ ended = "no" /\ at[t] \in Events /\ ~sent[t] /\ eventQueue = << >>
  /\ eventQueue' = <<[event |-> at[t], thread |-> IF at[t] = "Joined" THEN target[t] ELSE t,
                      sender |-> t]>>
  /\ sent' = [sent EXCEPT ![t] = TRUE]
  /\ UNCHANGED <<objects, at, graceful, target, joinRet, handling, finished, ended, failed, program>>

\* What the thread goes on with when its event has been taken.
after(event) ==
  CASE event = "Started" -> "run"
    [] event = "Failure" -> "Finished"
    [] event = "Joined"  -> "joined"
    [] event \in {"Finished", "ProcessFinished"} -> "ending"

\* The last that loop() does with the object.
loopEnds(t) ==
  /\ ended = "no" /\ at[t] = "ending" /\ goes(t, "done")
  /\ UNCHANGED <<objects, sent, graceful, target, joinRet, loop, failed, program>>

joinThread(t) ==
  /\ ended = "no" /\ at[t] = "join" /\ at[target[t]] = "done"
  /\ goes(t, "Joined")
  /\ UNCHANGED <<objects, sent, graceful, target, joinRet, loop, failed, program>>

\* What is read of an object that is gone may be what was there, or anything; a
\* thread that did not end gracefully is an exception in the thread that joins.
joinReturns(t) ==
  /\ ended = "no" /\ at[t] = "joined"
  /\ \/ /\ graceful[target[t]]
        /\ joinRet' = [joinRet EXCEPT ![t] = "exit code"] /\ goes(t, "run")
     \/ /\ ~graceful[target[t]] /\ goes(t, "Failure") /\ UNCHANGED joinRet
     \/ /\ object[target[t]] = "removed"
        /\ \/ joinRet' = [joinRet EXCEPT ![t] = "anything"] /\ goes(t, "run")
           \/ goes(t, "Failure") /\ UNCHANGED joinRet
  /\ UNCHANGED <<objects, sent, graceful, target, loop, failed, program>>
-----------------------------------------------------------------------------
(* Process::run.                                                           *)

\* The event is taken, and its sender goes on.
dequeue ==
  /\ ended = "no" /\ ~finished /\ handling = None /\ eventQueue # << >>
  /\ LET e == Head(eventQueue)
     IN /\ handling' = e
        /\ sent' = [sent EXCEPT ![e.sender] = FALSE]
        /\ goes(e.sender, after(e.event))
  /\ eventQueue' = << >>
  /\ UNCHANGED <<objects, graceful, target, joinRet, finished, ended, failed, program>>

removeThread(o) ==
  IF object[o] = "alive"
  THEN /\ object' = [object EXCEPT ![o] = "removed"]
       /\ ids' = Restrict(ids, DOMAIN ids \ {idOf[o]})
       /\ UNCHANGED <<idOf, failed>>
  ELSE failed' = TRUE /\ UNCHANGED objects

\* Mutant: a thread is removed when it ends.
handleRemovesEnded ==
  /\ ended = "no" /\ handling # None
  /\ IF handling.event \in {"Finished", "ProcessFinished"}
     THEN removeThread(handling.thread)
     ELSE UNCHANGED <<objects, failed>>
  /\ finished' = (finished \/ handling.event = "ProcessFinished")
  /\ handling' = None
  /\ UNCHANGED <<at, sent, graceful, target, joinRet, eventQueue, ended, program>>

\* Mutant: the id of a thread is given back when it ends.
handleFreesId ==
  /\ ended = "no" /\ handling # None
  /\ LET o == handling.thread
     IN /\ ids' = IF handling.event \in {"Finished", "ProcessFinished"}
                  THEN Restrict(ids, DOMAIN ids \ {idOf[o]}) ELSE ids
        /\ object' = IF handling.event \in {"Joined", "ProcessFinished"}
                     THEN [object EXCEPT ![o] = "removed"] ELSE object
  /\ finished' = (finished \/ handling.event = "ProcessFinished")
  /\ handling' = None
  /\ UNCHANGED <<idOf, at, sent, graceful, target, joinRet, eventQueue, ended, failed, program>>

\* Mutant: _processFinished is not set.
handleGoesOn ==
  /\ ended = "no" /\ handling # None
  /\ IF handling.event \in {"Joined", "ProcessFinished"}
     THEN removeThread(handling.thread)
     ELSE UNCHANGED <<objects, failed>>
  /\ handling' = None
  /\ UNCHANGED <<at, sent, graceful, target, joinRet, eventQueue, finished, ended, program>>

\* The other events are returned to the caller, who calls run() again.
handle ==
  /\ ended = "no" /\ handling # None
  /\ IF handling.event \in {"Joined", "ProcessFinished"}
     THEN removeThread(handling.thread)
     ELSE UNCHANGED <<objects, failed>>
  /\ finished' = (finished \/ handling.event = "ProcessFinished")
  /\ handling' = None
  /\ UNCHANGED <<at, sent, graceful, target, joinRet, eventQueue, ended, program>>

finish ==
  /\ ended = "no" /\ finished
  /\ ended' = IF \E o \in Objects : object[o] = "alive" THEN "exit" ELSE "returned"
  /\ UNCHANGED <<objects, at, sent, graceful, target, joinRet, eventQueue, handling, finished,
                 failed, program>>
-----------------------------------------------------------------------------
LifeCall(t) ==
  \/ \E o \in Objects : sys_ppu_thread_create(t, o)
  \/ \E h \in handles : sys_ppu_thread_start(t, h.id) \/ sys_ppu_thread_join(t, h)
  \/ sys_ppu_thread_exit(t) \/ sys_process_exit(t) \/ fault(t)

LifeInside(t) == send(t) \/ loopEnds(t) \/ joinThread(t) \/ joinReturns(t)
Run == dequeue \/ handle \/ finish

LifeNext == (\E t \in Objects : LifeCall(t) \/ LifeInside(t)) \/ Run

\* The threads inside of a call and the one of Process::run go on.  The queue
\* serves every sender, as the calls are bounded.
LifeFairness == (\A t \in Objects : WF_lifeVars(LifeInside(t))) /\ WF_lifeVars(Run)

LifeSpec == LifeInit /\ [][LifeNext]_lifeVars
-----------------------------------------------------------------------------
(* Correctness.                                                            *)

ObjectTypes ==
  /\ object \in [Objects -> {"unborn", "alive", "removed"}] /\ idOf \in [Objects -> Nat]
  /\ DOMAIN ids \subseteq Nat \ {0} /\ ids \in [DOMAIN ids -> Objects]

ThreadTypes ==
  /\ at \in [Objects -> Events \cup {"unborn", "created", "run", "join", "joined",
                                     "ending", "done"}]
  /\ target \in [Objects -> Objects \cup {None}] /\ means \in [Objects -> Objects \cup {None}]
  /\ joinRet \in [Objects -> {"none", "exit code", "anything"}]

FlagTypes ==
  /\ sent \in [Objects -> BOOLEAN] /\ graceful \in [Objects -> BOOLEAN]
  /\ finished \in BOOLEAN /\ ended \in {"no", "returned", "exit"} /\ failed \in BOOLEAN

QueueTypes ==
  /\ eventQueue \in Seq(ThreadEvents) /\ Len(eventQueue) <= 1
  /\ handling \in ThreadEvents \cup {None} /\ handles \subseteq [id : Nat, thread : Objects]

LifeTypeOK == ObjectTypes /\ ThreadTypes /\ FlagTypes /\ QueueTypes

\* Until the process ends a join by id waits for the thread that was created with
\* the id, though ids are used again at once, and no lookup of an id or an object
\* fails its assertion.
\* Behaviour: createThread and removeThread change _threads and _threadIds together.
JoinReachesItsThread ==
  ~finished =>
    /\ ~failed
    /\ \A t \in Objects : at[t] \in {"join", "Joined"} => target[t] = means[t]

\* Until the process ends an object is there for its own thread until that has
\* ended, and for the thread that joins it until its event has been taken; what
\* join does after that is the one access to an object that may be gone.
\* Behaviour: Process::run removes a thread on Joined and on ProcessFinished only.
ObjectsOutliveTheirThreads ==
  ~finished =>
    /\ \A t \in Objects : at[t] \in {"join", "Joined"} => object[target[t]] = "alive"
    /\ \A o \in Objects : object[o] = "removed" => at[o] = "done"

\* A process that a thread ends does end, whatever the other threads wait for.
\* Behaviour: run takes every event, of a queue of one place, and tells its sender.
ProcessEnds == (\E t \in Objects : at[t] = "ProcessFinished") ~> ended # "no"

\* A join of a thread that called sys_ppu_thread_exit gives its exit code.
\* Behaviour: tests/RunnerTests.cpp expects "exitstatus: 3" of a program that joins
\* four threads that call sys_ppu_thread_exit(3).
JoinGivesExitCode ==
  [][\A t \in Objects :
       at[t] = "joined" /\ at'[t] # "joined" /\ graceful[means[t]]
         => at'[t] = "run" /\ joinRet'[t] = "exit code"]_lifeVars
=============================================================================
