------------------------------- MODULE MCLv2 -------------------------------
(* The threads of lv2 and what they wait at, for TLC: a behaviour is one of   *)
(* the condition variable and its mutex (MCCond), of an event queue           *)
(* (ConcurrentQueue), of the event flag and the semaphore (WaitObjects) or of *)
(* the life of threads (ThreadLife), and plays says of which.  QueueCalls,    *)
(* ObjectCalls and LifeCalls bound the calls of a thread.                     *)
EXTENDS MCCond, ConcurrentQueue, WaitObjects, ThreadLife

CONSTANTS QueueCalls, ObjectCalls, o1, o2, o3, LifeCalls

VARIABLES plays, queueCalls, queueSpurious, objectCalls, lifeCalls

queueState == <<queueVars, queueCalls, queueSpurious>>
waitState == <<waitVars, objectCalls>>
lifeState == <<lifeVars, lifeCalls>>
all == <<plays, MCvars, queueState, waitState, lifeState>>

Lv2Init ==
  /\ plays \in {"cond", "queue", "objects", "threads"}
  /\ MCInit
  /\ QueueInit /\ queueCalls = [t \in Users |-> 0] /\ queueSpurious = 0
  /\ WaitInit /\ objectCalls = [t \in Callers |-> 0]
  /\ LifeInit /\ lifeCalls = [t \in Objects |-> 0]
  /\ plays # "cond" => ~recursive
  /\ plays # "queue" => ~byPriority

CondNext == plays = "cond" /\ MCNext /\ UNCHANGED <<queueState, waitState, lifeState>>

QueuePlays ==
  /\ plays = "queue"
  /\ \/ \E t \in Users :
          /\ queueCalls[t] < QueueCalls[t] /\ QueueCall(t)
          /\ queueCalls' = [queueCalls EXCEPT ![t] = @ + 1]
          /\ UNCHANGED queueSpurious
     \/ (\E t \in Users : Wake(t)) /\ UNCHANGED <<queueCalls, queueSpurious>>
     \/ /\ queueSpurious < Spuriously /\ \E t \in Users : Spurious(t)
        /\ queueSpurious' = queueSpurious + 1
        /\ UNCHANGED queueCalls
  /\ UNCHANGED <<MCvars, waitState, lifeState>>

\* A wait is for one bit and clears it, for all of the bits and clears them, or
\* for one of two bits and clears nothing.
MCFlagWaits ==
  {[on |-> "flag", bits |-> {b}, all |-> TRUE, clear |-> "bits"] : b \in Bits}
  \cup {[on |-> "flag", bits |-> Bits, all |-> TRUE, clear |-> "all"],
        [on |-> "flag", bits |-> Bits, all |-> FALSE, clear |-> "none"]}

ObjectsNext ==
  /\ plays = "objects"
  /\ \/ \E t \in Callers :
          /\ objectCalls[t] < ObjectCalls[t] /\ ObjectCall(t)
          /\ wants'[t].on = "flag" => wants'[t] \in MCFlagWaits
          /\ objectCalls' = [objectCalls EXCEPT ![t] = @ + 1]
     \/ (\E t \in Callers : awakened(t) \/ awakenAlone(t)) /\ UNCHANGED objectCalls
  /\ UNCHANGED <<MCvars, queueState, lifeState>>

ThreadsNext ==
  /\ plays = "threads"
  /\ \/ \E t \in Objects :
          /\ lifeCalls[t] < LifeCalls[t] /\ LifeCall(t)
          /\ lifeCalls' = [lifeCalls EXCEPT ![t] = @ + 1]
     \/ ((\E t \in Objects : LifeInside(t)) \/ Run) /\ UNCHANGED lifeCalls
  /\ UNCHANGED <<MCvars, queueState, waitState>>

Lv2Next == (CondNext \/ QueuePlays \/ ObjectsNext \/ ThreadsNext) /\ UNCHANGED plays

\* The fairness of Cond and of ThreadLife, in the behaviours that are theirs, and
\* a thread that the queue has woken runs.
Lv2Fairness ==
  /\ Fairness
  /\ \A t \in Users : WF_queueVars(plays = "queue" /\ Wake(t))
  /\ \A t \in Objects : WF_lifeVars(plays = "threads" /\ LifeInside(t))
  /\ WF_lifeVars(plays = "threads" /\ Run)

Lv2Spec == Lv2Init /\ [][Lv2Next]_all
Lv2FairSpec == Lv2Spec /\ Lv2Fairness

MCQueueCalls == t1 :> 2 @@ t2 :> 2 @@ t3 :> 1
MCPriority == t1 :> 2 @@ t2 :> 2 @@ t3 :> 1
MCObjectCalls == t1 :> 1 @@ t2 :> 1 @@ t3 :> 2
MCLifeCalls == o1 :> 5 @@ o2 :> 2 @@ o3 :> 1
=============================================================================
