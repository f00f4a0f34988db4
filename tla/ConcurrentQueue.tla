-------------------------- MODULE ConcurrentQueue --------------------------
(***************************************************************************)
(* ConcurrentQueue.h, the queue behind the event queues of lv2, the        *)
(* interrupt threads and the SPU event ports: a bounded queue of events    *)
(* with one condition variable for all its waiters and a second queue of   *)
(* the threads that wait to receive, served first come first served or by  *)
(* priority.                                                               *)
(*                                                                         *)
(* A critical section of _mutex is one step.  A thread that waits on _cv   *)
(* is asleep until a notify_all, or a spurious wake-up, makes it look      *)
(* again.  Every thread of the program calls with one priority.            *)
(***************************************************************************)
EXTENDS Naturals, Sequences

CONSTANTS
  Users, Items,
  Size,            \* the capacity, at least 1 (asserted by sys_event_queue_create)
  Priority,        \* [Users -> Nat]
  Batches,         \* the sizes that tryReceive is called with
  Nobody

ASSUME QueueAssumption ==
  /\ Size \in Nat \ {0}
  /\ Priority \in [Users -> Nat]
  /\ Batches \subseteq Nat
  /\ Nobody \notin Users

VARIABLES
  byPriority,  \* the order of service, chosen with the queue: SYS_SYNC_PRIORITY,
               \* or else SYS_SYNC_FIFO
  values,      \* Seq(Items), _values
  waiting,     \* the threads in _waiting
  arrival,     \* [Users -> Nat]: when each was pushed
  front,       \* _waiting.top().id, or Nobody
  clock,       \* pushes to _waiting so far
  call,        \* [Users -> {"none", "send", "receive"}]: the call that waits
  item,        \* [Users -> Items or Nobody], the argument of a waiting send
  asleep,      \* the threads blocked on _cv
  got          \* [Users -> Seq(Items)], what a thread's last call returned

queueVars == <<byPriority, values, waiting, arrival, front, clock, call, item, asleep, got>>
queue == <<byPriority, waiting, arrival, front, clock>>

QueueInit ==
  /\ byPriority \in BOOLEAN
  /\ values = << >>
  /\ waiting = {} /\ front = Nobody /\ clock = 0
  /\ arrival = [t \in Users |-> 0]
  /\ call = [t \in Users |-> "none"]
  /\ item = [t \in Users |-> Nobody]
  /\ asleep = {}
  /\ got = [t \in Users |-> << >>]
-----------------------------------------------------------------------------
(* _waiting: a std::queue, or a std::priority_queue whose top is a thread  *)
(* of the greatest priority.  A push displaces the top only by a greater   *)
(* priority; a pop brings up any of the best.                              *)

\* goesBefore(t, u): t has to be served before u.
goesBefore(t, u) == IF byPriority THEN Priority[t] > Priority[u] ELSE arrival[t] < arrival[u]
best(S) == {t \in S : \A u \in S : ~goesBefore(u, t)}

top(t) == IF waiting = {} \/ (byPriority /\ Priority[t] > Priority[front]) THEN t ELSE front

push(t) ==
  /\ waiting' = waiting \cup {t}
  /\ clock' = clock + 1
  /\ arrival' = [arrival EXCEPT ![t] = clock + 1]
  /\ front' = top(t)
  /\ UNCHANGED byPriority

pop(t) ==
  /\ waiting' = waiting \ {t}
  /\ front' \in IF waiting = {t} THEN {Nobody} ELSE best(waiting \ {t})
  /\ UNCHANGED <<byPriority, arrival, clock>>

\* _cv.notify_all.
notify == asleep' = {}
-----------------------------------------------------------------------------
\* send: true when the event was queued; with nowait, false when the queue is
\* full.  A refused send changes nothing.
Send(t, e) ==
  /\ call[t] = "none" /\ Len(values) < Size
  /\ values' = Append(values, e)
  /\ notify
  /\ UNCHANGED <<queue, call, item, got>>

SendWait(t, e) ==
  /\ call[t] = "none" /\ Len(values) >= Size
  /\ call' = [call EXCEPT ![t] = "send"]
  /\ item' = [item EXCEPT ![t] = e]
  /\ asleep' = asleep \cup {t}
  /\ UNCHANGED <<values, queue, got>>

SendWake(t) ==
  /\ call[t] = "send" /\ t \notin asleep
  /\ IF Len(values) < Size
     THEN /\ values' = Append(values, item[t])
          /\ call' = [call EXCEPT ![t] = "none"]
          /\ notify
     ELSE asleep' = asleep \cup {t} /\ UNCHANGED <<values, call>>
  /\ UNCHANGED <<queue, item, got>>

\* Mutant: an event that is there is taken, whoever waits for one.
ReceiveBarging(t) ==
  /\ call[t] = "none" /\ values # << >>
  /\ got' = [got EXCEPT ![t] = <<Head(values)>>]
  /\ values' = Tail(values)
  /\ clock' = clock + 1
  /\ arrival' = [arrival EXCEPT ![t] = clock + 1]
  /\ notify
  /\ UNCHANGED <<byPriority, waiting, front, call, item>>

\* The first look of a receiver, with itself pushed: its turn or not.
ReceiveNow(t) ==
  /\ call[t] = "none" /\ values # << >> /\ top(t) = t
  /\ got' = [got EXCEPT ![t] = <<Head(values)>>]
  /\ values' = Tail(values)
  /\ clock' = clock + 1
  /\ arrival' = [arrival EXCEPT ![t] = clock + 1]
  /\ front' \in IF waiting = {} THEN {Nobody} ELSE best(waiting)
  /\ notify
  /\ UNCHANGED <<byPriority, waiting, call, item>>

ReceiveWait(t) ==
  /\ call[t] = "none" /\ (values = << >> \/ top(t) # t)
  /\ push(t)
  /\ call' = [call EXCEPT ![t] = "receive"]
  /\ asleep' = asleep \cup {t}
  /\ UNCHANGED <<values, item, got>>

\* Mutant: an event that is taken tells nobody.
ReceiveWakeSilent(t) ==
  /\ call[t] = "receive" /\ t \notin asleep
  /\ IF values # << >> /\ front = t
     THEN /\ pop(t)
          /\ got' = [got EXCEPT ![t] = <<Head(values)>>]
          /\ values' = Tail(values)
          /\ call' = [call EXCEPT ![t] = "none"]
          /\ UNCHANGED asleep
     ELSE asleep' = asleep \cup {t} /\ UNCHANGED <<values, queue, call, got>>
  /\ UNCHANGED item

ReceiveWake(t) ==
  /\ call[t] = "receive" /\ t \notin asleep
  /\ IF values # << >> /\ front = t
     THEN /\ pop(t)
          /\ got' = [got EXCEPT ![t] = <<Head(values)>>]
          /\ values' = Tail(values)
          /\ call' = [call EXCEPT ![t] = "none"]
          /\ notify
     ELSE asleep' = asleep \cup {t} /\ UNCHANGED <<values, queue, call, got>>
  /\ UNCHANGED item

\* Mutant: the last event that is returned is left in the queue.
TryReceiveTwice(t, n) ==
  /\ call[t] = "none"
  /\ LET number == IF n < Len(values) THEN n ELSE Len(values)
     IN /\ got' = [got EXCEPT ![t] = SubSeq(values, 1, number)]
        /\ values' = SubSeq(values, IF number = 0 THEN 1 ELSE number, Len(values))
  /\ notify
  /\ UNCHANGED <<queue, call, item>>

\* tryReceive, which takes no part in the order of service.
TryReceive(t, n) ==
  /\ call[t] = "none"
  /\ LET number == IF n < Len(values) THEN n ELSE Len(values)
     IN /\ got' = [got EXCEPT ![t] = SubSeq(values, 1, number)]
        /\ values' = SubSeq(values, number + 1, Len(values))
  /\ notify
  /\ UNCHANGED <<queue, call, item>>

Drain(t) ==
  /\ call[t] = "none"
  /\ values' = << >>
  /\ notify
  /\ UNCHANGED <<queue, call, item, got>>

\* A spurious wake-up of the condition variable.
Spurious(t) ==
  /\ t \in asleep
  /\ asleep' = asleep \ {t}
  /\ UNCHANGED <<values, queue, call, item, got>>
-----------------------------------------------------------------------------
QueueCall(t) ==
  \/ \E e \in Items : Send(t, e) \/ SendWait(t, e)
  \/ ReceiveNow(t) \/ ReceiveWait(t) \/ Drain(t)
  \/ \E n \in Batches : TryReceive(t, n)

Wake(t) == SendWake(t) \/ ReceiveWake(t)

QueueNext == \E t \in Users : QueueCall(t) \/ Wake(t) \/ Spurious(t)

QueueSpec == QueueInit /\ [][QueueNext]_queueVars
-----------------------------------------------------------------------------
(* Correctness.                                                            *)

\* Every variable holds what its declaration says.
QueueTypeOK ==
  /\ byPriority \in BOOLEAN
  /\ values \in Seq(Items)
  /\ waiting \subseteq Users
  /\ arrival \in [Users -> Nat]
  /\ front \in Users \cup {Nobody}
  /\ clock \in Nat
  /\ call \in [Users -> {"none", "send", "receive"}]
  /\ item \in [Users -> Items \cup {Nobody}]
  /\ asleep \subseteq Users
  /\ got \in [Users -> Seq(Items)]

\* The queue never holds more than its size, although a blocked sender looks
\* at it again long after it was woken.  Behaviour: the wait loop of send.
Bounded == Len(values) <= Size

\* No thread sleeps while what it waits for is there: a sender only while the
\* queue is full, a receiver only while it is empty or another goes first.
\* Behaviour: every change of _values and of the top of _waiting is followed
\* by notify_all, and one condition variable serves both kinds of waiters.
NoLostWakeup ==
  \A t \in asleep :
    \/ call[t] = "send" /\ Len(values) >= Size
    \/ call[t] = "receive" /\ (values = << >> \/ front # t)

\* The thread to be served is one of the best of those that wait.
\* Behaviour: _waiting.top() after any sequence of pushes and pops.
TopIsBest ==
  /\ waiting = {t \in Users : call[t] = "receive"}
  /\ IF waiting = {} THEN front = Nobody ELSE front \in best(waiting)

\* Receivers are served in order: whoever takes an event by receive, at once
\* or after a wait, goes after nobody who waits.
\* Behaviour: the predicate of the wait in receive.
ServedInOrder ==
  [][\A t \in Users :
       got'[t] # got[t] /\ (call[t] = "receive" \/ arrival'[t] # arrival[t])
         => \A u \in waiting : ~(IF byPriority THEN Priority[u] > Priority[t]
                                 ELSE u # t /\ arrival'[u] < arrival'[t])]_queueVars

Abstract == INSTANCE BlockingQueue WITH
  Threads <- Users, Events <- Items, Null <- Nobody, q <- values, turn <- front

Implements == Abstract!AbsFairSpec
=============================================================================
