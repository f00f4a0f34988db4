----------------------------- MODULE SPUEvents -----------------------------
(***************************************************************************)
(* libs/sync/queue.cpp and the event part of spu/SPUThread.cpp: SPU        *)
(* threads send events through ports that the PPU connects to event        *)
(* queues, and receive events from queues bound to them.                   *)
(*                                                                         *)
(* An SPU keeps _eventQueuesMutex while it is blocked on a queue; the      *)
(* connecting and disconnecting calls of the PPU need that mutex for each  *)
(* SPU they touch.  Those calls come from one PPU thread, as in the        *)
(* programs under tests/binaries; other PPU threads send and receive.      *)
(* The queue itself is the bounded queue of module BlockingQueue, here the *)
(* number of its events.                                                   *)
(***************************************************************************)
EXTENDS Naturals, Sequences, FiniteSets, SequencesExt

CONSTANTS
  SPUs,          \* the threads of one group
  Queues,
  LastPort,      \* ports are 0 .. LastPort; the code has 63
  Size,          \* the capacity of every queue
  Reuses,        \* whether the program connects a port that it has disconnected
                 \* from one queue to another while the first one exists
  Null

Ports == 0 .. LastPort

ASSUME EventsAssumption ==
  /\ LastPort \in Nat /\ Size \in Nat \ {0}
  /\ IsFiniteSet(SPUs)
  /\ Reuses \in BOOLEAN
  /\ Null \notin Queues

VARIABLES
  toPPU,         \* [SPUs -> Seq(port and queue)], _eventQueuesToPPU
  toSPU,         \* [SPUs -> Seq(port and queue)], _eventQueuesToSPU
  connected,     \* [Queues -> Seq(SPU and port)], queue_info::connectedSpuThreads
  exists,        \* the queues that are in the map
  length,        \* [Queues -> 0 .. Size], the events in each queue
  spu,           \* [SPUs -> what the SPU is at, with its port and queue]
  main,          \* what the connecting PPU thread is at
  program,       \* [SPUs -> [Ports -> Queues or Null]]: what the program has connected
  bound,         \* the same for what it has bound
  failed         \* an assert of SPUThread.cpp has failed

ports == <<toPPU, toSPU, connected>>
wishes == <<program, bound>>
eventVars == <<ports, exists, length, spu, main, wishes, failed>>

running == [at |-> "run", port |-> 0, queue |-> Null]
idle == [at |-> "idle", queue |-> Null, port |-> 0, rest |-> << >>]

EventsInit ==
  /\ toPPU = [s \in SPUs |-> << >>] /\ toSPU = [s \in SPUs |-> << >>]
  /\ connected = [q \in Queues |-> << >>]
  /\ exists = Queues
  /\ length = [q \in Queues |-> 0]
  /\ spu = [s \in SPUs |-> running]
  /\ main = idle
  /\ program = [s \in SPUs |-> [p \in Ports |-> Null]] /\ bound = program
  /\ failed = FALSE

\* _eventQueuesMutex is held by its SPU, blocked in send or receive.
locked(s) == spu[s].at \in {"send", "receive"}

\* find_if by port: the queue of the first entry, or Null.
find(list, port) ==
  IF \E i \in DOMAIN list : list[i].port = port
  THEN list[SelectInSeq(list, LAMBDA e : e.port = port)].queue
  ELSE Null

\* erase_if: the library's for vectors, which is more special than that of utils.h
\* and erases every entry.  kept[i] is what it keeps of the first i entries.
erase(list, port) ==
  LET kept[i \in 0 .. Len(list)] ==
        IF i = 0 THEN << >>
        ELSE IF list[i].port = port THEN kept[i - 1] ELSE Append(kept[i - 1], list[i])
  IN kept[Len(list)]
entry(port, q) == [port |-> port, queue |-> q]
-----------------------------------------------------------------------------
(* handleInterrupt, for SendEvent and ThrowEvent, and handleReceiveEvent.  *)
(* The program uses the ports it has connected.  The answer that SendEvent *)
(* leaves in the SPU's own mailbox is read before the next call.           *)

Send(s, port) ==
  /\ spu[s].at = "run" /\ program[s][port] # Null
  /\ spu' = [spu EXCEPT ![s] = [at |-> "lock", port |-> port, queue |-> Null]]
  /\ UNCHANGED <<ports, exists, length, main, wishes, failed>>

SendLock(s) ==
  /\ spu[s].at = "lock"
  /\ LET q == find(toPPU[s], spu[s].port)
     IN IF q # Null
        THEN spu' = [spu EXCEPT ![s] = [at |-> "send", port |-> @.port, queue |-> q]] /\ UNCHANGED failed
        ELSE failed' = TRUE /\ UNCHANGED spu
  /\ UNCHANGED <<ports, exists, length, main, wishes>>

\* Mutant: the mutex is not given back.
SendDoneKeeps(s) ==
  /\ spu[s].at = "send" /\ length[spu[s].queue] < Size
  /\ length' = [length EXCEPT ![spu[s].queue] = @ + 1]
  /\ UNCHANGED <<ports, exists, spu, main, wishes, failed>>

SendDone(s) ==
  /\ spu[s].at = "send" /\ length[spu[s].queue] < Size
  /\ length' = [length EXCEPT ![spu[s].queue] = @ + 1]
  /\ spu' = [spu EXCEPT ![s] = running]
  /\ UNCHANGED <<ports, exists, main, wishes, failed>>

Receive(s, port) ==
  /\ spu[s].at = "run" /\ bound[s][port] # Null
  /\ spu' = [spu EXCEPT ![s] = [at |-> "lockReceive", port |-> port, queue |-> Null]]
  /\ UNCHANGED <<ports, exists, length, main, wishes, failed>>

ReceiveLock(s) ==
  /\ spu[s].at = "lockReceive"
  /\ LET q == find(toSPU[s], spu[s].port)
     IN IF q # Null
        THEN spu' = [spu EXCEPT ![s] = [at |-> "receive", port |-> @.port, queue |-> q]] /\ UNCHANGED failed
        ELSE failed' = TRUE /\ UNCHANGED spu
  /\ UNCHANGED <<ports, exists, length, main, wishes>>

ReceiveDone(s) ==
  /\ spu[s].at = "receive" /\ length[spu[s].queue] > 0
  /\ length' = [length EXCEPT ![spu[s].queue] = @ - 1]
  /\ spu' = [spu EXCEPT ![s] = running]
  /\ UNCHANGED <<ports, exists, main, wishes, failed>>
-----------------------------------------------------------------------------
(* The PPU threads at the other end: sys_event_queue_receive of a queue    *)
(* that no SPU is bound to, and sys_event_port_send, which does not wait.  *)

isBound(q) == \E s \in SPUs, port \in Ports : bound[s][port] = q

PPUReceive(q) ==
  /\ q \in exists /\ ~isBound(q) /\ length[q] > 0
  /\ length' = [length EXCEPT ![q] = @ - 1]
  /\ UNCHANGED <<ports, exists, spu, main, wishes, failed>>

PPUSend(q) ==
  /\ isBound(q) /\ length[q] < Size
  /\ length' = [length EXCEPT ![q] = @ + 1]
  /\ UNCHANGED <<ports, exists, spu, main, wishes, failed>>
-----------------------------------------------------------------------------
(* The connecting calls.  The program connects a port that it has not      *)
(* connected, and disconnects one that no SPU is using.                    *)

inUse(s, port) == spu[s].at \in {"lock", "send"} /\ spu[s].port = port
inReceive(s, port) == spu[s].at \in {"lockReceive", "receive"} /\ spu[s].port = port

\* What the program keeps to without Reuses: no other queue remembers the port.
fresh(s, port, q) == Reuses \/ \A r \in Queues \ {q} : ~Contains(connected[r], <<s, port>>)

connect_event(s, q, port) ==
  /\ main = idle /\ q \in exists /\ ~isBound(q) /\ program[s][port] = Null /\ ~locked(s)
  /\ fresh(s, port, q)
  /\ toPPU' = [toPPU EXCEPT ![s] = Append(@, entry(port, q))]
  /\ connected' = [connected EXCEPT ![q] = Append(@, <<s, port>>)]
  /\ program' = [program EXCEPT ![s][port] = q]
  /\ UNCHANGED <<toSPU, exists, length, spu, main, bound, failed>>

disconnect_event(s, port) ==
  /\ main = idle /\ program[s][port] # Null /\ ~inUse(s, port) /\ ~locked(s)
  /\ toPPU' = [toPPU EXCEPT ![s] = erase(@, port)]
  /\ program' = [program EXCEPT ![s][port] = Null]
  /\ UNCHANGED <<toSPU, connected, exists, length, spu, main, bound, failed>>

bind_queue(s, q, port) ==
  /\ main = idle /\ q \in exists /\ ~locked(s) /\ bound[s][port] = Null
  /\ \A t \in SPUs, p \in Ports : program[t][p] # q
  /\ toSPU' = [toSPU EXCEPT ![s] = Append(@, entry(port, q))]
  /\ bound' = [bound EXCEPT ![s][port] = q]
  /\ UNCHANGED <<toPPU, connected, exists, length, spu, main, program, failed>>

\* Mutant: the entries of another port are erased with it.
unbind_queueAll(s, port) ==
  /\ main = idle /\ bound[s][port] # Null /\ ~inReceive(s, port) /\ ~locked(s)
  /\ toSPU' = [toSPU EXCEPT ![s] = << >>]
  /\ bound' = [bound EXCEPT ![s][port] = Null]
  /\ UNCHANGED <<toPPU, connected, exists, length, spu, main, program, failed>>

unbind_queue(s, port) ==
  /\ main = idle /\ bound[s][port] # Null /\ ~inReceive(s, port) /\ ~locked(s)
  /\ toSPU' = [toSPU EXCEPT ![s] = erase(@, port)]
  /\ bound' = [bound EXCEPT ![s][port] = Null]
  /\ UNCHANGED <<toPPU, connected, exists, length, spu, main, program, failed>>

\* isQueuePortAvailableToConnect, of every thread of the group.
available(port) == \A s \in SPUs : find(toPPU[s], port) = Null

\* group_connect_event_all_threads: the first requested port that is free in
\* every thread, then the threads one by one.  CELL_EISCONN changes nothing.
connect_all(q, req) ==
  /\ main = idle /\ q \in exists /\ ~isBound(q)
  /\ \E port \in req :
       /\ available(port) /\ \A p \in req : p < port => ~available(p)
       /\ \A s \in SPUs : fresh(s, port, q)
       /\ main' = [at |-> "all", queue |-> q, port |-> port, rest |-> SetToSeq(SPUs)]
  /\ UNCHANGED <<ports, exists, length, spu, wishes, failed>>

connect_allStep ==
  /\ main.at = "all" /\ main.rest # << >>
  /\ LET s == Head(main.rest)
     IN /\ ~locked(s)
        /\ toPPU' = [toPPU EXCEPT ![s] = Append(@, entry(main.port, main.queue))]
        /\ connected' = [connected EXCEPT ![main.queue] = Append(@, <<s, main.port>>)]
  /\ main' = [main EXCEPT !.rest = Tail(@)]
  /\ UNCHANGED <<toSPU, exists, length, spu, wishes, failed>>

connect_allReturn ==
  /\ main.at = "all" /\ main.rest = << >>
  /\ program' = [s \in SPUs |-> [program[s] EXCEPT ![main.port] = main.queue]]
  /\ main' = idle
  /\ UNCHANGED <<ports, exists, length, spu, bound, failed>>

\* Mutant: the queue is dropped and its ports stay connected.
queue_destroyOnly(q) ==
  /\ main = idle /\ q \in exists /\ ~isBound(q)
  /\ \A s \in SPUs, p \in Ports : program[s][p] = q => ~inUse(s, p)
  /\ main' = [at |-> "destroy", queue |-> q, port |-> 0, rest |-> << >>]
  /\ program' = [s \in SPUs |-> [p \in Ports |-> IF program[s][p] = q THEN Null ELSE program[s][p]]]
  /\ UNCHANGED <<ports, exists, length, spu, bound, failed>>

\* sys_event_queue_destroy: every port that was ever connected to the queue is
\* disconnected, then the queue leaves the map.
queue_destroy(q) ==
  /\ main = idle /\ q \in exists /\ ~isBound(q)
  /\ \A s \in SPUs, p \in Ports : program[s][p] = q => ~inUse(s, p)
  /\ main' = [at |-> "destroy", queue |-> q, port |-> 0, rest |-> connected[q]]
  /\ program' = [s \in SPUs |-> [p \in Ports |-> IF program[s][p] = q THEN Null ELSE program[s][p]]]
  /\ UNCHANGED <<ports, exists, length, spu, bound, failed>>

destroyStep ==
  /\ main.at = "destroy" /\ main.rest # << >>
  /\ LET s == Head(main.rest)[1]
         port == Head(main.rest)[2]
     IN ~locked(s) /\ toPPU' = [toPPU EXCEPT ![s] = erase(@, port)]
  /\ main' = [main EXCEPT !.rest = Tail(@)]
  /\ UNCHANGED <<toSPU, connected, exists, length, spu, wishes, failed>>

destroyReturn ==
  /\ main.at = "destroy" /\ main.rest = << >>
  /\ exists' = exists \ {main.queue}
  /\ connected' = [connected EXCEPT ![main.queue] = << >>]
  /\ length' = [length EXCEPT ![main.queue] = 0]
  /\ main' = idle
  /\ UNCHANGED <<toPPU, toSPU, spu, wishes, failed>>
-----------------------------------------------------------------------------
\* The calls of the connecting thread and of the SPUs, and what goes on in them.
MainCall ==
  \/ \E q \in Queues :
       \/ \E s \in SPUs, port \in Ports : connect_event(s, q, port) \/ bind_queue(s, q, port)
       \/ \E req \in SUBSET Ports : connect_all(q, req)
       \/ queue_destroy(q)
  \/ \E s \in SPUs, port \in Ports : disconnect_event(s, port) \/ unbind_queue(s, port)

MainStep == connect_allStep \/ connect_allReturn \/ destroyStep \/ destroyReturn

SPUCall(s) == \E port \in Ports : Send(s, port) \/ Receive(s, port)
SPUStep(s) == SendLock(s) \/ SendDone(s) \/ ReceiveLock(s) \/ ReceiveDone(s)
PPUStep(q) == PPUReceive(q) \/ PPUSend(q)

EventsNext ==
  /\ ~failed
  /\ \/ MainCall \/ MainStep
     \/ \E s \in SPUs : SPUCall(s) \/ SPUStep(s)
     \/ \E q \in Queues : PPUStep(q)

\* Every thread runs, and the PPU threads go on sending and receiving.
EventsFairness ==
  /\ WF_eventVars(~failed /\ MainStep)
  /\ \A s \in SPUs : WF_eventVars(~failed /\ SPUStep(s))
  /\ \A q \in Queues : WF_eventVars(~failed /\ PPUStep(q))

EventsSpec == EventsInit /\ [][EventsNext]_eventVars
EventsFairSpec == EventsSpec /\ EventsFairness
-----------------------------------------------------------------------------
(* Correctness.                                                            *)

Entries == [port : Ports, queue : Queues]

\* Every variable holds what its declaration says.
EventsTypeOK ==
  /\ toPPU \in [SPUs -> Seq(Entries)] /\ toSPU \in [SPUs -> Seq(Entries)]
  /\ connected \in [Queues -> Seq(SPUs \X Ports)]
  /\ exists \subseteq Queues
  /\ length \in [Queues -> 0 .. Size]
  /\ spu \in [SPUs -> [at : {"run", "lock", "send", "lockReceive", "receive"},
                       port : Ports, queue : Queues \cup {Null}]]
  /\ main \in [at : {"idle", "all", "destroy"}, queue : Queues \cup {Null}, port : Ports,
               rest : Seq(SPUs) \cup Seq(SPUs \X Ports)]
  /\ program \in [SPUs -> [Ports -> Queues \cup {Null}]]
  /\ bound \in [SPUs -> [Ports -> Queues \cup {Null}]]
  /\ failed \in BOOLEAN

\* An SPU that uses a port the program has connected or bound finds it.
\* Behaviour: assert(info != end(_eventQueuesToPPU)) of handleInterrupt and
\* assert(info != end(_eventQueuesToSPU)) of handleReceiveEvent.
AssertionsHold == ~failed

\* An event goes to the queue that the program connected the port to, and
\* comes from the queue it bound, whatever was connected to that port before.
\* Behaviour: the lists of ports are searched from the front and never
\* searched for an older entry when a queue is connected.
RightQueue ==
  \A s \in SPUs :
    /\ spu[s].at = "send" => spu[s].queue = program[s][spu[s].port]
    /\ spu[s].at = "receive" => spu[s].queue = bound[s][spu[s].port]

\* An SPU's send or receive returns, and so do the calls that need the mutexes
\* of the SPUs, as long as the other PPU threads send and receive.
\* Behaviour: _eventQueuesMutex is held across the wait on a queue.
CallsReturn ==
  /\ main.at # "idle" ~> main.at = "idle"
  /\ \A s \in SPUs : spu[s].at # "run" ~> spu[s].at = "run"
=============================================================================
