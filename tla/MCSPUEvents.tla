---------------------------- MODULE MCSPUEvents ----------------------------
(* Instances of SPUEvents for TLC.  PortCalls bounds the calls of the      *)
(* connecting thread, PortEvents those of each SPU.                        *)
EXTENDS SPUEvents

CONSTANTS PortCalls, PortEvents, s1, q1

VARIABLES portCalls, portEvents
portCounts == <<portCalls, portEvents>>
portVars == <<eventVars, portCounts>>

PortsInit == EventsInit /\ portCalls = 0 /\ portEvents = [s \in SPUs |-> 0]

\* SPUs and queues are alike: the first call is about s1 and q1, or the whole group.
FirstCall ==
  /\ main'.queue \in {q1, Null}
  /\ \A s \in SPUs : \A list \in {toPPU'[s], toSPU'[s]} :
       list # << >> => s = s1 /\ list[1].queue = q1

PortsMainCall ==
  /\ MainCall /\ portCalls < PortCalls
  /\ portCalls = 0 => FirstCall
  /\ portCalls' = portCalls + 1 /\ UNCHANGED portEvents

PortsSPUCall(s) ==
  /\ SPUCall(s) /\ portEvents[s] < PortEvents
  /\ portEvents' = [portEvents EXCEPT ![s] = @ + 1] /\ UNCHANGED portCalls

PortsStep ==
  /\ \/ MainStep
     \/ \E s \in SPUs : SPUStep(s)
     \/ \E q \in Queues : PPUStep(q)
  /\ UNCHANGED portCounts

PortsNext == ~failed /\ (PortsMainCall \/ PortsStep \/ \E s \in SPUs : PortsSPUCall(s))

PortsSpec == PortsInit /\ [][PortsNext]_portVars
PortsFairSpec == PortsSpec /\ EventsFairness
=============================================================================
