------------------------- MODULE MCSPUGroupManager -------------------------
(* Instances of SPUGroupManager for TLC: a group of two threads, one of one *)
(* thread and, in some runs, a raw thread, on two SPUs.  Starts[g] bounds   *)
(* how often a group is started, Suspends how often one is suspended.       *)
EXTENDS SPUGroupManager, TLC

CONSTANTS ga, gb, a1, a2, b1, raw1, Starts, Suspends

VARIABLES starts, suspends, raws
MCvars == <<vars, starts, suspends, raws>>

MCInit == Init /\ starts = [g \in Groups |-> 0] /\ suspends = 0 /\ raws = 0

MCCall(g) ==
  /\ OwnerCall(g)
  /\ starts' = [starts EXCEPT ![g] = IF opc[g] = "idle" /\ opc'[g] = "start" THEN @ + 1 ELSE @]
  /\ starts'[g] <= Starts[g]
  /\ opc[g] = "none" => starts[g] < Starts[g]
  /\ UNCHANGED <<suspends, raws>>

MCSuspend(g) == /\ suspends < Suspends /\ Suspend(g)
                /\ suspends' = suspends + 1
                /\ UNCHANGED <<starts, raws>>

MCResume(g) == Resume(g) /\ UNCHANGED <<starts, suspends, raws>>
MCOwner(g)  == OwnerStep(g) /\ UNCHANGED <<starts, suspends, raws>>
MCThread(t) == ThreadStep(t) /\ UNCHANGED <<starts, suspends, raws>>
MCRaw(t)    == /\ \/ RawRun(t) /\ raws < 1 /\ raws' = raws + 1
                  \/ RawJoin(t) /\ UNCHANGED raws
               /\ UNCHANGED <<starts, suspends>>

MCNext ==
  \/ \E g \in Groups : MCCall(g) \/ MCOwner(g) \/ MCSuspend(g) \/ MCResume(g)
  \/ \E t \in RawThreads : MCRaw(t)
  \/ \E t \in Threads : MCThread(t)

MCSpec == MCInit /\ [][MCNext]_MCvars

\* The host schedules every thread; a guest that suspends a group resumes it,
\* and its SPU programs end once they run.
MCFairSpec ==
  /\ MCSpec
  /\ \A g \in Groups : WF_MCvars(MCOwner(g)) /\ WF_MCvars(MCResume(g))
  /\ \A t \in Threads : WF_MCvars(MCThread(t))

\* A join returns: no group is left waiting for SPUs that nobody uses, and no
\* thread waits for a resume that has happened.  A fault holds up its own group
\* and those that it goes before, since its SPUs are not given back, but none
\* that goes before it.
\* Behaviour: dispatch on every path, waitSuspended, the start handshake, and
\* the ways out of the loop that notifyThreadStopped does not hear of.
JoinReturns ==
  \A g \in Groups :
    opc[g] = "join" ~> \/ opc[g] # "join"
                       \/ \E h \in Groups : Rank[h] <= Rank[g] /\ faulted(h)

MCMembers == ga :> {a1, a2} @@ gb :> {b1}
MCRank    == ga :> 2 @@ gb :> 1
\* The group that goes first is started again.
MCStarts  == ga :> 1 @@ gb :> 2
OneStart  == ga :> 1 @@ gb :> 1
=============================================================================
