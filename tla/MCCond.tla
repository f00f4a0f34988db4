------------------------------- MODULE MCCond -------------------------------
(* Instances of Cond for TLC.  Calls[t] bounds the calls of thread t,        *)
(* Spuriously the spurious wake-ups.  With OwnedWaits a thread waits only    *)
(* with the mutex, as the programs under tests/binaries do.                  *)
EXTENDS Cond, TLC

CONSTANTS t1, t2, t3, Calls, Spuriously, OwnedWaits

VARIABLES calls, spuriously
MCvars == <<vars, calls, spuriously>>

MCInit == Init /\ calls = [t \in Threads |-> 0] /\ spuriously = 0

MCCall(t) ==
  /\ calls[t] < Calls[t] /\ Call(t)
  /\ OwnedWaits /\ pc'[t] = "pushed" => owner = t
  /\ calls' = [calls EXCEPT ![t] = @ + 1]
  /\ UNCHANGED spuriously

MCInside(t) == (Inside(t) \/ wait_timeout(t)) /\ UNCHANGED <<calls, spuriously>>

MCSpurious(t) ==
  /\ spuriously < Spuriously /\ spurious(t)
  /\ spuriously' = spuriously + 1
  /\ UNCHANGED calls

MCNext == \E t \in Threads : MCCall(t) \/ MCInside(t) \/ MCSpurious(t)

MCSpec == MCInit /\ [][MCNext]_MCvars
MCFairSpec == MCSpec /\ Fairness

\* Enough for t1 to hold a recursive mutex twice when it waits, and for t3 to
\* wait again after a wait that timed out and left its id behind.
MCCalls == t1 :> 3 @@ t2 :> 1 @@ t3 :> 3
TwoCalls == t1 :> 2 @@ t2 :> 2 @@ t3 :> 2
=============================================================================
