---------------------------- MODULE MCThreadLife ----------------------------
(* Instances of ThreadLife for TLC.  LifeCalls[t] bounds the calls of t.     *)
EXTENDS ThreadLife, TLC

CONSTANTS o1, o2, o3, LifeCalls

VARIABLE lifeCalls
MCvars == <<lifeVars, lifeCalls>>

MCInit == LifeInit /\ lifeCalls = [t \in Objects |-> 0]

MCNext ==
  \/ \E t \in Objects :
       /\ lifeCalls[t] < LifeCalls[t] /\ LifeCall(t)
       /\ lifeCalls' = [lifeCalls EXCEPT ![t] = @ + 1]
  \/ ((\E t \in Objects : LifeInside(t)) \/ Run) /\ UNCHANGED lifeCalls

MCSpec == MCInit /\ [][MCNext]_MCvars
MCFairSpec == MCSpec /\ LifeFairness

MCLifeCalls == o1 :> 5 @@ o2 :> 2 @@ o3 :> 1
=============================================================================
